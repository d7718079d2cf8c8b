------------------------------- MODULE McpStdio -------------------------------
(***************************************************************************)
(* The stdio stand-in (flowproof-adapters/src/mcp_stdio.rs): a process the *)
(* agent spawns as its MCP server.  While recording, thread A reads the    *)
(* agent and thread B the real server, and both rewrite the out file; when *)
(* replaying, one thread serves the lane.                                  *)
(*                                                                         *)
(* The out file is written to a temporary file, which is then renamed.  A  *)
(* writer's open file follows the rename.                                  *)
(***************************************************************************)
EXTENDS McpBoundary

VARIABLES
  at,     \* where each of the two threads is
  taken,  \* the calls read from the agent, counted by seq
  pipe,   \* what the server wrote and thread B has not read
  cur,    \* the message thread B handles
  snap,   \* what each thread is about to write
  fd,     \* the file each thread writes: "tmp", "out", or one that is gone
  files   \* the temporary file and the out file

stdioVars == <<at, taken, pipe, cur, snap, fd, files>>

Thread == {"A", "B"}
Empty == [kind |-> "empty"]
NoFile == [kind |-> "no file"]
ErrorOut == [kind |-> "error"]
Kept(c, e) == [kind |-> "calls", calls |-> c, events |-> e]
Served(n, d) == [kind |-> "served", served |-> n, diverged |-> d]
NoMessage == [kind |-> "none", n |-> 0, answer |-> "none"]

StdioStarts ==
  /\ at = [t \in Thread |-> IF t = "A" THEN "start" ELSE "ended"]
  /\ taken = 0 /\ pipe = <<>> /\ cur = NoMessage
  /\ snap = [t \in Thread |-> Empty] /\ fd = [t \in Thread |-> "none"]
  /\ files = [tmp |-> NoFile, out |-> NoFile]

Goto(t, p) == at' = [at EXCEPT ![t] = p]

\* The process ends, both threads with it.
Die == at' = [t \in Thread |-> "gone"]

\* The stand-in runs, and may be killed by the agent.
Alive == script.transport = "stdio" /\ at["A"] # "gone"
Recording(t, p) == Alive /\ mode = "record" /\ at[t] = p

Publish(content) == files' = [files EXCEPT !.out = content]
-----------------------------------------------------------------------------
(* Writing the out file. *)

\* One writer's text over another's: the longer one covers it.
Overwrite(old, new) ==
  IF old.kind = "calls" /\ (Len(new.calls) < Len(old.calls) \/ Len(new.events) < Len(old.events))
  THEN [kind |-> "torn"] ELSE new

\* Where a thread goes when its lane is persisted.
Persisted(t) == Goto(t, IF t = "A" THEN "answer" ELSE "pass")

\* A flush that fails ends thread A, and with it the stand-in; thread B notes it
\* and goes on.
FlushFails(t) ==
  IF t = "A" THEN Die /\ UNCHANGED trouble ELSE Goto(t, "pass") /\ trouble' = TRUE

Snap(t) ==
  /\ Recording(t, "snap")
  /\ snap' = [snap EXCEPT ![t] = Kept(calls, events)]
  /\ Goto(t, "open")
  /\ UNCHANGED <<taken, pipe, cur, fd, files, captureVars>>

\* The temporary file is created, or truncated.
Open(t) ==
  /\ Recording(t, "open")
  /\ \/ /\ files' = [files EXCEPT !.tmp = Empty]
        /\ fd' = [fd EXCEPT ![t] = "tmp"]
        /\ Goto(t, "put") /\ UNCHANGED trouble
     \/ script.faulty /\ FlushFails(t) /\ UNCHANGED <<files, fd>>
  /\ UNCHANGED <<taken, pipe, cur, snap, calls, events, served, diverged>>

Put(t) ==
  /\ Recording(t, "put")
  /\ IF fd[t] = "none" THEN UNCHANGED files
     ELSE files' = [files EXCEPT ![fd[t]] = Overwrite(@, snap[t])]
  /\ Goto(t, "rename")
  /\ UNCHANGED <<taken, pipe, cur, snap, fd, captureVars>>

\* What is written under the old name goes on under the new one; a file that was
\* replaced is gone.
Renamed(f) == CASE f = "tmp" -> "out" [] OTHER -> "none"

Rename(t) ==
  /\ Recording(t, "rename")
  /\ IF files.tmp.kind = "no file" THEN FlushFails(t) /\ UNCHANGED <<files, fd>>
     ELSE /\ files' = [tmp |-> NoFile, out |-> files.tmp]
          /\ fd' = [u \in Thread |-> IF u = t THEN "none" ELSE Renamed(fd[u])]
          /\ Persisted(t) /\ UNCHANGED trouble
  /\ UNCHANGED <<taken, pipe, cur, snap, calls, events, served, diverged>>

Flush(t) == (Snap(t) \/ Open(t) \/ Put(t) \/ Rename(t)) /\ UNCHANGED <<agentVars, serverVars>>
-----------------------------------------------------------------------------
(* Recording. *)

\* The real server is started, or cannot be.
Start ==
  /\ Recording("A", "start")
  /\ \/ at' = [t \in Thread |-> "read"] /\ UNCHANGED files
     \/ script.faulty /\ Publish(ErrorOut) /\ Die
  /\ UNCHANGED <<agentVars, serverVars, captureVars, taken, pipe, cur, snap, fd>>

\* A mocked tool is answered without the server, once the lane is persisted.
TakeMock ==
  /\ Recording("A", "read") /\ taken < sent /\ Mocked(taken + 1)
  /\ taken' = taken + 1
  /\ calls' = Append(calls, [n |-> taken + 1, result |-> "mock"])
  /\ Goto("A", "snap")
  /\ UNCHANGED <<agentVars, serverVars, events, trouble, served, diverged, pipe, cur, snap, fd, files>>

AnswerMock ==
  /\ Recording("A", "answer")
  /\ Give(taken, "mock") /\ Goto("A", "read")
  /\ UNCHANGED <<sent, heard, left, serverVars, captureVars, taken, pipe, cur, snap, fd, files>>

\* Any other call is parked and forwarded; a server that is gone never gets it.
TakeCall ==
  /\ Recording("A", "read") /\ taken < sent /\ ~Mocked(taken + 1)
  /\ taken' = taken + 1
  /\ asked' = IF serverUp THEN asked \cup {taken + 1} ELSE asked
  /\ UNCHANGED <<agentVars, serverUp, noted, demanded, captureVars, at, pipe, cur, snap, fd, files>>

\* The agent closed its side: so is the server's stdin.
Close ==
  /\ Recording("A", "read") /\ taken = sent /\ left # "here"
  /\ Goto("A", "join")
  /\ UNCHANGED <<agentVars, serverVars, captureVars, taken, pipe, cur, snap, fd, files>>

\* (A faulty variant: an answer is passed on first and kept only at the end.)
AfterCapture == "pass"

\* An answer is persisted before it is passed on.
AfterAnswer == "snap"

\* Thread B captures what the server wrote before it passes it on.
Hears ==
  /\ Recording("B", "read") /\ pipe # <<>>
  /\ LET m == Head(pipe) IN
     /\ cur' = m
     /\ \/ /\ m.kind = "answer"
           /\ calls' = Append(calls, [n |-> m.n, result |-> Captured(m.answer)])
           /\ Goto("B", AfterAnswer)
           /\ UNCHANGED <<events, trouble>>
        \/ /\ m.kind = "note"
           /\ events' = Append(events, taken)
           /\ Goto("B", "pass")
           /\ UNCHANGED <<calls, trouble>>
        \/ /\ m.kind = "demand"
           /\ trouble' = TRUE
           /\ Goto("B", "pass")
           /\ UNCHANGED <<calls, events>>
  /\ pipe' = Tail(pipe)
  /\ UNCHANGED <<agentVars, serverVars, served, diverged, taken, snap, fd, files>>

Pass ==
  /\ Recording("B", "pass")
  /\ \/ cur.kind = "answer" /\ Give(cur.n, cur.answer) /\ UNCHANGED heard
     \/ cur.kind = "note" /\ Hear /\ UNCHANGED got
     \/ cur.kind = "demand" /\ UNCHANGED <<got, heard>>
  /\ cur' = NoMessage /\ Goto("B", "read")
  /\ UNCHANGED <<sent, left, serverVars, captureVars, taken, pipe, snap, fd, files>>

EndOfServer ==
  /\ Recording("B", "read") /\ pipe = <<>> /\ ~serverUp
  /\ Goto("B", "ended")
  /\ UNCHANGED <<agentVars, serverVars, captureVars, taken, pipe, cur, snap, fd, files>>

\* The last write, by thread A alone: the error, or all there is.
WriteLast ==
  /\ Recording("A", "join") /\ at["B"] = "ended"
  /\ \/ Publish(IF trouble THEN ErrorOut ELSE Kept(calls, events))
     \/ script.faulty /\ UNCHANGED files
  /\ Die
  /\ UNCHANGED <<agentVars, serverVars, captureVars, taken, pipe, cur, snap, fd>>
-----------------------------------------------------------------------------
(* Replaying. *)

Replaying(p) == Alive /\ mode = "replay" /\ at["A"] = p

\* The notifications before the first call go out first, the others on the heels
\* of the answer they followed.
Announce ==
  /\ Replaying("start") \/ Replaying("due")
  /\ IF Owes THEN Hear ELSE UNCHANGED heard
  /\ Goto("A", "read")
  /\ UNCHANGED <<sent, got, left, serverVars, captureVars, taken, pipe, cur, snap, fd, files>>

\* Every call is answered, in the order of the lane.
Serve ==
  /\ Replaying("read") /\ taken < sent
  /\ taken' = taken + 1
  /\ ServeLane(taken + 1) /\ Give(taken + 1, Reply(taken + 1))
  /\ Goto("A", IF Serves(Body(taken + 1)) THEN "due" ELSE "read")
  /\ UNCHANGED <<sent, heard, left, serverVars, pipe, cur, snap, fd, files>>

\* The verdict is written when the agent closes its side.
WriteServed ==
  /\ Replaying("read") /\ taken = sent /\ left # "here"
  /\ \/ Publish(Served(served, diverged))
     \/ script.faulty /\ UNCHANGED files
  /\ Die
  /\ UNCHANGED <<agentVars, serverVars, captureVars, taken, pipe, cur, snap, fd>>
-----------------------------------------------------------------------------
(* Writing to the agent. *)

\* What thread A writes to an agent that has closed its side may fail: a mocked
\* answer, an answer of the lane, a notification.  That ends the stand-in, with no
\* further write of the out file.  (Thread B does not look.)
BreakOff ==
  /\ \/ Recording("A", "answer")
     \/ Replaying("read") /\ taken < sent
     \/ (Replaying("start") \/ Replaying("due")) /\ Owes
  /\ left = "closed" /\ Die
  /\ UNCHANGED <<agentVars, serverVars, captureVars, taken, pipe, cur, snap, fd, files>>
-----------------------------------------------------------------------------
(* The real server. *)

Writes(m) == pipe' = Append(pipe, m)

\* It answers its calls in any order, and may answer with an error.
ServerAnswers ==
  /\ \E n \in asked, r \in {"real"} \cup (IF script.faulty THEN {"fault"} ELSE {}) :
       /\ Writes([kind |-> "answer", n |-> n, answer |-> r])
       /\ asked' = asked \ {n}
  /\ UNCHANGED <<serverUp, noted, demanded>>

ServerNotifies ==
  /\ ~noted /\ noted' = TRUE
  /\ Writes([NoMessage EXCEPT !.kind = "note"])
  /\ UNCHANGED <<asked, serverUp, demanded>>

ServerDemands ==
  /\ script.demands /\ ~demanded /\ demanded' = TRUE
  /\ Writes([NoMessage EXCEPT !.kind = "demand"])
  /\ UNCHANGED <<asked, serverUp, noted>>

\* It ends when its stdin is closed, or fails.
ServerEnds ==
  /\ at["A"] = "join" \/ script.faulty
  /\ serverUp' = FALSE /\ asked' = {}
  /\ UNCHANGED <<noted, demanded, pipe>>

RealServer ==
  /\ Alive /\ mode = "record" /\ at["A"] # "start" /\ serverUp
  /\ ServerAnswers \/ ServerNotifies \/ ServerDemands \/ ServerEnds
  /\ UNCHANGED <<agentVars, captureVars, at, taken, cur, snap, fd, files>>

StandIn ==
  \/ (\E t \in Thread : Flush(t)) \/ Start \/ TakeMock \/ AnswerMock \/ TakeCall \/ Close
  \/ Hears \/ Pass \/ EndOfServer \/ WriteLast
  \/ Announce \/ Serve \/ WriteServed \/ BreakOff
=============================================================================
