-------------------------------- MODULE McpRun --------------------------------
(***************************************************************************)
(* A flow with one MCP server, recorded and replayed: the orchestrator     *)
(* (McpContext of flowproof-cli/src/agent_flow.rs) over the two transports.*)
(* It waits for the agent to leave, or for a service to answer its prompts, *)
(* then reads what was captured, or how far the lane was served; the       *)
(* stand-in may still be at work, and so may the service.                  *)
(***************************************************************************)
EXTENDS McpStdio, McpHttp

VARIABLES
  pc,       \* where the orchestrator is
  expired,  \* the time it waits for the out file is over
  lane,     \* the lane it read
  verdict   \* what became of the run

runVars == <<pc, expired, lane, verdict>>
vars == <<boundaryVars, stdioVars, httpVars, runVars>>

RunStarts == pc = "run" /\ expired = FALSE /\ lane = <<>> /\ verdict = "none"

Init == BoundaryInit /\ StdioStarts /\ HttpStarts /\ RunStarts
-----------------------------------------------------------------------------
\* The stand-in keeps the calls by seq, which no two share; the listener in the
\* order of its answers.
InOrder(entries) ==
  IF script.transport = "http" THEN entries
  ELSE [k \in DOMAIN entries |->
          CHOOSE x \in ToSet(entries) : Cardinality({y \in ToSet(entries) : y.n < x.n}) = k - 1]

Lane(entries) ==
  LET ordered == InOrder(entries)
  IN [k \in DOMAIN ordered |-> [body |-> Body(ordered[k].n), result |-> ordered[k].result]]

End(v) == pc' = "over" /\ verdict' = v

\* The flow is recorded if something was captured.
Mint(entries, notes) ==
  \/ /\ entries # <<>>
     /\ trace' = [lane |-> Lane(entries), events |-> notes]
     /\ recorded' = (~spoilt /\ ~trouble)
     /\ End("minted")
  \/ entries = <<>> /\ End("failed") /\ UNCHANGED <<trace, recorded>>

\* The replay passes if no call diverged and the whole lane was served.
Check(n, off) == /\ End(IF ~off /\ n = Len(trace.lane) THEN "pass" ELSE "failed")
                 /\ UNCHANGED <<trace, recorded>>

Same == UNCHANGED <<agentVars, serverVars, captureVars, script, mode, edit, stdioVars, httpVars>>

\* A process has left; a service is not waited for, and goes on as it likes.
DriveEnds == /\ pc = "run" /\ (left # "here" \/ script.service)
             /\ pc' = "collect" /\ spoilt' = (spoilt \/ (left = "here" /\ Busy))
             /\ UNCHANGED <<expired, lane, verdict, trace, recorded>> /\ Same

\* The out file is read as soon as there is one that can be parsed.
ReadOut ==
  /\ pc = "collect" /\ script.transport = "stdio"
  /\ \/ files.out.kind = "calls" /\ mode = "record" /\ Mint(files.out.calls, files.out.events)
     \/ files.out.kind = "served" /\ Check(files.out.served, files.out.diverged)
     \/ files.out.kind = "error" /\ End("failed") /\ UNCHANGED <<trace, recorded>>
     \/ /\ files.out.kind \in {"no file", "empty", "torn"} /\ expired
        /\ End("failed") /\ UNCHANGED <<trace, recorded>>
  /\ UNCHANGED <<expired, lane, spoilt>> /\ Same

Expire == /\ pc = "collect" /\ script.transport = "stdio" /\ ~expired
          /\ expired' = TRUE /\ spoilt' = (spoilt \/ at["A"] # "gone" \/ script.faulty)
          /\ UNCHANGED <<pc, lane, verdict, trace, recorded>> /\ Same

\* The listener is asked for its error, then for its calls, then for its
\* notifications.
ReadError ==
  /\ pc = "collect" /\ Listening("record")
  /\ IF trouble THEN End("failed") ELSE pc' = "captured" /\ UNCHANGED verdict
  /\ UNCHANGED <<expired, lane, trace, recorded, spoilt>> /\ Same

ReadCaptured ==
  /\ pc = "captured"
  /\ lane' = calls /\ pc' = "events"
  /\ UNCHANGED <<expired, verdict, trace, recorded, spoilt>> /\ Same

ReadEvents ==
  /\ pc = "events"
  /\ Mint(lane, events)
  /\ UNCHANGED <<expired, lane, spoilt>> /\ Same

ReadLog ==
  /\ pc = "collect" /\ Listening("replay")
  /\ Check(served, diverged)
  /\ UNCHANGED <<expired, lane, spoilt>> /\ Same

\* The trace is replayed against the same agent, or one that changed.
Replay ==
  /\ pc = "over" /\ verdict = "minted"
  /\ mode' = "replay" /\ edit' \in {"same", "changed", "extra", "fewer"}
  /\ sent' = 0 /\ got' = [i \in DOMAIN got |-> "none"] /\ heard' = FALSE /\ left' = "here"
  /\ asked' = {} /\ serverUp' = TRUE /\ noted' = FALSE /\ demanded' = FALSE
  /\ calls' = <<>> /\ events' = <<>> /\ trouble' = FALSE /\ served' = 0 /\ diverged' = FALSE
  /\ spoilt' = FALSE
  /\ at' = [t \in Thread |-> IF t = "A" THEN "start" ELSE "ended"]
  /\ taken' = 0 /\ pipe' = <<>> /\ cur' = NoMessage
  /\ snap' = [t \in Thread |-> Empty] /\ fd' = [t \in Thread |-> "none"]
  /\ files' = [tmp |-> NoFile, out |-> NoFile]
  /\ handled' = {} /\ lock' = 0 /\ stage' = "idle" /\ reply' = "none" /\ stream' = "none"
  /\ pc' = "run" /\ expired' = FALSE /\ lane' = <<>> /\ verdict' = "none"
  /\ UNCHANGED <<script, trace, recorded>>

Ended == pc = "over" /\ verdict # "minted" /\ UNCHANGED vars
-----------------------------------------------------------------------------
Agent ==
  \/ AgentCalls /\ UNCHANGED <<stdioVars, httpVars, runVars>>
  \/ AgentLeaves("closed") /\ UNCHANGED <<stdioVars, httpVars, runVars>>
  \/ /\ script.transport = "stdio" /\ AgentLeaves("killed") /\ Die
     /\ UNCHANGED <<taken, pipe, cur, snap, fd, files, httpVars, runVars>>
  \/ OpenStream /\ UNCHANGED <<stdioVars, setVars, runVars>>

Transport ==
  \/ StandIn /\ UNCHANGED <<setVars, spoilt, httpVars, runVars>>
  \/ Listener /\ UNCHANGED <<setVars, stdioVars, runVars>>

Server ==
  \/ RealServer /\ UNCHANGED <<setVars, spoilt, httpVars, runVars>>
  \/ Upstream /\ UNCHANGED <<setVars, stdioVars, runVars>>

Collecting == DriveEnds \/ ReadOut \/ ReadError \/ ReadCaptured \/ ReadEvents \/ ReadLog \/ Replay

Working == pc # "over"

Next == (Working /\ (Agent \/ Transport \/ Server \/ Expire)) \/ Collecting \/ Ended

Spec == Init /\ [][Next]_vars

\* flowproof's own threads run; nothing is assumed of the agent or the server.
FairSpec == Spec /\ WF_vars(Working /\ Transport)
-----------------------------------------------------------------------------
\* What a call may be answered while it is recorded.
Answers == {"none", "real", "mock", "fault", "null", "error"}
Entry == [n: Nat, result: Answers]
Message == [kind: {"none", "answer", "note", "demand"}, n: Nat, answer: Answers]
Parts == {"start", "read", "due", "snap", "open", "put", "rename", "answer", "pass", "join", "ended", "gone"}

\* Every variable has its type: what the two sides and the capture hold, what the
\* stand-in and the listener hold, and where the orchestrator is.  The minted lane
\* is a sequence of what was asked and what was answered.
TypeBoundary ==
  /\ script \in Scripts /\ mode \in {"record", "replay"}
  /\ edit \in {"same", "changed", "extra", "fewer"}
  /\ sent \in 0..(N + 1) /\ got = [i \in 1..(N + 1) |-> got[i]]
  /\ left \in {"here", "closed", "killed"} /\ asked \subseteq 1..sent
  /\ calls \in Seq(Entry) /\ served \in Nat /\ diverged \in BOOLEAN
  /\ Len(trace.lane) \in Nat /\ DOMAIN trace.lane = 1..Len(trace.lane)
  /\ \A k \in DOMAIN trace.lane :
       trace.lane[k] = [body |-> trace.lane[k].body, result |-> trace.lane[k].result]

TypeStdio ==
  /\ at \in [Thread -> Parts] /\ taken \in 0..sent /\ pipe \in Seq(Message) /\ cur \in Message
  /\ fd \in [Thread -> {"none", "tmp", "out"}]
  /\ files = [tmp |-> files.tmp, out |-> files.out]

TypeHttp ==
  /\ handled \subseteq 1..sent /\ stage \in {"idle", "forward", "respond"}
  /\ stage # "idle" => lock \in handled

TypeOK ==
  /\ TypeBoundary /\ TypeStdio /\ TypeHttp
  /\ pc \in {"run", "collect", "captured", "events", "over"} /\ lane \in Seq(Entry)
  /\ verdict \in {"none", "minted", "pass", "failed"}

\* An agent whose calls come one after the other, or through one pipe.
Ordered == script.ahead = 1 \/ script.transport = "stdio"

\* flush_lane, "THE durability guarantee": every call whose result the agent was
\* given is in the minted lane with that result, even if the agent then killed
\* its stand-in, and the lane has the calls in the order in which they were made.
\* It is not claimed of a stand-in that met trouble, nor of a service that still
\* calls when its drive is over: its lane is read while it does.
AnsweredIsKept ==
  verdict = "minted" /\ ~trouble /\ (script.service => ~spoilt) =>
    /\ \A i \in DOMAIN got : got[i] \notin {"none", "error"} =>
         [body |-> i, result |-> Captured(got[i])] \in ToSet(trace.lane)
    /\ Ordered => \A j, k \in DOMAIN trace.lane : j < k => trace.lane[j].body < trace.lane[k].body

\* What was recorded without trouble replays: an agent that makes the same calls
\* again, and stays for their answers and for the notification that comes with
\* them, passes, in whichever order the answers came when it was recorded.  (One
\* that does not stay for the notification need not: see OutInEveryCase.)
SameAgentPasses ==
  mode = "replay" /\ edit = "same" /\ recorded /\ ~spoilt /\ Ordered => verdict # "failed"

\* run_stand_in, "the out file is written in every case so the orchestrator can see
\* what happened": when the agent that was recorded made its calls again, had an
\* answer to every one of them and closed its side, its stand-in leaves how far it
\* served the lane.
OutInEveryCase ==
  /\ mode = "replay" /\ recorded /\ edit = "same"
  /\ left = "closed" /\ ~Busy /\ at["A"] = "gone"
  => files.out.kind = "served"

\* check_replay: in a replay that passes, whatever the agent was answered is the
\* recorded result of that call, and no call came before the stand-in that the
\* recording does not have.
PassReproduces ==
  verdict = "pass" =>
    /\ \A i \in 1..sent : got[i] # "none" =>
         [body |-> Body(i), result |-> got[i]] \in ToSet(trace.lane)
    /\ script.transport = "stdio" => sent = Len(trace.lane)

Places == 1..4
Wanted(i) == mode = "replay" /\ pc # "over" /\ Waiting(i)

\* An agent that goes on only when it has heard what it heard in the recording.
WantsToHear == /\ mode = "replay" /\ recorded /\ edit = "same" /\ left = "here"
               /\ script.transport = "stdio"
               /\ UnderWay = {} /\ script.heeds = sent + 1 /\ ~heard

\* write_error, "so a diverged or past-the-end request does not leave the agent
\* waiting forever": every call of a replay is answered while the agent is there
\* and the run is not over,
\* and so is the wait for a notification that came before the recorded call.
ReplayAnswers ==
  /\ \A i \in Places : Wanted(i) ~> (~Wanted(i) \/ left # "here")
  /\ WantsToHear ~> (heard \/ left # "here")
=============================================================================
