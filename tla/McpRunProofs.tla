---------------------------- MODULE McpRunProofs ----------------------------
(***************************************************************************)
(* What is proved of a flow with an MCP server, for all scripts: its       *)
(* types, what a replay that passes has answered, what a recording keeps   *)
(* of what the agent was given, and that it replays.                       *)
(***************************************************************************)
EXTENDS McpRun, FiniteSetTheorems, WellFoundedInduction, TLAPS

\* What is written while recording is never taken for the outcome of a replay.
AsRecorded(content) == /\ content.kind # "served"
                       /\ content.kind = "calls" => content.calls \in Seq(Entry)

FilesOfTheirMode ==
  /\ mode = "record" => /\ AsRecorded(files.tmp) /\ AsRecorded(files.out)
                        /\ \A t \in Thread : AsRecorded(snap[t])
  /\ DOMAIN snap = Thread
  /\ pc \in {"captured", "events"} => mode = "record"

\* The served count of the out file is the one the stand-in ended with.
ServedIsFinal ==
  mode = "replay" /\ files.out.kind = "served" =>
    /\ files.out.served = served /\ files.out.diverged = diverged
    /\ script.transport = "stdio" /\ at["A"] = "gone" /\ left # "here" /\ taken = sent

\* The lane says that this call was answered so.
InLane(i, answer) == [body |-> Body(i), result |-> answer] \in ToSet(trace.lane)

GivenInLane == \A i \in DOMAIN got : got[i] # "none" => InLane(i, got[i])

\* As long as nothing diverged, whatever was answered is in the lane.
Reproduced ==
  mode = "replay" /\ ~diverged =>
    /\ script.transport = "stdio" => served = taken
    /\ GivenInLane
    /\ stage # "idle" => stage = "respond" /\ InLane(lock, reply)

PassKnown ==
  verdict = "pass" => /\ pc = "over" /\ mode = "replay"
                      /\ ~diverged /\ served = Len(trace.lane)
                      /\ script.transport = "stdio" => taken = sent
-----------------------------------------------------------------------------
(* Types. *)

Typed == TypeOK /\ FilesOfTheirMode

\* The script has a call.
LEMMA ScriptTyped ==
  ASSUME TypeBoundary
  PROVE  /\ N \in Nat \ {0} /\ Count \in Nat /\ Count <= N + 1 /\ sent \in Nat
         /\ DOMAIN got = 1..(N + 1)
<1>1. script.calls \in Seq({"real", "mock"}) /\ script.calls # <<>>
    BY McpAssumption DEF TypeBoundary
<1>2. N \in Nat \ {0}
    BY <1>1 DEF N
<1> QED
    BY <1>2 DEF Count, TypeBoundary

\* An answer the agent is handed is put in its place.
LEMMA Handed ==
  ASSUME TypeBoundary, NEW i, NEW answer, Give(i, answer), UNCHANGED <<script, left>>
  PROVE  /\ got' = [j \in 1..(N + 1) |-> got'[j]] /\ N' = N
         /\ \A j \in 1..(N + 1) : got'[j] = got[j] \/ (j = i /\ got'[j] = answer)
<1>1. N \in Nat /\ sent \in 0..(N + 1) /\ got = [j \in 1..(N + 1) |-> got[j]]
    BY ScriptTyped DEF TypeBoundary
<1>2. got' = got \/ got' = [got EXCEPT ![i] = answer]
    BY DEF Give
<1>3. CASE got' = got
    BY <1>1, <1>3 DEF N
<1>4. CASE got' = [got EXCEPT ![i] = answer]
    <2> DEFINE D == 1..(N + 1)
    <2>1. got = [j \in D |-> got[j]]
        BY <1>1
    <2>2. N' = N
        BY DEF N
    <2> HIDE DEF D
    <2>3. got' = [j \in D |-> IF j = i THEN answer ELSE got[j]]
        BY <2>1, <1>4
    <2>4. got' = [j \in D |-> got'[j]]
        BY <2>3
    <2> QED
        BY <2>2, <2>3, <2>4 DEF D
<1> QED
    BY <1>2, <1>3, <1>4

\* What a step leaves alone keeps its type.
LEMMA StdioKept ==
  ASSUME TypeStdio, UNCHANGED stdioVars, sent \in Nat, sent' \in Nat, sent <= sent'
  PROVE  TypeStdio'
BY DEF TypeStdio, stdioVars

LEMMA HttpKept ==
  ASSUME TypeHttp, UNCHANGED httpVars, sent \in Nat, sent' \in Nat, sent <= sent'
  PROVE  TypeHttp'
BY DEF TypeHttp, httpVars

LEMMA BoundaryKept ==
  ASSUME TypeBoundary, UNCHANGED <<script, mode, edit, sent, got, left, asked, calls, served, diverged, trace>>
  PROVE  TypeBoundary'
BY DEF TypeBoundary, N

LEMMA BoundaryStep ==
  ASSUME TypeBoundary, UNCHANGED <<script, mode, edit, trace>>,
         sent' \in 0..(N + 1), got' = [i \in 1..(N + 1) |-> got'[i]],
         left' \in {"here", "closed", "killed"}, asked' \subseteq 1..sent',
         calls' \in Seq(Entry), served' \in Nat, diverged' \in BOOLEAN
  PROVE  TypeBoundary'
<1>1. N' = N
    BY DEF N
<1> QED
    BY <1>1 DEF TypeBoundary

LEMMA CountsTyped ==
  ASSUME served \in Nat, diverged \in BOOLEAN, served' = served \/ served' = served + 1,
         diverged' = diverged \/ diverged' = TRUE
  PROVE  served' \in Nat /\ diverged' \in BOOLEAN
<1>1. served' \in Nat
    OBVIOUS
<1>2. diverged' \in BOOLEAN
    OBVIOUS
<1> QED
    BY <1>1, <1>2

LEMMA FilesKept ==
  ASSUME FilesOfTheirMode, UNCHANGED <<mode, files, snap>>, pc' \in {"run", "collect", "over"} \/ pc' = pc
  PROVE  FilesOfTheirMode'
BY DEF FilesOfTheirMode, AsRecorded

LEMMA TypedInit == Init => Typed
<1> SUFFICES ASSUME Init PROVE Typed
    OBVIOUS
<1> USE DEF Init
<1>1. N \in Nat \ {0}
    <2>1. script.calls \in Seq({"real", "mock"}) /\ script.calls # <<>>
        BY McpAssumption DEF BoundaryInit
    <2> QED
        BY <2>1 DEF N
<1>2. TypeBoundary
    <2>1. sent \in 0..(N + 1) /\ got = [i \in 1..(N + 1) |-> got[i]]
        BY <1>1 DEF BoundaryInit, BoundaryStarts
    <2>2. Len(trace.lane) \in Nat /\ DOMAIN trace.lane = 1..Len(trace.lane) /\ DOMAIN trace.lane = {}
        BY DEF BoundaryInit, NoTrace
    <2>3. calls \in Seq(Entry) /\ asked \subseteq 1..sent
        BY DEF BoundaryInit, BoundaryStarts
    <2>4. script \in Scripts /\ mode \in {"record", "replay"} /\ edit \in {"same", "changed", "extra", "fewer"}
        BY DEF BoundaryInit
    <2>5. left \in {"here", "closed", "killed"} /\ served \in Nat /\ diverged \in BOOLEAN
        BY DEF BoundaryInit, BoundaryStarts
    <2> HIDE DEF Init
    <2> QED
        BY <2>1, <2>2, <2>3, <2>4, <2>5 DEF TypeBoundary
<1>3. TypeStdio
    <2>1. at \in [Thread -> Parts] /\ fd \in [Thread -> {"none", "tmp", "out"}]
        BY DEF StdioStarts, Parts
    <2>2. cur \in Message /\ pipe \in Seq(Message) /\ taken \in 0..sent
        BY DEF StdioStarts, NoMessage, Message, Answers, BoundaryInit, BoundaryStarts
    <2>3. files = [tmp |-> files.tmp, out |-> files.out]
        BY DEF StdioStarts
    <2> QED
        BY <2>1, <2>2, <2>3 DEF TypeStdio
<1>4. TypeHttp
    BY DEF HttpStarts, TypeHttp
<1>5. FilesOfTheirMode
    BY DEF StdioStarts, RunStarts, FilesOfTheirMode, AsRecorded, NoFile, Empty
<1>6. lane \in Seq(Entry) /\ pc = "run" /\ verdict = "none"
    BY DEF RunStarts
<1> QED
    BY <1>2, <1>3, <1>4, <1>5, <1>6 DEF Typed, TypeOK

LEMMA AgentTyped ==
  ASSUME Typed, Agent
  PROVE  Typed'
<1>1. /\ TypeBoundary /\ TypeStdio /\ TypeHttp /\ FilesOfTheirMode
      /\ N \in Nat \ {0} /\ Count \in Nat /\ Count <= N + 1 /\ sent \in 0..(N + 1)
      /\ lane \in Seq(Entry) /\ pc \in {"run", "collect", "captured", "events", "over"}
      /\ verdict \in {"none", "minted", "pass", "failed"}
    BY ScriptTyped DEF Typed, TypeOK, TypeBoundary
<1>2. CASE AgentCalls /\ UNCHANGED <<stdioVars, httpVars, runVars>>
    <2>1. sent' = sent + 1 /\ sent' \in 0..(N + 1)
        BY <1>1, <1>2 DEF AgentCalls
    <2>2. UNCHANGED <<script, mode, edit, got, left, asked, calls, served, diverged, trace>>
        BY <1>2 DEF AgentCalls, serverVars, captureVars, setVars
    <2>3. TypeBoundary'
        <3>1. got' = [i \in 1..(N + 1) |-> got'[i]] /\ asked' \subseteq 1..sent'
            BY <1>1, <2>1, <2>2 DEF TypeBoundary
        <3> QED
            BY <1>1, <2>1, <2>2, <3>1, BoundaryStep DEF TypeBoundary
    <2>4. TypeStdio' /\ TypeHttp'
        BY <1>1, <1>2, <2>1, StdioKept, HttpKept
    <2>5. FilesOfTheirMode'
        BY <1>1, <1>2, <2>2, FilesKept DEF stdioVars, runVars
    <2> QED
        BY <1>1, <1>2, <2>3, <2>4, <2>5 DEF Typed, TypeOK, runVars
<1>3. ASSUME NEW how \in {"closed", "killed"}, AgentLeaves(how)
      PROVE  TypeBoundary' /\ UNCHANGED <<sent, mode>>
    <2>1. UNCHANGED <<script, mode, edit, sent, got, asked, calls, served, diverged, trace>> /\ left' = how
        BY <1>3 DEF AgentLeaves, serverVars, captureVars, setVars
    <2> QED
        BY <1>1, <2>1 DEF TypeBoundary, N
<1>4. CASE AgentLeaves("closed") /\ UNCHANGED <<stdioVars, httpVars, runVars>>
    <2>1. TypeBoundary' /\ UNCHANGED <<sent, mode>>
        BY <1>3, <1>4
    <2>2. TypeStdio' /\ TypeHttp'
        BY <1>1, <1>4, <2>1, StdioKept, HttpKept
    <2>3. FilesOfTheirMode'
        BY <1>1, <1>4, <2>1, FilesKept DEF stdioVars, runVars
    <2> QED
        BY <1>1, <1>4, <2>1, <2>2, <2>3 DEF Typed, TypeOK, runVars
<1>5. CASE AgentLeaves("killed") /\ Die /\ UNCHANGED <<taken, pipe, cur, snap, fd, files, httpVars, runVars>>
    <2>1. TypeBoundary' /\ UNCHANGED <<sent, mode>>
        BY <1>3, <1>5
    <2>2. at' \in [Thread -> Parts]
        BY <1>5 DEF Die, Parts
    <2>3. TypeStdio'
        BY <1>1, <1>5, <2>1, <2>2 DEF TypeStdio
    <2>4. TypeHttp'
        BY <1>1, <1>5, <2>1, HttpKept
    <2>5. FilesOfTheirMode'
        BY <1>1, <1>5, <2>1, FilesKept DEF runVars
    <2> QED
        BY <1>1, <1>5, <2>1, <2>3, <2>4, <2>5 DEF Typed, TypeOK, runVars
<1>6. CASE OpenStream /\ UNCHANGED <<stdioVars, setVars, runVars>>
    <2>1. TypeBoundary' /\ UNCHANGED <<sent, mode>>
        BY <1>1, <1>6, BoundaryKept DEF OpenStream, agentVars, serverVars, captureVars, setVars
    <2>2. TypeStdio'
        BY <1>1, <1>6, <2>1, StdioKept
    <2>3. TypeHttp'
        BY <1>1, <1>6, <2>1 DEF OpenStream, TypeHttp
    <2>4. FilesOfTheirMode'
        BY <1>1, <1>6, <2>1, FilesKept DEF stdioVars, runVars
    <2> QED
        BY <1>1, <1>6, <2>1, <2>2, <2>3, <2>4 DEF Typed, TypeOK, runVars
<1> QED
    BY <1>2, <1>4, <1>5, <1>6 DEF Agent
-----------------------------------------------------------------------------
(* Types: the stand-in. *)

\* A step of one side, from what it changes.
LEMMA StandInStep ==
  ASSUME Typed, UNCHANGED <<setVars, httpVars, runVars, sent, left>>,
         got' = [i \in 1..(N + 1) |-> got'[i]], asked' \subseteq 1..sent,
         calls' \in Seq(Entry), served' \in Nat, diverged' \in BOOLEAN,
         TypeStdio', FilesOfTheirMode'
  PROVE  Typed'
<1>1. TypeBoundary /\ TypeHttp /\ sent \in Nat /\ sent' = sent
    BY ScriptTyped DEF Typed, TypeOK
<1>2. UNCHANGED <<script, mode, edit, trace>>
    BY DEF setVars
<1>3. sent' \in 0..(N + 1) /\ left' \in {"here", "closed", "killed"}
    BY <1>1 DEF TypeBoundary
<1>4. TypeBoundary'
    BY <1>1, <1>2, <1>3, BoundaryStep
<1>5. TypeHttp'
    BY <1>1, HttpKept
<1> QED
    BY <1>4, <1>5 DEF Typed, TypeOK, runVars

\* What is written, and where.
LEMMA FlushTyped ==
  ASSUME Typed, NEW t \in Thread, Flush(t), UNCHANGED <<setVars, httpVars, runVars>>
  PROVE  Typed'
<1> USE DEF Flush, Recording
<1>1. /\ TypeBoundary /\ TypeStdio /\ FilesOfTheirMode /\ sent \in Nat
      /\ at \in [Thread -> Parts] /\ fd \in [Thread -> {"none", "tmp", "out"}]
      /\ files = [tmp |-> files.tmp, out |-> files.out]
      /\ AsRecorded(files.tmp) /\ AsRecorded(files.out) /\ \A u \in Thread : AsRecorded(snap[u])
      /\ DOMAIN snap = Thread /\ calls \in Seq(Entry) /\ mode = "record" /\ mode' = mode
      /\ asked \subseteq 1..sent /\ got = [i \in 1..(N + 1) |-> got[i]]
      /\ served \in Nat /\ diverged \in BOOLEAN
    BY ScriptTyped DEF Typed, TypeOK, TypeBoundary, TypeStdio, FilesOfTheirMode, Snap, Open, Put, Rename, setVars
<1>2. UNCHANGED <<sent, left, got, asked, calls, served, diverged, taken, pipe, cur, mode, pc>>
    BY DEF Snap, Open, Put, Rename, agentVars, serverVars, captureVars, setVars, runVars
<1>3. at' \in [Thread -> Parts]
    BY <1>1 DEF Snap, Open, Put, Rename, Persisted, FlushFails, Goto, Die, Parts
<1>4. fd' \in [Thread -> {"none", "tmp", "out"}]
    BY <1>1 DEF Snap, Open, Put, Rename, Renamed
<1>5. /\ files' = [tmp |-> files'.tmp, out |-> files'.out]
      /\ AsRecorded(files'.tmp) /\ AsRecorded(files'.out)
    <2>1. CASE Snap(t)
        BY <1>1, <2>1 DEF Snap
    <2>2. CASE Open(t)
        <3>1. AsRecorded(Empty)
            BY DEF AsRecorded, Empty
        <3>2. files' = files \/ files' = [tmp |-> Empty, out |-> files.out]
            BY <1>1, <2>2 DEF Open
        <3> QED
            BY <1>1, <3>1, <3>2
    <2>3. CASE Put(t)
        <3>1. \A old : AsRecorded(Overwrite(old, snap[t]))
            BY <1>1 DEF AsRecorded, Overwrite
        <3>2. \/ files' = files
              \/ files' = [tmp |-> Overwrite(files.tmp, snap[t]), out |-> files.out]
              \/ files' = [tmp |-> files.tmp, out |-> Overwrite(files.out, snap[t])]
            BY <1>1, <2>3 DEF Put
        <3> QED
            BY <1>1, <3>1, <3>2
    <2>4. CASE Rename(t)
        <3>1. AsRecorded(NoFile)
            BY DEF AsRecorded, NoFile
        <3>2. files' = files \/ files' = [tmp |-> NoFile, out |-> files.tmp]
            BY <2>4 DEF Rename
        <3> QED
            BY <1>1, <3>1, <3>2
    <2> QED
        BY <2>1, <2>2, <2>3, <2>4
<1>6. DOMAIN snap' = Thread /\ \A u \in Thread : AsRecorded(snap'[u])
    <2>1. CASE Snap(t)
        <3>1. AsRecorded(Kept(calls, events))
            BY <1>1 DEF AsRecorded, Kept
        <3>2. snap' = [snap EXCEPT ![t] = Kept(calls, events)]
            BY <2>1 DEF Snap
        <3> QED
            BY <1>1, <3>1, <3>2
    <2>2. CASE ~Snap(t)
        BY <1>1, <2>2 DEF Open, Put, Rename
    <2> QED
        BY <2>1, <2>2
<1>7. TypeStdio'
    BY <1>1, <1>2, <1>3, <1>4, <1>5 DEF TypeStdio
<1>8. FilesOfTheirMode'
    BY <1>1, <1>2, <1>5, <1>6 DEF FilesOfTheirMode
<1> QED
    BY <1>1, <1>2, <1>7, <1>8, StandInStep

\* What a step of the stand-in leaves alone when it writes nothing.
LEMMA UnwrittenStep ==
  ASSUME Typed, UNCHANGED <<setVars, httpVars, runVars, sent, left, snap, fd, files>>,
         got' = [i \in 1..(N + 1) |-> got'[i]], asked' \subseteq 1..sent,
         calls' \in Seq(Entry), served' \in Nat, diverged' \in BOOLEAN,
         at' \in [Thread -> Parts], taken' \in 0..sent, pipe' \in Seq(Message), cur' \in Message
  PROVE  Typed'
<1>1. TypeStdio'
    BY DEF Typed, TypeOK, TypeStdio
<1>2. FilesOfTheirMode'
    BY FilesKept DEF Typed, setVars, runVars
<1> QED
    BY <1>1, <1>2, StandInStep

LEMMA RecordingTyped ==
  ASSUME Typed, Start \/ TakeMock \/ AnswerMock \/ TakeCall \/ Close \/ Hears \/ Pass \/ EndOfServer \/ WriteLast,
         UNCHANGED <<setVars, httpVars, runVars>>
  PROVE  Typed'
<1>1. /\ TypeBoundary /\ TypeStdio /\ FilesOfTheirMode /\ sent \in Nat
      /\ at \in [Thread -> Parts] /\ taken \in 0..sent /\ pipe \in Seq(Message) /\ cur \in Message
      /\ calls \in Seq(Entry) /\ served \in Nat /\ diverged \in BOOLEAN
      /\ asked \subseteq 1..sent /\ got = [i \in 1..(N + 1) |-> got[i]]
    BY ScriptTyped DEF Typed, TypeOK, TypeBoundary, TypeStdio
<1>2. \A u \in Thread, p \in Parts : [at EXCEPT ![u] = p] \in [Thread -> Parts]
    BY <1>1
<1>3. CASE Start \/ WriteLast
    <2>1. UNCHANGED <<sent, left, got, asked, calls, served, diverged, taken, pipe, cur, snap, fd, mode, pc>>
        BY <1>3 DEF Start, WriteLast, agentVars, serverVars, captureVars, setVars, runVars
    <2>2. at' \in [Thread -> Parts]
        BY <1>3 DEF Start, WriteLast, Die, Parts
    <2>3. AsRecorded(ErrorOut) /\ AsRecorded(Kept(calls, events))
        BY <1>1 DEF AsRecorded, ErrorOut, Kept
    <2>4. files' = files \/ \E c : AsRecorded(c) /\ files' = [tmp |-> files.tmp, out |-> c]
        BY <1>1, <1>3, <2>3 DEF Start, WriteLast, Publish, TypeStdio
    <2>5. TypeStdio'
        BY <1>1, <2>1, <2>2, <2>4 DEF TypeStdio
    <2>6. FilesOfTheirMode'
        BY <1>1, <2>1, <2>4 DEF FilesOfTheirMode
    <2> QED
        BY <1>1, <2>1, <2>5, <2>6, StandInStep
<1>4. CASE TakeMock \/ TakeCall
    <2>1. UNCHANGED <<sent, left, got, served, diverged, pipe, cur, snap, fd, files>>
        BY <1>4 DEF TakeMock, TakeCall, agentVars, captureVars
    <2>2. taken' \in 0..sent /\ taken + 1 \in 1..sent
        BY <1>1, <1>4 DEF TakeMock, TakeCall
    <2>3. at' \in [Thread -> Parts]
        BY <1>1, <1>2, <1>4 DEF TakeMock, TakeCall, Goto, Thread, Parts
    <2>4. asked' \subseteq 1..sent
        BY <1>1, <1>4, <2>2 DEF TakeMock, TakeCall, serverVars
    <2>5. calls' \in Seq(Entry)
        <3>1. [n |-> taken + 1, result |-> "mock"] \in Entry
            BY <1>1, <2>2 DEF Entry, Answers
        <3>2. calls' = calls \/ calls' = Append(calls, [n |-> taken + 1, result |-> "mock"])
            BY <1>4 DEF TakeMock, TakeCall, captureVars
        <3> QED
            BY <1>1, <3>1, <3>2
    <2> QED
        BY <1>1, <2>1, <2>2, <2>3, <2>4, <2>5, UnwrittenStep
<1>5. CASE AnswerMock \/ Pass
    <2>1. UNCHANGED <<sent, left, script, asked, calls, served, diverged, taken, pipe, snap, fd, files>>
        BY <1>5 DEF AnswerMock, Pass, serverVars, captureVars, setVars
    <2>2. at' \in [Thread -> Parts]
        BY <1>1, <1>2, <1>5 DEF AnswerMock, Pass, Goto, Thread, Parts
    <2>3. cur' \in Message
        BY <1>1, <1>5 DEF AnswerMock, Pass, NoMessage, Message, Answers
    <2>4. got' = got \/ \E i, answer : Give(i, answer)
        BY <1>5 DEF AnswerMock, Pass
    <2>5. got' = [i \in 1..(N + 1) |-> got'[i]]
        BY <1>1, <2>1, <2>4, Handed
    <2> QED
        BY <1>1, <2>1, <2>2, <2>3, <2>5, UnwrittenStep
<1>6. CASE Close \/ EndOfServer
    <2>1. UNCHANGED <<sent, left, got, asked, calls, served, diverged, taken, pipe, cur, snap, fd, files>>
        BY <1>6 DEF Close, EndOfServer, agentVars, serverVars, captureVars
    <2>2. at' \in [Thread -> Parts]
        BY <1>1, <1>2, <1>6 DEF Close, EndOfServer, Goto, Thread, Parts
    <2> QED
        BY <1>1, <2>1, <2>2, UnwrittenStep
<1>7. CASE Hears
    <2>1. UNCHANGED <<sent, left, got, asked, served, diverged, taken, snap, fd, files>>
        BY <1>7 DEF Hears, agentVars, serverVars
    <2>2. Head(pipe) \in Message /\ pipe' \in Seq(Message) /\ cur' \in Message
        BY <1>1, <1>7 DEF Hears
    <2>3. at' \in [Thread -> Parts]
        BY <1>1, <1>2, <1>7 DEF Hears, AfterAnswer, Goto, Thread, Parts
    <2>4. calls' \in Seq(Entry)
        <3>1. [n |-> Head(pipe).n, result |-> Captured(Head(pipe).answer)] \in Entry
            BY <2>2 DEF Message, Entry, Captured, Answers
        <3>2. \/ calls' = calls
              \/ calls' = Append(calls, [n |-> Head(pipe).n, result |-> Captured(Head(pipe).answer)])
            BY <1>7 DEF Hears
        <3> QED
            BY <1>1, <3>1, <3>2
    <2> QED
        BY <1>1, <2>1, <2>2, <2>3, <2>4, UnwrittenStep
<1> QED
    BY <1>3, <1>4, <1>5, <1>6, <1>7

LEMMA BreakOffTyped ==
  ASSUME Typed, BreakOff, UNCHANGED <<setVars, httpVars, runVars>>
  PROVE  Typed'
<1>1. /\ TypeBoundary /\ sent \in Nat /\ taken \in 0..sent /\ pipe \in Seq(Message) /\ cur \in Message
      /\ calls \in Seq(Entry) /\ served \in Nat /\ diverged \in BOOLEAN
      /\ asked \subseteq 1..sent /\ got = [i \in 1..(N + 1) |-> got[i]]
    BY ScriptTyped DEF Typed, TypeOK, TypeBoundary, TypeStdio
<1>2. UNCHANGED <<sent, left, got, asked, calls, served, diverged, taken, pipe, cur, snap, fd, files>>
    BY DEF BreakOff, agentVars, serverVars, captureVars
<1>3. at' \in [Thread -> Parts]
    BY DEF BreakOff, Die, Parts
<1> QED
    BY <1>1, <1>2, <1>3, UnwrittenStep

LEMMA ReplayingTyped ==
  ASSUME Typed, Announce \/ Serve \/ WriteServed, UNCHANGED <<setVars, httpVars, runVars>>
  PROVE  Typed'
<1>1. /\ TypeBoundary /\ TypeStdio /\ FilesOfTheirMode /\ sent \in Nat
      /\ at \in [Thread -> Parts] /\ taken \in 0..sent /\ pipe \in Seq(Message) /\ cur \in Message
      /\ calls \in Seq(Entry) /\ served \in Nat /\ diverged \in BOOLEAN
      /\ asked \subseteq 1..sent /\ got = [i \in 1..(N + 1) |-> got[i]]
    BY ScriptTyped DEF Typed, TypeOK, TypeBoundary, TypeStdio
<1>2. \A u \in Thread, p \in Parts : [at EXCEPT ![u] = p] \in [Thread -> Parts]
    BY <1>1
<1>3. CASE Announce
    <2>1. UNCHANGED <<sent, left, got, asked, calls, served, diverged, taken, pipe, cur, snap, fd, files>>
        BY <1>3 DEF Announce, serverVars, captureVars
    <2>2. at' \in [Thread -> Parts]
        BY <1>1, <1>2, <1>3 DEF Announce, Goto, Thread, Parts
    <2> QED
        BY <1>1, <2>1, <2>2, UnwrittenStep
<1>4. CASE Serve
    <2>1. UNCHANGED <<script, sent, left, asked, calls, pipe, cur, snap, fd, files>>
        BY <1>4 DEF Serve, ServeLane, serverVars, setVars
    <2>0. at' \in [Thread -> Parts]
        BY <1>1, <1>2, <1>4 DEF Serve, Goto, Thread, Parts
    <2>2. taken' \in 0..sent
        BY <1>1, <1>4 DEF Serve
    <2>3. served' \in Nat /\ diverged' \in BOOLEAN
        <3>1. /\ served' = served \/ served' = served + 1
              /\ diverged' = diverged \/ diverged' = TRUE
            BY <1>4 DEF Serve, ServeLane
        <3>2. served \in Nat /\ diverged \in BOOLEAN
            BY <1>1
        <3> QED
            BY <3>1, <3>2, CountsTyped
    <2>4. got' = [i \in 1..(N + 1) |-> got'[i]]
        BY <1>1, <1>4, <2>1, Handed DEF Serve
    <2> QED
        BY <1>1, <2>0, <2>1, <2>2, <2>3, <2>4, UnwrittenStep
<1>5. CASE WriteServed
    <2>1. UNCHANGED <<sent, left, got, asked, calls, served, diverged, taken, pipe, cur, snap, fd, mode, pc>>
        BY <1>5 DEF WriteServed, agentVars, serverVars, captureVars, setVars, runVars
    <2>2. at' \in [Thread -> Parts]
        BY <1>5 DEF WriteServed, Die, Parts
    <2>3. TypeStdio'
        <3>1. files' = [tmp |-> files'.tmp, out |-> files'.out]
            BY <1>1, <1>5 DEF WriteServed, Publish, TypeStdio
        <3> QED
            BY <1>1, <2>1, <2>2, <3>1 DEF TypeStdio
    <2>4. FilesOfTheirMode'
        BY <1>1, <1>5, <2>1 DEF FilesOfTheirMode, WriteServed, Replaying
    <2> QED
        BY <1>1, <2>1, <2>3, <2>4, StandInStep
<1> QED
    BY <1>3, <1>4, <1>5

LEMMA RealServerTyped ==
  ASSUME Typed, RealServer, UNCHANGED <<setVars, httpVars, runVars>>
  PROVE  Typed'
<1>1. /\ TypeBoundary /\ TypeStdio /\ sent \in Nat
      /\ at \in [Thread -> Parts] /\ taken \in 0..sent /\ pipe \in Seq(Message) /\ cur \in Message
      /\ calls \in Seq(Entry) /\ served \in Nat /\ diverged \in BOOLEAN
      /\ asked \subseteq 1..sent /\ got = [i \in 1..(N + 1) |-> got[i]]
    BY ScriptTyped DEF Typed, TypeOK, TypeBoundary, TypeStdio
<1>2. UNCHANGED <<sent, left, got, calls, served, diverged, at, taken, cur, snap, fd, files>>
    BY DEF RealServer, agentVars, captureVars
<1>3. asked' \subseteq 1..sent
    BY <1>1 DEF RealServer, ServerAnswers, ServerNotifies, ServerDemands, ServerEnds
<1>4. pipe' = pipe \/ \E x \in Message : pipe' = Append(pipe, x)
    <2>1. CASE ServerAnswers
        BY <1>1, <2>1 DEF ServerAnswers, Writes, Message, Answers
    <2>2. CASE ServerNotifies \/ ServerDemands
        BY <2>2 DEF ServerNotifies, ServerDemands, Writes, NoMessage, Message, Answers
    <2>3. CASE ServerEnds
        BY <2>3 DEF ServerEnds
    <2> QED
        BY <2>1, <2>2, <2>3 DEF RealServer
<1>5. pipe' \in Seq(Message)
    BY <1>1, <1>4
<1> QED
    BY <1>1, <1>2, <1>3, <1>5, UnwrittenStep
-----------------------------------------------------------------------------
(* Types: the listener and the orchestrator. *)

LEMMA ListenerStep ==
  ASSUME Typed, UNCHANGED <<setVars, stdioVars, runVars, sent, left>>,
         got' = [i \in 1..(N + 1) |-> got'[i]], asked' \subseteq 1..sent,
         calls' \in Seq(Entry), served' \in Nat, diverged' \in BOOLEAN,
         handled' \subseteq 1..sent, stage' \in {"idle", "forward", "respond"},
         stage' # "idle" => lock' \in handled'
  PROVE  Typed'
<1>1. TypeBoundary /\ TypeStdio /\ FilesOfTheirMode /\ sent \in Nat /\ sent' = sent
    BY ScriptTyped DEF Typed, TypeOK
<1>2. UNCHANGED <<script, mode, edit, trace, files, snap, pc, lane, verdict>>
    BY DEF setVars, stdioVars, runVars
<1>3. sent' \in 0..(N + 1) /\ left' \in {"here", "closed", "killed"}
    BY <1>1 DEF TypeBoundary
<1>4. TypeBoundary'
    BY <1>1, <1>2, <1>3, BoundaryStep
<1>5. TypeStdio' /\ FilesOfTheirMode'
    BY <1>1, <1>2, StdioKept, FilesKept
<1>6. TypeHttp'
    BY DEF TypeHttp
<1> QED
    BY <1>2, <1>4, <1>5, <1>6 DEF Typed, TypeOK

LEMMA ListenerTyped ==
  ASSUME Typed, Listener, UNCHANGED <<setVars, stdioVars, runVars>>
  PROVE  Typed'
<1>1. /\ TypeBoundary /\ TypeHttp /\ sent \in Nat
      /\ calls \in Seq(Entry) /\ served \in Nat /\ diverged \in BOOLEAN
      /\ asked \subseteq 1..sent /\ got = [i \in 1..(N + 1) |-> got[i]]
    BY ScriptTyped DEF Typed, TypeOK, TypeBoundary
<1>2. ASSUME NEW i \in 1..sent, PostMock(i) \/ PostForward(i) \/ PostReplay(i)
      PROVE  Typed'
    <2>1. TakeLock(i) /\ UNCHANGED <<sent, left, got>> /\ stage' \in {"forward", "respond"}
        BY <1>2 DEF PostMock, PostForward, PostReplay, agentVars, Answer
    <2>2. handled' \subseteq 1..sent /\ lock' \in handled'
        BY <1>1, <2>1 DEF TakeLock, TypeHttp
    <2>3. asked' \subseteq 1..sent
        BY <1>1, <1>2 DEF PostMock, PostForward, PostReplay, serverVars
    <2>4. calls' \in Seq(Entry)
        <3>1. calls' = calls \/ calls' = Append(calls, [n |-> i, result |-> "mock"])
            BY <1>2 DEF PostMock, PostForward, PostReplay, ServeLane, captureVars
        <3>2. [n |-> i, result |-> "mock"] \in Entry
            BY <1>1 DEF Entry, Answers
        <3> QED
            BY <1>1, <3>1, <3>2
    <2>5. served' \in Nat /\ diverged' \in BOOLEAN
        <3>1. /\ served' = served \/ served' = served + 1
              /\ diverged' = diverged \/ diverged' = TRUE
            BY <1>2 DEF PostMock, PostForward, PostReplay, ServeLane, captureVars
        <3>2. served \in Nat /\ diverged \in BOOLEAN
            BY <1>1
        <3> QED
            BY <3>1, <3>2, CountsTyped
    <2> QED
        BY <1>1, <2>1, <2>2, <2>3, <2>4, <2>5, ListenerStep
<1>3. CASE Respond
    <2>1. UNCHANGED <<script, sent, left, asked, calls, served, diverged, handled>> /\ stage' = "idle"
        BY <1>3 DEF Respond, serverVars, captureVars, setVars
    <2>2. got' = [i \in 1..(N + 1) |-> got'[i]]
        BY <1>1, <1>3, <2>1, Handed DEF Respond
    <2> QED
        BY <1>1, <2>1, <2>2, ListenerStep DEF TypeHttp
<1>4. CASE CapturePushed \/ Emit
    <2>1. UNCHANGED <<sent, left, got, asked, calls, served, diverged, handled, lock, stage>>
        BY <1>4 DEF CapturePushed, Emit, agentVars, serverVars, captureVars, httpVars
    <2> QED
        BY <1>1, <2>1, ListenerStep DEF TypeHttp
<1> QED
    BY <1>2, <1>3, <1>4 DEF Listener, Posts

LEMMA UpstreamTyped ==
  ASSUME Typed, Upstream, UNCHANGED <<setVars, stdioVars, runVars>>
  PROVE  Typed'
<1>0. handled \subseteq 1..sent /\ (stage # "idle" => lock \in handled)
    BY DEF Typed, TypeOK, TypeHttp
<1>1. /\ TypeBoundary /\ TypeHttp /\ sent \in Nat
      /\ calls \in Seq(Entry) /\ served \in Nat /\ diverged \in BOOLEAN
      /\ asked \subseteq 1..sent /\ got = [i \in 1..(N + 1) |-> got[i]]
    BY ScriptTyped DEF Typed, TypeOK, TypeBoundary, TypeHttp
<1>2. UNCHANGED <<sent, left, got, served, diverged, handled, lock>> /\ asked' \in {{}, asked}
    BY DEF Upstream, ForwardOk, ForwardNote, ForwardDemand, ForwardFails, Pump, PumpDemand,
           agentVars, captureVars, httpVars
<1>3. stage' = stage \/ (stage' = "respond" /\ stage = "forward")
    BY DEF Upstream, ForwardOk, ForwardNote, ForwardDemand, ForwardFails, Pump, PumpDemand,
           Forwarding, Answer, httpVars
<1>4. calls' \in Seq(Entry)
    <2>1. CASE ForwardOk
        <3>1. PICK r \in {"real", "fault"} : calls' = Append(calls, [n |-> lock, result |-> Captured(r)])
            BY <2>1 DEF ForwardOk
        <3>2. lock \in Nat
            <4>1. stage = "forward"
                BY <2>1 DEF ForwardOk, Forwarding
            <4>2. lock \in 1..sent
                BY <1>0, <4>1
            <4> QED
                BY <1>1, <4>2
        <3>3. [n |-> lock, result |-> Captured(r)] \in Entry
            BY <3>2 DEF Entry, Answers, Captured
        <3> QED
            BY <1>1, <3>1, <3>3
    <2>2. CASE ~ForwardOk
        BY <1>1, <2>2 DEF Upstream, ForwardNote, ForwardDemand, ForwardFails, Pump, PumpDemand, captureVars
    <2> QED
        BY <2>1, <2>2
<1>5. stage' \in {"idle", "forward", "respond"} /\ (stage' # "idle" => lock' \in handled')
    BY <1>0, <1>1, <1>2, <1>3 DEF TypeHttp
<1>6. asked' \subseteq 1..sent /\ handled' \subseteq 1..sent
    <2>1. asked' = {} \/ asked' = asked
        BY <1>2
    <2>2. asked \subseteq 1..sent
        BY <1>1
    <2> QED
        BY <1>0, <1>2, <2>1, <2>2
<1>7. got' = [i \in 1..(N + 1) |-> got'[i]]
    BY <1>1, <1>2
<1> QED
    BY <1>1, <1>2, <1>4, <1>5, <1>6, <1>7, ListenerStep

\* A lane has an entry for each of the calls.
LEMMA LaneTyped ==
  ASSUME NEW entries \in Seq(Entry)
  PROVE  /\ Len(Lane(entries)) \in Nat /\ DOMAIN Lane(entries) = 1..Len(Lane(entries))
         /\ \A k \in DOMAIN Lane(entries) :
              Lane(entries)[k] = [body |-> Lane(entries)[k].body, result |-> Lane(entries)[k].result]
<1>1. DOMAIN entries = 1..Len(entries) /\ Len(entries) \in Nat
    OBVIOUS
<1>2. DOMAIN InOrder(entries) = 1..Len(entries)
    <2>1. CASE script.transport = "http"
        BY <1>1, <2>1 DEF InOrder
    <2>2. CASE script.transport # "http"
        BY <1>1, <2>2 DEF InOrder
    <2> QED
        BY <2>1, <2>2
<1> DEFINE order == InOrder(entries)
<1>3. Lane(entries) = [k \in 1..Len(entries) |-> [body |-> Body(order[k].n), result |-> order[k].result]]
    BY <1>2 DEF Lane
<1> HIDE DEF order
<1> DEFINE B(k) == Body(order[k].n)
           R(k) == order[k].result
<1>4. Lane(entries) = [k \in 1..Len(entries) |-> [body |-> B(k), result |-> R(k)]]
    BY <1>3
<1> HIDE DEF B, R
<1>5. Len(Lane(entries)) = Len(entries) /\ DOMAIN Lane(entries) = 1..Len(entries)
    BY <1>1, <1>4
<1> QED
    BY <1>1, <1>4, <1>5

LEMMA CollectStep ==
  ASSUME Typed, Same, pc' \in {"run", "collect", "captured", "events", "over"},
         pc' \in {"captured", "events"} => mode = "record",
         verdict' \in {"none", "minted", "pass", "failed"}, lane' \in Seq(Entry),
         \/ trace' = trace
         \/ \E entries \in Seq(Entry) : \E notes : trace' = [lane |-> Lane(entries), events |-> notes]
  PROVE  Typed'
<1>1. TypeBoundary /\ TypeStdio /\ TypeHttp /\ FilesOfTheirMode /\ sent \in Nat /\ sent' = sent
    BY ScriptTyped DEF Typed, TypeOK, Same, agentVars
<1>2. UNCHANGED <<script, mode, edit, sent, got, left, asked, calls, served, diverged>>
    BY DEF Same, agentVars, serverVars, captureVars
<1>3. TypeStdio' /\ TypeHttp'
    BY <1>1, StdioKept, HttpKept DEF Same
<1>4. /\ Len(trace'.lane) \in Nat /\ DOMAIN trace'.lane = 1..Len(trace'.lane)
      /\ \A k \in DOMAIN trace'.lane :
           trace'.lane[k] = [body |-> trace'.lane[k].body, result |-> trace'.lane[k].result]
    <2>1. CASE trace' = trace
        BY <1>1, <2>1 DEF TypeBoundary
    <2>2. ASSUME NEW entries \in Seq(Entry), trace'.lane = Lane(entries)
          PROVE  /\ Len(trace'.lane) \in Nat /\ DOMAIN trace'.lane = 1..Len(trace'.lane)
                 /\ \A k \in DOMAIN trace'.lane :
                      trace'.lane[k] = [body |-> trace'.lane[k].body, result |-> trace'.lane[k].result]
        BY <2>2, LaneTyped
    <2> QED
        BY <2>1, <2>2
<1>5. TypeBoundary'
    <2>1. N' = N
        BY <1>2 DEF N
    <2> QED
        BY <1>1, <1>2, <1>4, <2>1 DEF TypeBoundary
<1>6. FilesOfTheirMode'
    BY <1>1, <1>2 DEF FilesOfTheirMode, Same, stdioVars
<1> QED
    BY <1>3, <1>5, <1>6 DEF Typed, TypeOK

LEMMA CollectingTyped ==
  ASSUME Typed, DriveEnds \/ ReadOut \/ ReadError \/ ReadCaptured \/ ReadEvents \/ ReadLog \/ Expire
  PROVE  Typed'
<1>1. /\ lane \in Seq(Entry) /\ calls \in Seq(Entry) /\ pc \in {"run", "collect", "captured", "events", "over"}
      /\ verdict \in {"none", "minted", "pass", "failed"}
      /\ pc \in {"captured", "events"} => mode = "record"
    BY DEF Typed, TypeOK, TypeBoundary, FilesOfTheirMode
<1>2. Same
    BY DEF DriveEnds, ReadOut, ReadError, ReadCaptured, ReadEvents, ReadLog, Expire
<1>3. /\ pc' \in {"run", "collect", "captured", "events", "over"}
      /\ verdict' \in {"none", "minted", "pass", "failed"}
      /\ pc' \in {"captured", "events"} => mode = "record"
    BY <1>1 DEF DriveEnds, ReadOut, ReadError, ReadCaptured, ReadEvents, ReadLog, Expire, Mint, Check, End, Listening
<1>4. lane' \in Seq(Entry)
    BY <1>1 DEF DriveEnds, ReadOut, ReadError, ReadCaptured, ReadEvents, ReadLog, Expire
<1>5. \/ trace' = trace
      \/ \E entries \in Seq(Entry) : \E notes : trace' = [lane |-> Lane(entries), events |-> notes]
    <2>1. CASE ReadOut
        <3>1. CASE files.out.kind = "calls" /\ mode = "record" /\ Mint(files.out.calls, files.out.events)
            <4>1. files.out.calls \in Seq(Entry)
                BY <3>1 DEF Typed, FilesOfTheirMode, AsRecorded
            <4> QED
                BY <3>1, <4>1 DEF Mint
        <3> QED
            BY <2>1, <3>1 DEF ReadOut, Check
    <2>2. CASE ReadEvents
        BY <1>1, <2>2 DEF ReadEvents, Mint
    <2>3. CASE ReadLog
        BY <2>3 DEF ReadLog, Check
    <2> QED
        BY <2>1, <2>2, <2>3 DEF DriveEnds, ReadError, ReadCaptured, Expire
<1> QED
    BY <1>2, <1>3, <1>4, <1>5, CollectStep

LEMMA ReplayTyped ==
  ASSUME Typed, Replay
  PROVE  Typed'
<1>1. TypeBoundary /\ N \in Nat
    BY ScriptTyped DEF Typed, TypeOK
<1>2. TypeBoundary'
    <2>1. sent' \in 0..(N + 1) /\ asked' \subseteq 1..sent'
        BY <1>1 DEF Replay
    <2>2. got' = [i \in 1..(N + 1) |-> got'[i]]
        <3>1. DOMAIN got = 1..(N + 1)
            BY <1>1 DEF TypeBoundary
        <3>2. got' = [i \in DOMAIN got |-> "none"]
            BY DEF Replay
        <3> QED
            BY <3>1, <3>2
    <2>3. calls' \in Seq(Entry)
        BY DEF Replay
    <2>4. N' = N
        BY DEF Replay, N
    <2>5. /\ script' \in Scripts /\ mode' \in {"record", "replay"}
          /\ edit' \in {"same", "changed", "extra", "fewer"} /\ trace' = trace
          /\ left' \in {"here", "closed", "killed"} /\ served' \in Nat /\ diverged' \in BOOLEAN
        BY <1>1 DEF Replay, TypeBoundary
    <2> QED
        BY <1>1, <2>1, <2>2, <2>3, <2>4, <2>5 DEF TypeBoundary
<1>3. TypeStdio'
    <2>1. /\ at' \in [Thread -> Parts] /\ fd' \in [Thread -> {"none", "tmp", "out"}]
          /\ cur' \in Message /\ pipe' \in Seq(Message) /\ taken' \in 0..sent'
        <3>1. at' \in [Thread -> Parts] /\ fd' \in [Thread -> {"none", "tmp", "out"}]
            BY DEF Replay, Parts
        <3>2. cur' \in Message
            BY DEF Replay, NoMessage, Message, Answers
        <3>3. pipe' \in Seq(Message) /\ taken' \in 0..sent'
            BY DEF Replay
        <3> QED
            BY <3>1, <3>2, <3>3
    <2>2. files' = [tmp |-> files'.tmp, out |-> files'.out]
        BY DEF Replay
    <2> QED
        BY <2>1, <2>2 DEF TypeStdio
<1>4. TypeHttp'
    BY DEF TypeHttp, Replay
<1>5. FilesOfTheirMode'
    BY DEF FilesOfTheirMode, Replay
<1>6. lane' \in Seq(Entry) /\ pc' = "run" /\ verdict' = "none"
    BY DEF Replay
<1> QED
    BY <1>2, <1>3, <1>4, <1>5, <1>6 DEF Typed, TypeOK

LEMMA TypedStep == Typed /\ [Next]_vars => Typed'
<1> SUFFICES ASSUME Typed, [Next]_vars PROVE Typed'
    OBVIOUS
<1>1. CASE Agent
    BY <1>1, AgentTyped
<1>2. CASE Transport
    BY <1>2, FlushTyped, RecordingTyped, BreakOffTyped, ReplayingTyped, ListenerTyped DEF Transport, StandIn
<1>3. CASE Server
    BY <1>3, RealServerTyped, UpstreamTyped DEF Server
<1>4. CASE Collecting \/ Expire
    BY <1>4, CollectingTyped, ReplayTyped DEF Collecting
<1>5. CASE UNCHANGED vars
    <2>1. TypeBoundary /\ TypeStdio /\ TypeHttp /\ FilesOfTheirMode /\ sent \in Nat
        BY ScriptTyped DEF Typed, TypeOK
    <2>2. /\ UNCHANGED <<script, mode, edit, sent, got, left, asked, calls, served, diverged, trace>>
          /\ UNCHANGED <<stdioVars, httpVars, pc, lane, verdict, files, snap>>
        BY <1>5 DEF vars, boundaryVars, agentVars, serverVars, captureVars, setVars, runVars, stdioVars
    <2> QED
        BY <2>1, <2>2, BoundaryKept, StdioKept, HttpKept, FilesKept DEF Typed, TypeOK
<1> QED
    BY <1>1, <1>2, <1>3, <1>4, <1>5 DEF Next, Ended

\* Every variable has its type, for every script.
THEOREM TypeCorrect == Spec => []TypeOK
<1>1. Typed => TypeOK
    BY DEF Typed
<1> QED
    BY TypedInit, TypedStep, <1>1, PTL DEF Spec
-----------------------------------------------------------------------------
(* What a replay that passes has answered. *)

\* A step of a replay that serves nothing and hands nothing out.
Quiet ==
  /\ UNCHANGED <<script, mode, edit, trace, recorded, got, taken, served, diverged, handled, lock, stage, reply, files>>
  /\ at["A"] = "gone" => at'["A"] = "gone"
  /\ left # "here" => UNCHANGED <<left, sent>>

\* The steps of a replay.
LEMMA StepsOfReplay ==
  ASSUME Typed, mode = "replay", Next
  PROVE  \/ Quiet \/ Replay
         \/ Serve /\ UNCHANGED <<setVars, httpVars>>
         \/ WriteServed /\ UNCHANGED <<setVars, httpVars>>
         \/ (\E i \in 1..sent : PostReplay(i)) /\ UNCHANGED <<setVars, stdioVars>>
         \/ Respond /\ UNCHANGED <<setVars, stdioVars>>
<1>1. pc \notin {"captured", "events"}
    BY DEF Typed, FilesOfTheirMode
<1>2. CASE Agent
    <2>1. CASE AgentCalls /\ UNCHANGED <<stdioVars, httpVars, runVars>>
        BY <2>1 DEF AgentCalls, Quiet, captureVars, setVars, stdioVars, httpVars
    <2>2. CASE AgentLeaves("closed") /\ UNCHANGED <<stdioVars, httpVars, runVars>>
        BY <2>2 DEF AgentLeaves, Quiet, captureVars, setVars, stdioVars, httpVars
    <2>3. CASE AgentLeaves("killed") /\ Die /\ UNCHANGED <<taken, pipe, cur, snap, fd, files, httpVars, runVars>>
        <3>1. at'["A"] = "gone"
            BY <2>3 DEF Die, Thread
        <3> QED
            BY <2>3, <3>1 DEF AgentLeaves, Quiet, captureVars, setVars, httpVars
    <2>4. CASE OpenStream /\ UNCHANGED <<stdioVars, setVars, runVars>>
        BY <2>4 DEF OpenStream, Quiet, agentVars, captureVars, setVars, stdioVars
    <2> QED
        BY <1>2, <2>1, <2>2, <2>3, <2>4 DEF Agent
<1>3. CASE StandIn /\ UNCHANGED <<setVars, spoilt, httpVars, runVars>>
    <2>1. Announce \/ Serve \/ WriteServed \/ BreakOff
        BY <1>3 DEF StandIn, Flush, Snap, Open, Put, Rename, Start, TakeMock, AnswerMock, TakeCall, Close,
                    Hears, Pass, EndOfServer, WriteLast, Recording
    <2>2. CASE Announce
        BY <1>3, <2>2 DEF Announce, Replaying, Alive, Quiet, captureVars, setVars, httpVars
    <2>3. CASE BreakOff
        <3>1. at'["A"] = "gone"
            BY <2>3 DEF BreakOff, Die, Thread
        <3> QED
            BY <1>3, <2>3, <3>1 DEF BreakOff, Quiet, agentVars, captureVars, setVars, httpVars
    <2> QED
        BY <1>3, <2>1, <2>2, <2>3
<1>4. CASE Listener /\ UNCHANGED <<setVars, stdioVars, runVars>>
    <2>1. (\E i \in 1..sent : PostReplay(i)) \/ Respond \/ Emit
        BY <1>4 DEF Listener, Posts, PostMock, PostForward, CapturePushed, Listening
    <2>2. CASE Emit
        BY <1>4, <2>2 DEF Emit, Quiet, captureVars, setVars, stdioVars, httpVars
    <2> QED
        BY <1>4, <2>1, <2>2
<1>5. ~Server
    BY DEF Server, RealServer, Upstream, ForwardOk, ForwardNote, ForwardDemand, ForwardFails, Forwarding,
           Pump, PumpDemand, Listening
<1>6. CASE DriveEnds \/ ReadOut \/ ReadError \/ ReadLog \/ Expire
    <2>1. Same
        BY <1>6 DEF DriveEnds, ReadOut, ReadError, ReadLog, Expire
    <2>2. UNCHANGED <<trace, recorded>>
        BY <1>6 DEF DriveEnds, ReadOut, ReadError, ReadLog, Expire, Check
    <2> QED
        BY <2>1, <2>2 DEF Same, Quiet, agentVars, captureVars, stdioVars, httpVars
<1>7. ~ReadCaptured /\ ~ReadEvents
    BY <1>1 DEF ReadCaptured, ReadEvents
<1>8. CASE UNCHANGED vars
    BY <1>8 DEF vars, boundaryVars, Quiet, agentVars, captureVars, setVars, stdioVars, httpVars
<1> QED
    BY <1>2, <1>3, <1>4, <1>5, <1>6, <1>7, <1>8 DEF Next, Transport, Collecting, Ended

\* A replay begins where a trace was minted.
LEMMA StepsOfRecord ==
  ASSUME Typed, mode # "replay", Next
  PROVE  Replay \/ mode' # "replay"
<1>1. CASE Agent \/ Transport \/ Server
    BY <1>1 DEF Agent, Transport, Server, AgentCalls, AgentLeaves, setVars
<1>2. CASE Collecting \/ Expire
    BY <1>2 DEF Collecting, DriveEnds, ReadOut, ReadError, ReadCaptured, ReadEvents, ReadLog, Expire, Same
<1>3. CASE UNCHANGED vars
    BY <1>3 DEF vars, boundaryVars, setVars
<1> QED
    BY <1>1, <1>2, <1>3 DEF Next, Ended

\* A call that is served is answered as the lane says.
LEMMA ServedInLane ==
  ASSUME Typed, NEW i, ServeLane(i), served \in Nat, ~diverged', UNCHANGED setVars
  PROVE  /\ ~diverged /\ served' = served + 1
         /\ [body |-> Body(i), result |-> Reply(i)] \in ToSet(trace.lane)
<1>1. Serves(Body(i)) /\ served' = served + 1 /\ ~diverged
    BY DEF ServeLane, Serves
<1>2. /\ Len(trace.lane) \in Nat /\ DOMAIN trace.lane = 1..Len(trace.lane)
      /\ \A k \in DOMAIN trace.lane :
           trace.lane[k] = [body |-> trace.lane[k].body, result |-> trace.lane[k].result]
    BY DEF Typed, TypeOK, TypeBoundary
<1>3. served + 1 \in DOMAIN trace.lane
    BY <1>1, <1>2 DEF Serves
<1>4. trace.lane[served + 1] = [body |-> Body(i), result |-> Reply(i)]
    BY <1>1, <1>2, <1>3 DEF Serves, Match, Reply
<1> QED
    BY <1>1, <1>3, <1>4 DEF ToSet

LEMMA LaneStays ==
  ASSUME UNCHANGED <<script, edit, trace>>,
         \A j \in DOMAIN got' : got'[j] # "none" => InLane(j, got'[j])
  PROVE  GivenInLane'
<1>1. \A j : Body(j)' = Body(j)
    BY DEF Body, N
<1>2. \A j \in DOMAIN got' : got'[j] # "none" => [body |-> Body(j)', result |-> got'[j]] \in ToSet(trace'.lane)
    BY <1>1 DEF InLane
<1> QED
    BY <1>2 DEF GivenInLane, InLane

LEMMA ReproducedStep ==
  ASSUME Typed, Reproduced, Next
  PROVE  Reproduced'
<1> SUFFICES ASSUME mode' = "replay", ~diverged' PROVE Reproduced'
    BY DEF Reproduced
<1>1. /\ TypeBoundary /\ sent \in Nat /\ N \in Nat /\ DOMAIN got = 1..(N + 1)
      /\ taken \in Nat /\ served \in Nat
    BY ScriptTyped DEF Typed, TypeOK, TypeBoundary, TypeStdio
<1>2. CASE Replay
    <2>1. got' = [i \in DOMAIN got |-> "none"] /\ served' = 0 /\ taken' = 0 /\ stage' = "idle"
        BY <1>2 DEF Replay
    <2> QED
        BY <2>1 DEF Reproduced, GivenInLane
<1>3. CASE ~Replay
    <2>1. mode = "replay"
        BY <1>3, StepsOfRecord
    <2>2. ASSUME UNCHANGED setVars
          PROVE  \A i, answer : InLane(i, answer)' = InLane(i, answer)
        BY <2>2 DEF InLane, setVars, Body, N
    <2>3. CASE Quiet
        BY <2>1, <2>3 DEF Quiet, Reproduced, GivenInLane, InLane, Body, N
    <2>4. CASE Serve /\ UNCHANGED <<setVars, httpVars>>
        <3>1. ServeLane(taken + 1) /\ Give(taken + 1, Reply(taken + 1)) /\ UNCHANGED <<script, left, stage>>
              /\ taken' = taken + 1 /\ script.transport = "stdio"
            BY <2>4 DEF Serve, Replaying, Alive, setVars, httpVars
        <3>2. ~diverged /\ served' = served + 1 /\ InLane(taken + 1, Reply(taken + 1))
            BY <1>1, <2>4, <3>1, ServedInLane DEF InLane
        <3>3. /\ script.transport = "stdio" => served = taken
              /\ \A i \in DOMAIN got : got[i] # "none" => InLane(i, got[i])
              /\ stage = "idle" \/ (stage = "respond" /\ InLane(lock, reply))
            BY <2>1, <3>2 DEF Reproduced, GivenInLane
        <3>4. /\ DOMAIN got' = DOMAIN got
              /\ \A j \in DOMAIN got : got'[j] = got[j] \/ (j = taken + 1 /\ got'[j] = Reply(taken + 1))
            <4>1. /\ got' = [j \in 1..(N + 1) |-> got'[j]]
                  /\ \A j \in 1..(N + 1) : got'[j] = got[j] \/ (j = taken + 1 /\ got'[j] = Reply(taken + 1))
                <5>1. TypeBoundary /\ UNCHANGED <<script, left>> /\ Give(taken + 1, Reply(taken + 1))
                    BY <1>1, <3>1
                <5> QED
                    BY <5>1, Handed
            <4> QED
                BY <1>1, <4>1
        <3>5. \A j \in DOMAIN got' : got'[j] # "none" => InLane(j, got'[j])
            BY <3>2, <3>3, <3>4
        <3>6. GivenInLane'
            BY <2>4, <3>5, LaneStays DEF setVars
        <3>7. served' = taken'
            BY <3>1, <3>2, <3>3
        <3>8. stage' # "idle" => stage' = "respond" /\ InLane(lock', reply')
            BY <2>4, <3>3 DEF httpVars
        <3>9. stage' # "idle" => stage' = "respond" /\ InLane(lock, reply)'
            BY <2>2, <2>4, <3>8
        <3> QED
            BY <3>6, <3>7, <3>9 DEF Reproduced
    <2>5. CASE WriteServed /\ UNCHANGED <<setVars, httpVars>>
        <3>1. UNCHANGED <<script, mode, edit, trace, got, taken, served, diverged, lock, stage, reply>>
            BY <2>5 DEF WriteServed, agentVars, captureVars, setVars, httpVars
        <3> QED
            BY <2>1, <3>1 DEF Reproduced, GivenInLane, InLane, Body, N
    <2>6. CASE (\E i \in 1..sent : PostReplay(i)) /\ UNCHANGED <<setVars, stdioVars>>
        <3>1. PICK i \in 1..sent : PostReplay(i)
            BY <2>6
        <3>2. /\ ServeLane(i) /\ lock' = i /\ reply' = Reply(i) /\ stage' = "respond" /\ got' = got
              /\ script.transport = "http" /\ script' = script
            BY <2>6, <3>1 DEF PostReplay, TakeLock, Answer, Listening, agentVars, setVars
        <3>3. ~diverged /\ InLane(i, Reply(i))
            BY <1>1, <2>6, <3>2, ServedInLane DEF InLane
        <3>4. \A j \in DOMAIN got : got[j] # "none" => InLane(j, got[j])
            BY <2>1, <3>3 DEF Reproduced, GivenInLane
        <3>6. GivenInLane'
            BY <2>6, <3>2, <3>4, LaneStays DEF setVars
        <3>7. InLane(lock, reply)'
            <4>1. InLane(lock', reply')
                BY <3>2, <3>3
            <4> QED
                BY <2>2, <2>6, <4>1
        <3>8. stage' = "respond" /\ script'.transport # "stdio"
            BY <3>2
        <3>9. (stage # "idle" => stage = "respond" /\ InLane(lock, reply))'
            BY <3>7, <3>8
        <3>10. (script.transport = "stdio" => served = taken)'
            BY <3>8
        <3> QED
            BY <3>6, <3>9, <3>10 DEF Reproduced
    <2>7. CASE Respond /\ UNCHANGED <<setVars, stdioVars>>
        <3>1. /\ stage = "respond" /\ Give(lock, reply) /\ stage' = "idle"
              /\ UNCHANGED <<script, left, served, diverged, taken>>
            BY <2>7 DEF Respond, captureVars, setVars, stdioVars
        <3>2. /\ script.transport = "stdio" => served = taken
              /\ \A i \in DOMAIN got : got[i] # "none" => InLane(i, got[i])
              /\ InLane(lock, reply)
            BY <2>1, <3>1 DEF Reproduced, GivenInLane
        <3>3. /\ DOMAIN got' = DOMAIN got
              /\ \A j \in DOMAIN got : got'[j] = got[j] \/ (j = lock /\ got'[j] = reply)
            <4>1. /\ got' = [j \in 1..(N + 1) |-> got'[j]]
                  /\ \A j \in 1..(N + 1) : got'[j] = got[j] \/ (j = lock /\ got'[j] = reply)
                BY <1>1, <3>1, Handed
            <4> QED
                BY <1>1, <4>1
        <3>4. \A j \in DOMAIN got' : got'[j] # "none" => InLane(j, got'[j])
            BY <3>2, <3>3
        <3>5. GivenInLane'
            BY <2>7, <3>4, LaneStays DEF setVars
        <3> QED
            BY <3>1, <3>2, <3>5 DEF Reproduced
    <2> QED
        BY <1>3, <2>1, <2>3, <2>4, <2>5, <2>6, <2>7, StepsOfReplay
<1> QED
    BY <1>2, <1>3

LEMMA NotServed ==
  ASSUME NEW content, AsRecorded(content)
  PROVE  content.kind # "served"
BY DEF AsRecorded

LEMMA FinalStep ==
  ASSUME Typed, ServedIsFinal, Next
  PROVE  ServedIsFinal'
<1> SUFFICES ASSUME mode' = "replay", files'.out.kind = "served" PROVE ServedIsFinal'
    BY DEF ServedIsFinal
<1>1. ~Replay
    <2> SUFFICES ASSUME Replay PROVE FALSE
        OBVIOUS
    <2>1. files' = [tmp |-> NoFile, out |-> NoFile]
        BY DEF Replay
    <2>2. files'.out.kind = "no file"
        BY <2>1 DEF NoFile
    <2> QED
        BY <2>2
<1>2. mode = "replay"
    BY <1>1, StepsOfRecord
<1>3. files.out.kind = "served" =>
        /\ files.out.served = served /\ files.out.diverged = diverged
        /\ script.transport = "stdio" /\ at["A"] = "gone" /\ left # "here" /\ taken = sent
    BY <1>2 DEF ServedIsFinal
<1>4. CASE Quiet
    BY <1>3, <1>4 DEF Quiet, ServedIsFinal
<1>5. CASE Serve /\ UNCHANGED <<setVars, httpVars>>
    BY <1>3, <1>5 DEF Serve, Replaying, Alive
<1>6. CASE WriteServed /\ UNCHANGED <<setVars, httpVars>>
    <2>1. /\ UNCHANGED <<served, diverged, script, left, taken, sent>> /\ script.transport = "stdio"
          /\ taken = sent /\ left # "here"
        BY <1>6 DEF WriteServed, Replaying, Alive, agentVars, captureVars, setVars
    <2>2. at'["A"] = "gone"
        BY <1>6 DEF WriteServed, Die, Thread
    <2>3. at["A"] = "read" /\ (files' = files \/ files'.out = Served(served, diverged))
        BY <1>6 DEF WriteServed, Replaying, Alive, Publish, Typed, TypeOK, TypeStdio
    <2>4. CASE files' = files
        BY <1>3, <2>3, <2>4, <2>2
    <2>5. CASE files'.out = Served(served, diverged)
        BY <2>1, <2>2, <2>5 DEF ServedIsFinal, Served
    <2> QED
        BY <2>3, <2>4, <2>5
<1>7. CASE (\E i \in 1..sent : PostReplay(i)) /\ UNCHANGED <<setVars, stdioVars>>
    BY <1>3, <1>7 DEF PostReplay, Listening, stdioVars
<1>8. CASE Respond /\ UNCHANGED <<setVars, stdioVars>>
    BY <1>3, <1>8 DEF Respond, stdioVars
<1> QED
    BY <1>1, <1>2, <1>4, <1>5, <1>6, <1>7, <1>8, StepsOfReplay

LEMMA PassStep ==
  ASSUME Typed, ServedIsFinal, PassKnown, Next
  PROVE  PassKnown'
<1> SUFFICES ASSUME verdict' = "pass" PROVE PassKnown'
    BY DEF PassKnown
<1>1. CASE verdict = "pass"
    <2>1. pc = "over" /\ PassKnown
        BY <1>1 DEF PassKnown
    <2>2. UNCHANGED vars
        BY <1>1, <2>1 DEF Next, Working, Collecting, DriveEnds, ReadOut, ReadError, ReadCaptured, ReadEvents,
                          ReadLog, Replay, Ended
    <2>3. UNCHANGED <<verdict, pc, mode, diverged, served, trace, script, taken, sent>>
        BY <2>2 DEF vars, boundaryVars, agentVars, captureVars, setVars, stdioVars, runVars
    <2> QED
        BY <2>1, <2>3 DEF PassKnown
<1>2. CASE verdict # "pass"
    <2>1. UNCHANGED verdict \/ ReadOut \/ ReadLog
        BY DEF Next, Working, Agent, Transport, Server, Collecting, DriveEnds, ReadError, ReadCaptured, ReadEvents,
               Replay, Expire, Ended, Mint, End, vars, runVars
    <2>2. CASE ReadOut
        <3>1. files.out.kind = "served" /\ Check(files.out.served, files.out.diverged) /\ Same
            BY <2>2 DEF ReadOut, Mint, End
        <3>2. mode = "replay"
            <4>1. mode \in {"record", "replay"}
                BY DEF Typed, TypeOK, TypeBoundary
            <4>2. mode = "record" => AsRecorded(files.out)
                BY DEF Typed, FilesOfTheirMode
            <4>3. mode = "record" => files.out.kind # "served"
                BY <4>2, NotServed
            <4> QED
                BY <3>1, <4>1, <4>3
        <3>3. served = files.out.served /\ diverged = files.out.diverged /\ taken = sent
            BY <3>1, <3>2 DEF ServedIsFinal
        <3>4. ~files.out.diverged /\ files.out.served = Len(trace.lane) /\ trace' = trace /\ pc' = "over"
            BY <3>1 DEF Check, End
        <3>5. UNCHANGED <<mode, diverged, served, script, taken, sent>>
            BY <3>1 DEF Same, agentVars, captureVars, stdioVars
        <3> QED
            BY <3>2, <3>3, <3>4, <3>5 DEF PassKnown
    <2>3. CASE ReadLog
        <3>1. /\ ~diverged /\ served = Len(trace.lane) /\ trace' = trace /\ pc' = "over"
              /\ mode = "replay" /\ script.transport = "http" /\ Same
            BY <2>3 DEF ReadLog, Check, End, Listening
        <3>2. UNCHANGED <<mode, diverged, served, script, taken, sent>>
            BY <3>1 DEF Same, agentVars, captureVars, stdioVars
        <3> QED
            BY <3>1, <3>2 DEF PassKnown
    <2> QED
        BY <1>2, <2>1, <2>2, <2>3
<1> QED
    BY <1>1, <1>2

ReplayKnown == Typed /\ ServedIsFinal /\ Reproduced /\ PassKnown

LEMMA ReplayKnownStep == ReplayKnown /\ [Next]_vars => ReplayKnown'
<1> SUFFICES ASSUME ReplayKnown, [Next]_vars PROVE ReplayKnown'
    OBVIOUS
<1>1. Typed'
    BY TypedStep DEF ReplayKnown
<1>2. CASE Next
    BY <1>1, <1>2, FinalStep, ReproducedStep, PassStep DEF ReplayKnown
<1>3. CASE UNCHANGED vars
    <2>1. /\ UNCHANGED <<script, mode, edit, sent, got, left, served, diverged, trace>>
          /\ UNCHANGED <<at, taken, files, lock, stage, reply, pc, verdict>>
        BY <1>3 DEF vars, boundaryVars, agentVars, captureVars, setVars, stdioVars, httpVars, runVars
    <2>2. ServedIsFinal'
        BY <2>1 DEF ReplayKnown, ServedIsFinal
    <2>3. Reproduced'
        BY <2>1 DEF ReplayKnown, Reproduced, GivenInLane, InLane, Body, N
    <2>4. PassKnown'
        BY <2>1 DEF ReplayKnown, PassKnown
    <2> QED
        BY <1>1, <2>2, <2>3, <2>4 DEF ReplayKnown
<1> QED
    BY <1>2, <1>3

\* check_replay: in a replay that passes, whatever the agent was answered is the
\* recorded result of that call, and no call came before the stand-in that the
\* recording does not have; for every script and every way of leaving.
THEOREM PassIsTheRecording == Spec => []PassReproduces
<1>1. Init => ReplayKnown
    <2> SUFFICES ASSUME Init PROVE ReplayKnown
        OBVIOUS
    <2>1. mode = "record" /\ verdict = "none"
        BY DEF Init, BoundaryInit, RunStarts
    <2> QED
        BY <2>1, TypedInit DEF ReplayKnown, ServedIsFinal, Reproduced, PassKnown
<1>2. ReplayKnown => PassReproduces
    <2> SUFFICES ASSUME ReplayKnown, verdict = "pass"
                 PROVE  /\ \A i \in 1..sent : got[i] # "none" =>
                              [body |-> Body(i), result |-> got[i]] \in ToSet(trace.lane)
                        /\ script.transport = "stdio" => sent = Len(trace.lane)
        BY DEF PassReproduces
    <2>1. /\ TypeBoundary /\ sent \in 0..(N + 1) /\ N \in Nat /\ DOMAIN got = 1..(N + 1)
        BY ScriptTyped DEF ReplayKnown, Typed, TypeOK, TypeBoundary
    <2>2. /\ mode = "replay" /\ ~diverged /\ served = Len(trace.lane)
          /\ script.transport = "stdio" => taken = sent
        BY DEF ReplayKnown, PassKnown
    <2>3. GivenInLane /\ (script.transport = "stdio" => served = taken)
        BY <2>2 DEF ReplayKnown, Reproduced
    <2>4. \A i \in 1..sent : i \in DOMAIN got
        BY <2>1
    <2> QED
        BY <2>2, <2>3, <2>4 DEF GivenInLane, InLane
<1> QED
    BY <1>1, <1>2, ReplayKnownStep, PTL DEF Spec
-----------------------------------------------------------------------------
(* What a recording keeps: where each call is. *)

\* The list has the entry of this call, answered so.
Holds(list, i, answer) == \E k \in DOMAIN list : list[k] = [n |-> i, result |-> Captured(answer)]

StdioRecord == mode = "record" /\ script.transport = "stdio"

\* Thread A has a mocked call under way, thread B an answer of the real server.
Writing == {"snap", "open", "put", "rename"}
MockUnderWay == at["A"] \in Writing \cup {"answer"}
AnswerUnderWay == at["B"] \in Writing \/ (at["B"] = "pass" /\ cur.kind = "answer")

\* A call taken is asked of the server, or on its way back from it, or captured,
\* and only one of these; it is captured once.
CallsApart ==
  /\ \A k \in DOMAIN calls : calls[k].n \in 1..taken
  /\ \A j, k \in DOMAIN calls : calls[j].n = calls[k].n => j = k

AskedApart ==
  \A n \in asked : n \in 1..taken /\ ~Mocked(n) /\ \A k \in DOMAIN calls : calls[k].n # n

PipeApart ==
  \A j \in DOMAIN pipe : pipe[j].kind = "answer" =>
    /\ pipe[j].n \in 1..taken /\ ~Mocked(pipe[j].n) /\ pipe[j].n \notin asked
    /\ pipe[j].answer \notin {"none", "error"}
    /\ \A k \in DOMAIN calls : calls[k].n # pipe[j].n
    /\ \A i \in DOMAIN pipe : pipe[i].kind = "answer" /\ pipe[i].n = pipe[j].n => i = j

OnePlace == StdioRecord => CallsApart /\ AskedApart /\ PipeApart

\* The steps while a stand-in records.
Untouched == UNCHANGED <<script, mode, sent, got, asked, calls, trouble, at, taken, pipe, cur, snap, fd, files>>

Recorders == \/ (\E t \in Thread : Flush(t)) \/ Start \/ TakeMock \/ AnswerMock \/ TakeCall \/ Close
             \/ Hears \/ Pass \/ EndOfServer \/ WriteLast

LEMMA StepsOfStdio ==
  ASSUME Typed, StdioRecord, Next, ~Replay
  PROVE  \/ Untouched
         \/ AgentCalls /\ UNCHANGED stdioVars
         \/ Die /\ UNCHANGED <<script, mode, sent, got, asked, calls, trouble, taken, pipe, cur, snap, fd, files>>
         \/ Recorders /\ UNCHANGED <<script, mode>>
         \/ RealServer /\ UNCHANGED <<script, mode>>
<1>1. mode = "record" /\ script.transport = "stdio"
    BY DEF StdioRecord
<1>2. CASE Agent
    <2>1. ~OpenStream
        BY <1>1 DEF OpenStream
    <2>2. CASE AgentLeaves("closed") /\ UNCHANGED <<stdioVars, httpVars, runVars>>
        BY <2>2 DEF AgentLeaves, Untouched, serverVars, captureVars, setVars, stdioVars
    <2>3. CASE AgentLeaves("killed") /\ Die /\ UNCHANGED <<taken, pipe, cur, snap, fd, files, httpVars, runVars>>
        BY <2>3 DEF AgentLeaves, serverVars, captureVars, setVars
    <2> QED
        BY <1>2, <2>1, <2>2, <2>3 DEF Agent
<1>3. CASE Transport
    <2>1. ~Listener
        BY <1>1 DEF Listener, Posts, PostMock, PostForward, PostReplay, Respond, CapturePushed, Emit, Listening
    <2>2. ~(Announce \/ Serve \/ WriteServed)
        BY <1>1 DEF Announce, Serve, WriteServed, Replaying
    <2>3. CASE BreakOff /\ UNCHANGED setVars
        BY <2>3 DEF BreakOff, agentVars, serverVars, captureVars, setVars
    <2> QED
        BY <1>3, <2>1, <2>2, <2>3 DEF Transport, StandIn, Recorders, setVars
<1>4. CASE Server
    BY <1>1, <1>4 DEF Server, Upstream, ForwardOk, ForwardNote, ForwardDemand, ForwardFails, Forwarding,
                      Pump, PumpDemand, Listening, setVars
<1>5. CASE Collecting \/ Expire
    <2>1. Same
        BY <1>5 DEF Collecting, DriveEnds, ReadOut, ReadError, ReadCaptured, ReadEvents, ReadLog, Expire
    <2> QED
        BY <2>1 DEF Same, Untouched, agentVars, serverVars, captureVars, stdioVars
<1>6. CASE UNCHANGED vars
    BY <1>6 DEF vars, boundaryVars, Untouched, agentVars, serverVars, captureVars, setVars, stdioVars
<1> QED
    BY <1>2, <1>3, <1>4, <1>5, <1>6 DEF Next, Ended

\* What is appended to the captured calls.
LEMMA Appended ==
  ASSUME NEW S, NEW s \in Seq(S), NEW e \in S
  PROVE  /\ DOMAIN Append(s, e) = 1..(Len(s) + 1) /\ DOMAIN s = 1..Len(s) /\ Len(s) \in Nat
         /\ Append(s, e)[Len(s) + 1] = e
         /\ \A k \in DOMAIN s : k \in DOMAIN Append(s, e) /\ Append(s, e)[k] = s[k]
         /\ \A k \in DOMAIN Append(s, e) : k \in DOMAIN s \/ k = Len(s) + 1
OBVIOUS

LEMMA Dropped ==
  ASSUME NEW S, NEW s \in Seq(S), s # <<>>
  PROVE  /\ DOMAIN s = 1..Len(s) /\ 1 \in DOMAIN s /\ s[1] = Head(s)
         /\ \A k \in DOMAIN Tail(s) : k + 1 \in DOMAIN s /\ k + 1 # 1 /\ Tail(s)[k] = s[k + 1] /\ k \in Nat
OBVIOUS

\* A call that is captured is found in what is captured, and no other is new.
LEMMA CapturedMore ==
  ASSUME CallsApart, calls \in Seq(Entry), taken \in Nat, NEW n \in Nat, NEW r \in Answers,
         \A k \in DOMAIN calls : calls[k].n # n, n \in 1..taken', taken' \in Nat, taken <= taken',
         calls' = Append(calls, [n |-> n, result |-> r])
  PROVE  /\ CallsApart'
         /\ \A m : (\A k \in DOMAIN calls : calls[k].n # m) /\ m # n => \A k \in DOMAIN calls' : calls'[k].n # m
<1> DEFINE e == [n |-> n, result |-> r]
<1>1. e \in Entry /\ e.n = n
    BY DEF Entry
<1> HIDE DEF e
<1>2. calls' = Append(calls, e)
    BY DEF e
<1>3. /\ DOMAIN calls' = 1..(Len(calls) + 1) /\ DOMAIN calls = 1..Len(calls) /\ Len(calls) \in Nat
      /\ calls'[Len(calls) + 1].n = n
      /\ \A k \in DOMAIN calls : k \in DOMAIN calls' /\ calls'[k].n = calls[k].n
      /\ \A k \in DOMAIN calls' : k \in DOMAIN calls \/ k = Len(calls) + 1
    BY <1>1, <1>2, Appended
<1>4. \A k \in DOMAIN calls' : calls'[k].n \in 1..taken'
    BY <1>3 DEF CallsApart
<1>5. \A j, k \in DOMAIN calls' : calls'[j].n = calls'[k].n => j = k
    BY <1>3 DEF CallsApart
<1> QED
    BY <1>3, <1>4, <1>5 DEF CallsApart

\* The flow stays what it is.
LEMMA ScriptStays == Next => script' = script
<1>1. Agent => script' = script
    BY DEF Agent, AgentCalls, AgentLeaves, OpenStream, setVars
<1>2. Transport \/ Server => script' = script
    BY DEF Transport, Server, setVars
<1>3. Collecting \/ Expire => script' = script
    BY DEF Collecting, DriveEnds, ReadOut, ReadError, ReadCaptured, ReadEvents, ReadLog, Replay, Expire, Same
<1>4. Ended => script' = script
    BY DEF Ended, vars, boundaryVars, setVars
<1> QED
    BY <1>1, <1>2, <1>3, <1>4 DEF Next

LEMMA OnePlaceStep ==
  ASSUME Typed, OnePlace, Next
  PROVE  OnePlace'
<1> SUFFICES ASSUME StdioRecord' PROVE (CallsApart /\ AskedApart /\ PipeApart)'
    BY DEF OnePlace
<1>1. ~Replay /\ mode = "record"
    <2>1. ~Replay
        BY DEF StdioRecord, Replay
    <2>2. mode # "replay"
        BY <2>1, StepsOfReplay DEF StdioRecord, Quiet, setVars, Serve, WriteServed
    <2> QED
        BY <2>1, <2>2 DEF Typed, TypeOK, TypeBoundary
<1>2. script' = script /\ StdioRecord
    <2>1. script' = script
        BY ScriptStays
    <2> QED
        BY <1>1, <2>1 DEF StdioRecord
<1>3. CallsApart /\ AskedApart /\ PipeApart
    BY <1>2 DEF OnePlace
<1>4. /\ taken \in 0..sent /\ sent \in Nat /\ taken \in Nat /\ calls \in Seq(Entry) /\ pipe \in Seq(Message)
      /\ cur \in Message
    BY ScriptTyped DEF Typed, TypeOK, TypeBoundary, TypeStdio
<1>5. \A n : Mocked(n)' = Mocked(n)
    BY <1>2 DEF Mocked, N
<1>6. CASE UNCHANGED <<taken, calls, asked, pipe>>
    BY <1>3, <1>5, <1>6 DEF CallsApart, AskedApart, PipeApart
<1>7. CASE TakeMock
    <2>1. /\ taken' = taken + 1 /\ calls' = Append(calls, [n |-> taken + 1, result |-> "mock"])
          /\ UNCHANGED <<asked, pipe>>
        BY <1>7 DEF TakeMock, serverVars
    <2>2. taken + 1 \in Nat /\ "mock" \in Answers /\ \A k \in DOMAIN calls : calls[k].n # taken + 1
        BY <1>3, <1>4 DEF CallsApart, Answers
    <2>3. /\ CallsApart'
          /\ \A m : (\A k \in DOMAIN calls : calls[k].n # m) /\ m # taken + 1 =>
                  \A k \in DOMAIN calls' : calls'[k].n # m
        BY <1>3, <1>4, <2>1, <2>2, CapturedMore
    <2>4. \A n \in 1..taken : n \in 1..taken' /\ n # taken + 1
        BY <1>4, <2>1
    <2>5. AskedApart'
        BY <1>3, <1>5, <2>1, <2>3, <2>4 DEF AskedApart
    <2>6. PipeApart'
        BY <1>3, <1>5, <2>1, <2>3, <2>4 DEF PipeApart
    <2> QED
        BY <2>3, <2>5, <2>6
<1>8. CASE TakeCall
    <2>1. /\ taken' = taken + 1 /\ asked' \subseteq asked \cup {taken + 1} /\ ~Mocked(taken + 1)
          /\ UNCHANGED <<calls, pipe>>
        BY <1>8 DEF TakeCall, captureVars
    <2>2. \A n \in 1..taken : n \in 1..taken' /\ n # taken + 1
        BY <1>4, <2>1
    <2>3. taken + 1 \in 1..taken'
        BY <1>4, <2>1
    <2>4. CallsApart'
        BY <1>3, <2>1, <2>2 DEF CallsApart
    <2>5. AskedApart'
        BY <1>3, <1>5, <2>1, <2>2, <2>3 DEF AskedApart, CallsApart
    <2>6. PipeApart'
        BY <1>3, <1>5, <2>1, <2>2 DEF PipeApart
    <2> QED
        BY <2>4, <2>5, <2>6
<1>9. CASE Hears
    <2>1. /\ pipe # <<>> /\ pipe' = Tail(pipe) /\ UNCHANGED <<taken, asked>>
          /\ \/ calls' = calls
             \/ /\ Head(pipe).kind = "answer"
                /\ calls' = Append(calls, [n |-> Head(pipe).n, result |-> Captured(Head(pipe).answer)])
        BY <1>9 DEF Hears, serverVars
    <2>2. /\ 1 \in DOMAIN pipe /\ pipe[1] = Head(pipe)
          /\ \A k \in DOMAIN pipe' : k + 1 \in DOMAIN pipe /\ k + 1 # 1 /\ pipe'[k] = pipe[k + 1] /\ k \in Nat
        BY <1>4, <2>1, Dropped
    <2>3. CASE calls' = calls
        <3>1. CallsApart' /\ AskedApart'
            BY <1>3, <1>5, <2>1, <2>3 DEF CallsApart, AskedApart
        <3>2. PipeApart'
            BY <1>3, <1>5, <2>1, <2>2, <2>3 DEF PipeApart
        <3> QED
            BY <3>1, <3>2
    <2>4. CASE Head(pipe).kind = "answer" /\ calls' = Append(calls, [n |-> Head(pipe).n, result |-> Captured(Head(pipe).answer)])
        <3>1. /\ Head(pipe).n \in 1..taken /\ \A k \in DOMAIN calls : calls[k].n # Head(pipe).n
              /\ Head(pipe).n \notin asked
            BY <1>3, <2>2, <2>4 DEF PipeApart
        <3>2. Captured(Head(pipe).answer) \in Answers /\ Head(pipe).n \in Nat
            <4>1. Head(pipe) \in Message
                BY <1>4, <2>1
            <4>2. Head(pipe).answer \in Answers
                BY <4>1 DEF Message
            <4>3. Captured(Head(pipe).answer) \in Answers
                BY <4>2 DEF Captured, Answers
            <4> QED
                BY <1>4, <3>1, <4>3
        <3> DEFINE n == Head(pipe).n
        <3> DEFINE r == Captured(Head(pipe).answer)
        <3>7. /\ n \in Nat /\ r \in Answers /\ calls' = Append(calls, [n |-> n, result |-> r])
              /\ \A k \in DOMAIN calls : calls[k].n # n
              /\ n \in 1..taken' /\ taken' \in Nat /\ taken <= taken'
            BY <1>4, <2>1, <2>4, <3>1, <3>2
        <3> HIDE DEF n, r
        <3>3. /\ CallsApart'
              /\ \A m : (\A k \in DOMAIN calls : calls[k].n # m) /\ m # n =>
                      \A k \in DOMAIN calls' : calls'[k].n # m
            BY <1>3, <1>4, <3>7, CapturedMore
        <3>4. AskedApart'
            BY <1>3, <1>5, <2>1, <3>1, <3>3 DEF AskedApart, n
        <3>5. \A j \in DOMAIN pipe' : pipe'[j].kind = "answer" => pipe'[j].n # n
            BY <1>3, <2>2, <2>4 DEF PipeApart, n
        <3>6. PipeApart'
            <4> SUFFICES ASSUME NEW j \in DOMAIN pipe', pipe'[j].kind = "answer"
                         PROVE  /\ pipe'[j].n \in 1..taken' /\ ~Mocked(pipe[j].n)' /\ pipe'[j].n \notin asked'
                                /\ pipe'[j].answer \notin {"none", "error"}
                                /\ \A k \in DOMAIN calls' : calls'[k].n # pipe'[j].n
                                /\ \A i \in DOMAIN pipe' : pipe'[i].kind = "answer" /\ pipe'[i].n = pipe'[j].n => i = j
                BY DEF PipeApart
            <4>1. j + 1 \in DOMAIN pipe /\ pipe'[j] = pipe[j + 1] /\ pipe[j + 1].kind = "answer" /\ j \in Nat
                BY <2>2
            <4>2. /\ pipe[j + 1].n \in 1..taken /\ ~Mocked(pipe[j + 1].n) /\ pipe[j + 1].n \notin asked
                  /\ pipe[j + 1].answer \notin {"none", "error"}
                  /\ \A k \in DOMAIN calls : calls[k].n # pipe[j + 1].n
                  /\ \A i \in DOMAIN pipe : pipe[i].kind = "answer" /\ pipe[i].n = pipe[j + 1].n => i = j + 1
                BY <1>3, <4>1 DEF PipeApart
            <4>3. \A k \in DOMAIN calls' : calls'[k].n # pipe'[j].n
                BY <3>3, <3>5, <4>1, <4>2
            <4>4. \A i \in DOMAIN pipe' : pipe'[i].kind = "answer" /\ pipe'[i].n = pipe'[j].n => i = j
                BY <2>2, <4>1, <4>2
            <4> QED
                BY <1>5, <2>1, <4>1, <4>2, <4>3, <4>4
        <3> QED
            BY <3>3, <3>4, <3>6
    <2> QED
        BY <2>1, <2>3, <2>4
<1>10. CASE RealServer
    <2>1. UNCHANGED <<calls, taken>>
        BY <1>10 DEF RealServer, captureVars
    <2>2. CallsApart'
        BY <1>3, <2>1 DEF CallsApart
    <2>3. CASE ServerAnswers
        <3>1. PICK n \in asked, r \in {"real", "fault"} :
                /\ pipe' = Append(pipe, [kind |-> "answer", n |-> n, answer |-> r]) /\ asked' = asked \ {n}
            BY <2>3 DEF ServerAnswers, Writes
        <3> DEFINE e == [kind |-> "answer", n |-> n, answer |-> r]
        <3>2. n \in 1..taken /\ ~Mocked(n) /\ \A k \in DOMAIN calls : calls[k].n # n
            BY <1>3 DEF AskedApart
        <3>3. e \in Message /\ e.n = n /\ e.answer \notin {"none", "error"}
            BY <1>4, <3>2 DEF Message, Answers
        <3> HIDE DEF e
        <3>4. /\ pipe'[Len(pipe) + 1] = e
              /\ \A k \in DOMAIN pipe : pipe'[k] = pipe[k]
              /\ \A k \in DOMAIN pipe' : k \in DOMAIN pipe \/ k = Len(pipe) + 1
            BY <1>4, <3>1, <3>3, Appended DEF e
        <3>5. \A j \in DOMAIN pipe : pipe[j].kind = "answer" => pipe[j].n # n
            BY <1>3 DEF PipeApart
        <3>6. AskedApart'
            BY <1>3, <1>5, <2>1, <3>1 DEF AskedApart
        <3>7. PipeApart'
            BY <1>3, <1>5, <2>1, <3>1, <3>2, <3>3, <3>4, <3>5 DEF PipeApart
        <3> QED
            BY <2>2, <3>6, <3>7
    <2>4. CASE ServerNotifies \/ ServerDemands
        <3>1. asked' = asked /\ \E e \in Message : e.kind # "answer" /\ pipe' = Append(pipe, e)
            BY <2>4 DEF ServerNotifies, ServerDemands, Writes, NoMessage, Message, Answers
        <3>2. PICK e \in Message : e.kind # "answer" /\ pipe' = Append(pipe, e)
            BY <3>1
        <3>4. /\ pipe'[Len(pipe) + 1] = e
              /\ \A k \in DOMAIN pipe : pipe'[k] = pipe[k]
              /\ \A k \in DOMAIN pipe' : k \in DOMAIN pipe \/ k = Len(pipe) + 1
            BY <1>4, <3>2, Appended
        <3>6. AskedApart'
            BY <1>3, <1>5, <2>1, <3>1 DEF AskedApart
        <3>7. PipeApart'
            BY <1>3, <1>5, <2>1, <3>1, <3>2, <3>4 DEF PipeApart
        <3> QED
            BY <2>2, <3>6, <3>7
    <2>5. CASE ServerEnds
        <3>1. asked' = {} /\ pipe' = pipe
            BY <2>5 DEF ServerEnds
        <3> QED
            BY <1>3, <1>5, <2>1, <2>2, <3>1 DEF AskedApart, PipeApart
    <2> QED
        BY <1>10, <2>3, <2>4, <2>5 DEF RealServer
<1>11. CASE \/ (\E t \in Thread : Flush(t)) \/ Start \/ AnswerMock \/ Close \/ Pass \/ EndOfServer \/ WriteLast
    <2>1. UNCHANGED <<taken, calls, asked, pipe>>
        BY <1>11 DEF Flush, Snap, Open, Put, Rename, Start, AnswerMock, Close, Pass, EndOfServer, WriteLast,
                     serverVars, captureVars
    <2> QED
        BY <1>6, <2>1
<1> QED
    <2>1. \/ Untouched
          \/ AgentCalls /\ UNCHANGED stdioVars
          \/ Die /\ UNCHANGED <<script, mode, sent, got, asked, calls, trouble, taken, pipe, cur, snap, fd, files>>
          \/ Recorders /\ UNCHANGED <<script, mode>>
          \/ RealServer /\ UNCHANGED <<script, mode>>
        BY <1>1, <1>2, StepsOfStdio
    <2>2. CASE Untouched \/ (AgentCalls /\ UNCHANGED stdioVars)
        BY <1>6, <2>2 DEF Untouched, AgentCalls, serverVars, captureVars, stdioVars
    <2> QED
        BY <1>6, <1>7, <1>8, <1>9, <1>10, <1>11, <2>1, <2>2 DEF Recorders
-----------------------------------------------------------------------------
(* What a recording keeps: what the agent was given. *)

\* Only a call that was taken has an answer.
GivenTaken == script.transport = "stdio" => \A i \in DOMAIN got : got[i] # "none" => i \in 1..taken

\* What the agent has been given is captured; so is what is about to be given.
GivenKept ==
  \A i \in DOMAIN got : got[i] # "none" => got[i] # "error" /\ Holds(calls, i, got[i])

MockKnown ==
  MockUnderWay => taken # 0 /\ Mocked(taken) /\ got[taken] = "none" /\ Holds(calls, taken, "mock")

AnswerKnown ==
  AnswerUnderWay =>
    /\ cur.kind = "answer" /\ cur.n \in 1..taken /\ ~Mocked(cur.n) /\ got[cur.n] = "none"
    /\ cur.answer \notin {"none", "error"} /\ Holds(calls, cur.n, cur.answer)

Owed == /\ GivenTaken
        /\ StdioRecord => /\ at["A"] = "start" => taken = 0
                          /\ GivenKept /\ MockKnown /\ AnswerKnown

LEMMA HoldsMore ==
  ASSUME NEW list \in Seq(Entry), NEW n \in Nat, NEW r \in Answers
  PROVE  /\ \A i, answer : Holds(list, i, answer) => Holds(Append(list, [n |-> n, result |-> r]), i, answer)
         /\ \A answer : Captured(answer) = r => Holds(Append(list, [n |-> n, result |-> r]), n, answer)
<1> DEFINE e == [n |-> n, result |-> r]
<1>1. e \in Entry
    BY DEF Entry
<1> HIDE DEF e
<1>2. /\ DOMAIN Append(list, e) = 1..(Len(list) + 1) /\ Len(list) \in Nat
      /\ Append(list, e)[Len(list) + 1] = e
      /\ \A k \in DOMAIN list : k \in DOMAIN Append(list, e) /\ Append(list, e)[k] = list[k]
    BY <1>1, Appended
<1>3. \A i, answer : Holds(list, i, answer) => Holds(Append(list, e), i, answer)
    BY <1>2 DEF Holds
<1>4. \A answer : Captured(answer) = r => Holds(Append(list, e), n, answer)
    <2>1. Len(list) + 1 \in DOMAIN Append(list, e)
        BY <1>2
    <2> QED
        BY <1>2, <2>1 DEF Holds, e
<1> QED
    BY <1>3, <1>4 DEF e

\* The steps that give the agent nothing and capture nothing.
LEMMA OwedKept ==
  ASSUME Owed, StdioRecord, UNCHANGED <<script, got, calls, taken>>,
         at'["A"] = "start" => at["A"] = "start",
         MockUnderWay' => MockUnderWay, AnswerUnderWay' => AnswerUnderWay /\ cur' = cur
  PROVE  Owed'
<1>1. \A n : Mocked(n)' = Mocked(n)
    BY DEF Mocked, N
<1>2. GivenTaken' /\ GivenKept'
    BY DEF Owed, GivenTaken, GivenKept
<1>3. MockKnown'
    BY <1>1 DEF Owed, MockKnown
<1>4. AnswerKnown'
    BY <1>1 DEF Owed, AnswerKnown
<1> QED
    BY <1>2, <1>3, <1>4 DEF Owed

LEMMA GivenTakenStep ==
  ASSUME Typed, GivenTaken, Owed, Next
  PROVE  GivenTaken'
<1> SUFFICES ASSUME script.transport = "stdio"
             PROVE  \A i \in DOMAIN got' : got'[i] # "none" => i \in 1..taken'
    BY ScriptStays DEF GivenTaken
<1>1. /\ TypeBoundary /\ N \in Nat /\ DOMAIN got = 1..(N + 1) /\ taken \in 0..sent /\ sent \in Nat
      /\ at \in [Thread -> Parts]
    BY ScriptTyped DEF Typed, TypeOK, TypeBoundary, TypeStdio
<1>2. \A i \in DOMAIN got : got[i] # "none" => i \in 1..taken
    BY DEF GivenTaken
<1>3. CASE got' = got /\ (taken' = taken \/ taken' = taken + 1)
    BY <1>1, <1>2, <1>3
<1>4. ASSUME NEW i \in 1..taken', NEW answer, Give(i, answer), left' = left, taken' = taken \/ taken' = taken + 1
      PROVE  \A j \in DOMAIN got' : got'[j] # "none" => j \in 1..taken'
    <2>1. /\ got' = [j \in 1..(N + 1) |-> got'[j]] /\ N' = N
          /\ \A j \in 1..(N + 1) : got'[j] = got[j] \/ (j = i /\ got'[j] = answer)
        BY <1>1, <1>4, ScriptStays, Handed
    <2> QED
        BY <1>1, <1>2, <1>4, <2>1
<1>5. CASE Replay
    <2>1. got' = [i \in DOMAIN got |-> "none"]
        BY <1>5 DEF Replay
    <2> QED
        BY <2>1
<1>6. CASE Agent
    BY <1>3, <1>6 DEF Agent, AgentCalls, AgentLeaves, OpenStream, agentVars, stdioVars
<1>7. CASE Server
    BY <1>3, <1>7 DEF Server, RealServer, Upstream, ForwardOk, ForwardNote, ForwardDemand, ForwardFails, Forwarding,
                      Pump, PumpDemand, Listening, agentVars
<1>8. CASE DriveEnds \/ ReadOut \/ ReadError \/ ReadCaptured \/ ReadEvents \/ ReadLog \/ Expire
    BY <1>3, <1>8 DEF DriveEnds, ReadOut, ReadError, ReadCaptured, ReadEvents, ReadLog, Expire, Same, agentVars, stdioVars
<1>9. CASE Transport
    <2>1. CASE AnswerMock
        <3>1. Give(taken, "mock") /\ UNCHANGED <<left, taken>> /\ at["A"] = "answer" /\ StdioRecord
            BY <2>1 DEF AnswerMock, Recording, Alive, StdioRecord
        <3>2. taken # 0
            BY <3>1 DEF Owed, MockKnown, MockUnderWay
        <3> QED
            BY <1>1, <1>4, <3>1, <3>2
    <2>2. CASE Pass
        <3>1. at["B"] = "pass" /\ StdioRecord /\ UNCHANGED <<left, taken>>
            BY <2>2 DEF Pass, Recording, Alive, StdioRecord
        <3>2. got' = got \/ (cur.kind = "answer" /\ Give(cur.n, cur.answer))
            BY <2>2 DEF Pass
        <3>3. cur.kind = "answer" => cur.n \in 1..taken
            BY <3>1 DEF Owed, AnswerKnown, AnswerUnderWay
        <3> QED
            BY <1>3, <1>4, <3>1, <3>2, <3>3
    <2>3. CASE Serve
        <3>1. taken' = taken + 1 /\ Give(taken + 1, Reply(taken + 1)) /\ left' = left
            BY <2>3 DEF Serve
        <3>2. taken + 1 \in 1..taken'
            BY <1>1, <3>1
        <3> QED
            BY <1>4, <3>1, <3>2
    <2>4. ~Listener
        BY DEF Listener, Posts, PostMock, PostForward, PostReplay, Respond, CapturePushed, Emit, Listening
    <2>5. CASE \/ (\E t \in Thread : Flush(t)) \/ Start \/ TakeMock \/ TakeCall \/ Close
               \/ Hears \/ EndOfServer \/ WriteLast \/ Announce \/ WriteServed \/ BreakOff
        <3>1. got' = got /\ (taken' = taken \/ taken' = taken + 1)
            BY <2>5 DEF Flush, Snap, Open, Put, Rename, Start, TakeMock, TakeCall, Close, Hears, EndOfServer, WriteLast,
                        Announce, WriteServed, BreakOff, agentVars
        <3> QED
            BY <1>3, <3>1
    <2> QED
        BY <1>9, <2>1, <2>2, <2>3, <2>4, <2>5 DEF Transport, StandIn
<1>10. CASE Ended
    BY <1>3, <1>10 DEF Ended, vars, boundaryVars, agentVars, stdioVars
<1> QED
    BY <1>5, <1>6, <1>7, <1>8, <1>9, <1>10 DEF Next, Collecting

\* A recording goes on from a recording.
LEMMA StillRecords ==
  ASSUME Typed, Next, StdioRecord'
  PROVE  StdioRecord /\ ~Replay /\ script' = script /\ mode' = mode
<1>1. ~Replay
    BY DEF StdioRecord, Replay
<1>2. mode # "replay"
    BY <1>1, StepsOfReplay DEF StdioRecord, Quiet, setVars, Serve, WriteServed
<1>3. script' = script /\ mode = "record"
    BY <1>2, ScriptStays DEF Typed, TypeOK, TypeBoundary
<1> QED
    BY <1>1, <1>3 DEF StdioRecord

LEMMA OwedStep ==
  ASSUME Typed, OnePlace, Owed, Next
  PROVE  Owed'
<1>1. GivenTaken'
    BY GivenTakenStep DEF Owed
<1> SUFFICES ASSUME StdioRecord'
             PROVE  (at["A"] = "start" => taken = 0)' /\ GivenKept' /\ MockKnown' /\ AnswerKnown'
    BY <1>1 DEF Owed
<1>2. StdioRecord /\ ~Replay /\ script' = script
    BY StillRecords
<1>3. CallsApart /\ AskedApart /\ PipeApart
    BY <1>2 DEF OnePlace
<1>4. (at["A"] = "start" => taken = 0) /\ GivenKept /\ MockKnown /\ AnswerKnown /\ GivenTaken
    BY <1>2 DEF Owed
<1>5. /\ TypeBoundary /\ N \in Nat /\ DOMAIN got = 1..(N + 1) /\ sent \in 0..(N + 1)
      /\ taken \in 0..sent /\ sent \in Nat /\ taken \in Nat /\ calls \in Seq(Entry) /\ pipe \in Seq(Message)
      /\ cur \in Message /\ at \in [Thread -> Parts]
    BY ScriptTyped DEF Typed, TypeOK, TypeBoundary, TypeStdio
<1>6. \A n : Mocked(n)' = Mocked(n)
    BY <1>2 DEF Mocked, N
<1>7. \A i \in DOMAIN got : got[i] # "none" => i \in 1..taken
    BY <1>2, <1>4 DEF GivenTaken, StdioRecord
<1>8. ASSUME Recorders
      PROVE  /\ at["A"] # "start" \/ taken = 0
             /\ at'["A"] = "start" => at["A"] = "start"
    BY <1>4, <1>5, <1>8 DEF Recorders, Flush, Snap, Open, Put, Rename, Start, TakeMock, AnswerMock, TakeCall, Close,
           Hears, Pass, EndOfServer, WriteLast, Persisted, FlushFails, Goto, Die, Recording, Thread, AfterAnswer
<1>9. ASSUME UNCHANGED <<got, calls, taken>>, at'["A"] = "start" => at["A"] = "start",
             MockUnderWay' => MockUnderWay, AnswerUnderWay' => AnswerUnderWay /\ cur' = cur
      PROVE  (at["A"] = "start" => taken = 0)' /\ GivenKept' /\ MockKnown' /\ AnswerKnown'
    <2>1. Owed'
        BY <1>2, <1>9, OwedKept
    <2> QED
        BY <2>1 DEF Owed
<1>10. CASE \/ Untouched
            \/ AgentCalls /\ UNCHANGED stdioVars
            \/ Die /\ UNCHANGED <<script, mode, sent, got, asked, calls, trouble, taken, pipe, cur, snap, fd, files>>
            \/ RealServer
    <2>1. UNCHANGED <<got, calls, taken, cur>>
        BY <1>10 DEF Untouched, AgentCalls, captureVars, stdioVars, RealServer, agentVars
    <2>2. at' = at \/ at' = [t \in Thread |-> "gone"]
        BY <1>10 DEF Untouched, Die, stdioVars, RealServer
    <2> QED
        BY <1>9, <2>1, <2>2 DEF MockUnderWay, AnswerUnderWay, Writing, Thread
<1>11. CASE \/ (\E t \in Thread : Flush(t)) \/ Start \/ Close \/ EndOfServer \/ WriteLast
    <2>1. UNCHANGED <<got, calls, taken, cur>>
        BY <1>11 DEF Flush, Snap, Open, Put, Rename, Start, Close, EndOfServer, WriteLast, agentVars, captureVars
    <2>2. MockUnderWay' => MockUnderWay
        BY <1>5, <1>11 DEF Flush, Snap, Open, Put, Rename, Start, Close, EndOfServer, WriteLast, MockUnderWay, Writing,
             Goto, Persisted, FlushFails, Die, Recording, Thread
    <2>3. AnswerUnderWay' => AnswerUnderWay
        BY <1>5, <1>11 DEF Flush, Snap, Open, Put, Rename, Start, Close, EndOfServer, WriteLast, AnswerUnderWay, Writing,
             Goto, Persisted, FlushFails, Die, Recording, Thread
    <2>4. at'["A"] = "start" => at["A"] = "start"
        BY <1>8, <1>11 DEF Recorders
    <2> QED
        BY <1>9, <2>1, <2>2, <2>3, <2>4
<1>12. CASE TakeCall
    <2>1. UNCHANGED <<got, calls, at, cur>> /\ taken' = taken + 1 /\ at["A"] = "read"
        BY <1>12 DEF TakeCall, agentVars, captureVars, Recording
    <2>2. GivenKept' /\ ~MockUnderWay'
        BY <1>4, <2>1 DEF GivenKept, MockUnderWay, Writing
    <2>3. \A n \in 1..taken : n \in 1..taken'
        BY <1>5, <2>1
    <2>4. AnswerKnown'
        BY <1>4, <1>6, <2>1, <2>3 DEF AnswerKnown, AnswerUnderWay
    <2> QED
        BY <2>1, <2>2, <2>4 DEF MockKnown
<1>13. CASE TakeMock
    <2>1. /\ UNCHANGED <<got, cur>> /\ taken' = taken + 1 /\ taken < sent /\ Mocked(taken + 1)
          /\ at' = [at EXCEPT !["A"] = "snap"]
          /\ calls' = Append(calls, [n |-> taken + 1, result |-> "mock"])
        BY <1>13 DEF TakeMock, agentVars, Goto
    <2>2. taken + 1 \in Nat /\ "mock" \in Answers /\ Captured("mock") = "mock"
        BY <1>5 DEF Answers, Captured
    <2>3. /\ \A i, answer : Holds(calls, i, answer) => Holds(calls', i, answer)
          /\ Holds(calls', taken', "mock")
        BY <1>5, <2>1, <2>2, HoldsMore
    <2>4. GivenKept'
        BY <1>4, <2>1, <2>3 DEF GivenKept
    <2>5. taken' \in DOMAIN got /\ taken' \notin 1..taken
        BY <1>5, <2>1
    <2>6. got'[taken'] = "none" /\ taken' # 0
        <3>1. got[taken'] = "none"
            BY <1>7, <2>5
        <3>2. taken' # 0
            BY <1>5, <2>1
        <3> QED
            BY <2>1, <3>1, <3>2
    <2>7. Mocked(taken')
        BY <2>1
    <2>71. Mocked(taken)'
        BY <1>6, <2>7
    <2>8. MockKnown'
        BY <2>3, <2>6, <2>71 DEF MockKnown
    <2>9. \A n \in 1..taken : n \in 1..taken'
        BY <1>5, <2>1
    <2>10. AnswerUnderWay' => AnswerUnderWay
        BY <1>5, <2>1 DEF AnswerUnderWay, Thread
    <2>11. AnswerKnown'
        BY <1>4, <1>6, <2>1, <2>3, <2>9, <2>10 DEF AnswerKnown
    <2>12. at'["A"] # "start"
        BY <1>5, <2>1 DEF Thread
    <2> QED
        BY <2>4, <2>8, <2>11, <2>12
<1>14. CASE AnswerMock
    <2>1. /\ Give(taken, "mock") /\ UNCHANGED <<left, taken, calls, cur>> /\ at["A"] = "answer"
          /\ at' = [at EXCEPT !["A"] = "read"]
        BY <1>14 DEF AnswerMock, Recording, captureVars, Goto
    <2>2. /\ got' = [j \in 1..(N + 1) |-> got'[j]] /\ N' = N
          /\ \A j \in 1..(N + 1) : got'[j] = got[j] \/ (j = taken /\ got'[j] = "mock")
        BY <1>2, <1>5, <2>1, Handed
    <2>3. Mocked(taken) /\ Holds(calls, taken, "mock")
        BY <1>4, <2>1 DEF MockKnown, MockUnderWay
    <2>4. \A j \in DOMAIN got' : got'[j] # "none" => got'[j] # "error" /\ Holds(calls, j, got'[j])
        BY <1>4, <1>5, <2>2, <2>3 DEF GivenKept
    <2>5. GivenKept'
        BY <2>1, <2>4 DEF GivenKept
    <2>6. at'["A"] = "read" /\ at'["B"] = at["B"]
        BY <1>5, <2>1 DEF Thread
    <2>7. AnswerUnderWay' => AnswerUnderWay
        BY <2>1, <2>6 DEF AnswerUnderWay
    <2>8. ASSUME AnswerUnderWay PROVE got'[cur.n] = "none"
        <3>1. cur.n \in 1..taken /\ ~Mocked(cur.n) /\ got[cur.n] = "none"
            BY <1>4, <2>8 DEF AnswerKnown
        <3>2. cur.n # taken /\ cur.n \in 1..(N + 1)
            BY <1>5, <2>3, <3>1
        <3> QED
            BY <2>2, <3>1, <3>2
    <2>9. AnswerKnown'
        BY <1>4, <1>6, <2>1, <2>7, <2>8 DEF AnswerKnown
    <2> QED
        BY <2>5, <2>6, <2>9 DEF MockKnown, MockUnderWay, Writing
<1>15. CASE Hears
    <2>1. /\ pipe # <<>> /\ cur' = Head(pipe) /\ UNCHANGED <<got, taken>>
          /\ \/ /\ cur'.kind = "answer"
                /\ calls' = Append(calls, [n |-> Head(pipe).n, result |-> Captured(Head(pipe).answer)])
             \/ cur'.kind # "answer" /\ calls' = calls /\ at' = [at EXCEPT !["B"] = "pass"]
        BY <1>15 DEF Hears, agentVars, Goto
    <2>2. at'["A"] = at["A"] /\ (cur'.kind # "answer" => at'["B"] = "pass")
        BY <1>5, <1>15 DEF Hears, Goto, Thread
    <2>3. MockUnderWay' => MockUnderWay
        BY <2>2 DEF MockUnderWay
    <2>4. CASE cur'.kind # "answer"
        <3>1. ~AnswerUnderWay' /\ calls' = calls
            BY <2>1, <2>2, <2>4 DEF AnswerUnderWay, Writing
        <3> QED
            BY <1>9, <2>1, <2>2, <2>3, <3>1
    <2>5. CASE cur'.kind = "answer"
        <3>1. 1 \in DOMAIN pipe /\ pipe[1] = Head(pipe) /\ Head(pipe) \in Message
            BY <1>5, <2>1
        <3> DEFINE m == Head(pipe)
        <3> HIDE DEF m
        <3>2. /\ m.kind = "answer" /\ m.n \in 1..taken /\ ~Mocked(m.n) /\ m.answer \notin {"none", "error"}
              /\ \A k \in DOMAIN calls : calls[k].n # m.n
            BY <1>3, <2>1, <2>5, <3>1 DEF PipeApart, m
        <3>3. m.n \in Nat /\ Captured(m.answer) \in Answers
            <4>1. m.answer \in Answers
                BY <3>1 DEF m, Message
            <4> QED
                BY <3>2, <4>1 DEF Captured, Answers
        <3>4. cur' = m /\ calls' = Append(calls, [n |-> m.n, result |-> Captured(m.answer)])
            BY <2>1, <2>5 DEF m
        <3>5. /\ \A i, answer : Holds(calls, i, answer) => Holds(calls', i, answer)
              /\ Holds(calls', m.n, m.answer)
            BY <1>5, <3>3, <3>4, HoldsMore
        <3>6. GivenKept'
            BY <1>4, <2>1, <3>5 DEF GivenKept
        <3>7. MockKnown'
            BY <1>4, <1>6, <2>1, <2>3, <3>5 DEF MockKnown
        <3>8. \A a : ~Holds(calls, m.n, a)
            BY <3>2 DEF Holds
        <3>9. got[m.n] = "none"
            <4>1. m.n \in DOMAIN got
                BY <1>5, <3>2
            <4> QED
                BY <1>4, <3>8, <4>1 DEF GivenKept
        <3>10. AnswerKnown'
            BY <1>6, <2>1, <3>2, <3>4, <3>5, <3>9 DEF AnswerKnown
        <3> QED
            BY <1>4, <2>1, <2>2, <3>6, <3>7, <3>10
    <2> QED
        BY <2>4, <2>5
<1>16. CASE Pass
    <2>1. /\ at["B"] = "pass" /\ UNCHANGED <<left, taken, calls>> /\ at' = [at EXCEPT !["B"] = "read"]
          /\ got' = got \/ (cur.kind = "answer" /\ Give(cur.n, cur.answer))
        BY <1>16 DEF Pass, Recording, captureVars, Goto
    <2>2. at'["B"] = "read" /\ at'["A"] = at["A"]
        BY <1>5, <2>1 DEF Thread
    <2>3. ~AnswerUnderWay' /\ (MockUnderWay' => MockUnderWay)
        BY <2>2 DEF AnswerUnderWay, MockUnderWay, Writing
    <2>4. CASE got' = got
        BY <1>9, <2>1, <2>2, <2>3, <2>4
    <2>5. CASE cur.kind = "answer" /\ Give(cur.n, cur.answer)
        <3>1. /\ got' = [j \in 1..(N + 1) |-> got'[j]] /\ N' = N
              /\ \A j \in 1..(N + 1) : got'[j] = got[j] \/ (j = cur.n /\ got'[j] = cur.answer)
            BY <1>2, <1>5, <2>1, <2>5, Handed
        <3>2. ~Mocked(cur.n) /\ Holds(calls, cur.n, cur.answer) /\ cur.answer # "error"
            BY <1>4, <2>1, <2>5 DEF AnswerKnown, AnswerUnderWay
        <3>3. \A j \in DOMAIN got' : got'[j] # "none" => got'[j] # "error" /\ Holds(calls, j, got'[j])
            BY <1>4, <1>5, <3>1, <3>2 DEF GivenKept
        <3>4. GivenKept'
            BY <2>1, <3>3 DEF GivenKept
        <3>5. ASSUME MockUnderWay PROVE got'[taken] = "none"
            <4>1. Mocked(taken) /\ taken # 0 /\ got[taken] = "none"
                BY <1>4, <3>5 DEF MockKnown
            <4>2. taken # cur.n /\ taken \in 1..(N + 1)
                BY <1>5, <3>2, <4>1
            <4> QED
                BY <3>1, <4>1, <4>2
        <3>6. MockKnown'
            BY <1>4, <1>6, <2>1, <2>3, <3>5 DEF MockKnown
        <3> QED
            BY <1>4, <2>1, <2>2, <2>3, <3>4, <3>6 DEF AnswerKnown
    <2> QED
        BY <2>1, <2>4, <2>5
<1> QED
    <2>1. \/ Untouched
          \/ AgentCalls /\ UNCHANGED stdioVars
          \/ Die /\ UNCHANGED <<script, mode, sent, got, asked, calls, trouble, taken, pipe, cur, snap, fd, files>>
          \/ Recorders
          \/ RealServer
        BY <1>2, StepsOfStdio
    <2> QED
        BY <1>10, <1>11, <1>12, <1>13, <1>14, <1>15, <1>16, <2>1 DEF Recorders
-----------------------------------------------------------------------------
(* What a recording keeps: the listener. *)

\* Only a POST that has had the lock has an answer, and one that has it has none.
PostsTaken ==
  script.transport = "http" =>
    /\ \A i \in DOMAIN got : got[i] # "none" => i \in handled
    /\ stage = "idle" <=> lock = 0
    /\ stage # "idle" => got[lock] = "none"

\* An agent that makes one call at a time waits for the last one only.
OneAtATime == script.ahead = 1 => \A i \in 1..sent : got[i] = "none" => i = sent

\* An answer is handed to a call that had none.
HandsOut(i, answer) == /\ \A j \in DOMAIN got : got'[j] = got[j] \/ (j = i /\ got'[j] = answer)
                       /\ DOMAIN got' = DOMAIN got /\ got[i] = "none"

LEMMA Gives ==
  ASSUME Typed, Next, NEW i, NEW answer, Give(i, answer), left' = left, got[i] = "none"
  PROVE  HandsOut(i, answer)
<1>1. TypeBoundary /\ DOMAIN got = 1..(N + 1)
    BY ScriptTyped DEF Typed, TypeOK
<1>2. /\ got' = [j \in 1..(N + 1) |-> got'[j]]
      /\ \A j \in 1..(N + 1) : got'[j] = got[j] \/ (j = i /\ got'[j] = answer)
    BY <1>1, ScriptStays, Handed
<1> QED
    BY <1>1, <1>2 DEF HandsOut

\* Who is handed an answer, and what becomes of the POSTs.
LEMMA Handouts ==
  ASSUME Typed, Owed, PostsTaken, Next, ~Replay
  PROVE  \/ AgentCalls /\ UNCHANGED <<got, handled, stage, lock>>
         \/ UNCHANGED <<got, sent, handled, stage, lock>>
         \/ script.transport = "stdio" /\ UNCHANGED <<sent, handled, stage, lock>> /\ \E i, answer : HandsOut(i, answer)
         \/ Respond /\ HandsOut(lock, reply) /\ UNCHANGED <<sent, handled>>
         \/ \E i \in 1..sent : /\ TakeLock(i) /\ script.transport = "http" /\ stage' # "idle"
                               /\ UNCHANGED <<got, sent>>
         \/ script.transport = "http" /\ stage # "idle" /\ stage' # "idle" /\ UNCHANGED <<got, sent, handled, lock>>
<1>1. CASE Agent
    <2>1. CASE AgentCalls /\ UNCHANGED <<stdioVars, httpVars, runVars>>
        BY <2>1 DEF AgentCalls, httpVars
    <2> QED
        BY <1>1, <2>1 DEF Agent, AgentLeaves, OpenStream, agentVars, httpVars
<1>2. CASE Server
    <2>1. CASE ForwardOk \/ ForwardDemand \/ ForwardFails
        BY <2>1 DEF ForwardOk, ForwardDemand, ForwardFails, Forwarding, Listening, Answer, agentVars
    <2> QED
        BY <1>2, <2>1 DEF Server, RealServer, Upstream, ForwardNote, Pump, PumpDemand, agentVars, httpVars
<1>3. CASE DriveEnds \/ ReadOut \/ ReadError \/ ReadCaptured \/ ReadEvents \/ ReadLog \/ Expire
    BY <1>3 DEF DriveEnds, ReadOut, ReadError, ReadCaptured, ReadEvents, ReadLog, Expire, Same, agentVars, httpVars
<1>4. CASE Ended
    BY <1>4 DEF Ended, vars, boundaryVars, agentVars, httpVars
<1>5. CASE StandIn /\ UNCHANGED <<setVars, spoilt, httpVars, runVars>>
    <2> SUFFICES ASSUME got' # got
                 PROVE  script.transport = "stdio" /\ UNCHANGED sent /\ \E i, answer : HandsOut(i, answer)
        BY <1>5 DEF httpVars, StandIn, Flush, Start, TakeMock, AnswerMock, TakeCall, Close, Hears, Pass, EndOfServer,
                    WriteLast, Announce, Serve, WriteServed, BreakOff, agentVars
    <2>1. AnswerMock \/ Pass \/ Serve
        BY <1>5 DEF StandIn, Flush, Start, TakeMock, TakeCall, Close, Hears, EndOfServer,
                    WriteLast, Announce, WriteServed, BreakOff, agentVars
    <2>2. CASE AnswerMock
        <3>1. at["A"] = "answer" /\ StdioRecord /\ Give(taken, "mock") /\ UNCHANGED <<left, sent>>
            BY <2>2 DEF AnswerMock, Recording, Alive, StdioRecord
        <3>2. got[taken] = "none"
            BY <3>1 DEF Owed, MockKnown, MockUnderWay
        <3> QED
            BY <3>1, <3>2, Gives DEF StdioRecord
    <2>3. CASE Pass
        <3>1. at["B"] = "pass" /\ StdioRecord /\ cur.kind = "answer" /\ Give(cur.n, cur.answer) /\ UNCHANGED <<left, sent>>
            BY <2>3 DEF Pass, Recording, Alive, StdioRecord
        <3>2. got[cur.n] = "none"
            BY <3>1 DEF Owed, AnswerKnown, AnswerUnderWay
        <3> QED
            BY <3>1, <3>2, Gives DEF StdioRecord
    <2>4. CASE Serve
        <3>1. /\ script.transport = "stdio" /\ Give(taken + 1, Reply(taken + 1)) /\ UNCHANGED <<left, sent>>
              /\ taken < sent
            BY <2>4 DEF Serve, Replaying, Alive
        <3>2. taken + 1 \in DOMAIN got /\ taken + 1 \notin 1..taken
            BY <3>1, ScriptTyped DEF Typed, TypeOK, TypeBoundary, TypeStdio
        <3>3. got[taken + 1] = "none"
            BY <3>1, <3>2 DEF Owed, GivenTaken
        <3> QED
            BY <3>1, <3>3, Gives
    <2> QED
        BY <2>1, <2>2, <2>3, <2>4
<1>6. CASE Listener /\ UNCHANGED <<setVars, stdioVars, runVars>>
    <2>1. CASE Posts
        BY <2>1 DEF Posts, PostMock, PostForward, PostReplay, Listening, Answer, agentVars
    <2>2. CASE Respond
        <3>1. script.transport = "http" /\ stage = "respond" /\ Give(lock, reply) /\ UNCHANGED <<left, sent, handled>>
            BY <2>2 DEF Respond
        <3>2. got[lock] = "none"
            BY <3>1 DEF PostsTaken
        <3> QED
            BY <2>2, <3>1, <3>2, Gives
    <2>3. CASE CapturePushed \/ Emit
        BY <2>3 DEF CapturePushed, Emit, agentVars, httpVars
    <2> QED
        BY <1>6, <2>1, <2>2, <2>3 DEF Listener
<1> QED
    BY <1>1, <1>2, <1>3, <1>4, <1>5, <1>6 DEF Next, Transport, Collecting

LEMMA OneAtATimeStep ==
  ASSUME Typed, Owed, PostsTaken, OneAtATime, Next
  PROVE  OneAtATime'
<1> SUFFICES ASSUME script.ahead = 1, NEW i \in 1..sent', got'[i] = "none"
             PROVE  i = sent'
    BY ScriptStays DEF OneAtATime
<1>1. /\ N \in Nat /\ DOMAIN got = 1..(N + 1) /\ sent \in 0..(N + 1) /\ sent \in Nat
    BY ScriptTyped DEF Typed, TypeOK, TypeBoundary
<1>2. \A j \in 1..sent : got[j] = "none" => j = sent
    BY DEF OneAtATime
<1>3. CASE Replay
    BY <1>3 DEF Replay
<1>4. CASE AgentCalls /\ UNCHANGED got
    <2>1. Cardinality(UnderWay) < 1 /\ sent' = sent + 1
        BY <1>4 DEF AgentCalls
    <2>2. IsFiniteSet(UnderWay)
        <3>1. IsFiniteSet(1..sent) /\ UnderWay \subseteq 1..sent
            BY <1>1, FS_Interval DEF UnderWay
        <3> QED
            BY <3>1, FS_Subset
    <2>3. Cardinality(UnderWay) = 0
        BY <2>1, <2>2, FS_CardinalityType
    <2>4. UnderWay = {}
        BY <2>2, <2>3, FS_EmptySet
    <2>5. i \notin 1..sent
        BY <1>4, <2>4 DEF UnderWay
    <2> QED
        BY <1>1, <2>1, <2>5
<1>5. CASE sent' = sent /\ \E n, answer : HandsOut(n, answer)
    <2>1. PICK n, answer : HandsOut(n, answer)
        BY <1>5
    <2>2. CASE got[i] = "none"
        BY <1>2, <1>5, <2>2
    <2>3. CASE got[i] # "none"
        <3>1. i \in DOMAIN got
            BY <1>1, <1>5
        <3>2. i = n
            BY <2>1, <2>3, <3>1 DEF HandsOut
        <3> QED
            BY <2>1, <2>3, <3>2 DEF HandsOut
    <2> QED
        BY <2>2, <2>3
<1>6. CASE UNCHANGED <<got, sent>>
    BY <1>2, <1>6
<1> QED
    BY <1>3, <1>4, <1>5, <1>6, Handouts

LEMMA PostsTakenStep ==
  ASSUME Typed, Owed, PostsTaken, Next
  PROVE  PostsTaken'
<1> SUFFICES ASSUME script.transport = "http"
             PROVE  /\ \A i \in DOMAIN got' : got'[i] # "none" => i \in handled'
                    /\ stage' = "idle" <=> lock' = 0
                    /\ stage' # "idle" => got'[lock'] = "none"
    BY ScriptStays DEF PostsTaken
<1>1. /\ N \in Nat /\ DOMAIN got = 1..(N + 1) /\ sent \in 0..(N + 1) /\ sent \in Nat
      /\ handled \subseteq 1..sent /\ stage \in {"idle", "forward", "respond"} /\ (stage # "idle" => lock \in handled)
    BY ScriptTyped DEF Typed, TypeOK, TypeBoundary, TypeHttp
<1>2. /\ \A i \in DOMAIN got : got[i] # "none" => i \in handled
      /\ stage = "idle" <=> lock = 0
      /\ stage # "idle" => got[lock] = "none"
    BY DEF PostsTaken
<1>3. CASE Replay
    <2>1. got' = [i \in DOMAIN got |-> "none"] /\ stage' = "idle" /\ lock' = 0
        BY <1>3 DEF Replay
    <2> QED
        BY <2>1
<1>4. CASE UNCHANGED <<got, handled, stage, lock>>
    BY <1>2, <1>4
<1>5. CASE Respond /\ HandsOut(lock, reply) /\ UNCHANGED <<sent, handled>>
    <2>1. stage' = "idle" /\ lock' = 0 /\ stage = "respond"
        BY <1>5 DEF Respond
    <2>2. lock \in handled
        BY <1>1, <2>1
    <2>3. \A i \in DOMAIN got' : got'[i] # "none" => i \in handled'
        BY <1>2, <1>5, <2>2 DEF HandsOut
    <2> QED
        BY <2>1, <2>3
<1>6. ASSUME NEW i \in 1..sent, TakeLock(i), stage' # "idle", UNCHANGED <<got, sent>>
      PROVE  /\ \A j \in DOMAIN got' : got'[j] # "none" => j \in handled'
             /\ stage' = "idle" <=> lock' = 0
             /\ stage' # "idle" => got'[lock'] = "none"
    <2>1. i \notin handled /\ lock' = i /\ handled' = handled \cup {i}
        BY <1>6 DEF TakeLock
    <2>2. i \in DOMAIN got /\ i # 0
        BY <1>1
    <2>3. got[i] = "none"
        BY <1>2, <2>1, <2>2
    <2> QED
        BY <1>2, <1>6, <2>1, <2>2, <2>3
<1>7. CASE stage # "idle" /\ stage' # "idle" /\ UNCHANGED <<got, sent, handled, lock>>
    BY <1>2, <1>7
<1> QED
    BY <1>3, <1>4, <1>5, <1>6, <1>7, Handouts
-----------------------------------------------------------------------------
(* What a recording keeps: the out file. *)

\* No mocked call is under way beside another: the agent makes one call at a time,
\* or none of its calls is mocked.  Two writers of one temporary file could
\* otherwise undo each other's work.
OneWriter == \A s \in Scripts : s.transport = "stdio" => s.ahead = 1 \/ \A i \in DOMAIN s.calls : s.calls[i] # "mock"

\* The two threads do not write at the same time.
Solo == StdioRecord => ~(MockUnderWay /\ AnswerUnderWay)

LEMMA WritesAlone ==
  ASSUME OneWriter, Typed, Owed, OneAtATime
  PROVE  Solo
<1> SUFFICES ASSUME StdioRecord, MockUnderWay, AnswerUnderWay PROVE FALSE
    BY DEF Solo
<1>1. /\ script \in Scripts /\ script.transport = "stdio" /\ taken \in 0..sent /\ sent \in Nat /\ N \in Nat
      /\ script.calls \in Seq({"real", "mock"})
    BY ScriptTyped, McpAssumption DEF Typed, TypeOK, TypeBoundary, TypeStdio, StdioRecord
<1>2. /\ taken # 0 /\ Mocked(taken) /\ got[taken] = "none"
      /\ cur.n \in 1..taken /\ ~Mocked(cur.n) /\ got[cur.n] = "none"
    BY DEF Owed, MockKnown, AnswerKnown
<1>3. taken \in 1..sent /\ cur.n \in 1..sent
    BY <1>1, <1>2
<1>4. CASE script.ahead = 1
    <2>1. taken = sent /\ cur.n = sent
        BY <1>2, <1>3, <1>4 DEF OneAtATime
    <2> QED
        BY <1>2, <2>1
<1>5. CASE \A i \in DOMAIN script.calls : script.calls[i] # "mock"
    <2>1. taken \in DOMAIN script.calls /\ script.calls[taken] = "mock"
        BY <1>1, <1>2 DEF Mocked, N
    <2> QED
        BY <1>5, <2>1
<1> QED
    BY <1>1, <1>4, <1>5 DEF OneWriter

Begins(s, t) == Len(s) <= Len(t) /\ \A k \in DOMAIN s : s[k] = t[k]

\* The out file is a beginning of what is captured, with all that the agent was
\* given; a thread that writes, writes all there is, and nobody else does.
OutKept ==
  /\ files.out.kind = "calls" => files.out.calls \in Seq(Entry) /\ Begins(files.out.calls, calls)
  /\ \A i \in DOMAIN got : got[i] # "none" => files.out.kind = "calls" /\ Holds(files.out.calls, i, got[i])

WriteKept(t) ==
  /\ at[t] \in {"open", "put", "rename"} => snap[t].kind = "calls" /\ snap[t].calls = calls
  /\ at[t] = "put" => fd[t] = "tmp" /\ files.tmp = Empty
  /\ at[t] = "rename" => files.tmp = snap[t]

\* What is about to be given has been written.
WrittenFirst ==
  at["A"] = "answer" \/ (at["B"] = "pass" /\ cur.kind = "answer") =>
    files.out.kind = "calls" /\ files.out.calls = calls

OutInOrder == StdioRecord /\ ~trouble => OutKept /\ WrittenFirst /\ \A t \in Thread : WriteKept(t)

\* The steps that neither write nor capture.
LEMMA OutUnchanged ==
  ASSUME OutKept, WrittenFirst, \A t \in Thread : WriteKept(t),
         UNCHANGED <<got, calls, fd, files, snap>>,
         \A t \in Thread : at'[t] \in {"open", "put", "rename"} => at'[t] = at[t],
         at'["A"] = "answer" => at["A"] = "answer",
         at'["B"] = "pass" /\ cur'.kind = "answer" => at["B"] = "pass" /\ cur.kind = "answer"
  PROVE  OutKept' /\ WrittenFirst' /\ \A t \in Thread : WriteKept(t)'
<1>1. OutKept'
    BY DEF OutKept
<1>2. WrittenFirst'
    BY DEF WrittenFirst
<1>3. \A t \in Thread : WriteKept(t)'
    BY DEF WriteKept
<1> QED
    BY <1>1, <1>2, <1>3

\* A writer alone, from the snapshot to the rename.
LEMMA FlushKeeps ==
  ASSUME Typed, OutKept, WrittenFirst, \A t \in Thread : WriteKept(t), GivenKept,
         NEW t \in Thread, Flush(t), ~trouble', \A u \in Thread : u # t => at[u] \notin Writing
  PROVE  OutKept' /\ WrittenFirst' /\ \A u \in Thread : WriteKept(u)'
<1>1. /\ at \in [Thread -> Parts] /\ fd \in [Thread -> {"none", "tmp", "out"}] /\ calls \in Seq(Entry)
      /\ files = [tmp |-> files.tmp, out |-> files.out] /\ DOMAIN snap = Thread
    BY DEF Typed, TypeOK, TypeBoundary, TypeStdio, FilesOfTheirMode
<1>2. UNCHANGED <<got, calls, cur>> /\ at[t] \in Writing
    BY DEF Flush, Snap, Open, Put, Rename, Recording, agentVars, captureVars, Writing
<1>3. CASE at' = [u \in Thread |-> "gone"] /\ UNCHANGED <<files, fd, snap>>
    <2>1. \A u \in Thread : at'[u] = "gone"
        BY <1>3
    <2> QED
        BY <1>2, <1>3, <2>1, OutUnchanged DEF Thread
<1>4. CASE Snap(t)
    <2>1. /\ at' = [at EXCEPT ![t] = "open"] /\ snap' = [snap EXCEPT ![t] = Kept(calls, events)] /\ UNCHANGED <<files, fd>>
        BY <1>4 DEF Snap, Goto
    <2>2. /\ at'[t] = "open" /\ snap'[t] = Kept(calls, events)
          /\ \A u \in Thread : u # t => at'[u] = at[u] /\ snap'[u] = snap[u]
        BY <1>1, <2>1
    <2>3. OutKept'
        BY <1>2, <2>1 DEF OutKept
    <2>4. WrittenFirst'
        BY <1>2, <2>1, <2>2 DEF WrittenFirst, Thread
    <2>5. \A u \in Thread : WriteKept(u)'
        BY <1>2, <2>1, <2>2 DEF WriteKept, Kept
    <2> QED
        BY <2>3, <2>4, <2>5
<1>5. CASE Open(t)
    <2>1. \/ /\ files' = [tmp |-> Empty, out |-> files.out] /\ fd' = [fd EXCEPT ![t] = "tmp"]
             /\ at' = [at EXCEPT ![t] = "put"] /\ snap' = snap
          \/ at' = [u \in Thread |-> "gone"] /\ UNCHANGED <<files, fd, snap>>
        BY <1>1, <1>5 DEF Open, FlushFails, Goto, Die
    <2>2. CASE /\ files' = [tmp |-> Empty, out |-> files.out] /\ fd' = [fd EXCEPT ![t] = "tmp"]
               /\ at' = [at EXCEPT ![t] = "put"] /\ snap' = snap
        <3>1. /\ at'[t] = "put" /\ fd'[t] = "tmp" /\ files'.tmp = Empty /\ files'.out = files.out
              /\ \A u \in Thread : u # t => at'[u] = at[u] /\ at'[u] \notin Writing
            BY <1>1, <2>2
        <3>2. at[t] = "open"
            BY <1>5 DEF Open, Recording
        <3>3. OutKept'
            BY <1>2, <3>1 DEF OutKept
        <3>4. WrittenFirst'
            BY <1>2, <3>1 DEF WrittenFirst, Thread
        <3>5. \A u \in Thread : WriteKept(u)'
            BY <1>2, <2>2, <3>1, <3>2 DEF WriteKept, Writing
        <3> QED
            BY <3>3, <3>4, <3>5
    <2> QED
        BY <1>3, <2>1, <2>2
<1>6. CASE Put(t)
    <2>1. at[t] = "put" /\ at' = [at EXCEPT ![t] = "rename"] /\ UNCHANGED <<snap, fd>>
        BY <1>6 DEF Put, Recording, Goto
    <2>2. fd[t] = "tmp" /\ files.tmp = Empty /\ snap[t].kind = "calls" /\ snap[t].calls = calls
        BY <2>1 DEF WriteKept
    <2>3. files' = [files EXCEPT !["tmp"] = Overwrite(files.tmp, snap[t])]
        BY <1>6, <2>2 DEF Put
    <2>4. Overwrite(files.tmp, snap[t]) = snap[t]
        BY <2>2 DEF Overwrite, Empty
    <2>5. files'.tmp = snap[t] /\ files'.out = files.out
        BY <1>1, <2>3, <2>4
    <2>6. at'[t] = "rename" /\ \A u \in Thread : u # t => at'[u] = at[u] /\ at'[u] \notin Writing
        BY <1>1, <2>1
    <2>7. OutKept'
        BY <1>2, <2>5 DEF OutKept
    <2>8. WrittenFirst'
        BY <1>2, <2>5, <2>6 DEF WrittenFirst, Thread
    <2>9. \A u \in Thread : WriteKept(u)'
        BY <1>2, <2>1, <2>2, <2>5, <2>6 DEF WriteKept, Writing
    <2> QED
        BY <2>7, <2>8, <2>9
<1>7. CASE Rename(t)
    <2>1. at[t] = "rename" /\ snap' = snap
        BY <1>7 DEF Rename, Recording
    <2>2. files.tmp = snap[t] /\ snap[t].kind = "calls" /\ snap[t].calls = calls
        BY <2>1 DEF WriteKept
    <2>3. files' = [tmp |-> NoFile, out |-> files.tmp] /\ Persisted(t)
        <3>1. files.tmp.kind # "no file"
            BY <2>2
        <3> QED
            BY <1>7, <3>1 DEF Rename
    <2>4. files'.out.kind = "calls" /\ files'.out.calls = calls
        BY <2>2, <2>3
    <2>5. /\ at'[t] \in {"answer", "pass"}
          /\ \A u \in Thread : u # t => at'[u] = at[u] /\ at'[u] \notin Writing
        BY <1>1, <2>3 DEF Persisted, Goto
    <2>6. OutKept'
        <3>1. Begins(calls, calls)
            BY <1>1 DEF Begins
        <3> QED
            BY <1>1, <1>2, <2>4, <3>1 DEF OutKept, GivenKept
    <2>7. WrittenFirst'
        BY <1>2, <2>4 DEF WrittenFirst
    <2>8. \A u \in Thread : WriteKept(u)'
        BY <2>5 DEF WriteKept, Writing
    <2> QED
        BY <2>6, <2>7, <2>8
<1> QED
    BY <1>4, <1>5, <1>6, <1>7 DEF Flush

LEMMA OutStep ==
  ASSUME Typed, Owed, Solo, OutInOrder, Next, Typed', Owed', Solo'
  PROVE  OutInOrder'
<1> SUFFICES ASSUME StdioRecord', ~trouble'
             PROVE  OutKept' /\ WrittenFirst' /\ \A t \in Thread : WriteKept(t)'
    BY DEF OutInOrder
<1>1. StdioRecord /\ ~Replay /\ script' = script /\ mode' = mode
    BY StillRecords
<1>2. /\ at \in [Thread -> Parts] /\ calls \in Seq(Entry) /\ taken \in Nat /\ pipe \in Seq(Message)
      /\ files = [tmp |-> files.tmp, out |-> files.out] /\ calls' \in Seq(Entry)
      /\ DOMAIN got = 1..(N + 1) /\ N \in Nat /\ sent \in Nat
    BY ScriptTyped DEF Typed, TypeOK, TypeBoundary, TypeStdio
<1>3. ~trouble
    BY <1>1, StepsOfStdio DEF Untouched, AgentCalls, captureVars, stdioVars, Recorders, Flush, Snap, Open, Put, Rename, FlushFails,
       Start, TakeMock, AnswerMock, TakeCall, Close, Hears, Pass, EndOfServer, WriteLast, RealServer
<1>4. OutKept /\ WrittenFirst /\ (\A t \in Thread : WriteKept(t)) /\ GivenKept
    BY <1>1, <1>3 DEF OutInOrder, Owed
<1>5. ~(MockUnderWay /\ AnswerUnderWay) /\ ~(MockUnderWay' /\ AnswerUnderWay')
    BY <1>1 DEF Solo
<1>6. GivenKept'
    BY DEF Owed
<1>7. CASE \/ Untouched
           \/ AgentCalls /\ UNCHANGED stdioVars
           \/ Die /\ UNCHANGED <<script, mode, sent, got, asked, calls, trouble, taken, pipe, cur, snap, fd, files>>
           \/ RealServer
    <2>1. UNCHANGED <<got, calls, fd, files, snap, cur>>
        BY <1>7 DEF Untouched, AgentCalls, captureVars, stdioVars, RealServer, agentVars
    <2>2. at' = at \/ at' = [t \in Thread |-> "gone"]
        BY <1>7 DEF Untouched, Die, stdioVars, RealServer
    <2>3. /\ \A t \in Thread : at'[t] \in {"open", "put", "rename"} => at'[t] = at[t]
          /\ at'["A"] = "answer" => at["A"] = "answer"
          /\ at'["B"] = "pass" => at["B"] = "pass"
        BY <2>2 DEF Thread
    <2> QED
        BY <1>4, <2>1, <2>3, OutUnchanged
<1>8. CASE TakeCall \/ Close \/ EndOfServer \/ Start
    <2>1. CASE files' = files
        <3>1. UNCHANGED <<got, calls, fd, files, snap, cur>>
            BY <1>8, <2>1 DEF TakeCall, Close, EndOfServer, Start, agentVars, captureVars
        <3>2. /\ \A t \in Thread : at'[t] \in {"open", "put", "rename"} => at'[t] = at[t]
              /\ at'["A"] = "answer" => at["A"] = "answer"
              /\ at'["B"] = "pass" => at["B"] = "pass"
            BY <1>2, <1>8, <2>1 DEF TakeCall, Close, EndOfServer, Start, Goto, Thread, Die
        <3> QED
            BY <1>4, <3>1, <3>2, OutUnchanged
    <2>2. CASE Start /\ Publish(ErrorOut) /\ Die
        <3>1. at["A"] = "start" /\ UNCHANGED <<got, calls, snap, fd>> /\ files'.out.kind = "error"
            BY <1>2, <2>2 DEF Start, Recording, agentVars, captureVars, Publish, ErrorOut
        <3>2. taken = 0 /\ \A t \in Thread : at'[t] = "gone"
            BY <1>1, <2>2, <3>1 DEF Owed, Die
        <3>3. \A i \in DOMAIN got' : got'[i] = "none"
            BY <1>1, <3>1, <3>2 DEF Owed, GivenTaken, StdioRecord
        <3>4. OutKept'
            BY <3>1, <3>3 DEF OutKept
        <3> QED
            BY <3>2, <3>4 DEF WrittenFirst, WriteKept, Thread
    <2> QED
        BY <1>8, <2>1, <2>2 DEF Start, TakeCall, Close, EndOfServer
<1>9. CASE TakeMock
    <2>1. /\ UNCHANGED <<got, snap, fd, files, cur>> /\ at' = [at EXCEPT !["A"] = "snap"]
          /\ calls' = Append(calls, [n |-> taken + 1, result |-> "mock"])
        BY <1>9 DEF TakeMock, agentVars, Goto
    <2>2. at'["A"] = "snap" /\ at'["B"] = at["B"]
        BY <1>2, <2>1 DEF Thread
    <2>3. ~AnswerUnderWay'
        BY <1>5, <2>2 DEF MockUnderWay, Writing
    <2>4. at'["B"] \notin Writing /\ ~(at'["B"] = "pass" /\ cur'.kind = "answer")
        BY <2>3 DEF AnswerUnderWay
    <2>5. OutKept'
        <3>1. [n |-> taken + 1, result |-> "mock"] \in Entry
            BY <1>2 DEF Entry, Answers
        <3>2. Len(calls) <= Len(calls') /\ \A k \in DOMAIN calls : calls'[k] = calls[k]
            BY <1>2, <2>1, <3>1
        <3> QED
            <4> SUFFICES ASSUME files.out.kind = "calls"
                         PROVE  Begins(files.out.calls, calls')
                BY <1>4, <2>1 DEF OutKept
            <4>1. files.out.calls \in Seq(Entry) /\ Begins(files.out.calls, calls)
                BY <1>4 DEF OutKept
            <4> QED
                BY <1>2, <3>2, <4>1 DEF Begins
    <2> QED
        BY <2>2, <2>4, <2>5 DEF WrittenFirst, WriteKept, Thread, Writing
<1>10. CASE Hears
    <2>1. UNCHANGED <<got, snap, fd, files>>
        BY <1>10 DEF Hears, agentVars
    <2>2. CASE calls' = calls /\ at' = [at EXCEPT !["B"] = "pass"] /\ cur'.kind # "answer"
        <3>1. /\ at'["B"] = "pass" /\ at'["A"] = at["A"]
            BY <1>2, <2>2 DEF Thread
        <3> QED
            BY <1>4, <2>1, <2>2, <3>1, OutUnchanged DEF Thread
    <2>3. CASE /\ at' = [at EXCEPT !["B"] = "snap"] /\ Head(pipe).kind = "answer" /\ pipe # <<>>
               /\ calls' = Append(calls, [n |-> Head(pipe).n, result |-> Captured(Head(pipe).answer)])
        <3>1. at'["B"] = "snap" /\ at'["A"] = at["A"]
            BY <1>2, <2>3 DEF Thread
        <3>2. ~MockUnderWay'
            BY <1>5, <3>1 DEF AnswerUnderWay, Writing
        <3>3. OutKept'
            <4>1. [n |-> Head(pipe).n, result |-> Captured(Head(pipe).answer)] \in Entry
                <5>1. Head(pipe) \in Message
                    BY <1>2, <2>3
                <5> QED
                    BY <5>1 DEF Message, Entry, Captured, Answers
            <4>2. Len(calls) <= Len(calls') /\ \A k \in DOMAIN calls : calls'[k] = calls[k]
                BY <1>2, <2>3, <4>1
            <4> SUFFICES ASSUME files.out.kind = "calls"
                         PROVE  Begins(files.out.calls, calls')
                BY <1>4, <2>1 DEF OutKept
            <4>3. files.out.calls \in Seq(Entry) /\ Begins(files.out.calls, calls)
                BY <1>4 DEF OutKept
            <4> QED
                BY <1>2, <4>2, <4>3 DEF Begins
        <3> QED
            BY <3>1, <3>2, <3>3 DEF WrittenFirst, WriteKept, Thread, MockUnderWay, Writing
    <2> QED
        BY <1>10, <2>2, <2>3 DEF Hears, Goto, AfterAnswer
<1>11. CASE AnswerMock \/ Pass
    <2>1. UNCHANGED <<calls, snap, fd, files>>
        BY <1>11 DEF AnswerMock, Pass, captureVars
    <2>2. \A t \in Thread : at'[t] \in {"open", "put", "rename"} => at'[t] = at[t]
        BY <1>2, <1>11 DEF AnswerMock, Pass, Goto, Thread
    <2>3. \A t \in Thread : WriteKept(t)'
        BY <1>4, <2>1, <2>2 DEF WriteKept
    <2>4. /\ at'["A"] = "answer" => at["A"] = "answer"
          /\ at'["B"] = "pass" /\ cur'.kind = "answer" => at["B"] = "pass" /\ cur.kind = "answer"
        BY <1>2, <1>11 DEF AnswerMock, Pass, Goto, Thread
    <2>5. WrittenFirst'
        BY <1>4, <2>1, <2>4 DEF WrittenFirst
    <2>6. OutKept'
        <3>1. CASE got' = got
            BY <1>4, <2>1, <3>1 DEF OutKept
        <3>2. CASE at["A"] = "answer" \/ (at["B"] = "pass" /\ cur.kind = "answer")
            <4>1. files.out.kind = "calls" /\ files.out.calls = calls
                BY <1>4, <3>2 DEF WrittenFirst
            <4> QED
                BY <1>4, <1>6, <2>1, <4>1 DEF OutKept, GivenKept
        <3> QED
            BY <1>11, <3>1, <3>2 DEF AnswerMock, Pass, Recording
    <2> QED
        BY <2>3, <2>5, <2>6
<1>12. CASE WriteLast
    <2>1. /\ UNCHANGED <<got, calls>> /\ \A t \in Thread : at'[t] = "gone"
          /\ files' = files \/ files'.out = Kept(calls, events)
        BY <1>2, <1>3, <1>12 DEF WriteLast, Publish, agentVars, captureVars, Die
    <2>2. OutKept'
        <3>1. CASE files' = files
            BY <1>4, <2>1, <3>1 DEF OutKept
        <3>2. CASE files'.out = Kept(calls, events)
            <4>1. files'.out.kind = "calls" /\ files'.out.calls = calls /\ Begins(calls, calls)
                BY <1>2, <3>2 DEF Kept, Begins
            <4> QED
                BY <1>2, <1>6, <2>1, <4>1 DEF OutKept, GivenKept
        <3> QED
            BY <2>1, <3>1, <3>2
    <2> QED
        BY <2>1, <2>2 DEF WrittenFirst, WriteKept, Thread
<1>13. ASSUME NEW t \in Thread, Flush(t)
       PROVE  OutKept' /\ WrittenFirst' /\ \A u \in Thread : WriteKept(u)'
    <2>1. at[t] \in Writing
        BY <1>13 DEF Flush, Snap, Open, Put, Rename, Recording, Writing
    <2>2. \A u \in Thread : u # t => at[u] \notin Writing
        BY <1>5, <2>1 DEF MockUnderWay, AnswerUnderWay, Thread
    <2> QED
        BY <1>4, <1>13, <2>2, FlushKeeps
<1> QED
    <2>1. \/ Untouched
          \/ AgentCalls /\ UNCHANGED stdioVars
          \/ Die /\ UNCHANGED <<script, mode, sent, got, asked, calls, trouble, taken, pipe, cur, snap, fd, files>>
          \/ Recorders
          \/ RealServer
        BY <1>1, StepsOfStdio
    <2> QED
        BY <1>7, <1>8, <1>9, <1>10, <1>11, <1>12, <1>13, <2>1 DEF Recorders
-----------------------------------------------------------------------------
(* What a recording keeps: the order of the lane. *)

\* No call is in the list twice.
Apart(list) == \A j, k \in DOMAIN list : list[j].n = list[k].n => j = k

Below(S, x) == {y \in S : y.n < x.n}

\* The entries that come before an entry are fewer than those before a later one.
LEMMA RanksGrow ==
  ASSUME NEW S \in SUBSET Entry, IsFiniteSet(S), NEW x \in S, NEW z \in S
  PROVE  /\ Cardinality(Below(S, x)) \in Nat
         /\ x.n < z.n => Cardinality(Below(S, x)) < Cardinality(Below(S, z))
         /\ Cardinality(Below(S, x)) < Cardinality(S)
<1>1. x.n \in Nat /\ z.n \in Nat /\ \A y \in S : y.n \in Nat
    BY DEF Entry
<1>2. /\ Below(S, x) \in SUBSET S /\ Below(S, z) \in SUBSET S
      /\ x \notin Below(S, x)
    BY <1>1 DEF Below
<1> DEFINE X == Below(S, x)
           Z == Below(S, z)
<1>3. /\ IsFiniteSet(X) /\ Cardinality(X) <= Cardinality(S)
      /\ Cardinality(S) = Cardinality(X) => S = X
    BY <1>2, FS_Subset
<1>4. IsFiniteSet(Z)
    BY <1>2, FS_Subset
<1>5. Cardinality(X) \in Nat /\ Cardinality(Z) \in Nat /\ Cardinality(S) \in Nat
    BY <1>3, <1>4, FS_CardinalityType
<1>6. ASSUME x.n < z.n PROVE Cardinality(X) < Cardinality(Z)
    <2>1. X \in SUBSET Z /\ x \in Z /\ x \notin X
        BY <1>1, <1>2, <1>6 DEF Below
    <2> HIDE DEF X, Z
    <2>2. Cardinality(X) <= Cardinality(Z) /\ (Cardinality(Z) = Cardinality(X) => Z = X)
        BY <1>4, <2>1, FS_Subset
    <2> QED
        BY <1>5, <2>1, <2>2
<1>7. X # S
    BY <1>2
<1> HIDE DEF X, Z
<1>8. Cardinality(X) < Cardinality(S)
    BY <1>3, <1>5, <1>7
<1> QED
    BY <1>5, <1>6, <1>8 DEF X, Z

\* Every place of the lane has its entry.
LEMMA RanksFill ==
  ASSUME NEW S \in SUBSET Entry, IsFiniteSet(S), \A x, z \in S : x.n = z.n => x = z
  PROVE  \A r \in 0..(Cardinality(S) - 1) : \E x \in S : Cardinality(Below(S, x)) = r
<1> DEFINE rank == [x \in S |-> Cardinality(Below(S, x))]
           R == 0..(Cardinality(S) - 1)
<1>1. Cardinality(S) \in Nat
    BY FS_CardinalityType
<1>2. \A x \in S : rank[x] \in R
    BY <1>1, RanksGrow
<1>3. \A x, z \in S : rank[x] = rank[z] => x = z
    <2> SUFFICES ASSUME NEW x \in S, NEW z \in S, x # z PROVE rank[x] # rank[z]
        OBVIOUS
    <2>1. x.n \in Nat /\ z.n \in Nat /\ x.n # z.n
        BY DEF Entry
    <2>2. /\ rank[x] \in Nat /\ rank[z] \in Nat
          /\ x.n < z.n => rank[x] < rank[z]
          /\ z.n < x.n => rank[z] < rank[x]
        BY RanksGrow
    <2> HIDE DEF rank
    <2> QED
        BY <2>1, <2>2
<1>4. IsFiniteSet(R) /\ Cardinality(R) = Cardinality(S)
    BY <1>1, FS_Interval
<1>5. rank \in [S -> R]
    BY <1>2
<1> HIDE DEF rank, R
<1>6. rank \in Injection(S, R)
    BY <1>3, <1>5 DEF Injection, IsInjective
<1>7. rank \in Surjection(S, R)
    BY <1>4, <1>6, FS_Injection
<1>8. \A r \in R : \E x \in S : rank[x] = r
    BY <1>7 DEF Surjection
<1> QED
    BY <1>8 DEF rank, R

\* The lane has the captured calls, each once; a stand-in's by their place, and a
\* listener's as they came.
InPlace(list) == \A j, k \in DOMAIN list : j < k => list[j].n < list[k].n

LEMMA InOrderPlaces ==
  ASSUME NEW entries \in Seq(Entry), Apart(entries), script.transport = "stdio"
  PROVE  /\ DOMAIN InOrder(entries) = DOMAIN entries /\ InPlace(InOrder(entries))
         /\ \A x : x \in ToSet(entries) <=> \E k \in DOMAIN entries : InOrder(entries)[k] = x
<1> DEFINE S == ToSet(entries)
           L == Len(entries)
           o == InOrder(entries)
<1>1. /\ S \in SUBSET Entry /\ L \in Nat /\ DOMAIN entries = 1..L
      /\ \A x \in S : \E k \in 1..L : x = entries[k]
      /\ \A k \in 1..L : entries[k] \in S /\ entries[k] \in Entry
    BY DEF ToSet
<1>2. \A x, z \in S : x.n = z.n => x = z
    BY <1>1 DEF Apart
<1>3. IsFiniteSet(S) /\ Cardinality(S) = L
    <2> DEFINE f == [k \in 1..L |-> entries[k]]
    <2>1. f \in [1..L -> S] /\ \A k \in 1..L : f[k] = entries[k]
        BY <1>1
    <2> HIDE DEF f
    <2>2. \A j, k \in 1..L : f[j] = f[k] => j = k
        BY <1>1, <2>1 DEF Apart
    <2>3. \A x \in S : \E k \in 1..L : f[k] = x
        BY <1>1, <2>1
    <2> HIDE DEF S, L
    <2>4. f \in Bijection(1..L, S)
        BY <2>1, <2>2, <2>3 DEF Bijection, Injection, Surjection, IsInjective
    <2>5. IsFiniteSet(1..L) /\ Cardinality(1..L) = L
        BY <1>1, FS_Interval
    <2> QED
        BY <2>4, <2>5, FS_Bijection DEF ExistsBijection
<1>4. \A k \in 1..L : o[k] = CHOOSE x \in S : Cardinality(Below(S, x)) = k - 1
    BY <1>1 DEF InOrder, Below
<1>5. DOMAIN o = DOMAIN entries
    BY DEF InOrder
<1> HIDE DEF S, L, o
<1>6. \A r \in 0..(L - 1) : \E x \in S : Cardinality(Below(S, x)) = r
    BY <1>1, <1>2, <1>3, RanksFill
<1>7. \A k \in 1..L : k - 1 \in 0..(L - 1)
    BY <1>1
<1>8. \A k \in 1..L : o[k] \in S /\ Cardinality(Below(S, o[k])) = k - 1
    BY <1>4, <1>6, <1>7
<1>9. \A x, z \in S : /\ Cardinality(Below(S, x)) \in Nat /\ Cardinality(Below(S, z)) \in Nat
                      /\ x.n \in Nat /\ z.n \in Nat
                      /\ x.n < z.n => Cardinality(Below(S, x)) < Cardinality(Below(S, z))
                      /\ Cardinality(Below(S, x)) < L
    BY <1>1, <1>3, RanksGrow DEF Entry
<1>10. ASSUME NEW j \in 1..L, NEW k \in 1..L, j < k PROVE o[j].n < o[k].n
    <2> DEFINE x == o[j]
               z == o[k]
    <2>1. x \in S /\ Cardinality(Below(S, x)) = j - 1 /\ z \in S /\ Cardinality(Below(S, z)) = k - 1
        BY <1>8
    <2> HIDE DEF x, z
    <2>2. x.n \in Nat /\ z.n \in Nat /\ (z.n < x.n => Cardinality(Below(S, z)) < Cardinality(Below(S, x)))
        BY <1>9, <2>1
    <2>3. ~(z.n < x.n)
        BY <1>10, <2>1, <2>2
    <2>4. x # z
        BY <1>10, <2>1
    <2>5. x.n # z.n
        BY <1>2, <2>1, <2>4
    <2>6. x.n < z.n
        BY <2>2, <2>3, <2>5
    <2> QED
        BY <2>6 DEF x, z
<1>11. ASSUME NEW x \in S PROVE \E k \in 1..L : o[k] = x
    <2> DEFINE c == Cardinality(Below(S, x))
    <2>1. c \in Nat /\ c < L
        BY <1>9
    <2> HIDE DEF c
    <2>2. c + 1 \in 1..L /\ (c + 1) - 1 = c
        BY <1>1, <2>1
    <2>3. o[c + 1] \in S /\ Cardinality(Below(S, o[c + 1])) = c
        BY <1>8, <2>2
    <2> DEFINE z == o[c + 1]
    <2>31. z \in S /\ Cardinality(Below(S, z)) = c
        BY <2>3
    <2> HIDE DEF z
    <2>4. ~(x.n < z.n) /\ ~(z.n < x.n) /\ x.n \in Nat /\ z.n \in Nat
        BY <1>9, <2>1, <2>31 DEF c
    <2>5. x.n = z.n
        BY <2>4
    <2>6. x = z
        BY <1>2, <2>31, <2>5
    <2> QED
        BY <2>2, <2>6 DEF z
<1> QED
    BY <1>1, <1>5, <1>8, <1>10, <1>11 DEF InPlace, S, o
-----------------------------------------------------------------------------
(* What a recording keeps: the listener. *)

HttpRecord == mode = "record" /\ script.transport = "http"

\* What the agent was given, and what it is about to be given, is captured, unless
\* it is an error; an agent that makes one call at a time has its calls captured in
\* their order.
PostsKept ==
  HttpRecord =>
    /\ \A i \in DOMAIN got : got[i] \notin {"none", "error"} => Holds(calls, i, got[i])
    /\ \A k \in DOMAIN calls : calls[k].n \in handled
    /\ stage = "forward" => \A k \in DOMAIN calls : calls[k].n # lock
    /\ stage = "respond" => reply = "error" \/ Holds(calls, lock, reply)
    /\ script.ahead = 1 => InPlace(calls)

\* The steps while a listener records.
LEMMA StepsOfHttp ==
  ASSUME Typed, Next, HttpRecord'
  PROVE  /\ HttpRecord /\ script' = script /\ mode' = mode
         /\ \/ UNCHANGED <<got, calls, handled, stage, lock, reply>>
            \/ Respond /\ calls' = calls
            \/ \E i \in 1..sent : PostMock(i) \/ PostForward(i)
            \/ ForwardOk
            \/ ForwardDemand \/ ForwardFails
<1>1. ~Replay
    BY DEF HttpRecord, Replay
<1>2. mode # "replay"
    BY <1>1, StepsOfReplay DEF HttpRecord, Quiet, setVars, PostReplay, Respond, Listening
<1>3. mode = "record" /\ mode' = mode /\ script' = script
    BY <1>2, ScriptStays DEF Typed, TypeOK, TypeBoundary, HttpRecord
<1>4. HttpRecord /\ script.transport = "http"
    BY <1>3 DEF HttpRecord
<1>5. CASE Agent
    <2>1. CASE AgentCalls /\ UNCHANGED <<stdioVars, httpVars, runVars>>
        BY <1>3, <1>4, <2>1 DEF AgentCalls, captureVars, httpVars
    <2> QED
        BY <1>3, <1>4, <1>5, <2>1 DEF Agent, AgentLeaves, OpenStream, agentVars, captureVars, httpVars
<1>6. CASE Server
    <2>1. ~RealServer
        BY <1>4 DEF RealServer, Alive
    <2> QED
        BY <1>3, <1>4, <1>6, <2>1 DEF Server, Upstream, ForwardNote, Pump, PumpDemand, agentVars, captureVars, httpVars
<1>7. CASE DriveEnds \/ ReadOut \/ ReadError \/ ReadCaptured \/ ReadEvents \/ ReadLog \/ Expire
    BY <1>3, <1>4, <1>7 DEF DriveEnds, ReadOut, ReadError, ReadCaptured, ReadEvents, ReadLog, Expire, Same,
                            agentVars, captureVars, httpVars
<1>8. CASE Ended
    BY <1>3, <1>4, <1>8 DEF Ended, vars, boundaryVars, agentVars, captureVars, httpVars
<1>9. CASE Transport
    <2>1. ~StandIn
        BY <1>4 DEF StandIn, Flush, Snap, Open, Put, Rename, Start, TakeMock, AnswerMock, TakeCall, Close, Hears, Pass,
                    EndOfServer, WriteLast, Announce, Serve, WriteServed, BreakOff, Recording, Replaying, Alive
    <2>2. Listener
        BY <1>9, <2>1 DEF Transport
    <2>3. CASE Posts
        BY <1>3, <1>4, <2>3 DEF Posts, PostReplay, Listening
    <2>4. CASE Respond \/ CapturePushed \/ Emit
        BY <1>3, <1>4, <2>4 DEF Respond, CapturePushed, Emit, agentVars, captureVars, httpVars
    <2> QED
        BY <2>2, <2>3, <2>4 DEF Listener
<1> QED
    BY <1>1, <1>5, <1>6, <1>7, <1>8, <1>9 DEF Next, Collecting

\* A call that comes after all that is captured is captured in its place.
LEMMA CapturedInPlace ==
  ASSUME NEW list \in Seq(Entry), NEW n \in Nat, NEW r \in Answers, InPlace(list),
         \A k \in DOMAIN list : list[k].n < n
  PROVE  InPlace(Append(list, [n |-> n, result |-> r]))
<1> DEFINE e == [n |-> n, result |-> r]
<1>1. e \in Entry /\ e.n = n
    BY DEF Entry
<1> HIDE DEF e
<1>2. /\ DOMAIN Append(list, e) = 1..(Len(list) + 1) /\ DOMAIN list = 1..Len(list) /\ Len(list) \in Nat
      /\ Append(list, e)[Len(list) + 1].n = n
      /\ \A k \in DOMAIN list : k \in DOMAIN Append(list, e) /\ Append(list, e)[k].n = list[k].n
      /\ \A k \in DOMAIN Append(list, e) : k \in DOMAIN list \/ k = Len(list) + 1
    BY <1>1, Appended
<1>3. ASSUME NEW j \in DOMAIN Append(list, e), NEW k \in DOMAIN Append(list, e), j < k
      PROVE  Append(list, e)[j].n < Append(list, e)[k].n
    <2>1. j \in DOMAIN list
        BY <1>2, <1>3
    <2>2. CASE k \in DOMAIN list
        BY <1>2, <1>3, <2>1, <2>2 DEF InPlace
    <2>3. CASE k = Len(list) + 1
        BY <1>2, <2>1, <2>3
    <2> QED
        BY <1>2, <2>2, <2>3
<1>4. InPlace(Append(list, e))
    BY <1>3 DEF InPlace
<1> QED
    BY <1>4 DEF e

\* What is captured of a call.
LEMMA PostCaptured ==
  ASSUME Typed, PostsKept, HttpRecord, OneAtATime, NEW n \in 1..sent, got[n] = "none",
         \A k \in DOMAIN calls : calls[k].n # n, NEW r \in Answers
  PROVE  LET more == Append(calls, [n |-> n, result |-> r])
         IN  /\ \A i, answer : Holds(calls, i, answer) => Holds(more, i, answer)
             /\ \A answer : Captured(answer) = r => Holds(more, n, answer)
             /\ \A k \in DOMAIN more : more[k].n \in handled \cup {n}
             /\ script.ahead = 1 => InPlace(more)
<1>1. calls \in Seq(Entry) /\ handled \subseteq 1..sent /\ sent \in Nat /\ n \in Nat
    BY ScriptTyped DEF Typed, TypeOK, TypeBoundary, TypeHttp
<1>2. /\ \A k \in DOMAIN calls : calls[k].n \in handled
      /\ script.ahead = 1 => InPlace(calls)
    BY DEF PostsKept
<1> DEFINE e == [n |-> n, result |-> r]
<1>3. e \in Entry /\ e.n = n
    BY <1>1 DEF Entry
<1>4. /\ \A i, answer : Holds(calls, i, answer) => Holds(Append(calls, e), i, answer)
      /\ \A answer : Captured(answer) = r => Holds(Append(calls, e), n, answer)
    BY <1>1, HoldsMore
<1>5. script.ahead = 1 => InPlace(Append(calls, e))
    <2> SUFFICES ASSUME script.ahead = 1 PROVE InPlace(Append(calls, e))
        OBVIOUS
    <2>1. n = sent
        BY DEF OneAtATime
    <2>2. ASSUME NEW k \in DOMAIN calls PROVE calls[k].n < n
        <3> DEFINE m == calls[k].n
        <3>1. m \in handled /\ m # n
            BY <1>2
        <3> HIDE DEF m
        <3>2. m \in 1..sent
            BY <1>1, <3>1
        <3>3. m < n
            BY <1>1, <2>1, <3>1, <3>2
        <3> QED
            BY <3>3 DEF m
    <2> QED
        BY <1>1, <1>2, <2>2, CapturedInPlace
<1> HIDE DEF e
<1>6. \A k \in DOMAIN Append(calls, e) : Append(calls, e)[k].n \in handled \cup {n}
    BY <1>1, <1>2, <1>3, Appended
<1> QED
    BY <1>4, <1>5, <1>6 DEF e

LEMMA PostsKeptStep ==
  ASSUME Typed, Owed, PostsTaken, OneAtATime, PostsKept, Next
  PROVE  PostsKept'
<1> SUFFICES ASSUME HttpRecord'
             PROVE  /\ \A i \in DOMAIN got' : got'[i] \notin {"none", "error"} => Holds(calls', i, got'[i])
                    /\ \A k \in DOMAIN calls' : calls'[k].n \in handled'
                    /\ stage' = "forward" => \A k \in DOMAIN calls' : calls'[k].n # lock'
                    /\ stage' = "respond" => reply' = "error" \/ Holds(calls', lock', reply')
                    /\ script.ahead = 1 => InPlace(calls')
    BY ScriptStays DEF PostsKept
<1>1. HttpRecord /\ script' = script /\ mode' = mode /\ script.transport = "http"
    BY StepsOfHttp DEF HttpRecord
<1>2. /\ \A i \in DOMAIN got : got[i] \notin {"none", "error"} => Holds(calls, i, got[i])
      /\ \A k \in DOMAIN calls : calls[k].n \in handled
      /\ stage = "forward" => \A k \in DOMAIN calls : calls[k].n # lock
      /\ stage = "respond" => reply = "error" \/ Holds(calls, lock, reply)
      /\ script.ahead = 1 => InPlace(calls)
    BY <1>1 DEF PostsKept
<1>3. /\ calls \in Seq(Entry) /\ handled \subseteq 1..sent /\ sent \in Nat /\ DOMAIN got = 1..(N + 1) /\ N \in Nat
      /\ sent \in 0..(N + 1) /\ (stage # "idle" => lock \in handled)
    BY ScriptTyped DEF Typed, TypeOK, TypeBoundary, TypeHttp
<1>4. /\ \A i \in DOMAIN got : got[i] # "none" => i \in handled
      /\ stage # "idle" => got[lock] = "none"
    BY <1>1 DEF PostsTaken
<1>5. CASE UNCHANGED <<got, calls, handled, stage, lock, reply>>
    BY <1>2, <1>5
<1>6. CASE Respond /\ calls' = calls
    <2>1. /\ stage = "respond" /\ Give(lock, reply) /\ stage' = "idle" /\ UNCHANGED <<handled, left>>
        BY <1>6 DEF Respond
    <2>2. HandsOut(lock, reply)
        BY <1>4, <2>1, Gives
    <2> QED
        BY <1>2, <1>6, <2>1, <2>2 DEF HandsOut
<1>7. ASSUME NEW i \in 1..sent, PostMock(i)
      PROVE  /\ \A j \in DOMAIN got' : got'[j] \notin {"none", "error"} => Holds(calls', j, got'[j])
             /\ \A k \in DOMAIN calls' : calls'[k].n \in handled'
             /\ stage' = "forward" => \A k \in DOMAIN calls' : calls'[k].n # lock'
             /\ stage' = "respond" => reply' = "error" \/ Holds(calls', lock', reply')
             /\ script.ahead = 1 => InPlace(calls')
    <2>1. /\ i \notin handled /\ lock' = i /\ handled' = handled \cup {i} /\ stage' = "respond" /\ reply' = "mock"
          /\ calls' = Append(calls, [n |-> i, result |-> "mock"]) /\ got' = got
        BY <1>7 DEF PostMock, TakeLock, Answer, agentVars
    <2>2. got[i] = "none" /\ \A k \in DOMAIN calls : calls[k].n # i
        BY <1>2, <1>3, <1>4, <2>1
    <2>3. "mock" \in Answers /\ Captured("mock") = "mock"
        BY DEF Answers, Captured
    <2>4. /\ \A j, answer : Holds(calls, j, answer) => Holds(calls', j, answer)
          /\ \A answer : Captured(answer) = "mock" => Holds(calls', i, answer)
          /\ \A k \in DOMAIN calls' : calls'[k].n \in handled \cup {i}
          /\ script.ahead = 1 => InPlace(calls')
        BY <1>1, <2>1, <2>2, <2>3, PostCaptured
    <2> QED
        BY <1>2, <2>1, <2>3, <2>4
<1>8. ASSUME NEW i \in 1..sent, PostForward(i)
      PROVE  /\ \A j \in DOMAIN got' : got'[j] \notin {"none", "error"} => Holds(calls', j, got'[j])
             /\ \A k \in DOMAIN calls' : calls'[k].n \in handled'
             /\ stage' = "forward" => \A k \in DOMAIN calls' : calls'[k].n # lock'
             /\ stage' = "respond" => reply' = "error" \/ Holds(calls', lock', reply')
             /\ script.ahead = 1 => InPlace(calls')
    <2>1. /\ i \notin handled /\ lock' = i /\ handled' = handled \cup {i} /\ stage' = "forward"
          /\ UNCHANGED <<calls, got>>
        BY <1>8 DEF PostForward, TakeLock, agentVars, captureVars
    <2> QED
        BY <1>2, <2>1
<1>9. CASE ForwardOk
    <2>1. PICK r \in {"real", "fault"} :
            /\ stage = "forward" /\ calls' = Append(calls, [n |-> lock, result |-> Captured(r)])
            /\ stage' = "respond" /\ reply' = r /\ UNCHANGED <<got, handled, lock>>
        BY <1>9 DEF ForwardOk, Forwarding, Answer, agentVars
    <2>2. lock \in 1..sent /\ got[lock] = "none" /\ (\A k \in DOMAIN calls : calls[k].n # lock) /\ lock \in handled
        BY <1>2, <1>3, <1>4, <2>1
    <2> DEFINE c == Captured(r)
    <2>3. c \in Answers /\ Captured(r) = c
        BY <2>1 DEF Captured, Answers
    <2>31. calls' = Append(calls, [n |-> lock, result |-> c])
        BY <2>1
    <2> HIDE DEF c
    <2>4. /\ \A j, answer : Holds(calls, j, answer) => Holds(calls', j, answer)
          /\ \A answer : Captured(answer) = c => Holds(calls', lock, answer)
          /\ \A k \in DOMAIN calls' : calls'[k].n \in handled \cup {lock}
          /\ script.ahead = 1 => InPlace(calls')
        BY <1>1, <2>2, <2>3, <2>31, PostCaptured
    <2> QED
        BY <1>2, <2>1, <2>2, <2>3, <2>4
<1>10. CASE ForwardDemand \/ ForwardFails
    <2>1. stage' = "respond" /\ reply' = "error" /\ UNCHANGED <<got, calls, handled, lock>>
        BY <1>10 DEF ForwardDemand, ForwardFails, Answer, agentVars, captureVars
    <2> QED
        BY <1>2, <2>1
<1> QED
    BY <1>5, <1>6, <1>7, <1>8, <1>9, <1>10, StepsOfHttp
-----------------------------------------------------------------------------
(* What a recording keeps: what is minted. *)

\* The agent has left, or a service has no call to make or to be answered.
Done == left # "here" \/ ~Busy

\* The orchestrator collects when the agent is done, or else a service's run is
\* spoilt; only a recording is minted.
Gone == /\ pc # "run" /\ (script.service => ~spoilt) => Done
        /\ mode = "record" => edit = "same"
        /\ verdict = "minted" => mode = "record" /\ pc = "over"
        /\ pc \in {"captured", "events"} => HttpRecord

\* What was read of the listener's calls has what the agent was given.
LaneRead ==
  pc = "events" /\ (script.service => ~spoilt) =>
    /\ \A i \in DOMAIN got : got[i] \notin {"none", "error"} => Holds(lane, i, got[i])
    /\ \A k \in DOMAIN lane : lane[k].n \in 1..sent
    /\ script.ahead = 1 => InPlace(lane)

\* An agent that has left is given nothing.
LEMMA LeftIsGiven ==
  ASSUME Next, ~Replay, left # "here"
  PROVE  UNCHANGED <<got, left, sent>>
<1>1. ~Agent
    BY DEF Agent, AgentCalls, AgentLeaves, OpenStream
<1>2. CASE Server
    BY <1>2 DEF Server, RealServer, Upstream, ForwardOk, ForwardNote, ForwardDemand, ForwardFails, Pump, PumpDemand,
                agentVars
<1>3. CASE DriveEnds \/ ReadOut \/ ReadError \/ ReadCaptured \/ ReadEvents \/ ReadLog \/ Expire
    BY <1>3 DEF DriveEnds, ReadOut, ReadError, ReadCaptured, ReadEvents, ReadLog, Expire, Same, agentVars
<1>4. CASE Ended
    BY <1>4 DEF Ended, vars, boundaryVars, agentVars
<1>5. CASE StandIn
    BY <1>5 DEF StandIn, Flush, Start, TakeMock, AnswerMock, TakeCall, Close, Hears, Pass, EndOfServer, WriteLast,
                Announce, Serve, WriteServed, BreakOff, agentVars, Give
<1>6. CASE Listener
    BY <1>6 DEF Listener, Posts, PostMock, PostForward, PostReplay, Respond, CapturePushed, Emit, agentVars, Give
<1> QED
    BY <1>1, <1>2, <1>3, <1>4, <1>5, <1>6 DEF Next, Transport, Collecting

\* What becomes of the orchestrator.
LEMMA Orchestrator ==
  ASSUME Next
  PROVE  \/ UNCHANGED <<pc, lane, verdict, mode, edit, trace, recorded>>
         \/ DriveEnds \/ ReadOut \/ ReadError \/ ReadCaptured \/ ReadEvents \/ ReadLog \/ Replay
<1>1. Agent => UNCHANGED <<pc, lane, verdict, mode, edit, trace, recorded>>
    BY DEF Agent, AgentCalls, AgentLeaves, OpenStream, setVars, runVars
<1>2. Transport \/ Server => UNCHANGED <<pc, lane, verdict, mode, edit, trace, recorded>>
    BY DEF Transport, Server, setVars, runVars
<1>3. Expire => UNCHANGED <<pc, lane, verdict, mode, edit, trace, recorded>>
    BY DEF Expire, Same
<1>4. Ended => UNCHANGED <<pc, lane, verdict, mode, edit, trace, recorded>>
    BY DEF Ended, vars, boundaryVars, setVars, runVars
<1> QED
    BY <1>1, <1>2, <1>3, <1>4 DEF Next, Collecting

\* What went wrong stays so.
LEMMA TroubleStays ==
  ASSUME Next, ~Replay
  PROVE  (trouble => trouble') /\ (spoilt => spoilt') /\ (expired' # expired => Expire)
<1>1. CASE Agent
    <2>1. UNCHANGED <<trouble, expired>>
        BY <1>1 DEF Agent, AgentCalls, AgentLeaves, OpenStream, captureVars, runVars
    <2>2. spoilt => spoilt'
        BY <1>1 DEF Agent, AgentCalls, AgentLeaves, OpenStream
    <2> QED
        BY <2>1, <2>2
<1>2. CASE StandIn /\ UNCHANGED <<setVars, spoilt, httpVars, runVars>>
    <2>1. UNCHANGED <<spoilt, expired>>
        BY <1>2 DEF runVars
    <2>2. CASE \E t \in Thread : Flush(t)
        BY <2>1, <2>2 DEF Flush, Snap, Open, Put, Rename, FlushFails, captureVars
    <2>3. CASE ~(\E t \in Thread : Flush(t))
        BY <1>2, <2>1, <2>3 DEF StandIn, Start, TakeMock, AnswerMock, TakeCall, Close, Hears,
                    Pass, EndOfServer, WriteLast, Announce, Serve, ServeLane, WriteServed, BreakOff, captureVars
    <2> QED
        BY <2>2, <2>3
<1>3. CASE Listener /\ UNCHANGED <<setVars, stdioVars, runVars>>
    <2>1. UNCHANGED <<trouble, spoilt>>
        BY <1>3 DEF Listener, Posts, PostMock, PostForward, PostReplay, ServeLane, Respond, CapturePushed, Emit, captureVars
    <2>2. UNCHANGED expired
        BY <1>3 DEF runVars
    <2> QED
        BY <2>1, <2>2
<1>4. CASE RealServer /\ UNCHANGED <<setVars, spoilt, httpVars, runVars>>
    BY <1>4 DEF RealServer, captureVars, runVars
<1>5. CASE Upstream /\ UNCHANGED <<setVars, stdioVars, runVars>>
    BY <1>5 DEF Upstream, ForwardOk, ForwardNote, ForwardDemand, ForwardFails, Pump, PumpDemand, captureVars, runVars
<1>6. CASE Expire
    BY <1>6 DEF Expire, Same, captureVars
<1>7. CASE DriveEnds \/ ReadOut \/ ReadError \/ ReadCaptured \/ ReadEvents \/ ReadLog
    <2>1. Same /\ UNCHANGED expired
        BY <1>7 DEF DriveEnds, ReadOut, ReadError, ReadCaptured, ReadEvents, ReadLog
    <2>2. spoilt => spoilt'
        BY <1>7 DEF DriveEnds, ReadOut, ReadError, ReadCaptured, ReadEvents, ReadLog
    <2> QED
        BY <2>1, <2>2 DEF Same, captureVars
<1>8. CASE Ended
    BY <1>8 DEF Ended, vars, boundaryVars, captureVars, runVars
<1> QED
    BY <1>1, <1>2, <1>3, <1>4, <1>5, <1>6, <1>7, <1>8 DEF Next, Transport, Server, Collecting

\* Who calls, and who leaves.
LEMMA Comings ==
  ASSUME Next, ~Replay
  PROVE  /\ sent' # sent => AgentCalls
         /\ left' # left => AgentLeaves("closed") \/ AgentLeaves("killed")
<1>1. CASE Agent
    BY <1>1 DEF Agent, AgentCalls, AgentLeaves, OpenStream, agentVars
<1>2. CASE Server
    BY <1>2 DEF Server, RealServer, Upstream, ForwardOk, ForwardNote, ForwardDemand, ForwardFails, Pump, PumpDemand,
                agentVars
<1>3. CASE DriveEnds \/ ReadOut \/ ReadError \/ ReadCaptured \/ ReadEvents \/ ReadLog \/ Expire
    BY <1>3 DEF DriveEnds, ReadOut, ReadError, ReadCaptured, ReadEvents, ReadLog, Expire, Same, agentVars
<1>4. CASE Ended
    BY <1>4 DEF Ended, vars, boundaryVars, agentVars
<1>5. CASE StandIn
    BY <1>5 DEF StandIn, Flush, Start, TakeMock, AnswerMock, TakeCall, Close, Hears, Pass, EndOfServer, WriteLast,
                Announce, Serve, WriteServed, BreakOff, agentVars
<1>6. CASE Listener
    BY <1>6 DEF Listener, Posts, PostMock, PostForward, PostReplay, Respond, CapturePushed, Emit, agentVars
<1> QED
    BY <1>1, <1>2, <1>3, <1>4, <1>5, <1>6 DEF Next, Transport, Collecting

LEMMA EditStays ==
  ASSUME Next, ~Replay
  PROVE  UNCHANGED <<mode, edit>>
BY Orchestrator DEF DriveEnds, ReadOut, ReadError, ReadCaptured, ReadEvents, ReadLog, Same

\* An agent that is done, or has left, is given nothing more.
LEMMA DoneIsGiven ==
  ASSUME Typed, Owed, PostsTaken, Typed', Owed', PostsTaken', Next, ~Replay, Done
  PROVE  UNCHANGED <<got, sent>> /\ Done'
<1>1. CASE left # "here"
    BY <1>1, LeftIsGiven DEF Done
<1>2. CASE left = "here"
    <2>1. ~(sent < Count) /\ UnderWay = {}
        BY <1>2 DEF Done, Busy
    <2>2. sent' = sent
        BY <2>1, Comings DEF AgentCalls
    <2>3. /\ DOMAIN got = 1..(N + 1) /\ DOMAIN got' = 1..(N + 1) /\ got = [i \in 1..(N + 1) |-> got[i]]
          /\ got' = [i \in 1..(N + 1) |-> got'[i]] /\ N' = N
          /\ taken' \in 0..sent /\ handled' \subseteq 1..sent /\ sent \in Nat
          /\ script.transport \in {"stdio", "http"} /\ script' = script
        <3>1. script' = script /\ N' = N
            BY ScriptStays DEF N
        <3>2. TypeBoundary /\ TypeBoundary' /\ TypeStdio' /\ TypeHttp' /\ sent \in Nat
            BY ScriptTyped DEF Typed, TypeOK
        <3>3. got = [i \in 1..(N + 1) |-> got[i]] /\ got' = [i \in 1..(N + 1) |-> got'[i]]
            BY <3>1, <3>2 DEF TypeBoundary
        <3>4. taken' \in 0..sent /\ handled' \subseteq 1..sent
            BY <2>2, <3>2 DEF TypeStdio, TypeHttp
        <3>5. script.transport \in {"stdio", "http"}
            BY <3>2, McpAssumption DEF TypeBoundary
        <3> QED
            BY <3>1, <3>2, <3>3, <3>4, <3>5
    <2>4. ASSUME NEW j \in 1..(N + 1), got'[j] # "none"
          PROVE  j \in 1..sent
        <3>1. CASE script.transport = "stdio"
            <4>1. j \in 1..taken'
                BY <2>3, <2>4, <3>1 DEF Owed, GivenTaken
            <4> QED
                BY <2>3, <4>1
        <3>2. CASE script.transport = "http"
            BY <2>3, <2>4, <3>2 DEF PostsTaken
        <3> QED
            BY <2>3, <3>1, <3>2
    <2>5. ASSUME NEW i, NEW answer, HandsOut(i, answer)
          PROVE  got' = got
        <3>1. ASSUME NEW j \in 1..(N + 1) PROVE got'[j] = got[j]
            <4>1. got'[j] = got[j] \/ (j = i /\ got[i] = "none")
                BY <2>3, <2>5 DEF HandsOut
            <4>2. j \in 1..sent => got[j] # "none"
                BY <2>1 DEF UnderWay
            <4> QED
                BY <2>4, <4>1, <4>2
        <3> QED
            BY <2>3, <3>1
    <2>6. got' = got
        BY <2>1, <2>5, Handouts DEF AgentCalls
    <2>7. Count' = Count
        BY <2>3, EditStays DEF Count
    <2> QED
        BY <2>1, <2>2, <2>6, <2>7 DEF Done, Busy, UnderWay
<1> QED
    BY <1>1, <1>2

LEMMA GoneStep ==
  ASSUME Typed, Owed, PostsTaken, Typed', Owed', PostsTaken', Gone, Next
  PROVE  Gone'
<1>1. /\ pc # "run" /\ (script.service => ~spoilt) => Done
      /\ mode = "record" => edit = "same"
      /\ verdict = "minted" => mode = "record" /\ pc = "over"
      /\ pc \in {"captured", "events"} => HttpRecord
    BY DEF Gone
<1>2. CASE Replay
    BY <1>2 DEF Replay, Gone
<1>3. CASE ~Replay
    <2>1. pc # "run" /\ (script.service => ~spoilt') => Done'
        BY <1>1, <1>3, DoneIsGiven, TroubleStays
    <2>2. script' = script
        BY ScriptStays
    <2>3. CASE UNCHANGED <<pc, lane, verdict, mode, edit, trace, recorded>>
        BY <1>1, <2>1, <2>2, <2>3 DEF Gone, HttpRecord
    <2>4. CASE DriveEnds
        <3>1. UNCHANGED <<mode, edit, verdict>> /\ pc' = "collect" /\ pc = "run"
            BY <2>4 DEF DriveEnds, Same
        <3>2. (script.service => ~spoilt') => Done'
            <4>1. /\ UNCHANGED <<left, sent, got>> /\ N' = N /\ edit' = edit
                  /\ left # "here" \/ script.service
                  /\ ~spoilt' => ~(left = "here" /\ Busy)
                BY <2>2, <2>4 DEF DriveEnds, Same, agentVars, N
            <4>2. Busy' = Busy
                BY <4>1 DEF Busy, Count, UnderWay
            <4> QED
                BY <4>1, <4>2 DEF Done
        <3> QED
            BY <1>1, <2>2, <3>1, <3>2 DEF Gone
    <2>5. CASE ReadError \/ ReadCaptured
        <3>1. UNCHANGED <<mode, edit>> /\ pc # "run" /\ (verdict' = verdict \/ verdict' = "failed")
            BY <2>5 DEF ReadError, ReadCaptured, Same, End
        <3>2. pc # "over"
            BY <2>5 DEF ReadError, ReadCaptured
        <3>3. pc' \in {"captured", "events"} => HttpRecord
            BY <1>1, <2>5 DEF ReadError, ReadCaptured, End, Listening, HttpRecord
        <3> QED
            BY <1>1, <2>1, <2>2, <3>1, <3>2, <3>3 DEF Gone, HttpRecord
    <2>6. CASE ReadOut \/ ReadEvents \/ ReadLog
        <3>1. UNCHANGED <<mode, edit>> /\ pc # "run"
            BY <2>6 DEF ReadOut, ReadEvents, ReadLog, Same
        <3>2. pc' = "over" /\ (verdict' = "minted" => mode = "record")
            BY <1>1, <2>6 DEF ReadOut, ReadEvents, ReadLog, Mint, Check, End, HttpRecord
        <3> QED
            BY <1>1, <2>1, <2>2, <3>1, <3>2 DEF Gone
    <2> QED
        BY <1>3, <2>3, <2>4, <2>5, <2>6, Orchestrator
<1> QED
    BY <1>2, <1>3

LEMMA LaneReadStep ==
  ASSUME Typed, Owed, PostsTaken, Typed', Owed', PostsTaken', PostsKept, Gone, LaneRead, Next
  PROVE  LaneRead'
<1> SUFFICES ASSUME pc' = "events", script.service => ~spoilt'
             PROVE  /\ \A i \in DOMAIN got' : got'[i] \notin {"none", "error"} => Holds(lane', i, got'[i])
                    /\ \A k \in DOMAIN lane' : lane'[k].n \in 1..sent'
                    /\ script.ahead = 1 => InPlace(lane')
    BY ScriptStays DEF LaneRead
<1>1. ~Replay
    BY DEF Replay
<1>2. CASE ReadCaptured
    <2>1. lane' = calls /\ UNCHANGED <<got, sent>> /\ HttpRecord
        BY <1>2 DEF ReadCaptured, Same, agentVars, Gone
    <2>2. handled \subseteq 1..sent
        BY DEF Typed, TypeOK, TypeHttp
    <2> QED
        BY <2>1, <2>2 DEF PostsKept
<1>3. CASE ~ReadCaptured
    <2>1. pc = "events" /\ lane' = lane
        BY <1>1, <1>3, Orchestrator DEF DriveEnds, ReadOut, ReadError, ReadEvents, ReadLog, Mint, Check, End
    <2>2. script.service => ~spoilt
        BY <1>1, TroubleStays
    <2>3. UNCHANGED <<got, sent>>
        BY <1>1, <2>1, <2>2, DoneIsGiven DEF Gone
    <2> QED
        BY <2>1, <2>2, <2>3 DEF LaneRead
<1> QED
    BY <1>2, <1>3

\* The lane has what the entries hold.
LEMMA LaneHolds ==
  ASSUME NEW entries \in Seq(Entry), TypeBoundary, edit = "same", script.transport = "stdio" => Apart(entries)
  PROVE  /\ DOMAIN Lane(entries) = 1..Len(entries) /\ Len(entries) \in Nat
         /\ \A i, answer : Holds(entries, i, answer) =>
                              [body |-> i, result |-> Captured(answer)] \in ToSet(Lane(entries))
         /\ \A k \in DOMAIN entries : \E j \in DOMAIN entries : Lane(entries)[k].body = entries[j].n
         /\ script.transport = "stdio" \/ InPlace(entries) =>
              \A j, k \in DOMAIN Lane(entries) : j < k => Lane(entries)[j].body < Lane(entries)[k].body
<1> DEFINE o == InOrder(entries)
           L == Lane(entries)
<1>1. /\ DOMAIN o = DOMAIN entries
      /\ \A x : x \in ToSet(entries) <=> \E k \in DOMAIN entries : o[k] = x
      /\ script.transport = "stdio" \/ InPlace(entries) => InPlace(o)
    <2>1. CASE script.transport = "stdio"
        BY <2>1, InOrderPlaces
    <2>2. CASE script.transport = "http"
        BY <2>2 DEF InOrder, ToSet
    <2>3. script.transport \in {"stdio", "http"}
        BY McpAssumption DEF TypeBoundary
    <2> QED
        BY <2>1, <2>2, <2>3
<1>2. DOMAIN entries = 1..Len(entries) /\ Len(entries) \in Nat
    OBVIOUS
<1>3. L = [k \in DOMAIN o |-> [body |-> Body(o[k].n), result |-> o[k].result]]
    BY DEF Lane
<1>4. \A i : Body(i) = i
    BY DEF Body
<1> HIDE DEF o, L
<1>5. DOMAIN L = DOMAIN o /\ \A k \in DOMAIN o : L[k] = [body |-> o[k].n, result |-> o[k].result]
    BY <1>3, <1>4
<1>6. ASSUME NEW i, NEW answer, Holds(entries, i, answer)
      PROVE  [body |-> i, result |-> Captured(answer)] \in ToSet(L)
    <2> DEFINE c == Captured(answer)
    <2>1. PICK j \in DOMAIN entries : entries[j] = [n |-> i, result |-> c]
        BY <1>6 DEF Holds
    <2> HIDE DEF c
    <2> DEFINE x == entries[j]
    <2>2. x \in ToSet(entries) /\ x.n = i /\ x.result = c
        BY <2>1 DEF ToSet
    <2> HIDE DEF x
    <2>3. PICK k \in DOMAIN entries : o[k] = x
        BY <1>1, <2>2
    <2>4. k \in DOMAIN L /\ L[k] = [body |-> i, result |-> c]
        BY <1>1, <1>5, <2>2, <2>3
    <2>5. L[k] \in ToSet(L)
        BY <2>4 DEF ToSet
    <2> QED
        BY <2>4, <2>5 DEF c
<1>8. ASSUME NEW k \in DOMAIN entries PROVE \E j \in DOMAIN entries : L[k].body = entries[j].n
    <2>1. o[k] \in ToSet(entries) /\ L[k].body = o[k].n
        BY <1>1, <1>5
    <2> QED
        BY <2>1 DEF ToSet
<1>7. ASSUME script.transport = "stdio" \/ InPlace(entries), NEW j \in DOMAIN L, NEW k \in DOMAIN L, j < k
      PROVE  L[j].body < L[k].body
    <2>1. o[j].n < o[k].n
        BY <1>1, <1>5, <1>7 DEF InPlace
    <2> QED
        BY <1>5, <2>1
<1> QED
    BY <1>1, <1>2, <1>5, <1>6, <1>7, <1>8 DEF L

\* A recording that is over stays what it is until it is replayed.
LEMMA OverStays ==
  ASSUME Next, pc = "over", ~Replay
  PROVE  UNCHANGED vars
BY DEF Next, Working, Collecting, DriveEnds, ReadOut, ReadError, ReadCaptured, ReadEvents, ReadLog, Ended

LEMMA AnsweredStep ==
  ASSUME Typed, OnePlace, OutInOrder, PostsKept, Gone, LaneRead, AnsweredIsKept, Next
  PROVE  AnsweredIsKept'
<1> SUFFICES ASSUME verdict' = "minted", ~trouble', script.service => ~spoilt'
             PROVE  /\ \A i \in DOMAIN got' : got'[i] \notin {"none", "error"} =>
                          [body |-> i, result |-> Captured(got'[i])] \in ToSet(trace'.lane)
                    /\ Ordered => \A j, k \in DOMAIN trace'.lane : j < k => trace'.lane[j].body < trace'.lane[k].body
    BY ScriptStays DEF AnsweredIsKept, Ordered
<1>1. ~Replay
    BY DEF Replay
<1>2. TypeBoundary
    BY DEF Typed, TypeOK
<1>3. CASE verdict = "minted"
    <2>1. UNCHANGED vars
        BY <1>1, <1>3, OverStays DEF Gone
    <2>2. UNCHANGED <<got, trace, trouble, spoilt>>
        BY <2>1 DEF vars, boundaryVars, agentVars, setVars, captureVars
    <2> QED
        BY <1>3, <2>2 DEF AnsweredIsKept
<1>4. ASSUME NEW entries \in Seq(Entry), edit = "same", script.transport = "stdio" => Apart(entries),
             trace'.lane = Lane(entries), got' = got, Ordered => script.transport = "stdio" \/ InPlace(entries),
             \A i \in DOMAIN got : got[i] \notin {"none", "error"} => Holds(entries, i, got[i])
      PROVE  /\ \A i \in DOMAIN got' : got'[i] \notin {"none", "error"} =>
                   [body |-> i, result |-> Captured(got'[i])] \in ToSet(trace'.lane)
             /\ Ordered => \A j, k \in DOMAIN trace'.lane : j < k => trace'.lane[j].body < trace'.lane[k].body
    BY <1>2, <1>4, LaneHolds
<1>5. CASE ReadOut
    <2>1. /\ files.out.kind = "calls" /\ mode = "record" /\ script.transport = "stdio" /\ edit = "same"
          /\ trace' = [lane |-> Lane(files.out.calls), events |-> files.out.events] /\ Same /\ verdict' # verdict
        <3>1. verdict # "minted"
            BY <1>5 DEF ReadOut, Gone
        <3> QED
            BY <1>5, <3>1 DEF ReadOut, Mint, Check, End, Gone
    <2>2. ~trouble /\ got' = got /\ StdioRecord
        BY <2>1 DEF Same, captureVars, agentVars, StdioRecord
    <2>3. OutKept /\ CallsApart
        BY <2>2 DEF OutInOrder, OnePlace
    <2> DEFINE entries == files.out.calls
    <2>4. /\ entries \in Seq(Entry) /\ Begins(entries, calls) /\ trace'.lane = Lane(entries)
          /\ \A i \in DOMAIN got : got[i] # "none" => Holds(entries, i, got[i])
        BY <2>1, <2>3 DEF OutKept
    <2> HIDE DEF entries
    <2>5. Apart(entries)
        <3>1. calls \in Seq(Entry)
            BY <1>2 DEF TypeBoundary
        <3>2. DOMAIN entries \subseteq DOMAIN calls /\ \A k \in DOMAIN entries : entries[k] = calls[k]
            BY <2>4, <3>1 DEF Begins
        <3> QED
            BY <2>3, <3>2 DEF Apart, CallsApart
    <2> QED
        BY <1>4, <2>1, <2>2, <2>4, <2>5
<1>6. CASE ReadEvents
    <2>1. pc = "events" /\ Mint(lane, events) /\ Same /\ spoilt' = spoilt
        BY <1>6 DEF ReadEvents
    <2>2. HttpRecord /\ edit = "same" /\ verdict # "minted" /\ lane \in Seq(Entry)
        BY <2>1 DEF Gone, HttpRecord, Typed, TypeOK
    <2>3. trace'.lane = Lane(lane) /\ got' = got
        BY <2>1 DEF Mint, End, Same, agentVars
    <2>4. script.transport = "http"
        BY <2>2 DEF HttpRecord
    <2>5. /\ \A i \in DOMAIN got : got[i] \notin {"none", "error"} => Holds(lane, i, got[i])
          /\ Ordered => InPlace(lane)
        BY <2>1, <2>4 DEF LaneRead, Ordered
    <2> QED
        BY <1>4, <2>2, <2>3, <2>4, <2>5
<1> QED
    BY <1>1, <1>3, <1>5, <1>6, Orchestrator DEF DriveEnds, ReadError, ReadCaptured, ReadLog, Check, End

\* Where the calls are, and what the agent was given of them.
CallsKnown == Typed /\ OnePlace /\ Owed /\ PostsTaken /\ OneAtATime

\* What is kept of them.
CallsKept == OutInOrder /\ PostsKept /\ Gone /\ LaneRead /\ AnsweredIsKept

LEMMA CallsInit == Init => CallsKnown /\ CallsKept
<1> SUFFICES ASSUME Init PROVE CallsKnown /\ CallsKept
    OBVIOUS
<1>1. /\ mode = "record" /\ edit = "same" /\ sent = 0 /\ got = [i \in 1..(N + 1) |-> "none"] /\ left = "here"
      /\ asked = {} /\ calls = <<>> /\ trouble = FALSE /\ pipe = <<>> /\ taken = 0
      /\ at = [t \in Thread |-> IF t = "A" THEN "start" ELSE "ended"]
      /\ files = [tmp |-> NoFile, out |-> NoFile] /\ handled = {} /\ lock = 0 /\ stage = "idle"
      /\ pc = "run" /\ verdict = "none"
    BY DEF Init, BoundaryInit, BoundaryStarts, StdioStarts, HttpStarts, RunStarts
<1>2. Typed
    BY TypedInit
<1>3. (\A i \in DOMAIN got : got[i] = "none") /\ at["A"] = "start" /\ at["B"] = "ended"
    BY <1>1 DEF Thread
<1>4. DOMAIN calls = {} /\ DOMAIN pipe = {}
    BY <1>1
<1>5. OnePlace
    BY <1>1, <1>4 DEF OnePlace, CallsApart, AskedApart, PipeApart
<1>6. Owed
    BY <1>1, <1>3 DEF Owed, GivenTaken, GivenKept, MockKnown, AnswerKnown, MockUnderWay, AnswerUnderWay, Writing
<1>7. PostsTaken
    BY <1>1, <1>3 DEF PostsTaken
<1>8. OneAtATime
    <2>1. 1..sent = {}
        BY <1>1
    <2> QED
        BY <2>1 DEF OneAtATime
<1>9. OutInOrder
    <2>1. OutKept
        BY <1>1, <1>3 DEF OutKept, NoFile
    <2>2. WrittenFirst /\ \A t \in Thread : WriteKept(t)
        BY <1>3 DEF WrittenFirst, WriteKept, Thread
    <2> QED
        BY <2>1, <2>2 DEF OutInOrder
<1>10. PostsKept
    BY <1>1, <1>3, <1>4 DEF PostsKept, InPlace
<1>11. Gone /\ LaneRead /\ AnsweredIsKept
    BY <1>1 DEF Gone, LaneRead, AnsweredIsKept
<1> QED
    BY <1>2, <1>5, <1>6, <1>7, <1>8, <1>9, <1>10, <1>11 DEF CallsKnown, CallsKept

LEMMA CallsKnownStep == CallsKnown /\ [Next]_vars => CallsKnown'
<1> SUFFICES ASSUME CallsKnown, [Next]_vars PROVE CallsKnown'
    OBVIOUS
<1>1. Typed'
    BY TypedStep DEF CallsKnown
<1>2. CASE Next
    BY <1>1, <1>2, OnePlaceStep, OwedStep, PostsTakenStep, OneAtATimeStep DEF CallsKnown
<1>3. CASE UNCHANGED vars
    <2>1. /\ UNCHANGED <<script, mode, sent, got, asked, calls, at, taken, pipe, cur, handled, lock, stage>>
        BY <1>3 DEF vars, boundaryVars, agentVars, serverVars, captureVars, setVars, stdioVars, httpVars
    <2>2. \A n : Mocked(n)' = Mocked(n)
        BY <2>1 DEF Mocked, N
    <2>3. OnePlace'
        BY <2>1, <2>2 DEF CallsKnown, OnePlace, StdioRecord, CallsApart, AskedApart, PipeApart
    <2>4. Owed'
        BY <2>1, <2>2 DEF CallsKnown, Owed, StdioRecord, GivenTaken, GivenKept, MockKnown, AnswerKnown, MockUnderWay, AnswerUnderWay
    <2>5. PostsTaken' /\ OneAtATime'
        BY <2>1 DEF CallsKnown, PostsTaken, OneAtATime
    <2> QED
        BY <1>1, <2>3, <2>4, <2>5 DEF CallsKnown
<1> QED
    BY <1>2, <1>3

LEMMA CallsKeptStep ==
  CallsKnown /\ CallsKnown' /\ Solo /\ Solo' /\ CallsKept /\ [Next]_vars => CallsKept'
<1> SUFFICES ASSUME CallsKnown, CallsKnown', Solo, Solo', CallsKept, [Next]_vars PROVE CallsKept'
    OBVIOUS
<1>1. CASE Next
    <2>1. OutInOrder'
        BY <1>1, OutStep DEF CallsKnown, CallsKept
    <2>2. PostsKept'
        BY <1>1, PostsKeptStep DEF CallsKnown, CallsKept
    <2>3. Gone' /\ LaneRead' /\ AnsweredIsKept'
        BY <1>1, GoneStep, LaneReadStep, AnsweredStep DEF CallsKnown, CallsKept
    <2> QED
        BY <2>1, <2>2, <2>3 DEF CallsKept
<1>2. CASE UNCHANGED vars
    <2>1. UNCHANGED <<script, mode, edit, sent, got, left, calls, trouble, spoilt, trace, at, cur, snap, fd, files,
                      handled, lock, stage, reply, pc, lane, verdict>>
        BY <1>2 DEF vars, boundaryVars, agentVars, captureVars, setVars, stdioVars, httpVars, runVars
    <2>2. OutInOrder'
        BY <2>1 DEF CallsKept, OutInOrder, OutKept, WrittenFirst, WriteKept, StdioRecord
    <2>3. PostsKept'
        BY <2>1 DEF CallsKept, PostsKept, HttpRecord
    <2>4. Gone' /\ LaneRead'
        <3>1. Done' = Done
            BY <2>1 DEF Done, Busy, UnderWay, Count, N
        <3> QED
            BY <2>1, <3>1 DEF CallsKept, Gone, LaneRead, HttpRecord
    <2>5. AnsweredIsKept'
        BY <2>1 DEF CallsKept, AnsweredIsKept, Ordered
    <2> QED
        BY <2>2, <2>3, <2>4, <2>5 DEF CallsKept
<1> QED
    BY <1>1, <1>2

\* flush_lane, "THE durability guarantee": every call whose result the agent was
\* given is in the minted lane with that result, in the order of the calls, for
\* every script and every way of leaving, as long as only one thread of the
\* stand-in writes at a time (and a service does not call on after its drive).
THEOREM AnswersAreKept ==
  ASSUME OneWriter
  PROVE  Spec => []AnsweredIsKept
<1>1. CallsKnown => Solo
    BY WritesAlone DEF CallsKnown
<1>2. CallsKept => AnsweredIsKept
    BY DEF CallsKept
<1> QED
    BY <1>1, <1>2, CallsInit, CallsKnownStep, CallsKeptStep, PTL DEF Spec
-----------------------------------------------------------------------------
(* The same agent passes: it left in order. *)

\* An agent that was not cut short has the answers of all its calls, none an error.
Stayed ==
  /\ left # "here" /\ ~spoilt => sent = Count /\ \A i \in 1..sent : got[i] # "none"
  /\ sent <= Count
  /\ HttpRecord /\ ~trouble /\ ~spoilt => reply # "error" /\ \A i \in DOMAIN got : got[i] # "error"

LEMMA StayedStep ==
  ASSUME CallsKnown, Stayed, Next
  PROVE  Stayed'
<1>1. script' = script /\ N' = N
    BY ScriptStays DEF N
<1>2. /\ N \in Nat \ {0} /\ sent \in Nat /\ Count \in Nat
    BY ScriptTyped DEF CallsKnown, Typed, TypeOK
<1>3. CASE Replay
    <2>1. sent' = 0 /\ left' = "here" /\ mode' = "replay"
        BY <1>3 DEF Replay
    <2>2. Count' \in Nat
        BY <1>1, <1>2 DEF Count
    <2> QED
        BY <2>1, <2>2 DEF Stayed, HttpRecord
<1>4. CASE ~Replay
    <2>1. /\ edit' = edit /\ Count' = Count
          /\ (trouble => trouble') /\ (spoilt => spoilt')
        BY <1>1, <1>4, EditStays, TroubleStays DEF Count
    <2>2. left' # "here" /\ ~spoilt' => sent' = Count' /\ \A i \in 1..sent' : got'[i] # "none"
        <3>1. CASE left # "here"
            <4>1. UNCHANGED <<got, sent>>
                BY <1>4, <3>1, LeftIsGiven
            <4> QED
                BY <2>1, <3>1, <4>1 DEF Stayed
        <3>2. CASE left = "here" /\ left' # "here"
            <4>1. AgentLeaves("closed") \/ AgentLeaves("killed")
                BY <1>4, <3>2, Comings
            <4>2. ~spoilt' => sent = Count /\ UnderWay = {}
                <5>2. ~spoilt' => ~(sent < Count) /\ UnderWay = {}
                    BY <4>1 DEF AgentLeaves, Busy
                <5>3. sent <= Count
                    BY DEF Stayed
                <5> QED
                    BY <1>2, <5>2, <5>3
            <4> QED
                BY <2>1, <4>1, <4>2 DEF AgentLeaves, UnderWay
        <3> QED
            BY <3>1, <3>2
    <2>3. sent' <= Count'
        BY <1>2, <1>4, <2>1, Comings DEF Stayed, AgentCalls
    <2>5. HttpRecord' /\ ~trouble' /\ ~spoilt' => reply' # "error" /\ \A i \in DOMAIN got' : got'[i] # "error"
        <3> SUFFICES ASSUME HttpRecord', ~trouble', ~spoilt'
                     PROVE  reply' # "error" /\ \A i \in DOMAIN got' : got'[i] # "error"
            OBVIOUS
        <3>1. /\ HttpRecord /\ reply # "error" /\ \A i \in DOMAIN got : got[i] # "error"
            BY <2>1, StepsOfHttp DEF CallsKnown, Stayed
        <3>2. CASE UNCHANGED <<got, reply>>
            BY <3>1, <3>2
        <3>3. CASE Respond
            <4>1. script.transport = "http" /\ stage = "respond" /\ reply' = "none" /\ Give(lock, reply) /\ left' = left
                BY <3>3 DEF Respond
            <4>2. got[lock] = "none"
                BY <4>1 DEF CallsKnown, PostsTaken
            <4>3. HandsOut(lock, reply)
                BY <4>1, <4>2, Gives DEF CallsKnown
            <4> QED
                BY <3>1, <4>1, <4>3 DEF HandsOut
        <3>4. CASE (\E i \in 1..sent : PostMock(i) \/ PostForward(i)) \/ ForwardOk
            BY <3>1, <3>4 DEF PostMock, PostForward, ForwardOk, Answer, agentVars
        <3>5. ~ForwardDemand /\ ~ForwardFails
            BY DEF ForwardDemand, ForwardFails
        <3> QED
            BY <3>2, <3>3, <3>4, <3>5, StepsOfHttp DEF CallsKnown
    <2> QED
        BY <2>2, <2>3, <2>5 DEF Stayed
<1> QED
    BY <1>3, <1>4
-----------------------------------------------------------------------------
(* The same agent passes: the lane is whole. *)

\* A set of numbers that is not empty has a least one.
LEMMA Least ==
  ASSUME NEW T \in SUBSET Nat, T # {}
  PROVE  \E x \in T : \A y \in T : x <= y
<1> DEFINE R == OpToRel(<, Nat)
<1>1. IsWellFoundedOn(R, Nat)
    BY NatLessThanWellFounded
<1>2. \A x, y \in Nat : x < y => <<x, y>> \in R
    BY DEF OpToRel
<1> HIDE DEF R
<1>3. PICK x \in T : \A y \in T : ~ (<<y, x>> \in R)
    BY <1>1, WFMin
<1>4. \A y \in T : ~(y < x)
    BY <1>2, <1>3
<1>5. \A y \in T : x <= y
    BY <1>4
<1> QED
    BY <1>5

\* Rising numbers that are all those up to M are each in their own place.
Rising(s, L, M) == /\ s \in [1..L -> 1..M]
                   /\ \A j, k \in 1..L : j < k => s[j] < s[k]
                   /\ \A i \in 1..M : \E k \in 1..L : s[k] = i

LEMMA EachInItsPlace ==
  ASSUME NEW M \in Nat, NEW L \in Nat, NEW s, Rising(s, L, M)
  PROVE  L = M /\ \A k \in 1..L : s[k] = k
<1>0. /\ s \in [1..L -> 1..M]
      /\ \A j, k \in 1..L : j < k => s[j] < s[k]
      /\ \A i \in 1..M : \E k \in 1..L : s[k] = i
    BY DEF Rising
<1>1. \A k \in 1..L : s[k] = k
    <2> DEFINE T == {k \in 1..L : s[k] # k}
    <2> SUFFICES ASSUME T # {} PROVE FALSE
        OBVIOUS
    <2>1. PICK k \in T : \A j \in T : k <= j
        <3>1. T \in SUBSET Nat
            OBVIOUS
        <3> HIDE DEF T
        <3> QED
            BY <3>1, Least
    <2>2. /\ k \in 1..L /\ s[k] # k /\ s[k] \in 1..M
          /\ \A j \in 1..L : j < k => s[j] = j
        BY <1>0, <2>1
    <2> HIDE DEF T
    <2>3. s[k] > k
        <3> SUFFICES ASSUME s[k] < k PROVE FALSE
            BY <2>2
        <3>1. s[k] \in 1..L /\ s[s[k]] = s[k]
            BY <2>2
        <3>2. s[s[k]] < s[k]
            BY <1>0, <2>2, <3>1
        <3> QED
            BY <2>2, <3>1, <3>2
    <2>4. k \in 1..M
        BY <2>2, <2>3
    <2>5. PICK i \in 1..L : s[i] = k
        BY <1>0, <2>4
    <2>6. ~(i < k) /\ i # k /\ ~(k < i)
        <3>1. i < k => s[i] = i
            BY <2>2
        <3>2. k < i => s[k] < s[i]
            BY <1>0, <2>2
        <3> QED
            BY <2>2, <2>3, <2>5, <3>1, <3>2
    <2> QED
        BY <2>2, <2>6
<1>2. L <= M
    <2>1. CASE L = 0
        BY <2>1
    <2>2. CASE L # 0
        <3>1. L \in 1..L
            BY <2>2
        <3>2. s[L] = L /\ s[L] \in 1..M
            BY <1>0, <1>1, <3>1
        <3> QED
            BY <3>2
    <2> QED
        BY <2>1, <2>2
<1>3. M <= L
    <2>1. CASE M = 0
        BY <2>1
    <2>2. CASE M # 0
        <3>1. M \in 1..M
            BY <2>2
        <3>2. PICK k \in 1..L : s[k] = M
            BY <1>0, <3>1
        <3> QED
            BY <1>1, <3>2
    <2> QED
        BY <2>1, <2>2
<1> QED
    BY <1>1, <1>2, <1>3

\* A recording without trouble has all the calls, each in its place.
Whole ==
  recorded /\ Ordered => Len(trace.lane) = N /\ \A k \in DOMAIN trace.lane : trace.lane[k].body = k

LEMMA LaneWhole ==
  ASSUME NEW entries \in Seq(Entry), TypeBoundary, edit = "same", script.transport = "stdio" => Apart(entries),
         script.transport = "stdio" \/ InPlace(entries),
         \A k \in DOMAIN entries : entries[k].n \in 1..N,
         \A i \in 1..N : Holds(entries, i, got[i])
  PROVE  Len(Lane(entries)) = N /\ \A k \in DOMAIN Lane(entries) : Lane(entries)[k].body = k
<1> DEFINE L == Lane(entries)
           M == Len(entries)
<1>1. /\ DOMAIN L = 1..M /\ M \in Nat
      /\ \A i, answer : Holds(entries, i, answer) => [body |-> i, result |-> Captured(answer)] \in ToSet(L)
      /\ \A k \in DOMAIN entries : \E j \in DOMAIN entries : L[k].body = entries[j].n
      /\ \A j, k \in DOMAIN L : j < k => L[j].body < L[k].body
    BY LaneHolds
<1>2. N \in Nat /\ DOMAIN entries = 1..M
    BY ScriptTyped
<1>3. L = [k \in DOMAIN L |-> L[k]]
    BY DEF Lane
<1> HIDE DEF L, M
<1> DEFINE s == [k \in 1..M |-> L[k].body]
<1>4. s \in [1..M -> 1..N]
    BY <1>1, <1>2
<1>5. \A j, k \in 1..M : j < k => s[j] < s[k]
    BY <1>1
<1>6. ASSUME NEW i \in 1..N PROVE \E k \in 1..M : s[k] = i
    <2> DEFINE e == [body |-> i, result |-> Captured(got[i])]
    <2>1. e \in ToSet(L) /\ e.body = i
        BY <1>1
    <2> HIDE DEF e
    <2>2. PICK k \in DOMAIN L : L[k] = e
        BY <2>1 DEF ToSet
    <2> QED
        BY <1>1, <2>1, <2>2
<1>7. \A k \in 1..M : s[k] = L[k].body
    OBVIOUS
<1> HIDE DEF s
<1>61. Rising(s, M, N)
    BY <1>4, <1>5, <1>6 DEF Rising
<1>8. M = N /\ \A k \in 1..M : s[k] = k
    BY <1>1, <1>2, <1>61, EachInItsPlace
<1>9. Len(L) = M
    BY <1>1, <1>3
<1> QED
    BY <1>1, <1>7, <1>8, <1>9 DEF L

\* What is collected of an agent that was not cut short is all there is.
LEMMA AllAnswered ==
  ASSUME CallsKnown, Gone, Stayed, pc # "run", ~spoilt
  PROVE  sent = Count /\ \A i \in 1..sent : got[i] # "none"
<1>1. CASE left # "here"
    BY <1>1 DEF Stayed
<1>2. CASE left = "here"
    <2>1. ~(sent < Count) /\ UnderWay = {}
        BY <1>2 DEF Gone, Done, Busy
    <2>2. sent \in Nat /\ Count \in Nat /\ sent <= Count
        BY ScriptTyped DEF CallsKnown, Typed, TypeOK, Stayed, Count
    <2>3. sent = Count
        BY <2>1, <2>2
    <2> QED
        BY <2>1, <2>3 DEF UnderWay
<1> QED
    BY <1>1, <1>2

LEMMA WholeStep ==
  ASSUME CallsKnown, CallsKept, Stayed, Whole, Next
  PROVE  Whole'
<1> SUFFICES ASSUME recorded', Ordered
             PROVE  Len(trace'.lane) = N /\ \A k \in DOMAIN trace'.lane : trace'.lane[k].body = k
    BY ScriptStays DEF Whole, Ordered, N
<1>1. CASE UNCHANGED <<trace, recorded>>
    BY <1>1 DEF Whole
<1>2. /\ TypeBoundary /\ calls \in Seq(Entry) /\ N \in Nat /\ DOMAIN got = 1..(N + 1) /\ sent \in Nat
      /\ taken \in 0..sent
    BY ScriptTyped DEF CallsKnown, Typed, TypeOK, TypeBoundary, TypeStdio
<1>3. ASSUME NEW entries \in Seq(Entry), edit = "same", script.transport = "stdio" => Apart(entries),
             trace'.lane = Lane(entries), script.transport = "stdio" \/ InPlace(entries),
             pc # "run", ~spoilt, \A k \in DOMAIN entries : entries[k].n \in 1..sent,
             \A i \in DOMAIN got : got[i] # "none" => Holds(entries, i, got[i])
      PROVE  Len(trace'.lane) = N /\ \A k \in DOMAIN trace'.lane : trace'.lane[k].body = k
    <2>1. Count = N
        BY <1>3 DEF Count
    <2>2. sent = N /\ \A i \in 1..N : got[i] # "none"
        BY <1>3, <2>1, AllAnswered DEF CallsKept
    <2>3. \A i \in 1..N : Holds(entries, i, got[i])
        BY <1>2, <1>3, <2>2
    <2> QED
        BY <1>2, <1>3, <2>2, <2>3, LaneWhole
<1>4. CASE ReadOut /\ ~UNCHANGED <<trace, recorded>>
    <2>1. /\ files.out.kind = "calls" /\ mode = "record" /\ script.transport = "stdio" /\ edit = "same" /\ pc = "collect"
          /\ trace' = [lane |-> Lane(files.out.calls), events |-> files.out.events] /\ ~spoilt /\ ~trouble
        BY <1>4 DEF ReadOut, Mint, Check, CallsKept, Gone
    <2>2. OutKept /\ CallsApart
        BY <2>1 DEF CallsKnown, CallsKept, OutInOrder, OnePlace, StdioRecord
    <2> DEFINE entries == files.out.calls
    <2>3. /\ entries \in Seq(Entry) /\ Begins(entries, calls) /\ trace'.lane = Lane(entries)
          /\ \A i \in DOMAIN got : got[i] # "none" => Holds(entries, i, got[i])
        BY <2>1, <2>2 DEF OutKept
    <2> HIDE DEF entries
    <2>4. DOMAIN entries \subseteq DOMAIN calls /\ \A k \in DOMAIN entries : entries[k] = calls[k]
        BY <1>2, <2>3 DEF Begins
    <2>5. Apart(entries) /\ \A k \in DOMAIN entries : entries[k].n \in 1..sent
        BY <1>2, <2>2, <2>4 DEF Apart, CallsApart
    <2> QED
        BY <1>3, <2>1, <2>3, <2>5
<1>5. CASE ReadEvents /\ ~UNCHANGED <<trace, recorded>>
    <2>1. pc = "events" /\ trace'.lane = Lane(lane) /\ ~spoilt /\ ~trouble
        <3>1. pc = "events" /\ Mint(lane, events)
            BY <1>5 DEF ReadEvents
        <3>2. trace' = [lane |-> Lane(lane), events |-> events] /\ recorded' = (~spoilt /\ ~trouble)
            BY <1>5, <3>1 DEF Mint
        <3> QED
            BY <3>1, <3>2
    <2>2. HttpRecord /\ edit = "same" /\ lane \in Seq(Entry)
        BY <2>1 DEF CallsKnown, CallsKept, Gone, HttpRecord, Typed, TypeOK
    <2>3. script.transport = "http"
        BY <2>2 DEF HttpRecord
    <2>4. /\ \A i \in DOMAIN got : got[i] \notin {"none", "error"} => Holds(lane, i, got[i])
          /\ \A k \in DOMAIN lane : lane[k].n \in 1..sent
          /\ InPlace(lane)
        BY <2>1, <2>3 DEF CallsKept, LaneRead, Ordered
    <2>5. \A i \in DOMAIN got : got[i] # "error"
        BY <2>1, <2>2 DEF Stayed
    <2> QED
        BY <1>3, <2>1, <2>2, <2>3, <2>4, <2>5
<1> QED
    <2>1. \/ UNCHANGED <<trace, recorded>> \/ ReadOut \/ ReadEvents
        BY Orchestrator DEF DriveEnds, ReadError, ReadCaptured, ReadLog, Check, Same, Replay
    <2> QED
        BY <1>1, <1>4, <1>5, <2>1
-----------------------------------------------------------------------------
(* The same agent passes: its replay. *)

\* The agent that makes the calls of a whole lane again.
SameAgain == mode = "replay" /\ edit = "same" /\ recorded /\ Ordered

\* Its calls are served one after the other, and none diverges.
InStep ==
  SameAgain =>
    /\ ~diverged
    /\ script.transport = "stdio" => served = taken /\ files.out.kind \in {"no file", "served"}
    /\ script.transport = "http" => handled = 1..served
    /\ ~spoilt => verdict # "failed"

\* An agent that stays has heard what was due, and its stand-in wrote the out file
\* before it ended.
HeardOut ==
  mode = "replay" /\ script.transport = "stdio" /\ ~spoilt =>
    /\ left # "here" => ~Owes
    /\ at["A"] = "gone" /\ ~script.faulty => files.out.kind = "served"
    /\ expired => at["A"] = "gone" /\ ~script.faulty

\* How the stand-in of a replay ends.
LEMMA EndsOfStandIn ==
  ASSUME Typed, mode = "replay", Next, ~Replay, at["A"] # "gone", at'["A"] = "gone"
  PROVE  WriteServed \/ BreakOff \/ spoilt'
<1>1. CASE Agent
    <2>1. CASE AgentLeaves("killed")
        BY <2>1 DEF AgentLeaves
    <2> QED
        BY <1>1, <2>1 DEF Agent, stdioVars
<1>2. CASE StandIn
    <2>1. Announce \/ Serve \/ WriteServed \/ BreakOff
        BY <1>2 DEF StandIn, Flush, Snap, Open, Put, Rename, Start, TakeMock, AnswerMock, TakeCall, Close,
                    Hears, Pass, EndOfServer, WriteLast, Recording
    <2>2. CASE Announce \/ Serve
        <3>1. at \in [Thread -> Parts]
            BY DEF Typed, TypeOK, TypeStdio
        <3> QED
            BY <2>2, <3>1 DEF Announce, Serve, Goto, Thread
    <2> QED
        BY <2>1, <2>2
<1>3. CASE Server
    BY <1>3 DEF Server, RealServer, stdioVars
<1>4. CASE Collecting \/ Expire
    BY <1>4 DEF Collecting, DriveEnds, ReadOut, ReadError, ReadCaptured, ReadEvents, ReadLog, Expire, Same, stdioVars
<1> QED
    BY <1>1, <1>2, <1>3, <1>4 DEF Next, Transport, Ended, vars, stdioVars

LEMMA HeardStays ==
  ASSUME Next, ~Replay, heard
  PROVE  heard'
<1>1. CASE Agent
    BY <1>1 DEF Agent, AgentCalls, AgentLeaves, OpenStream, agentVars
<1>2. CASE Server
    BY <1>2 DEF Server, RealServer, Upstream, ForwardOk, ForwardNote, ForwardDemand, ForwardFails, Pump, PumpDemand,
                Hear, agentVars
<1>3. CASE Collecting \/ Expire
    BY <1>3 DEF Collecting, DriveEnds, ReadOut, ReadError, ReadCaptured, ReadEvents, ReadLog, Expire, Same, agentVars
<1>4. CASE StandIn
    BY <1>4 DEF StandIn, Flush, Start, TakeMock, AnswerMock, TakeCall, Close, Hears, Pass, EndOfServer, WriteLast,
                Announce, Serve, WriteServed, BreakOff, Hear, agentVars
<1>5. CASE Listener
    BY <1>5 DEF Listener, Posts, PostMock, PostForward, PostReplay, Respond, CapturePushed, Emit, Hear, agentVars
<1>6. CASE Ended
    BY <1>6 DEF Ended, vars, boundaryVars, agentVars
<1> QED
    BY <1>1, <1>2, <1>3, <1>4, <1>5, <1>6 DEF Next, Transport

LEMMA HeardOutStep ==
  ASSUME CallsKnown, Stayed, HeardOut, Next
  PROVE  HeardOut'
<1> SUFFICES ASSUME mode' = "replay", script.transport = "stdio", ~spoilt'
             PROVE  /\ left' # "here" => ~Owes'
                    /\ at'["A"] = "gone" /\ ~script.faulty => files'.out.kind = "served"
                    /\ expired' => at'["A"] = "gone" /\ ~script.faulty
    BY ScriptStays DEF HeardOut
<1>1. CASE Replay
    BY <1>1 DEF Replay, Thread
<1>2. CASE ~Replay
    <2>1. mode = "replay" /\ ~spoilt /\ Typed
        BY <1>2, EditStays, TroubleStays DEF CallsKnown
    <2>2. /\ left # "here" => ~Owes
          /\ at["A"] = "gone" /\ ~script.faulty => files.out.kind = "served"
          /\ expired => at["A"] = "gone" /\ ~script.faulty
        BY <2>1 DEF HeardOut
    <2>3. left # "here" => ~(taken < sent)
        <3> SUFFICES ASSUME left # "here", taken < sent PROVE FALSE
            OBVIOUS
        <3>1. /\ taken \in Nat /\ sent \in 0..(N + 1) /\ N \in Nat /\ DOMAIN got = 1..(N + 1)
            BY <2>1, ScriptTyped DEF Typed, TypeOK, TypeBoundary, TypeStdio
        <3>2. taken + 1 \in 1..sent /\ taken + 1 \in DOMAIN got /\ taken + 1 \notin 1..taken
            BY <3>1
        <3>3. got[taken + 1] # "none"
            BY <2>1, <3>2 DEF Stayed
        <3> QED
            BY <3>2, <3>3 DEF CallsKnown, Owed, GivenTaken
    <2>4. CASE Quiet
        <3>1. UNCHANGED <<served, trace, files>> /\ (at["A"] = "gone" => at'["A"] = "gone")
            BY <2>4 DEF Quiet
        <3>2. Due(served)' = Due(served)
            BY <3>1 DEF Due
        <3>3. left' # "here" => ~Owes'
            <4>1. CASE left # "here"
                BY <1>2, <2>2, <3>2, <4>1, HeardStays DEF Owes
            <4>2. CASE left = "here" /\ left' # "here"
                <5>1. AgentLeaves("closed") \/ AgentLeaves("killed")
                    BY <1>2, <4>2, Comings
                <5>2. ~Owes /\ heard' = heard
                    BY <2>1, <5>1 DEF AgentLeaves, Unheeded
                <5> QED
                    BY <3>2, <5>2 DEF Owes
            <4> QED
                BY <4>1, <4>2
        <3>4. at'["A"] = "gone" /\ ~script.faulty => files'.out.kind = "served"
            <4> SUFFICES ASSUME at["A"] # "gone", at'["A"] = "gone", ~script.faulty
                         PROVE  files'.out.kind = "served"
                BY <2>2, <3>1
            <4>1. CASE WriteServed
                <5>1. files'.out = Served(served, diverged)
                    BY <4>1 DEF WriteServed, Publish, CallsKnown, Typed, TypeOK, TypeStdio
                <5> QED
                    BY <5>1 DEF Served
            <4>2. CASE BreakOff
                <5>1. left # "here" /\ (taken < sent \/ Owes)
                    BY <2>1, <4>2 DEF BreakOff, Recording
                <5> QED
                    BY <2>2, <2>3, <5>1
            <4> QED
                BY <1>2, <2>1, <4>1, <4>2, EndsOfStandIn
        <3>5. expired' => at'["A"] = "gone" /\ ~script.faulty
            <4>1. CASE Expire
                BY <2>1, <3>1, <4>1 DEF Expire
            <4>2. CASE expired' = expired
                BY <2>2, <3>1, <4>2
            <4> QED
                BY <1>2, <4>1, <4>2, TroubleStays
        <3> QED
            BY <3>3, <3>4, <3>5
    <2>5. CASE Serve \/ WriteServed
        <3>1. at["A"] # "gone" /\ UNCHANGED <<left, heard>> /\ ~Expire
            BY <2>5 DEF Serve, WriteServed, Replaying, Alive, agentVars, Expire, Same, stdioVars
        <3>2. ~expired'
            BY <1>2, <2>2, <3>1, TroubleStays
        <3>3. CASE Serve
            <4>1. left = "here"
                BY <2>3, <3>3 DEF Serve
            <4>2. at'["A"] # "gone"
                BY <2>1, <3>3 DEF Serve, Goto, Thread, Typed, TypeOK, TypeStdio
            <4> QED
                BY <3>1, <3>2, <4>1, <4>2
        <3>4. CASE WriteServed
            <4>1. UNCHANGED <<served, trace>>
                BY <3>4, <1>2, <2>1, StepsOfReplay DEF WriteServed, captureVars, Quiet, setVars
            <4>2. Owes' = Owes
                BY <3>1, <4>1 DEF Owes, Due
            <4>3. ~script.faulty => files'.out = Served(served, diverged)
                BY <3>4 DEF WriteServed, Publish, CallsKnown, Typed, TypeOK, TypeStdio
            <4> QED
                BY <2>2, <3>1, <3>2, <4>2, <4>3 DEF Served
        <3> QED
            BY <2>5, <3>3, <3>4
    <2>6. ~(\E i \in 1..sent : PostReplay(i)) /\ ~Respond
        BY DEF PostReplay, Listening, Respond
    <2> QED
        BY <1>2, <2>1, <2>4, <2>5, <2>6, StepsOfReplay
<1> QED
    BY <1>1, <1>2

\* The next call is the next entry of the lane.
LEMMA NextMatches ==
  ASSUME TypeBoundary, Whole, SameAgain, ~diverged, served < N, ServeLane(served + 1)
  PROVE  served' = served + 1 /\ ~diverged'
<1>1. N \in Nat /\ served \in Nat /\ DOMAIN trace.lane = 1..Len(trace.lane)
    BY ScriptTyped DEF TypeBoundary
<1>2. Len(trace.lane) = N /\ \A k \in DOMAIN trace.lane : trace.lane[k].body = k
    BY DEF Whole, SameAgain
<1>3. served + 1 \in DOMAIN trace.lane
    BY <1>1, <1>2
<1>4. Body(served + 1) = served + 1
    BY DEF Body, SameAgain
<1>5. Serves(Body(served + 1))
    BY <1>2, <1>3, <1>4 DEF Serves, Match
<1> QED
    BY <1>5 DEF ServeLane

LEMMA InStepStep ==
  ASSUME CallsKnown, ServedIsFinal, Stayed, Gone, Whole, HeardOut, InStep, Next
  PROVE  InStep'
<1> SUFFICES ASSUME SameAgain'
             PROVE  /\ ~diverged'
                    /\ script.transport = "stdio" => served' = taken' /\ files'.out.kind \in {"no file", "served"}
                    /\ script.transport = "http" => handled' = 1..served'
                    /\ ~spoilt' => verdict' # "failed"
    BY ScriptStays DEF InStep
<1>1. /\ TypeBoundary /\ N \in Nat /\ served \in Nat /\ sent \in Nat /\ taken \in 0..sent /\ Typed
      /\ handled \subseteq 1..sent /\ DOMAIN trace.lane = 1..Len(trace.lane) /\ DOMAIN got = 1..(N + 1)
    BY ScriptTyped DEF CallsKnown, Typed, TypeOK, TypeBoundary, TypeStdio, TypeHttp
<1>2. CASE Replay
    <2>1. /\ diverged' = FALSE /\ served' = 0 /\ taken' = 0 /\ files' = [tmp |-> NoFile, out |-> NoFile]
          /\ handled' = {} /\ verdict' = "none"
        BY <1>2 DEF Replay
    <2>2. files'.out.kind = "no file"
        BY <2>1 DEF NoFile
    <2>3. handled' = 1..served'
        BY <2>1
    <2> QED
        BY <2>1, <2>2, <2>3
<1>3. CASE ~Replay
    <2>1. mode = "replay" /\ edit = "same"
        BY <1>3, EditStays DEF SameAgain
    <2>2. script' = script
        BY ScriptStays
    <2>3. UNCHANGED recorded
        BY <1>1, <1>3, <2>1, StepsOfReplay DEF Quiet, setVars
    <2>4. SameAgain
        BY <2>1, <2>2, <2>3 DEF SameAgain, Ordered
    <2>5. /\ ~diverged
          /\ script.transport = "stdio" => served = taken /\ files.out.kind \in {"no file", "served"}
          /\ script.transport = "http" => handled = 1..served
          /\ ~spoilt => verdict # "failed"
        BY <2>4 DEF InStep
    <2>6. Len(trace.lane) = N /\ sent <= N
        BY <2>1, <2>4 DEF Whole, SameAgain, Stayed, Count
    <2>7. /\ ~diverged'
          /\ script.transport = "stdio" => served' = taken' /\ files'.out.kind \in {"no file", "served"}
          /\ script.transport = "http" => handled' = 1..served'
        <3>1. CASE Quiet
            BY <2>5, <3>1 DEF Quiet
        <3>2. CASE Serve
            <4>1. taken < sent /\ taken' = taken + 1 /\ ServeLane(taken + 1) /\ UNCHANGED files
                  /\ script.transport = "stdio"
                BY <3>2 DEF Serve, Replaying, Alive
            <4>2. served = taken /\ served < N
                <5>1. served = taken
                    BY <2>5, <4>1
                <5> QED
                    BY <1>1, <2>6, <4>1, <5>1
            <4>3. served' = served + 1 /\ ~diverged'
                BY <1>1, <2>4, <2>5, <4>1, <4>2, NextMatches
            <4> QED
                BY <2>5, <4>1, <4>2, <4>3
        <3>3. CASE WriteServed
            <4>1. /\ UNCHANGED <<diverged, served, taken>> /\ script.transport = "stdio"
                  /\ files' = files \/ files'.out = Served(served, diverged)
                BY <3>3 DEF WriteServed, captureVars, Publish, Replaying, Alive, CallsKnown, Typed, TypeOK, TypeStdio
            <4>2. files'.out.kind \in {"no file", "served"}
                <5>1. CASE files' = files
                    BY <2>5, <4>1, <5>1
                <5>2. CASE files'.out = Served(served, diverged)
                    BY <5>2 DEF Served
                <5> QED
                    BY <4>1, <5>1, <5>2
            <4>3. served = taken /\ ~diverged /\ script.transport # "http"
                BY <2>5, <4>1
            <4> QED
                BY <4>1, <4>2, <4>3
        <3>4. ASSUME NEW i \in 1..sent, PostReplay(i)
              PROVE  /\ ~diverged'
                     /\ script.transport = "stdio" => served' = taken' /\ files'.out.kind \in {"no file", "served"}
                     /\ script.transport = "http" => handled' = 1..served'
            <4>1. /\ script.transport = "http" /\ i \notin handled /\ handled' = handled \cup {i} /\ ServeLane(i)
                BY <3>4 DEF PostReplay, TakeLock, Listening
            <4>2. script.ahead = 1 /\ handled = 1..served
                BY <2>4, <2>5, <4>1 DEF SameAgain, Ordered
            <4>3. /\ \A j \in 1..sent : got[j] # "none" => j \in handled
                  /\ \A j \in 1..sent : got[j] = "none" => j = sent
                <5>1. sent \in 0..(N + 1)
                    BY <1>1 DEF TypeBoundary
                <5>2. \A j \in 1..sent : j \in DOMAIN got
                    BY <1>1, <5>1
                <5> QED
                    BY <4>1, <4>2, <5>2 DEF CallsKnown, PostsTaken, OneAtATime
            <4>4. i = sent
                BY <4>1, <4>3
            <4>5. sent = served + 1
                <5>1. served < sent
                    BY <1>1, <4>1, <4>2, <4>4
                <5>2. ~(served + 1 < sent)
                    <6> SUFFICES ASSUME served + 1 < sent PROVE FALSE
                        OBVIOUS
                    <6>1. served + 1 \in 1..sent /\ served + 1 # sent /\ served + 1 \notin handled
                        BY <1>1, <4>2
                    <6> QED
                        BY <4>3, <6>1
                <5> QED
                    BY <1>1, <5>1, <5>2
            <4>6. served' = served + 1 /\ ~diverged'
                <5>1. ServeLane(served + 1) /\ served < N
                    BY <1>1, <2>6, <4>1, <4>4, <4>5
                <5> QED
                    BY <1>1, <2>4, <2>5, <5>1, NextMatches
            <4>7. handled' = 1..served'
                <5>1. handled' = (1..served) \cup {served + 1}
                    BY <4>1, <4>2, <4>4, <4>5
                <5> QED
                    BY <1>1, <4>6, <5>1
            <4> QED
                BY <4>1, <4>6, <4>7
        <3>5. CASE Respond /\ UNCHANGED stdioVars
            BY <2>5, <3>5 DEF Respond, captureVars, stdioVars
        <3> QED
            BY <1>1, <1>3, <2>1, <3>1, <3>2, <3>3, <3>4, <3>5, StepsOfReplay
    <2>8. ~spoilt' => verdict' # "failed"
        <3> SUFFICES ASSUME ~spoilt', verdict' # verdict PROVE verdict' # "failed"
            BY <1>3, <2>5, TroubleStays
        <3>1. ~spoilt
            BY <1>3, TroubleStays
        <3>2. ReadOut \/ ReadLog
            <4>1. ~ReadError /\ ~ReadEvents
                BY <1>1, <2>1 DEF ReadError, ReadEvents, Listening, Typed, FilesOfTheirMode
            <4> QED
                BY <1>3, <4>1, Orchestrator DEF DriveEnds, ReadCaptured
        <3>3. pc # "run" /\ Count = N
            BY <2>1, <3>2 DEF ReadOut, ReadLog, Count
        <3>4. sent = N /\ \A i \in 1..sent : got[i] # "none"
            BY <3>1, <3>3, AllAnswered
        <3>5. CASE ReadOut
            <4>1. script.transport = "stdio" /\ files.out.kind \in {"no file", "served"}
                BY <2>5, <3>5 DEF ReadOut
            <4>0. files.out.kind = "no file" => ~expired
                BY <2>1, <3>1, <4>1 DEF HeardOut
            <4>2. files.out.kind = "served" /\ Check(files.out.served, files.out.diverged)
                BY <2>1, <3>5, <4>0, <4>1 DEF ReadOut
            <4>3. files.out.served = served /\ files.out.diverged = diverged /\ taken = sent
                BY <2>1, <4>2 DEF ServedIsFinal
            <4> QED
                BY <2>5, <2>6, <3>4, <4>1, <4>2, <4>3 DEF Check, End
        <3>6. CASE ReadLog
            <4>1. script.transport = "http" /\ Check(served, diverged)
                BY <3>6 DEF ReadLog, Listening
            <4>2. \A i \in 1..N : i \in 1..served
                BY <1>1, <2>5, <3>4, <4>1 DEF CallsKnown, PostsTaken
            <4>3. \A i \in 1..served : i \in 1..N
                BY <1>1, <2>5, <3>4, <4>1
            <4>4. served = N
                <5>1. ~(served < N)
                    <6>1. N = 0 \/ N \in 1..N
                        BY <1>1
                    <6> QED
                        BY <1>1, <4>2, <6>1
                <5>2. ~(N < served)
                    <6>1. served = 0 \/ served \in 1..served
                        BY <1>1
                    <6> QED
                        BY <1>1, <4>3, <6>1
                <5> QED
                    BY <1>1, <5>1, <5>2
            <4> QED
                BY <2>5, <2>6, <4>1, <4>4 DEF Check, End
        <3> QED
            BY <3>2, <3>5, <3>6
    <2> QED
        BY <2>7, <2>8
<1> QED
    BY <1>2, <1>3

\* A recording and its replay.
ReplayAgain == ServedIsFinal /\ Stayed /\ Whole /\ HeardOut /\ InStep

LEMMA ReplayAgainInit == Init => ReplayAgain
<1> SUFFICES ASSUME Init PROVE ReplayAgain
    OBVIOUS
<1>1. /\ mode = "record" /\ edit = "same" /\ sent = 0 /\ got = [i \in 1..(N + 1) |-> "none"] /\ left = "here"
      /\ reply = "none" /\ expired = FALSE /\ recorded = FALSE
    BY DEF Init, BoundaryInit, BoundaryStarts, HttpStarts, RunStarts
<1>2. N \in Nat
    BY TypedInit, ScriptTyped DEF Typed, TypeOK
<1>3. Stayed
    BY <1>1, <1>2 DEF Stayed, Count
<1> QED
    BY <1>1, <1>3 DEF ReplayAgain, ServedIsFinal, Whole, HeardOut, InStep, SameAgain

LEMMA ReplayAgainStep ==
  CallsKnown /\ CallsKept /\ ReplayAgain /\ [Next]_vars => ReplayAgain'
<1> SUFFICES ASSUME CallsKnown, CallsKept, ReplayAgain, [Next]_vars PROVE ReplayAgain'
    OBVIOUS
<1>1. CASE Next
    BY <1>1, FinalStep, StayedStep, WholeStep, HeardOutStep, InStepStep DEF CallsKnown, CallsKept, ReplayAgain
<1>2. CASE UNCHANGED vars
    <2>1. UNCHANGED <<script, mode, edit, sent, got, heard, left, trouble, served, diverged, trace, spoilt, recorded,
                      at, taken, files, handled, reply, expired, verdict>>
        BY <1>2 DEF vars, boundaryVars, agentVars, captureVars, setVars, stdioVars, httpVars, runVars
    <2>2. ServedIsFinal'
        BY <2>1 DEF ReplayAgain, ServedIsFinal
    <2>3. Stayed'
        BY <2>1 DEF ReplayAgain, Stayed, Count, HttpRecord, N
    <2>4. Whole' /\ InStep'
        BY <2>1 DEF ReplayAgain, Whole, InStep, SameAgain, Ordered, N
    <2>5. HeardOut'
        BY <2>1 DEF ReplayAgain, HeardOut, Owes, Due
    <2> QED
        BY <2>2, <2>3, <2>4, <2>5 DEF ReplayAgain
<1> QED
    BY <1>1, <1>2

\* check_replay: what was recorded without trouble replays.  An agent that makes the
\* same calls again, and stays for their answers and for the notification that comes
\* with them, passes, in whichever order the answers came when it was recorded.
THEOREM SameAgentReplays ==
  ASSUME OneWriter
  PROVE  Spec => []SameAgentPasses
<1>1. CallsKnown => Solo
    BY WritesAlone DEF CallsKnown
<1>2. ReplayAgain => SameAgentPasses
    BY DEF ReplayAgain, InStep, SameAgain, SameAgentPasses
<1> QED
    BY <1>1, <1>2, CallsInit, CallsKnownStep, CallsKeptStep, ReplayAgainInit, ReplayAgainStep, PTL DEF Spec
=============================================================================
