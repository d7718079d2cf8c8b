--------------------------- MODULE AgentFlowProofs ---------------------------
(***************************************************************************)
(* What is proved of a recorded and replayed agent flow, for all flows:    *)
(* its types, what the two quiet windows of the runner see although the    *)
(* proxy's thread runs between its readings, what a PASS means, which      *)
(* delivery a recorded turn belongs to, and that the replay of the         *)
(* recorded agent is no error.                                             *)
(***************************************************************************)
EXTENDS AgentFlow, FiniteSetTheorems, SequenceTheorems, WellFoundedInduction, TLAPS

LogType == [served: Nat, divergence: BOOLEAN, upstreamError: BOOLEAN, lastTool: BOOLEAN]
TurnType == [body: Bodies, tool: BOOLEAN]
Requests == [who: Who, kind: Kind, body: Bodies, tool: BOOLEAN]

\* The proxy has nothing in hand between the requests it serves; a runner that
\* is about to hand out a delivery has one left.
Typed == /\ TypeOK
         /\ inFlight = IF step \in {"idle", "finishing"} THEN 0 ELSE 1
         /\ step # "idle" => serving \in Requests
         /\ pc = "write" \/ (pc = "start" /\ ~Process) => handed < Deliveries
         /\ waiting => ~Done

\* The plans of the flows are sequences of positive numbers.
LEMMA PlansTyped ==
  ASSUME agent \in Agents
  PROVE  /\ agent.turns \in Plans
         /\ agent.turns \in Seq(Nat \ {0}) /\ Deliveries \in Nat \ {0}
         /\ \A d \in 1..Deliveries : agent.turns[d] \in Nat \ {0}
<1>1. agent.turns \in Plans
    BY DEF Agents
<1>2. agent.turns \in Seq(Nat \ {0}) \ {<<>>}
    BY <1>1, AgentFlowAssumption DEF Plans
<1> QED
    BY <1>1, <1>2 DEF Deliveries

\* A call within the agent's plan is one a request can be named by.
LEMMA CallsTyped ==
  ASSUME agent \in Agents, NEW d \in 1..Deliveries, NEW k \in 1..agent.turns[d]
  PROVE  <<d, k>> \in MainCalls
<1>1. agent.turns \in Plans /\ agent.turns \in Seq(Nat \ {0})
    BY PlansTyped
<1>2. d \in DOMAIN agent.turns
    BY <1>1 DEF Deliveries
<1> QED
    BY <1>1, <1>2 DEF MainCalls

-----------------------------------------------------------------------------
\* What wait_for_settle has read while it reads on.
Polling == {"inFlight", "log", "quiet", "activity2", "inFlight2"}

\* The readings hold as long as the counter has not moved: nothing in flight
\* means that the proxy has at most taken a request it has not begun to serve.
ReadingsHold ==
  /\ pc \in Polling => reg.activity <= activity
  /\ pc \in Polling \ {"inFlight"} /\ reg.inFlight = 0 /\ activity = reg.activity
       => step \in {"idle", "started", "finishing"}
  /\ pc \in {"quiet", "activity2", "inFlight2"} =>
       /\ reg.inFlight = 0
       /\ activity = reg.activity => log.served = reg.served /\ ~log.lastTool
-----------------------------------------------------------------------------
\* The body a call is recognised by, as long as the agent is the recorded one.
BodyOf(w) == IF w = Side THEN SideCall.body ELSE w

HasTurn(w) == \E i \in DOMAIN captured : captured[i].body = BodyOf(w)

\* While it records, the proxy has captured the turn of every request it answered
\* or is about to answer.
AnsweredIsCaptured ==
  mode = "record" =>
    /\ ~agent.edited
    /\ \A i \in DOMAIN queue : queue[i].body = BodyOf(queue[i].who)
    /\ step # "idle" => serving.body = BodyOf(serving.who)
    /\ step \in {"captured", "logged"} => HasTurn(serving.who)
    /\ \A a \in answers : a.ok => HasTurn(a.who)

\* quiesce looks only while a flow is recorded, and what was owed then is
\* answered or still in the proxy's hands.
Calming == pc \in {"calm", "calmActivity", "calmInFlight", "collect"}
OwedInHand ==
  /\ Calming => mode = "record"
  /\ step \in {"answered", "finishing"} => Answered(serving.who)
  /\ pc \in {"calmActivity", "calmInFlight", "collect"} =>
       \A w \in owed : Answered(w) \/ (step \notin {"idle", "answered", "finishing"} /\ serving.who = w)
  /\ pc = "collect" /\ reg.settled => \A w \in owed : Answered(w)
-----------------------------------------------------------------------------
\* The calls that were made and where they are: waiting, in the proxy's hands, or
\* answered.
Waiting == {queue[i].who : i \in DOMAIN queue}
InHand == IF step \in {"idle", "answered", "finishing"} THEN {} ELSE {serving.who}
Answers == {a.who : a \in answers}

Before(v, w) == v[1] < w[1] \/ (v[1] = w[1] /\ v[2] < w[2])

\* A main call that was made is behind the one the agent makes next, or is the
\* one it waits for.
Made(w) == \/ w = Side /\ sided
           \/ w # Side /\ (Before(w, next) \/ (w = next /\ waiting))

\* Every call was made, and is in one place only.
OnePlace ==
  /\ \A w \in Waiting \cup InHand \cup Answers : Made(w)
  /\ \A i, j \in DOMAIN queue : queue[i].who = queue[j].who => i = j
  /\ (Waiting \cap InHand) = {} /\ (Waiting \cap Answers) = {} /\ (InHand \cap Answers) = {}

Good == {a \in answers : a.ok}

\* The log counts the calls answered and about to be, and the turns consumed.
Counted ==
  /\ IsFiniteSet(answers)
  /\ Cardinality(Good) = IF step = "logged" THEN log.served - 1 ELSE log.served
  /\ mode = "replay" => /\ step \notin {"forwarding", "captured"}
                        /\ cassette = [i \in DOMAIN trace |-> trace[i].turn]
                        /\ IsFiniteSet(consumed) /\ Cardinality(consumed) = log.served

\* The run is judged on a log that has not shrunk, after the proxy was joined.
JudgedWhenJoined ==
  /\ run.served <= log.served
  /\ pc \in {"judge", "over"} => stop /\ step = "idle"
  /\ verdict = "pass" => pc = "over" /\ mode = "replay" /\ run.served = Len(trace)
-----------------------------------------------------------------------------
(* Types. *)

LEMMA TypedInit == Init => Typed
<1> SUFFICES ASSUME Init PROVE Typed
    OBVIOUS
<1> USE DEF Init, ProxyInit, AgentStarts, RunnerStarts
<1>1. agent \in Agents /\ driver \in Drivers
    BY AgentFlowAssumption
<1>2. agent.turns \in Seq(Nat \ {0}) /\ Deliveries \in Nat \ {0} /\ agent.turns[1] \in Nat \ {0}
    BY <1>1, PlansTyped
<1>3. TypeProxy(Who, Bodies)
    <2>1. log \in [served: Nat, divergence: BOOLEAN, upstreamError: BOOLEAN, lastTool: BOOLEAN]
        BY DEF NoLog
    <2>2. step \in Steps /\ activity \in Nat /\ inFlight \in {0, 1}
        BY DEF Steps
    <2>3. /\ cassette \in Seq([body: Bodies, tool: BOOLEAN])
          /\ captured \in Seq([body: Bodies, tool: BOOLEAN])
          /\ queue \in Seq([who: Who, kind: Kind, body: Bodies, tool: BOOLEAN])
        OBVIOUS
    <2>4. consumed \subseteq DOMAIN cassette /\ answers \subseteq [who: Who, ok: BOOLEAN]
        OBVIOUS
    <2> HIDE DEF Init, ProxyInit, AgentStarts, RunnerStarts
    <2> QED
        BY <2>1, <2>2, <2>3, <2>4 DEF TypeProxy, Init, ProxyInit
<1>4. next \in (1..Deliveries) \X (Nat \ {0}) /\ next[2] <= agent.turns[next[1]]
    BY <1>2
<1>5. reg \in [activity: Nat, inFlight: {0, 1}, served: Nat, base: Nat, before: Nat, settled: BOOLEAN]
    BY DEF NoReg
<1>6. run \in [served: Nat, divergence: BOOLEAN, upstreamError: BOOLEAN, timedOut: BOOLEAN]
    BY DEF NoRun
<1>7. handed \in 0..Deliveries /\ next \in (1..Deliveries) \X (Nat \ {0})
    BY <1>2, <1>4
<1>8. /\ pc = "start"
      /\ windows \in Seq(Nat \X Nat) /\ collected \in Seq([body: Bodies, tool: BOOLEAN])
      /\ Len(trace) \in Nat /\ DOMAIN trace = 1..Len(trace)
      /\ \A i \in DOMAIN trace : trace[i].turn \in [body: Bodies, tool: BOOLEAN]
    OBVIOUS
<1>9. TypeOK
    BY <1>1, <1>3, <1>4, <1>5, <1>6, <1>7, <1>8 DEF TypeOK, TypeAgent, TypeRunner
<1> QED
    BY <1>2, <1>9 DEF Typed, Done

\* A request to the proxy is one of its types.
LEMMA RequestsTyped ==
  ASSUME Typed
  PROVE  /\ \A d \in 1..Deliveries : \A k \in 1..agent.turns[d] :
              MainCall(<<d, k>>) \in Requests
         /\ agent.side # "none" =>
              SideCall \in Requests
<1>0. agent \in Agents
    BY DEF Typed, TypeOK, TypeAgent
<1>1. \A d \in 1..Deliveries : \A k \in 1..agent.turns[d] : <<d, k>> \in MainCalls
    BY <1>0, CallsTyped
<1>2. ASSUME NEW d \in 1..Deliveries, NEW k \in 1..agent.turns[d]
      PROVE  MainCall(<<d, k>>) \in Requests
    BY <1>1, <1>2 DEF MainCall, Who, Kind, Bodies, Requests
<1>3. ASSUME agent.side # "none"
      PROVE  SideCall \in Requests
    <2>1. agent.side \in AllSides /\ agent.at \in 1..Deliveries
        BY <1>0, <1>3, PlansTyped DEF Agents, Deliveries
    <2>2. agent.turns[agent.at] \in Nat \ {0}
        BY <1>0, <2>1, PlansTyped
    <2>3. <<agent.at, 1>> \in MainCalls
        BY <2>1, <2>2, <1>1
    <2>4. SideCall.body \in Bodies
        BY <2>3 DEF SideCall, Bodies, Who, Side
    <2>5. SideCall.kind \in Kind
        BY <2>1 DEF SideCall, AllSides, Kind
    <2> QED
        BY <2>4, <2>5 DEF SideCall, Who, Requests
<1> QED
    BY <1>2, <1>3

\* What is left of the types after a step of the proxy's thread: its own.
InFlightMarked == inFlight = IF step \in {"idle", "finishing"} THEN 0 ELSE 1
ServingNamed == step # "idle" => serving \in Requests

LEMMA RunnerKept ==
  ASSUME Typed, UNCHANGED <<setVars, agentVars, runnerVars>>,
         TypeProxy(Who, Bodies)', InFlightMarked', ServingNamed'
  PROVE  Typed'
<1>1. TypeOK'
    <2> USE DEF setVars, agentVars, runnerVars, handVars, resultVars, Deliveries
    <2>1. TypeAgent'
        BY DEF Typed, TypeOK, TypeAgent
    <2>2. TypeRunner'
        BY DEF Typed, TypeOK, TypeRunner
    <2> QED
        BY <2>1, <2>2 DEF TypeOK
<1> QED
    BY <1>1 DEF Typed, InFlightMarked, ServingNamed, Process, Deliveries, Done,
                setVars, agentVars, runnerVars, handVars, resultVars

\* The log of one more call served.
LEMMA LogGrows ==
  ASSUME NEW l \in LogType, NEW b \in BOOLEAN
  PROVE  [l EXCEPT !.served = @ + 1, !.lastTool = b] \in LogType
<1> DEFINE m == [l EXCEPT !.served = l.served + 1]
<1>1. m \in LogType
    BY DEF LogType
<1>2. [m EXCEPT !.lastTool = b] \in LogType
    <2> HIDE DEF m
    <2> QED
        BY <1>1 DEF LogType
<1> QED
    BY <1>2

LEMMA ProxyTyped ==
  ASSUME Typed, ProxyThread(TRUE)
  PROVE  Typed'
<1> USE DEF InFlightMarked, ServingNamed
<1>l. log \in LogType /\ cassette \in Seq(TurnType) /\ captured \in Seq(TurnType)
    BY DEF Typed, TypeOK, TypeProxy, LogType, TurnType
<1>0. /\ UNCHANGED <<setVars, agentVars, runnerVars>>
      /\ TypeProxy(Who, Bodies) /\ InFlightMarked /\ ServingNamed
    BY DEF ProxyThread, Typed, TypeOK
<1>1. CASE Accept
    <2>1. queue \in Seq(Requests) /\ queue # <<>>
        BY <1>0, <1>1 DEF Accept, TypeProxy, Requests
    <2>2. Head(queue) \in Requests /\ Tail(queue) \in Seq(Requests)
        BY <2>1, HeadTailProperties
    <2>3. /\ serving' \in Requests /\ queue' \in Seq(Requests) /\ step' = "started"
          /\ inFlight' = inFlight + 1 /\ inFlight = 0
          /\ UNCHANGED <<mode, cassette, activity, log, captured, consumed, answers, stop>>
        BY <2>2, <1>0, <1>1 DEF Accept, recordVars
    <2>4. TypeProxy(Who, Bodies)' /\ InFlightMarked' /\ ServingNamed'
        BY <2>3, <1>0 DEF TypeProxy, Steps, Requests
    <2> QED
        BY <1>0, <2>4, RunnerKept
<1>2. CASE ServeReplay
    <2>0. \A i \in DOMAIN cassette : cassette[i].tool \in BOOLEAN
        <3>1. \A i \in DOMAIN cassette : cassette[i] \in TurnType
            BY <1>l
        <3> QED
            BY <3>1 DEF TurnType
    <2>1. log' \in LogType
        <3>1. ASSUME NEW i \in DOMAIN cassette,
                     log' = [log EXCEPT !.served = @ + 1, !.lastTool = cassette[i].tool]
              PROVE  log' \in LogType
            BY <3>1, <2>0, <1>l, LogGrows
        <3>2. ASSUME log' = [log EXCEPT !.divergence = TRUE]
              PROVE  log' \in LogType
            BY <3>2, <1>l DEF LogType
        <3> QED
            BY <3>1, <3>2, <1>2 DEF ServeReplay, Matches
    <2>2. consumed' \subseteq DOMAIN cassette
        <3>1. ASSUME NEW i \in Matches(serving.body), consumed' = consumed \cup {i}
              PROVE  consumed' \subseteq DOMAIN cassette
            BY <3>1, <1>0 DEF TypeProxy, Matches
        <3>2. ASSUME consumed' = consumed
              PROVE  consumed' \subseteq DOMAIN cassette
            BY <3>2, <1>0 DEF TypeProxy
        <3> QED
            BY <3>1, <3>2, <1>2 DEF ServeReplay
    <2>3. step' \in {"logged", "failed"}
        BY <1>2 DEF ServeReplay
    <2>4. TypeProxy(Who, Bodies)' /\ InFlightMarked' /\ ServingNamed'
        BY <2>1, <2>2, <2>3, <1>0, <1>2 DEF ServeReplay, TypeProxy, LogType, TurnType, recordVars, counterVars, Steps
    <2> QED
        BY <1>0, <2>4, RunnerKept
<1>3. CASE Capture
    <2>1. serving \in Requests
        BY <1>0, <1>3 DEF Capture
    <2>2. Turn(serving) \in TurnType
        BY <2>1 DEF Turn, Requests, TurnType
    <2>3. captured' \in Seq(TurnType)
        BY <2>2, <1>l, <1>3 DEF Capture
    <2>4. TypeProxy(Who, Bodies)' /\ InFlightMarked' /\ ServingNamed'
        BY <2>3, <1>0, <1>3 DEF Capture, TypeProxy, LogType, TurnType, recordVars, counterVars, Steps
    <2> QED
        BY <1>0, <2>4, RunnerKept
<1>4. CASE Count
    <2>1. log' \in LogType
        <3>1. serving.tool \in BOOLEAN
            BY <1>0, <1>4 DEF Count, Requests
        <3>2. log' = [log EXCEPT !.served = @ + 1, !.lastTool = serving.tool]
            BY <1>4 DEF Count
        <3> QED
            BY <3>1, <3>2, <1>l, LogGrows
    <2>2. TypeProxy(Who, Bodies)' /\ InFlightMarked' /\ ServingNamed'
        BY <2>1, <1>0, <1>4 DEF Count, TypeProxy, LogType, TurnType, recordVars, counterVars, Steps
    <2> QED
        BY <1>0, <2>2, RunnerKept
<1>5. CASE UpstreamFails
    <2>1. log' \in LogType
        BY <1>l, <1>5 DEF UpstreamFails, LogType
    <2>2. TypeProxy(Who, Bodies)' /\ InFlightMarked' /\ ServingNamed'
        BY <2>1, <1>0, <1>5 DEF UpstreamFails, TypeProxy, LogType, TurnType, recordVars, counterVars, Steps
    <2> QED
        BY <1>0, <2>2, RunnerKept
<1>6. CASE Respond
    <2>1. [who |-> serving.who, ok |-> step = "logged"] \in [who: Who, ok: BOOLEAN]
        BY <1>0, <1>6 DEF Respond, Requests
    <2>2. answers' \subseteq [who: Who, ok: BOOLEAN]
        BY <2>1, <1>0, <1>6 DEF Respond, TypeProxy
    <2>3. TypeProxy(Who, Bodies)' /\ InFlightMarked' /\ ServingNamed'
        BY <2>2, <1>0, <1>6 DEF Respond, TypeProxy, LogType, TurnType, recordVars, counterVars, Steps
    <2> QED
        BY <1>0, <2>3, RunnerKept
<1>7. CASE Start \/ Refuse(TRUE) \/ Forward
    <2>1. TypeProxy(Who, Bodies)' /\ InFlightMarked' /\ ServingNamed'
        BY <1>0, <1>7 DEF Start, Refuse, Forward, TypeProxy, LogType, TurnType, recordVars, counterVars, Steps
    <2> QED
        BY <1>0, <2>1, RunnerKept
<1>8. CASE Unmark \/ Finish
    <2>1. TypeProxy(Who, Bodies)' /\ InFlightMarked' /\ ServingNamed'
        BY <1>0, <1>8 DEF Unmark, Finish, TypeProxy, LogType, TurnType, recordVars, counterVars, Steps
    <2> QED
        BY <1>0, <2>1, RunnerKept
<1> QED
    BY <1>1, <1>2, <1>3, <1>4, <1>5, <1>6, <1>7, <1>8 DEF ProxyThread

LEMMA AgentTyped ==
  ASSUME Typed, Agent
  PROVE  Typed'
<1>0. /\ TypeProxy(Who, Bodies) /\ TypeAgent /\ TypeRunner /\ agent \in Agents
      /\ UNCHANGED <<setVars, runnerVars, step, serving, inFlight>>
    BY DEF Agent, CallModel, CallOnTheSide, TakeAnswer, AgentExits, Connect, proxyVars, counterVars,
           Typed, TypeOK, TypeAgent
<1>1. TypeRunner'
    BY <1>0 DEF TypeRunner, runnerVars, handVars, resultVars, setVars, Deliveries
<1>2. ASSUME TypeProxy(Who, Bodies)', TypeAgent', waiting' => ~Done'
      PROVE  Typed'
    BY <1>0, <1>1, <1>2 DEF Typed, TypeOK, Process, Deliveries, runnerVars, handVars, setVars
<1>3. ASSUME NEW request \in Requests, Connect(request)
      PROVE  TypeProxy(Who, Bodies)'
    <2>1. queue \in Seq(Requests)
        BY <1>0 DEF TypeProxy, Requests
    <2>2. queue' \in Seq(Requests)
        BY <2>1, <1>3 DEF Connect
    <2> QED
        BY <2>2, <1>0, <1>3 DEF TypeProxy, Requests, Connect, recordVars, counterVars
<1>4. CASE CallModel
    <2>1. /\ next \in (1..Deliveries) \X (Nat \ {0}) /\ next[2] <= agent.turns[next[1]]
        BY <1>0, <1>4, PlansTyped DEF TypeAgent, CallModel, Done
    <2>2. MainCall(<<next[1], next[2]>>) \in Requests
        BY <2>1, <1>0, RequestsTyped, PlansTyped
    <2>3. next = <<next[1], next[2]>>
        BY <2>1
    <2>4. MainCall(next) \in Requests /\ Connect(MainCall(next))
        BY <2>2, <2>3, <1>4 DEF CallModel
    <2>5. TypeProxy(Who, Bodies)'
        BY <2>4, <1>3
    <2>6. TypeAgent' /\ ~Done'
        BY <1>0, <1>4 DEF CallModel, TypeAgent, Done, Deliveries, setVars
    <2> QED
        BY <2>5, <2>6, <1>2
<1>5. CASE CallOnTheSide
    <2>1. SideCall \in Requests /\ Connect(SideCall)
        BY <1>5, RequestsTyped DEF CallOnTheSide
    <2>2. TypeProxy(Who, Bodies)'
        BY <2>1, <1>3
    <2>3. TypeAgent' /\ (waiting' => ~Done')
        BY <1>0, <1>5 DEF CallOnTheSide, TypeAgent, Done, Deliveries, setVars, Typed
    <2> QED
        BY <2>2, <2>3, <1>2
<1>6. CASE TakeAnswer
    <2>1. TypeProxy(Who, Bodies)'
        BY <1>0, <1>6 DEF TakeAnswer, TypeProxy, proxyVars, recordVars, counterVars
    <2>2. /\ next \in (1..Deliveries) \X (Nat \ {0}) /\ next[2] <= agent.turns[next[1]]
        BY <1>0, <1>6, PlansTyped DEF TypeAgent, TakeAnswer, Done, Typed
    <2>3. \A d \in 1..Deliveries : agent.turns[d] \in Nat \ {0}
        BY <1>0, PlansTyped
    <2>4. Deliveries \in Nat \ {0}
        BY <1>0, PlansTyped
    <2>5. \/ next' = <<Deliveries + 1, 1>>
          \/ next[2] < agent.turns[next[1]] /\ next' = <<next[1], next[2] + 1>>
          \/ next' = <<next[1] + 1, 1>>
        BY <1>6 DEF TakeAnswer
    <2>6. \/ next' = <<Deliveries + 1, 1>>
          \/ next' \in (1..Deliveries) \X (Nat \ {0}) /\ next'[2] <= agent.turns[next'[1]]
        <3>1. CASE next[2] < agent.turns[next[1]] /\ next' = <<next[1], next[2] + 1>>
            BY <3>1, <2>2, <2>3
        <3>2. CASE next' = <<next[1] + 1, 1>>
            <4>1. next[1] + 1 \in 1..Deliveries \/ next[1] + 1 = Deliveries + 1
                BY <2>2, <2>4
            <4>2. CASE next[1] + 1 = Deliveries + 1
                BY <4>2, <3>2
            <4>3. CASE next[1] + 1 \in 1..Deliveries
                BY <4>3, <3>2, <2>3
            <4> QED
                BY <4>1, <4>2, <4>3
        <3> QED
            BY <3>1, <3>2, <2>5
    <2>7. TypeAgent'
        BY <2>6, <1>0, <1>6 DEF TakeAnswer, TypeAgent, Deliveries, setVars
    <2>8. ~waiting'
        BY <1>6 DEF TakeAnswer
    <2> QED
        BY <2>1, <2>7, <2>8, <1>2
<1>7. CASE AgentExits
    <2>1. TypeProxy(Who, Bodies)'
        BY <1>0, <1>7 DEF AgentExits, TypeProxy, proxyVars, recordVars, counterVars
    <2>2. TypeAgent' /\ (waiting' => ~Done')
        BY <1>0, <1>7 DEF AgentExits, TypeAgent, Done, Deliveries, setVars, Typed
    <2> QED
        BY <2>1, <2>2, <1>2
<1> QED
    BY <1>4, <1>5, <1>6, <1>7 DEF Agent

\* What is left of the types after a step of the runner: its own.
LEMMA OthersKept ==
  ASSUME Typed, UNCHANGED <<recordVars, queue, step, serving, counterVars, log, captured, consumed, answers>>,
         UNCHANGED <<setVars, next, waiting, sided>>,
         stop' \in BOOLEAN, alive' \in BOOLEAN, mishap' \in BOOLEAN,
         TypeRunner', pc' = "write" \/ (pc' = "start" /\ ~Process) => handed' < Deliveries
  PROVE  Typed'
<1>1. TypeProxy(Who, Bodies)'
    BY DEF Typed, TypeOK, TypeProxy, recordVars, counterVars
<1>2. TypeAgent'
    BY DEF Typed, TypeOK, TypeAgent, setVars, Deliveries
<1> QED
    BY <1>1, <1>2 DEF Typed, TypeOK, setVars, recordVars, counterVars, Process, Deliveries, Done

RegType == [activity: Nat, inFlight: {0, 1}, served: Nat, base: Nat, before: Nat, settled: BOOLEAN]
RunType == [served: Nat, divergence: BOOLEAN, upstreamError: BOOLEAN, timedOut: BOOLEAN]

\* What the runner's readings stay of their type under.
LEMMA RegEdits ==
  ASSUME NEW r \in RegType, NEW n \in Nat, NEW f \in {0, 1}, NEW b \in BOOLEAN
  PROVE  /\ [r EXCEPT !.activity = n] \in RegType
         /\ [r EXCEPT !.inFlight = f] \in RegType
         /\ [r EXCEPT !.served = n] \in RegType
         /\ [r EXCEPT !.base = n] \in RegType
         /\ [r EXCEPT !.before = n] \in RegType
         /\ [r EXCEPT !.settled = b] \in RegType
BY DEF RegType

LEMMA RegReset ==
  ASSUME reg \in RegType, NEW n \in Nat, NEW m \in Nat, NEW b \in BOOLEAN
  PROVE  /\ NoReg \in RegType /\ Forget \in RegType
         /\ [NoReg EXCEPT !.base = n, !.before = m] \in RegType
         /\ [Forget EXCEPT !.served = n, !.settled = b] \in RegType
         /\ [Forget EXCEPT !.base = n, !.settled = b] \in RegType
<1>1. NoReg \in RegType
    BY DEF NoReg, RegType
<1>2. [NoReg EXCEPT !.base = n] \in RegType
    BY <1>1, RegEdits
<1>3. [[NoReg EXCEPT !.base = n] EXCEPT !.before = m] \in RegType
    BY <1>2, RegEdits
<1>4. [reg EXCEPT !.activity = 0] \in RegType
    BY RegEdits
<1>5. [[reg EXCEPT !.activity = 0] EXCEPT !.inFlight = 0] \in RegType
    BY <1>4, RegEdits
<1>6. Forget \in RegType
    BY <1>5, RegEdits DEF Forget
<1>7. [Forget EXCEPT !.served = n] \in RegType /\ [Forget EXCEPT !.base = n] \in RegType
    BY <1>6, RegEdits
<1>8. /\ [[Forget EXCEPT !.served = n] EXCEPT !.settled = b] \in RegType
      /\ [[Forget EXCEPT !.base = n] EXCEPT !.settled = b] \in RegType
    BY <1>7, RegEdits
<1> QED
    BY <1>1, <1>3, <1>6, <1>8

\* A step of the runner that only reads the proxy and moves on.
LEMMA MovedOn ==
  ASSUME Typed, UNCHANGED proxyVars, KeepAgent, UNCHANGED handVars, KeepResults,
         reg' \in RegType, expired' \in BOOLEAN,
         pc' \in Waits \cup {"settled", "driven", "collect", "drop", "judge", "over"}
  PROVE  Typed'
<1>1. TypeRunner'
    BY DEF Typed, TypeOK, TypeRunner, KeepAgent, KeepResults, handVars, resultVars, setVars, agentVars,
           Deliveries, RegType
<1>2. pc' \notin {"write", "start"}
    BY DEF Waits
<1>3. stop' \in BOOLEAN /\ alive' \in BOOLEAN /\ mishap' \in BOOLEAN
    BY DEF Typed, TypeOK, TypeProxy, TypeAgent, proxyVars, KeepAgent, setVars, agentVars
<1> QED
    BY <1>1, <1>2, <1>3, OthersKept DEF proxyVars, KeepAgent, setVars, agentVars

LEMMA SettlingTyped ==
  ASSUME Typed, Settling
  PROVE  Typed'
<1>1. /\ reg \in RegType /\ log \in LogType /\ activity \in Nat /\ inFlight \in {0, 1}
      /\ log.served \in Nat /\ reg.served \in Nat
    BY DEF Typed, TypeOK, TypeProxy, TypeRunner, RegType, LogType
<1>2. /\ Forget \in RegType
      /\ \A n \in Nat, b \in BOOLEAN : [Forget EXCEPT !.served = n, !.settled = b] \in RegType
    BY <1>1, RegReset
<1>3. UNCHANGED proxyVars /\ KeepAgent /\ UNCHANGED handVars /\ KeepResults
    BY DEF Settling, ReadActivity, ReadInFlight, ReadLog, ReadServed, ReadActivityAgain,
           ReadInFlightAgain, StillQuiet
<1>4. ASSUME NEW n \in Nat, PollAgain(n)
      PROVE  reg' \in RegType /\ expired' \in BOOLEAN /\ pc' \in {"settled", "activity"}
    BY <1>4, <1>1, <1>2 DEF PollAgain, Settle, Goto, Typed, TypeOK, TypeRunner
<1>5. ASSUME NEW n \in Nat, NEW b \in BOOLEAN, Settle(b, n)
      PROVE  reg' \in RegType /\ expired' \in BOOLEAN /\ pc' = "settled"
    BY <1>5, <1>2 DEF Settle, Goto
<1>e. expired \in BOOLEAN
    BY DEF Typed, TypeOK, TypeRunner
<1>6. CASE ReadActivity
    <2>1. reg' \in RegType
        BY <1>1, <1>6, RegEdits DEF ReadActivity
    <2> QED
        BY <2>1, <1>3, <1>6, <1>e, MovedOn DEF ReadActivity, Waits
<1>7. CASE ReadInFlight
    <2>1. reg' \in RegType
        BY <1>1, <1>7, RegEdits DEF ReadInFlight
    <2> QED
        BY <2>1, <1>3, <1>7, <1>e, MovedOn DEF ReadInFlight, Waits
<1>8. CASE ReadLog
    <2>1. CASE Settle(TRUE, log.served) \/ PollAgain(log.served)
        BY <2>1, <1>1, <1>3, <1>4, <1>5, MovedOn DEF Waits
    <2>2. CASE reg' = [reg EXCEPT !.served = log.served] /\ pc' = "quiet" /\ UNCHANGED expired
        <3>1. reg' \in RegType
            BY <1>1, <2>2, RegEdits
        <3> QED
            BY <3>1, <2>2, <1>3, <1>e, MovedOn DEF Waits
    <2> QED
        BY <2>1, <2>2, <1>8 DEF ReadLog
<1>9. CASE ReadServed \/ ReadActivityAgain \/ ReadInFlightAgain
    <2>1. CASE PollAgain(reg.served) \/ Settle(TRUE, reg.served)
        BY <2>1, <1>1, <1>3, <1>4, <1>5, MovedOn DEF Waits
    <2>2. CASE pc' \in {"activity2", "inFlight2"} /\ UNCHANGED <<expired, reg>>
        BY <2>2, <1>1, <1>3, <1>e, MovedOn DEF Waits
    <2> QED
        BY <2>1, <2>2, <1>9 DEF ReadServed, ReadActivityAgain, ReadInFlightAgain, StillQuiet
<1> QED
    BY <1>6, <1>7, <1>8, <1>9 DEF Settling

\* What Fail and Unreachable leave of the types.
LEMMA GivenUp ==
  ASSUME Typed, Fail \/ Unreachable, UNCHANGED proxyVars, handed' = handed, eof' \in BOOLEAN,
         reg' \in RegType, windows' \in Seq(Nat \X Nat)
  PROVE  Typed'
<1>1. TypeRunner'
    BY DEF Typed, TypeOK, TypeRunner, Fail, Unreachable, Goto, setVars, Deliveries, RegType
<1>2. pc' = "drop" /\ alive' \in BOOLEAN /\ mishap' \in BOOLEAN
    BY DEF Fail, Unreachable, Goto, Typed, TypeOK, TypeAgent
<1>3. stop' \in BOOLEAN
    BY DEF Typed, TypeOK, TypeProxy, proxyVars
<1> QED
    BY <1>1, <1>2, <1>3, OthersKept DEF proxyVars, Fail, Unreachable, setVars

LEMMA DrivingTyped ==
  ASSUME Typed, Driving
  PROVE  Typed'
<1>1. /\ reg \in RegType /\ run \in RunType /\ log \in LogType
      /\ log.served \in Nat /\ reg.served \in Nat /\ reg.base \in Nat /\ reg.before \in Nat
      /\ windows \in Seq(Nat \X Nat) /\ eof \in BOOLEAN /\ reg.settled \in BOOLEAN
      /\ handed \in 0..Deliveries /\ expired \in BOOLEAN /\ run.timedOut \in BOOLEAN
      /\ log.divergence \in BOOLEAN /\ log.upstreamError \in BOOLEAN
      /\ alive \in BOOLEAN /\ mishap \in BOOLEAN /\ stop \in BOOLEAN /\ Deliveries \in Nat \ {0}
    BY PlansTyped DEF Typed, TypeOK, TypeProxy, TypeRunner, TypeAgent, RegType, LogType, RunType
<1>2. ASSUME NEW w \in Nat \X Nat
      PROVE  Append(windows, w) \in Seq(Nat \X Nat)
    BY <1>1, <1>2
<1>3. ASSUME NEW b \in BOOLEAN, Snapshot(b)
      PROVE  run' \in RunType
    BY <1>1, <1>3 DEF Snapshot, RunType
<1>4. CASE Spawn
    <2>1. CASE Fail /\ UNCHANGED <<handVars, reg, windows>>
        BY <2>1, <1>1, <1>4, GivenUp DEF Spawn, handVars
    <2>2. CASE ~(Fail /\ UNCHANGED <<handVars, reg, windows>>)
        <3>1. /\ handed' = 1 /\ reg' \in RegType /\ expired' = FALSE /\ pc' \in {"activity", "exit"}
              /\ KeepAgent /\ KeepResults /\ UNCHANGED eof /\ UNCHANGED proxyVars
            BY <2>2, <1>1, <1>4, RegReset DEF Spawn, Goto
        <3>2. handed' \in 0..Deliveries'
            BY <3>1, <1>1 DEF KeepAgent, setVars, Deliveries
        <3>3. UNCHANGED <<windows, run, collected, owed, trace, verdict>>
            BY <3>1 DEF KeepResults, resultVars
        <3>4. TypeRunner'
            BY <3>1, <3>2, <3>3 DEF Typed, TypeOK, TypeRunner, RegType, Waits
        <3> QED
            BY <3>1, <3>4, <1>1, OthersKept DEF proxyVars, KeepAgent, setVars, agentVars
    <2> QED
        BY <2>1, <2>2
<1>5. CASE Settling
    BY <1>5, SettlingTyped
<1>6. CASE Delivered
    <2>1. Window \in Nat \X Nat
        BY <1>1 DEF Window
    <2>2. windows' \in Seq(Nat \X Nat) /\ handed' = handed /\ UNCHANGED proxyVars
        BY <2>1, <1>2, <1>6 DEF Delivered
    <2>3. reg' \in RegType
        BY <1>1, <1>6, RegReset DEF Delivered
    <2>4. CASE Fail /\ UNCHANGED eof
        BY <2>2, <2>3, <2>4, <1>1, GivenUp
    <2>5. CASE /\ Goto("write") /\ KeepAgent /\ UNCHANGED <<run, eof, collected, owed, trace, verdict>>
               /\ handed < Deliveries
        <3>1. TypeRunner'
            BY <2>2, <2>3, <2>5, <1>1 DEF Typed, TypeOK, TypeRunner, Goto, KeepAgent, setVars, Deliveries, RegType
        <3> QED
            BY <3>1, <2>2, <2>5, <1>1, OthersKept
               DEF proxyVars, Goto, KeepAgent, setVars, agentVars
    <2>6. CASE /\ run' = [run EXCEPT !.timedOut = ~reg.settled] /\ eof' = TRUE
               /\ Goto("exit") /\ KeepAgent /\ UNCHANGED <<collected, owed, trace, verdict>>
        <3>1. run' \in RunType
            BY <2>6, <1>1 DEF RunType
        <3>2. TypeRunner'
            BY <3>1, <2>2, <2>3, <2>6, <1>1
               DEF Typed, TypeOK, TypeRunner, Goto, KeepAgent, setVars, Deliveries, RegType, RunType, Waits
        <3> QED
            BY <3>2, <2>2, <2>6, <1>1, OthersKept
               DEF proxyVars, Goto, KeepAgent, setVars, agentVars
    <2> QED
        BY <2>4, <2>5, <2>6, <1>6 DEF Delivered
<1>7. CASE Write
    <2>0. pc = "write" /\ handed < Deliveries /\ UNCHANGED proxyVars
        BY <1>7 DEF Write, Typed
    <2>1. CASE Fail /\ UNCHANGED <<handVars, reg, windows>>
        BY <2>0, <2>1, <1>1, GivenUp DEF handVars
    <2>2. CASE /\ handed' = handed + 1 /\ reg' = [reg EXCEPT !.before = log.served]
               /\ Goto("activity") /\ KeepAgent /\ KeepResults /\ UNCHANGED eof
        <3>1. reg' \in RegType /\ handed' \in 0..Deliveries
            <4>1. reg' \in RegType
                BY <2>2, <1>1, RegEdits
            <4>2. handed' \in 0..Deliveries
                BY <2>0, <2>2, <1>1
            <4> QED
                BY <4>1, <4>2
        <3>2. TypeRunner'
            BY <3>1, <2>2 DEF Typed, TypeOK, TypeRunner, Goto, KeepAgent, KeepResults, resultVars, setVars,
                              Deliveries, RegType, Waits
        <3> QED
            BY <3>2, <2>0, <2>2, <1>1, OthersKept DEF proxyVars, Goto, KeepAgent, setVars, agentVars
    <2>3. CASE eof' = TRUE /\ Goto("exit") /\ KeepAgent /\ KeepResults /\ UNCHANGED <<handed, reg>>
        <3>1. TypeRunner'
            BY <2>3, <1>1 DEF Typed, TypeOK, TypeRunner, Goto, KeepAgent, KeepResults, resultVars, setVars,
                              Deliveries, RegType, Waits
        <3> QED
            BY <3>1, <2>0, <2>3, <1>1, OthersKept DEF proxyVars, Goto, KeepAgent, setVars, agentVars
    <2> QED
        BY <2>1, <2>2, <2>3, <1>7 DEF Write
<1>8. CASE Exit
    <2>1. run' \in RunType
        BY <1>1, <1>3, <1>8 DEF Exit
    <2>2. TypeRunner'
        BY <2>1, <1>1, <1>8 DEF Exit, Typed, TypeOK, TypeRunner, Goto, handVars, setVars, Deliveries, RegType, RunType
    <2>3. mishap' \in BOOLEAN /\ alive' \in BOOLEAN /\ stop' \in BOOLEAN
        BY <1>1, <1>8 DEF Exit, proxyVars
    <2> QED
        BY <2>2, <2>3, <1>8, OthersKept DEF Exit, Goto, proxyVars, setVars
<1>9. CASE Post
    <2>1. handed < Deliveries /\ handed' = handed + 1 /\ handed' \in 0..Deliveries
        BY <1>1, <1>9 DEF Post, Typed
    <2>2. reg' \in RegType
        BY <1>1, <1>9, RegEdits DEF Post
    <2>3. TypeRunner'
        BY <2>1, <2>2, <1>1, <1>9 DEF Post, Typed, TypeOK, TypeRunner, Goto, KeepAgent, KeepResults, resultVars, setVars,
                                     Deliveries, RegType, Waits
    <2> QED
        BY <2>3, <1>1, <1>9, OthersKept DEF Post, Goto, proxyVars, KeepAgent, setVars, agentVars
<1>10. CASE Posted
    <2>1. CASE Unreachable /\ UNCHANGED <<reg, windows>>
        BY <2>1, <1>1, <1>10, GivenUp DEF Posted, handVars
    <2>2. CASE /\ Snapshot(expired)
               /\ windows' = Append(windows, <<reg.before, log.served>>)
               /\ Goto(IF log.divergence \/ expired \/ handed = Deliveries THEN "driven" ELSE "start")
               /\ KeepAgent /\ UNCHANGED <<reg, collected, owed, trace, verdict>>
        <3>1. run' \in RunType /\ windows' \in Seq(Nat \X Nat)
            BY <2>2, <1>1, <1>2, <1>3
        <3>2. UNCHANGED proxyVars /\ UNCHANGED handVars
            BY <1>10 DEF Posted
        <3>3. pc' \in {"driven", "start"} /\ expired' = FALSE /\ (pc' = "start" => handed' < Deliveries)
            BY <2>2, <3>2, <1>1 DEF Goto, handVars
        <3>4. TypeRunner'
            BY <2>2, <3>1, <3>2, <3>3, <1>1 DEF Typed, TypeOK, TypeRunner, handVars, KeepAgent, setVars,
                                               Deliveries, RegType, RunType
        <3> QED
            BY <2>2, <3>2, <3>3, <3>4, <1>1, OthersKept DEF proxyVars, KeepAgent, setVars, agentVars
    <2> QED
        BY <2>1, <2>2, <1>10 DEF Posted
<1> QED
    BY <1>4, <1>5, <1>6, <1>7, <1>8, <1>9, <1>10 DEF Driving

LEMMA JudgingTyped ==
  ASSUME Typed, Judging
  PROVE  Typed'
<1>1. /\ reg \in RegType /\ collected \in Seq(TurnType) /\ captured \in Seq(TurnType)
      /\ expired \in BOOLEAN /\ alive \in BOOLEAN /\ mishap \in BOOLEAN /\ stop \in BOOLEAN
      /\ activity \in Nat /\ agent \in Agents /\ Deliveries \in Nat \ {0}
      /\ answers \subseteq [who: Who, ok: BOOLEAN]
    BY PlansTyped DEF Typed, TypeOK, TypeProxy, TypeRunner, TypeAgent, RegType, TurnType
<1>2. CASE Driven
    <2>1. TypeRunner'
        BY <1>2 DEF Driven, Goto, Typed, TypeOK, TypeRunner, KeepResults, resultVars, handVars,
                    KeepAgent, setVars, Deliveries, RegType, Waits
    <2>2. pc' \in {"drop", "calm"}
        BY <1>2 DEF Driven, Goto
    <2> QED
        BY <2>1, <2>2, <1>1, <1>2, OthersKept DEF Driven, proxyVars, KeepAgent, setVars, agentVars
<1>3. CASE Calm
    <2>1. reg' \in RegType
        BY <1>1, <1>3, RegEdits DEF Calm
    <2>2. owed' \subseteq Who
        BY <1>1, <1>3 DEF Calm, Typed, Requests
    <2>3. TypeRunner'
        BY <2>1, <2>2, <1>3 DEF Calm, Typed, TypeOK, TypeRunner, handVars, KeepAgent, setVars, Deliveries, RegType, Waits
    <2> QED
        BY <2>3, <1>1, <1>3, OthersKept DEF Calm, proxyVars, KeepAgent, setVars, agentVars
<1>4. CASE CalmActivity \/ CalmInFlight
    <2>1. reg' \in RegType
        BY <1>1, <1>4, RegEdits DEF CalmActivity, CalmInFlight, CalmOr, Quiet
    <2>2. expired' \in BOOLEAN /\ pc' \in {"calm", "calmInFlight", "collect"}
        BY <1>1, <1>4 DEF CalmActivity, CalmInFlight, CalmOr, Quiet, Goto
    <2> QED
        BY <2>1, <2>2, <1>4, MovedOn DEF CalmActivity, CalmInFlight, Waits
<1>5. CASE Collect
    <2>1. TypeRunner'
        BY <1>1, <1>5 DEF Collect, Goto, Typed, TypeOK, TypeRunner, handVars, KeepAgent, setVars, Deliveries, RegType, TurnType
    <2> QED
        BY <2>1, <1>1, <1>5, OthersKept DEF Collect, Goto, proxyVars, KeepAgent, setVars, agentVars
<1>6. CASE Drop
    <2>1. TypeRunner' /\ pc' = "drop"
        BY <1>6 DEF Drop, Typed, TypeOK, TypeRunner, runnerVars, handVars, resultVars, KeepAgent, setVars, Deliveries
    <2> QED
        BY <2>1, <1>1, <1>6, OthersKept DEF Drop, KeepAgent, setVars, agentVars
<1>7. CASE Join
    BY <1>1, <1>7, MovedOn DEF Join, Goto
<1>8. CASE JudgeRecord
    <2>1. Len(trace)' \in Nat /\ DOMAIN trace' = 1..Len(trace') /\ \A i \in DOMAIN trace' : trace'[i].turn \in TurnType
        <3>1. CASE trace' = Stamped
            <4> DEFINE n == Len(collected)
            <4>1. n \in Nat /\ DOMAIN collected = 1..n /\ \A i \in 1..n : collected[i] \in TurnType
                BY <1>1
            <4>2. trace' = [i \in 1..n |-> [turn |-> collected[i],
                                           delivery |-> IF Conversation THEN DeliveryOf(i) ELSE 0]]
                BY <3>1, <4>1 DEF Stamped
            <4>3. DOMAIN trace' = 1..n /\ \A i \in 1..n : trace'[i].turn = collected[i]
                BY <4>2
            <4>4. Len(trace') = n
                BY <4>1, <4>2
            <4> QED
                BY <4>1, <4>3, <4>4
        <3>2. CASE UNCHANGED trace
            BY <3>2 DEF Typed, TypeOK, TypeRunner, TurnType
        <3> QED
            BY <3>1, <3>2, <1>8 DEF JudgeRecord
    <2>2. verdict' \in {"minted", "error"} /\ pc' = "over" /\ expired' = FALSE
        BY <1>8 DEF JudgeRecord, Goto
    <2>3. TypeRunner'
        BY <2>1, <2>2, <1>8 DEF JudgeRecord, Typed, TypeOK, TypeRunner, handVars, KeepAgent, setVars, Deliveries, RegType, TurnType
    <2> QED
        BY <2>2, <2>3, <1>1, <1>8, OthersKept DEF JudgeRecord, proxyVars, KeepAgent, setVars, agentVars
<1>9. CASE JudgeReplay
    <2>1. verdict' \in {"pass", "error"} /\ pc' = "over" /\ expired' = FALSE
        BY <1>9 DEF JudgeReplay, Goto
    <2>2. TypeRunner'
        BY <2>1, <1>9 DEF JudgeReplay, Typed, TypeOK, TypeRunner, handVars, KeepAgent, setVars, Deliveries, RegType
    <2> QED
        BY <2>1, <2>2, <1>1, <1>9, OthersKept DEF JudgeReplay, proxyVars, KeepAgent, setVars, agentVars
<1>10. CASE Replay
    <2>1. agent' \in Agents /\ agent'.turns = agent.turns
        <3>1. [agent EXCEPT !.edited = TRUE] \in Agents /\ [agent EXCEPT !.edited = TRUE].turns = agent.turns
            BY <1>1 DEF Agents
        <3>2. \A a \in Disturbed : a \in Agents /\ a.turns = agent.turns
            BY DEF Disturbed
        <3> QED
            BY <1>1, <3>1, <3>2, <1>10 DEF Replay
    <2>2. Deliveries' = Deliveries
        BY <2>1 DEF Deliveries
    <2>3. cassette' \in Seq(TurnType)
        <3>1. /\ cassette' = [i \in 1..Len(trace) |-> trace[i].turn] /\ Len(trace) \in Nat
              /\ \A i \in 1..Len(trace) : trace[i].turn \in TurnType
            BY <1>10 DEF Replay, Rebind, Typed, TypeOK, TypeRunner, TurnType
        <3> QED
            BY <3>1
    <2>4. TypeProxy(Who, Bodies)'
        <3>1. /\ mode' = "replay" /\ queue' = <<>> /\ step' = "idle" /\ serving' = NoRequest
              /\ activity' = 0 /\ inFlight' = 0 /\ captured' = <<>> /\ consumed' = {}
              /\ answers' = {} /\ stop' = FALSE
            BY <1>10 DEF Replay, Rebind
        <3>2. log' \in LogType
            BY <1>10 DEF Replay, Rebind, NoLog, LogType
        <3>3. /\ queue' \in Seq(Requests) /\ captured' \in Seq(TurnType)
              /\ consumed' \subseteq DOMAIN cassette' /\ answers' \subseteq [who: Who, ok: BOOLEAN]
              /\ step' \in Steps /\ activity' \in Nat /\ inFlight' \in {0, 1} /\ stop' \in BOOLEAN
            <4>1. queue' \in Seq(Requests) /\ captured' \in Seq(TurnType)
                BY <3>1
            <4>2. consumed' \subseteq DOMAIN cassette' /\ answers' \subseteq [who: Who, ok: BOOLEAN]
                BY <3>1
            <4>3. step' \in Steps /\ activity' \in Nat /\ inFlight' \in {0, 1} /\ stop' \in BOOLEAN
                BY <3>1 DEF Steps
            <4> QED
                BY <4>1, <4>2, <4>3
        <3>4. mode' \in {"record", "replay"} /\ serving' \in Requests \cup {NoRequest}
            BY <3>1
        <3> QED
            BY <3>2, <3>3, <3>4, <2>3 DEF TypeProxy, LogType, TurnType, Requests
    <2>5. TypeAgent'
        <3>1. driver' \in Drivers
            BY <1>10 DEF Replay, Typed, TypeOK, TypeAgent, Drivers
        <3>2. next' = <<1, 1>> /\ 1 \in 1..Deliveries /\ agent.turns[1] \in Nat \ {0}
            BY <1>1, <1>10, PlansTyped DEF Replay
        <3>3. next' \in (1..Deliveries') \X (Nat \ {0}) /\ next'[2] <= agent'.turns[next'[1]]
            BY <3>2, <2>1, <2>2
        <3>4. recorded' \in Agents \cup {NoAgent}
            BY <1>1, <1>10 DEF Replay
        <3>5. alive' = TRUE /\ mishap' = FALSE /\ waiting' = FALSE /\ sided' = FALSE
            BY <1>10 DEF Replay
        <3> QED
            BY <3>1, <3>3, <3>4, <3>5, <2>1 DEF TypeAgent
    <2>6. TypeRunner'
        <3>1. /\ handed' = 0 /\ eof' = FALSE /\ pc' = "start" /\ expired' = FALSE
              /\ windows' = <<>> /\ collected' = <<>> /\ owed' = {} /\ verdict' = "none" /\ UNCHANGED trace
            BY <1>10 DEF Replay
        <3>2. reg' \in RegType /\ run' \in RunType
            BY <1>10 DEF Replay, NoReg, NoRun, RegType, RunType
        <3>3. handed' \in 0..Deliveries'
            BY <3>1, <2>2, <1>1
        <3>4. /\ windows' \in Seq(Nat \X Nat) /\ collected' \in Seq(TurnType) /\ owed' \subseteq Who
            BY <3>1
        <3>5. /\ Len(trace') \in Nat /\ DOMAIN trace' = 1..Len(trace')
              /\ \A i \in DOMAIN trace' : trace'[i].turn \in TurnType
            BY <3>1 DEF Typed, TypeOK, TypeRunner, TurnType
        <3>6. pc' = "start" /\ eof' = FALSE /\ expired' = FALSE /\ verdict' = "none"
            BY <3>1
        <3> QED
            BY <3>2, <3>3, <3>4, <3>5, <3>6 DEF TypeRunner, RegType, RunType, TurnType
    <2>7. /\ inFlight' = 0 /\ step' = "idle" /\ waiting' = FALSE
          /\ handed' < Deliveries'
        BY <1>1, <1>10, <2>2 DEF Replay, Rebind
    <2> QED
        BY <2>4, <2>5, <2>6, <2>7 DEF Typed, TypeOK
<1> QED
    BY <1>2, <1>3, <1>4, <1>5, <1>6, <1>7, <1>8, <1>9, <1>10 DEF Judging

LEMMA TypedStep == Typed /\ [Next]_vars => Typed'
<1> SUFFICES ASSUME Typed, [Next]_vars PROVE Typed'
    OBVIOUS
<1>1. CASE Agent
    BY <1>1, AgentTyped
<1>2. CASE ProxyThread(TRUE)
    BY <1>2, ProxyTyped
<1>3. CASE Driving
    BY <1>3, DrivingTyped
<1>4. CASE Judging
    BY <1>4, JudgingTyped
<1>5. CASE Expire
    <2>1. TypeRunner'
        BY <1>5 DEF Expire, Typed, TypeOK, TypeRunner, handVars, resultVars, setVars, Deliveries
    <2>2. pc' \in Waits /\ pc' = pc
        BY <1>5 DEF Expire
    <2>3. alive' \in BOOLEAN /\ mishap' \in BOOLEAN /\ stop' \in BOOLEAN
        BY <1>5 DEF Expire, Typed, TypeOK, TypeProxy, TypeAgent, proxyVars
    <2> QED
        BY <2>1, <2>2, <2>3, <1>5, OthersKept DEF Expire, proxyVars, setVars, Waits
<1>6. CASE UNCHANGED vars
    <2>1. UNCHANGED <<setVars, agentVars, runnerVars>> /\ TypeProxy(Who, Bodies)'
        BY <1>6 DEF vars, proxyVars, recordVars, counterVars, Typed, TypeOK, TypeProxy
    <2>2. InFlightMarked' /\ ServingNamed'
        BY <1>6 DEF vars, proxyVars, recordVars, counterVars, Typed, InFlightMarked, ServingNamed
    <2> QED
        BY <2>1, <2>2, RunnerKept
<1> QED
    BY <1>1, <1>2, <1>3, <1>4, <1>5, <1>6 DEF Next, Over

\* TypeOK: every variable of the runner, the agent and the proxy has its type, in
\* every flow, driven in any of the four ways.
THEOREM TypeCorrect == Spec => []TypeOK
<1>1. Typed => TypeOK
    BY DEF Typed
<1> QED
    BY <1>1, TypedInit, TypedStep, PTL DEF Spec
-----------------------------------------------------------------------------
(* The two quiet windows. *)

LEMMA ReadingsStep ==
  ASSUME Typed, ReadingsHold, [Next]_vars
  PROVE  ReadingsHold'
<1>1. /\ reg \in RegType /\ log \in LogType /\ reg.activity \in Nat /\ activity \in Nat
      /\ inFlight = IF step \in {"idle", "finishing"} THEN 0 ELSE 1
      /\ step \in Steps
    BY DEF Typed, TypeOK, TypeProxy, TypeRunner, RegType, LogType
<1>2. CASE UNCHANGED <<pc, reg, activity, step, log>>
    BY <1>2 DEF ReadingsHold, Polling
<1>3. CASE pc' \notin Polling
    BY <1>3 DEF ReadingsHold, Polling
<1>4. CASE Agent
    BY <1>4, <1>2 DEF Agent, CallModel, CallOnTheSide, TakeAnswer, AgentExits, Connect, proxyVars,
                      counterVars, runnerVars
<1>5. CASE ProxyThread(TRUE)
    <2>1. UNCHANGED <<pc, reg>>
        BY <1>5 DEF ProxyThread, runnerVars
    <2>2. CASE Start \/ Finish
        <3>1. activity' = activity + 1 /\ UNCHANGED log
            BY <2>2 DEF Start, Finish
        <3> QED
            BY <3>1, <2>1, <1>1 DEF ReadingsHold, Polling
    <2>3. CASE Accept \/ Unmark
        <3>1. UNCHANGED <<activity, log>>
            BY <2>3 DEF Accept, Unmark, recordVars
        <3>2. step \in {"idle", "answered"} /\ (step = "idle" => step' = "started")
            BY <2>3 DEF Accept, Unmark
        <3> QED
            BY <3>1, <3>2, <2>1 DEF ReadingsHold, Polling
    <2>4. CASE \/ Refuse(TRUE) \/ ServeReplay \/ Forward \/ Capture \/ Count
               \/ UpstreamFails \/ Respond
        <3>1. /\ UNCHANGED activity
              /\ step \notin {"idle", "started", "finishing"}
            BY <2>4 DEF Refuse, ServeReplay, Forward, Capture, Count, UpstreamFails, Respond, counterVars
        <3>2. pc \in Polling \ {"inFlight"} /\ reg.inFlight = 0 => activity # reg.activity
            BY <3>1 DEF ReadingsHold
        <3> QED
            BY <3>1, <3>2, <2>1 DEF ReadingsHold, Polling
    <2> QED
        BY <2>2, <2>3, <2>4, <1>5 DEF ProxyThread
<1>6. CASE Expire
    BY <1>6, <1>2 DEF Expire, proxyVars, counterVars
<1>7. CASE Settling
    <2>0. UNCHANGED <<activity, step, log, inFlight>>
        BY <1>7 DEF Settling, ReadActivity, ReadInFlight, ReadLog, ReadServed, ReadActivityAgain,
                    ReadInFlightAgain, StillQuiet, proxyVars, counterVars
    <2>1. CASE ReadActivity
        <3>1. pc' = "inFlight" /\ reg'.activity = activity
            BY <2>1, <1>1 DEF ReadActivity, RegType
        <3> QED
            BY <3>1, <2>0, <1>1 DEF ReadingsHold, Polling
    <2>2. CASE ReadInFlight
        <3>1. pc = "inFlight" /\ pc' = "log" /\ reg'.activity = reg.activity /\ reg'.inFlight = inFlight
            BY <2>2, <1>1 DEF ReadInFlight, RegType
        <3> QED
            BY <3>1, <2>0, <1>1 DEF ReadingsHold, Polling
    <2>3. CASE ReadLog
        <3>1. CASE MaySettle /\ reg' = [reg EXCEPT !.served = log.served] /\ pc' = "quiet"
            <4>1. /\ reg'.activity = reg.activity /\ reg'.inFlight = reg.inFlight /\ reg'.served = log.served
                  /\ reg.inFlight = 0 /\ ~log.lastTool /\ pc = "log"
                BY <3>1, <2>3, <1>1 DEF MaySettle, RegType, ReadLog
            <4> QED
                BY <4>1, <3>1, <2>0 DEF ReadingsHold, Polling
        <3>2. CASE pc' \in {"settled", "activity"}
            BY <3>2, <1>3 DEF Polling
        <3> QED
            BY <3>1, <3>2, <2>3 DEF ReadLog, PollAgain, Settle, Goto
    <2>4. CASE ReadServed \/ ReadActivityAgain \/ ReadInFlightAgain
        <3>1. CASE UNCHANGED reg /\ pc \in {"quiet", "activity2"} /\ pc' \in {"activity2", "inFlight2"}
            BY <3>1, <2>0 DEF ReadingsHold, Polling
        <3>2. CASE pc' \in {"settled", "activity"}
            BY <3>2, <1>3 DEF Polling
        <3> QED
            BY <3>1, <3>2, <2>4 DEF ReadServed, ReadActivityAgain, ReadInFlightAgain, StillQuiet,
                                    PollAgain, Settle, Goto
    <2> QED
        BY <2>1, <2>2, <2>3, <2>4, <1>7 DEF Settling
<1>8. CASE Driving /\ ~Settling
    <2>1. \/ pc' \notin Polling
        BY <1>8 DEF Driving, Spawn, Delivered, Write, Exit, Post, Posted, Fail, Unreachable, Goto, Polling
    <2> QED
        BY <2>1, <1>3
<1>9. CASE Judging
    <2>1. CASE Drop
        BY <2>1, <1>3 DEF Drop, Polling, runnerVars
    <2>2. CASE ~Drop
        <3>1. pc' \notin Polling
            BY <2>2, <1>9 DEF Judging, Driven, Calm, CalmActivity, CalmInFlight, CalmOr, Quiet, Collect, Join,
                              JudgeRecord, JudgeReplay, Replay, Goto, Polling
        <3> QED
            BY <3>1, <1>3
    <2> QED
        BY <2>1, <2>2
<1>10. CASE UNCHANGED vars
    BY <1>10, <1>2 DEF vars, proxyVars, counterVars, runnerVars
<1> QED
    BY <1>4, <1>5, <1>6, <1>7, <1>8, <1>9, <1>10 DEF Next, Over

\* SettledIsQuiet: the last reading of wait_for_settle settles a delivery on a log
\* that is still what was read, with no tool call pending and no request taken
\* and not counted out, although the proxy's thread runs between the readings.
THEOREM SettlesInQuiet == Spec => []SettledIsQuiet
<1>1. Init => ReadingsHold
    BY DEF Init, RunnerStarts, ReadingsHold, Polling
<1>2. Typed /\ ReadingsHold => SettledIsQuiet
    BY DEF Typed, TypeOK, TypeProxy, TypeRunner, ReadingsHold, Polling, SettledIsQuiet
<1> QED
    BY <1>1, <1>2, TypedInit, TypedStep, ReadingsStep, PTL DEF Spec

\* A step that leaves the requests, the answers and the captured turns alone.
LEMMA CapturedKept ==
  ASSUME AnsweredIsCaptured, UNCHANGED <<mode, agent, queue, step, serving, captured, answers>>
  PROVE  AnsweredIsCaptured'
BY DEF AnsweredIsCaptured, HasTurn, BodyOf, SideCall

\* The runner leaves all of the proxy alone but for its order to stop, until the
\* trace is replayed.
LEMMA RunnerReads ==
  ASSUME Expire \/ Driving \/ (Judging /\ ~Replay)
  PROVE  /\ UNCHANGED <<recordVars, queue, step, serving, counterVars, log, captured, consumed, answers>>
         /\ UNCHANGED <<setVars, next, waiting, sided>>
         /\ stop => stop'
<1>1. CASE Expire
    BY <1>1 DEF Expire, proxyVars
<1>2. CASE Driving
    <2>1. UNCHANGED proxyVars
        BY <1>2 DEF Driving, Settling, Spawn, Delivered, Write, Exit, Post, Posted, ReadActivity, ReadInFlight,
                    ReadLog, ReadServed, ReadActivityAgain, ReadInFlightAgain, StillQuiet
    <2>2. KeepAgent \/ Fail \/ Unreachable \/ UNCHANGED <<setVars, next, waiting, sided>>
        BY <1>2 DEF Driving, Settling, Spawn, Delivered, Write, Exit, Post, Posted, ReadActivity, ReadInFlight,
                    ReadLog, ReadServed, ReadActivityAgain, ReadInFlightAgain, StillQuiet
    <2>3. UNCHANGED <<setVars, next, waiting, sided>>
        BY <2>2 DEF KeepAgent, agentVars, Fail, Unreachable
    <2> QED
        BY <2>1, <2>3 DEF proxyVars
<1>3. CASE Judging /\ ~Replay
    BY <1>3 DEF Judging, Driven, Calm, CalmActivity, CalmInFlight, Collect, Drop, Join, JudgeRecord,
                JudgeReplay, KeepAgent, agentVars, proxyVars
<1> QED
    BY <1>1, <1>2, <1>3

LEMMA CapturedStep ==
  ASSUME Typed, AnsweredIsCaptured, [Next]_vars
  PROVE  AnsweredIsCaptured'
<1>1. /\ queue \in Seq(Requests) /\ captured \in Seq(TurnType)
      /\ step # "idle" => serving \in Requests
      /\ agent \in Agents
    BY DEF Typed, TypeOK, TypeProxy, TypeAgent, Requests, TurnType
<1>2. CASE Expire \/ Driving \/ (Judging /\ ~Replay)
    BY <1>2, RunnerReads, CapturedKept DEF recordVars, setVars
<1>3. CASE Replay
    BY <1>3 DEF Replay, Rebind, AnsweredIsCaptured
<1>4. CASE UNCHANGED vars
    BY <1>4, CapturedKept DEF vars, proxyVars, recordVars, setVars
<1>5. ASSUME UNCHANGED <<mode, agent, captured>>
      PROVE  \A w : BodyOf(w)' = BodyOf(w) /\ (HasTurn(w) => HasTurn(w)')
    BY <1>5 DEF BodyOf, SideCall, HasTurn
<1>6. CASE Agent
    <2>0. UNCHANGED <<mode, agent, step, serving, captured, answers>>
        BY <1>6 DEF Agent, CallModel, CallOnTheSide, TakeAnswer, AgentExits, Connect, proxyVars, recordVars, setVars
    <2>1. ASSUME NEW request \in Requests, mode = "record" => request.body = BodyOf(request.who),
                 queue' = Append(queue, request)
          PROVE  AnsweredIsCaptured'
        <3>1. \A i \in DOMAIN queue' : queue'[i] = request \/ (i \in DOMAIN queue /\ queue'[i] = queue[i])
            BY <2>1, <1>1
        <3> QED
            BY <3>1, <2>0, <2>1, <1>5 DEF AnsweredIsCaptured
    <2>2. CASE CallModel
        <3>1. next \in (1..Deliveries) \X (Nat \ {0}) /\ next[2] <= agent.turns[next[1]]
            BY <2>2, PlansTyped DEF CallModel, Done, Typed, TypeOK, TypeAgent
        <3>2. next = <<next[1], next[2]>> /\ next # Side
            BY <3>1 DEF Side
        <3>3. MainCall(next) \in Requests
            BY <3>1, <3>2, <1>1, RequestsTyped, PlansTyped
        <3>4. mode = "record" => MainCall(next).body = BodyOf(MainCall(next).who)
            BY <3>2 DEF MainCall, BodyOf, AnsweredIsCaptured
        <3> QED
            BY <3>3, <3>4, <2>1, <2>2 DEF CallModel, Connect
    <2>3. CASE CallOnTheSide
        <3>1. SideCall \in Requests
            BY <2>3, RequestsTyped DEF CallOnTheSide
        <3>2. SideCall.body = BodyOf(SideCall.who)
            BY DEF SideCall, BodyOf
        <3> QED
            BY <3>1, <3>2, <2>1, <2>3 DEF CallOnTheSide, Connect
    <2>4. CASE TakeAnswer \/ AgentExits
        BY <2>0, <2>4, CapturedKept DEF TakeAnswer, AgentExits, proxyVars
    <2> QED
        BY <2>2, <2>3, <2>4, <1>6 DEF Agent
<1>7. CASE ProxyThread(TRUE)
    <2>0. UNCHANGED <<mode, agent>>
        BY <1>7 DEF ProxyThread, Accept, Start, Refuse, ServeReplay, Forward, Capture, Count, UpstreamFails,
                    Respond, Unmark, Finish, recordVars, setVars
    <2>1. CASE Accept
        <3>1. /\ serving' = queue[1] /\ 1 \in DOMAIN queue
              /\ \A i \in DOMAIN queue' : i + 1 \in DOMAIN queue /\ queue'[i] = queue[i + 1]
            BY <2>1, <1>1 DEF Accept
        <3>2. UNCHANGED <<captured, answers>> /\ step' = "started"
            BY <2>1 DEF Accept, recordVars
        <3> QED
            BY <3>1, <3>2, <2>0, <1>5 DEF AnsweredIsCaptured
    <2>2. CASE Capture
        <3>1. /\ captured' = Append(captured, Turn(serving)) /\ step = "forwarding" /\ step' = "captured"
              /\ UNCHANGED <<queue, serving, answers>>
            BY <2>2 DEF Capture
        <3>2. /\ \A i \in DOMAIN captured : i \in DOMAIN captured' /\ captured'[i] = captured[i]
              /\ Len(captured) + 1 \in DOMAIN captured' /\ captured'[Len(captured) + 1] = Turn(serving)
            BY <3>1, <1>1
        <3>3. \A w : BodyOf(w)' = BodyOf(w)
            BY <2>0 DEF BodyOf, SideCall
        <3>4. \A w : HasTurn(w) => HasTurn(w)'
            BY <3>2, <3>3 DEF HasTurn
        <3>5. mode = "record" => HasTurn(serving.who)'
            BY <3>1, <3>2, <3>3 DEF HasTurn, Turn, AnsweredIsCaptured
        <3> QED
            BY <3>1, <3>3, <3>4, <3>5, <2>0 DEF AnsweredIsCaptured
    <2>3. CASE Respond
        <3>1. /\ answers' = answers \cup {[who |-> serving.who, ok |-> step = "logged"]}
              /\ step \in {"logged", "failed"} /\ step' = "answered" /\ UNCHANGED <<queue, serving, captured>>
            BY <2>3 DEF Respond
        <3>2. \A a \in answers' : a \in answers \/ (a.who = serving.who /\ a.ok = (step = "logged"))
            BY <3>1
        <3>3. mode = "record" => \A a \in answers' : a.ok => HasTurn(a.who)
            BY <3>1, <3>2 DEF AnsweredIsCaptured
        <3> QED
            BY <3>1, <3>3, <2>0, <1>5 DEF AnsweredIsCaptured
    <2>4. CASE Count
        <3>1. step = "captured" /\ step' = "logged" /\ UNCHANGED <<queue, serving, captured, answers>>
            BY <2>4 DEF Count
        <3> QED
            BY <3>1, <2>0, <1>5 DEF AnsweredIsCaptured
    <2>5. CASE ServeReplay
        BY <2>5, <2>0 DEF ServeReplay, AnsweredIsCaptured
    <2>6. CASE Start \/ Refuse(TRUE) \/ Forward \/ UpstreamFails \/ Unmark
        <3>1. /\ step # "idle" /\ step' \notin {"captured", "logged"}
              /\ UNCHANGED <<queue, serving, captured, answers>>
            BY <2>6 DEF Start, Refuse, Forward, UpstreamFails, Unmark
        <3> QED
            BY <3>1, <2>0, <1>5 DEF AnsweredIsCaptured
    <2>7. CASE Finish
        <3>1. step' = "idle" /\ UNCHANGED <<queue, captured, answers>>
            BY <2>7 DEF Finish
        <3> QED
            BY <3>1, <2>0, <1>5 DEF AnsweredIsCaptured
    <2> QED
        BY <2>1, <2>2, <2>3, <2>4, <2>5, <2>6, <2>7, <1>7 DEF ProxyThread
<1> QED
    BY <1>2, <1>3, <1>4, <1>6, <1>7 DEF Next, Over

\* What was owed stays answered or in hand while the runner does not look.
LEMMA OwedKept ==
  ASSUME OwedInHand, UNCHANGED <<mode, owed, reg, step, serving, answers>>,
         pc' = pc \/ ~Calming'
  PROVE  OwedInHand'
BY DEF OwedInHand, Calming, Answered

LEMMA OwedStep ==
  ASSUME Typed, OwedInHand, [Next]_vars
  PROVE  OwedInHand'
<1>1. CASE Agent
    BY <1>1, OwedKept DEF Agent, CallModel, CallOnTheSide, TakeAnswer, AgentExits, Connect, proxyVars,
                          recordVars, runnerVars, resultVars
<1>2. CASE ProxyThread(TRUE)
    <2>0. UNCHANGED <<mode, pc, owed, reg>>
        BY <1>2 DEF ProxyThread, Accept, Start, Refuse, ServeReplay, Forward, Capture, Count, UpstreamFails,
                    Respond, Unmark, Finish, recordVars, runnerVars, resultVars
    <2>1. CASE Respond
        <3>1. /\ answers' = answers \cup {[who |-> serving.who, ok |-> step = "logged"]}
              /\ step \in {"logged", "failed"} /\ step' = "answered" /\ UNCHANGED serving
            BY <2>1 DEF Respond
        <3>2. \A w : Answered(w) \/ w = serving.who => Answered(w)'
            <4>1. [who |-> serving.who, ok |-> step = "logged"] \in answers'
                BY <3>1
            <4>2. [who |-> serving.who, ok |-> step = "logged"].who = serving.who
                OBVIOUS
            <4> QED
                BY <3>1, <4>1, <4>2 DEF Answered
        <3> QED
            BY <3>1, <3>2, <2>0 DEF OwedInHand, Calming
    <2>2. CASE ~Respond
        <3>1. UNCHANGED answers
            BY <1>2, <2>2 DEF ProxyThread, Accept, Start, Refuse, ServeReplay, Forward, Capture, Count,
                              UpstreamFails, Unmark, Finish
        <3>2. \/ step = "idle" /\ step' = "started"
              \/ step \in {"answered", "finishing"} /\ step' \in {"finishing", "idle"}
                   /\ (step' = "finishing" => UNCHANGED serving)
              \/ /\ step \notin {"idle", "answered", "finishing"} /\ step' \notin {"idle", "answered", "finishing"}
                 /\ UNCHANGED serving
            BY <1>2, <2>2 DEF ProxyThread, Accept, Start, Refuse, ServeReplay, Forward, Capture, Count,
                              UpstreamFails, Unmark, Finish
        <3>3. \A w : Answered(w)' <=> Answered(w)
            BY <3>1 DEF Answered
        <3> QED
            BY <3>2, <3>3, <2>0 DEF OwedInHand, Calming
    <2> QED
        BY <2>1, <2>2
<1>3. CASE Expire \/ Driving
    <2>1. UNCHANGED <<mode, step, serving, answers>>
        BY <1>3, RunnerReads DEF recordVars
    <2>2. CASE Expire
        BY <2>1, <2>2, OwedKept DEF Expire, resultVars
    <2>3. CASE Driving
        <3>1. ~Calming'
            BY <2>3 DEF Driving, Settling, Spawn, Delivered, Write, Exit, Post, Posted, ReadActivity, ReadInFlight,
                        ReadLog, ReadServed, ReadActivityAgain, ReadInFlightAgain, StillQuiet, PollAgain, Settle,
                        Fail, Unreachable, Goto, Calming
        <3> QED
            BY <3>1, <2>1 DEF OwedInHand, Calming, Answered
    <2> QED
        BY <2>2, <2>3, <1>3
<1>4. CASE Judging /\ ~Replay
    <2>0. UNCHANGED <<mode, step, serving, answers>>
        BY <1>4, RunnerReads DEF recordVars
    <2>1. CASE Calm
        <3>1. /\ owed' = {a.who : a \in answers} \cup (IF step = "idle" THEN {} ELSE {serving.who})
              /\ pc = "calm" /\ pc' = "calmActivity"
            BY <2>1 DEF Calm
        <3>2. \A w \in owed' : Answered(w) \/ (step # "idle" /\ w = serving.who)
            BY <3>1 DEF Answered
        <3> QED
            BY <3>1, <3>2, <2>0 DEF OwedInHand, Calming, Answered
    <2>2. CASE CalmActivity
        <3>1. UNCHANGED owed
            BY <2>2 DEF CalmActivity, KeepResults, resultVars
        <3>2. \/ pc' \in {"calm", "calmInFlight"}
              \/ pc' = "collect" /\ ~reg'.settled
            BY <2>2 DEF CalmActivity, CalmOr, Goto, Typed, TypeOK, TypeRunner
        <3>3. pc = "calmActivity"
            BY <2>2 DEF CalmActivity
        <3> QED
            BY <3>1, <3>2, <3>3, <2>0 DEF OwedInHand, Calming, Answered
    <2>3. CASE CalmInFlight
        <3>1. UNCHANGED owed /\ pc = "calmInFlight"
            BY <2>3 DEF CalmInFlight, KeepResults, resultVars
        <3>2. \/ pc' = "calm"
              \/ pc' = "collect" /\ ~reg'.settled
              \/ pc' = "collect" /\ inFlight = 0
            BY <2>3 DEF CalmInFlight, CalmOr, Quiet, Goto, Typed, TypeOK, TypeRunner
        <3>3. inFlight = 0 => step \in {"idle", "finishing"}
            BY DEF Typed
        <3> QED
            BY <3>1, <3>2, <3>3, <2>0 DEF OwedInHand, Calming, Answered
    <2>4. CASE Driven
        <3>1. pc' = "drop" \/ (pc' = "calm" /\ mode = "record")
            BY <2>4 DEF Driven, Goto
        <3> QED
            BY <3>1, <2>0 DEF OwedInHand, Calming, Answered
    <2>5. CASE Collect \/ Join \/ JudgeRecord \/ JudgeReplay
        <3>1. ~Calming'
            BY <2>5 DEF Collect, Join, JudgeRecord, JudgeReplay, Goto, Calming
        <3> QED
            BY <3>1, <2>0 DEF OwedInHand, Calming, Answered
    <2>6. CASE Drop
        BY <2>0, <2>6, OwedKept DEF Drop, runnerVars, resultVars
    <2> QED
        BY <2>1, <2>2, <2>3, <2>4, <2>5, <2>6, <1>4 DEF Judging
<1>5. CASE Replay
    BY <1>5 DEF Replay, Rebind, OwedInHand, Calming
<1>6. CASE UNCHANGED vars
    BY <1>6, OwedKept DEF vars, proxyVars, recordVars, runnerVars, resultVars
<1> QED
    BY <1>1, <1>2, <1>3, <1>4, <1>5, <1>6 DEF Next, Over

\* QuiesceMissesNothing: a recording that quiesce waited for holds the turn of every
\* call the proxy had taken when it last looked, however the two interleave.
THEOREM CollectsWhatWasTaken == Spec => []QuiesceMissesNothing
<1>1. Init => AnsweredIsCaptured /\ OwedInHand
    BY DEF Init, ProxyInit, RunnerStarts, AnsweredIsCaptured, OwedInHand, Calming
<1>2. ASSUME AnsweredIsCaptured, OwedInHand
      PROVE  QuiesceMissesNothing
    <2> SUFFICES ASSUME pc = "collect", reg.settled, NEW w \in owed
                 PROVE  \E a \in answers :
                          /\ a.who = w
                          /\ a.ok => \E i \in DOMAIN captured :
                                       captured[i].body = IF w = Side THEN SideCall.body ELSE w
        BY DEF QuiesceMissesNothing
    <2>1. mode = "record" /\ Answered(w)
        BY <1>2 DEF OwedInHand, Calming
    <2>2. PICK a \in answers : a.who = w
        BY <2>1 DEF Answered
    <2>3. a.ok => HasTurn(w)
        BY <1>2, <2>1, <2>2 DEF AnsweredIsCaptured
    <2> QED
        BY <2>2, <2>3 DEF HasTurn, BodyOf
<1> QED
    BY <1>1, <1>2, TypedInit, TypedStep, CapturedStep, OwedStep, PTL DEF Spec
-----------------------------------------------------------------------------
(* What a PASS means. *)

\* Calls are named by pairs of numbers.
LEMMA WhoTyped == Who \subseteq Nat \X Nat
<1>1. \A p \in Plans : p \in Seq(Nat \ {0})
    BY AgentFlowAssumption DEF Plans
<1>2. ASSUME NEW w \in MainCalls PROVE w \in Nat \X Nat
    <2>1. PICK p \in Plans : \E d \in DOMAIN p : \E k \in 1..p[d] : w = <<d, k>>
        BY <1>2 DEF MainCalls
    <2>2. PICK d \in DOMAIN p : \E k \in 1..p[d] : w = <<d, k>>
        BY <2>1
    <2>3. d \in Nat /\ p[d] \in Nat
        BY <1>1
    <2> QED
        BY <2>2, <2>3
<1> QED
    BY <1>2 DEF Who, Side

\* Every call somewhere is named by a pair.
LEMMA PlacesTyped ==
  ASSUME Typed
  PROVE  Waiting \cup InHand \cup Answers \subseteq Nat \X Nat
<1>1. /\ queue \in Seq(Requests) /\ answers \subseteq [who: Who, ok: BOOLEAN]
      /\ step # "idle" => serving \in Requests
    BY DEF Typed, TypeOK, TypeProxy, Requests
<1>2. Waiting \subseteq Who
    <2>1. \A i \in DOMAIN queue : queue[i] \in Requests
        BY <1>1
    <2> QED
        BY <2>1 DEF Waiting, Requests
<1>3. InHand \subseteq Who /\ Answers \subseteq Who
    BY <1>1 DEF InHand, Answers, Requests
<1> QED
    BY <1>2, <1>3, WhoTyped

LEMMA OnePlaceKept ==
  ASSUME OnePlace, UNCHANGED <<queue, step, serving, answers, next, waiting, sided>>
  PROVE  OnePlace'
BY DEF OnePlace, Waiting, InHand, Answers, Made, Before

\* A new call joins the queue.
LEMMA Joined ==
  ASSUME Typed, OnePlace, NEW request \in Requests, Connect(request), ~Made(request.who),
         Made(request.who)', \A w \in Nat \X Nat : Made(w) => Made(w)'
  PROVE  OnePlace'
<1>1. queue \in Seq(Requests) /\ queue' = Append(queue, request) /\ UNCHANGED <<step, serving, answers>>
    BY DEF Typed, TypeOK, TypeProxy, Requests, Connect
<1>2. /\ DOMAIN queue' = DOMAIN queue \cup {Len(queue) + 1} /\ Len(queue) + 1 \notin DOMAIN queue
      /\ queue'[Len(queue) + 1] = request
      /\ \A i \in DOMAIN queue : queue'[i] = queue[i]
    BY <1>1
<1>3. Waiting' = Waiting \cup {request.who}
    BY <1>2 DEF Waiting
<1>4. InHand' = InHand /\ Answers' = Answers
    BY <1>1 DEF InHand, Answers
<1>5. request.who \notin Waiting \cup InHand \cup Answers
    BY DEF OnePlace
<1>6. \A i \in DOMAIN queue : queue[i].who # request.who
    BY <1>5 DEF Waiting
<1>7. \A i, j \in DOMAIN queue' : queue'[i].who = queue'[j].who => i = j
    BY <1>2, <1>6 DEF OnePlace
<1>8. \A w \in Waiting' \cup InHand' \cup Answers' : Made(w)'
    BY <1>3, <1>4, PlacesTyped DEF OnePlace
<1>9. (Waiting' \cap InHand') = {} /\ (Waiting' \cap Answers') = {} /\ (InHand' \cap Answers') = {}
    BY <1>3, <1>4, <1>5 DEF OnePlace
<1> QED
    BY <1>7, <1>8, <1>9 DEF OnePlace

LEMMA OnePlaceStep ==
  ASSUME Typed, OnePlace, [Next]_vars
  PROVE  OnePlace'
<1>1. CASE Expire \/ Driving \/ (Judging /\ ~Replay)
    BY <1>1, RunnerReads, OnePlaceKept
<1>2. CASE UNCHANGED vars
    BY <1>2, OnePlaceKept DEF vars, proxyVars, agentVars
<1>3. CASE Replay
    BY <1>3 DEF Replay, Rebind, OnePlace, Waiting, InHand, Answers
<1>4. CASE Agent
    <2>0. agent \in Agents
        BY DEF Typed, TypeOK, TypeAgent
    <2>1. CASE CallModel
        <3>1. next \in (1..Deliveries) \X (Nat \ {0}) /\ next[2] <= agent.turns[next[1]]
            BY <2>1, PlansTyped DEF CallModel, Done, Typed, TypeOK, TypeAgent
        <3>2. next = <<next[1], next[2]>> /\ next # Side
            BY <3>1 DEF Side
        <3>3. MainCall(next) \in Requests /\ Connect(MainCall(next)) /\ MainCall(next).who = next
            BY <3>1, <3>2, <2>0, <2>1, RequestsTyped, PlansTyped DEF CallModel, MainCall
        <3>4. ~waiting /\ waiting' /\ UNCHANGED <<next, sided>>
            BY <2>1 DEF CallModel
        <3>5. ~Made(next) /\ Made(next)'
            BY <3>1, <3>2, <3>4 DEF Made, Before
        <3>6. \A w \in Nat \X Nat : Made(w) => Made(w)'
            BY <3>4 DEF Made, Before
        <3>7. PICK request \in Requests : request = MainCall(next)
            BY <3>3
        <3>8. request.who = next /\ Connect(request)
            BY <3>3, <3>7
        <3>9. ~Made(request.who) /\ Made(request.who)'
            BY <3>4, <3>5, <3>8 DEF Made
        <3> QED
            BY <3>6, <3>8, <3>9, Joined
    <2>2. CASE CallOnTheSide
        <3>1. SideCall \in Requests /\ Connect(SideCall) /\ SideCall.who = Side
            BY <2>2, RequestsTyped DEF CallOnTheSide, SideCall
        <3>2. ~sided /\ sided' /\ UNCHANGED <<next, waiting>>
            BY <2>2 DEF CallOnTheSide
        <3>3. ~Made(Side) /\ Made(Side)' /\ \A w \in Nat \X Nat : Made(w) => Made(w)'
            BY <3>2 DEF Made, Before
        <3> QED
            BY <3>1, <3>3, Joined
    <2>3. CASE TakeAnswer
        <3>1. next \in (1..Deliveries) \X (Nat \ {0}) /\ waiting /\ Deliveries \in Nat
            BY <2>3, PlansTyped, <2>0 DEF TakeAnswer, Done, Typed, TypeOK, TypeAgent
        <3>2. /\ \/ next' = <<Deliveries + 1, 1>> \/ next' = <<next[1], next[2] + 1>> \/ next' = <<next[1] + 1, 1>>
              /\ UNCHANGED <<queue, step, serving, answers, sided>>
            BY <2>3 DEF TakeAnswer, proxyVars
        <3>3. ASSUME NEW w \in Nat \X Nat, Made(w) PROVE Made(w)'
            <4>1. w # Side /\ (Before(w, next) \/ w = next) => Before(w, next')
                BY <3>1, <3>2, <3>3 DEF Before
            <4> QED
                BY <4>1, <3>2, <3>3 DEF Made, Before
        <3>4. Waiting' = Waiting /\ InHand' = InHand /\ Answers' = Answers
            BY <3>2 DEF Waiting, InHand, Answers
        <3> QED
            BY <3>2, <3>3, <3>4, PlacesTyped DEF OnePlace
    <2>4. CASE AgentExits
        BY <2>4, OnePlaceKept DEF AgentExits, proxyVars
    <2> QED
        BY <2>1, <2>2, <2>3, <2>4, <1>4 DEF Agent
<1>5. CASE ProxyThread(TRUE)
    <2>0. UNCHANGED <<next, waiting, sided>> /\ \A w : Made(w)' <=> Made(w)
        BY <1>5 DEF ProxyThread, agentVars, Made, Before
    <2>1. CASE Accept
        <3>1. /\ queue \in Seq(Requests) /\ queue # <<>> /\ queue' = Tail(queue) /\ serving' = Head(queue)
              /\ step = "idle" /\ step' = "started" /\ UNCHANGED answers
            BY <2>1 DEF Accept, Typed, TypeOK, TypeProxy, Requests
        <3>2. /\ serving' = queue[1] /\ 1 \in DOMAIN queue
              /\ \A i \in DOMAIN queue' : i \in Nat \ {0} /\ i + 1 \in DOMAIN queue /\ queue'[i] = queue[i + 1]
            BY <3>1
        <3>3. Waiting' \subseteq Waiting /\ InHand' = {queue[1].who} /\ queue[1].who \in Waiting
            BY <3>1, <3>2 DEF Waiting, InHand
        <3>4. queue[1].who \notin Waiting'
            BY <3>2 DEF Waiting, OnePlace
        <3>5. \A i, j \in DOMAIN queue' : queue'[i].who = queue'[j].who => i = j
            BY <3>2 DEF OnePlace
        <3>6. Answers' = Answers
            BY <3>1 DEF Answers
        <3> QED
            BY <3>3, <3>4, <3>5, <3>6, <2>0 DEF OnePlace
    <2>2. CASE Respond
        <3>1. /\ answers' = answers \cup {[who |-> serving.who, ok |-> step = "logged"]}
              /\ step \in {"logged", "failed"} /\ step' = "answered" /\ UNCHANGED <<serving, queue>>
            BY <2>2 DEF Respond
        <3>2. Waiting' = Waiting /\ InHand = {serving.who} /\ InHand' = {}
            BY <3>1 DEF Waiting, InHand
        <3>3. Answers' = Answers \cup {serving.who}
            <4>1. [who |-> serving.who, ok |-> step = "logged"].who = serving.who
                OBVIOUS
            <4> QED
                BY <3>1, <4>1 DEF Answers
        <3> QED
            BY <3>1, <3>2, <3>3, <2>0 DEF OnePlace
    <2>3. CASE ~Accept /\ ~Respond
        <3>1. UNCHANGED <<queue, answers>>
            BY <1>5, <2>3 DEF ProxyThread, Start, Refuse, ServeReplay, Forward, Capture, Count,
                              UpstreamFails, Unmark, Finish
        <3>2. \/ step \in {"answered", "finishing"} /\ step' \in {"finishing", "idle"}
              \/ /\ step \notin {"idle", "answered", "finishing"} /\ step' \notin {"idle", "answered", "finishing"}
                 /\ UNCHANGED serving
            BY <1>5, <2>3 DEF ProxyThread, Start, Refuse, ServeReplay, Forward, Capture, Count,
                              UpstreamFails, Unmark, Finish
        <3>3. Waiting' = Waiting /\ InHand' = InHand /\ Answers' = Answers
            BY <3>1, <3>2 DEF Waiting, InHand, Answers
        <3> QED
            BY <3>1, <3>3, <2>0 DEF OnePlace
    <2> QED
        BY <2>1, <2>2, <2>3
<1> QED
    BY <1>1, <1>2, <1>3, <1>4, <1>5 DEF Next, Over

LEMMA GoodFinite ==
  ASSUME IsFiniteSet(answers)
  PROVE  IsFiniteSet(Good) /\ Cardinality(Good) \in Nat
<1>1. Good \in SUBSET answers
    BY DEF Good
<1> QED
    BY <1>1, FS_Subset, FS_CardinalityType

LEMMA CountedKept ==
  ASSUME Counted, UNCHANGED <<mode, cassette, step, log, consumed, answers, trace>>
  PROVE  Counted'
BY DEF Counted, Good

LEMMA CountedStep ==
  ASSUME Typed, OnePlace, Counted, [Next]_vars
  PROVE  Counted'
<1>1. log \in LogType /\ log.served \in Nat /\ answers \subseteq [who: Who, ok: BOOLEAN]
    BY DEF Typed, TypeOK, TypeProxy, LogType
<1>2. CASE Expire \/ Driving \/ (Judging /\ ~Replay)
    <2>1. UNCHANGED <<mode, cassette, step, log, consumed, answers>>
        BY <1>2, RunnerReads DEF recordVars
    <2>2. UNCHANGED trace \/ mode = "record"
        <3>1. CASE Expire
            BY <3>1 DEF Expire, resultVars
        <3>2. CASE Driving
            BY <3>2 DEF Driving, Settling, Spawn, Delivered, Write, Exit, Post, Posted, ReadActivity, ReadInFlight,
                        ReadLog, ReadServed, ReadActivityAgain, ReadInFlightAgain, StillQuiet,
                        Fail, Unreachable, KeepResults, resultVars
        <3>3. CASE Judging /\ ~Replay
            BY <3>3 DEF Judging, Driven, Calm, CalmActivity, CalmInFlight, Collect, Drop, Join, JudgeRecord,
                        JudgeReplay, runnerVars, KeepResults, resultVars
        <3> QED
            BY <3>1, <3>2, <3>3, <1>2
    <2> QED
        BY <2>1, <2>2 DEF Counted, Good
<1>3. CASE UNCHANGED vars
    BY <1>3, CountedKept DEF vars, proxyVars, recordVars, runnerVars, resultVars
<1>4. CASE Agent
    BY <1>4, CountedKept DEF Agent, CallModel, CallOnTheSide, TakeAnswer, AgentExits, Connect, proxyVars,
                             recordVars, runnerVars, resultVars
<1>5. CASE Replay
    <2>1. /\ answers' = {} /\ consumed' = {} /\ log' = NoLog /\ step' = "idle"
          /\ cassette' = [i \in DOMAIN trace |-> trace[i].turn] /\ UNCHANGED trace
        BY <1>5 DEF Replay, Rebind
    <2>2. Good' = {}
        BY <2>1 DEF Good
    <2> QED
        BY <2>1, <2>2, FS_EmptySet DEF Counted, NoLog
<1>6. CASE ProxyThread(TRUE)
    <2>0. UNCHANGED <<mode, cassette, trace>>
        BY <1>6 DEF ProxyThread, Accept, Start, Refuse, ServeReplay, Forward, Capture, Count, UpstreamFails,
                    Respond, Unmark, Finish, recordVars, runnerVars, resultVars
    <2>1. CASE ServeReplay
        <3>0. /\ mode = "replay" /\ step = "serving" /\ UNCHANGED answers /\ Good' = Good
            BY <2>1 DEF ServeReplay, Good
        <3>1. CASE Matches(serving.body) = {}
            <4>1. log'.served = log.served /\ step' = "failed" /\ UNCHANGED consumed
                BY <2>1, <3>1, <1>1 DEF ServeReplay, LogType
            <4> QED
                BY <4>1, <3>0, <2>0 DEF Counted
        <3>2. CASE Matches(serving.body) # {}
            <4>1. PICK i \in Matches(serving.body) :
                    /\ consumed' = consumed \cup {i}
                    /\ log' = [log EXCEPT !.served = @ + 1, !.lastTool = cassette[i].tool]
                    /\ step' = "logged"
                BY <2>1, <3>2 DEF ServeReplay
            <4>2. i \notin consumed
                BY DEF Matches
            <4>3. log'.served = log.served + 1
                BY <4>1, <1>1 DEF LogType
            <4>4. IsFiniteSet(consumed') /\ Cardinality(consumed') = Cardinality(consumed) + 1
                BY <4>1, <4>2, <3>0, FS_AddElement DEF Counted
            <4> QED
                BY <4>1, <4>3, <4>4, <3>0, <2>0, <1>1 DEF Counted
        <3> QED
            BY <3>1, <3>2
    <2>2. CASE Count
        <3>1. /\ step = "captured" /\ step' = "logged" /\ log'.served = log.served + 1
              /\ UNCHANGED answers /\ Good' = Good
            BY <2>2, <1>1 DEF Count, LogType, Good
        <3> QED
            BY <3>1, <2>0, <1>1 DEF Counted
    <2>3. CASE Respond
        <3> DEFINE a == [who |-> serving.who, ok |-> step = "logged"]
        <3>1. /\ answers' = answers \cup {a} /\ step \in {"logged", "failed"} /\ step' = "answered"
              /\ UNCHANGED <<log, consumed>>
            BY <2>3 DEF Respond
        <3>2. a \notin answers
            <4>1. serving.who \in InHand
                BY <3>1 DEF InHand
            <4> QED
                BY <4>1 DEF OnePlace, Answers
        <3>v. a.ok = (step = "logged")
            OBVIOUS
        <3> HIDE DEF a
        <3>3. IsFiniteSet(answers')
            BY <3>1, FS_AddElement DEF Counted
        <3>4. IsFiniteSet(Good) /\ Cardinality(Good) \in Nat
            BY GoodFinite DEF Counted
        <3>5. CASE step = "logged"
            <4>1. Good' = Good \cup {a} /\ a \notin Good
                BY <3>v, <3>1, <3>2, <3>5 DEF Good
            <4>2. Cardinality(Good') = Cardinality(Good) + 1
                BY <4>1, <3>4, FS_AddElement
            <4>3. Cardinality(Good') = log'.served
                BY <4>2, <3>1, <3>4, <3>5, <1>1 DEF Counted
            <4> QED
                BY <4>3, <3>1, <3>3, <2>0 DEF Counted
        <3>6. CASE step = "failed"
            <4>1. Good' = Good
                BY <3>v, <3>1, <3>6 DEF Good
            <4> QED
                BY <4>1, <3>1, <3>3, <3>6, <2>0 DEF Counted
        <3> QED
            BY <3>1, <3>5, <3>6
    <2>4. CASE ~ServeReplay /\ ~Count /\ ~Respond
        <3>1. UNCHANGED <<answers, consumed>> /\ step # "logged" /\ step' # "logged"
            BY <1>6, <2>4 DEF ProxyThread, Accept, Start, Refuse, Forward, Capture, UpstreamFails,
                              Unmark, Finish
        <3>2. log'.served = log.served
            BY <1>6, <2>4, <1>1 DEF ProxyThread, Accept, Start, Refuse, Forward, Capture, UpstreamFails,
                                    Unmark, Finish, LogType
        <3>3. mode = "replay" => step' \notin {"forwarding", "captured"}
            BY <1>6, <2>4 DEF ProxyThread, Accept, Start, Refuse, Forward, Capture, UpstreamFails,
                              Unmark, Finish, Counted
        <3> QED
            BY <3>1, <3>2, <3>3, <2>0 DEF Counted, Good
    <2> QED
        BY <2>1, <2>2, <2>3, <2>4
<1> QED
    BY <1>2, <1>3, <1>4, <1>5, <1>6 DEF Next, Over

LEMMA JudgedStep ==
  ASSUME Typed, JudgedWhenJoined, [Next]_vars
  PROVE  JudgedWhenJoined'
<1>1. /\ log \in LogType /\ log.served \in Nat /\ run \in RunType /\ run.served \in Nat
    BY DEF Typed, TypeOK, TypeProxy, TypeRunner, LogType, RunType
<1>2. CASE Agent
    <2>1. UNCHANGED <<mode, log, step, stop, pc, run, verdict, trace>>
        BY <1>2 DEF Agent, CallModel, CallOnTheSide, TakeAnswer, AgentExits, Connect, proxyVars,
                    recordVars, runnerVars, resultVars
    <2> QED
        BY <2>1 DEF JudgedWhenJoined
<1>3. CASE ProxyThread(TRUE)
    <2>1. UNCHANGED <<mode, stop, pc, run, verdict, trace>>
        BY <1>3 DEF ProxyThread, Accept, Start, Refuse, ServeReplay, Forward, Capture, Count, UpstreamFails,
                    Respond, Unmark, Finish, recordVars, runnerVars, resultVars
    <2>2. log'.served = log.served \/ log'.served = log.served + 1
        <3>1. CASE ServeReplay
            BY <3>1, <1>1 DEF ServeReplay, LogType
        <3>2. CASE Count
            BY <3>2, <1>1 DEF Count, LogType
        <3>3. CASE UpstreamFails
            BY <3>3, <1>1 DEF UpstreamFails, LogType
        <3>4. CASE ~ServeReplay /\ ~Count /\ ~UpstreamFails
            BY <3>4, <1>3 DEF ProxyThread, Accept, Start, Refuse, Forward, Capture, Respond, Unmark, Finish
        <3> QED
            BY <3>1, <3>2, <3>3, <3>4
    <2>3. ~(step = "idle" /\ stop)
        BY <1>3 DEF ProxyThread, Accept, Start, Refuse, ServeReplay, Forward, Capture, Count, UpstreamFails,
                    Respond, Unmark, Finish
    <2> QED
        BY <2>1, <2>2, <2>3, <1>1 DEF JudgedWhenJoined
<1>4. CASE Expire
    <2>1. UNCHANGED <<mode, log, step, stop, pc, run, verdict, trace>>
        BY <1>4 DEF Expire, proxyVars, recordVars, resultVars
    <2> QED
        BY <2>1 DEF JudgedWhenJoined
<1>5. CASE Driving
    <2>1. UNCHANGED <<mode, log>>
        BY <1>5, RunnerReads DEF recordVars
    <2>2. pc' \notin {"judge", "over"} /\ pc # "over"
        BY <1>5 DEF Driving, Settling, Spawn, Delivered, Write, Exit, Post, Posted, ReadActivity, ReadInFlight,
                    ReadLog, ReadServed, ReadActivityAgain, ReadInFlightAgain, StillQuiet, PollAgain, Settle,
                    Fail, Unreachable, Goto
    <2>3. verdict' \in {verdict, "error"}
        BY <1>5 DEF Driving, Settling, Spawn, Delivered, Write, Exit, Post, Posted, ReadActivity, ReadInFlight,
                    ReadLog, ReadServed, ReadActivityAgain, ReadInFlightAgain, StillQuiet,
                    Fail, Unreachable, KeepResults, resultVars
    <2>4. run'.served \in {run.served, log.served}
        <3>1. ASSUME NEW b \in BOOLEAN, Snapshot(b) PROVE run'.served = log.served
            BY <3>1 DEF Snapshot
        <3>2. CASE Exit
            <4>1. alive \in BOOLEAN
                BY DEF Typed, TypeOK, TypeAgent
            <4> QED
                BY <3>1, <3>2, <4>1 DEF Exit
        <3>3. CASE Posted
            <4>1. expired \in BOOLEAN
                BY DEF Typed, TypeOK, TypeRunner
            <4> QED
                BY <3>1, <3>3, <4>1 DEF Posted, Unreachable
        <3>4. CASE Delivered
            <4>1. UNCHANGED run \/ run' = [run EXCEPT !.timedOut = ~reg.settled]
                BY <3>4 DEF Delivered, Fail
            <4> QED
                BY <4>1, <1>1 DEF RunType
        <3>5. CASE Settling \/ Spawn \/ Write \/ Post
            BY <3>5 DEF Settling, Spawn, Write, Post, ReadActivity, ReadInFlight, ReadLog, ReadServed,
                        ReadActivityAgain, ReadInFlightAgain, StillQuiet, Fail, KeepResults, resultVars
        <3> QED
            BY <1>5, <3>2, <3>3, <3>4, <3>5 DEF Driving
    <2> QED
        BY <2>1, <2>2, <2>3, <2>4, <1>1 DEF JudgedWhenJoined
<1>6. CASE Judging /\ ~Replay
    <2>1. UNCHANGED <<mode, log, step>> /\ (stop => stop')
        BY <1>6, RunnerReads DEF recordVars
    <2>2. UNCHANGED run
        BY <1>6 DEF Judging, Driven, Calm, CalmActivity, CalmInFlight, Collect, Drop, Join, JudgeRecord,
                    JudgeReplay, KeepResults, resultVars, runnerVars
    <2>3. CASE JudgeReplay
        <3>1. /\ pc = "judge" /\ pc' = "over" /\ mode = "replay" /\ UNCHANGED trace
              /\ verdict' = "pass" => run.served = Len(trace)
            BY <2>3 DEF JudgeReplay, Goto, Reproduced
        <3> QED
            BY <3>1, <2>1, <2>2 DEF JudgedWhenJoined
    <2>4. CASE Drop
        <3>1. UNCHANGED <<pc, verdict, trace>>
            BY <2>4 DEF Drop, runnerVars, resultVars
        <3> QED
            BY <3>1, <2>1, <2>2 DEF JudgedWhenJoined
    <2>5. CASE Join
        <3>1. stop /\ step = "idle" /\ pc = "drop" /\ UNCHANGED <<verdict, trace>>
            BY <2>5 DEF Join, KeepResults, resultVars
        <3> QED
            BY <3>1, <2>1, <2>2 DEF JudgedWhenJoined
    <2>6. CASE JudgeRecord
        <3>1. pc = "judge" /\ verdict' \in {"minted", "error"}
            BY <2>6 DEF JudgeRecord
        <3> QED
            BY <3>1, <2>1, <2>2 DEF JudgedWhenJoined
    <2>7. CASE Driven \/ Calm \/ CalmActivity \/ CalmInFlight \/ Collect
        <3>1. pc' \notin {"judge", "over"} /\ pc # "over"
            BY <2>7 DEF Driven, Calm, CalmActivity, CalmInFlight, CalmOr, Quiet, Collect, Goto
        <3>2. verdict' \in {verdict, "error"}
            BY <2>7 DEF Driven, Calm, CalmActivity, CalmInFlight, Collect, KeepResults, resultVars
        <3> QED
            BY <3>1, <3>2, <2>1, <2>2 DEF JudgedWhenJoined
    <2> QED
        BY <2>3, <2>4, <2>5, <2>6, <2>7, <1>6 DEF Judging
<1>7. CASE Replay
    BY <1>7 DEF Replay, Rebind, NoRun, NoLog, JudgedWhenJoined
<1>8. CASE UNCHANGED vars
    BY <1>8 DEF vars, proxyVars, recordVars, runnerVars, resultVars, JudgedWhenJoined
<1> QED
    BY <1>2, <1>3, <1>4, <1>5, <1>6, <1>7, <1>8 DEF Next, Over

\* PassServesAll: a replay that passes has served every recorded turn, each to a
\* call of its own, whatever the agent asked for and in whatever order.
THEOREM PassMeansServed == Spec => []PassServesAll
<1>1. Init => OnePlace /\ Counted /\ JudgedWhenJoined
    <2> SUFFICES ASSUME Init PROVE OnePlace /\ Counted /\ JudgedWhenJoined
        OBVIOUS
    <2>1. OnePlace
        BY DEF Init, ProxyInit, OnePlace, Waiting, InHand, Answers
    <2>2. Good = {}
        BY DEF Init, ProxyInit, Good
    <2>3. Counted
        BY <2>2, FS_EmptySet DEF Init, ProxyInit, Counted, NoLog
    <2>4. JudgedWhenJoined
        BY DEF Init, ProxyInit, RunnerStarts, NoLog, NoRun, JudgedWhenJoined
    <2> QED
        BY <2>1, <2>3, <2>4
<1>2. ASSUME Typed, Counted, JudgedWhenJoined
      PROVE  PassServesAll
    <2> SUFFICES ASSUME verdict = "pass"
                 PROVE  /\ consumed = DOMAIN trace
                        /\ Cardinality({a \in answers : a.ok}) = Len(trace)
        BY DEF PassServesAll
    <2>1. /\ mode = "replay" /\ step = "idle" /\ run.served = Len(trace) /\ run.served <= log.served
          /\ Len(trace) \in Nat /\ DOMAIN trace = 1..Len(trace) /\ log.served \in Nat
        BY <1>2 DEF JudgedWhenJoined, Typed, TypeOK, TypeRunner, TypeProxy
    <2>2. consumed \in SUBSET (1..Len(trace)) /\ Cardinality(consumed) = log.served
        BY <1>2, <2>1 DEF Counted, Typed, TypeOK, TypeProxy
    <2> DEFINE n == Len(trace)
    <2>n. n \in Nat /\ consumed \in SUBSET (1..n)
        BY <2>1, <2>2
    <2> HIDE DEF n
    <2>3. IsFiniteSet(1..n) /\ Cardinality(1..n) = n
        BY <2>n, FS_Interval
    <2>c. Cardinality(consumed) <= n /\ (Cardinality(consumed) = n => consumed = 1..n)
        BY <2>n, <2>3, FS_Subset
    <2>4. log.served = Len(trace) /\ consumed = 1..Len(trace)
        BY <2>1, <2>2, <2>c DEF n
    <2>5. Cardinality(Good) = log.served
        BY <1>2, <2>1 DEF Counted
    <2> QED
        BY <2>1, <2>4, <2>5 DEF Good
<1> QED
    BY <1>1, <1>2, TypedInit, TypedStep, OnePlaceStep, CountedStep, JudgedStep, PTL DEF Spec
-----------------------------------------------------------------------------
(* The deliveries the turns of a recording are stamped with. *)

\* A recording of an agent that makes its calls one after another.
Serial == mode = "record" /\ agent.side = "none"

\* The proxy has a request that was not answered.
Busy == step \in {"started", "serving", "forwarding", "captured", "logged", "failed"}

\* The proxy has at most the call the agent waits for, which is for a delivery
\* that was handed out; what it has answered was made before.
Paced ==
  /\ ~agent.edited
  /\ waiting => next[1] <= handed
  /\ queue # <<>> => queue = <<MainCall(next)>> /\ waiting /\ ~Busy
  /\ Busy => queue = <<>> /\ serving = MainCall(next) /\ waiting
  /\ \A a \in answers : Before(a.who, next) \/ (a.who = next /\ waiting /\ queue = <<>> /\ ~Busy)

\* The call the agent waits for has reached the model.
Reached == waiting /\ queue = <<>> /\ step \notin {"started", "serving", "forwarding"}

\* A turn of the cassette is a call of the agent's plan.
Planned(t) == /\ t.body[1] \in 1..handed
              /\ t.body[2] \in 1..agent.turns[t.body[1]]
              /\ t.tool = (t.body[2] < agent.turns[t.body[1]])

\* The turns are captured in the order of the agent's calls.
InTurn ==
  /\ \A i \in 1..Len(captured) :
       /\ Planned(captured[i])
       /\ Before(captured[i].body, next) \/ (captured[i].body = next /\ Reached)
  /\ \A i, j \in 1..Len(captured) : i < j => Before(captured[i].body, captured[j].body)

\* The log counts the turns captured, but for one about to be counted.
LogFollows ==
  /\ ~log.divergence
  /\ Len(captured) = IF step = "captured" THEN log.served + 1 ELSE log.served
  /\ step = "captured" => captured[Len(captured)] = Turn(serving)
  /\ log.served > 0 => log.lastTool = captured[log.served].tool

\* The call after a turn.
After(b) == IF b[2] < agent.turns[b[1]] THEN <<b[1], b[2] + 1>> ELSE <<b[1] + 1, 1>>

\* Unless the model failed, the agent is where the cassette ends.
AtTheEnd ==
  /\ step = "failed" => log.upstreamError
  /\ \A a \in answers : a.ok \/ log.upstreamError
  /\ ~log.upstreamError =>
       IF Reached THEN Len(captured) > 0 /\ captured[Len(captured)].body = next
       ELSE IF Len(captured) = 0 THEN next = <<1, 1>>
       ELSE next = After(captured[Len(captured)].body)

Calls == Paced /\ InTurn /\ LogFollows /\ AtTheEnd

\* The first n turns are those of the first d deliveries.
Ends(n, d) == n \in 1..Len(captured) /\ captured[n].body = <<d, agent.turns[d]>>

\* A run that is not minted.
Flawed == run.timedOut \/ run.upstreamError \/ verdict = "error"

Delivering == {"activity", "settled"} \cup Polling

\* wait_for_settle counts from the end of the delivery before to the end of its own.
Counts ==
  /\ pc \in Delivering /\ handed > 1 => Ends(reg.base, handed - 1)
  /\ pc \in {"quiet", "activity2", "inFlight2"} \/ (pc = "settled" /\ reg.settled) =>
       Ends(reg.served, handed) /\ log.served = reg.served
  /\ pc = "write" => Ends(reg.base, handed)

\* Every window ends where its delivery does, unless the run is not minted.
WindowsEnd ==
  /\ Conversation /\ pc \in Delivering \cup {"post"} => Len(windows) = handed - 1
  /\ Conversation /\ pc \in {"start", "write"} => Len(windows) = handed
  /\ Flawed \/ \A d \in 1..Len(windows) : Ends(windows[d][2], d)

\* How each driver goes about its deliveries.
Routes ==
  /\ pc \in Delivering \cup {"write"} => Process /\ Conversation
  /\ pc = "post" => ~Process /\ handed > 0
  /\ pc = "start" /\ Process => handed = 0

\* The run goes on to be judged only if it did not time out.
Judgement == {"calm", "calmActivity", "calmInFlight", "collect", "drop", "judge"}
InTime ==
  /\ run.upstreamError => log.upstreamError
  /\ Process /\ pc \in {"start", "write"} \cup Delivering => ~run.timedOut
  /\ driver \in {"scripted", "http"} /\ verdict = "none" /\ pc \in Judgement => ~run.timedOut
  /\ pc = "judge" => verdict = "none"

\* What was collected was captured.
Collected ==
  /\ Len(collected) <= Len(captured)
  /\ \A i \in 1..Len(collected) : collected[i] = captured[i]

Attributing == Serial => Calls /\ Counts /\ WindowsEnd /\ Routes /\ InTime /\ Collected

\* Calls come one after the other.
LEMMA BeforeOrders ==
  ASSUME NEW u \in Nat \X Nat, NEW v \in Nat \X Nat, NEW w \in Nat \X Nat
  PROVE  /\ ~Before(u, u)
         /\ Before(u, v) /\ Before(v, w) => Before(u, w)
         /\ Before(u, v) => u # v
BY DEF Before

\* The types those calls have.
LEMMA CallFacts ==
  ASSUME Typed
  PROVE  /\ captured \in Seq(TurnType) /\ queue \in Seq(Requests) /\ log \in LogType /\ step \in Steps
         /\ Deliveries \in Nat \ {0} /\ handed \in 0..Deliveries
         /\ \A d \in 1..Deliveries : agent.turns[d] \in Nat \ {0}
         /\ next \in Nat \X Nat /\ next[1] > 0 /\ next[2] > 0
         /\ waiting => next[1] \in 1..Deliveries /\ next[2] \in 1..agent.turns[next[1]]
         /\ \A i \in 1..Len(captured) : captured[i].body \in Nat \X Nat
         /\ \A a \in answers : a.who \in Nat \X Nat /\ a.ok \in BOOLEAN
<1>1. /\ captured \in Seq(TurnType) /\ queue \in Seq(Requests) /\ log \in LogType /\ step \in Steps
      /\ handed \in 0..Deliveries /\ agent \in Agents /\ answers \subseteq [who: Who, ok: BOOLEAN]
      /\ waiting => ~Done
    BY DEF Typed, TypeOK, TypeProxy, TypeAgent, TypeRunner, TurnType, Requests, LogType
<1>2. Deliveries \in Nat \ {0} /\ \A d \in 1..Deliveries : agent.turns[d] \in Nat \ {0}
    BY <1>1, PlansTyped
<1>3. \/ next = <<Deliveries + 1, 1>>
      \/ next \in (1..Deliveries) \X (Nat \ {0}) /\ next[2] <= agent.turns[next[1]]
    BY DEF Typed, TypeOK, TypeAgent
<1>4. next \in Nat \X Nat /\ next[1] > 0 /\ next[2] > 0
    BY <1>2, <1>3
<1>5. waiting => next[1] \in 1..Deliveries /\ next[2] \in 1..agent.turns[next[1]]
    BY <1>1, <1>2, <1>3 DEF Done
<1>6. Bodies \subseteq Nat \X Nat
    BY WhoTyped DEF Bodies
<1>7. \A i \in 1..Len(captured) : captured[i].body \in Nat \X Nat
    <2>1. \A i \in 1..Len(captured) : captured[i] \in TurnType
        BY <1>1
    <2> QED
        BY <2>1, <1>6 DEF TurnType
<1>8. \A a \in answers : a.who \in Nat \X Nat /\ a.ok \in BOOLEAN
    BY <1>1, WhoTyped
<1> QED
    BY <1>1, <1>2, <1>4, <1>5, <1>7, <1>8

\* The main call of an agent that was not edited has its own body.
LEMMA CallMade ==
  ASSUME ~agent.edited, NEW p
  PROVE  /\ MainCall(p).who = p /\ MainCall(p).kind = "model" /\ MainCall(p).body = p
         /\ MainCall(p).tool = (p[2] < agent.turns[p[1]])
BY DEF MainCall

\* The runner hands deliveries out and takes none back; the calls go on.
LEMMA CallsKept ==
  ASSUME Typed, Calls, UNCHANGED <<agent, next, waiting, queue, step, serving, answers, captured, log>>,
         handed' \in Nat, handed <= handed'
  PROVE  Calls'
<1> USE DEF Busy, Reached, MainCall, Deliveries
<1>0. handed \in Nat /\ next[1] \in Nat
    BY CallFacts
<1>1. Paced'
    BY <1>0 DEF Calls, Paced, Before
<1>2. InTurn'
    <2>1. ASSUME NEW i \in 1..Len(captured)
          PROVE  Planned(captured[i]) /\ (Before(captured[i].body, next) \/ (captured[i].body = next /\ Reached))
        BY <2>1 DEF Calls, InTurn
    <2>2. ASSUME NEW i \in 1..Len(captured)
          PROVE  Planned(captured[i])'
        BY <2>1, <1>0 DEF Planned
    <2> QED
        BY <2>1, <2>2 DEF Calls, InTurn, Before
<1>3. LogFollows'
    BY DEF Calls, LogFollows, Turn
<1>4. AtTheEnd'
    BY DEF Calls, AtTheEnd, After
<1> QED
    BY <1>1, <1>2, <1>3, <1>4 DEF Calls

\* What the agent does next follows what it did.
LEMMA CallsOfAgent ==
  ASSUME Typed, Serial, Calls, Agent
  PROVE  Calls'
<1>0. UNCHANGED <<mode, agent, step, serving, captured, answers, log, handed>>
    BY DEF Agent, CallModel, CallOnTheSide, TakeAnswer, AgentExits, Connect, proxyVars, recordVars, setVars,
           runnerVars, handVars
<1>1. /\ next \in Nat \X Nat /\ Deliveries \in Nat /\ handed \in Nat
      /\ \A d \in 1..Deliveries : agent.turns[d] \in Nat
      /\ \A i \in 1..Len(captured) : captured[i].body \in Nat \X Nat
      /\ \A a \in answers : a.who \in Nat \X Nat
      /\ waiting => next[1] \in 1..Deliveries /\ next[2] \in 1..agent.turns[next[1]]
    <2>1. Deliveries \in Nat /\ handed \in 0..Deliveries /\ \A d \in 1..Deliveries : agent.turns[d] \in Nat
        BY CallFacts
    <2> QED
        BY <2>1, CallFacts
<1>l. LogFollows'
    BY <1>0 DEF Calls, LogFollows, Turn
<1>2. CASE CallModel
    <2>1. ~waiting /\ waiting' /\ next[1] <= handed /\ queue' = Append(queue, MainCall(next)) /\ UNCHANGED next
        BY <1>2 DEF CallModel, Connect
    <2>2. queue = <<>> /\ ~Busy
        BY <2>1 DEF Calls, Paced
    <2>3. queue' = <<MainCall(next)>> /\ queue' # <<>> /\ ~Busy'
        BY <2>1, <2>2, <1>0 DEF Busy
    <2>m. \A p : MainCall(p)' = MainCall(p)
        BY <1>0 DEF MainCall, Deliveries
    <2>4. Paced'
        <3>1. \A a \in answers' : Before(a.who, next')
            BY <1>0, <2>1 DEF Calls, Paced
        <3> QED
            BY <3>1, <2>1, <2>3, <2>m, <1>0 DEF Calls, Paced
    <2>5. InTurn'
        <3>1. \A i \in 1..Len(captured) : Before(captured[i].body, next) /\ Planned(captured[i])'
            BY <1>0, <2>1 DEF Calls, InTurn, Reached, Planned
        <3> QED
            BY <3>1, <2>1, <1>0 DEF Calls, InTurn
    <2>6. AtTheEnd'
        <3>1. ~Reached /\ ~Reached'
            BY <2>1, <2>3 DEF Reached
        <3> QED
            BY <3>1, <2>1, <1>0 DEF Calls, AtTheEnd, After
    <2> QED
        BY <1>l, <2>4, <2>5, <2>6 DEF Calls
<1>3. CASE CallOnTheSide
    BY <1>3 DEF CallOnTheSide, Serial
<1>4. CASE TakeAnswer
    <2>1. waiting /\ ~waiting' /\ UNCHANGED queue
        BY <1>4 DEF TakeAnswer, proxyVars
    <2>2. PICK a \in answers : a.who = next
        BY <1>4 DEF TakeAnswer, Answered
    <2>3. queue = <<>> /\ ~Busy /\ Reached
        <3>1. ~Before(a.who, next)
            BY <1>1, <2>2, BeforeOrders
        <3> QED
            BY <3>1, <2>1 DEF Calls, Paced, Reached, Busy
    <2>4. /\ ~log.upstreamError => next' = After(next)
          /\ next' \in Nat \X Nat /\ Before(next, next')
        <3>1. next' = <<Deliveries + 1, 1>> \/ next' = After(next)
            BY <1>4 DEF TakeAnswer, After
        <3>2. /\ <<Deliveries + 1, 1>> \in Nat \X Nat /\ Before(next, <<Deliveries + 1, 1>>)
              /\ After(next) \in Nat \X Nat /\ Before(next, After(next))
            BY <1>1, <2>1 DEF After, Before
        <3>3. ~log.upstreamError => ~Refused(next)
            <4>1. \A b \in answers : b.ok \/ log.upstreamError
                BY DEF Calls, AtTheEnd
            <4> QED
                BY <4>1 DEF Refused
        <3>4. ~log.upstreamError => next' = After(next)
            BY <3>3, <1>4 DEF TakeAnswer, After
        <3> QED
            BY <3>1, <3>2, <3>4
    <2>5. Paced'
        <3>1. \A b \in answers : Before(b.who, next) \/ b.who = next
            BY DEF Calls, Paced
        <3>2. \A b \in answers : Before(b.who, next')
            BY <3>1, <2>4, <1>1, BeforeOrders
        <3> QED
            BY <3>2, <2>1, <2>3, <1>0 DEF Calls, Paced, Busy
    <2>6. InTurn'
        <3>1. \A i \in 1..Len(captured) : Before(captured[i].body, next) \/ captured[i].body = next
            BY DEF Calls, InTurn
        <3>2. \A i \in 1..Len(captured) : Before(captured[i].body, next')
            BY <3>1, <2>4, <1>1, BeforeOrders
        <3>3. \A i \in 1..Len(captured) : Planned(captured[i])'
            BY <1>0 DEF Calls, InTurn, Planned
        <3> QED
            BY <3>2, <3>3, <1>0 DEF Calls, InTurn
    <2>7. AtTheEnd'
        <3>1. ~Reached'
            BY <2>1 DEF Reached
        <3>2. ~log.upstreamError =>
                Len(captured) > 0 /\ Len(captured) # 0 /\ next' = After(captured[Len(captured)].body)
            BY <2>3, <2>4 DEF Calls, AtTheEnd
        <3> QED
            BY <3>1, <3>2, <1>0 DEF Calls, AtTheEnd, After
    <2> QED
        BY <1>l, <2>5, <2>6, <2>7 DEF Calls
<1>5. CASE AgentExits
    BY <1>5, <1>0, <1>1, CallsKept DEF AgentExits, proxyVars
<1> QED
    BY <1>2, <1>3, <1>4, <1>5 DEF Agent

\* The proxy serves the call the agent waits for, and captures it in its turn.
LEMMA CallsOfProxy ==
  ASSUME Typed, Serial, Calls, ProxyThread(TRUE)
  PROVE  Calls'
<1>0. UNCHANGED <<mode, agent, next, waiting, handed>>
    BY DEF ProxyThread, Accept, Start, Refuse, ServeReplay, Forward, Capture, Count, UpstreamFails,
           Respond, Unmark, Finish, recordVars, setVars, agentVars, runnerVars, handVars
<1>1. /\ next \in Nat \X Nat /\ captured \in Seq(TurnType) /\ log \in LogType /\ handed \in Nat
      /\ \A i \in 1..Len(captured) : captured[i].body \in Nat \X Nat
    <2>1. handed \in 0..Deliveries /\ Deliveries \in Nat
        BY CallFacts
    <2> QED
        BY <2>1, CallFacts
<1>m. \A p : MainCall(p)' = MainCall(p)
    BY <1>0 DEF MainCall, Deliveries
<1>p. \A t : Planned(t)' = Planned(t)
    BY <1>0 DEF Planned
<1>b. \A v : After(v)' = After(v)
    BY <1>0 DEF After
<1>2. CASE Accept
    <2>1. /\ queue # <<>> /\ serving' = Head(queue) /\ queue' = Tail(queue) /\ step = "idle" /\ step' = "started"
          /\ UNCHANGED <<log, captured, answers>>
        BY <1>2 DEF Accept
    <2>2. queue = <<MainCall(next)>> /\ waiting /\ ~Busy
        BY <2>1 DEF Calls, Paced
    <2>3. serving' = MainCall(next) /\ queue' = <<>> /\ Busy' /\ ~Reached /\ ~Reached'
        BY <2>1, <2>2 DEF Busy, Reached
    <2>4. Paced'
        <3>1. \A a \in answers : Before(a.who, next)
            BY <2>1 DEF Calls, Paced
        <3> QED
            BY <3>1, <2>1, <2>2, <2>3, <1>0, <1>m DEF Calls, Paced
    <2>5. InTurn'
        BY <2>1, <2>3, <1>0, <1>p DEF Calls, InTurn
    <2>6. LogFollows'
        BY <2>1 DEF Calls, LogFollows
    <2>7. AtTheEnd'
        BY <2>1, <2>3, <1>0, <1>b DEF Calls, AtTheEnd
    <2> QED
        BY <2>4, <2>5, <2>6, <2>7 DEF Calls
<1>3. CASE Refuse(TRUE) \/ ServeReplay
    <2>1. step = "serving" /\ (serving.kind # "model" \/ mode = "replay")
        BY <1>3 DEF Refuse, ServeReplay
    <2>2. serving = MainCall(next) /\ mode = "record"
        BY <2>1 DEF Calls, Paced, Busy, Serial
    <2> QED
        BY <2>1, <2>2 DEF MainCall
<1>4. CASE Start \/ Forward
    <2>1. /\ step \in {"started", "serving"} /\ step' \in {"serving", "forwarding"}
          /\ UNCHANGED <<queue, serving, log, captured, answers>>
        BY <1>4 DEF Start, Forward
    <2>2. Busy /\ Busy' /\ ~Reached /\ ~Reached'
        BY <2>1 DEF Busy, Reached
    <2>4. Paced'
        BY <2>1, <2>2, <1>0, <1>m DEF Calls, Paced
    <2>5. InTurn'
        BY <2>1, <2>2, <1>0, <1>p DEF Calls, InTurn
    <2>6. LogFollows'
        BY <2>1 DEF Calls, LogFollows
    <2>7. AtTheEnd'
        BY <2>1, <2>2, <1>0, <1>b DEF Calls, AtTheEnd
    <2> QED
        BY <2>4, <2>5, <2>6, <2>7 DEF Calls
<1>5. CASE Capture
    <2>1. /\ step = "forwarding" /\ step' = "captured" /\ captured' = Append(captured, Turn(serving))
          /\ UNCHANGED <<queue, serving, log, answers>>
        BY <1>5 DEF Capture
    <2>2. Busy /\ Busy' /\ ~Reached /\ queue = <<>> /\ waiting /\ serving = MainCall(next) /\ ~agent.edited
        BY <2>1 DEF Busy, Reached, Calls, Paced
    <2>3. Reached'
        BY <2>1, <2>2, <1>0 DEF Reached
    <2>t. Turn(serving).body = next /\ Turn(serving).tool = (next[2] < agent.turns[next[1]])
        BY <2>2, CallMade DEF Turn
    <2> DEFINE n == Len(captured)
    <2>n. n \in Nat
        BY <1>1
    <2>c. /\ Len(captured') = n + 1 /\ captured'[n + 1] = Turn(serving)
          /\ \A i \in 1..n : captured'[i] = captured[i]
        BY <2>1, <1>1
    <2> HIDE DEF n
    <2>4. Paced'
        BY <2>1, <2>2, <1>0, <1>m DEF Calls, Paced
    <2>i. \A i \in 1..(n + 1) : i \in 1..n \/ i = n + 1
        BY <2>n
    <2>5. InTurn'
        <3>1. \A i \in 1..n : Planned(captured[i]) /\ Before(captured[i].body, next)
            BY <2>2 DEF Calls, InTurn, n
        <3>2. Planned(Turn(serving))
            <4>1. next[1] \in 1..handed /\ next[2] \in 1..agent.turns[next[1]]
                BY <2>2, <1>1, CallFacts DEF Calls, Paced
            <4> QED
                BY <4>1, <2>t DEF Planned
        <3>3. \A i \in 1..(n + 1) : /\ Planned(captured'[i])
                                    /\ Before(captured'[i].body, next) \/ (captured'[i].body = next /\ Reached')
            BY <3>1, <3>2, <2>3, <2>t, <2>c, <2>i
        <3>4. \A i, j \in 1..(n + 1) : i < j => Before(captured'[i].body, captured'[j].body)
            <4>1. ASSUME NEW i \in 1..(n + 1), NEW j \in 1..(n + 1), i < j
                  PROVE  Before(captured'[i].body, captured'[j].body)
                <5>1. i \in 1..n
                    BY <4>1, <2>n
                <5>2. CASE j = n + 1
                    BY <5>1, <5>2, <3>1, <2>t, <2>c
                <5>3. CASE j \in 1..n
                    BY <5>1, <5>3, <4>1, <2>c DEF Calls, InTurn, n
                <5> QED
                    BY <5>2, <5>3, <2>i
            <4> QED
                BY <4>1
        <3> QED
            BY <3>3, <3>4, <2>c, <1>0, <1>p DEF InTurn
    <2>6. LogFollows'
        <3>1. n = log.served /\ log.served \in Nat
            BY <2>1, <1>1 DEF Calls, LogFollows, n, LogType
        <3>2. log.served > 0 => captured'[log.served] = captured[log.served]
            BY <3>1, <2>c
        <3> QED
            BY <3>1, <3>2, <2>1, <2>c DEF Calls, LogFollows
    <2>7. AtTheEnd'
        BY <2>1, <2>3, <2>t, <2>c, <2>n, <1>0 DEF Calls, AtTheEnd
    <2> QED
        BY <2>4, <2>5, <2>6, <2>7 DEF Calls
<1>6. CASE Count \/ UpstreamFails
    <2>1. /\ step \in {"captured", "forwarding"} /\ step' \in {"logged", "failed"}
          /\ UNCHANGED <<queue, serving, captured, answers>>
        BY <1>6 DEF Count, UpstreamFails
    <2>2. Busy /\ Busy' /\ waiting /\ queue = <<>> /\ Reached'
        BY <2>1, <1>0 DEF Busy, Calls, Paced, Reached
    <2>3. step = "captured" => Reached
        BY <2>2 DEF Reached
    <2>4. Paced'
        BY <2>1, <2>2, <1>0, <1>m DEF Calls, Paced
    <2>5. InTurn'
        BY <2>1, <2>2, <1>0, <1>p DEF Calls, InTurn
    <2>6. CASE Count
        <3>1. /\ step = "captured" /\ step' = "logged"
              /\ log' = [log EXCEPT !.served = @ + 1, !.lastTool = serving.tool]
            BY <2>6 DEF Count
        <3>2. /\ log'.served = log.served + 1 /\ log'.lastTool = serving.tool
              /\ log'.divergence = log.divergence /\ log'.upstreamError = log.upstreamError
            BY <3>1, <1>1 DEF LogType
        <3>3. Len(captured) = log.served + 1 /\ captured[Len(captured)].tool = serving.tool
            BY <3>1 DEF Calls, LogFollows, Turn
        <3>4. LogFollows'
            BY <3>1, <3>2, <3>3, <2>1 DEF Calls, LogFollows
        <3>5. AtTheEnd'
            BY <3>1, <3>2, <2>1, <2>2, <2>3, <1>0, <1>b DEF Calls, AtTheEnd
        <3> QED
            BY <2>4, <2>5, <3>4, <3>5 DEF Calls
    <2>7. CASE UpstreamFails
        <3>1. step = "forwarding" /\ step' = "failed" /\ log' = [log EXCEPT !.upstreamError = TRUE]
            BY <2>7 DEF UpstreamFails
        <3>2. /\ log'.served = log.served /\ log'.lastTool = log.lastTool
              /\ log'.divergence = log.divergence /\ log'.upstreamError
            BY <3>1, <1>1 DEF LogType
        <3>4. LogFollows'
            BY <3>1, <3>2, <2>1 DEF Calls, LogFollows
        <3>5. AtTheEnd'
            BY <3>2 DEF AtTheEnd
        <3> QED
            BY <2>4, <2>5, <3>4, <3>5 DEF Calls
    <2> QED
        BY <1>6, <2>6, <2>7
<1>7. CASE Respond
    <2>1. /\ answers' = answers \cup {[who |-> serving.who, ok |-> step = "logged"]}
          /\ step \in {"logged", "failed"} /\ step' = "answered"
          /\ UNCHANGED <<queue, serving, captured, log>>
        BY <1>7 DEF Respond
    <2>2. Busy /\ ~Busy' /\ waiting /\ queue = <<>> /\ Reached /\ Reached' /\ serving.who = next
        BY <2>1, <1>0, CallMade DEF Busy, Calls, Paced, Reached
    <2>a. \A a \in answers' : a \in answers \/ (a.who = next /\ a.ok = (step = "logged"))
        BY <2>1, <2>2
    <2>4. Paced'
        <3>1. \A a \in answers : Before(a.who, next)
            BY <2>2 DEF Calls, Paced
        <3> QED
            BY <3>1, <2>a, <2>1, <2>2, <1>0 DEF Calls, Paced
    <2>5. InTurn'
        BY <2>1, <2>2, <1>0, <1>p DEF Calls, InTurn
    <2>6. LogFollows'
        BY <2>1 DEF Calls, LogFollows
    <2>7. AtTheEnd'
        <3>1. \A a \in answers' : a.ok \/ log.upstreamError
            BY <2>a, <2>1 DEF Calls, AtTheEnd
        <3> QED
            BY <3>1, <2>1, <2>2, <1>0, <1>b DEF Calls, AtTheEnd
    <2> QED
        BY <2>4, <2>5, <2>6, <2>7 DEF Calls
<1>8. CASE Unmark \/ Finish
    <2>1. /\ step \in {"answered", "finishing"} /\ step' \in {"finishing", "idle"}
          /\ UNCHANGED <<queue, captured, log, answers>>
        BY <1>8 DEF Unmark, Finish
    <2>2. ~Busy /\ ~Busy' /\ Reached' = Reached
        BY <2>1, <1>0 DEF Busy, Reached
    <2>4. Paced'
        BY <2>1, <2>2, <1>0, <1>m DEF Calls, Paced
    <2>5. InTurn'
        BY <2>1, <2>2, <1>0, <1>p DEF Calls, InTurn
    <2>6. LogFollows'
        BY <2>1 DEF Calls, LogFollows
    <2>7. AtTheEnd'
        BY <2>1, <2>2, <1>0, <1>b DEF Calls, AtTheEnd
    <2> QED
        BY <2>4, <2>5, <2>6, <2>7 DEF Calls
<1> QED
    BY <1>2, <1>3, <1>4, <1>5, <1>6, <1>7, <1>8 DEF ProxyThread

\* What the runner keeps by.
Bookkeeping == Counts /\ WindowsEnd /\ Routes /\ InTime /\ Collected

\* The end of a delivery stays where it is while turns are captured.
LEMMA EndsStay ==
  ASSUME Typed, UNCHANGED agent, captured' = captured \/ captured' = Append(captured, Turn(serving))
  PROVE  /\ \A n, d : Ends(n, d) => Ends(n, d)'
         /\ Len(captured) <= Len(captured') /\ \A i \in 1..Len(captured) : captured'[i] = captured[i]
<1>1. captured \in Seq(TurnType)
    BY CallFacts
<1>2. /\ Len(captured) <= Len(captured') /\ \A i \in 1..Len(captured) : captured'[i] = captured[i]
      /\ \A i \in 1..Len(captured) : i \in 1..Len(captured')
    BY <1>1
<1> QED
    BY <1>2 DEF Ends

\* It divides the turns of the deliveries up to it from those after it.
LEMMA EndsDivide ==
  ASSUME Typed, Calls, NEW n, NEW d \in 1..Deliveries, Ends(n, d), NEW i \in 1..Len(captured)
  PROVE  /\ i <= n => captured[i].body[1] <= d
         /\ i > n => captured[i].body[1] > d
<1>1. /\ n \in 1..Len(captured) /\ captured[n].body = <<d, agent.turns[d]>>
      /\ captured[i].body \in Nat \X Nat /\ d \in Nat /\ agent.turns[d] \in Nat /\ Len(captured) \in Nat
    <2>1. Deliveries \in Nat /\ agent.turns[d] \in Nat /\ captured \in Seq(TurnType)
        BY CallFacts
    <2> QED
        BY <2>1, CallFacts DEF Ends
<1>2. i < n => Before(captured[i].body, captured[n].body)
    BY <1>1 DEF Calls, InTurn
<1>3. n < i => Before(captured[n].body, captured[i].body)
    BY <1>1 DEF Calls, InTurn
<1>4. captured[i].body[2] <= agent.turns[captured[i].body[1]]
    BY DEF Calls, InTurn, Planned
<1>5. captured[n].body[1] = d /\ captured[n].body[2] = agent.turns[d]
    BY <1>1
<1>6. i < n => captured[i].body[1] <= d
    BY <1>1, <1>2, <1>5 DEF Before
<1>7. i = n => captured[i].body[1] <= d
    BY <1>1, <1>5
<1>8. i > n => captured[i].body[1] > d
    <2> SUFFICES ASSUME i > n, captured[i].body[1] = d PROVE FALSE
        BY <1>1, <1>3, <1>5 DEF Before
    <2>1. agent.turns[d] < captured[i].body[2]
        BY <1>1, <1>3, <1>5 DEF Before
    <2>2. captured[i].body[2] <= agent.turns[d]
        BY <1>4
    <2> QED
        BY <2>1, <2>2, <1>1
<1>9. i < n \/ i = n \/ i > n
    BY <1>1
<1> QED
    BY <1>6, <1>7, <1>8, <1>9, <1>1

\* No turn follows the end of the last delivery handed out.
LEMMA EndsLast ==
  ASSUME Typed, Calls, NEW n, handed # 0, Ends(n, handed)
  PROVE  n = Len(captured)
<1>1. n \in 1..Len(captured) /\ Len(captured) \in Nat /\ handed \in 1..Deliveries /\ handed \in Nat
    <2>1. Deliveries \in Nat /\ handed \in 0..Deliveries /\ captured \in Seq(TurnType)
        BY CallFacts
    <2> QED
        BY <2>1 DEF Ends
<1>2. CASE n < Len(captured)
    <2>1. n + 1 \in 1..Len(captured) /\ n + 1 > n
        BY <1>1, <1>2
    <2>2. captured[n + 1].body[1] > handed
        BY <2>1, <1>1, EndsDivide
    <2>3. captured[n + 1].body[1] <= handed /\ captured[n + 1].body[1] \in Nat
        BY <2>1, <1>1, CallFacts DEF Calls, InTurn, Planned
    <2> QED
        BY <2>2, <2>3, <1>1
<1> QED
    BY <1>1, <1>2

\* What the agent and the proxy do changes nothing the runner has written down.
LEMMA BookkeepingKept ==
  ASSUME Typed, Serial, Calls, Bookkeeping, Agent \/ ProxyThread(TRUE)
  PROVE  Bookkeeping'
<1>0. UNCHANGED <<driver, agent, handed, pc, reg, windows, run, collected, verdict>>
    BY DEF Agent, CallModel, CallOnTheSide, TakeAnswer, AgentExits, Connect, ProxyThread, Accept, Start,
           Refuse, ServeReplay, Forward, Capture, Count, UpstreamFails, Respond, Unmark, Finish,
           setVars, runnerVars, handVars, resultVars
<1>1. captured' = captured \/ captured' = Append(captured, Turn(serving))
    BY DEF Agent, CallModel, CallOnTheSide, TakeAnswer, AgentExits, Connect, ProxyThread, Accept, Start,
           Refuse, ServeReplay, Forward, Capture, Count, UpstreamFails, Respond, Unmark, Finish, proxyVars
<1>2. /\ \A n, d : Ends(n, d) => Ends(n, d)'
      /\ Len(captured) <= Len(captured') /\ \A i \in 1..Len(captured) : captured'[i] = captured[i]
    BY <1>0, <1>1, EndsStay
<1>3. /\ log' = log \/ step = "captured" \/ ServeReplay \/ UpstreamFails
      /\ log'.served # log.served => step = "captured" \/ ServeReplay
    <2>1. log \in LogType
        BY CallFacts
    <2>2. CASE UpstreamFails
        BY <2>1, <2>2 DEF UpstreamFails, LogType
    <2>3. CASE ~UpstreamFails
        BY <2>3 DEF Agent, CallModel, CallOnTheSide, TakeAnswer, AgentExits, Connect, ProxyThread, Accept, Start,
           Refuse, Forward, Capture, Count, Respond, Unmark, Finish, proxyVars
    <2> QED
        BY <2>2, <2>3
<1>4. ~ServeReplay
    BY DEF ServeReplay, Serial
<1>5. log.upstreamError => log'.upstreamError
    <2>1. log \in LogType
        BY CallFacts
    <2>2. CASE UpstreamFails
        BY <2>1, <2>2 DEF UpstreamFails, LogType
    <2>3. CASE Count
        BY <2>1, <2>3 DEF Count, LogType
    <2>4. CASE ~UpstreamFails /\ ~Count
        <3>1. UNCHANGED log
            BY <2>4, <1>4 DEF Agent, CallModel, CallOnTheSide, TakeAnswer, AgentExits, Connect, ProxyThread,
                              Accept, Start, Refuse, Forward, Capture, Respond, Unmark, Finish, proxyVars
        <3> QED
            BY <3>1
    <2> QED
        BY <2>2, <2>3, <2>4
<1>6. ASSUME handed # 0, Ends(reg.served, handed), log.served = reg.served
      PROVE  log'.served = reg.served
    <2>1. reg.served = Len(captured)
        BY <1>6, EndsLast
    <2>2. log.served \in Nat
        BY CallFacts DEF LogType
    <2>3. step # "captured"
        BY <2>1, <2>2, <1>6 DEF Calls, LogFollows
    <2> QED
        BY <2>3, <1>3, <1>4, <1>6
<1>7. Counts'
    <2>1. handed = 0 => ~Ends(reg.served, handed)
        <3> SUFFICES ASSUME Ends(reg.served, handed), handed = 0 PROVE FALSE
            OBVIOUS
        <3>1. captured[reg.served].body = <<0, agent.turns[0]>> /\ captured[reg.served].body[1] \in 1..handed
            BY DEF Ends, Calls, InTurn, Planned
        <3> QED
            BY <3>1
    <2>2. pc \in Delivering /\ handed > 1 => Ends(reg.base, handed - 1)'
        BY <1>0, <1>2 DEF Bookkeeping, Counts
    <2>3. pc \in {"quiet", "activity2", "inFlight2"} \/ (pc = "settled" /\ reg.settled) =>
            Ends(reg.served, handed)' /\ log'.served = reg.served
        BY <1>0, <1>2, <1>6, <2>1 DEF Bookkeeping, Counts
    <2>4. pc = "write" => Ends(reg.base, handed)'
        BY <1>0, <1>2 DEF Bookkeeping, Counts
    <2> QED
        BY <2>2, <2>3, <2>4, <1>0 DEF Counts
<1>8. WindowsEnd'
    <2>1. Flawed' \/ \A d \in 1..Len(windows) : Ends(windows[d][2], d)'
        BY <1>0, <1>2 DEF Bookkeeping, WindowsEnd, Flawed
    <2> QED
        BY <2>1, <1>0 DEF Bookkeeping, WindowsEnd, Conversation
<1>9. Routes' /\ InTime'
    BY <1>0, <1>5 DEF Bookkeeping, Routes, InTime, Process, Conversation
<1>10. Collected'
    <2>1. collected \in Seq(TurnType) /\ captured \in Seq(TurnType)
        BY CallFacts DEF Typed, TypeOK, TypeRunner, TurnType
    <2>2. Len(collected) \in Nat /\ Len(captured) \in Nat /\ Len(captured') \in Nat
        BY <2>1, <1>1
    <2>3. \A i \in 1..Len(collected) : i \in 1..Len(captured)
        BY <2>2 DEF Bookkeeping, Collected
    <2>4. Len(collected) <= Len(captured')
        BY <2>2, <1>2 DEF Bookkeeping, Collected
    <2> QED
        BY <2>3, <2>4, <1>0, <1>2 DEF Bookkeeping, Collected
<1> QED
    BY <1>7, <1>8, <1>9, <1>10 DEF Bookkeeping

\* A run that is given up is not minted.
LEMMA GivenUpKept ==
  ASSUME Bookkeeping, Fail \/ Unreachable, UNCHANGED <<driver, log, captured>>
  PROVE  Bookkeeping'
<1>1. pc' = "drop" /\ verdict' = "error" /\ UNCHANGED <<run, collected>>
    BY DEF Fail, Unreachable, Goto
<1>2. Counts'
    BY <1>1 DEF Counts, Delivering, Polling
<1>3. WindowsEnd'
    BY <1>1 DEF WindowsEnd, Flawed, Delivering, Polling
<1>4. Routes' /\ InTime' /\ Collected'
    BY <1>1 DEF Bookkeeping, Routes, InTime, Collected, Delivering, Polling
<1> QED
    BY <1>2, <1>3, <1>4 DEF Bookkeeping

\* What is left once the deliveries are over.
Aftermath == {"exit", "driven"} \cup Judgement \cup {"over"}

LEMMA OverKept ==
  ASSUME Bookkeeping, pc' \in Aftermath, UNCHANGED <<driver, agent, log, captured>>,
         Flawed' \/ \A d \in 1..Len(windows') : Ends(windows'[d][2], d),
         run'.upstreamError => log.upstreamError,
         driver \in {"scripted", "http"} /\ verdict' = "none" /\ pc' \in Judgement => ~run'.timedOut,
         pc' = "judge" => verdict' = "none",
         Collected'
  PROVE  Bookkeeping'
<1>1. pc' \notin Delivering \cup {"write", "post", "start"}
    BY DEF Aftermath, Judgement, Delivering, Polling
<1>2. Counts'
    BY <1>1 DEF Counts, Delivering, Polling
<1>3. WindowsEnd'
    BY <1>1 DEF WindowsEnd, Ends
<1>4. Routes' /\ InTime'
    BY <1>1 DEF Routes, InTime
<1> QED
    BY <1>2, <1>3, <1>4 DEF Bookkeeping

\* The runner still waits for a delivery to settle: it counts from where it did.
LEMMA SettlingKept ==
  ASSUME Typed, Serial, Calls, Bookkeeping, Settling
  PROVE  Bookkeeping'
<1>0. /\ UNCHANGED <<driver, agent, captured, log, handed, windows, run, collected, verdict>>
      /\ pc \in Delivering
    BY DEF Settling, ReadActivity, ReadInFlight, ReadLog, ReadServed, ReadActivityAgain, ReadInFlightAgain,
           StillQuiet, KeepAgent, KeepResults, resultVars, setVars, handVars, proxyVars, Delivering, Polling
<1>1. reg \in RegType /\ log \in LogType /\ log.served \in Nat /\ reg.base \in Nat /\ reg.served \in Nat
    BY DEF Typed, TypeOK, TypeProxy, TypeRunner, RegType, LogType
<1>f. Forget.base = reg.base
    BY <1>1 DEF Forget, RegType
<1>2. ASSUME NEW ok \in BOOLEAN, NEW n \in Nat, Settle(ok, n)
      PROVE  pc' = "settled" /\ reg'.base = reg.base /\ reg'.served = n /\ reg'.settled = ok
    BY <1>2, <1>1 DEF Settle, Goto, Forget, RegType
<1>3. ASSUME NEW n \in Nat, PollAgain(n)
      PROVE  /\ pc' = "activity" \/ (pc' = "settled" /\ ~reg'.settled)
             /\ reg'.base = reg.base
    BY <1>3, <1>2, <1>f DEF PollAgain
<1>4. ASSUME pc' \in Delivering, reg'.base = reg.base,
             pc' \in {"quiet", "activity2", "inFlight2"} \/ (pc' = "settled" /\ reg'.settled) =>
               Ends(reg'.served, handed) /\ log.served = reg'.served
      PROVE  Bookkeeping'
    <2>1. Counts'
        BY <1>0, <1>4 DEF Bookkeeping, Counts, Ends, Delivering, Polling
    <2>2. WindowsEnd'
        BY <1>0, <1>4 DEF Bookkeeping, WindowsEnd, Ends, Flawed, Conversation, Delivering, Polling
    <2>3. Routes' /\ InTime' /\ Collected'
        BY <1>0, <1>4 DEF Bookkeeping, Routes, InTime, Collected, Process, Conversation, Delivering, Polling,
                          Judgement
    <2> QED
        BY <2>1, <2>2, <2>3 DEF Bookkeeping
<1>5. ASSUME MaySettle
      PROVE  Ends(log.served, handed)
    <2> DEFINE n == log.served
    <2>n. n \in Nat /\ n > reg.base /\ ~log.lastTool
        BY <1>1, <1>5 DEF MaySettle
    <2>1. n > 0 /\ n \in 1..Len(captured)
        <3>1. captured \in Seq(TurnType) /\ Len(captured) \in {n, n + 1}
            BY CallFacts DEF Calls, LogFollows
        <3> QED
            BY <3>1, <2>n, <1>1
    <2> DEFINE b == captured[n].body
    <2>2. b[1] \in 1..handed /\ b[2] \in 1..agent.turns[b[1]] /\ ~(b[2] < agent.turns[b[1]])
        BY <2>1, <2>n DEF Calls, InTurn, Planned, LogFollows
    <2>3. handed \in 0..Deliveries /\ Deliveries \in Nat /\ b \in Nat \X Nat
        BY <2>1, CallFacts
    <2>4. b[1] \in 1..Deliveries /\ agent.turns[b[1]] \in Nat
        <3>1. b[1] \in 1..Deliveries
            BY <2>2, <2>3
        <3> QED
            BY <3>1, CallFacts
    <2>5. b[1] = handed
        <3>1. CASE handed > 1
            <4>1. Ends(reg.base, handed - 1) /\ handed - 1 \in 1..Deliveries
                BY <3>1, <1>0, <2>3 DEF Bookkeeping, Counts
            <4>2. b[1] > handed - 1
                BY <4>1, <2>1, <2>n, EndsDivide
            <4> QED
                BY <4>2, <2>2, <2>3
        <3>2. CASE ~(handed > 1)
            BY <3>2, <2>2, <2>3
        <3> QED
            BY <3>1, <3>2
    <2>6. b = <<handed, agent.turns[handed]>>
        <3>1. b = <<b[1], b[2]>> /\ b[2] = agent.turns[b[1]]
            BY <2>2, <2>3, <2>4
        <3> QED
            BY <3>1, <2>5
    <2> QED
        BY <2>1, <2>6 DEF Ends
<1>6. CASE ReadActivity \/ ReadInFlight
    <2>1. reg'.base = reg.base /\ pc' \in {"inFlight", "log"}
        BY <1>6, <1>1 DEF ReadActivity, ReadInFlight, RegType
    <2> QED
        BY <2>1, <1>4 DEF Delivering, Polling
<1>7. CASE ReadLog
    <2>1. ~log.divergence
        BY DEF Calls, LogFollows
    <2>2. CASE PollAgain(log.served)
        BY <2>2, <1>1, <1>3, <1>4 DEF Delivering, Polling
    <2>3. CASE MaySettle /\ reg' = [reg EXCEPT !.served = log.served] /\ pc' = "quiet"
        <3>1. reg'.base = reg.base /\ reg'.served = log.served
            BY <2>3, <1>1 DEF RegType
        <3> QED
            BY <3>1, <2>3, <1>4, <1>5 DEF Delivering, Polling
    <2> QED
        BY <2>1, <2>2, <2>3, <1>7 DEF ReadLog
<1>8. CASE ReadServed \/ ReadActivityAgain \/ ReadInFlightAgain
    <2>1. Ends(reg.served, handed) /\ log.served = reg.served
        BY <1>8 DEF ReadServed, ReadActivityAgain, ReadInFlightAgain, Bookkeeping, Counts
    <2>2. CASE PollAgain(reg.served)
        BY <2>2, <1>1, <1>3, <1>4 DEF Delivering, Polling
    <2>3. CASE Settle(TRUE, reg.served)
        BY <2>3, <2>1, <1>1, <1>2, <1>4 DEF Delivering, Polling
    <2>4. CASE pc' \in {"activity2", "inFlight2"} /\ UNCHANGED reg
        BY <2>4, <2>1, <1>4 DEF Delivering, Polling
    <2> QED
        BY <2>2, <2>3, <2>4, <1>8 DEF ReadServed, ReadActivityAgain, ReadInFlightAgain, StillQuiet
<1> QED
    BY <1>6, <1>7, <1>8 DEF Settling

\* One more window.
LEMMA WindowAdded ==
  ASSUME Typed, NEW w, windows' = Append(windows, w)
  PROVE  /\ Len(windows) \in Nat /\ Len(windows') = Len(windows) + 1
         /\ (\A d \in 1..Len(windows) : Ends(windows[d][2], d)) /\ Ends(w[2], Len(windows) + 1)
              => \A d \in 1..Len(windows') : Ends(windows'[d][2], d)
<1> DEFINE n == Len(windows)
<1>1. windows \in Seq(Nat \X Nat)
    BY DEF Typed, TypeOK, TypeRunner
<1>2. /\ n \in Nat /\ Len(windows') = n + 1 /\ windows'[n + 1] = w
      /\ \A d \in 1..n : windows'[d] = windows[d]
    BY <1>1
<1> HIDE DEF n
<1>3. \A d \in 1..(n + 1) : d \in 1..n \/ d = n + 1
    BY <1>2
<1>4. ASSUME \A d \in 1..n : Ends(windows[d][2], d), Ends(w[2], n + 1), NEW d \in 1..(n + 1)
      PROVE  Ends(windows'[d][2], d)
    BY <1>2, <1>3, <1>4
<1> QED
    BY <1>2, <1>4 DEF n

\* A delivery that settled ends where its window does; one that did not is the
\* last of a run that is not minted.
LEMMA DeliveredKept ==
  ASSUME Typed, Serial, Calls, Bookkeeping, Delivered
  PROVE  Bookkeeping'
<1>0. UNCHANGED <<driver, agent, captured, log, handed, collected>> /\ pc = "settled" /\ reg'.base = reg.served
    <2>1. reg \in RegType
        BY DEF Typed, TypeOK, TypeRunner, RegType
    <2> QED
        BY <2>1 DEF Delivered, Fail, KeepAgent, setVars, proxyVars, Forget, RegType
<1>1. run \in RunType /\ run.timedOut \in BOOLEAN /\ run.upstreamError \in BOOLEAN
    BY DEF Typed, TypeOK, TypeRunner, RunType
<1>2. /\ Process /\ Conversation /\ ~run.timedOut /\ Len(windows) = handed - 1
      /\ Flawed \/ \A d \in 1..Len(windows) : Ends(windows[d][2], d)
      /\ reg.settled => Ends(reg.served, handed) /\ log.served = reg.served
    BY <1>0 DEF Bookkeeping, Counts, WindowsEnd, Routes, InTime, Delivering
<1>3. handed \in Nat /\ Len(windows) \in Nat /\ Len(windows) + 1 = handed /\ Len(windows') = handed
    <2>1. windows' = Append(windows, Window)
        BY DEF Delivered
    <2>2. handed \in 0..Deliveries /\ Deliveries \in Nat
        BY CallFacts
    <2> QED
        BY <2>1, <2>2, <1>2, WindowAdded
<1>4. reg.settled /\ ~Flawed => \A d \in 1..Len(windows') : Ends(windows'[d][2], d)
    <2>1. windows' = Append(windows, Window)
        BY DEF Delivered
    <2>2. reg.settled => Ends(Window[2], Len(windows) + 1)
        BY <1>2, <1>3 DEF Window
    <2> QED
        BY <2>1, <2>2, <1>2, WindowAdded
<1>5. CASE Fail
    BY <1>0, <1>5, GivenUpKept
<1>6. CASE /\ reg.settled /\ Goto("write") /\ KeepAgent /\ UNCHANGED <<run, eof, collected, owed, trace, verdict>>
    <2>1. pc' = "write" /\ UNCHANGED <<run, verdict>> /\ "write" \notin Delivering
        BY <1>6 DEF Goto, Delivering, Polling
    <2>2. Counts'
        BY <2>1, <1>0, <1>2, <1>6 DEF Counts, Ends
    <2>3. WindowsEnd'
        BY <2>1, <1>0, <1>3, <1>4, <1>6 DEF WindowsEnd, Ends, Flawed
    <2>4. Routes' /\ InTime' /\ Collected'
        BY <2>1, <1>0, <1>2 DEF Bookkeeping, Routes, InTime, Collected, Process, Conversation, Judgement
    <2> QED
        BY <2>2, <2>3, <2>4 DEF Bookkeeping
<1>7. CASE /\ run' = [run EXCEPT !.timedOut = ~reg.settled] /\ Goto("exit")
           /\ UNCHANGED <<collected, owed, trace, verdict>>
    <2>1. pc' = "exit" /\ run'.upstreamError = run.upstreamError /\ run'.timedOut = ~reg.settled /\ UNCHANGED verdict
        BY <1>1, <1>7 DEF Goto, RunType
    <2>2. Flawed' \/ \A d \in 1..Len(windows') : Ends(windows'[d][2], d)
        BY <2>1, <1>2, <1>4 DEF Flawed
    <2>3. run'.upstreamError => log.upstreamError
        BY <2>1 DEF Bookkeeping, InTime
    <2>4. pc' \in Aftermath /\ pc' \notin Judgement /\ pc' # "judge"
        BY <2>1 DEF Aftermath, Judgement
    <2>5. Collected'
        BY <1>0 DEF Bookkeeping, Collected
    <2> QED
        BY <2>2, <2>3, <2>4, <2>5, <1>0, OverKept
<1> QED
    BY <1>5, <1>6, <1>7 DEF Delivered

\* A service that answers has made its calls, unless the model failed or the
\* deadline passed.
LEMMA PostedKept ==
  ASSUME Typed, Serial, Calls, Bookkeeping, Posted
  PROVE  Bookkeeping'
<1>0. UNCHANGED <<driver, agent, captured, log, handed>> /\ pc = "post"
    BY DEF Posted, Unreachable, KeepAgent, setVars, proxyVars, handVars
<1>1. CASE Unreachable
    BY <1>0, <1>1, GivenUpKept
<1>2. CASE ~Unreachable
    <2>1. /\ Idle \/ expired
          /\ Snapshot(expired)
          /\ windows' = Append(windows, <<reg.before, log.served>>)
          /\ Goto(IF log.divergence \/ expired \/ handed = Deliveries THEN "driven" ELSE "start")
          /\ UNCHANGED <<reg, collected, owed, trace, verdict>>
        BY <1>2 DEF Posted
    <2>2. /\ ~Process /\ Conversation /\ handed > 0 /\ Len(windows) = handed - 1
          /\ Flawed \/ \A d \in 1..Len(windows) : Ends(windows[d][2], d)
        BY <1>0 DEF Bookkeeping, WindowsEnd, Routes, Process, Conversation
    <2>3. handed \in 1..Deliveries /\ handed \in Nat /\ Deliveries \in Nat
        <3>1. handed \in 0..Deliveries /\ Deliveries \in Nat
            BY CallFacts
        <3> QED
            BY <3>1, <2>2
    <2>4. Len(windows) \in Nat /\ Len(windows) + 1 = handed /\ Len(windows') = handed
        BY <2>1, <2>2, <2>3, WindowAdded
    <2>5. run'.timedOut = (run.timedOut \/ expired) /\ run'.upstreamError = log.upstreamError
        BY <2>1 DEF Snapshot
    <2>6. ASSUME Idle, ~log.upstreamError
          PROVE  Ends(log.served, handed)
        <3> DEFINE n == Len(captured)
        <3>n. n \in Nat /\ next \in Nat \X Nat /\ log.served \in Nat
            <4>1. captured \in Seq(TurnType) /\ log \in LogType
                BY CallFacts
            <4> QED
                BY <4>1, CallFacts DEF LogType
        <3>1. ~waiting /\ next[1] > handed
            BY <2>6 DEF Idle
        <3>2. ~Busy /\ ~Reached
            BY <3>1 DEF Calls, Paced, Reached
        <3>3. n = log.served
            BY <3>2 DEF Busy, Calls, LogFollows
        <3>4. IF n = 0 THEN next = <<1, 1>> ELSE next = After(captured[n].body)
            BY <3>2, <2>6 DEF Calls, AtTheEnd
        <3>5. n # 0
            BY <3>1, <3>4, <2>3
        <3>6. n \in 1..n
            BY <3>5, <3>n
        <3> DEFINE b == captured[n].body
        <3>7. b[1] \in 1..handed /\ b[2] \in 1..agent.turns[b[1]] /\ b \in Nat \X Nat
            BY <3>6, CallFacts DEF Calls, InTurn, Planned
        <3>8. ~(b[2] < agent.turns[b[1]]) /\ next = <<b[1] + 1, 1>>
            BY <3>1, <3>4, <3>5, <3>7, <2>3 DEF After
        <3>9. b[1] = handed
            BY <3>1, <3>7, <3>8, <2>3
        <3>10. agent.turns[handed] \in Nat
            BY <2>3, CallFacts
        <3>11. b[2] = agent.turns[handed]
            BY <3>7, <3>8, <3>9, <3>10
        <3>12. b = <<handed, agent.turns[handed]>>
            BY <3>7, <3>9, <3>11
        <3> QED
            BY <3>3, <3>6, <3>12 DEF Ends
    <2>7. Flawed => Flawed'
        BY <2>1, <2>5 DEF Flawed, Bookkeeping, InTime
    <2>8. Flawed' \/ \A d \in 1..Len(windows') : Ends(windows'[d][2], d)
        <3> SUFFICES ASSUME ~Flawed' PROVE \A d \in 1..Len(windows') : Ends(windows'[d][2], d)
            OBVIOUS
        <3>1. ~expired /\ ~log.upstreamError /\ ~Flawed
            BY <2>5, <2>7 DEF Flawed
        <3>2. Ends(log.served, Len(windows) + 1)
            BY <3>1, <2>1, <2>4, <2>6
        <3>3. Ends(<<reg.before, log.served>>[2], Len(windows) + 1)
            BY <3>2
        <3> QED
            BY <3>1, <3>3, <2>1, <2>2, WindowAdded
    <2>9. Collected'
        BY <2>1, <1>0 DEF Bookkeeping, Collected
    <2>10. CASE pc' = "driven"
        <3>1. pc' \in Aftermath /\ pc' \notin Judgement /\ pc' # "judge"
            BY <2>10 DEF Aftermath, Judgement
        <3> QED
            BY <3>1, <2>5, <2>8, <2>9, <1>0, OverKept
    <2>11. CASE pc' = "start"
        <3>1. Counts'
            BY <2>11 DEF Counts, Delivering, Polling
        <3>2. WindowsEnd'
            BY <2>4, <2>8, <2>11, <1>0 DEF WindowsEnd, Ends, Delivering, Polling
        <3>3. Routes' /\ InTime'
            BY <2>2, <2>5, <2>11, <1>0 DEF Routes, InTime, Process, Delivering, Polling, Judgement
        <3> QED
            BY <3>1, <3>2, <3>3, <2>9 DEF Bookkeeping
    <2> QED
        BY <2>1, <2>10, <2>11 DEF Goto
<1> QED
    BY <1>1, <1>2

\* The runner drives the agent.
LEMMA DrivingKept ==
  ASSUME Typed, Serial, Calls, Bookkeeping, Driving
  PROVE  Bookkeeping'
<1>0. UNCHANGED <<driver, agent, captured, log>>
    BY RunnerReads DEF setVars
<1>1. /\ handed \in Nat /\ reg \in RegType /\ run \in RunType /\ alive \in BOOLEAN /\ log.served \in Nat
      /\ windows \in Seq(Nat \X Nat)
    <2>1. handed \in 0..Deliveries /\ Deliveries \in Nat
        BY CallFacts
    <2> QED
        BY <2>1 DEF Typed, TypeOK, TypeProxy, TypeAgent, TypeRunner, RegType, RunType
<1>c. UNCHANGED collected => Collected'
    BY <1>0 DEF Bookkeeping, Collected
<1>2. CASE Spawn
    <2>1. CASE Fail
        BY <2>1, <1>0, GivenUpKept
    <2>2. CASE /\ handed' = 1 /\ reg' = [NoReg EXCEPT !.base = log.served, !.before = log.served]
               /\ Goto(IF Conversation THEN "activity" ELSE "exit")
               /\ KeepAgent /\ KeepResults /\ UNCHANGED eof
        <3>1. /\ pc = "start" /\ Process /\ handed = 0 /\ ~run.timedOut
              /\ UNCHANGED <<windows, run, collected, verdict>>
            BY <1>2, <2>2 DEF Spawn, Bookkeeping, Routes, InTime, KeepResults, resultVars
        <3>2. CASE Conversation
            <4>1. pc' = "activity"
                BY <2>2, <3>2 DEF Goto
            <4>2. Counts'
                BY <4>1, <2>2 DEF Counts, Delivering, Polling
            <4>3. WindowsEnd'
                BY <4>1, <3>1, <2>2, <1>0 DEF Bookkeeping, WindowsEnd, Ends, Flawed, Conversation, Delivering, Polling
            <4>4. Routes' /\ InTime'
                BY <4>1, <3>1, <3>2, <1>0 DEF Bookkeeping, Routes, InTime, Process, Conversation, Delivering,
                                              Polling, Judgement
            <4> QED
                BY <4>2, <4>3, <4>4, <3>1, <1>c DEF Bookkeeping
        <3>3. CASE ~Conversation
            <4>1. pc' = "exit" /\ "exit" \in Aftermath /\ "exit" \notin Judgement
                BY <2>2, <3>3 DEF Goto, Aftermath, Judgement
            <4>2. Flawed' \/ \A d \in 1..Len(windows') : Ends(windows'[d][2], d)
                BY <3>1 DEF Bookkeeping, WindowsEnd, Flawed
            <4>3. run'.upstreamError => log.upstreamError
                BY <3>1 DEF Bookkeeping, InTime
            <4> QED
                BY <4>1, <4>2, <4>3, <3>1, <1>0, <1>c, OverKept
        <3> QED
            BY <3>2, <3>3
    <2> QED
        BY <2>1, <2>2, <1>2 DEF Spawn
<1>3. CASE Settling
    BY <1>3, SettlingKept
<1>4. CASE Delivered
    BY <1>4, DeliveredKept
<1>5. CASE Write
    <2>1. CASE Fail
        BY <2>1, <1>0, GivenUpKept
    <2>2. /\ pc = "write" /\ Process /\ Conversation /\ Ends(reg.base, handed) /\ Len(windows) = handed
          /\ ~run.timedOut
        BY <1>5 DEF Write, Bookkeeping, Counts, WindowsEnd, Routes, InTime
    <2>3. CASE /\ handed' = handed + 1 /\ reg' = [reg EXCEPT !.before = log.served]
               /\ Goto("activity") /\ KeepAgent /\ KeepResults /\ UNCHANGED eof
        <3>1. pc' = "activity" /\ reg'.base = reg.base /\ UNCHANGED <<windows, run, collected, verdict>>
            BY <2>3, <1>1 DEF Goto, KeepResults, resultVars, RegType
        <3>2. handed' - 1 = handed /\ Len(windows') = handed' - 1
            BY <2>2, <2>3, <3>1, <1>1
        <3>3. Counts'
            BY <3>1, <3>2, <2>2, <1>0 DEF Counts, Ends, Delivering, Polling
        <3>4. WindowsEnd'
            BY <3>1, <3>2, <1>0 DEF Bookkeeping, WindowsEnd, Ends, Flawed, Conversation, Delivering, Polling
        <3>5. Routes' /\ InTime'
            BY <3>1, <2>2, <1>0 DEF Bookkeeping, Routes, InTime, Process, Conversation, Delivering, Polling, Judgement
        <3> QED
            BY <3>1, <3>3, <3>4, <3>5, <1>c DEF Bookkeeping
    <2>4. CASE Goto("exit") /\ KeepResults
        <3>1. /\ pc' = "exit" /\ "exit" \in Aftermath /\ "exit" \notin Judgement
              /\ UNCHANGED <<windows, run, collected, verdict>>
            BY <2>4 DEF Goto, KeepResults, resultVars, Aftermath, Judgement
        <3>2. Flawed' \/ \A d \in 1..Len(windows') : Ends(windows'[d][2], d)
            BY <3>1 DEF Bookkeeping, WindowsEnd, Flawed
        <3>3. run'.upstreamError => log.upstreamError
            BY <3>1 DEF Bookkeeping, InTime
        <3> QED
            BY <3>1, <3>2, <3>3, <1>0, <1>c, OverKept
    <2> QED
        BY <2>1, <2>3, <2>4, <1>5 DEF Write
<1>6. CASE Exit
    <2>1. /\ pc' = "driven" /\ "driven" \in Aftermath /\ "driven" \notin Judgement
          /\ run'.upstreamError = log.upstreamError /\ run'.timedOut = (run.timedOut \/ alive)
          /\ UNCHANGED <<windows, collected, verdict>>
        BY <1>6 DEF Exit, Snapshot, Goto, Aftermath, Judgement
    <2>2. Flawed => Flawed'
        BY <2>1 DEF Flawed, Bookkeeping, InTime
    <2>3. Flawed' \/ \A d \in 1..Len(windows') : Ends(windows'[d][2], d)
        BY <2>1, <2>2 DEF Bookkeeping, WindowsEnd
    <2> QED
        BY <2>1, <2>3, <1>0, <1>c, OverKept
<1>7. CASE Post
    <2>1. /\ pc = "start" /\ ~Process /\ handed' = handed + 1 /\ pc' = "post"
          /\ UNCHANGED <<windows, run, collected, verdict>>
        BY <1>7 DEF Post, Goto, KeepResults, resultVars
    <2>2. handed' - 1 = handed /\ handed' > 0
        BY <2>1, <1>1
    <2>3. Counts'
        BY <2>1 DEF Counts, Delivering, Polling
    <2>4. WindowsEnd'
        BY <2>1, <2>2, <1>0 DEF Bookkeeping, WindowsEnd, Ends, Flawed, Conversation, Delivering, Polling
    <2>5. Routes' /\ InTime'
        BY <2>1, <2>2, <1>0 DEF Bookkeeping, Routes, InTime, Process, Delivering, Polling, Judgement
    <2> QED
        BY <2>1, <2>3, <2>4, <2>5, <1>c DEF Bookkeeping
<1>8. CASE Posted
    BY <1>8, PostedKept
<1> QED
    BY <1>2, <1>3, <1>4, <1>5, <1>6, <1>7, <1>8 DEF Driving

\* The run is judged as it was driven.
LEMMA JudgingKept ==
  ASSUME Typed, Serial, Calls, Bookkeeping, Judging, ~Replay
  PROVE  Bookkeeping'
<1>0. UNCHANGED <<driver, agent, captured, log>>
    BY RunnerReads DEF setVars
<1>1. UNCHANGED <<windows, run>>
    BY DEF Judging, Driven, Calm, CalmActivity, CalmInFlight, CalmOr, Quiet, Collect, Drop, Join,
           JudgeRecord, JudgeReplay, KeepResults, resultVars, runnerVars
<1>c. UNCHANGED collected => Collected'
    BY <1>0 DEF Bookkeeping, Collected
<1>2. ASSUME pc' \in Aftermath, Flawed => Flawed', Collected', pc' = "judge" => verdict' = "none",
             driver \in {"scripted", "http"} /\ verdict' = "none" /\ pc' \in Judgement => ~run.timedOut
      PROVE  Bookkeeping'
    <2>1. Flawed' \/ \A d \in 1..Len(windows') : Ends(windows'[d][2], d)
        BY <1>1, <1>2 DEF Bookkeeping, WindowsEnd
    <2>2. run'.upstreamError => log.upstreamError
        BY <1>1 DEF Bookkeeping, InTime
    <2>3. driver \in {"scripted", "http"} /\ verdict' = "none" /\ pc' \in Judgement => ~run'.timedOut
        BY <1>1, <1>2
    <2> QED
        BY <2>1, <2>2, <2>3, <1>0, <1>2, OverKept
<1>3. ASSUME pc \in Judgement, pc' \in Judgement, UNCHANGED verdict, Collected', pc' = "judge" => verdict' = "none"
      PROVE  Bookkeeping'
    <2>1. Flawed => Flawed'
        BY <1>1, <1>3 DEF Flawed
    <2>2. driver \in {"scripted", "http"} /\ verdict' = "none" /\ pc' \in Judgement => ~run.timedOut
        BY <1>3 DEF Bookkeeping, InTime
    <2>3. pc' \in Aftermath
        BY <1>3 DEF Aftermath
    <2> QED
        BY <2>1, <2>2, <2>3, <1>2, <1>3
<1>4. CASE Driven
    <2>1. CASE DriveFails
        <3>1. verdict' = "error" /\ pc' = "drop" /\ UNCHANGED collected
            BY <1>4, <2>1 DEF Driven, Goto
        <3> QED
            BY <3>1, <1>2, <1>c DEF Flawed, Aftermath, Judgement
    <2>2. CASE ~DriveFails
        <3>1. pc' = "calm" /\ UNCHANGED <<collected, verdict>>
            BY <1>4, <2>2 DEF Driven, Goto, Serial, KeepResults, resultVars
        <3>2. driver \in {"scripted", "http"} => ~run.timedOut
            BY <2>2 DEF DriveFails, Conversation
        <3>3. Flawed => Flawed'
            BY <3>1, <1>1 DEF Flawed
        <3> QED
            BY <3>1, <3>2, <3>3, <1>2, <1>c DEF Aftermath, Judgement
    <2> QED
        BY <2>1, <2>2
<1>5. CASE Calm \/ CalmActivity \/ CalmInFlight
    <2>1. pc \in Judgement /\ pc' \in Judgement /\ pc' # "judge" /\ UNCHANGED <<collected, verdict>>
        BY <1>5 DEF Calm, CalmActivity, CalmInFlight, CalmOr, Quiet, Goto, KeepResults, resultVars, Judgement
    <2> QED
        BY <2>1, <1>3, <1>c
<1>6. CASE Collect
    <2>1. pc = "collect" /\ pc' = "drop" /\ collected' = captured /\ UNCHANGED verdict
        BY <1>6 DEF Collect, Goto
    <2>2. Collected'
        <3>1. captured \in Seq(TurnType)
            BY CallFacts
        <3>2. Len(captured) \in Nat
            BY <3>1
        <3> QED
            BY <3>2, <2>1, <1>0 DEF Collected
    <2> QED
        BY <2>1, <2>2, <1>3 DEF Judgement
<1>7. CASE Drop
    <2>1. pc = "drop" /\ UNCHANGED <<pc, collected, verdict>>
        BY <1>7 DEF Drop, runnerVars, resultVars
    <2> QED
        BY <2>1, <1>3, <1>c DEF Judgement
<1>8. CASE Join
    <2>1. /\ pc = "drop" /\ UNCHANGED <<collected, verdict>>
          /\ pc' = IF verdict = "none" THEN "judge" ELSE "over"
        BY <1>8 DEF Join, Goto, KeepResults, resultVars
    <2>2. CASE verdict = "none"
        BY <2>1, <2>2, <1>3, <1>c DEF Judgement
    <2>3. CASE verdict # "none"
        <3>1. pc' = "over" /\ "over" \in Aftermath /\ "over" \notin Judgement /\ (Flawed => Flawed')
            BY <2>1, <2>3, <1>1 DEF Flawed, Aftermath, Judgement
        <3> QED
            BY <3>1, <2>1, <1>2, <1>c
    <2> QED
        BY <2>2, <2>3
<1>9. CASE JudgeRecord
    <2>1. /\ pc = "judge" /\ pc' = "over" /\ verdict = "none" /\ UNCHANGED collected
          /\ "over" \in Aftermath /\ "over" \notin Judgement
        BY <1>9 DEF JudgeRecord, Goto, Bookkeeping, InTime, Aftermath, Judgement
    <2>2. Flawed => Flawed'
        BY <2>1, <1>1 DEF Flawed
    <2> QED
        BY <2>1, <2>2, <1>2, <1>c
<1>10. CASE JudgeReplay
    BY <1>10 DEF JudgeReplay, Serial
<1> QED
    BY <1>4, <1>5, <1>6, <1>7, <1>8, <1>9, <1>10 DEF Judging

LEMMA AttributingStep ==
  ASSUME Typed, Attributing, [Next]_vars
  PROVE  Attributing'
<1> SUFFICES ASSUME Serial' PROVE Calls' /\ Bookkeeping'
    BY DEF Attributing, Bookkeeping
<1>1. ~Replay
    BY DEF Replay, Rebind, Serial
<1>2. UNCHANGED <<mode, agent>>
    <2>1. CASE Expire \/ Driving \/ (Judging /\ ~Replay)
        BY <2>1, RunnerReads DEF recordVars, setVars
    <2>2. CASE Agent \/ ProxyThread(TRUE)
        BY <2>2 DEF Agent, CallModel, CallOnTheSide, TakeAnswer, AgentExits, Connect, ProxyThread, Accept, Start,
                    Refuse, ServeReplay, Forward, Capture, Count, UpstreamFails, Respond, Unmark, Finish,
                    proxyVars, recordVars, setVars
    <2>3. CASE UNCHANGED vars
        BY <2>3 DEF vars, proxyVars, recordVars, setVars
    <2> QED
        BY <1>1, <2>1, <2>2, <2>3 DEF Next, Over
<1>3. Serial /\ Calls /\ Bookkeeping
    BY <1>2 DEF Serial, Attributing, Bookkeeping
<1>h. handed \in Nat
    <2>1. handed \in 0..Deliveries /\ Deliveries \in Nat
        BY CallFacts
    <2> QED
        BY <2>1
<1>4. CASE Agent
    BY <1>3, <1>4, CallsOfAgent, BookkeepingKept
<1>5. CASE ProxyThread(TRUE)
    BY <1>3, <1>5, CallsOfProxy, BookkeepingKept
<1>6. CASE Driving
    <2>1. handed' \in {handed, handed + 1}
        <3>1. CASE Spawn
            <4>1. handed = 0
                BY <1>3, <3>1 DEF Spawn, Bookkeeping, Routes
            <4> QED
                BY <3>1, <4>1 DEF Spawn, handVars
        <3>2. CASE ~Spawn
            BY <1>6, <3>2 DEF Driving, Settling, Delivered, Write, Exit, Post, Posted, ReadActivity, ReadInFlight,
                              ReadLog, ReadServed, ReadActivityAgain, ReadInFlightAgain, StillQuiet, handVars
        <3> QED
            BY <3>1, <3>2
    <2>2. handed' \in Nat /\ handed <= handed'
        BY <2>1, <1>h
    <2>3. Calls'
        BY <1>3, <1>6, <2>2, RunnerReads, CallsKept DEF setVars
    <2> QED
        BY <1>3, <1>6, <2>3, DrivingKept
<1>7. CASE Expire
    <2>1. UNCHANGED <<driver, handed, pc, reg, windows, run, collected, verdict>>
        BY <1>7 DEF Expire, setVars, handVars, resultVars
    <2>2. UNCHANGED <<captured, log, agent, next, waiting, queue, step, serving, answers>>
        BY <1>7 DEF Expire, proxyVars, setVars
    <2>3. Calls'
        BY <1>3, <1>h, <2>1, <2>2, CallsKept
    <2>4. Bookkeeping'
        BY <1>3, <2>1, <2>2 DEF Bookkeeping, Counts, WindowsEnd, Routes, InTime, Collected, Ends, Flawed, Process,
                                Conversation
    <2> QED
        BY <2>3, <2>4
<1>8. CASE Judging
    <2>1. UNCHANGED handed
        BY <1>1, <1>8 DEF Judging, Driven, Calm, CalmActivity, CalmInFlight, Collect, Drop, Join, JudgeRecord,
                          JudgeReplay, runnerVars, handVars
    <2>2. Calls'
        BY <1>1, <1>3, <1>8, <1>h, <2>1, RunnerReads, CallsKept DEF setVars
    <2> QED
        BY <1>1, <1>3, <1>8, <2>2, JudgingKept
<1>9. CASE UNCHANGED vars
    <2>1. UNCHANGED <<driver, handed, pc, reg, windows, run, collected, verdict>>
        BY <1>9 DEF vars, setVars, runnerVars, handVars, resultVars
    <2>2. UNCHANGED <<captured, log, agent, next, waiting, queue, step, serving, answers>>
        BY <1>9 DEF vars, proxyVars, setVars, agentVars
    <2>3. Calls'
        BY <1>3, <1>h, <2>1, <2>2, CallsKept
    <2>4. Bookkeeping'
        BY <1>3, <2>1, <2>2 DEF Bookkeeping, Counts, WindowsEnd, Routes, InTime, Collected, Ends, Flawed, Process,
                                Conversation
    <2> QED
        BY <2>3, <2>4
<1> QED
    BY <1>4, <1>5, <1>6, <1>7, <1>8, <1>9 DEF Next, Over

LEMMA AttributingInit == Init => Attributing
<1> SUFFICES ASSUME Init, Serial PROVE Calls /\ Bookkeeping
    BY DEF Attributing, Bookkeeping
<1> USE DEF Init, ProxyInit, AgentStarts, RunnerStarts
<1>1. ~agent.edited /\ queue = <<>> /\ step = "idle" /\ ~waiting /\ answers = {} /\ captured = <<>> /\ log = NoLog
      /\ next = <<1, 1>> /\ windows = <<>> /\ run = NoRun /\ collected = <<>> /\ pc = "start" /\ handed = 0
      /\ verdict = "none"
    OBVIOUS
<1> HIDE DEF Init, ProxyInit, AgentStarts, RunnerStarts
<1>2. Len(captured) = 0 /\ Len(collected) = 0 /\ Len(windows) = 0 /\ \A i \in 1..0 : FALSE
    BY <1>1
<1>3. Paced /\ LogFollows /\ AtTheEnd
    BY <1>1, <1>2 DEF Paced, Busy, LogFollows, NoLog, AtTheEnd, Reached
<1>4. InTurn
    BY <1>2 DEF InTurn
<1>5. Counts /\ Routes /\ InTime
    BY <1>1 DEF Counts, Routes, InTime, NoRun, Delivering, Polling, Judgement
<1>6. WindowsEnd /\ Collected
    BY <1>1, <1>2 DEF WindowsEnd, Collected, Delivering, Polling
<1> QED
    BY <1>3, <1>4, <1>5, <1>6 DEF Calls, Bookkeeping

\* The first of some numbers.
LEMMA Least ==
  ASSUME NEW T \in SUBSET Nat, T # {}
  PROVE  \E x \in T : \A y \in T : x <= y
<1> DEFINE R == OpToRel(<, Nat)
<1>1. IsWellFoundedOn(R, Nat)
    BY NatLessThanWellFounded
<1>2. \A x, y \in Nat : x < y => <<x, y>> \in R
    BY DEF OpToRel
<1> HIDE DEF R
<1>3. PICK x \in T : \A y \in T : ~ (<<y, x>> \in R)
    BY <1>1, WFMin
<1>4. \A y \in T : ~(y < x)
    BY <1>2, <1>3
<1>5. \A y \in T : x <= y
    BY <1>4
<1> QED
    BY <1>5

\* The windows of a run that may be minted stamp each turn with its delivery.
LEMMA StampedRight ==
  ASSUME Typed, Serial, Calls, Bookkeeping, ~Flawed, Contiguous(Deliveries, Len(collected)),
         NEW i \in 1..Len(collected)
  PROVE  DeliveryOf(i) = collected[i].body[1]
<1> DEFINE n == Len(collected)
<1>1. Deliveries \in Nat \ {0} /\ windows \in Seq(Nat \X Nat) /\ collected \in Seq(TurnType) /\ captured \in Seq(TurnType)
    BY CallFacts DEF Typed, TypeOK, TypeRunner, TurnType
<1>2. n \in Nat /\ i \in Nat /\ i \in 1..n /\ DOMAIN windows = 1..Deliveries
    BY <1>1 DEF Contiguous
<1>3. i \in 1..Len(captured) /\ collected[i] = captured[i]
    <2>1. Len(captured) \in Nat /\ n <= Len(captured)
        BY <1>1 DEF Bookkeeping, Collected
    <2> QED
        BY <2>1, <1>2 DEF Bookkeeping, Collected
<1>4. /\ \A d \in 1..Deliveries : /\ windows[d][1] = IF d = 1 THEN 0 ELSE windows[d - 1][2]
                                  /\ windows[d][1] \in Nat /\ windows[d][2] \in Nat
      /\ windows[Deliveries][2] = n
    BY <1>1, <1>2 DEF Contiguous
<1>5. \A d \in 1..Deliveries : Ends(windows[d][2], d)
    BY <1>1, <1>2 DEF Bookkeeping, WindowsEnd, Contiguous
<1>6. ASSUME NEW d \in 1..Deliveries, windows[d][1] < i, i <= windows[d][2]
      PROVE  captured[i].body[1] = d
    <2>1. captured[i].body[1] <= d
        BY <1>3, <1>5, <1>6, EndsDivide
    <2>2. captured[i].body[1] \in 1..handed /\ captured[i].body[1] \in Nat
        BY <1>3, CallFacts DEF Calls, InTurn, Planned
    <2>3. CASE d = 1
        BY <2>1, <2>2, <2>3
    <2>4. CASE d # 1
        <3>0. windows[d][1] = windows[d - 1][2]
            BY <1>4, <2>4
        <3>1. d - 1 \in 1..Deliveries /\ windows[d - 1][2] < i
            BY <3>0, <1>1, <1>6, <2>4
        <3>2. windows[d - 1][2] \in Nat
            BY <3>1, <1>4
        <3>3. Ends(windows[d - 1][2], d - 1)
            BY <3>1, <1>5
        <3>4. i > windows[d - 1][2]
            BY <3>1, <3>2, <1>2
        <3>5. captured[i].body[1] > d - 1
            BY <3>1, <3>3, <3>4, <1>3, EndsDivide
        <3> QED
            BY <3>5, <2>1, <2>2
    <2> QED
        BY <2>3, <2>4
<1>7. \E d \in 1..Deliveries : windows[d][1] < i /\ i <= windows[d][2]
    <2> DEFINE S == {d \in 1..Deliveries : i <= windows[d][2]}
    <2>1. S \in SUBSET Nat /\ Deliveries \in S
        BY <1>1, <1>2, <1>4
    <2>2. PICK d \in S : \A e \in S : d <= e
        BY <2>1, Least
    <2>3. d \in 1..Deliveries /\ i <= windows[d][2]
        OBVIOUS
    <2>4. CASE d = 1
        BY <2>3, <2>4, <1>2, <1>4
    <2>5. CASE d # 1
        <3>1. d - 1 \in 1..Deliveries /\ ~(d <= d - 1)
            BY <2>3, <2>5, <1>1
        <3>2. ~(i <= windows[d - 1][2])
            BY <3>1, <2>2
        <3>3. windows[d][1] = windows[d - 1][2] /\ windows[d - 1][2] \in Nat
            BY <3>1, <2>3, <2>5, <1>4
        <3> QED
            BY <3>2, <3>3, <2>3, <1>2
    <2> QED
        BY <2>4, <2>5
<1>8. DeliveryOf(i) \in 1..Deliveries /\ windows[DeliveryOf(i)][1] < i /\ i <= windows[DeliveryOf(i)][2]
    BY <1>2, <1>7 DEF DeliveryOf
<1> QED
    BY <1>3, <1>6, <1>8

\* A trace that is minted is left alone until it is replayed.
MintedHolds == TurnsAttributed /\ (verdict = "minted" => pc = "over")

LEMMA MintedStep ==
  ASSUME Typed, Attributing, MintedHolds, [Next]_vars
  PROVE  MintedHolds'
<1>1. CASE JudgeRecord
    <2>1. pc' = "over" /\ mode = "record" /\ pc = "judge" /\ UNCHANGED <<driver, agent>>
        BY <1>1 DEF JudgeRecord, Goto, KeepAgent, setVars
    <2>2. ASSUME verdict' = "minted", Conversation, agent.side = "none"
          PROVE  \A i \in DOMAIN trace' : trace'[i].delivery = trace'[i].turn.body[1]
        <3>1. Mintable /\ trace' = Stamped
            BY <1>1, <2>2 DEF JudgeRecord
        <3>2. Serial /\ Calls /\ Bookkeeping
            BY <2>1, <2>2 DEF Serial, Attributing, Bookkeeping
        <3>3. verdict = "none" /\ (driver \in {"scripted", "http"} => ~run.timedOut)
            BY <2>1, <3>2 DEF Bookkeeping, InTime, Judgement
        <3>4. ~Flawed /\ Contiguous(Deliveries, Len(collected))
            <4>1. driver \in {"scripted", "http", "interactive"}
                BY <2>2 DEF Typed, TypeOK, TypeAgent, Drivers, Conversation
            <4> QED
                BY <4>1, <3>1, <3>3, <2>2 DEF Flawed, Mintable
        <3>5. collected \in Seq(TurnType)
            BY DEF Typed, TypeOK, TypeRunner, TurnType
        <3>6. DOMAIN collected = 1..Len(collected)
            BY <3>5
        <3>7. \A i \in 1..Len(collected) : DeliveryOf(i) = collected[i].body[1]
            BY <3>2, <3>4, StampedRight
        <3> QED
            BY <3>1, <3>6, <3>7, <2>2 DEF Stamped
    <2>3. Conversation' = Conversation
        BY <2>1 DEF Conversation
    <2> QED
        BY <2>1, <2>2, <2>3 DEF MintedHolds, TurnsAttributed
<1>2. CASE ~JudgeRecord /\ (ProxyThread(TRUE) \/ UNCHANGED vars)
    <2>1. UNCHANGED <<driver, agent, pc, trace, verdict>>
        BY <1>2 DEF ProxyThread, vars, setVars, runnerVars, resultVars
    <2> QED
        BY <2>1 DEF MintedHolds, TurnsAttributed, Conversation
<1>3. CASE Agent
    <2>1. UNCHANGED <<driver, agent, pc, trace, verdict>>
        BY <1>3 DEF Agent, CallModel, CallOnTheSide, TakeAnswer, AgentExits, setVars, runnerVars, resultVars
    <2> QED
        BY <2>1 DEF MintedHolds, TurnsAttributed, Conversation
<1>4. CASE ~JudgeRecord /\ (Expire \/ Driving \/ Judging)
    <2>1. verdict' # "minted" \/ (verdict' = verdict /\ pc # "over")
        <3>1. CASE Expire
            BY <3>1 DEF Expire, resultVars, Waits
        <3>2. CASE Driving
            BY <3>2 DEF Driving, Settling, Spawn, Delivered, Write, Exit, Post, Posted, ReadActivity, ReadInFlight,
                        ReadLog, ReadServed, ReadActivityAgain, ReadInFlightAgain, StillQuiet, Fail, Unreachable,
                        KeepResults, resultVars
        <3>3. CASE Judging
            BY <1>4, <3>3 DEF Judging, Driven, Calm, CalmActivity, CalmInFlight, Collect, Drop, Join, JudgeReplay,
                              Replay, KeepResults, resultVars, runnerVars
        <3> QED
            BY <1>4, <3>1, <3>2, <3>3
    <2>2. verdict' # "minted"
        BY <2>1 DEF MintedHolds
    <2> QED
        BY <2>2 DEF MintedHolds, TurnsAttributed
<1> QED
    BY <1>1, <1>2, <1>3, <1>4 DEF Next, Over

\* TurnsAttributed: a trace minted from a conversation with an agent that makes its
\* calls one after another stamps each turn with the delivery it was made for,
\* however the runner's readings of the counters and the log fall between the
\* steps of the proxy's thread.
THEOREM EveryTurnIsAttributed == Spec => []TurnsAttributed
<1>1. Init => MintedHolds
    BY DEF Init, RunnerStarts, MintedHolds, TurnsAttributed
<1>2. MintedHolds => TurnsAttributed
    BY DEF MintedHolds
<1> QED
    BY <1>1, <1>2, TypedInit, TypedStep, AttributingInit, AttributingStep, MintedStep, PTL DEF Spec
-----------------------------------------------------------------------------
(* The replay of the recorded agent. *)

\* The calls of the agent's plan, and those of them the model is asked.
CallOf(w) == IF w = Side THEN SideCall ELSE MainCall(w)
Mains == {w \in MainCalls : w[1] \in 1..Deliveries /\ w[2] \in 1..agent.turns[w[1]]}
Asks == Mains \cup (IF agent.side \in {"title", "retry"} THEN {Side} ELSE {})

\* An agent that waits for every answer.
Waiter == agent.side = "none" \/ agent.waits

\* The recorded agent again.
Repeating == mode = "replay" /\ agent = recorded /\ Waiter

\* A main call was refused.
Refusal == \E w \in Mains : Refused(w)

\* The proxy has nothing to serve.
Still == queue = <<>> /\ step \in {"idle", "answered", "finishing"}

\* What is asked is what the plan says, and the agent goes from call to call.
Following ==
  /\ mode = "record" => ~agent.edited /\ ~log.divergence
  /\ \A i \in DOMAIN queue : queue[i] = CallOf(queue[i].who)
  /\ step # "idle" => serving = CallOf(serving.who)
  /\ \A w \in Waiting \cup InHand \cup Answers : w \in Mains \/ (w = Side /\ agent.side # "none")
  /\ sided => agent.side # "none" /\ agent.at <= handed
  /\ waiting => next[1] <= handed
  /\ next[1] > handed => next[2] = 1
  /\ handed = 0 => next = <<1, 1>> /\ log.served = 0
  /\ Refusal \/ (next[1] <= handed + 1 /\ \A w \in Mains : Before(w, next) => Answered(w))

\* Only a request that is not for the model is refused, unless the model fails.
Lenient == mode = "record" \/ Repeating
Heard ==
  Lenient =>
    /\ ~log.divergence
    /\ mode = "replay" => ~log.upstreamError
    /\ step = "failed" => serving.kind # "model" \/ log.upstreamError
    /\ \A a \in answers : a.ok \/ CallOf(a.who).kind # "model" \/ log.upstreamError

\* The calls that have a turn.
Gone == {a.who : a \in Good} \cup (IF step \in {"captured", "logged"} THEN {serving.who} ELSE {})

\* The turn each call is to have.
TurnsOf(calls) == [w \in calls |-> Turn(CallOf(w))]

\* The ways to give each turn of a list to a call of its own.
Owners(list, turns) ==
  {o \in [DOMAIN list -> DOMAIN turns] :
     /\ \A i, j \in DOMAIN list : (o[i] = o[j] => i = j)
     /\ \A i \in DOMAIN list : list[i] = turns[o[i]]
     /\ \A w \in DOMAIN turns : \E i \in DOMAIN list : o[i] = w}

\* The turns captured are those of the calls that have one; in a replay the ones
\* consumed are.
Recorded ==
  /\ step \in {"forwarding", "captured", "logged"} => serving.kind = "model"
  /\ Gone \subseteq Asks
  /\ mode = "record" => Owners(captured, TurnsOf(Gone)) # {}
Consumes ==
  Repeating => \E o \in Owners(cassette, TurnsOf(Asks)) :
                 \A i \in DOMAIN cassette : (i \in consumed <=> o[i] \in Gone)

\* A call that was not answered is the one the agent waits for, or on the side.
AtHand == \A w \in Waiting \cup InHand : w = Side \/ (w = next /\ waiting)

\* The agent made all its calls and has their answers.
AllAnswered == Done /\ (agent.side # "none" => Answered(Side))

\* Where the run has been driven; a run that goes by the plan.
Past == {"driven"} \cup Judgement \cup {"over"}
Orderly == Lenient /\ Waiter /\ ~mishap

\* A deadline that passes is a mishap.
Timely ==
  /\ expired => mishap
  /\ run.timedOut => mishap
  /\ pc = "settled" /\ ~reg.settled => mishap

\* An agent that is gone is done, unless it met with a mishap.
Left == ~mishap /\ ~alive /\ Waiter => AllAnswered

\* A run by the plan is judged on the whole log, with every call answered.
Ended ==
  /\ Orderly /\ pc \in Past /\ verdict # "error" =>
       AllAnswered /\ run = [served |-> log.served, divergence |-> log.divergence,
                             upstreamError |-> log.upstreamError, timedOut |-> FALSE]
  /\ mode = "record" /\ ~mishap /\ verdict = "none" /\ Waiter /\ pc \in {"drop", "judge"} => collected = captured
  /\ pc = "judge" => verdict = "none"

\* What was recorded was recorded from an agent as it is.
Unedited == ~recorded.edited /\ (verdict = "minted" => pc = "over" /\ mode = "record")

\* The turns of its trace are those of its calls.
Traced ==
  verdict = "minted" /\ ~mishap /\ Waiter =>
    Owners([i \in DOMAIN trace |-> trace[i].turn], TurnsOf(Asks)) # {}

\* The last call of a delivery has reached the proxy's log.
CaughtUp(d) == next[1] > d \/ (next = <<d, agent.turns[d]>> /\ Reached)
\* Where the windows end; they follow each other, and none is empty.
LastEnd == IF windows = <<>> THEN 0 ELSE windows[Len(windows)][2]

Chained ==
  \A i \in 1..Len(windows) :
       /\ windows[i][1] = IF i = 1 THEN 0 ELSE windows[i - 1][2]
       /\ windows[i][1] < windows[i][2] /\ windows[i][2] <= log.served

\* A replay of the recorded agent that goes well.
Paired == Repeating /\ ~mishap /\ verdict # "error"

\* Of a scripted conversation, what the log says of the agent's place, and where the
\* windows end as the runner goes from delivery to delivery.
ScriptedGoes ==
  /\ Chained
  /\ Reached => log.lastTool = (next[2] < agent.turns[next[1]])
  /\ ~Reached /\ ~Done /\ next[2] > 1 => log.lastTool
  /\ pc \in Delivering =>
       /\ handed > 0 /\ Len(windows) = handed - 1 /\ LastEnd = reg.base
       /\ handed > 1 => CaughtUp(handed - 1)
       /\ next[1] < handed \/ (next = <<handed, 1>> /\ ~Reached) => log.served = reg.base
  /\ pc \in {"quiet", "activity2", "inFlight2", "settled"} =>
       CaughtUp(handed) /\ reg.served = log.served /\ log.served > reg.base
  /\ pc = "write" => Len(windows) = handed /\ LastEnd = reg.base /\ reg.base = log.served /\ CaughtUp(handed)
  /\ pc = "start" => windows = <<>>
  /\ pc \in {"exit"} \cup Past => Len(windows) = Deliveries /\ LastEnd = log.served /\ CaughtUp(Deliveries)

Alone == Paired /\ driver = "scripted" /\ agent.side = "none"
OnePerOne == Alone => ScriptedGoes

\* The same of a service, which answers a POST after it has its answers.
ServiceGoes ==
  /\ pc \in {"start", "post"} \cup Past
  /\ Chained
  /\ pc = "start" => Len(windows) = handed /\ LastEnd = log.served /\ next[1] > handed /\ Still /\ ~waiting
  /\ pc = "post" => /\ Len(windows) = handed - 1 /\ LastEnd = reg.before /\ reg.before <= log.served
                    /\ reg.before < log.served \/ <<handed, 1>> \notin Gone
  /\ pc \in Past => Len(windows) = Deliveries /\ LastEnd = log.served

Posting == Paired /\ driver = "http" => ServiceGoes

\* A replay types nothing at the terminal.
Faithful ==
  /\ mode = "replay" => driver # "interactive"
  /\ FaithfulReplays
-----------------------------------------------------------------------------
\* The plan of the agent is as it was.
LEMMA SamePlan ==
  ASSUME UNCHANGED agent
  PROVE  /\ Mains' = Mains /\ Asks' = Asks /\ Deliveries' = Deliveries /\ Waiter' = Waiter
         /\ SideCall' = SideCall /\ \A p : MainCall(p)' = MainCall(p) /\ CallOf(p)' = CallOf(p)
BY DEF Mains, Asks, Deliveries, Waiter, SideCall, MainCall, CallOf

\* A main call is a pair within the plan and not the one on the side.
LEMMA MainsTyped ==
  ASSUME agent \in Agents
  PROVE  /\ Side \notin Mains
         /\ \A w \in Mains : /\ w \in Nat \X Nat /\ w = <<w[1], w[2]>> /\ w # Side
                             /\ w[1] \in 1..Deliveries /\ w[2] \in 1..agent.turns[w[1]]
         /\ \A d \in 1..Deliveries : \A k \in 1..agent.turns[d] : <<d, k>> \in Mains
<1>1. \A w \in Mains : w \in Nat \X Nat
    BY WhoTyped DEF Mains, Who
<1>2. Deliveries \in Nat \ {0} /\ \A d \in 1..Deliveries : agent.turns[d] \in Nat \ {0}
    BY PlansTyped
<1>3. Side \notin Mains
    BY <1>2 DEF Mains, Side
<1>4. \A d \in 1..Deliveries : \A k \in 1..agent.turns[d] : <<d, k>> \in Mains
    BY CallsTyped DEF Mains
<1> QED
    BY <1>1, <1>3, <1>4 DEF Mains

\* The call the agent makes next is one of its plan, until it is done.
LEMMA NextTyped ==
  ASSUME Typed
  PROVE  /\ agent \in Agents /\ Deliveries \in Nat \ {0} /\ handed \in 0..Deliveries
         /\ next \in Nat \X Nat /\ next = <<next[1], next[2]>> /\ next[1] \in Nat \ {0} /\ next[2] \in Nat \ {0}
         /\ next # Side /\ next[1] <= Deliveries + 1
         /\ ~Done => next \in Mains /\ agent.turns[next[1]] \in Nat \ {0}
         /\ Done => next = <<Deliveries + 1, 1>>
         /\ waiting => ~Done
<1>1. agent \in Agents /\ handed \in 0..Deliveries /\ (waiting => ~Done)
    BY DEF Typed, TypeOK, TypeAgent, TypeRunner
<1>2. Deliveries \in Nat \ {0} /\ \A d \in 1..Deliveries : agent.turns[d] \in Nat \ {0}
    BY <1>1, PlansTyped
<1>3. \/ next = <<Deliveries + 1, 1>>
      \/ next \in (1..Deliveries) \X (Nat \ {0}) /\ next[2] <= agent.turns[next[1]]
    BY DEF Typed, TypeOK, TypeAgent
<1>4. CASE next = <<Deliveries + 1, 1>>
    BY <1>1, <1>2, <1>4 DEF Done, Side
<1>5. CASE next \in (1..Deliveries) \X (Nat \ {0}) /\ next[2] <= agent.turns[next[1]]
    <2>1. next[1] \in 1..Deliveries /\ next[2] \in 1..agent.turns[next[1]] /\ next = <<next[1], next[2]>>
        BY <1>2, <1>5
    <2>2. next \in Mains
        BY <2>1, <1>1, MainsTyped
    <2> QED
        BY <2>1, <2>2, <1>1, <1>2, MainsTyped DEF Done
<1> QED
    BY <1>3, <1>4, <1>5

\* The proxy's thread leaves the agent and the runner alone.
LEMMA ThreadKeeps ==
  ASSUME ProxyThread(TRUE)
  PROVE  UNCHANGED <<mode, cassette, stop, setVars, agentVars, runnerVars>>
BY DEF ProxyThread, Accept, Start, Refuse, ServeReplay, Forward, Capture, Count, UpstreamFails,
       Respond, Unmark, Finish, recordVars

\* As long as nothing was handed out there is nothing to serve.
LEMMA NothingAsked ==
  ASSUME Typed, OnePlace, Following, handed = 0
  PROVE  InHand = {}
<1>1. agent \in Agents
    BY NextTyped
<1>2. ASSUME NEW w \in InHand PROVE FALSE
    <2>1. Made(w) /\ (w \in Mains \/ (w = Side /\ agent.side # "none"))
        BY <1>2 DEF OnePlace, Following
    <2>2. CASE w \in Mains
        <3>1. w[1] >= 1 /\ w[2] >= 1 /\ w[1] \in Nat /\ w[2] \in Nat /\ w # Side
            BY <2>2, <1>1, MainsTyped
        <3>2. next = <<1, 1>> /\ ~waiting
            BY DEF Following
        <3> QED
            BY <2>1, <3>1, <3>2 DEF Made, Before
    <2>3. CASE w = Side
        BY <2>1, <2>3, <1>1 DEF Made, Following, Agents, Before, Side
    <2> QED
        BY <2>1, <2>2, <2>3
<1> QED
    BY <1>2

\* Each driver goes its own way through the runner.
LEMMA RoutesStep ==
  ASSUME Typed, Routes, [Next]_vars
  PROVE  Routes'
<1>0. handed \in Nat
    BY NextTyped
<1>1. CASE UNCHANGED <<driver, pc, handed>>
    BY <1>1 DEF Routes, Process, Conversation
<1>2. CASE UNCHANGED driver /\ pc' \in {"exit"} \cup {"driven"} \cup Judgement \cup {"over"}
    BY <1>2 DEF Routes, Delivering, Polling, Judgement
<1>3. CASE Agent \/ ProxyThread(TRUE) \/ Expire \/ UNCHANGED vars
    BY <1>1, <1>3, ThreadKeeps DEF Agent, CallModel, CallOnTheSide, TakeAnswer, AgentExits, Expire, handVars,
                                   setVars, runnerVars, vars
<1>4. CASE Replay
    BY <1>4 DEF Replay, Routes, Delivering, Polling
<1>5. CASE Judging /\ ~Replay
    <2>1. UNCHANGED driver
        BY <1>5, RunnerReads DEF setVars
    <2>2. UNCHANGED <<pc, handed>> \/ pc' \in {"driven"} \cup Judgement \cup {"over"}
        BY <1>5 DEF Judging, Driven, Calm, CalmActivity, CalmInFlight, CalmOr, Quiet, Collect, Drop, Join,
                    JudgeRecord, JudgeReplay, handVars, runnerVars, Goto, Judgement
    <2> QED
        BY <2>1, <2>2, <1>1, <1>2
<1>6. CASE Settling
    <2>1. UNCHANGED <<driver, handed>>
        BY <1>6 DEF Settling, ReadActivity, ReadInFlight, ReadLog, ReadServed, ReadActivityAgain,
                    ReadInFlightAgain, StillQuiet, handVars, KeepAgent, setVars
    <2>2. pc \in Delivering /\ pc' \in Delivering
        BY <1>6 DEF Settling, ReadActivity, ReadInFlight, ReadLog, ReadServed, ReadActivityAgain,
                    ReadInFlightAgain, StillQuiet, PollAgain, Settle, Goto, Delivering, Polling
    <2> QED
        BY <2>1, <2>2 DEF Routes, Delivering, Polling, Process, Conversation
<1>7. CASE Driving /\ ~Settling
    <2>1. UNCHANGED driver
        BY <1>7, RunnerReads DEF setVars
    <2>2. CASE Spawn
        <3>1. \/ pc' = "drop"
              \/ Process /\ pc' = IF Conversation THEN "activity" ELSE "exit"
            BY <2>2 DEF Spawn, Fail, Goto
        <3> QED
            BY <3>1, <2>1 DEF Routes, Delivering, Polling, Process, Conversation
    <2>3. CASE Delivered
        <3>1. pc' \in {"drop", "write", "exit"} /\ pc = "settled"
            BY <2>3 DEF Delivered, Fail, Goto
        <3> QED
            BY <3>1, <2>1 DEF Routes, Delivering, Polling, Process, Conversation
    <2>4. CASE Write
        <3>1. pc' \in {"drop", "activity", "exit"} /\ pc = "write"
            BY <2>4 DEF Write, Fail, Goto
        <3> QED
            BY <3>1, <2>1 DEF Routes, Delivering, Polling, Process, Conversation
    <2>5. CASE Post
        <3>1. pc' = "post" /\ ~Process /\ handed' = handed + 1
            BY <2>5 DEF Post, Goto
        <3> QED
            BY <3>1, <2>1, <1>0 DEF Routes, Delivering, Polling, Process, Conversation
    <2>6. CASE Posted
        <3>1. pc' \in {"drop", "driven", "start"} /\ pc = "post"
            BY <2>6 DEF Posted, Unreachable, Goto
        <3> QED
            BY <3>1, <2>1 DEF Routes, Delivering, Polling, Process, Conversation
    <2>7. CASE Exit
        BY <2>7, <2>1, <1>2 DEF Exit, Goto
    <2> QED
        BY <2>2, <2>3, <2>4, <2>5, <2>6, <2>7, <1>7 DEF Driving
<1> QED
    BY <1>3, <1>4, <1>5, <1>6, <1>7 DEF Next, Over

\* The runner hands deliveries out one at a time.
LEMMA HandedGrows ==
  ASSUME Typed, Routes, Expire \/ Driving \/ (Judging /\ ~Replay)
  PROVE  handed' \in {handed, handed + 1} /\ handed \in Nat
<1>1. handed \in Nat
    BY NextTyped
<1>2. CASE Expire
    BY <1>1, <1>2 DEF Expire, handVars
<1>3. CASE Driving
    <2>1. CASE Spawn
        <3>1. handed = 0
            BY <2>1 DEF Spawn, Routes
        <3> QED
            BY <3>1, <2>1 DEF Spawn, handVars
    <2>2. CASE Write \/ Post
        BY <1>1, <2>2 DEF Write, Post, handVars
    <2>3. CASE Settling \/ Delivered \/ Exit \/ Posted
        BY <1>1, <2>3 DEF Settling, Delivered, Exit, Posted, ReadActivity, ReadInFlight,
                          ReadLog, ReadServed, ReadActivityAgain, ReadInFlightAgain, StillQuiet, handVars
    <2> QED
        BY <1>3, <2>1, <2>2, <2>3 DEF Driving
<1>4. CASE Judging /\ ~Replay
    BY <1>1, <1>4 DEF Judging, Driven, Calm, CalmActivity, CalmInFlight, Collect, Drop, Join, JudgeRecord,
                      JudgeReplay, handVars, runnerVars
<1> QED
    BY <1>1, <1>2, <1>3, <1>4

\* Where the calls are does not depend on the runner.
LEMMA FollowingKept ==
  ASSUME Typed, Following,
         UNCHANGED <<mode, agent, queue, step, serving, log, answers, next, waiting, sided>>,
         handed' \in {handed, handed + 1}
  PROVE  Following'
<1>1. handed \in Nat /\ next[1] \in Nat /\ agent \in Agents
    BY NextTyped
<1>2. Mains' = Mains /\ \A p : CallOf(p)' = CallOf(p)
    BY SamePlan
<1>3. Waiting' = Waiting /\ InHand' = InHand /\ Answers' = Answers
    BY DEF Waiting, InHand, Answers
<1>4. Refusal' <=> Refusal
    BY <1>2 DEF Refusal, Refused
<1>5. agent.at \in Nat
    <2>1. Deliveries \in Nat
        BY NextTyped
    <2>2. agent.at <= Deliveries /\ agent.at \in 0..Longest
        BY <1>1 DEF Agents, Deliveries
    <2> QED
        BY <2>2
<1>6. Refusal' \/ (next'[1] <= handed' + 1 /\ \A w \in Mains' : Before(w, next') => Answered(w)')
    BY <1>1, <1>2, <1>4 DEF Following, Before, Answered
<1>7. sided' => agent'.side # "none" /\ agent'.at <= handed'
    BY <1>1, <1>5 DEF Following
<1>8. (waiting' => next'[1] <= handed') /\ (next'[1] > handed' => next'[2] = 1) /\ (handed' = 0 => next' = <<1, 1>> /\ log'.served = 0)
    BY <1>1 DEF Following
<1> QED
    BY <1>2, <1>3, <1>6, <1>7, <1>8 DEF Following

\* The agent goes on as its plan says.
LEMMA FollowingOfAgent ==
  ASSUME Typed, OnePlace, Following, Agent
  PROVE  Following'
<1>0. UNCHANGED <<mode, agent, step, serving, log, answers, handed>>
    BY DEF Agent, CallModel, CallOnTheSide, TakeAnswer, AgentExits, Connect, proxyVars, recordVars, setVars,
           runnerVars, handVars
<1>1. /\ handed \in Nat /\ agent \in Agents /\ queue \in Seq(Requests)
      /\ agent.at \in Nat /\ (agent.at = 0 <=> agent.side = "none")
    BY NextTyped DEF Typed, TypeOK, TypeProxy, Requests, Agents
<1>2. Mains' = Mains /\ (\A p : CallOf(p)' = CallOf(p)) /\ (Refusal' <=> Refusal)
    BY <1>0, SamePlan DEF Refusal, Refused
<1>3. InHand' = InHand /\ Answers' = Answers
    BY <1>0 DEF InHand, Answers
<1>4. ASSUME NEW request, queue' = Append(queue, request), request = CallOf(request.who),
             request.who \in Mains \/ (request.who = Side /\ agent.side # "none")
      PROVE  /\ \A i \in DOMAIN queue' : queue'[i] = CallOf(queue'[i].who)
             /\ \A w \in (Waiting \cup InHand \cup Answers)' : w \in Mains' \/ (w = Side /\ agent'.side # "none")
    <2>1. \A i \in DOMAIN queue' : queue'[i] = request \/ (i \in DOMAIN queue /\ queue'[i] = queue[i])
        BY <1>1, <1>4
    <2>2. \A w \in Waiting' : w \in Mains \/ (w = Side /\ agent.side # "none")
        BY <1>4, <2>1 DEF Waiting, Following
    <2> QED
        BY <2>1, <2>2, <1>0, <1>2, <1>3, <1>4 DEF Following
<1>5. CASE CallModel
    <2>1. next \in Mains /\ next # Side
        BY <1>5, NextTyped DEF CallModel
    <2>2. MainCall(next) = CallOf(MainCall(next).who) /\ MainCall(next).who = next
        BY <2>1 DEF CallOf, MainCall
    <2>3. queue' = Append(queue, MainCall(next)) /\ waiting' /\ UNCHANGED <<next, sided>> /\ next[1] <= handed
        BY <1>5 DEF CallModel, Connect
    <2>4. handed' # 0
        BY <2>3, <1>0, <1>1, NextTyped
    <2>5. Refusal' \/ (next'[1] <= handed' + 1 /\ \A w \in Mains' : Before(w, next') => Answered(w)')
        BY <2>3, <1>0, <1>2 DEF Following, Before, Answered
    <2> QED
        BY <2>1, <2>2, <2>3, <2>4, <2>5, <1>0, <1>2, <1>4 DEF Following
<1>6. CASE CallOnTheSide
    <2>1. SideCall = CallOf(SideCall.who) /\ SideCall.who = Side
        BY DEF CallOf, SideCall
    <2>2. /\ queue' = Append(queue, SideCall) /\ sided' /\ UNCHANGED <<next, waiting>>
          /\ agent.side # "none" /\ agent.at <= handed
        BY <1>6 DEF CallOnTheSide, Connect
    <2>4. handed' # 0
        BY <2>2, <1>0, <1>1
    <2>5. Refusal' \/ (next'[1] <= handed' + 1 /\ \A w \in Mains' : Before(w, next') => Answered(w)')
        BY <2>2, <1>0, <1>2 DEF Following, Before, Answered
    <2> QED
        BY <2>1, <2>2, <2>4, <2>5, <1>0, <1>2, <1>4 DEF Following
<1>7. CASE TakeAnswer
    <2>1. /\ waiting /\ ~waiting' /\ Answered(next) /\ UNCHANGED <<queue, sided>>
          /\ next' = IF Refused(next) THEN <<Deliveries + 1, 1>>
                     ELSE IF next[2] < agent.turns[next[1]] THEN <<next[1], next[2] + 1>>
                     ELSE <<next[1] + 1, 1>>
        BY <1>7 DEF TakeAnswer, proxyVars
    <2>2. next \in Mains /\ next[1] <= handed /\ next[1] \in Nat \ {0} /\ next[2] \in Nat \ {0} /\ next = <<next[1], next[2]>>
        BY <2>1, NextTyped DEF Following
    <2>3. handed' # 0 /\ Waiting' = Waiting /\ (next'[1] > handed' => next'[2] = 1)
        <3>1. next' = <<next[1], next[2] + 1>> \/ next'[2] = 1
            BY <2>1, <2>2
        <3> QED
            BY <3>1, <2>1, <2>2, <1>0, <1>1 DEF Waiting
    <2>4. CASE Refused(next) \/ Refusal
        <3>1. Refusal'
            BY <2>2, <2>4, <1>2 DEF Refusal
        <3> QED
            BY <3>1, <2>1, <2>3, <1>0, <1>2, <1>3 DEF Following
    <2>5. CASE ~Refused(next) /\ ~Refusal
        <3>1. next' = <<next[1], next[2] + 1>> \/ (next' = <<next[1] + 1, 1>> /\ next[2] >= agent.turns[next[1]])
            <4>1. agent.turns[next[1]] \in Nat
                BY <2>1, NextTyped
            <4> QED
                BY <4>1, <2>1, <2>2, <2>5
        <3>2. next'[1] <= handed' + 1
            BY <3>1, <2>2, <1>0, <1>1
        <3>3. ASSUME NEW w \in Mains, Before(w, next')
              PROVE  Answered(w)
            <4>1. w = <<w[1], w[2]>> /\ w[1] \in Nat /\ w[2] \in Nat \ {0} /\ w[2] \in 1..agent.turns[w[1]]
                  /\ agent.turns[w[1]] \in Nat
                BY <1>1, MainsTyped, PlansTyped
            <4>2. Before(w, next) \/ w = next
                BY <4>1, <3>1, <3>3, <2>2 DEF Before
            <4>3. Before(w, next) => Answered(w)
                BY <2>5 DEF Following
            <4> QED
                BY <4>2, <4>3, <2>1
        <3>4. \A w \in Mains' : Before(w, next') => Answered(w)'
            BY <3>3, <1>0, <1>2 DEF Answered
        <3> QED
            BY <3>2, <3>4, <2>1, <2>3, <1>0, <1>2, <1>3 DEF Following
    <2> QED
        BY <2>4, <2>5
<1>8. CASE AgentExits
    <2>1. UNCHANGED <<queue, next, waiting, sided>>
        BY <1>8 DEF AgentExits, proxyVars
    <2> QED
        BY <2>1, <1>0, <1>1, FollowingKept
<1> QED
    BY <1>5, <1>6, <1>7, <1>8 DEF Agent

\* What the proxy's thread serves is what it was asked.
LEMMA FollowingOfThread ==
  ASSUME Typed, OnePlace, Following, ProxyThread(TRUE)
  PROVE  Following'
<1>0. UNCHANGED <<mode, agent, handed, next, waiting, sided>>
    BY ThreadKeeps DEF setVars, agentVars, runnerVars, handVars
<1>1. handed \in Nat /\ agent \in Agents /\ queue \in Seq(Requests) /\ log \in LogType
    BY NextTyped DEF Typed, TypeOK, TypeProxy, Requests, LogType
<1>2. Mains' = Mains /\ \A p : CallOf(p)' = CallOf(p)
    BY <1>0, SamePlan
<1>3. \/ UNCHANGED answers
      \/ answers' = answers \cup {[who |-> serving.who, ok |-> step = "logged"]} /\ InHand = {serving.who}
    BY DEF ProxyThread, Accept, Start, Refuse, ServeReplay, Forward, Capture, Count, UpstreamFails,
           Respond, Unmark, Finish, InHand
<1>4. answers \subseteq answers'
    BY <1>3
<1>5. Refusal => Refusal'
    BY <1>2, <1>4 DEF Refusal, Refused
<1>6. \A w : Answered(w) => Answered(w)'
    BY <1>4 DEF Answered
<1>7. Refusal' \/ (next'[1] <= handed' + 1 /\ \A w \in Mains' : Before(w, next') => Answered(w)')
    BY <1>0, <1>2, <1>5, <1>6 DEF Following, Before
<1>8. Answers' \subseteq Answers \cup InHand
    BY <1>3 DEF Answers
<1>9. Waiting' \subseteq Waiting /\ InHand' \subseteq InHand \cup Waiting /\ (\A i \in DOMAIN queue' : queue'[i] = CallOf(queue'[i].who))
      /\ (step' # "idle" => serving' = CallOf(serving'.who))
    <2>1. CASE Accept
        <3>1. /\ serving' = queue[1] /\ 1 \in DOMAIN queue /\ step' = "started"
              /\ \A i \in DOMAIN queue' : i + 1 \in DOMAIN queue /\ queue'[i] = queue[i + 1]
            BY <2>1, <1>1 DEF Accept
        <3> QED
            BY <3>1 DEF Waiting, InHand, Following
    <2>2. CASE ~Accept
        <3>1. UNCHANGED queue /\ (step' # "idle" => step # "idle" /\ UNCHANGED serving)
            BY <2>2 DEF ProxyThread, Start, Refuse, ServeReplay, Forward, Capture, Count, UpstreamFails,
                        Respond, Unmark, Finish
        <3>2. InHand' \subseteq InHand
            BY <2>2 DEF ProxyThread, Start, Refuse, ServeReplay, Forward, Capture, Count, UpstreamFails,
                        Respond, Unmark, Finish, InHand
        <3> QED
            BY <3>1, <3>2 DEF Waiting, Following
    <2> QED
        BY <2>1, <2>2
<1>10. \A w \in (Waiting \cup InHand \cup Answers)' : w \in Mains' \/ (w = Side /\ agent'.side # "none")
    BY <1>0, <1>2, <1>8, <1>9 DEF Following
<1>11. handed' = 0 => next' = <<1, 1>> /\ log'.served = 0
    <2>1. SUFFICES ASSUME handed = 0 PROVE log'.served = 0
        BY <1>0 DEF Following
    <2>2. InHand = {}
        BY <2>1, NothingAsked
    <2>3. step \in {"idle", "answered", "finishing"}
        BY <2>2 DEF InHand
    <2>4. UNCHANGED log
        BY <2>3 DEF ProxyThread, Accept, Start, Refuse, ServeReplay, Forward, Capture, Count, UpstreamFails,
                    Respond, Unmark, Finish
    <2> QED
        BY <2>1, <2>4 DEF Following
<1>12. mode' = "record" => ~agent'.edited /\ ~log'.divergence
    <2>1. SUFFICES ASSUME mode = "record" PROVE log'.divergence = log.divergence
        BY <1>0 DEF Following
    <2>2. ~ServeReplay
        BY <2>1 DEF ServeReplay
    <2> QED
        BY <1>1, <2>2 DEF ProxyThread, Accept, Start, Refuse, Forward, Capture, Count, UpstreamFails,
                          Respond, Unmark, Finish, LogType
<1> QED
    BY <1>0, <1>2, <1>7, <1>9, <1>10, <1>11, <1>12 DEF Following

\* The agent goes on from call to call.
LEMMA FollowingStep ==
  ASSUME Typed, Typed', OnePlace, Routes, Following, [Next]_vars
  PROVE  Following'
<1>1. CASE Expire \/ Driving \/ (Judging /\ ~Replay)
    <2>1. handed' \in {handed, handed + 1}
        BY <1>1, HandedGrows
    <2>2. UNCHANGED <<mode, agent, queue, step, serving, log, answers, next, waiting, sided>>
        BY <1>1, RunnerReads DEF recordVars, setVars
    <2> QED
        BY <2>1, <2>2, FollowingKept
<1>2. CASE UNCHANGED vars
    BY <1>2, FollowingKept DEF vars, proxyVars, recordVars, setVars, agentVars, runnerVars, handVars
<1>3. CASE Replay
    <2>1. /\ mode' = "replay" /\ queue' = <<>> /\ step' = "idle" /\ log'.served = 0 /\ answers' = {}
          /\ next' = <<1, 1>> /\ waiting' = FALSE /\ sided' = FALSE /\ handed' = 0
        BY <1>3 DEF Replay, Rebind, NoLog
    <2>2. (Waiting \cup InHand \cup Answers)' = {}
        BY <2>1 DEF Waiting, InHand, Answers
    <2>3. agent' \in Agents
        BY DEF Typed, TypeOK, TypeAgent
    <2>4. \A w \in Mains' : w[1] \in Nat \ {0} /\ w[2] \in Nat \ {0}
        <3>1. PICK a : a = agent'
            OBVIOUS
        <3>2. a.turns \in Seq(Nat \ {0}) /\ \A d \in 1..Len(a.turns) : a.turns[d] \in Nat \ {0}
            <4>1. a.turns \in Plans
                BY <2>3, <3>1 DEF Agents
            <4> QED
                BY <4>1, AgentFlowAssumption DEF Plans
        <3>3. Mains' = {w \in MainCalls : w[1] \in 1..Len(a.turns) /\ w[2] \in 1..a.turns[w[1]]}
            BY <3>1 DEF Mains, Deliveries
        <3> QED
            BY <3>2, <3>3
    <2>5. \A w \in Mains' : ~Before(w, next')
        BY <2>1, <2>4 DEF Before
    <2> QED
        BY <2>1, <2>2, <2>5 DEF Following, Before
<1> QED
    BY <1>1, <1>2, <1>3, FollowingOfAgent, FollowingOfThread DEF Next, Over
-----------------------------------------------------------------------------
\* One more turn belongs to one more call.
LEMMA OwnersExtended ==
  ASSUME NEW T, NEW list \in Seq(T), NEW turns, NEW more, NEW w, NEW t,
         w \notin DOMAIN turns, Owners(list, turns) # {},
         DOMAIN more = DOMAIN turns \cup {w}, more[w] = t, \A v \in DOMAIN turns : more[v] = turns[v]
  PROVE  Owners(Append(list, t), more) # {}
<1> DEFINE longer == Append(list, t)
           n == Len(list) + 1
<1>1. PICK o : o \in Owners(list, turns)
    OBVIOUS
<1>2. /\ o \in [DOMAIN list -> DOMAIN turns]
      /\ \A i, j \in DOMAIN list : (o[i] = o[j] => i = j)
      /\ \A i \in DOMAIN list : list[i] = turns[o[i]]
      /\ \A v \in DOMAIN turns : \E i \in DOMAIN list : o[i] = v
    BY <1>1 DEF Owners
<1>3. /\ DOMAIN longer = DOMAIN list \cup {n} /\ n \notin DOMAIN list /\ longer[n] = t
      /\ \A i \in DOMAIN list : longer[i] = list[i]
    OBVIOUS
<1> HIDE DEF longer, n
<1> DEFINE p == [i \in DOMAIN longer |-> IF i = n THEN w ELSE o[i]]
<1>4. p \in [DOMAIN longer -> DOMAIN more]
    BY <1>2, <1>3
<1>5. \A i, j \in DOMAIN longer : (p[i] = p[j] => i = j)
    BY <1>2, <1>3
<1>6. \A i \in DOMAIN longer : longer[i] = more[p[i]]
    BY <1>2, <1>3
<1>7. \A v \in DOMAIN more : \E i \in DOMAIN longer : p[i] = v
    <2>1. p[n] = w /\ n \in DOMAIN longer /\ \A i \in DOMAIN list : p[i] = o[i] /\ i \in DOMAIN longer
        BY <1>3
    <2> QED
        BY <2>1, <1>2
<1>8. p \in Owners(longer, more)
    <2> HIDE DEF p
    <2> QED
        BY <1>4, <1>5, <1>6, <1>7 DEF Owners
<1> QED
    BY <1>8 DEF longer

\* Two equal turns may change owners.
LEMMA OwnersSwapped ==
  ASSUME NEW list, NEW turns, NEW o \in Owners(list, turns), NEW i \in DOMAIN list, NEW j \in DOMAIN list,
         list[i] = list[j]
  PROVE  [k \in DOMAIN list |-> IF k = i THEN o[j] ELSE IF k = j THEN o[i] ELSE o[k]] \in Owners(list, turns)
<1>1. /\ o \in [DOMAIN list -> DOMAIN turns]
      /\ \A k, l \in DOMAIN list : (o[k] = o[l] => k = l)
      /\ \A k \in DOMAIN list : list[k] = turns[o[k]]
      /\ \A v \in DOMAIN turns : \E k \in DOMAIN list : o[k] = v
    BY DEF Owners
<1> DEFINE p == [k \in DOMAIN list |-> IF k = i THEN o[j] ELSE IF k = j THEN o[i] ELSE o[k]]
<1>2. p \in [DOMAIN list -> DOMAIN turns]
    BY <1>1
<1>3. \A k, l \in DOMAIN list : (p[k] = p[l] => k = l)
    BY <1>1
<1>4. \A k \in DOMAIN list : list[k] = turns[p[k]]
    BY <1>1
<1>5. ASSUME NEW v \in DOMAIN turns PROVE \E k \in DOMAIN list : p[k] = v
    <2>1. PICK k \in DOMAIN list : o[k] = v
        BY <1>1
    <2>2. p[IF k = i THEN j ELSE IF k = j THEN i ELSE k] = v
        BY <2>1
    <2> QED
        BY <2>2
<1> QED
    <2> HIDE DEF p
    <2>1. p \in Owners(list, turns)
        BY <1>2, <1>3, <1>4, <1>5 DEF Owners
    <2> QED
        BY <2>1 DEF p

\* A call the agent makes is one for the model if and only if it has a turn.
LEMMA AsksAre ==
  ASSUME agent \in Agents, NEW w, w \in Mains \/ (w = Side /\ agent.side # "none")
  PROVE  CallOf(w).kind = "model" <=> w \in Asks
<1>1. Side \notin Mains
    BY MainsTyped
<1>2. CASE w \in Mains
    BY <1>1, <1>2 DEF CallOf, MainCall, Asks
<1>3. CASE w = Side /\ w \notin Mains
    <2>1. agent.side \in AllSides \cup {"none"}
        BY DEF Agents
    <2> QED
        BY <1>3, <2>1 DEF CallOf, SideCall, Asks, AllSides
<1> QED
    BY <1>2, <1>3

\* Calls that look the same are answered the same.
LEMMA SameTurn ==
  ASSUME agent \in Agents, ~agent.edited, NEW v \in Asks, NEW w \in Asks, CallOf(v).body = CallOf(w).body
  PROVE  /\ Turn(CallOf(v)) = Turn(CallOf(w))
         /\ agent.side = "none" => v = w
<1>1. /\ Side \notin Mains
      /\ \A u \in Mains : u # Side /\ u = <<u[1], u[2]>> /\ u[1] \in 1..Deliveries /\ Deliveries \in Nat
    BY MainsTyped, PlansTyped
<1>2. \A u \in Mains : /\ CallOf(u).body = u /\ CallOf(u).tool = (u[2] < agent.turns[u[1]])
                       /\ Turn(CallOf(u)) = [body |-> u, tool |-> u[2] < agent.turns[u[1]]]
    BY <1>1 DEF CallOf, MainCall, Turn
<1>3. \A u \in Mains : u[1] # 0
    BY <1>1
<1>4. ASSUME NEW u \in Mains, agent.side \in {"title", "retry"}, CallOf(u).body = CallOf(Side).body
      PROVE  Turn(CallOf(u)) = Turn(CallOf(Side))
    <2>1. CallOf(Side) = SideCall
        BY DEF CallOf
    <2>2. CASE agent.side = "title"
        BY <2>1, <2>2, <1>2, <1>3, <1>4 DEF SideCall
    <2>3. CASE agent.side = "retry"
        <3>1. u = <<agent.at, 1>>
            BY <2>1, <2>3, <1>2, <1>4 DEF SideCall
        <3>2. SideCall.tool = (agent.turns[agent.at] > 1) /\ SideCall.body = <<agent.at, 1>>
            BY <2>3 DEF SideCall
        <3>3. agent.turns[agent.at] \in Nat
            BY <3>1, MainsTyped, PlansTyped
        <3> QED
            BY <3>1, <3>2, <3>3, <2>1, <1>2 DEF Turn
    <2> QED
        BY <1>4, <2>2, <2>3
<1> QED
    BY <1>1, <1>2, <1>4 DEF Asks

\* The agent of a trace is the one it was recorded from.
LEMMA UneditedStep ==
  ASSUME Typed, Following, Unedited, [Next]_vars
  PROVE  Unedited'
<1>1. CASE Replay
    <2>1. recorded' = (IF mishap THEN NoAgent ELSE agent) /\ verdict = "minted" /\ verdict' = "none"
        BY <1>1 DEF Replay
    <2>2. ~agent.edited
        BY <2>1 DEF Unedited, Following
    <2> QED
        BY <2>1, <2>2 DEF Unedited, NoAgent
<1>2. CASE ~Replay /\ (Expire \/ Driving \/ Judging)
    <2>0. UNCHANGED <<recorded, mode>>
        BY <1>2, RunnerReads DEF setVars, recordVars
    <2>1. CASE Expire
        BY <2>0, <2>1 DEF Expire, resultVars, Unedited
    <2>2. CASE Driving
        <3>1. /\ pc # "over"
              /\ verdict' \in {verdict, "error"}
            BY <2>2 DEF Driving, Settling, Spawn, Delivered, Write, Exit, Post, Posted, ReadActivity, ReadInFlight,
                        ReadLog, ReadServed, ReadActivityAgain, ReadInFlightAgain, StillQuiet,
                        Fail, Unreachable, KeepResults, resultVars
        <3> QED
            BY <2>0, <3>1 DEF Unedited
    <2>3. CASE Judging
        <3>1. CASE JudgeRecord
            BY <2>0, <3>1 DEF JudgeRecord, Goto, Unedited
        <3>2. CASE ~JudgeRecord
            <4>1. /\ pc # "over"
                  /\ verdict' \in {verdict, "error", "pass"}
                BY <1>2, <2>3, <3>2 DEF Judging, Driven, Calm, CalmActivity, CalmInFlight, Collect, Drop, Join, JudgeReplay,
                            KeepResults, resultVars, runnerVars
            <4> QED
                BY <2>0, <4>1 DEF Unedited
        <3> QED
            BY <3>1, <3>2
    <2> QED
        BY <1>2, <2>1, <2>2, <2>3
<1>3. CASE Agent \/ ProxyThread(TRUE) \/ UNCHANGED vars
    <2>1. UNCHANGED <<recorded, mode, verdict, pc>>
        BY <1>3, ThreadKeeps DEF Agent, CallModel, CallOnTheSide, TakeAnswer, AgentExits, Connect, vars, proxyVars, recordVars,
                                 setVars, runnerVars, resultVars
    <2> QED
        BY <2>1 DEF Unedited
<1> QED
    BY <1>1, <1>2, <1>3 DEF Next, Over

\* A step that takes no turn and gives no answer.
LEMMA RecordedKept ==
  ASSUME Recorded, UNCHANGED <<mode, agent, step, serving, captured, answers>>
  PROVE  Recorded'
<1>1. Gone' = Gone
    BY DEF Gone, Good
<1>2. PICK A, G, L : A = Asks /\ G = TurnsOf(Gone) /\ L = captured
    OBVIOUS
<1>3. Asks' = A /\ TurnsOf(Gone)' = G
    BY <1>1, <1>2, SamePlan DEF TurnsOf
<1> QED
    BY <1>1, <1>2, <1>3 DEF Recorded

\* A turn is captured for the call that is served.
LEMMA RecordedStep ==
  ASSUME Typed, OnePlace, Counted, Following, Recorded, [Next]_vars
  PROVE  Recorded'
<1>1. CASE Expire \/ Driving \/ (Judging /\ ~Replay)
    BY <1>1, RunnerReads, RecordedKept DEF recordVars, setVars
<1>2. CASE UNCHANGED vars \/ Agent
    <2>1. UNCHANGED <<mode, agent, step, serving, captured, answers>>
        BY <1>2 DEF vars, proxyVars, recordVars, setVars, Agent, CallModel, CallOnTheSide, TakeAnswer, AgentExits,
                    Connect
    <2> QED
        BY <2>1, RecordedKept
<1>3. CASE Replay
    BY <1>3 DEF Replay, Rebind, Recorded, Gone, Good
<1>4. CASE ProxyThread(TRUE)
    <2>0. /\ UNCHANGED <<mode, agent>> /\ agent \in Agents /\ captured \in Seq(TurnType)
          /\ Asks' = Asks /\ \A p : CallOf(p)' = CallOf(p)
        BY <1>4, ThreadKeeps, NextTyped, SamePlan DEF setVars, Typed, TypeOK, TypeProxy, TurnType
    <2>g. ASSUME Gone' = Gone
          PROVE  TurnsOf(Gone)' = TurnsOf(Gone)
        BY <2>g, <2>0 DEF TurnsOf
    <2>k. ASSUME UNCHANGED captured, Gone' = Gone, step' \in {"forwarding", "captured", "logged"} => serving'.kind = "model"
          PROVE  Recorded'
        BY <2>k, <2>g, <2>0 DEF Recorded
    <2>1. CASE Capture
        <3>1. /\ captured' = Append(captured, Turn(serving)) /\ step = "forwarding" /\ step' = "captured"
              /\ UNCHANGED <<serving, answers>>
            BY <2>1 DEF Capture
        <3>2. Gone' = Gone \cup {serving.who} /\ serving.who \in InHand
            BY <3>1 DEF Gone, Good, InHand
        <3>3. serving.who \notin Gone
            BY <3>1, <3>2 DEF Gone, Good, OnePlace, Answers
        <3>4. serving = CallOf(serving.who) /\ serving.who \in Asks
            BY <3>1, <3>2, <2>0, AsksAre DEF Following, Recorded
        <3>5. PICK w, t, G, H : /\ w = serving.who /\ t = Turn(serving)
                                /\ G = TurnsOf(Gone) /\ H = TurnsOf(Gone)'
            OBVIOUS
        <3>6. H = [v \in Gone \cup {w} |-> Turn(CallOf(v))]
            BY <3>2, <3>5, <2>0 DEF TurnsOf
        <3>7. /\ w \notin DOMAIN G /\ DOMAIN H = DOMAIN G \cup {w} /\ H[w] = t
              /\ \A v \in DOMAIN G : H[v] = G[v]
            BY <3>3, <3>4, <3>5, <3>6 DEF TurnsOf
        <3>8. Owners(captured, G) # {} => Owners(Append(captured, t), H) # {}
            BY <3>7, <2>0, OwnersExtended
        <3>9. mode' = "record" => Owners(captured', H) # {}
            BY <3>1, <3>5, <3>8, <2>0 DEF Recorded
        <3>10. Gone' \subseteq Asks' /\ serving'.kind = "model"
            BY <3>1, <3>2, <3>4, <2>0 DEF Recorded
        <3> QED
            BY <3>5, <3>9, <3>10 DEF Recorded
    <2>2. CASE Count
        <3>1. UNCHANGED <<captured, serving, answers>> /\ step = "captured" /\ step' = "logged"
            BY <2>2 DEF Count
        <3>2. Gone' = Gone
            BY <3>1 DEF Gone, Good
        <3> QED
            BY <3>1, <3>2, <2>k DEF Recorded
    <2>3. CASE Respond
        <3>1. /\ answers' = answers \cup {[who |-> serving.who, ok |-> step = "logged"]}
              /\ step \in {"logged", "failed"} /\ step' = "answered" /\ UNCHANGED captured
            BY <2>3 DEF Respond
        <3>2. Gone' = Gone
            <4> DEFINE a == [who |-> serving.who, ok |-> step = "logged"]
            <4>1. a.who = serving.who /\ (a.ok <=> step = "logged")
                OBVIOUS
            <4> HIDE DEF a
            <4>2. answers' = answers \cup {a}
                BY <3>1 DEF a
            <4>3. Good' = IF step = "logged" THEN Good \cup {a} ELSE Good
                BY <4>1, <4>2 DEF Good
            <4> QED
                BY <4>1, <4>3, <3>1 DEF Gone
        <3> QED
            BY <3>1, <3>2, <2>k
    <2>4. CASE ServeReplay
        <3>1. UNCHANGED <<captured, serving, answers>> /\ step = "serving" /\ serving.kind = "model" /\ mode = "replay"
            BY <2>4 DEF ServeReplay
        <3>2. serving.who \in InHand
            BY <3>1 DEF InHand
        <3>3. serving.who \in Asks
            BY <3>1, <3>2, <2>0, AsksAre DEF Following
        <3>4. Gone' \subseteq Gone \cup {serving.who}
            BY <3>1 DEF Gone, Good
        <3> QED
            BY <3>1, <3>3, <3>4, <2>0 DEF Recorded
    <2>5. CASE Accept \/ Start \/ Refuse(TRUE) \/ Forward \/ UpstreamFails \/ Unmark \/ Finish
        <3>1. UNCHANGED <<captured, answers>> /\ step \notin {"captured", "logged"} /\ step' \notin {"captured", "logged"}
            BY <2>5 DEF Accept, Start, Refuse, Forward, UpstreamFails, Unmark, Finish
        <3>2. Gone' = Gone
            BY <3>1 DEF Gone, Good
        <3>3. step' = "forwarding" => serving'.kind = "model"
            BY <2>5 DEF Accept, Start, Refuse, Forward, UpstreamFails, Unmark, Finish
        <3> QED
            BY <3>1, <3>2, <3>3, <2>k
    <2> QED
        BY <2>1, <2>2, <2>3, <2>4, <2>5, <1>4 DEF ProxyThread
<1> QED
    BY <1>1, <1>2, <1>3, <1>4 DEF Next, Over

\* The recorded agent again: the call that is served has a turn that was not consumed.
LEMMA TurnLeft ==
  ASSUME Typed, OnePlace, Following, Unedited, Recorded, Repeating, step = "serving", serving.kind = "model",
         NEW o \in Owners(cassette, TurnsOf(Asks)), \A i \in DOMAIN cassette : (i \in consumed <=> o[i] \in Gone)
  PROVE  /\ serving.who \in Asks /\ serving.who \notin Gone /\ serving = CallOf(serving.who)
         /\ \E j \in DOMAIN cassette : o[j] = serving.who /\ j \notin consumed /\ cassette[j] = Turn(serving)
<1>1. serving = CallOf(serving.who) /\ serving.who \in InHand
    BY DEF Following, InHand
<1>2. serving.who \in Asks
    BY <1>1, NextTyped, AsksAre DEF Following
<1>3. serving.who \notin Gone
    BY <1>1 DEF Gone, Good, OnePlace, Answers
<1>4. DOMAIN TurnsOf(Asks) = Asks /\ TurnsOf(Asks)[serving.who] = Turn(serving)
    BY <1>1, <1>2 DEF TurnsOf
<1>5. PICK j \in DOMAIN cassette : o[j] = serving.who
    BY <1>2, <1>4 DEF Owners
<1>6. cassette[j] = Turn(serving)
    BY <1>4, <1>5 DEF Owners
<1> QED
    BY <1>1, <1>2, <1>3, <1>5, <1>6

\* It is served, and the turns stay with their calls.
LEMMA ServedAgain ==
  ASSUME Typed, OnePlace, Following, Unedited, Recorded, Consumes, Repeating, ServeReplay
  PROVE  /\ \E i \in Matches(serving.body) :
              /\ consumed' = consumed \cup {i}
              /\ log' = [log EXCEPT !.served = @ + 1, !.lastTool = cassette[i].tool]
              /\ cassette[i].tool = serving.tool
         /\ step' = "logged" /\ serving.who \in Asks
         /\ \E o \in Owners(cassette, TurnsOf(Asks)) :
              \A i \in DOMAIN cassette : (i \in consumed' <=> o[i] \in Gone \cup {serving.who})
<1>1. PICK o \in Owners(cassette, TurnsOf(Asks)) : \A i \in DOMAIN cassette : (i \in consumed <=> o[i] \in Gone)
    BY DEF Consumes
<1>2. step = "serving" /\ serving.kind = "model"
    BY DEF ServeReplay
<1>3. serving.who \in Asks /\ serving.who \notin Gone /\ serving = CallOf(serving.who)
    BY <1>1, <1>2, TurnLeft
<1>4. PICK j \in DOMAIN cassette : o[j] = serving.who /\ j \notin consumed /\ cassette[j] = Turn(serving)
    BY <1>1, <1>2, TurnLeft
<1>5. j \in Matches(serving.body)
    BY <1>4 DEF Matches, Turn
<1>6. PICK i \in Matches(serving.body) : /\ consumed' = consumed \cup {i}
                                         /\ log' = [log EXCEPT !.served = @ + 1, !.lastTool = cassette[i].tool]
                                         /\ step' = "logged"
    BY <1>5 DEF ServeReplay
<1>7. i \in DOMAIN cassette /\ i \notin consumed /\ cassette[i].body = serving.body
    BY <1>6 DEF Matches
<1>8. /\ o[i] \in Asks /\ cassette[i] = Turn(CallOf(o[i]))
      /\ \A k, l \in DOMAIN cassette : (o[k] = o[l] => k = l)
    BY <1>7 DEF Owners, TurnsOf
<1>9. agent \in Agents /\ ~agent.edited
    BY NextTyped DEF Unedited, Repeating
<1>10. CallOf(o[i]).body = CallOf(serving.who).body
    BY <1>3, <1>7, <1>8 DEF Turn
<1>11. cassette[i] = Turn(serving) /\ cassette[i] = cassette[j]
    BY <1>3, <1>4, <1>8, <1>9, <1>10, SameTurn
<1> DEFINE p == [k \in DOMAIN cassette |-> IF k = i THEN o[j] ELSE IF k = j THEN o[i] ELSE o[k]]
<1>12. p \in Owners(cassette, TurnsOf(Asks))
    BY <1>4, <1>7, <1>11, OwnersSwapped
<1>13. ASSUME NEW k \in DOMAIN cassette
       PROVE  k \in consumed \cup {i} <=> p[k] \in Gone \cup {serving.who}
    BY <1>1, <1>3, <1>4, <1>7, <1>8
<1> HIDE DEF p
<1>14. \A k \in DOMAIN cassette : (k \in consumed' <=> p[k] \in Gone \cup {serving.who})
    BY <1>6, <1>13
<1>15. cassette[i].tool = serving.tool
    BY <1>11 DEF Turn
<1> QED
    BY <1>3, <1>6, <1>12, <1>14, <1>15

\* A step that serves nothing.
LEMMA ConsumesKept ==
  ASSUME Consumes, UNCHANGED <<mode, agent, recorded, cassette, consumed>>, Gone' = Gone
  PROVE  Consumes'
<1>1. Repeating' <=> Repeating
    BY DEF Repeating, Waiter
<1>2. PICK T : T = TurnsOf(Asks)
    OBVIOUS
<1>3. TurnsOf(Asks)' = T
    BY <1>2, SamePlan DEF TurnsOf
<1> QED
    BY <1>1, <1>2, <1>3 DEF Consumes

\* What has a turn changes only when one is captured or served.
LEMMA GoneKept ==
  ASSUME ProxyThread(TRUE), ~Capture, ~ServeReplay
  PROVE  Gone' = Gone /\ UNCHANGED consumed
<1>1. CASE Respond
    <2> DEFINE a == [who |-> serving.who, ok |-> step = "logged"]
    <2>1. a.who = serving.who /\ (a.ok <=> step = "logged")
        OBVIOUS
    <2> HIDE DEF a
    <2>2. answers' = answers \cup {a} /\ step \in {"logged", "failed"} /\ step' = "answered" /\ UNCHANGED consumed
        BY <1>1 DEF Respond, a
    <2>3. Good' = IF step = "logged" THEN Good \cup {a} ELSE Good
        BY <2>1, <2>2 DEF Good
    <2> QED
        BY <2>1, <2>2, <2>3 DEF Gone
<1>2. CASE Count
    BY <1>2 DEF Count, Gone, Good
<1>3. CASE Accept \/ Start \/ Refuse(TRUE) \/ Forward \/ UpstreamFails \/ Unmark \/ Finish
    <2>1. UNCHANGED <<consumed, answers>> /\ step \notin {"captured", "logged"} /\ step' \notin {"captured", "logged"}
        BY <1>3 DEF Accept, Start, Refuse, Forward, UpstreamFails, Unmark, Finish
    <2> QED
        BY <2>1 DEF Gone, Good
<1> QED
    BY <1>1, <1>2, <1>3 DEF ProxyThread

\* A replay consumes a turn for the call it serves.
LEMMA ConsumesStep ==
  ASSUME Typed, Typed', OnePlace, Counted, Following, Unedited, Recorded, Traced, Consumes, [Next]_vars
  PROVE  Consumes'
<1>1. CASE Expire \/ Driving \/ (Judging /\ ~Replay)
    <2>1. UNCHANGED <<mode, agent, recorded, cassette, consumed, answers, step, serving>>
        BY <1>1, RunnerReads DEF recordVars, setVars
    <2> QED
        BY <2>1, ConsumesKept DEF Gone, Good
<1>2. CASE UNCHANGED vars \/ Agent
    <2>1. UNCHANGED <<mode, agent, recorded, cassette, consumed, answers, step, serving>>
        BY <1>2 DEF vars, proxyVars, recordVars, setVars, Agent, CallModel, CallOnTheSide, TakeAnswer, AgentExits,
                    Connect
    <2> QED
        BY <2>1, ConsumesKept DEF Gone, Good
<1>3. CASE Replay
    <2>1. SUFFICES ASSUME Repeating' PROVE Consumes'
        BY DEF Consumes
    <2>2. /\ consumed' = {} /\ answers' = {} /\ step' = "idle" /\ verdict = "minted"
          /\ cassette' = [i \in DOMAIN trace |-> trace[i].turn]
          /\ recorded' = IF mishap THEN NoAgent ELSE agent
        BY <1>3 DEF Replay, Rebind
    <2>3. agent' \in Agents /\ agent' = recorded' /\ Waiter'
        BY <2>1 DEF Repeating, Typed, TypeOK, TypeAgent
    <2>4. NoAgent \notin Agents
        BY AgentFlowAssumption DEF NoAgent, Agents, Plans
    <2>5. ~mishap /\ UNCHANGED agent
        BY <2>2, <2>3, <2>4
    <2>6. Waiter /\ Asks' = Asks /\ \A w : CallOf(w)' = CallOf(w)
        BY <2>3, <2>5, SamePlan
    <2>7. PICK T, L : T = TurnsOf(Asks) /\ L = [i \in DOMAIN trace |-> trace[i].turn]
        OBVIOUS
    <2>8. TurnsOf(Asks)' = T
        BY <2>6, <2>7 DEF TurnsOf
    <2>9. Owners(L, T) # {} /\ cassette' = L
        BY <2>2, <2>5, <2>6, <2>7 DEF Traced
    <2>10. Gone' = {}
        BY <2>2 DEF Gone, Good
    <2> QED
        BY <2>2, <2>8, <2>9, <2>10 DEF Consumes
<1>4. CASE ProxyThread(TRUE) /\ ~Repeating
    <2>1. UNCHANGED <<mode, agent, recorded>>
        BY <1>4, ThreadKeeps DEF setVars
    <2> QED
        BY <2>1, <1>4 DEF Consumes, Repeating, Waiter
<1>5. CASE ProxyThread(TRUE) /\ Repeating
    <2>1. UNCHANGED <<mode, cassette, agent, recorded>>
        BY <1>5, ThreadKeeps DEF setVars
    <2>2. CASE ServeReplay
        <3>1. PICK T : T = TurnsOf(Asks)
            OBVIOUS
        <3>2. TurnsOf(Asks)' = T
            BY <2>1, <3>1, SamePlan DEF TurnsOf
        <3>3. PICK o \in Owners(cassette, T) : \A i \in DOMAIN cassette : (i \in consumed' <=> o[i] \in Gone \cup {serving.who})
            BY <1>5, <2>2, <3>1, ServedAgain
        <3>4. step' = "logged" /\ step = "serving" /\ UNCHANGED <<serving, answers>>
            BY <1>5, <2>2, ServedAgain DEF ServeReplay
        <3>5. Gone' = Gone \cup {serving.who}
            BY <3>4 DEF Gone, Good
        <3> QED
            BY <2>1, <3>2, <3>3, <3>5 DEF Consumes
    <2>3. CASE ~ServeReplay
        <3>1. ~Capture
            BY <1>5 DEF Capture, Repeating, Counted
        <3> QED
            BY <1>5, <2>1, <2>3, <3>1, GoneKept, ConsumesKept
    <2> QED
        BY <2>2, <2>3
<1> QED
    BY <1>1, <1>2, <1>3, <1>4, <1>5 DEF Next, Over

\* Nothing is heard when nothing is served.
LEMMA HeardKept ==
  ASSUME Heard, UNCHANGED <<mode, agent, recorded, log, step, serving, answers>>
  PROVE  Heard'
<1>1. (Lenient' <=> Lenient) /\ \A w : CallOf(w)' = CallOf(w)
    BY SamePlan DEF Lenient, Repeating
<1> QED
    BY <1>1 DEF Heard

\* Only a request that is not for the model is refused.
LEMMA HeardStep ==
  ASSUME Typed, OnePlace, Counted, Following, Unedited, Recorded, Consumes, Heard, [Next]_vars
  PROVE  Heard'
<1>1. CASE Expire \/ Driving \/ (Judging /\ ~Replay)
    BY <1>1, RunnerReads, HeardKept DEF recordVars, setVars
<1>2. CASE UNCHANGED vars \/ Agent
    <2>1. UNCHANGED <<mode, agent, recorded, log, answers, step, serving>>
        BY <1>2 DEF vars, proxyVars, recordVars, setVars, Agent, CallModel, CallOnTheSide, TakeAnswer, AgentExits,
                    Connect
    <2> QED
        BY <2>1, HeardKept
<1>3. CASE Replay
    BY <1>3 DEF Replay, Rebind, Heard, NoLog
<1>4. CASE ProxyThread(TRUE)
    <2>0. /\ UNCHANGED <<mode, agent, recorded>> /\ log \in LogType
          /\ (Lenient' <=> Lenient) /\ \A w : CallOf(w)' = CallOf(w)
        BY <1>4, ThreadKeeps, SamePlan DEF setVars, Lenient, Repeating, Typed, TypeOK, TypeProxy, LogType
    <2>s. SUFFICES ASSUME Lenient PROVE Heard'
        BY <2>0 DEF Heard
    <2>1. CASE ServeReplay
        <3>1. Repeating
            BY <2>1, <2>s DEF ServeReplay, Lenient
        <3>2. PICK i \in Matches(serving.body) : log' = [log EXCEPT !.served = @ + 1, !.lastTool = cassette[i].tool]
            BY <2>1, <3>1, ServedAgain
        <3>3. step' = "logged" /\ UNCHANGED answers
            BY <2>1, <3>1, ServedAgain DEF ServeReplay
        <3>4. log'.divergence = log.divergence /\ log'.upstreamError = log.upstreamError
            BY <2>0, <3>2 DEF LogType
        <3> QED
            BY <2>0, <2>s, <3>3, <3>4 DEF Heard
    <2>2. CASE Count
        <3>1. step' = "logged" /\ UNCHANGED answers /\ log'.divergence = log.divergence /\ log'.upstreamError = log.upstreamError
            BY <2>0, <2>2 DEF Count, LogType
        <3> QED
            BY <2>0, <2>s, <3>1 DEF Heard
    <2>3. CASE UpstreamFails
        <3>1. /\ step = "forwarding" /\ UNCHANGED answers
              /\ log'.divergence = log.divergence /\ log'.upstreamError = TRUE
            BY <2>0, <2>3 DEF UpstreamFails, LogType
        <3>2. mode # "replay"
            BY <3>1 DEF Counted
        <3> QED
            BY <2>0, <2>s, <3>1, <3>2 DEF Heard
    <2>4. CASE Respond
        <3>1. /\ answers' = answers \cup {[who |-> serving.who, ok |-> step = "logged"]}
              /\ step \in {"logged", "failed"} /\ step' = "answered" /\ UNCHANGED <<log, serving>>
            BY <2>4 DEF Respond
        <3>2. serving = CallOf(serving.who)
            BY <3>1 DEF Following
        <3>3. \A a \in answers' : a \in answers \/ (a.who = serving.who /\ a.ok = (step = "logged"))
            BY <3>1
        <3>4. \A a \in answers' : a.ok \/ CallOf(a.who).kind # "model" \/ log.upstreamError
            BY <3>1, <3>2, <3>3, <2>s DEF Heard
        <3> QED
            BY <3>1, <3>4, <2>0, <2>s DEF Heard
    <2>5. CASE Accept \/ Start \/ Refuse(TRUE) \/ Forward \/ Capture \/ Unmark \/ Finish
        <3>1. UNCHANGED <<log, answers>> /\ (step' = "failed" => serving'.kind # "model")
            BY <2>5 DEF Accept, Start, Refuse, Forward, Capture, Unmark, Finish
        <3> QED
            BY <3>1, <2>0, <2>s DEF Heard
    <2> QED
        BY <2>1, <2>2, <2>3, <2>4, <2>5, <1>4 DEF ProxyThread
<1> QED
    BY <1>1, <1>2, <1>3, <1>4 DEF Next, Over
-----------------------------------------------------------------------------
\* The agent waits for one main call at a time.
LEMMA AtHandStep ==
  ASSUME Typed, OnePlace, AtHand, [Next]_vars
  PROVE  AtHand'
<1>0. queue \in Seq(Requests)
    BY DEF Typed, TypeOK, TypeProxy, Requests
<1>1. CASE UNCHANGED <<queue, step, serving, next, waiting>>
    BY <1>1 DEF AtHand, Waiting, InHand
<1>2. CASE Expire \/ Driving \/ (Judging /\ ~Replay)
    BY <1>1, <1>2, RunnerReads
<1>3. CASE UNCHANGED vars
    BY <1>1, <1>3 DEF vars, proxyVars, agentVars
<1>4. CASE Replay
    BY <1>4 DEF Replay, Rebind, AtHand, Waiting, InHand
<1>5. CASE Agent
    <2>0. UNCHANGED <<step, serving>>
        BY <1>5 DEF Agent, CallModel, CallOnTheSide, TakeAnswer, AgentExits, Connect, proxyVars
    <2>1. InHand' = InHand
        BY <2>0 DEF InHand
    <2>2. ASSUME NEW request, queue' = Append(queue, request)
          PROVE  Waiting' \subseteq Waiting \cup {request.who}
        <3>1. \A i \in DOMAIN queue' : queue'[i] = request \/ (i \in DOMAIN queue /\ queue'[i] = queue[i])
            BY <1>0, <2>2
        <3> QED
            BY <3>1 DEF Waiting
    <2>3. CASE CallModel
        <3>1. Waiting' \subseteq Waiting \cup {next} /\ waiting' = TRUE /\ UNCHANGED next
            BY <2>2, <2>3 DEF CallModel, Connect, MainCall
        <3> QED
            BY <2>1, <3>1 DEF AtHand
    <2>4. CASE CallOnTheSide
        <3>1. Waiting' \subseteq Waiting \cup {Side} /\ UNCHANGED <<next, waiting>>
            BY <2>2, <2>4 DEF CallOnTheSide, Connect, SideCall
        <3> QED
            BY <2>1, <3>1 DEF AtHand
    <2>5. CASE TakeAnswer
        <3>1. Answered(next) /\ UNCHANGED queue
            BY <2>5 DEF TakeAnswer, proxyVars
        <3>2. next \notin Waiting \cup InHand /\ Waiting' = Waiting
            BY <3>1 DEF Answered, Answers, OnePlace, Waiting
        <3> QED
            BY <2>1, <3>2 DEF AtHand
    <2>6. CASE AgentExits
        BY <1>1, <2>6 DEF AgentExits, proxyVars
    <2> QED
        BY <2>3, <2>4, <2>5, <2>6, <1>5 DEF Agent
<1>6. CASE ProxyThread(TRUE)
    <2>1. UNCHANGED <<next, waiting>>
        BY <1>6, ThreadKeeps DEF agentVars
    <2>2. CASE Accept
        <3>1. /\ serving' = queue[1] /\ 1 \in DOMAIN queue
              /\ \A i \in DOMAIN queue' : i + 1 \in DOMAIN queue /\ queue'[i] = queue[i + 1]
            BY <2>2, <1>0 DEF Accept
        <3> QED
            BY <3>1, <2>1 DEF AtHand, Waiting, InHand
    <2>3. CASE ~Accept
        <3>1. UNCHANGED queue /\ InHand' \subseteq InHand
            BY <1>6, <2>3 DEF ProxyThread, Start, Refuse, ServeReplay, Forward, Capture, Count, UpstreamFails,
                              Respond, Unmark, Finish, InHand
        <3> QED
            BY <3>1, <2>1 DEF AtHand, Waiting
    <2> QED
        BY <2>2, <2>3
<1> QED
    BY <1>2, <1>3, <1>4, <1>5, <1>6 DEF Next, Over

\* Where every call was answered nothing happens any more.
LEMMA Quiesced ==
  ASSUME Typed, OnePlace, Following, AtHand, AllAnswered
  PROVE  Still /\ ~waiting
<1>1. ~waiting /\ next # Side
    BY NextTyped DEF AllAnswered
<1>2. Waiting \cup InHand \subseteq {Side}
    BY <1>1 DEF AtHand
<1>3. Side \notin Waiting \cup InHand
    <2>1. CASE agent.side = "none"
        BY <2>1, MainsTyped, NextTyped DEF Following
    <2>2. CASE agent.side # "none"
        BY <2>2 DEF AllAnswered, Answered, Answers, OnePlace
    <2> QED
        BY <2>1, <2>2
<1>4. Waiting = {} /\ InHand = {}
    BY <1>2, <1>3
<1>5. queue = <<>>
    <2>1. queue \in Seq(Requests)
        BY DEF Typed, TypeOK, TypeProxy, Requests
    <2>2. 1 \notin DOMAIN queue
        BY <1>4 DEF Waiting
    <2> QED
        BY <2>1, <2>2
<1> QED
    BY <1>1, <1>4, <1>5 DEF Still, InHand

\* The proxy's thread does nothing but count out the request it answered.
LEMMA StillStays ==
  ASSUME Still, ProxyThread(TRUE)
  PROVE  UNCHANGED <<log, answers, captured, consumed, queue>> /\ Still'
BY DEF Still, ProxyThread, Accept, Start, Refuse, ServeReplay, Forward, Capture, Count, UpstreamFails,
       Respond, Unmark, Finish

\* An agent that has every answer asks nothing more.
LEMMA AnsweredStays ==
  ASSUME Typed, OnePlace, Following, AtHand, AllAnswered, Agent \/ ProxyThread(TRUE)
  PROVE  /\ UNCHANGED <<log, answers, captured, consumed, queue, agent, next, waiting>>
         /\ AllAnswered'
<1>0. Still /\ ~waiting
    BY Quiesced
<1>1. CASE ProxyThread(TRUE)
    <2>1. UNCHANGED <<log, answers, captured, consumed, queue, agent, next, waiting>>
        BY <1>0, <1>1, StillStays, ThreadKeeps DEF setVars, agentVars
    <2> QED
        BY <2>1 DEF AllAnswered, Done, Deliveries, Answered
<1>2. CASE Agent
    <2>1. ~CallModel /\ ~TakeAnswer
        BY <1>0 DEF AllAnswered, CallModel, TakeAnswer
    <2>2. ~CallOnTheSide
        <3>1. next[1] = Deliveries + 1 /\ Deliveries \in Nat /\ agent \in Agents
            BY NextTyped DEF AllAnswered
        <3>2. agent.at <= Deliveries /\ agent.at \in Nat
            BY <3>1 DEF Agents, Deliveries
        <3> QED
            BY <3>1, <3>2 DEF CallOnTheSide
    <2>3. UNCHANGED <<log, answers, captured, consumed, queue, agent, next, waiting>>
        BY <1>2, <2>1, <2>2 DEF Agent, AgentExits, proxyVars, setVars
    <2> QED
        BY <2>3 DEF AllAnswered, Done, Deliveries, Answered
<1> QED
    BY <1>1, <1>2

\* The runner gives up waiting only when a deadline has passed.
LEMMA TimelyStep ==
  ASSUME Typed, Timely, [Next]_vars
  PROVE  Timely'
<1>0. /\ reg \in RegType /\ run \in RunType /\ Forget \in RegType /\ alive \in BOOLEAN /\ expired \in BOOLEAN
      /\ mishap \in BOOLEAN /\ reg.settled \in BOOLEAN /\ run.timedOut \in BOOLEAN
    <2>1. reg \in RegType /\ run \in RunType
        BY DEF Typed, TypeOK, TypeRunner, RegType, RunType
    <2> QED
        BY <2>1, RegReset DEF Typed, TypeOK, TypeAgent, TypeRunner, RegType, RunType
<1>1. CASE mishap'
    BY <1>1 DEF Timely
<1>2. CASE UNCHANGED <<mishap, run>> /\ (expired' = expired \/ expired' = FALSE) /\ pc' # "settled"
    <2>1. CASE expired' = FALSE
        BY <1>2, <2>1 DEF Timely
    <2>2. CASE expired' = expired
        BY <1>2, <2>2 DEF Timely
    <2> QED
        BY <1>2, <2>1, <2>2
<1>3. CASE UNCHANGED <<mishap, run, expired, pc, reg>>
    BY <1>3 DEF Timely
<1>4. CASE Agent
    <2>1. UNCHANGED <<run, expired, pc, reg>>
        BY <1>4 DEF Agent, CallModel, CallOnTheSide, TakeAnswer, AgentExits, runnerVars, resultVars
    <2>2. CASE AgentExits
        <3>1. mishap => mishap'
            BY <2>2 DEF AgentExits
        <3> QED
            BY <2>1, <3>1 DEF Timely
    <2>3. CASE ~AgentExits
        <3>1. UNCHANGED mishap
            BY <1>4, <2>3 DEF Agent, CallModel, CallOnTheSide, TakeAnswer
        <3> QED
            BY <2>1, <3>1 DEF Timely
    <2> QED
        BY <2>2, <2>3
<1>5. CASE ProxyThread(TRUE) \/ UNCHANGED vars
    BY <1>3, <1>5, ThreadKeeps DEF agentVars, runnerVars, resultVars, vars
<1>6. CASE Expire
    BY <1>1, <1>6 DEF Expire
<1>7. CASE Settling
    <2>0. UNCHANGED <<mishap, run>>
        BY <1>7 DEF Settling, ReadActivity, ReadInFlight, ReadLog, ReadServed, ReadActivityAgain,
                    ReadInFlightAgain, StillQuiet, KeepAgent, KeepResults, agentVars, resultVars
    <2>1. ASSUME NEW n, Settle(FALSE, n), expired
          PROVE  Timely'
        BY <2>0, <2>1, <1>0 DEF Timely, Settle, Goto
    <2>2. ASSUME NEW n, Settle(TRUE, n)
          PROVE  Timely'
        <3>1. reg' = [Forget EXCEPT !.served = n, !.settled = TRUE] /\ expired' = FALSE
            BY <2>2 DEF Settle, Goto
        <3>2. reg'.settled = TRUE
            BY <3>1, <1>0 DEF RegType
        <3> QED
            BY <2>0, <3>1, <3>2 DEF Timely
    <2>3. CASE pc' # "settled" /\ UNCHANGED expired
        BY <2>0, <2>3, <1>2
    <2>4. ASSUME NEW n, PollAgain(n)
          PROVE  Timely'
        BY <2>1, <2>3, <2>4 DEF PollAgain
    <2> QED
        BY <1>7, <2>2, <2>3, <2>4 DEF Settling, ReadActivity, ReadInFlight, ReadLog, ReadServed, ReadActivityAgain,
                    ReadInFlightAgain, StillQuiet
<1>8. CASE Spawn \/ Write \/ Post
    BY <1>1, <1>2, <1>8 DEF Spawn, Write, Post, Fail, Goto, KeepAgent, KeepResults, agentVars, resultVars
<1>9. CASE Delivered
    <2>1. CASE Fail
        BY <1>1, <2>1 DEF Fail
    <2>2. CASE ~Fail
        <3>1. UNCHANGED mishap /\ expired' = FALSE /\ pc' # "settled" /\ pc = "settled"
            BY <1>9, <2>2 DEF Delivered, KeepAgent, agentVars, Goto
        <3>2. UNCHANGED run \/ run' = [run EXCEPT !.timedOut = ~reg.settled]
            BY <1>9, <2>2 DEF Delivered
        <3>3. UNCHANGED run \/ (run'.timedOut => ~reg.settled)
            BY <3>2, <1>0 DEF RunType
        <3> QED
            BY <3>1, <3>3 DEF Timely
    <2> QED
        BY <2>1, <2>2
<1>10. CASE Exit
    <2>1. run'.timedOut = (run.timedOut \/ alive) /\ mishap' = (mishap \/ alive) /\ expired' = FALSE /\ pc' # "settled"
        BY <1>10 DEF Exit, Snapshot, Goto
    <2> QED
        BY <2>1 DEF Timely
<1>11. CASE Posted
    <2>1. CASE Unreachable
        BY <1>1, <2>1 DEF Unreachable
    <2>2. CASE ~Unreachable
        <3>1. run'.timedOut = (run.timedOut \/ expired) /\ UNCHANGED mishap /\ expired' = FALSE /\ pc' # "settled"
            BY <1>11, <2>2 DEF Posted, Snapshot, Goto, KeepAgent, agentVars
        <3> QED
            BY <3>1 DEF Timely
    <2> QED
        BY <2>1, <2>2
<1>12. CASE Judging /\ ~Replay
    <2>1. UNCHANGED <<mishap, run>> /\ (expired' = expired \/ expired' = FALSE)
        BY <1>12 DEF Judging, Driven, Calm, CalmActivity, CalmInFlight, CalmOr, Quiet, Collect, Drop, Join,
                     JudgeRecord, JudgeReplay, KeepAgent, KeepResults, agentVars, resultVars, runnerVars, Goto
    <2>2. UNCHANGED <<pc, reg>> \/ pc' # "settled"
        BY <1>12 DEF Judging, Driven, Calm, CalmActivity, CalmInFlight, CalmOr, Quiet, Collect, Drop, Join,
                     JudgeRecord, JudgeReplay, runnerVars, Goto
    <2>3. CASE expired' = FALSE
        BY <2>1, <2>2, <2>3 DEF Timely
    <2>4. CASE expired' = expired
        BY <2>1, <2>2, <2>4 DEF Timely
    <2> QED
        BY <2>1, <2>3, <2>4
<1>13. CASE Replay
    BY <1>13 DEF Replay, NoRun, Timely
<1> QED
    BY <1>4, <1>5, <1>6, <1>7, <1>8, <1>9, <1>10, <1>11, <1>12, <1>13 DEF Next, Driving, Over

\* The agent leaves when it is done.
LEMMA LeftStep ==
  ASSUME Typed, OnePlace, Following, AtHand, Left, [Next]_vars
  PROVE  Left'
<1>1. CASE mishap' \/ alive' = TRUE
    BY <1>1 DEF Left
<1>2. CASE UNCHANGED <<mishap, alive, agent, next, answers>>
    BY <1>2 DEF Left, AllAnswered, Done, Deliveries, Answered, Waiter
<1>3. CASE Replay
    BY <1>1, <1>3 DEF Replay
<1>4. CASE (Expire \/ Driving \/ Judging) /\ ~Replay
    <2>1. UNCHANGED <<agent, next, answers>>
        BY <1>4, RunnerReads DEF setVars
    <2>2. UNCHANGED <<mishap, alive>> \/ mishap' = TRUE \/ (alive' = FALSE /\ mishap' = (mishap \/ alive))
        <3>1. CASE Expire
            BY <3>1 DEF Expire
        <3>2. CASE Settling
            BY <3>2 DEF Settling, ReadActivity, ReadInFlight, ReadLog, ReadServed, ReadActivityAgain,
                        ReadInFlightAgain, StillQuiet, KeepAgent, agentVars
        <3>3. CASE Spawn \/ Delivered \/ Write \/ Exit \/ Post \/ Posted
            BY <3>3 DEF Spawn, Delivered, Write, Exit, Post, Posted, Fail, Unreachable, KeepAgent, agentVars
        <3>4. CASE Judging /\ ~Replay
            BY <3>4 DEF Judging, Driven, Calm, CalmActivity, CalmInFlight, Collect, Drop, Join, JudgeRecord,
                        JudgeReplay, KeepAgent, agentVars
        <3> QED
            BY <1>4, <3>1, <3>2, <3>3, <3>4 DEF Driving
    <2>3. alive \in BOOLEAN /\ mishap \in BOOLEAN
        BY DEF Typed, TypeOK, TypeAgent
    <2> QED
        BY <2>1, <2>2, <2>3 DEF Left, AllAnswered, Done, Deliveries, Answered, Waiter
<1>5. CASE ProxyThread(TRUE) \/ (Agent /\ ~AgentExits)
    <2>1. UNCHANGED <<mishap, alive, agent>>
        BY <1>5, ThreadKeeps DEF Agent, CallModel, CallOnTheSide, TakeAnswer, agentVars, setVars
    <2>2. SUFFICES ASSUME ~mishap, ~alive, Waiter PROVE AllAnswered'
        BY <2>1 DEF Left, Waiter
    <2> QED
        BY <1>5, <2>2, AnsweredStays DEF Left
<1>6. CASE AgentExits
    <2>1. /\ alive /\ mishap' = (mishap \/ ~(Done /\ Idle /\ (Conversation => eof) /\ (agent.side = "none" \/ sided)))
          /\ UNCHANGED <<agent, next, answers, handed>>
        BY <1>6 DEF AgentExits, proxyVars, setVars, runnerVars, handVars
    <2>2. SUFFICES ASSUME ~mishap', Waiter' PROVE AllAnswered'
        BY DEF Left
    <2>3. Waiter /\ Done /\ Idle /\ (agent.side = "none" \/ sided)
        BY <2>1, <2>2, SamePlan
    <2>4. agent.side # "none" => Answered(Side)
        BY <2>3 DEF Waiter, Idle, Following
    <2> QED
        BY <2>1, <2>3, <2>4 DEF AllAnswered, Done, Deliveries, Answered
<1>7. CASE UNCHANGED vars
    BY <1>2, <1>7 DEF vars, agentVars, setVars, proxyVars
<1> QED
    BY <1>3, <1>4, <1>5, <1>6, <1>7 DEF Next, Over, Agent

\* Unless the model failed, no main call was refused.
LEMMA NoRefusal ==
  ASSUME Typed, Heard, Lenient, ~log.upstreamError
  PROVE  ~Refusal
<1>1. SUFFICES ASSUME NEW w \in Mains, Refused(w) PROVE FALSE
    BY DEF Refusal
<1>2. CallOf(w).kind = "model"
    BY NextTyped, AsksAre DEF Asks
<1>3. PICK a \in answers : a = [who |-> w, ok |-> FALSE]
    BY <1>1 DEF Refused
<1>4. a.who = w /\ ~a.ok
    BY <1>3
<1> QED
    BY <1>2, <1>4 DEF Heard

\* Unless the model failed, every call of an agent that is done has its turn.
LEMMA AllGone ==
  ASSUME Typed, Following, Heard, Recorded, Lenient, AllAnswered, ~log.upstreamError
  PROVE  Gone = Asks
<1>0. agent \in Agents /\ next = <<Deliveries + 1, 1>> /\ Deliveries \in Nat
    BY NextTyped DEF AllAnswered
<1>1. ASSUME NEW w \in Asks, Answered(w)
      PROVE  w \in Gone
    <2>1. PICK a \in answers : a.who = w
        BY <1>1 DEF Answered
    <2>2. CallOf(w).kind = "model"
        BY <1>0, <1>1, AsksAre DEF Asks
    <2>3. a.ok
        BY <2>1, <2>2 DEF Heard
    <2> QED
        BY <2>1, <2>3 DEF Gone, Good
<1>2. ~Refusal
    BY NoRefusal
<1>3. ASSUME NEW w \in Mains
      PROVE  Answered(w)
    <2>1. Before(w, next)
        BY <1>0, MainsTyped DEF Before
    <2> QED
        BY <1>2, <2>1 DEF Following
<1>4. Side \in Asks => Answered(Side)
    <2>1. Side \in Asks => agent.side \in {"title", "retry"}
        BY <1>0, MainsTyped DEF Asks
    <2> QED
        BY <2>1 DEF AllAnswered
<1>5. Asks \subseteq Gone
    BY <1>1, <1>3, <1>4 DEF Asks
<1> QED
    BY <1>5 DEF Recorded

\* The run is judged when every call is answered, on the log as it is.
LEMMA EndedStep ==
  ASSUME Typed, OnePlace, Following, AtHand, Heard, Timely, Left, Ended, [Next]_vars
  PROVE  Ended'
<1>0. /\ alive \in BOOLEAN /\ expired \in BOOLEAN /\ mishap \in BOOLEAN /\ handed \in Nat /\ next[1] \in Nat
      /\ Deliveries \in Nat /\ agent \in Agents
    BY NextTyped DEF Typed, TypeOK, TypeAgent, TypeRunner
<1>1. CASE mishap' /\ pc' # "judge"
    BY <1>1 DEF Ended, Orderly
<1>2. CASE pc' \notin Past
    BY <1>2 DEF Ended, Past, Judgement
<1>3. CASE UNCHANGED <<mode, agent, recorded, next, answers, log, pc, run, verdict, collected, captured>> /\ (mishap => mishap')
    <2>1. (Waiter' <=> Waiter) /\ (Lenient' <=> Lenient) /\ (AllAnswered' <=> AllAnswered)
        BY <1>3 DEF Waiter, Lenient, Repeating, AllAnswered, Done, Deliveries, Answered
    <2>2. Orderly' => Orderly
        BY <2>1, <1>3 DEF Orderly
    <2> QED
        BY <2>1, <2>2, <1>3 DEF Ended
<1>4. CASE Agent \/ ProxyThread(TRUE)
    <2>1. UNCHANGED <<mode, agent, recorded, pc, run, verdict, collected>>
        BY <1>4, ThreadKeeps DEF Agent, CallModel, CallOnTheSide, TakeAnswer, AgentExits, Connect, proxyVars, recordVars,
                                 setVars, runnerVars, resultVars
    <2>2. mishap => mishap'
        <3>1. CASE AgentExits
            BY <3>1 DEF AgentExits
        <3>2. CASE ~AgentExits
            BY <1>4, <3>2, ThreadKeeps DEF Agent, CallModel, CallOnTheSide, TakeAnswer, agentVars
        <3> QED
            BY <3>1, <3>2
    <2>3. (Waiter' <=> Waiter) /\ (Lenient' <=> Lenient)
        BY <2>1 DEF Waiter, Lenient, Repeating
    <2>4. CASE Orderly' /\ pc \in Past /\ verdict # "error"
        <3>1. Orderly
            BY <2>2, <2>3, <2>4 DEF Orderly
        <3>2. AllAnswered
            BY <2>4, <3>1 DEF Ended
        <3>3. UNCHANGED <<log, answers, captured, next>>
            BY <1>4, <3>2, AnsweredStays
        <3> QED
            BY <1>3, <2>1, <2>2, <3>3
    <2>5. CASE ~(Orderly' /\ pc \in Past /\ verdict # "error")
        <3>1. ~(mode' = "record" /\ ~mishap' /\ verdict' = "none" /\ Waiter' /\ pc' \in {"drop", "judge"})
            BY <2>1, <2>5 DEF Orderly, Lenient, Past, Judgement
        <3> QED
            BY <2>1, <2>5, <3>1 DEF Ended
    <2> QED
        BY <2>4, <2>5
<1>5. CASE Expire \/ UNCHANGED vars
    <2>1. CASE Expire
        BY <1>1, <2>1 DEF Expire, Ended, resultVars, Waits
    <2>2. CASE UNCHANGED vars
        <3>1. UNCHANGED <<mode, agent, recorded, next, answers, log, pc, run, verdict, collected, captured, mishap>>
            BY <2>2 DEF vars, proxyVars, recordVars, setVars, agentVars, runnerVars, resultVars
        <3> QED
            BY <3>1, <1>3
    <2> QED
        BY <1>5, <2>1, <2>2
<1>6. CASE Replay
    BY <1>2, <1>6 DEF Replay, Past, Judgement
<1>7. CASE Settling \/ Spawn \/ Delivered \/ Write \/ Post
    <2>1. CASE Fail
        BY <1>1, <2>1 DEF Fail, Goto
    <2>2. CASE ~Fail
        <3>1. pc' \notin Past
            BY <1>7, <2>2 DEF Settling, ReadActivity, ReadInFlight, ReadLog, ReadServed, ReadActivityAgain, ReadInFlightAgain,
                              StillQuiet, PollAgain, Settle, Spawn, Delivered, Write, Post, Goto, Past, Judgement
        <3> QED
            BY <3>1, <1>2
    <2> QED
        BY <2>1, <2>2
<1>8. ASSUME UNCHANGED <<mode, agent, recorded, next, answers, log>>, AllAnswered, ~run.timedOut,
             Snapshot(FALSE), pc' = "driven"
      PROVE  Ended'
    <2>1. run' = [served |-> log.served, divergence |-> log.divergence,
                  upstreamError |-> log.upstreamError, timedOut |-> FALSE]
        BY <1>8 DEF Snapshot
    <2>2. AllAnswered'
        BY <1>8 DEF AllAnswered, Done, Deliveries, Answered
    <2> QED
        BY <1>8, <2>1, <2>2 DEF Ended
<1>9. CASE Exit
    <2>1. /\ UNCHANGED <<mode, agent, recorded, next, answers, log>> /\ pc' = "driven" /\ Snapshot(alive)
          /\ mishap' = (mishap \/ alive) /\ (~alive \/ expired)
        BY <1>9 DEF Exit, proxyVars, recordVars, setVars, Goto
    <2>2. CASE ~mishap' /\ Waiter
        <3>1. alive = FALSE /\ ~mishap
            BY <1>0, <2>1, <2>2
        <3>2. AllAnswered /\ ~run.timedOut /\ Snapshot(FALSE)
            BY <2>1, <2>2, <3>1 DEF Left, Timely
        <3> QED
            BY <2>1, <3>2, <1>8
    <2>3. CASE mishap' \/ ~Waiter
        <3>1. ~Waiter => ~Waiter'
            BY <2>1, SamePlan
        <3> QED
            BY <2>1, <2>3, <3>1 DEF Ended, Orderly
    <2> QED
        BY <2>2, <2>3
<1>10. CASE Posted
    <2>1. CASE Unreachable
        BY <1>1, <2>1 DEF Unreachable, Goto
    <2>2. CASE ~Unreachable
        <3>1. /\ UNCHANGED <<mode, agent, recorded, next, answers, log, mishap>> /\ Snapshot(expired) /\ (Idle \/ expired)
              /\ pc' = IF log.divergence \/ expired \/ handed = Deliveries THEN "driven" ELSE "start"
            BY <1>10, <2>2 DEF Posted, Goto, KeepAgent, proxyVars, recordVars, setVars, agentVars
        <3>2. CASE Orderly' /\ pc' = "driven"
            <4>1. Orderly
                BY <3>1, <3>2 DEF Orderly, Waiter, Lenient, Repeating
            <4>2. ~expired /\ expired = FALSE
                BY <1>0, <4>1 DEF Orderly, Timely
            <4>3. ~log.divergence /\ handed = Deliveries /\ Idle
                BY <3>1, <3>2, <4>1, <4>2 DEF Orderly, Heard
            <4>4. Done
                BY <1>0, <4>3 DEF Idle, Done
            <4>5. agent.side # "none" => Answered(Side)
                <5>1. agent.at <= handed
                    BY <1>0, <4>3 DEF Agents, Deliveries
                <5> QED
                    BY <4>1, <4>3, <5>1 DEF Orderly, Waiter, Idle
            <4>6. AllAnswered /\ ~run.timedOut /\ Snapshot(FALSE)
                BY <3>1, <4>1, <4>2, <4>4, <4>5 DEF AllAnswered, Timely, Orderly
            <4> QED
                BY <3>1, <3>2, <4>6, <1>8
        <3>3. CASE ~Orderly' /\ pc' = "driven"
            BY <3>3 DEF Ended
        <3>4. CASE pc' = "start"
            BY <3>4 DEF Ended, Past, Judgement
        <3> QED
            BY <3>1, <3>2, <3>3, <3>4
    <2> QED
        BY <2>1, <2>2
<1>11. CASE Judging /\ ~Replay
    <2>1. UNCHANGED <<mode, agent, recorded, next, answers, log, captured>> /\ UNCHANGED <<mishap, run>>
        BY <1>11, RunnerReads DEF recordVars, setVars, Judging, Driven, Calm, CalmActivity, CalmInFlight, Collect, Drop, Join,
                    JudgeRecord, JudgeReplay, KeepAgent, KeepResults, agentVars, resultVars, runnerVars
    <2>2. (Waiter' <=> Waiter) /\ (Orderly' <=> Orderly) /\ (AllAnswered' <=> AllAnswered)
        BY <2>1 DEF Waiter, Orderly, Lenient, Repeating, AllAnswered, Done, Deliveries, Answered
    <2>3. pc \in Past
        BY <1>11 DEF Judging, Driven, Calm, CalmActivity, CalmInFlight, Collect, Drop, Join, JudgeRecord, JudgeReplay,
                     Past, Judgement
    <2>4. ASSUME verdict' # "error" => verdict # "error"
          PROVE  Orderly' /\ pc' \in Past /\ verdict' # "error" =>
                   AllAnswered' /\ run' = [served |-> log'.served, divergence |-> log'.divergence,
                                           upstreamError |-> log'.upstreamError, timedOut |-> FALSE]
        BY <2>1, <2>2, <2>3, <2>4 DEF Ended
    <2>5. CASE JudgeRecord \/ JudgeReplay
        <3>1. verdict = "none" /\ pc' = "over"
            BY <2>5 DEF JudgeRecord, JudgeReplay, Goto, Ended
        <3> QED
            BY <2>4, <3>1 DEF Ended
    <2>6. CASE Driven
        <3>1. /\ verdict' = "error" \/ UNCHANGED verdict
              /\ pc' # "judge" /\ (pc' = "drop" => verdict' = "error" \/ mode # "record")
            BY <2>6 DEF Driven, Goto, KeepResults, resultVars
        <3> QED
            BY <2>1, <2>4, <3>1 DEF Ended
    <2>7. CASE Calm \/ CalmActivity \/ CalmInFlight
        <3>1. UNCHANGED verdict /\ pc' \notin {"drop", "judge"}
            BY <2>7 DEF Calm, CalmActivity, CalmInFlight, CalmOr, Quiet, Goto, KeepResults, resultVars
        <3> QED
            BY <2>4, <3>1 DEF Ended
    <2>8. CASE Collect
        <3>1. UNCHANGED verdict /\ pc' = "drop" /\ collected' = captured
            BY <2>8 DEF Collect, Goto
        <3> QED
            BY <2>1, <2>4, <3>1 DEF Ended
    <2>9. CASE Drop
        <3>1. UNCHANGED <<verdict, collected, pc>>
            BY <2>9 DEF Drop, runnerVars, resultVars
        <3> QED
            BY <2>1, <2>2, <2>4, <3>1 DEF Ended
    <2>10. CASE Join
        <3>1. UNCHANGED <<verdict, collected>> /\ pc = "drop" /\ pc' = IF verdict = "none" THEN "judge" ELSE "over"
            BY <2>10 DEF Join, KeepResults, resultVars, Goto
        <3> QED
            BY <2>1, <2>2, <2>4, <3>1 DEF Ended
    <2> QED
        BY <1>11, <2>5, <2>6, <2>7, <2>8, <2>9, <2>10 DEF Judging
<1> QED
    BY <1>4, <1>5, <1>6, <1>7, <1>9, <1>10, <1>11 DEF Next, Driving, Over

\* The trace of a recording without a mishap holds the turns of all the calls.
LEMMA TracedStep ==
  ASSUME Typed, Following, Heard, Recorded, Unedited, Ended, Traced, [Next]_vars
  PROVE  Traced'
<1>1. CASE JudgeRecord
    <2>1. SUFFICES ASSUME verdict' = "minted", ~mishap', Waiter'
                   PROVE  Owners([i \in DOMAIN trace |-> trace[i].turn], TurnsOf(Asks))' # {}
        BY DEF Traced
    <2>2. /\ Mintable /\ trace' = Stamped /\ mode = "record" /\ pc = "judge" /\ verdict = "none"
          /\ UNCHANGED <<agent, mishap>>
        BY <1>1, <2>1 DEF JudgeRecord, KeepAgent, setVars, agentVars, Ended
    <2>3. ~mishap /\ Waiter
        BY <2>1, <2>2, SamePlan
    <2>4. Orderly
        BY <2>2, <2>3 DEF Orderly, Lenient
    <2>5. AllAnswered /\ run.upstreamError = log.upstreamError /\ collected = captured
        BY <2>2, <2>3, <2>4 DEF Ended, Past, Judgement
    <2>6. Gone = Asks
        BY <2>2, <2>4, <2>5, AllGone DEF Mintable, Orderly
    <2>7. collected \in Seq(TurnType)
        BY DEF Typed, TypeOK, TypeRunner, TurnType
    <2>8. DOMAIN trace' = DOMAIN collected /\ \A i \in DOMAIN collected : trace'[i].turn = collected[i]
        BY <2>2 DEF Stamped
    <2>9. [i \in DOMAIN trace' |-> trace'[i].turn] = captured
        <3>1. [i \in DOMAIN trace' |-> trace'[i].turn] = [i \in DOMAIN collected |-> collected[i]]
            BY <2>8
        <3> QED
            BY <3>1, <2>5, <2>7
    <2>10. PICK T : T = TurnsOf(Asks)
        OBVIOUS
    <2>11. TurnsOf(Asks)' = T
        BY <2>2, <2>10, SamePlan DEF TurnsOf
    <2>12. Owners(captured, T) # {}
        BY <2>2, <2>6, <2>10 DEF Recorded
    <2> QED
        BY <2>9, <2>11, <2>12
<1>2. CASE UNCHANGED <<agent, trace, verdict>> /\ (mishap => mishap')
    <2>1. PICK T, L : T = TurnsOf(Asks) /\ L = [i \in DOMAIN trace |-> trace[i].turn]
        OBVIOUS
    <2>2. TurnsOf(Asks)' = T /\ [i \in DOMAIN trace |-> trace[i].turn]' = L /\ (Waiter' <=> Waiter)
        BY <1>2, <2>1, SamePlan DEF TurnsOf
    <2> QED
        BY <1>2, <2>1, <2>2 DEF Traced
<1>3. CASE ProxyThread(TRUE) \/ UNCHANGED vars
    <2>1. UNCHANGED <<agent, trace, verdict, mishap>>
        BY <1>3, ThreadKeeps DEF vars, setVars, agentVars, runnerVars, resultVars
    <2> QED
        BY <2>1, <1>2
<1>4. CASE ~JudgeRecord /\ (Agent \/ Expire \/ Driving \/ Judging)
    <2>1. verdict' # "minted" \/ (pc # "over" /\ UNCHANGED verdict)
        <3>1. CASE Expire \/ Agent
            BY <3>1 DEF Expire, resultVars, Waits, Agent, CallModel, CallOnTheSide, TakeAnswer, AgentExits, runnerVars
        <3>2. CASE Driving
            BY <3>2 DEF Driving, Settling, Spawn, Delivered, Write, Exit, Post, Posted, ReadActivity, ReadInFlight,
                        ReadLog, ReadServed, ReadActivityAgain, ReadInFlightAgain, StillQuiet, Fail, Unreachable,
                        KeepResults, resultVars
        <3>3. CASE Judging
            BY <1>4, <3>3 DEF Judging, Driven, Calm, CalmActivity, CalmInFlight, Collect, Drop, Join, JudgeReplay,
                              Replay, KeepResults, resultVars, runnerVars
        <3> QED
            BY <1>4, <3>1, <3>2, <3>3
    <2>2. verdict' # "minted"
        BY <2>1 DEF Unedited
    <2> QED
        BY <2>2 DEF Traced
<1> QED
    BY <1>1, <1>3, <1>4 DEF Next, Over
-----------------------------------------------------------------------------
\* What is appended comes last.
LEMMA AppendedLast ==
  ASSUME NEW T, NEW s \in Seq(T), NEW x
  PROVE  /\ Len(s) \in Nat /\ Len(Append(s, x)) = Len(s) + 1 /\ Append(s, x)[Len(s) + 1] = x
         /\ \A i \in 1..Len(s) : Append(s, x)[i] = s[i]
OBVIOUS

\* One more window follows those there are.
LEMMA ChainLonger ==
  ASSUME windows \in Seq(Nat \X Nat), Chained, NEW b \in Nat, windows' = Append(windows, <<LastEnd, b>>),
         LastEnd < b, log.served \in Nat, b <= log.served, UNCHANGED log
  PROVE  Chained' /\ Len(windows') = Len(windows) + 1 /\ LastEnd' = b
<1> DEFINE n == Len(windows)
           w == <<LastEnd, b>>
<1>0. w[1] = LastEnd /\ w[2] = b /\ windows' = Append(windows, w)
    OBVIOUS
<1>1. /\ n \in Nat /\ Len(windows') = n + 1 /\ windows'[n + 1] = w /\ windows' # <<>>
      /\ \A i \in 1..n : windows'[i] = windows[i]
      /\ w[1] = LastEnd /\ w[2] = b
    <2> HIDE DEF w
    <2>0. PICK s, t, x : s = windows /\ t = windows' /\ x = w
        OBVIOUS
    <2>a. s \in Seq(Nat \X Nat) /\ t = Append(s, x)
        BY <1>0, <2>0, Zenon
    <2>b. /\ Len(s) \in Nat /\ Len(t) = Len(s) + 1 /\ t[Len(s) + 1] = x
          /\ \A i \in 1..Len(s) : t[i] = s[i]
        BY ONLY <2>a, SMT
    <2>1. n \in Nat /\ Len(windows') = n + 1 /\ windows'[n + 1] = w /\ \A i \in 1..n : windows'[i] = windows[i]
        BY <2>0, <2>b, Zenon
    <2>2. windows' # <<>>
        BY <2>1
    <2> QED
        BY <1>0, <2>1, <2>2
<1>2. LastEnd' = b
    BY <1>1 DEF LastEnd
<1>3. LastEnd = IF n = 0 THEN 0 ELSE windows[n][2]
    BY DEF LastEnd
<1> HIDE DEF w, n
<1>4. ASSUME NEW i \in 1..(n + 1)
      PROVE  /\ windows'[i][1] = IF i = 1 THEN 0 ELSE windows'[i - 1][2]
             /\ windows'[i][1] < windows'[i][2] /\ windows'[i][2] <= log.served
    <2>1. CASE i = n + 1
        <3>1. windows'[i][1] = LastEnd /\ windows'[i][2] = b
            BY <1>1, <2>1
        <3>2. LastEnd = IF i = 1 THEN 0 ELSE windows'[i - 1][2]
            <4>1. CASE n = 0
                BY <1>3, <2>1, <4>1
            <4>2. CASE n # 0
                <5>1. i - 1 = n /\ n \in 1..n /\ i # 1
                    BY <1>1, <2>1, <4>2
                <5> QED
                    BY <1>1, <1>3, <4>2, <5>1
            <4> QED
                BY <4>1, <4>2
        <3> QED
            BY <3>1, <3>2
    <2>2. CASE i \in 1..n
        <3>1. /\ windows[i][1] = IF i = 1 THEN 0 ELSE windows[i - 1][2]
              /\ windows[i][1] < windows[i][2] /\ windows[i][2] <= log.served
            BY <2>2 DEF Chained, n
        <3>2. i # 1 => i - 1 \in 1..n
            BY <1>1, <2>2
        <3> QED
            BY <1>1, <2>2, <3>1, <3>2
    <2>3. i \in 1..n \/ i = n + 1
        <3> HIDE DEF n
        <3> QED
            BY <1>1
    <2> QED
        BY <2>1, <2>2, <2>3, Zenon
<1>5. Chained'
    BY <1>1, <1>4 DEF Chained
<1> QED
    BY <1>1, <1>2, <1>5 DEF n

\* Windows that follow each other to the last turn are contiguous.
LEMMA ChainCovers ==
  ASSUME Typed, Chained, Len(windows) = Deliveries, LastEnd = log.served
  PROVE  Contiguous(Deliveries, log.served)
<1>1. Deliveries \in Nat \ {0} /\ windows # <<>>
    BY NextTyped
<1>2. windows[Deliveries][2] = log.served
    BY <1>1 DEF LastEnd
<1> QED
    BY <1>1, <1>2 DEF Contiguous, Chained

\* The windows stay chained while the log grows.
LEMMA ChainStays ==
  ASSUME Typed, Chained, UNCHANGED windows, log'.served \in Nat, log.served <= log'.served
  PROVE  Chained' /\ LastEnd' = LastEnd
<1>1. windows \in Seq(Nat \X Nat) /\ log.served \in Nat
    BY DEF Typed, TypeOK, TypeRunner, TypeProxy
<1>2. \A i \in 1..Len(windows) : windows[i][2] \in Nat
    BY <1>1
<1>3. \A i \in 1..Len(windows) : windows[i][2] <= log'.served
    BY <1>1, <1>2 DEF Chained
<1> QED
    BY <1>3 DEF Chained, LastEnd

\* A mishap is not forgotten, and only a replay changes who is driven and how.
LEMMA NoMishapBefore ==
  ASSUME [Next]_vars, ~Replay
  PROVE  /\ UNCHANGED <<mode, driver, agent, recorded>>
         /\ ~mishap' => ~mishap /\ ~Expire /\ ~Fail /\ ~Unreachable
<1>1. UNCHANGED <<mode, driver, agent, recorded>>
    <2>1. CASE Expire \/ Driving \/ Judging
        BY <2>1, RunnerReads DEF recordVars, setVars
    <2>2. CASE Agent \/ ProxyThread(TRUE) \/ UNCHANGED vars
        BY <2>2, ThreadKeeps DEF Agent, CallModel, CallOnTheSide, TakeAnswer, AgentExits, Connect, proxyVars,
                                 recordVars, setVars, vars
    <2> QED
        BY <2>1, <2>2 DEF Next, Over
<1>2. ~mishap' => ~Expire /\ ~Fail /\ ~Unreachable
    BY DEF Expire, Fail, Unreachable
<1>3. ~mishap' => ~mishap
    <2>1. CASE Driving \/ Judging
        BY <1>2, <2>1 DEF Driving, Settling, Spawn, Delivered, Write, Exit, Post, Posted, ReadActivity, ReadInFlight,
                    ReadLog, ReadServed, ReadActivityAgain, ReadInFlightAgain, StillQuiet, Judging, Driven, Calm,
                    CalmActivity, CalmInFlight, Collect, Drop, Join, JudgeRecord, JudgeReplay, KeepAgent, agentVars
    <2>2. CASE Agent \/ ProxyThread(TRUE) \/ UNCHANGED vars
        BY <2>2, ThreadKeeps DEF Agent, CallModel, CallOnTheSide, TakeAnswer, AgentExits, agentVars, vars
    <2> QED
        BY <1>2, <2>1, <2>2 DEF Next, Over
<1> QED
    BY <1>1, <1>2, <1>3

\* A replay goes on with the same agent and without a mishap, or it did not begin.
LEMMA PairedBefore ==
  ASSUME Typed, Ended, [Next]_vars, ~Replay, Paired'
  PROVE  Paired /\ UNCHANGED <<mode, driver, agent, recorded>> /\ ~mishap' /\ ~Expire /\ ~Fail /\ ~Unreachable
<1>1. UNCHANGED <<mode, driver, agent, recorded>>
    BY NoMishapBefore
<1>2. ~mishap' /\ ~mishap /\ ~Expire /\ ~Fail /\ ~Unreachable
    BY NoMishapBefore DEF Paired
<1>4. verdict # "error"
    <2>0. verdict' # "error"
        BY DEF Paired
    <2>1. CASE Driving
        BY <1>2, <2>0, <2>1 DEF Driving, Settling, Spawn, Delivered, Write, Exit, Post, Posted, ReadActivity, ReadInFlight,
                    ReadLog, ReadServed, ReadActivityAgain, ReadInFlightAgain, StillQuiet, KeepResults, resultVars
    <2>2. CASE Judging
        BY <2>0, <2>2 DEF Judging, Driven, Calm, CalmActivity, CalmInFlight, Collect, Drop, Join, JudgeRecord,
                          JudgeReplay, KeepResults, resultVars, runnerVars, Ended
    <2>3. CASE Agent \/ ProxyThread(TRUE) \/ UNCHANGED vars
        BY <2>0, <2>3, ThreadKeeps DEF Agent, CallModel, CallOnTheSide, TakeAnswer, AgentExits, runnerVars, resultVars, vars
    <2> QED
        BY <1>2, <2>1, <2>2, <2>3 DEF Next, Over
<1>5. Repeating
    BY <1>1, SamePlan DEF Paired, Repeating
<1> QED
    BY <1>1, <1>2, <1>4, <1>5 DEF Paired

\* An agent without a call on the side has at most the call it waits for under way.
LEMMA OneAtATime ==
  ASSUME Typed, OnePlace, Following, AtHand, agent.side = "none"
  PROVE  /\ step \notin {"idle", "answered", "finishing"} =>
              serving.who = next /\ serving = CallOf(next) /\ waiting /\ queue = <<>>
         /\ Answered(next) => queue = <<>> /\ step \in {"idle", "answered", "finishing"}
<1>1. agent \in Agents /\ queue \in Seq(Requests)
    BY NextTyped DEF Typed, TypeOK, TypeProxy, Requests
<1>2. \A w \in Waiting \cup InHand : w = next /\ waiting
    BY <1>1, MainsTyped DEF Following, AtHand
<1>3. queue # <<>> => next \in Waiting
    <2>1. queue # <<>> => 1 \in DOMAIN queue
        BY <1>1
    <2>2. queue # <<>> => queue[1].who \in Waiting
        BY <2>1 DEF Waiting
    <2> QED
        BY <2>2, <1>2
<1>4. step \notin {"idle", "answered", "finishing"} =>
        serving.who \in InHand /\ serving = CallOf(serving.who) /\ InHand = {serving.who}
    BY DEF InHand, Following
<1>5. step \notin {"idle", "answered", "finishing"} => serving.who = next /\ serving = CallOf(next) /\ waiting
    BY <1>2, <1>4
<1>6. step \notin {"idle", "answered", "finishing"} => queue = <<>>
    BY <1>3, <1>4, <1>5 DEF OnePlace
<1>7. Answered(next) => next \in Answers
    BY DEF Answered, Answers
<1>8. Answered(next) => queue = <<>> /\ step \in {"idle", "answered", "finishing"}
    BY <1>3, <1>4, <1>5, <1>7 DEF OnePlace
<1> QED
    BY <1>5, <1>6, <1>8

\* In a replay that goes well no call is refused and none diverges.
LEMMA AlonePlain ==
  ASSUME Typed, Following, Heard, Timely, Paired
  PROVE  /\ ~log.divergence /\ ~log.upstreamError /\ ~Refusal /\ ~expired /\ ~run.timedOut
         /\ mode = "replay" /\ (pc = "settled" => reg.settled)
         /\ next[1] <= handed + 1 /\ \A w \in Mains : Before(w, next) => Answered(w)
<1>1. Lenient /\ mode = "replay" /\ ~mishap
    BY DEF Lenient, Paired, Repeating
<1>2. ~log.divergence /\ ~log.upstreamError
    BY <1>1 DEF Heard
<1>3. ~Refusal
    BY <1>1, <1>2, NoRefusal
<1> QED
    BY <1>1, <1>2, <1>3 DEF Timely, Following

\* A step that leaves the agent's place, the log and the runner's readings.
LEMMA ScriptedKept ==
  ASSUME ScriptedGoes, UNCHANGED <<agent, next, log, windows, pc, reg, handed>>, Reached' <=> Reached
  PROVE  ScriptedGoes'
<1>1. \A d : CaughtUp(d)' <=> CaughtUp(d)
    BY DEF CaughtUp
<1>2. Chained' /\ LastEnd' = LastEnd /\ (Done' <=> Done) /\ Deliveries' = Deliveries
    BY DEF ScriptedGoes, Chained, LastEnd, Done, Deliveries
<1> HIDE DEF CaughtUp, Reached, LastEnd, Chained, Done, Deliveries
<1>3. PICK h, D : h = handed /\ D = Deliveries
    OBVIOUS
<1> QED
    BY <1>1, <1>2, <1>3 DEF ScriptedGoes, CaughtUp

\* The agent takes an answer and goes on.
LEMMA ScriptedOfAgent ==
  ASSUME Typed, OnePlace, Following, AtHand, Heard, Timely, Alone, ScriptedGoes, Agent
  PROVE  ScriptedGoes'
<1>0. UNCHANGED <<agent, log, windows, pc, reg, handed, driver, step>>
    BY DEF Agent, CallModel, CallOnTheSide, TakeAnswer, AgentExits, Connect, proxyVars, setVars, runnerVars,
           handVars, resultVars
<1>1. CASE CallModel
    <2>1. ~waiting /\ UNCHANGED next /\ queue' # <<>>
        <3>1. queue' = Append(queue, MainCall(next)) /\ queue \in Seq(Requests)
            BY <1>1 DEF CallModel, Connect, Typed, TypeOK, TypeProxy, Requests
        <3>2. ~waiting /\ UNCHANGED next
            BY <1>1 DEF CallModel
        <3> QED
            BY <3>1, <3>2
    <2>2. Reached' <=> Reached
        BY <2>1 DEF Reached
    <2> QED
        BY <1>0, <2>1, <2>2, ScriptedKept
<1>2. CASE AgentExits
    <2>1. UNCHANGED <<next, waiting, queue, step>>
        BY <1>2 DEF AgentExits, proxyVars
    <2> QED
        BY <1>0, <2>1, ScriptedKept DEF Reached
<1>3. CASE TakeAnswer
    <2>1. waiting /\ Answered(next) /\ ~Refused(next) /\ waiting' = FALSE
          /\ next' = IF next[2] < agent.turns[next[1]] THEN <<next[1], next[2] + 1>> ELSE <<next[1] + 1, 1>>
        <3>1. ~Refusal
            BY AlonePlain DEF Alone
        <3>2. waiting /\ Answered(next)
            BY <1>3 DEF TakeAnswer
        <3>3. ~Refused(next)
            BY <3>1, <3>2, NextTyped DEF Refusal
        <3> QED
            BY <1>3, <3>3 DEF TakeAnswer
    <2>2. Reached /\ ~Reached'
        BY <2>1, OneAtATime DEF Reached, Alone
    <2>3. next = <<next[1], next[2]>> /\ next[1] \in Nat \ {0} /\ next[2] \in Nat \ {0} /\ handed \in Nat
        BY NextTyped
    <2>4. log.lastTool = (next[2] < agent.turns[next[1]])
        BY <2>2 DEF ScriptedGoes
    <2>5. \/ next'[1] = next[1] /\ next'[2] = next[2] + 1 /\ log.lastTool = TRUE /\ next[2] < agent.turns[next[1]]
          \/ next'[1] = next[1] + 1 /\ next'[2] = 1
        BY <2>1, <2>4
    <2>6. \A d \in Nat : CaughtUp(d) => next'[1] > d
        <3> SUFFICES ASSUME NEW d \in Nat, CaughtUp(d) PROVE next'[1] > d
            OBVIOUS
        <3>1. CASE next[1] > d
            BY <2>3, <2>5, <3>1
        <3>2. CASE next = <<d, agent.turns[d]>>
            <4>1. next[1] = d /\ next[2] = agent.turns[next[1]]
                BY <3>2
            <4> QED
                BY <4>1, <2>3, <2>5
        <3> QED
            BY <3>1, <3>2 DEF CaughtUp
    <2>7. Chained' /\ LastEnd' = LastEnd /\ Deliveries' = Deliveries /\ Deliveries \in Nat
        BY <1>0, NextTyped DEF ScriptedGoes, Chained, LastEnd, Deliveries
    <2>8. next'[2] > 1 => log.lastTool
        BY <2>3, <2>5
    <2>9. next'[1] < handed \/ next' = <<handed, 1>> => next[1] < handed
        <3>1. next' = <<handed, 1>> => next'[1] = handed /\ next'[2] = 1
            OBVIOUS
        <3> QED
            BY <3>1, <2>3, <2>5
    <2>10. PICK D : D = Deliveries
        OBVIOUS
    <2> HIDE DEF CaughtUp, Reached, LastEnd, Chained, Deliveries
    <2>12. /\ pc \in Delivering =>
              /\ handed > 0 /\ Len(windows) = handed - 1 /\ LastEnd = reg.base
              /\ handed > 1 => next'[1] > handed - 1
              /\ next'[1] < handed \/ next' = <<handed, 1>> => log.served = reg.base
        BY <2>3, <2>6, <2>9 DEF ScriptedGoes
    <2>13. /\ pc \in {"quiet", "activity2", "inFlight2", "settled"} =>
                next'[1] > handed /\ reg.served = log.served /\ log.served > reg.base
           /\ pc = "write" => Len(windows) = handed /\ LastEnd = reg.base /\ reg.base = log.served /\ next'[1] > handed
        BY <2>3, <2>6 DEF ScriptedGoes
    <2>14. /\ pc = "start" => windows = <<>>
           /\ pc \in {"exit"} \cup Past => Len(windows) = Deliveries /\ LastEnd = log.served /\ next'[1] > Deliveries
        BY <2>6, <2>7 DEF ScriptedGoes
    <2> QED
        BY <1>0, <2>2, <2>7, <2>8, <2>10, <2>12, <2>13, <2>14 DEF ScriptedGoes, CaughtUp
<1>4. ~CallOnTheSide
    BY DEF Alone, CallOnTheSide
<1> QED
    BY <1>1, <1>2, <1>3, <1>4 DEF Agent

\* The proxy serves the call the agent waits for.
LEMMA ScriptedOfThread ==
  ASSUME Typed, Typed', OnePlace, Counted, Following, Unedited, Recorded, Consumes, AtHand, Heard, Timely, Alone,
         ScriptedGoes, ProxyThread(TRUE)
  PROVE  ScriptedGoes'
<1>0. UNCHANGED <<agent, windows, pc, reg, handed, driver, next, waiting>>
    BY ThreadKeeps DEF setVars, agentVars, runnerVars, handVars, resultVars
<1>1. Repeating /\ agent.side = "none" /\ mode = "replay"
    BY DEF Alone, Paired, Repeating
<1>2. step \notin {"forwarding", "captured"}
    BY <1>1 DEF Counted
<1>3. /\ next = <<next[1], next[2]>> /\ next[1] \in Nat \ {0} /\ next[2] \in Nat \ {0} /\ handed \in Nat
      /\ handed <= Deliveries /\ Deliveries \in Nat
      /\ waiting => ~Done /\ next \in Mains /\ next[1] <= handed
    BY NextTyped DEF Following
<1>4. waiting => CallOf(next) = MainCall(next) /\ CallOf(next).kind = "model"
                 /\ CallOf(next).tool = (next[2] < agent.turns[next[1]])
    BY NextTyped DEF CallOf, MainCall
<1>5. CASE ServeReplay
    <2>1. step = "serving" /\ waiting /\ queue = <<>> /\ serving = CallOf(next) /\ UNCHANGED queue
        BY <1>1, <1>5, OneAtATime DEF ServeReplay
    <2>2. ~Reached
        BY <2>1 DEF Reached
    <2>3. PICK i : /\ log' = [log EXCEPT !.served = @ + 1, !.lastTool = cassette[i].tool]
                   /\ cassette[i].tool = serving.tool /\ step' = "logged"
        BY <1>1, <1>5, ServedAgain
    <2>4. log'.served = log.served + 1 /\ log'.lastTool = (next[2] < agent.turns[next[1]]) /\ log.served \in Nat
        <3>1. log \in LogType
            BY DEF Typed, TypeOK, TypeProxy, LogType
        <3>2. log'.served = log.served + 1 /\ log'.lastTool = cassette[i].tool /\ log.served \in Nat
            BY <2>3, <3>1 DEF LogType
        <3> QED
            BY <1>4, <2>1, <2>3, <3>2
    <2>5. Reached'
        BY <1>0, <2>1, <2>3 DEF Reached
    <2>6. Chained' /\ LastEnd' = LastEnd
        BY <1>0, <2>4, ChainStays DEF ScriptedGoes
    <2>7. \A d \in Nat : CaughtUp(d) => next[1] > d
        BY <2>2 DEF CaughtUp
    <2>8. next[1] <= handed
        BY <1>3, <2>1
    <2>9. pc \notin {"quiet", "activity2", "inFlight2", "settled", "write", "exit"} \cup Past
        BY <1>3, <2>7, <2>8 DEF ScriptedGoes
    <2>10. pc \in Delivering =>
              /\ handed > 0 /\ Len(windows) = handed - 1 /\ LastEnd = reg.base
              /\ handed > 1 => next[1] > handed - 1
              /\ next[1] >= handed
        <3>1. handed - 1 \in Int /\ (handed > 1 => handed - 1 \in Nat)
            BY <1>3
        <3>2. pc \in Delivering => /\ handed > 0 /\ Len(windows) = handed - 1 /\ LastEnd = reg.base
                                   /\ handed > 1 => next[1] > handed - 1
            BY <2>7, <3>1 DEF ScriptedGoes
        <3> QED
            BY <1>3, <3>2
    <2>11. pc = "start" => windows = <<>>
        BY DEF ScriptedGoes
    <2> HIDE DEF Reached, LastEnd, Chained, CaughtUp, Deliveries
    <2>12. pc \in Delivering => /\ handed > 0 /\ Len(windows) = handed - 1 /\ LastEnd = reg.base
                                /\ handed > 1 => next[1] > handed - 1
                                /\ ~(next[1] < handed)
        BY <1>3, <2>10
    <2> QED
        BY <1>0, <2>4, <2>5, <2>6, <2>9, <2>11, <2>12 DEF ScriptedGoes, CaughtUp
<1>6. CASE ~ServeReplay
    <2>1. UNCHANGED log
        BY <1>2, <1>6 DEF ProxyThread, Accept, Start, Refuse, Forward, Capture, Count, UpstreamFails,
                          Respond, Unmark, Finish
    <2>2. Reached' <=> Reached
        <3>1. CASE Accept
            BY <1>0, <3>1 DEF Accept, Reached
        <3>2. ~Refuse(TRUE)
            <4>1. step = "serving" => serving.kind = "model"
                BY <1>1, <1>4, OneAtATime
            <4> QED
                BY <4>1 DEF Refuse
        <3>3. CASE Start \/ Respond \/ Unmark \/ Finish
            BY <1>0, <3>3 DEF Start, Respond, Unmark, Finish, Reached
        <3>4. CASE Forward
            BY <1>1, <3>4 DEF Forward
        <3> QED
            BY <1>2, <1>6, <3>1, <3>2, <3>3, <3>4 DEF ProxyThread, Capture, Count, UpstreamFails
    <2> QED
        BY <1>0, <2>1, <2>2, ScriptedKept
<1> QED
    BY <1>5, <1>6

\* wait_for_settle settles a delivery when its last answer was given.
LEMMA ScriptedSettling ==
  ASSUME Typed, OnePlace, Following, AtHand, Heard, Timely, Alone, ScriptedGoes, Settling
  PROVE  ScriptedGoes'
<1>0. UNCHANGED <<agent, next, waiting, queue, step, log, windows, handed, driver>>
    BY RunnerReads DEF Driving, Settling, ReadActivity, ReadInFlight, ReadLog, ReadServed, ReadActivityAgain,
                       ReadInFlightAgain, StillQuiet, handVars, setVars, KeepResults, resultVars
<1>1. ~log.divergence /\ ~expired /\ next[1] <= handed + 1
    BY AlonePlain DEF Alone
<1>2. /\ next = <<next[1], next[2]>> /\ next[1] \in Nat \ {0} /\ next[2] \in Nat \ {0} /\ handed \in Nat
      /\ handed <= Deliveries /\ Deliveries \in Nat
      /\ ~Done => next[2] <= agent.turns[next[1]] /\ agent.turns[next[1]] \in Nat
    <2>1. ~Done => next \in Mains /\ agent \in Agents
        BY NextTyped
    <2> QED
        BY <2>1, NextTyped, MainsTyped
<1>3. /\ reg \in RegType /\ log.served \in Nat /\ activity \in Nat /\ inFlight \in {0, 1}
      /\ reg.served \in Nat /\ reg.base \in Nat
    BY DEF Typed, TypeOK, TypeProxy, TypeRunner, RegType
<1>4. reg'.base = reg.base
    BY <1>3 DEF Settling, ReadActivity, ReadInFlight, ReadLog, ReadServed, ReadActivityAgain, ReadInFlightAgain,
                StillQuiet, PollAgain, Settle, Forget, RegType
<1>5. pc \in Delivering
    BY DEF Settling, ReadActivity, ReadInFlight, ReadLog, ReadServed, ReadActivityAgain, ReadInFlightAgain,
           Delivering, Polling
<1>6. \/ pc' \in {"activity", "inFlight", "log"}
      \/ pc' \in {"quiet", "activity2", "inFlight2", "settled"} /\ CaughtUp(handed) /\ reg'.served = log.served
         /\ log.served > reg.base
    <2>1. CASE ReadActivity \/ ReadInFlight
        BY <2>1 DEF ReadActivity, ReadInFlight
    <2>2. CASE ReadLog
        <3>1. CASE MaySettle
            <4>1. pc' = "quiet" /\ reg' = [reg EXCEPT !.served = log.served] /\ ~log.lastTool /\ log.served > reg.base
                BY <1>1, <2>2, <3>1 DEF ReadLog, MaySettle
            <4>2. reg'.served = log.served
                BY <4>1, <1>3 DEF RegType
            <4>3. ~(next[1] < handed) /\ ~(next = <<handed, 1>> /\ ~Reached)
                BY <1>3, <1>5, <4>1 DEF ScriptedGoes
            <4>4. CASE next[1] = handed
                <5>1. ~Done
                    BY <1>2, <4>4 DEF Done
                <5>2. CASE Reached
                    <6>1. log.lastTool = (next[2] < agent.turns[next[1]])
                        BY <5>2 DEF ScriptedGoes
                    <6>a. ~(next[2] < agent.turns[next[1]])
                        BY <4>1, <6>1, Zenon
                    <6>b. next[2] \in Nat /\ agent.turns[next[1]] \in Nat /\ next[2] <= agent.turns[next[1]]
                        BY <5>1, <1>2, Zenon
                    <6>2. next[2] = agent.turns[next[1]]
                        BY <6>a, <6>b
                    <6>3. next = <<handed, agent.turns[handed]>>
                        BY <6>2, <4>4, <1>2
                    <6> QED
                        BY <5>2, <6>3, <4>1, <4>2 DEF CaughtUp
                <5>3. CASE ~Reached
                    <6>1. next[2] # 1
                        BY <1>2, <4>3, <4>4, <5>3
                    <6>2. next[2] > 1
                        BY <1>2, <6>1
                    <6> QED
                        BY <4>1, <5>1, <5>3, <6>2 DEF ScriptedGoes
                <5> QED
                    BY <5>2, <5>3
            <4>5. CASE next[1] > handed
                BY <4>1, <4>2, <4>5 DEF CaughtUp
            <4> QED
                BY <1>2, <4>3, <4>4, <4>5
        <3>2. CASE ~MaySettle
            BY <1>1, <2>2, <3>2 DEF ReadLog, PollAgain
        <3> QED
            BY <3>1, <3>2
    <2>3. CASE ReadServed \/ ReadActivityAgain
        <3>1. pc \in {"quiet", "activity2"}
            BY <2>3 DEF ReadServed, ReadActivityAgain
        <3>2. CaughtUp(handed) /\ reg.served = log.served /\ log.served > reg.base
            BY <3>1 DEF ScriptedGoes
        <3>3. (pc' \in {"activity2", "inFlight2"} /\ UNCHANGED reg) \/ pc' = "activity"
            BY <1>1, <2>3 DEF ReadServed, ReadActivityAgain, StillQuiet, PollAgain
        <3> QED
            BY <3>2, <3>3
    <2>4. CASE ReadInFlightAgain
        <3>1. CaughtUp(handed) /\ reg.served = log.served /\ log.served > reg.base
            BY <2>4 DEF ReadInFlightAgain, ScriptedGoes
        <3>2. pc' = "activity" \/ (pc' = "settled" /\ reg' = [Forget EXCEPT !.served = reg.served, !.settled = TRUE])
            BY <1>1, <2>4 DEF ReadInFlightAgain, StillQuiet, PollAgain, Settle, Goto
        <3>3. [Forget EXCEPT !.served = reg.served, !.settled = TRUE].served = reg.served
            BY <1>3 DEF Forget, RegType
        <3> QED
            BY <3>1, <3>2, <3>3
    <2> QED
        BY <2>1, <2>2, <2>3, <2>4 DEF Settling
<1>7. (Reached' <=> Reached) /\ \A d : CaughtUp(d)' <=> CaughtUp(d)
    BY <1>0 DEF Reached, CaughtUp
<1>8. Chained' /\ LastEnd' = LastEnd /\ (Done' <=> Done) /\ Deliveries' = Deliveries
    BY <1>0 DEF ScriptedGoes, Chained, LastEnd, Done, Deliveries
<1>9. CaughtUp(handed)' <=> CaughtUp(handed)
    BY <1>0 DEF Reached, CaughtUp
<1>10. CaughtUp(handed - 1)' <=> CaughtUp(handed - 1)
    BY <1>0 DEF Reached, CaughtUp
<1>11. pc' \in Delivering /\ pc' \notin {"write", "start", "exit"} \cup Past
    BY <1>6 DEF Delivering, Polling, Past, Judgement
<1> HIDE DEF Chained, LastEnd, Done, Deliveries, CaughtUp, Reached
<1> QED
    BY <1>0, <1>4, <1>5, <1>6, <1>7, <1>8, <1>9, <1>10, <1>11 DEF ScriptedGoes

\* The runner goes from delivery to delivery, and on to the judgement.
LEMMA ScriptedDriving ==
  ASSUME Typed, OnePlace, Following, AtHand, Heard, Timely, Left, Routes, Alone, ScriptedGoes,
         Driving, ~Settling, ~Fail, ~Unreachable
  PROVE  ScriptedGoes'
<1>0. UNCHANGED <<agent, next, waiting, queue, step, log, driver>>
    BY RunnerReads DEF setVars
<1>1. /\ ~log.divergence /\ ~expired /\ next[1] <= handed + 1 /\ (pc = "settled" => reg.settled)
      /\ driver = "scripted" /\ Process /\ Conversation /\ mode = "replay" /\ ~mishap /\ Waiter
    BY AlonePlain DEF Alone, Paired, Repeating, Process, Conversation
<1>2. /\ next = <<next[1], next[2]>> /\ next[1] \in Nat \ {0} /\ next[2] \in Nat \ {0} /\ handed \in Nat
      /\ handed <= Deliveries /\ Deliveries \in Nat /\ Deliveries # 0
    BY NextTyped
<1>3. /\ reg \in RegType /\ log.served \in Nat /\ reg.served \in Nat /\ reg.base \in Nat
      /\ windows \in Seq(Nat \X Nat)
    BY DEF Typed, TypeOK, TypeProxy, TypeRunner, RegType
<1>4. (Reached' <=> Reached) /\ (\A d : CaughtUp(d)' <=> CaughtUp(d)) /\ (Done' <=> Done) /\ Deliveries' = Deliveries
    BY <1>0 DEF Reached, CaughtUp, Done, Deliveries
<1>5. CASE Spawn
    <2>1. /\ handed' = 1 /\ handed = 0 /\ pc' = "activity" /\ UNCHANGED windows /\ pc = "start"
          /\ reg' = [NoReg EXCEPT !.base = log.served, !.before = log.served]
        BY <1>1, <1>5 DEF Spawn, Routes, Goto, KeepResults, resultVars
    <2>2. log.served = 0
        BY <2>1 DEF Following
    <2>3. reg'.base = 0 /\ windows = <<>>
        BY <2>1, <2>2 DEF NoReg, ScriptedGoes
    <2>4. Len(windows) = 0 /\ LastEnd = 0
        BY <2>3 DEF LastEnd
    <2>5. Chained' /\ LastEnd' = LastEnd
        BY <1>0, <2>1 DEF ScriptedGoes, Chained, LastEnd
    <2> HIDE DEF Chained, LastEnd, Done, Deliveries, CaughtUp, Reached
    <2>6. pc' \in Delivering /\ pc' \notin {"write", "start", "exit", "quiet", "activity2", "inFlight2", "settled"} \cup Past
        BY <2>1 DEF Delivering, Polling, Past, Judgement
    <2> QED
        BY <1>0, <1>4, <2>1, <2>2, <2>3, <2>4, <2>5, <2>6 DEF ScriptedGoes
<1>6. CASE Delivered
    <2>1. /\ pc = "settled" /\ handed' = handed /\ windows' = Append(windows, <<reg.base, reg.served>>)
          /\ reg'.base = reg.served
        BY <1>1, <1>3, <1>6 DEF Delivered, Window, Forget, RegType
    <2>2. /\ pc' = "write" \/ (pc' = "exit" /\ handed = Deliveries)
        BY <1>1, <1>6, <2>1 DEF Delivered, Goto
    <2>3. pc \in Delivering
        BY <2>1 DEF Delivering
    <2>4. /\ CaughtUp(handed) /\ reg.served = log.served /\ log.served > reg.base
          /\ Len(windows) = handed - 1 /\ LastEnd = reg.base /\ Chained
        BY <2>1, <2>3 DEF ScriptedGoes
    <2>5. PICK b : b = reg.served
        OBVIOUS
    <2>6. b \in Nat /\ windows' = Append(windows, <<LastEnd, b>>) /\ LastEnd < b /\ b <= log.served
        BY <1>3, <2>1, <2>4, <2>5
    <2>7. Chained' /\ Len(windows') = Len(windows) + 1 /\ LastEnd' = b
        BY <1>0, <1>3, <2>4, <2>6, ChainLonger
    <2>8. Len(windows') = handed /\ LastEnd' = log.served
        BY <1>2, <2>4, <2>5, <2>7
    <2> HIDE DEF Chained, LastEnd, Done, Deliveries, CaughtUp, Reached
    <2>9. pc' \notin {"start", "quiet", "activity2", "inFlight2", "settled"} \cup Delivering \cup Past
        BY <2>2 DEF Delivering, Polling, Past, Judgement
    <2>10. CaughtUp(handed)'
        BY <1>4, <2>1, <2>4, <1>0 DEF CaughtUp
    <2>11. pc' = "exit" => Len(windows') = Deliveries' /\ CaughtUp(Deliveries)'
        BY <1>4, <2>1, <2>2, <2>8, <2>10, <1>0 DEF CaughtUp
    <2> QED
        BY <1>0, <1>4, <2>1, <2>2, <2>4, <2>7, <2>8, <2>9, <2>10, <2>11 DEF ScriptedGoes
<1>7. CASE Write
    <2>1. alive
        <3>1. SUFFICES ASSUME ~alive PROVE FALSE
            OBVIOUS
        <3>2. Done
            BY <1>1, <3>1 DEF Left, AllAnswered
        <3>3. handed < Deliveries
            BY <1>7 DEF Write, Typed
        <3> QED
            BY <1>1, <1>2, <3>2, <3>3 DEF Done
    <2>2. /\ pc = "write" /\ pc' = "activity" /\ handed' = handed + 1 /\ UNCHANGED windows
          /\ reg' = [reg EXCEPT !.before = log.served]
        BY <1>7, <2>1 DEF Write, Goto, KeepResults, resultVars
    <2>3. reg'.base = reg.base
        BY <1>3, <2>2 DEF RegType
    <2>4. Len(windows) = handed /\ LastEnd = reg.base /\ reg.base = log.served /\ CaughtUp(handed)
        BY <2>2 DEF ScriptedGoes
    <2>5. Chained' /\ LastEnd' = LastEnd
        BY <1>0, <2>2 DEF ScriptedGoes, Chained, LastEnd
    <2>6. handed' - 1 = handed /\ handed' > 0
        BY <1>2, <2>2
    <2>7. CaughtUp(handed - 1)'
        BY <1>0, <2>4, <2>6 DEF CaughtUp, Reached
    <2> HIDE DEF Chained, LastEnd, Done, Deliveries, CaughtUp, Reached
    <2>8. pc' \in Delivering /\ pc' \notin {"write", "start", "exit", "quiet", "activity2", "inFlight2", "settled"} \cup Past
        BY <2>2 DEF Delivering, Polling, Past, Judgement
    <2> QED
        BY <1>0, <1>4, <2>2, <2>3, <2>4, <2>5, <2>6, <2>7, <2>8 DEF ScriptedGoes
<1>8. CASE Exit
    <2>1. pc = "exit" /\ pc' = "driven" /\ UNCHANGED <<handed, windows, reg>>
        BY <1>8 DEF Exit, Goto, handVars
    <2>2. Len(windows) = Deliveries /\ LastEnd = log.served /\ CaughtUp(Deliveries)
        BY <2>1 DEF ScriptedGoes
    <2>3. Chained' /\ LastEnd' = LastEnd
        BY <1>0, <2>1 DEF ScriptedGoes, Chained, LastEnd
    <2>4. CaughtUp(Deliveries)'
        BY <1>0, <1>4, <2>2 DEF CaughtUp, Reached
    <2> HIDE DEF Chained, LastEnd, Done, Deliveries, CaughtUp, Reached
    <2>5. pc' \notin {"write", "start", "quiet", "activity2", "inFlight2", "settled"} \cup Delivering
        BY <2>1 DEF Delivering, Polling
    <2> QED
        BY <1>0, <1>4, <2>1, <2>2, <2>3, <2>4, <2>5 DEF ScriptedGoes
<1>9. ~Post /\ ~Posted
    BY <1>1 DEF Post, Posted, Routes
<1> QED
    BY <1>5, <1>6, <1>7, <1>8, <1>9 DEF Driving

\* Judging leaves what was served as it is.
LEMMA JudgingStays ==
  ASSUME Judging, ~Replay
  PROVE  UNCHANGED windows /\ pc \in Past /\ pc' \in Past
BY DEF Judging, Driven, Calm, CalmActivity, CalmInFlight, CalmOr, Quiet, Collect, Drop, Join, JudgeRecord, JudgeReplay,
       KeepResults, resultVars, runnerVars, Goto, Past, Judgement

\* Judging a scripted conversation.
LEMMA ScriptedJudging ==
  ASSUME Typed, ScriptedGoes, Judging, ~Replay
  PROVE  ScriptedGoes'
<1>0. UNCHANGED <<agent, next, waiting, queue, step, log, driver, windows>> /\ pc \in Past /\ pc' \in Past
    BY RunnerReads, JudgingStays DEF setVars
<1>1. (Reached' <=> Reached) /\ (Done' <=> Done) /\ Deliveries' = Deliveries
    BY <1>0 DEF Reached, Done, Deliveries
<1>2. Len(windows) = Deliveries /\ LastEnd = log.served /\ CaughtUp(Deliveries)
    BY <1>0 DEF ScriptedGoes
<1>3. Chained' /\ LastEnd' = LastEnd /\ CaughtUp(Deliveries)'
    BY <1>0, <1>1, <1>2 DEF ScriptedGoes, Chained, LastEnd, CaughtUp, Reached
<1> HIDE DEF Chained, LastEnd, Done, Deliveries, CaughtUp, Reached
<1>4. pc' \notin {"write", "start", "quiet", "activity2", "inFlight2", "settled"} \cup Delivering
    BY <1>0 DEF Delivering, Polling, Past, Judgement
<1> QED
    BY <1>0, <1>1, <1>2, <1>3, <1>4 DEF ScriptedGoes

\* A scripted conversation is replayed delivery by delivery.
LEMMA OnePerOneStep ==
  ASSUME Typed, Typed', OnePlace, Counted, Routes, Following, Unedited, Recorded, Consumes, AtHand, Heard, Timely, Left,
         Ended, OnePerOne, [Next]_vars
  PROVE  OnePerOne'
<1>1. SUFFICES ASSUME Alone' PROVE ScriptedGoes'
    BY DEF OnePerOne
<1>2. CASE Replay
    <2>1. /\ log' = NoLog /\ queue' = <<>> /\ next' = <<1, 1>> /\ waiting' = FALSE /\ windows' = <<>> /\ pc' = "start"
        BY <1>2 DEF Replay, Rebind
    <2>2. ~Reached' /\ Chained'
        BY <2>1 DEF Reached, Chained
    <2>3. pc' \notin {"write", "exit", "quiet", "activity2", "inFlight2", "settled"} \cup Delivering \cup Past
        BY <2>1 DEF Delivering, Polling, Past, Judgement
    <2>4. ~(next'[2] > 1)
        BY <2>1
    <2> QED
        BY <2>1, <2>2, <2>3, <2>4 DEF ScriptedGoes
<1>3. CASE ~Replay
    <2>1. Paired /\ UNCHANGED <<driver, agent>> /\ ~Expire /\ ~Fail /\ ~Unreachable
        BY <1>1, <1>3, PairedBefore DEF Alone
    <2>2. Alone /\ ScriptedGoes
        BY <1>1, <2>1 DEF Alone, OnePerOne
    <2>3. CASE UNCHANGED vars
        <3>1. UNCHANGED <<agent, next, log, windows, pc, reg, handed, waiting, queue, step>>
            BY <2>3 DEF vars, proxyVars, setVars, agentVars, runnerVars, handVars, resultVars
        <3> QED
            BY <2>2, <3>1, ScriptedKept DEF Reached
    <2>4. CASE Agent
        BY <2>2, <2>4, ScriptedOfAgent
    <2>5. CASE ProxyThread(TRUE)
        BY <2>2, <2>5, ScriptedOfThread
    <2>6. CASE Settling
        BY <2>2, <2>6, ScriptedSettling
    <2>7. CASE Driving /\ ~Settling
        BY <2>1, <2>2, <2>7, ScriptedDriving
    <2>8. CASE Judging
        BY <1>3, <2>2, <2>8, ScriptedJudging
    <2> QED
        BY <2>1, <2>3, <2>4, <2>5, <2>6, <2>7, <2>8 DEF Next, Over
<1> QED
    BY <1>2, <1>3
-----------------------------------------------------------------------------
\* A service that is done with what it was handed has every answer.
LEMMA IdleStill ==
  ASSUME Typed, OnePlace, Following, AtHand, Waiter, Idle
  PROVE  Still /\ ~waiting
<1>1. ~waiting /\ queue \in Seq(Requests)
    BY DEF Idle, Typed, TypeOK, TypeProxy, Requests
<1>2. Waiting \cup InHand \subseteq {Side}
    BY <1>1 DEF AtHand
<1>3. Side \notin Waiting \cup InHand
    <2>1. SUFFICES ASSUME Side \in Waiting \cup InHand PROVE FALSE
        OBVIOUS
    <2>2. sided
        BY <2>1 DEF OnePlace, Made
    <2>3. Answered(Side)
        <3>1. agent.side # "none" /\ agent.at <= handed
            BY <2>2 DEF Following
        <3>2. handed \in Nat /\ agent.at \in Nat
            <4>1. agent \in Agents /\ handed \in Nat /\ Deliveries \in Nat
                BY NextTyped
            <4> QED
                BY <4>1 DEF Agents
        <3>3. handed >= agent.at
            BY <3>1, <3>2
        <3> QED
            BY <3>1, <3>3 DEF Idle, Waiter
    <2> QED
        BY <2>1, <2>3 DEF Answered, Answers, OnePlace
<1>4. Waiting = {} /\ InHand = {}
    BY <1>2, <1>3
<1>5. queue = <<>>
    <2>1. 1 \notin DOMAIN queue
        BY <1>4 DEF Waiting
    <2> QED
        BY <1>1, <2>1
<1> QED
    BY <1>1, <1>4, <1>5 DEF Still, InHand

\* A call that has a turn was made.
LEMMA GoneMade ==
  ASSUME OnePlace, NEW w \in Gone
  PROVE  Made(w)
<1>1. w \in InHand \cup Answers
    BY DEF Gone, Good, InHand, Answers
<1> QED
    BY <1>1 DEF OnePlace

\* The agent and the proxy while the service works on a delivery.
LEMMA ServiceOfOthers ==
  ASSUME Typed, Typed', OnePlace, Counted, Following, Unedited, Recorded, Consumes, AtHand, Heard, Timely, Ended,
         Paired, driver = "http", ServiceGoes, Agent \/ ProxyThread(TRUE)
  PROVE  ServiceGoes'
<1>0. UNCHANGED <<agent, windows, pc, reg, handed, driver>>
    BY ThreadKeeps DEF Agent, CallModel, CallOnTheSide, TakeAnswer, AgentExits, Connect, proxyVars, setVars, runnerVars,
                       handVars, resultVars
<1>1. Repeating /\ mode = "replay" /\ Lenient /\ Waiter /\ ~mishap /\ verdict # "error" /\ ~Process
    BY DEF Paired, Repeating, Lenient, Process
<1>2. Deliveries' = Deliveries /\ (LastEnd' = LastEnd)
    BY <1>0 DEF Deliveries, LastEnd
<1>3. log \in LogType /\ log.served \in Nat /\ reg.before \in Nat
    BY DEF Typed, TypeOK, TypeProxy, TypeRunner, LogType
<1>4. CASE pc = "post"
    <2>1. /\ Chained /\ Len(windows) = handed - 1 /\ LastEnd = reg.before /\ reg.before <= log.served
          /\ reg.before < log.served \/ <<handed, 1>> \notin Gone
        BY <1>4 DEF ServiceGoes, Past, Judgement
    <2>2. /\ log'.served \in Nat /\ log.served <= log'.served
          /\ log'.served > log.served \/ (log'.served = log.served /\ Gone' = Gone)
        <3>1. CASE Agent
            <4>1. UNCHANGED <<log, answers, step, serving>>
                BY <3>1 DEF Agent, CallModel, CallOnTheSide, TakeAnswer, AgentExits, Connect, proxyVars
            <4> QED
                BY <1>3, <4>1 DEF Gone, Good
        <3>2. CASE ServeReplay
            <4>1. PICK i : log' = [log EXCEPT !.served = @ + 1, !.lastTool = cassette[i].tool]
                BY <1>1, <3>2, ServedAgain
            <4>2. log'.served = log.served + 1
                BY <1>3, <4>1 DEF LogType
            <4> QED
                BY <1>3, <4>2
        <3>3. CASE ProxyThread(TRUE) /\ ~ServeReplay
            <4>1. step \notin {"forwarding", "captured"}
                BY <1>1 DEF Counted
            <4>2. UNCHANGED log /\ ~Capture
                BY <3>3, <4>1 DEF ProxyThread, Accept, Start, Refuse, Forward, Capture, Count, UpstreamFails,
                                  Respond, Unmark, Finish
            <4>3. Gone' = Gone
                BY <3>3, <4>2, GoneKept
            <4> QED
                BY <1>3, <4>2, <4>3
        <3> QED
            BY <3>1, <3>2, <3>3
    <2>3. Chained'
        BY <1>0, <2>1, <2>2, ChainStays
    <2>4. reg.before <= log'.served /\ (reg.before < log'.served \/ <<handed, 1>> \notin Gone')
        BY <1>3, <2>1, <2>2
    <2> HIDE DEF Gone, Chained, LastEnd
    <2> QED
        BY <1>0, <1>2, <1>4, <2>1, <2>3, <2>4 DEF ServiceGoes, Past, Judgement
<1>5. CASE pc # "post"
    <2>1. /\ Chained /\ pc \in {"start"} \cup Past
          /\ pc = "start" => Len(windows) = handed /\ LastEnd = log.served /\ next[1] > handed /\ Still /\ ~waiting
          /\ pc \in Past => Len(windows) = Deliveries /\ LastEnd = log.served
        BY <1>5 DEF ServiceGoes
    <2>2. CASE pc = "start"
        <3>1. ~Agent
            <4>1. next[1] \in Nat /\ handed \in Nat /\ agent \in Agents /\ Deliveries \in Nat
                BY NextTyped
            <4>2. agent.at \in Nat
                BY <4>1 DEF Agents
            <4> QED
                BY <1>1, <2>1, <2>2, <4>1, <4>2 DEF Agent, CallModel, CallOnTheSide, TakeAnswer, AgentExits
        <3>2. UNCHANGED log /\ Still' /\ UNCHANGED <<next, waiting>>
            BY <2>1, <2>2, <3>1, StillStays, ThreadKeeps DEF agentVars
        <3>3. Chained'
            BY <1>0, <2>1, <3>2 DEF Chained
        <3> HIDE DEF Chained, LastEnd, Still
        <3> QED
            BY <1>0, <1>2, <2>1, <2>2, <3>2, <3>3 DEF ServiceGoes, Past, Judgement
    <2>3. CASE pc \in Past
        <3>1. AllAnswered
            BY <1>1, <2>3 DEF Ended, Orderly
        <3>2. UNCHANGED log
            BY <3>1, AnsweredStays
        <3>3. Chained'
            BY <1>0, <2>1, <3>2 DEF Chained
        <3> HIDE DEF Chained, LastEnd
        <3> QED
            BY <1>0, <1>2, <2>1, <2>3, <3>2, <3>3 DEF ServiceGoes, Past, Judgement
    <2> QED
        BY <2>1, <2>2, <2>3
<1> QED
    BY <1>4, <1>5

\* The runner hands a service its deliveries.
LEMMA ServiceOfRunner ==
  ASSUME Typed, OnePlace, Following, Recorded, AtHand, Heard, Timely, Routes, Paired, driver = "http", ServiceGoes,
         Driving, ~Unreachable
  PROVE  ServiceGoes'
<1>0. UNCHANGED <<agent, next, waiting, queue, step, serving, answers, log, driver>>
    BY RunnerReads DEF setVars
<1>1. ~Process /\ Waiter /\ ~expired /\ ~log.divergence /\ ~log.upstreamError /\ ~Refusal /\ next[1] <= handed + 1
    BY AlonePlain DEF Paired, Repeating, Process
<1>2. /\ next = <<next[1], next[2]>> /\ next[1] \in Nat \ {0} /\ next[2] \in Nat \ {0} /\ handed \in Nat
      /\ handed <= Deliveries /\ Deliveries \in Nat /\ agent \in Agents
    BY NextTyped
<1>3. log.served \in Nat /\ reg \in RegType /\ reg.before \in Nat /\ windows \in Seq(Nat \X Nat)
    BY DEF Typed, TypeOK, TypeProxy, TypeRunner, RegType
<1>4. Deliveries' = Deliveries
    BY <1>0 DEF Deliveries
<1>5. CASE Post
    <2>1. /\ pc = "start" /\ pc' = "post" /\ handed' = handed + 1 /\ UNCHANGED windows
          /\ reg' = [reg EXCEPT !.before = log.served]
        BY <1>5 DEF Post, Goto, KeepResults, resultVars
    <2>2. reg'.before = log.served
        BY <1>3, <2>1 DEF RegType
    <2>3. Chained /\ Len(windows) = handed /\ LastEnd = log.served /\ next[1] > handed /\ ~waiting
        BY <2>1 DEF ServiceGoes, Past, Judgement
    <2>4. <<handed + 1, 1>> \notin Gone
        <3>1. SUFFICES ASSUME <<handed + 1, 1>> \in Gone PROVE FALSE
            OBVIOUS
        <3>2. Made(<<handed + 1, 1>>)
            BY <3>1, GoneMade
        <3>3. next[1] = handed + 1 /\ next[2] = 1
            BY <1>1, <1>2, <2>3 DEF Following
        <3>4. <<handed + 1, 1>> # Side
            BY <1>2 DEF Side
        <3> QED
            BY <1>2, <2>3, <3>2, <3>3, <3>4 DEF Made, Before
    <2>5. Chained' /\ LastEnd' = LastEnd /\ Gone' = Gone
        BY <1>0, <2>1, <2>3 DEF Chained, LastEnd, Gone, Good
    <2>6. <<handed', 1>> \notin Gone' /\ Len(windows') = handed' - 1
        BY <1>2, <2>1, <2>3, <2>4, <2>5
    <2> HIDE DEF Gone, Chained, LastEnd
    <2> QED
        BY <1>0, <1>3, <2>1, <2>2, <2>3, <2>5, <2>6 DEF ServiceGoes, Past, Judgement
<1>6. CASE Posted
    <2>1. /\ pc = "post" /\ Idle /\ windows' = Append(windows, <<reg.before, log.served>>) /\ UNCHANGED handed
          /\ pc' = IF handed = Deliveries THEN "driven" ELSE "start"
        BY <1>1, <1>6 DEF Posted, Goto, handVars
    <2>2. /\ Chained /\ Len(windows) = handed - 1 /\ LastEnd = reg.before /\ reg.before <= log.served
          /\ reg.before < log.served \/ <<handed, 1>> \notin Gone
        BY <2>1 DEF ServiceGoes, Past, Judgement
    <2>3. Still /\ ~waiting
        BY <1>1, <2>1, IdleStill
    <2>4. next[1] > handed /\ handed > 0
        BY <2>1 DEF Idle, Routes
    <2>5. PICK w : w = <<handed, 1>>
        OBVIOUS
    <2>6. w \in Mains /\ w[1] = handed
        <3>1. handed \in 1..Deliveries
            BY <1>2, <2>4
        <3>2. 1 \in 1..agent.turns[handed]
            BY <1>2, <3>1, PlansTyped
        <3> QED
            BY <1>2, <2>5, <3>1, <3>2, MainsTyped
    <2>7. Before(w, next)
        BY <2>4, <2>6 DEF Before
    <2>8. PICK a \in answers : a.who = w
        BY <1>1, <2>6, <2>7 DEF Following, Answered
    <2>9. a.ok
        <3>1. CallOf(w).kind = "model"
            BY <1>2, <2>6, AsksAre DEF Asks
        <3>2. Lenient
            BY DEF Lenient, Paired
        <3> QED
            BY <1>1, <2>8, <3>1, <3>2 DEF Heard
    <2>10. w \in Gone
        BY <2>8, <2>9 DEF Gone, Good
    <2>11. reg.before < log.served
        BY <2>2, <2>5, <2>10
    <2>12. PICK b : b = log.served
        OBVIOUS
    <2>13. b \in Nat /\ windows' = Append(windows, <<LastEnd, b>>) /\ LastEnd < b /\ b <= log.served
        BY <1>3, <2>1, <2>2, <2>11, <2>12
    <2>14. Chained' /\ Len(windows') = Len(windows) + 1 /\ LastEnd' = b
        BY <1>0, <1>3, <2>2, <2>13, ChainLonger
    <2>15. Len(windows') = handed /\ LastEnd' = log'.served
        BY <1>0, <1>2, <2>2, <2>12, <2>14
    <2>16. Still'
        BY <1>0, <2>3 DEF Still
    <2> HIDE DEF Gone, Chained, LastEnd, Still
    <2>17. pc' \in {"start", "driven"} /\ (pc' = "driven" => handed = Deliveries)
        BY <2>1
    <2>18. pc' # "post" /\ (pc' \in Past => pc' = "driven") /\ pc' \in {"start"} \cup Past
        BY <2>17 DEF Past, Judgement
    <2> QED
        BY <1>0, <1>4, <2>1, <2>3, <2>4, <2>14, <2>15, <2>16, <2>17, <2>18 DEF ServiceGoes
<1>7. ~Spawn /\ ~Exit /\ ~Write /\ ~Delivered /\ ~Settling
    <2>1. pc \in {"start", "post"} \cup Past
        BY DEF ServiceGoes
    <2> QED
        BY <1>1, <2>1 DEF Spawn, Exit, Write, Delivered, Settling, ReadActivity, ReadInFlight, ReadLog, ReadServed,
                          ReadActivityAgain, ReadInFlightAgain, Past, Judgement
<1> QED
    BY <1>5, <1>6, <1>7 DEF Driving

\* A service is handed its deliveries one after another.
LEMMA PostingStep ==
  ASSUME Typed, Typed', OnePlace, Counted, Routes, Following, Unedited, Recorded, Consumes, AtHand, Heard, Timely,
         Ended, Posting, [Next]_vars
  PROVE  Posting'
<1>1. SUFFICES ASSUME Paired', driver' = "http" PROVE ServiceGoes'
    BY DEF Posting
<1>2. CASE Replay
    <2>1. /\ log' = NoLog /\ queue' = <<>> /\ step' = "idle" /\ next' = <<1, 1>> /\ waiting' = FALSE /\ windows' = <<>>
          /\ pc' = "start" /\ handed' = 0
        BY <1>2 DEF Replay, Rebind
    <2>2. Still' /\ Chained' /\ LastEnd' = 0 /\ log'.served = 0 /\ next'[1] = 1 /\ Len(windows') = 0
        BY <2>1 DEF Still, Chained, LastEnd, NoLog
    <2>3. pc' \notin {"post"} \cup Past
        BY <2>1 DEF Past, Judgement
    <2> HIDE DEF Still, Chained, LastEnd
    <2> QED
        BY <2>1, <2>2, <2>3 DEF ServiceGoes
<1>3. CASE ~Replay
    <2>1. Paired /\ driver = "http" /\ UNCHANGED <<driver, agent>> /\ ~Expire /\ ~Unreachable
        BY <1>1, <1>3, PairedBefore
    <2>2. ServiceGoes
        BY <2>1 DEF Posting
    <2>3. CASE UNCHANGED vars
        <3>1. UNCHANGED <<agent, next, log, windows, pc, reg, handed, waiting, queue, step, serving, answers>>
            BY <2>3 DEF vars, proxyVars, setVars, agentVars, runnerVars, handVars, resultVars
        <3>2. Gone' = Gone /\ Chained' = Chained /\ LastEnd' = LastEnd /\ Still' = Still /\ Deliveries' = Deliveries
            BY <3>1 DEF Gone, Good, Chained, LastEnd, Still, Deliveries
        <3> HIDE DEF Gone, Chained, LastEnd, Still
        <3> QED
            BY <2>2, <3>1, <3>2 DEF ServiceGoes
    <2>4. CASE Agent \/ ProxyThread(TRUE)
        BY <2>1, <2>2, <2>4, ServiceOfOthers
    <2>5. CASE Driving
        BY <2>1, <2>2, <2>5, ServiceOfRunner
    <2>6. CASE Judging
        <3>1. UNCHANGED <<agent, log, windows>> /\ pc \in Past /\ pc' \in Past
            BY <1>3, <2>6, RunnerReads, JudgingStays DEF setVars
        <3>2. Chained' = Chained /\ LastEnd' = LastEnd /\ Deliveries' = Deliveries
            BY <3>1 DEF Chained, LastEnd, Deliveries
        <3>3. Chained /\ Len(windows) = Deliveries /\ LastEnd = log.served
            BY <2>2, <3>1 DEF ServiceGoes
        <3>4. pc' \notin {"start", "post"}
            BY <3>1 DEF Past, Judgement
        <3> HIDE DEF Chained, LastEnd
        <3> QED
            BY <3>1, <3>2, <3>3, <3>4 DEF ServiceGoes
    <2> QED
        BY <2>1, <2>3, <2>4, <2>5, <2>6 DEF Next, Over
<1> QED
    BY <1>2, <1>3
-----------------------------------------------------------------------------
\* The agents whose replays reproduce: those without a call on the side, and
\* those that wait for it.
Reproducing == agent.side = "none" \/ (agent.waits /\ driver \in {"plain", "http"})

\* The deliveries of a replay that goes well cover what was served.
LEMMA Covered ==
  ASSUME Typed, OnePerOne, Posting, Paired, Reproducing, Conversation, driver # "interactive", pc \in Past
  PROVE  Contiguous(Deliveries, log.served)
<1>1. driver \in {"scripted", "http"}
    BY DEF Conversation, Typed, TypeOK, TypeAgent, Drivers
<1>2. CASE driver = "scripted"
    <2>1. ScriptedGoes
        BY <1>2 DEF OnePerOne, Alone, Reproducing
    <2>2. Chained /\ Len(windows) = Deliveries /\ LastEnd = log.served
        BY <2>1 DEF ScriptedGoes
    <2> QED
        BY <2>2, ChainCovers
<1>3. CASE driver = "http"
    <2>1. ServiceGoes
        BY <1>3 DEF Posting
    <2>2. Chained /\ Len(windows) = Deliveries /\ LastEnd = log.served
        BY <2>1 DEF ServiceGoes
    <2> QED
        BY <2>2, ChainCovers
<1> QED
    BY <1>1, <1>2, <1>3

\* When every call has its turn, every turn was consumed.
LEMMA AllConsumed ==
  ASSUME Typed, Counted, Consumes, Repeating, Gone = Asks
  PROVE  Len(trace) = log.served
<1>1. PICK o \in Owners(cassette, TurnsOf(Asks)) : \A i \in DOMAIN cassette : (i \in consumed <=> o[i] \in Gone)
    BY DEF Consumes
<1>2. \A i \in DOMAIN cassette : o[i] \in Asks
    BY <1>1 DEF Owners, TurnsOf
<1>3. consumed = DOMAIN cassette
    BY <1>1, <1>2 DEF Typed, TypeOK, TypeProxy
<1>4. DOMAIN cassette = 1..Len(trace) /\ Len(trace) \in Nat /\ Cardinality(consumed) = log.served
    BY DEF Counted, Repeating, Typed, TypeOK, TypeRunner
<1>5. Cardinality(1..Len(trace)) = Len(trace)
    <2>1. PICK n \in Nat : n = Len(trace)
        BY <1>4
    <2>2. Cardinality(1..n) = n - 1 + 1
        BY FS_Interval
    <2> QED
        BY <2>1, <2>2
<1> QED
    BY <1>3, <1>4, <1>5

\* A replay is given up or judged against its agent only for a mishap.
LEMMA FaithfulStep ==
  ASSUME Typed, Counted, Following, Consumes, Recorded, Heard, Ended, OnePerOne, Posting, Faithful, [Next]_vars
  PROVE  Faithful'
<1>1. CASE Replay
    <2>1. driver' = (IF driver = "interactive" THEN "scripted" ELSE driver) /\ verdict' = "none"
        BY <1>1 DEF Replay
    <2>2. driver' # "interactive"
        BY <2>1
    <2> QED
        BY <2>1, <2>2 DEF Faithful, FaithfulReplays
<1>2. CASE ~Replay
    <2>1. UNCHANGED <<mode, driver, agent, recorded>> /\ (~mishap' => ~mishap /\ ~Expire /\ ~Fail /\ ~Unreachable)
        BY <1>2, NoMishapBefore
    <2>2. SUFFICES ASSUME mode = "replay", agent = recorded, ~mishap', Reproducing, verdict' = "error"
                   PROVE  FALSE
        BY <2>1 DEF Faithful, FaithfulReplays, Reproducing
    <2>3. driver # "interactive" /\ ~mishap /\ verdict # "error"
        BY <2>1, <2>2 DEF Faithful, FaithfulReplays, Reproducing
    <2>4. Waiter
        BY <2>2 DEF Reproducing, Waiter
    <2>5. Repeating /\ Paired /\ Orderly /\ Lenient
        BY <2>2, <2>3, <2>4 DEF Repeating, Paired, Orderly, Lenient
    <2>6. ASSUME pc \in Past
          PROVE  /\ ~run.timedOut /\ ~run.divergence /\ run.served = log.served /\ AllAnswered
                 /\ Conversation => Contiguous(Deliveries, log.served)
        <3>1. AllAnswered /\ run = [served |-> log.served, divergence |-> log.divergence,
                                   upstreamError |-> log.upstreamError, timedOut |-> FALSE]
            BY <2>3, <2>5, <2>6 DEF Ended
        <3>2. ~log.divergence
            BY <2>5 DEF Heard
        <3> QED
            BY <2>2, <2>3, <2>5, <2>6, <3>1, <3>2, Covered
    <2>7. CASE Driven
        <3>1. pc \in Past /\ DriveFails
            BY <2>3, <2>2, <2>7 DEF Driven, Past, KeepResults, resultVars
        <3> QED
            BY <2>6, <3>1 DEF DriveFails
    <2>8. CASE JudgeReplay
        <3>1. pc \in Past /\ ~Reproduced
            BY <2>2, <2>8 DEF JudgeReplay, Past, Judgement
        <3>2. ~log.upstreamError
            BY <2>2, <2>5 DEF Heard
        <3>3. Gone = Asks
            BY <2>5, <2>6, <3>1, <3>2, AllGone
        <3>4. Len(trace) = log.served
            BY <2>5, <3>3, AllConsumed
        <3> QED
            BY <2>6, <3>1, <3>4 DEF Reproduced
    <2>9. CASE Judging /\ ~Driven /\ ~JudgeReplay
        BY <1>2, <2>2, <2>3, <2>9 DEF Judging, Calm, CalmActivity, CalmInFlight, Collect, Drop, Join, JudgeRecord,
                                      KeepResults, resultVars, runnerVars
    <2>10. CASE Driving
        BY <2>1, <2>2, <2>3, <2>10 DEF Driving, Settling, Spawn, Delivered, Write, Exit, Post, Posted, ReadActivity,
                    ReadInFlight, ReadLog, ReadServed, ReadActivityAgain, ReadInFlightAgain, StillQuiet, KeepResults,
                    resultVars
    <2>11. CASE Agent \/ ProxyThread(TRUE) \/ UNCHANGED vars
        BY <2>2, <2>3, <2>11, ThreadKeeps DEF Agent, CallModel, CallOnTheSide, TakeAnswer, AgentExits, runnerVars,
                                              resultVars, vars
    <2> QED
        BY <2>1, <2>2, <2>7, <2>8, <2>9, <2>10, <2>11 DEF Next, Over
<1> QED
    BY <1>1, <1>2

\* What a faithful replay rests on.
Reproduction ==
  /\ OnePlace /\ Counted /\ Routes /\ Following /\ Unedited /\ Recorded /\ Traced /\ Consumes /\ AtHand /\ Heard
  /\ Timely /\ Left /\ Ended /\ OnePerOne /\ Posting /\ Faithful

\* The program starts with nothing asked and nothing served.
LEMMA ReproductionInit == Init => Reproduction
<1> SUFFICES ASSUME Init PROVE Reproduction
    OBVIOUS
<1> USE DEF Init, ProxyInit, AgentStarts, RunnerStarts
<1>1. /\ mode = "record" /\ queue = <<>> /\ step = "idle" /\ log = NoLog /\ captured = <<>> /\ answers = {}
      /\ alive = TRUE /\ mishap = FALSE /\ next = <<1, 1>> /\ waiting = FALSE /\ sided = FALSE /\ handed = 0
      /\ pc = "start" /\ expired = FALSE /\ run = NoRun /\ verdict = "none" /\ recorded = NoAgent
      /\ ~agent.edited /\ agent \in Agents
    OBVIOUS
<1> USE DEF NoLog, NoRun, NoAgent
<1>2. OnePlace
    BY DEF OnePlace, Waiting, InHand, Answers
<1>3. Good = {} /\ Waiting = {} /\ InHand = {} /\ Answers = {} /\ Gone = {}
    BY <1>1 DEF Good, Waiting, InHand, Answers, Gone
<1>4. Counted
    BY <1>1, <1>3, FS_EmptySet DEF Counted
<1>5. Following
    <2>1. \A w \in Mains : ~Before(w, next)
        <3> SUFFICES ASSUME NEW w \in Mains PROVE ~Before(w, next)
            OBVIOUS
        <3>1. w[1] \in 1..Deliveries /\ w[2] \in 1..agent.turns[w[1]] /\ Deliveries \in Nat
              /\ \A d \in 1..Deliveries : agent.turns[d] \in Nat
            BY <1>1, MainsTyped, PlansTyped
        <3>2. w[1] >= 1 /\ w[2] >= 1 /\ w[1] \in Nat /\ w[2] \in Nat
            BY <3>1
        <3> QED
            BY <1>1, <3>2 DEF Before
    <2> QED
        BY <1>1, <1>3, <2>1 DEF Following
<1>6. Recorded
    <2> DEFINE o == [i \in {} |-> i]
               t == TurnsOf(Gone)
    <2>1. DOMAIN t = {} /\ DOMAIN captured = {}
        BY <1>1, <1>3 DEF TurnsOf
    <2>2. o \in [{} -> {}]
        OBVIOUS
    <2> HIDE DEF o, t
    <2>3. o \in Owners(captured, t)
        BY <2>1, <2>2 DEF Owners
    <2>4. Gone \subseteq Asks
        BY <1>3
    <2> QED
        BY <1>1, <2>3, <2>4 DEF Recorded, t
<1>7. Routes /\ Unedited /\ Traced /\ AtHand /\ Heard /\ Timely /\ Left
    BY <1>1, <1>3 DEF Routes, Delivering, Polling, Unedited, Traced, AtHand, Heard, Timely, Left
<1>8. Ended
    BY <1>1 DEF Ended, Past, Judgement
<1>9. Consumes /\ OnePerOne /\ Posting /\ Faithful
    BY <1>1 DEF Consumes, Repeating, OnePerOne, Alone, Paired, Posting, Faithful, FaithfulReplays
<1> QED
    BY <1>2, <1>4, <1>5, <1>6, <1>7, <1>8, <1>9 DEF Reproduction

\* Every step keeps what a faithful replay rests on.
LEMMA ReproductionStep ==
  ASSUME Typed, Typed', Reproduction, [Next]_vars
  PROVE  Reproduction'
<1> USE DEF Reproduction
<1>1. OnePlace' /\ Counted' /\ Routes'
    BY OnePlaceStep, CountedStep, RoutesStep
<1>2. Following' /\ Unedited' /\ Recorded'
    BY FollowingStep, UneditedStep, RecordedStep
<1>3. Traced' /\ Consumes' /\ AtHand'
    BY TracedStep, ConsumesStep, AtHandStep
<1>4. Heard' /\ Timely' /\ Left' /\ Ended'
    BY HeardStep, TimelyStep, LeftStep, EndedStep
<1>5. OnePerOne' /\ Posting' /\ Faithful'
    BY OnePerOneStep, PostingStep, FaithfulStep
<1> QED
    BY <1>1, <1>2, <1>3, <1>4, <1>5

\* FaithfulReplays: the replay of a recorded agent that makes the same calls and
\* waits for their answers is never an error, whatever the plans, in whichever
\* order its calls reach the proxy and the runner polls.  Every call finds a turn
\* of its own (agent_proxy.rs), every delivery settles behind its last answer
\* (wait_for_settle), the windows cover the cassette, and all of it is served
\* when the agent has ended (agent_flow.rs).
THEOREM SameAgentReproduces == Spec => []FaithfulReplays
<1>1. Reproduction => FaithfulReplays
    BY DEF Reproduction, Faithful
<1>2. Typed /\ Reproduction /\ [Next]_vars => Typed' /\ Reproduction'
    BY TypedStep, ReproductionStep
<1> QED
    BY <1>1, <1>2, TypedInit, ReproductionInit, PTL DEF Spec
=============================================================================
