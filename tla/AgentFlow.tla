------------------------------ MODULE AgentFlow ------------------------------
(***************************************************************************)
(* An `app: agent` flow recorded and then replayed: flowproof's runner     *)
(* (flowproof-adapters/src/agent_runner.rs, flowproof-cli/src/             *)
(* agent_flow.rs), the agent it drives and the proxy between them.         *)
(*                                                                         *)
(* The agent is a black box that gets the flow's prompts, one delivery at  *)
(* a time, and makes model calls.  For each delivery it makes calls one    *)
(* after another as long as the model answers with a tool call; it may     *)
(* make one more call on the side and not wait for the answer.             *)
(***************************************************************************)
EXTENDS ModelProxy, FiniteSets

CONSTANT
  Flows  \* the flows considered: how each is driven, how many model calls its
         \* agent makes for each delivery, and the calls it may make on the
         \* side while it is recorded

Drivers == {"plain",        \* a process with one prompt
            "scripted",     \* a process with a conversation
            "interactive",  \* a process with a conversation typed at the terminal
            "http"}         \* a service with a conversation

AllSides == {"title",    \* a call about something else, like naming the session
             "retry",    \* the first call of the delivery once more
             "probe",    \* a request the proxy does not serve
             "silent"}   \* a connection on which nothing is sent

ASSUME AgentFlowAssumption ==
  /\ Flows # {}
  /\ \A f \in Flows : /\ f.sides \subseteq AllSides /\ f.driver \in Drivers /\ f.turns \in Seq(Nat \ {0}) \ {<<>>}
                      /\ f.driver = "plain" => Len(f.turns) = 1

VARIABLES
  driver,   \* how the flow is driven
  agent,    \* what the agent does with its prompts
  recorded, \* history: the agent the trace was recorded from, if all went well
  alive,    \* the agent, or the service, is there
  mishap,   \* history: it left before it was done, or a deadline passed
  next,     \* the main call it makes next
  waiting,  \* it waits for the answer to that call
  sided,    \* it made its call on the side
  handed,   \* the deliveries it was handed
  eof,      \* its stdin is closed
  pc,       \* where the runner is
  expired,  \* the deadline of what the runner waits for has passed
  reg,      \* what the runner has read from the proxy
  windows,  \* the turns of each delivery, as counts before and after it
  run,      \* the snapshot of the log the run is judged on
  collected,\* the cassette read from the proxy
  owed,     \* history: the calls taken when the runner last looked for quiet
  trace,    \* the minted trace
  verdict   \* the verdict of the phase

agentVars == <<alive, mishap, next, waiting, sided>>
handVars == <<handed, eof>>
resultVars == <<windows, run, collected, owed, trace, verdict>>
runnerVars == <<handVars, pc, expired, reg, resultVars>>
setVars == <<driver, agent, recorded>>
vars == <<proxyVars, setVars, agentVars, runnerVars>>
-----------------------------------------------------------------------------
Deliveries == Len(agent.turns)

\* A conversation is delivered in parts; a plain prompt is not.
Conversation == driver # "plain"
Process == driver # "http"

Plans == {f.turns : f \in Flows}

\* The main calls are named by their delivery and their place in it.
MainCalls == UNION {UNION {{<<d, k>> : k \in 1..p[d]} : d \in DOMAIN p} : p \in Plans}
Side == <<0, 0>>
Who == MainCalls \cup {Side}
Bodies == Who \cup {<<0, 1>>, <<0, 2>>}

\* The most deliveries of a plan.
Longest == CHOOSE n \in {Len(p) : p \in Plans} : \A p \in Plans : Len(p) <= n

Agents ==
  {a \in [turns: Plans, at: 0..Longest, side: AllSides \cup {"none"}, waits: BOOLEAN, edited: BOOLEAN] :
      /\ a.at = 0 <=> a.side = "none"
      /\ a.at <= Len(a.turns)
      /\ a.waits => a.side # "none"}

NoAgent == [turns |-> <<>>, at |-> 0, side |-> "none", waits |-> FALSE, edited |-> FALSE]

\* The main call at a position; an edited agent ends with another request than
\* the one recorded.
MainCall(p) ==
  [who |-> p, kind |-> "model",
   body |-> IF agent.edited /\ p = <<Deliveries, agent.turns[Deliveries]>> THEN <<0, 2>> ELSE p,
   tool |-> p[2] < agent.turns[p[1]]]

SideCall ==
  [who |-> Side, kind |-> IF agent.side \in {"title", "retry"} THEN "model" ELSE agent.side,
   body |-> CASE agent.side = "title" -> <<0, 1>>
              [] agent.side = "retry" -> <<agent.at, 1>>
              [] OTHER -> <<0, 0>>,
   tool |-> agent.side = "retry" /\ agent.turns[agent.at] > 1]

Answered(w) == \E a \in answers : a.who = w
Refused(w) == [who |-> w, ok |-> FALSE] \in answers

NoReg == [activity |-> 0, inFlight |-> 0, served |-> 0, base |-> 0, before |-> 0, settled |-> FALSE]
NoRun == [served |-> 0, divergence |-> FALSE, upstreamError |-> FALSE, timedOut |-> FALSE]

AgentStarts == /\ alive = TRUE /\ mishap = FALSE /\ next = <<1, 1>> /\ waiting = FALSE /\ sided = FALSE

RunnerStarts == /\ handed = 0 /\ eof = FALSE /\ pc = "start"
                /\ expired = FALSE
                /\ reg = NoReg /\ windows = <<>> /\ run = NoRun /\ collected = <<>>
                /\ owed = {} /\ verdict = "none"

Init == /\ ProxyInit
        /\ \E f \in Flows :
             /\ driver = f.driver
             /\ agent \in {a \in Agents : a.turns = f.turns /\ a.side \in f.sides \cup {"none"} /\ ~a.edited}
        /\ recorded = NoAgent
        /\ AgentStarts /\ RunnerStarts
        /\ trace = <<>>
-----------------------------------------------------------------------------
(* The agent. *)

Done == next[1] > Deliveries

\* What the agent has left to do with what it was handed.
Idle == /\ next[1] > handed /\ ~waiting
        /\ agent.waits /\ handed >= agent.at => Answered(Side)

CallModel ==
  /\ alive /\ ~waiting /\ ~Done /\ next[1] <= handed
  /\ Connect(MainCall(next))
  /\ waiting' = TRUE
  /\ UNCHANGED <<setVars, alive, mishap, next, sided, runnerVars>>

CallOnTheSide ==
  /\ alive /\ ~sided /\ agent.side # "none" /\ next[1] = agent.at /\ handed >= agent.at
  /\ Connect(SideCall)
  /\ sided' = TRUE
  /\ UNCHANGED <<setVars, alive, mishap, next, waiting, runnerVars>>

\* The answer arrives: a tool call is followed up, anything else ends the
\* delivery; an agent that gets an error gives up.
TakeAnswer ==
  /\ alive /\ waiting /\ Answered(next)
  /\ waiting' = FALSE
  /\ next' = IF Refused(next) THEN <<Deliveries + 1, 1>>
             ELSE IF next[2] < agent.turns[next[1]] THEN <<next[1], next[2] + 1>>
             ELSE <<next[1] + 1, 1>>
  /\ UNCHANGED <<proxyVars, setVars, alive, mishap, sided, runnerVars>>

\* The process ends when it has nothing left to do, or dies.
AgentExits ==
  /\ alive /\ Process /\ handed > 0
  /\ alive' = FALSE
  /\ mishap' = (mishap \/ ~(Done /\ Idle /\ (Conversation => eof) /\ (agent.side = "none" \/ sided)))
  /\ UNCHANGED <<proxyVars, setVars, next, waiting, sided, runnerVars>>

Agent == pc # "over" /\ (CallModel \/ CallOnTheSide \/ TakeAnswer \/ AgentExits)
-----------------------------------------------------------------------------
(* The runner. *)

Goto(p) == pc' = p /\ expired' = FALSE

KeepAgent == UNCHANGED <<setVars, agentVars>>
KeepResults == UNCHANGED resultVars

\* The deadline of the current wait passes.
Waits == {"activity", "inFlight", "log", "quiet", "activity2", "inFlight2",
          "exit", "post", "calm", "calmActivity", "calmInFlight"}

Expire == /\ pc \in Waits /\ ~expired
          /\ expired' = TRUE /\ mishap' = TRUE
          /\ UNCHANGED <<proxyVars, setVars, alive, next, waiting, sided, handVars, pc, reg, resultVars>>

\* The run is given up; a process still there is killed.
Fail == /\ verdict' = "error" /\ Goto("drop")
        /\ alive' = FALSE /\ mishap' = TRUE
        /\ UNCHANGED <<setVars, next, waiting, sided, run, collected, owed, trace>>

\* The process is spawned with the first prompt, or cannot be.
Spawn ==
  /\ pc = "start" /\ Process
  /\ \/ Fail /\ UNCHANGED <<handVars, reg, windows>>
     \/ /\ handed' = 1
        /\ reg' = [NoReg EXCEPT !.base = log.served, !.before = log.served]
        /\ Goto(IF Conversation THEN "activity" ELSE "exit")
        /\ KeepAgent /\ KeepResults /\ UNCHANGED eof
  /\ UNCHANGED proxyVars

\* wait_for_settle reads the counters, then the log.
ReadActivity ==
  /\ pc = "activity"
  /\ reg' = [reg EXCEPT !.activity = activity]
  /\ pc' = "inFlight"
  /\ UNCHANGED <<proxyVars, handVars, expired>> /\ KeepAgent /\ KeepResults

ReadInFlight ==
  /\ pc = "inFlight"
  /\ reg' = [reg EXCEPT !.inFlight = inFlight]
  /\ pc' = "log"
  /\ UNCHANGED <<proxyVars, handVars, expired>> /\ KeepAgent /\ KeepResults

\* (mutant) A pending tool call is not looked at.
MaySettleAnyway == log.served > reg.base /\ reg.inFlight = 0

\* (mutant) A request in flight is not looked at.
MaySettleInFlight == log.served > reg.base /\ ~log.lastTool

\* Progress since the last delivery, no tool call pending and nothing in flight.
MaySettle == log.served > reg.base /\ ~log.lastTool /\ reg.inFlight = 0

Forget == [reg EXCEPT !.activity = 0, !.inFlight = 0, !.served = 0]

Settle(ok, n) == /\ reg' = [Forget EXCEPT !.served = n, !.settled = ok]
                 /\ Goto("settled")

\* (mutant) The deadline is not looked at.
PollAgainForEver(served) == pc' = "activity" /\ reg' = Forget /\ UNCHANGED expired

\* Not yet settled: poll again, unless the deadline has passed.
PollAgain(served) ==
  \/ expired /\ Settle(FALSE, served)
  \/ ~expired /\ pc' = "activity" /\ reg' = Forget /\ UNCHANGED expired

\* A divergence settles at once; otherwise a quiet window is waited for, if
\* there is time for one.
ReadLog ==
  /\ pc = "log"
  /\ \/ log.divergence /\ Settle(TRUE, log.served)
     \/ /\ ~log.divergence /\ MaySettle /\ ~expired
        /\ reg' = [reg EXCEPT !.served = log.served]
        /\ pc' = "quiet" /\ UNCHANGED expired
     \/ /\ ~log.divergence /\ (MaySettle => expired)
        /\ PollAgain(log.served)
  /\ UNCHANGED <<proxyVars, handVars>> /\ KeepAgent /\ KeepResults

\* The quiet window is over: the same readings mean that the delivery settled.
StillQuiet(same, then) ==
  /\ \/ same /\ then
     \/ ~same /\ PollAgain(reg.served)
  /\ UNCHANGED <<proxyVars, handVars>> /\ KeepAgent /\ KeepResults

ReadServed ==
  /\ pc = "quiet"
  /\ StillQuiet(log.served = reg.served, pc' = "activity2" /\ UNCHANGED <<expired, reg>>)

ReadActivityAgain ==
  /\ pc = "activity2"
  /\ StillQuiet(activity = reg.activity, pc' = "inFlight2" /\ UNCHANGED <<expired, reg>>)

ReadInFlightAgain ==
  /\ pc = "inFlight2"
  /\ StillQuiet(inFlight = reg.inFlight, Settle(TRUE, reg.served))

\* The delivery is over.  A scripted conversation counts from where the one
\* before ended; at the terminal both ends are read from the log again.
Window == IF driver = "interactive" THEN <<reg.before, log.served>> ELSE <<reg.base, reg.served>>

Delivered ==
  /\ pc = "settled"
  /\ windows' = Append(windows, Window)
  /\ reg' = [Forget EXCEPT !.base = reg.served, !.settled = FALSE]
  /\ \/ /\ driver = "interactive" /\ ~reg.settled
        /\ Fail /\ UNCHANGED eof
     \/ /\ driver = "interactive" /\ reg.settled /\ handed < Deliveries
        /\ Goto("write") /\ KeepAgent /\ UNCHANGED <<run, eof, collected, owed, trace, verdict>>
     \/ /\ driver = "scripted" /\ reg.settled /\ handed < Deliveries /\ ~log.divergence
        /\ Goto("write") /\ KeepAgent /\ UNCHANGED <<run, eof, collected, owed, trace, verdict>>
     \/ /\ \/ handed = Deliveries /\ (reg.settled \/ driver = "scripted")
           \/ driver = "scripted" /\ (~reg.settled \/ log.divergence)
        /\ run' = [run EXCEPT !.timedOut = ~reg.settled]
        /\ eof' = TRUE
        /\ Goto("exit") /\ KeepAgent /\ UNCHANGED <<collected, owed, trace, verdict>>
  /\ UNCHANGED <<proxyVars, handed>>

\* The next delivery is one line on the agent's stdin.
Write ==
  /\ pc = "write"
  /\ \/ /\ alive
        /\ handed' = handed + 1
        /\ reg' = [reg EXCEPT !.before = log.served]
        /\ Goto("activity") /\ KeepAgent /\ KeepResults /\ UNCHANGED eof
     \/ /\ ~alive /\ driver = "interactive"
        /\ Fail /\ UNCHANGED <<handVars, reg, windows>>
     \/ /\ ~alive /\ driver = "scripted"
        /\ eof' = TRUE /\ Goto("exit") /\ KeepAgent /\ KeepResults /\ UNCHANGED <<handed, reg>>
  /\ UNCHANGED proxyVars

Snapshot(timedOut) == run' = [served |-> log.served, divergence |-> log.divergence,
                           upstreamError |-> log.upstreamError, timedOut |-> run.timedOut \/ timedOut]

\* The process has ended, or is killed at the deadline; the run is the log as it
\* is then.
Exit ==
  /\ pc = "exit" /\ (~alive \/ expired)
  /\ Snapshot(alive)
  /\ alive' = FALSE /\ mishap' = (mishap \/ alive)
  /\ Goto("driven")
  /\ UNCHANGED <<proxyVars, setVars, next, waiting, sided, handVars, reg,
                 windows, collected, owed, trace, verdict>>

\* The service cannot be reached, or the connection breaks; it goes on as it
\* likes.
Unreachable == /\ verdict' = "error" /\ Goto("drop")
               /\ mishap' = TRUE
               /\ UNCHANGED <<setVars, alive, next, waiting, sided, run, collected, owed, trace>>

\* A service is handed each delivery by a POST.
Post ==
  /\ pc = "start" /\ ~Process
  /\ handed' = handed + 1
  /\ reg' = [reg EXCEPT !.before = log.served]
  /\ Goto("post")
  /\ UNCHANGED <<proxyVars, eof>> /\ KeepAgent /\ KeepResults

\* The service answers when it is done with the delivery; it may not be
\* reachable, and the POST may time out.
Posted ==
  /\ pc = "post"
  /\ \/ Unreachable /\ UNCHANGED <<reg, windows>>
     \/ /\ Idle \/ expired
        /\ Snapshot(expired)
        /\ windows' = Append(windows, <<reg.before, log.served>>)
        /\ Goto(IF log.divergence \/ expired \/ handed = Deliveries THEN "driven" ELSE "start")
        /\ KeepAgent /\ UNCHANGED <<reg, collected, owed, trace, verdict>>
  /\ UNCHANGED <<proxyVars, handVars>>
-----------------------------------------------------------------------------
(* Judging the run. *)

\* Every delivery has a window, the windows follow each other, none is empty,
\* and together they are all the turns.
Contiguous(count, n) ==
  /\ Len(windows) = count
  /\ \A i \in 1..count :
       /\ windows[i][1] = IF i = 1 THEN 0 ELSE windows[i - 1][2]
       /\ windows[i][1] < windows[i][2] /\ windows[i][2] <= n
  /\ windows[count][2] = n

DriveFails == /\ Conversation /\ driver # "interactive"
              /\ run.timedOut \/ (~run.divergence /\ ~Contiguous(Deliveries, run.served))

Driven ==
  /\ pc = "driven"
  /\ IF DriveFails THEN /\ verdict' = "error" /\ Goto("drop")
                        /\ UNCHANGED <<windows, run, collected, owed, trace>>
     ELSE /\ Goto(IF mode = "record" THEN "calm" ELSE "drop") /\ KeepResults
  /\ UNCHANGED <<proxyVars, handVars, reg>> /\ KeepAgent

\* quiesce: the activity counter must not move for a while with nothing in
\* flight.
Calm ==
  /\ pc = "calm"
  /\ reg' = [reg EXCEPT !.activity = activity]
  /\ owed' = {a.who : a \in answers} \cup (IF step = "idle" THEN {} ELSE {serving.who})
  /\ pc' = "calmActivity"
  /\ UNCHANGED <<proxyVars, handVars, expired, windows, run, collected, trace, verdict>> /\ KeepAgent

CalmOr(quiet, then) ==
  \/ quiet /\ then
  \/ /\ ~quiet /\ ~expired
     /\ pc' = "calm" /\ UNCHANGED <<expired, reg>>
  \/ /\ ~quiet /\ expired
     /\ reg' = [reg EXCEPT !.settled = FALSE] /\ Goto("collect")

Quiet == reg' = [reg EXCEPT !.settled = TRUE] /\ Goto("collect")

CalmActivity ==
  /\ pc = "calmActivity"
  /\ CalmOr(activity = reg.activity, pc' = "calmInFlight" /\ UNCHANGED <<expired, reg>>)
  /\ UNCHANGED <<proxyVars, handVars>> /\ KeepAgent /\ KeepResults

\* (mutant) Only the activity counter is looked at.
CalmUnmarked ==
  /\ pc = "calmInFlight"
  /\ Quiet
  /\ UNCHANGED <<proxyVars, handVars>> /\ KeepAgent /\ KeepResults

CalmInFlight ==
  /\ pc = "calmInFlight"
  /\ CalmOr(inFlight = 0, Quiet)
  /\ UNCHANGED <<proxyVars, handVars>> /\ KeepAgent /\ KeepResults

\* The cassette is read, and the proxy dropped.
Collect ==
  /\ pc = "collect"
  /\ collected' = captured
  /\ Goto("drop")
  /\ UNCHANGED <<proxyVars, handVars, reg, windows, run, owed, trace, verdict>> /\ KeepAgent

\* Dropping the proxy tells the thread to stop and joins it.
Drop ==
  /\ pc = "drop" /\ ~stop
  /\ stop' = TRUE
  /\ UNCHANGED <<recordVars, queue, step, serving, counterVars, log, captured, consumed, answers,
                 runnerVars>> /\ KeepAgent

Join ==
  /\ pc = "drop" /\ stop /\ step = "idle"
  /\ Goto(IF verdict = "none" THEN "judge" ELSE "over")
  /\ UNCHANGED <<proxyVars, handVars, reg>> /\ KeepAgent /\ KeepResults

DeliveryOf(i) == CHOOSE d \in DOMAIN windows : windows[d][1] < i /\ i <= windows[d][2]

Stamped == [i \in DOMAIN collected |->
              [turn |-> collected[i], delivery |-> IF Conversation THEN DeliveryOf(i) ELSE 0]]

\* Recording mints a trace only if the run exercised the agent without an
\* upstream error, its assertions hold and its deliveries cover the cassette.
Mintable == /\ ~run.upstreamError /\ collected # <<>>
            /\ driver = "interactive" => ~run.timedOut
            /\ Conversation => Contiguous(Deliveries, Len(collected))

JudgeRecord ==
  /\ pc = "judge" /\ mode = "record"
  /\ \/ /\ Mintable
        /\ trace' = Stamped /\ verdict' = "minted"
     \/ verdict' = "error" /\ UNCHANGED trace
  /\ Goto("over")
  /\ UNCHANGED <<proxyVars, handVars, reg, windows, run, collected, owed>> /\ KeepAgent

\* Replay passes if the whole recording was served and nothing else asked for.
Reproduced == /\ ~run.divergence /\ ~run.timedOut /\ run.served = Len(trace)
              /\ Conversation => Contiguous(Deliveries, Len(trace))

JudgeReplay ==
  /\ pc = "judge" /\ mode = "replay"
  /\ verdict' = IF Reproduced THEN "pass" ELSE "error"
  /\ Goto("over")
  /\ UNCHANGED <<proxyVars, handVars, reg, windows, run, collected, owed, trace>> /\ KeepAgent

\* The agents that make a call they did not make before, and do not wait for it.
Disturbed == {a \in Agents : /\ a.turns = agent.turns /\ a.side \in {"retry", "probe"}
                             /\ ~a.waits /\ ~a.edited}

\* The trace is replayed, by the agent as it was or as it has become since.
Replay ==
  /\ pc = "over" /\ verdict = "minted"
  /\ Rebind("replay", [i \in DOMAIN trace |-> trace[i].turn])
  /\ driver' = IF driver = "interactive" THEN "scripted" ELSE driver
  /\ agent' \in {agent, [agent EXCEPT !.edited = TRUE]} \cup Disturbed
  /\ recorded' = IF mishap THEN NoAgent ELSE agent
  /\ alive' = TRUE /\ mishap' = FALSE /\ next' = <<1, 1>> /\ waiting' = FALSE /\ sided' = FALSE
  /\ handed' = 0 /\ eof' = FALSE /\ pc' = "start" /\ expired' = FALSE
  /\ reg' = NoReg /\ windows' = <<>> /\ run' = NoRun /\ collected' = <<>>
  /\ owed' = {} /\ verdict' = "none"
  /\ UNCHANGED trace

Over == pc = "over" /\ verdict # "minted" /\ UNCHANGED vars
-----------------------------------------------------------------------------
Settling == ReadActivity \/ ReadInFlight \/ ReadLog \/ ReadServed \/ ReadActivityAgain
            \/ ReadInFlightAgain
Driving == Spawn \/ Settling \/ Delivered \/ Write \/ Exit \/ Post \/ Posted
Judging == Driven \/ Calm \/ CalmActivity \/ CalmInFlight \/ Collect \/ Drop \/ Join
           \/ JudgeRecord \/ JudgeReplay \/ Replay

\* The proxy thread, with its silent client gone or still there.
ProxyThread(gone) ==
  /\ \/ Accept \/ Start \/ Refuse(gone) \/ ServeReplay \/ Forward
     \/ Capture \/ Count \/ UpstreamFails \/ Respond \/ Unmark \/ Finish
  /\ UNCHANGED <<setVars, agentVars, runnerVars>>

\* A client may go away at any moment.
Next == Agent \/ ProxyThread(TRUE) \/ Expire \/ Driving \/ Judging \/ Over

Spec == Init /\ [][Next]_vars

\* flowproof's threads run, the model answers and time passes; nothing is
\* assumed of the agent, whose connections end with its process.
FairSpec == Spec /\ WF_vars(ProxyThread(Process /\ ~alive)) /\ WF_vars(Expire) /\ WF_vars(Driving \/ Judging)
-----------------------------------------------------------------------------
\* Every variable has its type: the proxy's, the agent's, which is within its
\* plan or past it, and the runner's, which hands out no more than the flow has.
TypeAgent ==
  /\ driver \in Drivers /\ agent \in Agents /\ recorded \in Agents \cup {NoAgent}
  /\ alive \in BOOLEAN /\ mishap \in BOOLEAN /\ waiting \in BOOLEAN /\ sided \in BOOLEAN
  /\ \/ next = <<Deliveries + 1, 1>>
     \/ next \in (1..Deliveries) \X (Nat \ {0}) /\ next[2] <= agent.turns[next[1]]

TypeRunner ==
  /\ handed \in 0..Deliveries /\ eof \in BOOLEAN
  /\ pc \in Waits \cup {"start", "settled", "write", "driven", "collect", "drop", "judge", "over"}
  /\ expired \in BOOLEAN
  /\ reg \in [activity: Nat, inFlight: {0, 1}, served: Nat, base: Nat, before: Nat, settled: BOOLEAN]
  /\ windows \in Seq(Nat \X Nat)
  /\ run \in [served: Nat, divergence: BOOLEAN, upstreamError: BOOLEAN, timedOut: BOOLEAN]
  /\ collected \in Seq([body: Bodies, tool: BOOLEAN])
  /\ owed \subseteq Who
  /\ Len(trace) \in Nat /\ DOMAIN trace = 1..Len(trace)
  /\ \A i \in DOMAIN trace : trace[i].turn \in [body: Bodies, tool: BOOLEAN]
  /\ verdict \in {"none", "minted", "pass", "error"}

TypeOK == TypeProxy(Who, Bodies) /\ TypeAgent /\ TypeRunner

\* wait_for_settle: when the last of its readings is about to settle a
\* delivery and no further request has started since the one before it, the
\* count it returns is the count of the log, no tool call is pending and no
\* request is between being taken and being counted out.
SettledIsQuiet ==
  pc = "inFlight2" /\ inFlight = reg.inFlight /\ activity = reg.activity =>
    /\ log.served = reg.served /\ ~log.lastTool
    /\ step \in {"idle", "finishing"}

\* quiesce: unless its cap ran out, the cassette it waited for holds every
\* model call the proxy had taken when it last looked for quiet, also those the
\* agent did not wait for.
QuiesceMissesNothing ==
  pc = "collect" /\ reg.settled =>
    \A w \in owed : \E a \in answers :
      /\ a.who = w
      /\ a.ok => \E i \in DOMAIN captured :
                   captured[i].body = IF w = Side THEN SideCall.body ELSE w

\* Every turn of a minted conversation is stamped with the delivery it was made
\* for, if the agent makes its calls one after another.
TurnsAttributed ==
  verdict = "minted" /\ Conversation /\ agent.side = "none" =>
    \A i \in DOMAIN trace : trace[i].delivery = trace[i].turn.body[1]

\* An agent that makes the same calls again and waits for their answers
\* reproduces its recording, in whichever order concurrent calls arrive.
FaithfulReplays ==
  /\ mode = "replay" /\ agent = recorded /\ ~mishap
  /\ agent.side = "none" \/ (agent.waits /\ driver \in {"plain", "http"})
  => verdict # "error"

\* A replay that passes has served every recorded turn to a call of its own: the
\* calls that got an answer are as many as the turns, and all are consumed.
PassServesAll ==
  verdict = "pass" => /\ consumed = DOMAIN trace
                      /\ Cardinality({a \in answers : a.ok}) = Len(trace)

\* The proxy was told to stop and waits for what a client of the service sends.
Held == pc = "drop" /\ stop /\ ~Process /\ step = "serving" /\ serving.kind = "silent"

\* Drop for AgentProxy, and every wait with a deadline before it: recording and
\* replaying come to an end whatever the agent does, with one exception.  A
\* connection on which a service, which flowproof does not end, says nothing holds
\* up the join for ever, because serve_one reads it without a timeout.
RunEnds == <>(pc = "over" /\ verdict # "minted") \/ <>[]Held
=============================================================================
