---------------------------- MODULE SuiteRunProofs ----------------------------
(***************************************************************************)
(* What is proved of the suite loop, for every number of flows and every   *)
(* number of retries: its types, who may reach the target system, the      *)
(* values a flow sees, what a PASS means and that cleanup is not skipped.  *)
(***************************************************************************)
EXTENDS SuiteRun, TLAPS

\* The part of a flow's turn in which its dependencies have been looked at.
InTurn == pc \in {"load", "values", "var", "gate", "trace", "record", "seed",
                  "replay", "cleanup", "settle"}

\* Every variable has its type, and a flow has a report exactly when the loop
\* has left it; the loop is past the last flow between two turns only, and a
\* flow is replayed only while retries are left.
Typed == /\ TypeOK
         /\ InTurn => flow <= N
         /\ pc \notin {"replay", "cleanup", "settle"} => attempt = 0
         /\ pc = "replay" => attempt <= MaxRetries
         /\ pc \in {"cleanup", "settle"} => result # "none" /\ attempt > 0

LEMMA TypedInit == Init => Typed
<1> SUFFICES ASSUME Init PROVE Typed
    OBVIOUS
<1> USE SuiteRunAssumption DEF Init, Flows
<1>1. env \in Source /\ overlay \in [held: BOOLEAN, previous: Source]
    BY DEF Source, Ambient, NoOverlay
<1>2. outcome \in [Flows -> Outcome] /\ needs \in [Flows -> SUBSET Flows]
    BY DEF Outcome
<1>3. \A f \in Flows : outcome[f] # "none" <=> f < flow
    OBVIOUS
<1>4. flow \in 1..(N + 1) /\ attempt \in 0..(MaxRetries + 1)
    OBVIOUS
<1> QED
    BY <1>1, <1>2, <1>3, <1>4 DEF Typed, TypeOK, InTurn

\* Pushing a report keeps the types.
LEMMA PushTyped ==
  ASSUME Typed, flow <= N, NEW o \in Outcome \ {"none"}, Push(o), env' \in Source,
         UNCHANGED <<policy, exit>>, needs' \in [Flows -> SUBSET Flows],
         touched' \subseteq Flows, exported' \subseteq Flows
  PROVE  Typed'
<1> USE SuiteRunAssumption DEF Typed, TypeOK, Push, Flows
<1>1. flow \in Flows /\ flow' = flow + 1 /\ flow' \in 1..(N + 1)
    OBVIOUS
<1>2. outcome' \in [Flows -> Outcome]
    BY <1>1 DEF Outcome
<1>3. \A f \in Flows : outcome'[f] # "none" <=> f < flow'
    <2> TAKE f \in Flows
    <2>1. CASE f = flow
        BY <2>1, <1>1
    <2>2. CASE f # flow
        BY <2>2, <1>1
    <2> QED
        BY <2>1, <2>2
<1>4. overlay' \in [held: BOOLEAN, previous: Source]
    BY DEF NoOverlay, Source, Ambient
<1>5. ~InTurn'
    BY DEF InTurn
<1>6. /\ pc' = "next" /\ surface' = "steps" /\ attempt' = 0 /\ result' = "none"
      /\ given' = "none" /\ cleaned' = FALSE
    OBVIOUS
<1>7. attempt' \in 0..(MaxRetries + 1)
    BY <1>6
<1> QED
    BY <1>1, <1>2, <1>3, <1>4, <1>5, <1>6, <1>7

LEMMA RestoredTyped == Typed => Restored \in Source
BY DEF Typed, TypeOK, Restored

LEMMA PushOnlyTyped ==
  ASSUME Typed, flow <= N, NEW o \in Outcome \ {"none"}, PushOnly(o)
  PROVE  Typed'
<1>1. env' \in Source
    BY RestoredTyped DEF PushOnly
<1>2. UNCHANGED <<policy, exit, needs, touched, exported>> /\ Push(o)
    BY DEF PushOnly, suiteVars, history
<1>3. needs \in [Flows -> SUBSET Flows] /\ touched \subseteq Flows /\ exported \subseteq Flows
    BY DEF Typed, TypeOK
<1> QED
    BY <1>1, <1>2, <1>3, PushTyped

\* A flow that goes on keeps its place.
LEMMA ContinueTyped ==
  ASSUME Typed, NEW to \in {"next", "load", "values", "var", "gate", "trace", "record",
                            "seed", "replay", "cleanup", "settle"},
         Continue(to), flow <= N \/ to = "next", policy' = policy,
         env' \in Source, overlay' \in [held: BOOLEAN, previous: Source],
         surface' \in {"steps", "agent"}, attempt' \in 0..(MaxRetries + 1),
         result' \in {"none", "passed", "failed", "fault"},
         needs' \in [Flows -> SUBSET Flows],
         given' \in {"none", "file", "var"}, cleaned' \in BOOLEAN,
         touched' \subseteq Flows, exported' \subseteq Flows,
         to \in {"replay", "cleanup", "settle"} \/ attempt' = 0,
         to = "replay" => attempt' <= MaxRetries,
         to \in {"cleanup", "settle"} => result' # "none" /\ attempt' > 0
  PROVE  Typed'
BY DEF Typed, TypeOK, Continue, InTurn, Flows

\* A value of the flow's own.
LEMMA SetTyped ==
  ASSUME Typed, flow <= N, NEW by \in {"file", "var"}, Set(by)
  PROVE  /\ env' \in Source /\ given' \in {"none", "file", "var"}
         /\ overlay' \in [held: BOOLEAN, previous: Source]
<1>1. From(by) \in Source
    BY SuiteRunAssumption DEF From, Source, Typed, TypeOK
<1>2. [held |-> TRUE, previous |-> env] \in [held: BOOLEAN, previous: Source]
    BY DEF Typed, TypeOK
<1> QED
    BY <1>1, <1>2 DEF Set, Typed, TypeOK

LEMMA TypedNext == Typed /\ [Next]_vars => Typed'
<1> SUFFICES ASSUME Typed, [Next]_vars PROVE Typed'
    OBVIOUS
<1> USE SuiteRunAssumption
<1>t. /\ policy \in Policy /\ env \in Source /\ overlay \in [held: BOOLEAN, previous: Source]
      /\ surface \in {"steps", "agent"} /\ attempt \in 0..(MaxRetries + 1)
      /\ result \in {"none", "passed", "failed", "fault"} /\ needs \in [Flows -> SUBSET Flows]
      /\ given \in {"none", "file", "var"} /\ cleaned \in BOOLEAN
      /\ touched \subseteq Flows /\ exported \subseteq Flows
      /\ (InTurn => flow <= N)
      /\ (pc \notin {"replay", "cleanup", "settle"} => attempt = 0)
      /\ (pc = "replay" => attempt <= MaxRetries)
      /\ (pc \in {"cleanup", "settle"} => result # "none" /\ attempt > 0)
    BY DEF Typed, TypeOK
<1>1. CASE Prepare
    <2>1. CASE Continue("next")
        BY <2>1, <1>1, <1>t, ContinueTyped DEF Prepare, suiteVars, envVars, turnVars, history
    <2>2. CASE Leave("error")
        BY <2>2, <1>1 DEF Prepare, Leave, suiteVars, envVars, turnVars, history, Typed, TypeOK, InTurn
    <2> QED
        BY <2>1, <2>2, <1>1 DEF Prepare
<1>2. CASE \E d \in SUBSET Flows : Consider(d)
    <2> PICK d \in SUBSET Flows : Consider(d)
        BY <1>2
    <2>1. needs' \in [Flows -> SUBSET Flows] /\ flow <= N
        BY <1>t DEF Consider, Flows, Typed, TypeOK
    <2>2. CASE Push("blocked") /\ UNCHANGED <<env, exit>>
        BY <2>1, <2>2, <1>t, PushTyped DEF Consider, history, Outcome
    <2>3. CASE Continue("load") /\ UNCHANGED <<envVars, turnVars>>
        BY <2>1, <2>3, <1>t, ContinueTyped DEF Consider, history, envVars, turnVars
    <2> QED
        BY <2>2, <2>3 DEF Consider
<1>3. CASE Load
    <2>1. flow <= N /\ attempt = 0
        BY <1>3, <1>t DEF Load, InTurn
    <2>2. CASE PushOnly("errored")
        BY <2>1, <2>2, PushOnlyTyped DEF Outcome
    <2>3. CASE Continue("values") /\ UNCHANGED <<suiteVars, envVars, turnVars, history>>
        BY <2>1, <2>3, <1>t, ContinueTyped DEF suiteVars, envVars, turnVars, history
    <2> QED
        BY <2>2, <2>3, <1>3 DEF Load
<1>4. CASE ApplyFile \/ ApplyVar
    <2>1. flow <= N /\ attempt = 0
        BY <1>4, <1>t DEF ApplyFile, ApplyVar, InTurn
    <2>2. CASE PushOnly("errored")
        BY <2>1, <2>2, PushOnlyTyped DEF Outcome
    <2>3. CASE /\ Keep \/ Set("file") \/ Set("var")
               /\ Continue("var") \/ Continue("gate")
               /\ UNCHANGED <<suiteVars, surface, attempt, result, cleaned, history>>
        <3>1. /\ env' \in Source /\ given' \in {"none", "file", "var"}
              /\ overlay' \in [held: BOOLEAN, previous: Source]
            BY <2>1, <2>3, <1>t, SetTyped DEF Keep, envVars
        <3> QED
            BY <2>1, <2>3, <3>1, <1>t, ContinueTyped DEF suiteVars, history
    <2> QED
        BY <2>2, <2>3, <1>4 DEF ApplyFile, ApplyVar
<1>5. CASE Gate
    <2>1. flow <= N /\ attempt = 0
        BY <1>5, <1>t DEF Gate, InTurn
    <2>2. CASE PushOnly("skipped")
        BY <2>1, <2>2, PushOnlyTyped DEF Outcome
    <2>3. CASE Continue("trace") /\ UNCHANGED <<suiteVars, envVars, turnVars, history>>
        BY <2>1, <2>3, <1>t, ContinueTyped DEF suiteVars, envVars, turnVars, history
    <2> QED
        BY <2>2, <2>3, <1>5 DEF Gate
<1>6. CASE FindTrace
    <2>1. flow <= N /\ attempt = 0
        BY <1>6, <1>t DEF FindTrace, InTurn
    <2>2. CASE PushOnly("errored") \/ PushOnly("skipped")
        BY <2>1, <2>2, PushOnlyTyped DEF Outcome
    <2>3. CASE /\ Continue("seed") \/ Continue("record")
               /\ UNCHANGED <<suiteVars, envVars, turnVars, history>>
        BY <2>1, <2>3, <1>t, ContinueTyped DEF suiteVars, envVars, turnVars, history
    <2> QED
        BY <2>2, <2>3, <1>6 DEF FindTrace
<1>7. CASE Record
    <2>1. flow <= N /\ flow \in Flows /\ attempt = 0
        BY <1>7, <1>t DEF Record, InTurn, Typed, TypeOK, Flows
    <2>2. CASE PushOnly("errored")
        BY <2>1, <2>2, PushOnlyTyped DEF Outcome
    <2>3. CASE Touch /\ Continue("seed") /\ UNCHANGED <<envVars, turnVars, suiteVars, exported>>
        BY <2>1, <2>3, <1>t, ContinueTyped DEF Touch, suiteVars, envVars, turnVars
    <2>4. CASE /\ Touch /\ Push("errored") /\ env' = Restored
               /\ UNCHANGED <<exit, suiteVars, exported>>
        BY <2>1, <2>4, <1>t, RestoredTyped, PushTyped DEF Touch, suiteVars, Outcome
    <2> QED
        BY <2>2, <2>3, <2>4, <1>7 DEF Record
<1>8. CASE Seed
    <2>1. flow <= N /\ attempt = 0
        BY <1>8, <1>t DEF Seed, InTurn
    <2>2. CASE PushOnly("errored")
        BY <2>1, <2>2, PushOnlyTyped DEF Outcome
    <2>3. CASE /\ surface' \in {"steps", "agent"} /\ Continue("replay")
               /\ UNCHANGED <<suiteVars, envVars, attempt, result, given, cleaned, history>>
        BY <2>1, <2>3, <1>t, SuiteRunAssumption, ContinueTyped DEF suiteVars, envVars, history
    <2> QED
        BY <2>2, <2>3, <1>8 DEF Seed
<1>9. CASE Replay
    <2>1. flow <= N /\ flow \in Flows
        BY <1>9, <1>t DEF Replay, InTurn, Typed, TypeOK, Flows
    <2>2. touched' \subseteq Flows /\ result' \in {"passed", "failed", "fault"}
        BY <2>1, <1>9, <1>t DEF Replay, Touch
    <2>3. policy.retries \in 0..MaxRetries
        BY <1>t DEF Policy
    <2>4. attempt' = attempt + 1 /\ attempt <= MaxRetries /\ attempt \in Nat
        BY <1>9, <1>t DEF Replay
    <2>5. UNCHANGED <<policy, env, overlay, surface, needs, given, cleaned, exported>>
        BY <1>9 DEF Replay, suiteVars, envVars
    <2>6. CASE Retry(result') /\ Continue("replay")
        <3>1. attempt' <= MaxRetries
            BY <2>6, <2>3, <2>4 DEF Retry
        <3> QED
            BY <2>1, <2>2, <2>4, <2>5, <2>6, <3>1, <1>t, ContinueTyped
    <2>7. CASE Continue("cleanup")
        BY <2>1, <2>2, <2>4, <2>5, <2>7, <1>t, ContinueTyped
    <2> QED
        BY <2>6, <2>7, <1>9 DEF Replay
<1>10. CASE Cleanup
    <2>1. flow <= N
        BY <1>10, <1>t DEF Cleanup, InTurn
    <2>2. cleaned' \in BOOLEAN /\ result' \in {"none", "passed", "failed", "fault"}
        BY <1>10, <1>t DEF Cleanup
    <2> QED
        BY <2>1, <2>2, <1>10, <1>t, ContinueTyped DEF Cleanup, suiteVars, envVars, history
<1>11. CASE Settle
    <2>1. flow <= N /\ flow \in Flows
        BY <1>11, <1>t DEF Settle, InTurn, Typed, TypeOK, Flows
    <2>2. CASE PushOnly("errored")
        BY <2>1, <2>2, PushOnlyTyped DEF Outcome
    <2>3. CASE result # "fault" /\ PushOnly(result)
        <3>1. result \in {"passed", "failed"}
            BY <2>3, <1>11, <1>t DEF Settle
        <3> QED
            BY <2>1, <2>3, <3>1, PushOnlyTyped DEF Outcome
    <2>4. CASE /\ Push("passed") /\ env' = From("export") /\ exported' = exported \cup {flow}
               /\ UNCHANGED <<suiteVars, exit, touched>>
        <3>1. env' \in Source
            BY <2>1, <2>4 DEF From, Source, Flows
        <3> QED
            BY <2>1, <2>4, <3>1, <1>t, PushTyped DEF Outcome, suiteVars
    <2> QED
        BY <2>2, <2>3, <2>4, <1>11 DEF Settle
<1>12. CASE Finish
    BY <1>12, <1>t DEF Finish, Leave, Verdict, suiteVars, envVars, turnVars, history, Typed,
       TypeOK, InTurn
<1>13. CASE UNCHANGED vars
    BY <1>13 DEF vars, suiteVars, envVars, turnVars, history, Typed, TypeOK, InTurn
<1> QED
    BY <1>1, <1>2, <1>3, <1>4, <1>5, <1>6, <1>7, <1>8, <1>9, <1>10, <1>11, <1>12, <1>13
       DEF Next, Step, Done

\* TypeOK: every variable has its type, and a flow has a report exactly when the
\* loop has left it.
THEOREM TypeCorrect == Spec => []TypeOK
<1>1. Typed => TypeOK
    BY DEF Typed
<1> QED
    BY TypedInit, TypedNext, <1>1, PTL DEF Spec
-----------------------------------------------------------------------------
\* Cleanup is what stands between a replay and the end of the flow's turn.
CleanedUp == pc = "settle" /\ policy.after => cleaned

LEMMA CleanedUpNext == Typed /\ CleanedUp /\ [Next]_vars => CleanedUp'
<1> SUFFICES ASSUME Typed, CleanedUp, [Next]_vars PROVE CleanedUp'
    OBVIOUS
<1>1. CASE Cleanup
    BY <1>1 DEF Cleanup, CleanedUp, suiteVars
<1>2. CASE UNCHANGED vars
    BY <1>2 DEF vars, suiteVars, turnVars, CleanedUp
<1>3. CASE Step /\ ~Cleanup
    <2>1. pc' # "settle"
        BY <1>3 DEF Step, Prepare, Consider, Load, ApplyFile, ApplyVar, Gate, FindTrace, Record,
           Seed, Replay, Settle, Finish, Continue, Leave, PushOnly, Push
    <2> QED
        BY <2>1 DEF CleanedUp
<1> QED
    BY <1>1, <1>2, <1>3 DEF Next, Done

\* AlwaysCleaned, after_each in run_suite_with_author: whichever way the replays
\* of a flow went, the loop does not leave the flow before its cleanup has run.
THEOREM CleanupAlwaysRuns == Spec => AlwaysCleaned
<1>1. Init => CleanedUp
    BY DEF Init, CleanedUp
<1>2. Typed /\ CleanedUp /\ [Next]_vars
        => [flow' # flow /\ attempt > 0 /\ policy.after => cleaned]_vars
    <2> SUFFICES ASSUME Typed, CleanedUp, Next, flow' # flow, attempt > 0, policy.after
                 PROVE  cleaned
        BY DEF vars
    <2>1. pc \in {"replay", "cleanup", "settle"}
        BY DEF Typed
    <2>2. ~Replay /\ ~Cleanup /\ ~UNCHANGED vars
        BY DEF Replay, Cleanup, Continue, vars
    <2>3. Settle
        BY <2>1, <2>2 DEF Next, Step, Done, Prepare, Consider, Load, ApplyFile, ApplyVar, Gate,
           FindTrace, Record, Seed, Finish
    <2> QED
        BY <2>3 DEF Settle, CleanedUp
<1> QED
    BY TypedInit, TypedNext, <1>1, CleanedUpNext, <1>2, PTL DEF Spec, AlwaysCleaned
-----------------------------------------------------------------------------
\* The flows that were executed and passed.
Executed == {f \in Flows : outcome[f] = "passed" /\ f \in touched}

\* Whoever reaches the target system, and whoever has a report of its own, has
\* had everything it needs executed.
Provided ==
  /\ \A f \in touched : f < flow \/ (f = flow /\ InTurn)
  /\ \A f \in touched : needs[f] \subseteq Executed
  /\ InTurn => needs[flow] \subseteq Executed
  /\ result = "passed" => flow \in touched
  /\ \A f \in Flows : outcome[f] = "passed" => f \in touched
  /\ \A f \in Flows : outcome[f] \notin {"none", "blocked"} => needs[f] \subseteq Executed
  /\ exit = "pass" => pc = "done" /\ \A f \in Flows : outcome[f] \in {"passed", "skipped"}

LEMMA ProvidedInit == Init => Provided
BY DEF Init, Provided, InTurn

\* A report pushed in a flow's turn.
LEMMA PushProvided ==
  ASSUME Typed, Provided, InTurn, NEW o \in {"passed", "failed", "errored", "skipped"},
         Push(o), o = "passed" => result = "passed",
         UNCHANGED <<needs, exit>>, touched' = touched \/ Touch
  PROVE  Provided'
<1> USE DEF Provided
<1>1. /\ flow \in Flows /\ flow \in Nat /\ flow' = flow + 1 /\ pc' = "next"
      /\ result' = "none" /\ ~InTurn'
    BY SuiteRunAssumption DEF Push, Typed, TypeOK, Flows, InTurn
<1>2. touched \subseteq touched' /\ touched' \subseteq touched \cup {flow} /\ touched \subseteq Flows
    BY DEF Touch, Typed, TypeOK
<1>3. outcome' = [outcome EXCEPT ![flow] = o] /\ outcome \in [Flows -> Outcome] /\ outcome[flow] = "none"
    BY <1>1 DEF Push, Typed, TypeOK, Flows
<1>4. Executed \subseteq Executed'
    BY <1>1, <1>2, <1>3 DEF Executed, Flows
<1>5. \A f \in touched' : f < flow'
    BY <1>1, <1>2, SuiteRunAssumption DEF Flows
<1>6. \A f \in touched' : needs'[f] \subseteq Executed'
    BY <1>2, <1>4
<1>7. \A f \in Flows : outcome'[f] = "passed" => f \in touched'
    BY <1>2, <1>3
<1>8. \A f \in Flows : outcome'[f] \notin {"none", "blocked"} => needs'[f] \subseteq Executed'
    BY <1>3, <1>4
<1>9. exit' # "pass"
    BY DEF InTurn
<1> QED
    BY <1>1, <1>5, <1>6, <1>7, <1>8, <1>9

\* A flow that goes on.
LEMMA ContinueProvided ==
  ASSUME Typed, Provided, InTurn, NEW to, Continue(to), UNCHANGED needs, InTurn',
         touched' = touched \/ Touch, result' = "passed" => result = "passed" \/ Touch
  PROVE  Provided'
<1> USE DEF Provided
<1>1. /\ flow \in Flows /\ flow \in Nat
      /\ flow' = flow /\ UNCHANGED <<outcome, exit>> /\ exit # "pass"
    BY SuiteRunAssumption DEF Continue, Typed, TypeOK, Flows, InTurn
<1>2. touched \subseteq touched' /\ touched' \subseteq touched \cup {flow}
    BY DEF Touch
<1>4. Executed \subseteq Executed'
    BY <1>1, <1>2 DEF Executed
<1>5. result' = "passed" => flow' \in touched'
    BY <1>1, <1>2 DEF Touch
<1> QED
    BY <1>1, <1>2, <1>4, <1>5

LEMMA ProvidedNext == Typed /\ Provided /\ [Next]_vars => Provided'
<1> SUFFICES ASSUME Typed, Provided, [Next]_vars PROVE Provided'
    OBVIOUS
<1> USE DEF suiteVars, envVars, turnVars, history
<1>1. CASE Prepare \/ Finish
    <2>1. /\ ~InTurn /\ ~InTurn' /\ UNCHANGED <<flow, outcome, needs, touched, result>>
        BY <1>1 DEF Prepare, Finish, Continue, Leave, InTurn
    <2>2. Executed' = Executed
        BY <2>1 DEF Executed
    <2>3. exit' = "pass" => pc' = "done" /\ \A f \in Flows : outcome'[f] \in {"passed", "skipped"}
        <3>1. CASE Prepare
            BY <3>1 DEF Prepare, Continue, Leave, Provided
        <3>2. CASE Finish
            <4>1. \A f \in Flows : outcome[f] \in Outcome \ {"none"}
                BY <3>2, SuiteRunAssumption DEF Finish, Typed, TypeOK, Flows
            <4> QED
                BY <3>2, <4>1 DEF Finish, Leave, Verdict, Outcome
        <3> QED
            BY <1>1, <3>1, <3>2
    <2> QED
        BY <2>1, <2>2, <2>3 DEF Provided
<1>2. CASE \E d \in SUBSET Flows : Consider(d)
    <2> PICK d \in SUBSET Flows : Consider(d)
        BY <1>2
    <2>1. /\ flow \in Flows /\ flow \in Nat /\ UNCHANGED touched /\ ~InTurn
          /\ needs \in [Flows -> SUBSET Flows] /\ needs' = [needs EXCEPT ![flow] = d]
        BY SuiteRunAssumption DEF Consider, Typed, TypeOK, Flows, InTurn
    <2>2. flow \notin touched /\ outcome[flow] = "none" /\ exit # "pass" /\ result # "passed"
        BY <2>1 DEF Provided, Typed, TypeOK, Consider, Flows
    <2>3. CASE HeldBack(d) /\ Push("blocked") /\ UNCHANGED exit
        <3>1. /\ flow' = flow + 1 /\ ~InTurn' /\ result' = "none" /\ exit' # "pass"
              /\ outcome' = [outcome EXCEPT ![flow] = "blocked"] /\ outcome \in [Flows -> Outcome]
            BY <2>2, <2>3 DEF Push, InTurn, Typed, TypeOK
        <3>2. Executed' = Executed
            BY <3>1, <2>1, <2>2 DEF Executed
        <3>3. \A f \in touched' : f < flow'
            BY <3>1, <2>1 DEF Provided, Typed, TypeOK, Flows
        <3>4. \A f \in touched' : needs'[f] \subseteq Executed'
            BY <3>2, <2>1, <2>2 DEF Provided
        <3>5. \A f \in Flows : outcome'[f] # outcome[f] => f = flow
            BY <3>1
        <3>6. \A f \in Flows : outcome'[f] = "passed" => f \in touched'
            BY <3>1, <3>5, <2>1 DEF Provided
        <3>7. \A f \in Flows : outcome'[f] \notin {"none", "blocked"} => needs'[f] \subseteq Executed'
            BY <3>1, <3>2, <3>5, <2>1, <2>2 DEF Provided
        <3> QED
            BY <3>1, <3>3, <3>4, <3>6, <3>7 DEF Provided
    <2>4. CASE ~HeldBack(d) /\ Continue("load") /\ UNCHANGED <<envVars, turnVars>>
        <3>1. /\ UNCHANGED <<flow, outcome, result, exit>>
              /\ Executed' = Executed
            BY <2>4, <2>1 DEF Continue, Executed
        <3>2. d \subseteq Executed
            BY <2>4 DEF HeldBack, Executed, Provided
        <3>3. \A f \in Flows : f # flow => needs'[f] = needs[f]
            BY <2>1
        <3>4. needs'[flow'] \subseteq Executed'
            BY <2>1, <3>1, <3>2
        <3>5. \A f \in touched' : f < flow' /\ needs'[f] \subseteq Executed'
            BY <2>1, <2>2, <3>1, <3>3 DEF Provided, Typed, TypeOK
        <3>6. \A f \in Flows : outcome'[f] \notin {"none", "blocked"} => needs'[f] \subseteq Executed'
            BY <2>2, <3>1, <3>3 DEF Provided
        <3> QED
            BY <2>1, <2>2, <3>1, <3>4, <3>5, <3>6 DEF Provided
    <2> QED
        BY <2>3, <2>4 DEF Consider
<1>3. CASE Load \/ ApplyFile \/ ApplyVar \/ Gate \/ FindTrace \/ Seed
    <2>1. InTurn
        BY <1>3 DEF Load, ApplyFile, ApplyVar, Gate, FindTrace, Seed, InTurn
    <2>2. CASE PushOnly("errored") \/ PushOnly("skipped")
        BY <2>1, <2>2, PushProvided DEF PushOnly
    <2>3. CASE /\ UNCHANGED <<needs, touched, result>>
               /\ \E to \in {"values", "var", "gate", "trace", "seed", "record", "replay"} : Continue(to)
        <3>1. InTurn'
            BY <2>3 DEF Continue, InTurn
        <3> QED
            BY <2>1, <2>3, <3>1, ContinueProvided
    <2> QED
        BY <2>2, <2>3, <1>3 DEF Load, ApplyFile, ApplyVar, Gate, FindTrace, Seed
<1>4. CASE Record
    <2>1. InTurn
        BY <1>4 DEF Record, InTurn
    <2>2. CASE PushOnly("errored")
        BY <2>1, <2>2, PushProvided DEF PushOnly
    <2>3. CASE Touch /\ Continue("seed") /\ UNCHANGED <<needs, result>>
        <3>1. InTurn'
            BY <2>3 DEF Continue, InTurn
        <3> QED
            BY <2>1, <2>3, <3>1, ContinueProvided
    <2>4. CASE Touch /\ Push("errored") /\ UNCHANGED <<needs, exit>>
        BY <2>1, <2>4, PushProvided
    <2> QED
        BY <2>2, <2>3, <2>4, <1>4 DEF Record
<1>5. CASE Replay \/ Cleanup
    <2>1. /\ InTurn /\ InTurn' /\ UNCHANGED needs
          /\ touched' = touched \/ Touch
          /\ result' = "passed" => result = "passed" \/ Touch
        BY <1>5 DEF Replay, Cleanup, InTurn, Continue
    <2>2. \E to : Continue(to)
        BY <1>5 DEF Replay, Cleanup
    <2> QED
        BY <2>1, <2>2, ContinueProvided
<1>6. CASE Settle
    <2>1. InTurn
        BY <1>6 DEF Settle, InTurn
    <2>2. CASE PushOnly("errored")
        BY <2>1, <2>2, PushProvided DEF PushOnly
    <2>3. CASE result # "fault" /\ PushOnly(result)
        <3>1. result \in {"passed", "failed"}
            BY <2>3, <1>6 DEF Settle, Typed, TypeOK
        <3> QED
            BY <2>1, <2>3, <3>1, PushProvided DEF PushOnly
    <2>4. CASE result = "passed" /\ Push("passed") /\ UNCHANGED <<needs, exit, touched>>
        BY <2>1, <2>4, PushProvided
    <2> QED
        BY <2>2, <2>3, <2>4, <1>6 DEF Settle
<1>7. CASE UNCHANGED vars
    BY <1>7 DEF vars, Provided, InTurn, Executed
<1> QED
    BY <1>1, <1>2, <1>3, <1>4, <1>5, <1>6, <1>7 DEF Next, Step, Done

\* PrerequisitesPassed, depends_on in suite.rs and blocked_reason: only a flow
\* all of whose prerequisites, at any distance, were executed and passed reaches
\* the target system.  The executed flows hold, with a flow, what it needs.
THEOREM DependentsWait == Spec => []PrerequisitesPassed
<1>1. Typed /\ Provided => PrerequisitesPassed
    <2> SUFFICES ASSUME Typed, Provided, NEW f \in touched, NEW g \in Ancestors(f)
                 PROVE  outcome[g] = "passed" /\ g \in touched
        BY DEF PrerequisitesPassed
    <2>1. Executed \in SUBSET Flows /\ needs[f] \subseteq Executed
          /\ \A h \in Executed : needs[h] \subseteq Executed
        BY DEF Executed, Provided
    <2>2. g \in Executed
        BY <2>1 DEF Ancestors
    <2> QED
        BY <2>2 DEF Executed
<1> QED
    BY TypedInit, TypedNext, ProvidedInit, ProvidedNext, <1>1, PTL DEF Spec

\* PassLeavesNoGap, the exit code of run_suite_with_author: it is PASS only when
\* every flow was executed and passed, or was skipped and nothing depends on it.
THEOREM PassTells == Spec => []PassLeavesNoGap
<1>1. Typed /\ Provided => PassLeavesNoGap
    <2> SUFFICES ASSUME Typed, Provided, exit = "pass", NEW f \in Flows
                 PROVE  \/ outcome[f] = "passed" /\ f \in touched
                        \/ outcome[f] = "skipped" /\ \A g \in Flows : f \notin needs[g]
        BY DEF PassLeavesNoGap
    <2>1. \A g \in Flows : needs[g] \subseteq Executed
        BY DEF Provided
    <2> QED
        BY <2>1 DEF Provided, Executed
<1> QED
    BY TypedInit, TypedNext, ProvidedInit, ProvidedNext, <1>1, PTL DEF Spec
-----------------------------------------------------------------------------
\* What the variable holds outside the flows that are given a value.
Latest == IF exported # {} THEN [by |-> "export", flow |-> Max(exported)] ELSE Ambient

\* A value of the flow's own is held over the latest export, or there is none.
Layered ==
  /\ \A f \in exported : f < flow
  /\ overlay.held \in BOOLEAN
  /\ ~InTurn => ~overlay.held
  /\ overlay.held => /\ overlay.previous = Latest
                     /\ given # "none" /\ env = From(given)
  /\ ~overlay.held => env = Latest /\ given = "none"

LEMMA LayeredInit == Init => Layered
BY DEF Init, Layered, Latest, NoOverlay, InTurn

\* The flow that exports is the latest.
LEMMA LatestExport ==
  ASSUME Typed, NEW S \in SUBSET Flows, NEW f \in Flows, \A g \in S : g < f
  PROVE  Max(S \cup {f}) = f
<1>1. f \in S \cup {f} /\ \A g \in S \cup {f} : f >= g
    BY SuiteRunAssumption DEF Flows
<1>2. \A x \in S \cup {f} : (\A g \in S \cup {f} : x >= g) => x = f
    BY <1>1, SuiteRunAssumption DEF Flows
<1> QED
    BY <1>1, <1>2 DEF Max

LEMMA LayeredNext == Typed /\ Layered /\ [Next]_vars => Layered'
<1> SUFFICES ASSUME Typed, Layered, [Next]_vars PROVE Layered'
    OBVIOUS
<1> USE DEF suiteVars, envVars, turnVars, history
<1>t. flow \in Nat /\ flow \in 1..(N + 1) /\ exported \subseteq Flows /\ Restored = Latest
    BY SuiteRunAssumption DEF Typed, TypeOK, Layered, Restored
<1>1. ASSUME Push("passed") \/ Push("failed") \/ Push("errored") \/ Push("skipped") \/ Push("blocked"),
             UNCHANGED exported, env' = Latest
      PROVE  Layered'
    <2>1. flow' = flow + 1 /\ overlay' = NoOverlay /\ given' = "none" /\ Latest' = Latest
        BY <1>1 DEF Push, Latest
    <2>2. \A f \in exported' : f < flow'
        BY <1>1, <1>t, <2>1, SuiteRunAssumption DEF Layered, Flows
    <2> QED
        BY <1>1, <2>1, <2>2 DEF Layered, NoOverlay
<1>2. ASSUME UNCHANGED <<flow, exported, env, overlay, given>>, InTurn' \/ ~InTurn
      PROVE  Layered'
    BY <1>2 DEF Layered, Latest, From
<1>3. ASSUME PushOnly("failed") \/ PushOnly("passed") \/ PushOnly("errored") \/ PushOnly("skipped")
      PROVE  Layered'
    BY <1>1, <1>3, <1>t DEF PushOnly
<1>4. CASE \E d \in SUBSET Flows : Consider(d)
    <2> PICK d \in SUBSET Flows : Consider(d)
        BY <1>4
    <2>1. CASE Push("blocked") /\ UNCHANGED env
        <3>1. env = Latest
            BY DEF Layered, Consider, InTurn
        <3> QED
            BY <2>1, <3>1, <1>1 DEF Consider
    <2>2. CASE Continue("load") /\ UNCHANGED <<envVars, turnVars>>
        BY <2>2, <1>2 DEF Consider, Continue, InTurn
    <2> QED
        BY <2>1, <2>2 DEF Consider
<1>5. CASE ApplyFile \/ ApplyVar
    <2>1. CASE PushOnly("errored")
        BY <2>1, <1>3
    <2>2. CASE Keep /\ UNCHANGED <<flow, exported>> /\ InTurn'
        BY <2>2, <1>2 DEF Keep
    <2>3. CASE (Set("file") \/ Set("var")) /\ UNCHANGED <<flow, exported>> /\ InTurn'
        <3>1. Latest' = Latest
            BY <2>3 DEF Latest
        <3>3. overlay'.held = TRUE /\ overlay'.previous = Latest
            BY <2>3 DEF Set, Layered
        <3>4. given' # "none" /\ env' = From(given)'
            BY <2>3 DEF Set, From
        <3> QED
            BY <2>3, <3>1, <3>3, <3>4 DEF Layered
    <2> QED
        BY <1>5, <2>1, <2>2, <2>3 DEF ApplyFile, ApplyVar, Continue, InTurn
<1>6. CASE Load \/ Gate \/ FindTrace \/ Seed
    <2>1. CASE PushOnly("errored") \/ PushOnly("skipped")
        BY <2>1, <1>3
    <2>2. CASE UNCHANGED <<flow, exported, env, overlay, given>> /\ InTurn'
        BY <2>2, <1>2
    <2> QED
        BY <1>6, <2>1, <2>2 DEF Load, Gate, FindTrace, Seed, Continue, InTurn
<1>7. CASE Record
    <2>1. CASE PushOnly("errored")
        BY <2>1, <1>3
    <2>2. CASE Push("errored") /\ env' = Restored /\ UNCHANGED exported
        BY <2>2, <1>1, <1>t
    <2>3. CASE UNCHANGED <<flow, exported, env, overlay, given>> /\ InTurn'
        BY <2>3, <1>2
    <2> QED
        BY <1>7, <2>1, <2>2, <2>3 DEF Record, Continue, InTurn
<1>8. CASE Replay \/ Cleanup
    BY <1>8, <1>2 DEF Replay, Cleanup, InTurn, Continue
<1>9. CASE Settle
    <2>1. CASE PushOnly("errored")
        BY <2>1, <1>3
    <2>2. CASE result # "fault" /\ PushOnly(result)
        <3>1. result \in {"passed", "failed"}
            BY <2>2, <1>9 DEF Settle, Typed, TypeOK
        <3> QED
            BY <2>2, <3>1, <1>3
    <2>3. CASE Push("passed") /\ env' = From("export") /\ exported' = exported \cup {flow}
        <3>1. flow \in Flows
            BY <1>9, SuiteRunAssumption DEF Settle, Typed, TypeOK, InTurn, Flows
        <3>2. Max(exported') = flow
            BY <2>3, <3>1, <1>t, LatestExport DEF Layered
        <3>3. Latest' = From("export")
            BY <2>3, <3>2 DEF Latest, From
        <3>4. \A f \in exported' : f < flow'
            BY <2>3, <3>1, <1>t, SuiteRunAssumption DEF Layered, Push, Flows
        <3>5. overlay' = NoOverlay /\ given' = "none"
            BY <2>3 DEF Push
        <3> QED
            BY <2>3, <3>3, <3>4, <3>5 DEF Layered, NoOverlay
    <2> QED
        BY <1>9, <2>1, <2>2, <2>3 DEF Settle
<1>10. CASE Prepare \/ Finish
    BY <1>10, <1>2 DEF Prepare, Finish, InTurn, Continue, Leave
<1>11. CASE UNCHANGED vars
    BY <1>11 DEF vars, Layered, Latest, From, InTurn
<1> QED
    BY <1>4, <1>5, <1>6, <1>7, <1>8, <1>9, <1>10, <1>11 DEF Next, Step, Done

\* SeesItsValues, the order of values.rs and of the exports: a flow is recorded
\* and replayed with its own value, or else with the latest export, or else with
\* the ambient environment.
THEOREM ValuesDoNotLeak == Spec => []SeesItsValues
<1>1. Typed /\ Layered => SeesItsValues
    BY DEF Layered, Latest, SeesItsValues
<1> QED
    BY TypedInit, TypedNext, LayeredInit, LayeredNext, <1>1, PTL DEF Spec
=============================================================================
