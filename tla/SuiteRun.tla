------------------------------ MODULE SuiteRun ------------------------------
(***************************************************************************)
(* One ordinary `flowproof run <dir>`: the loop of run_suite_with_author   *)
(* (flowproof-cli/src/lib.rs) over the selected specs, with dependencies   *)
(* and stop_on_failure (suite.rs), values files and --var, the             *)
(* skip_unless_env gate, the missing-trace policy, seed and cleanup hooks, *)
(* retries, agent flows and exports.  The environment of the process is    *)
(* followed through one variable that flows may export, be given a value   *)
(* for, and read.  What a suite.yaml or a flow declares is chosen when the *)
(* loop comes to it.                                                       *)
(***************************************************************************)
EXTENDS Naturals, FiniteSets, FiniteSetsExt

CONSTANTS N,           \* how many flows the suite selects
          MaxRetries   \* the largest --retries considered

ASSUME SuiteRunAssumption == N \in Nat \ {0} /\ MaxRetries \in Nat

Flows == 1..N

VARIABLES
  policy,   \* --retries, the missing-trace policy, stop_on_failure, the hooks
  pc,       \* where the loop is
  flow,     \* the flow it is at
  env,      \* where the value of the environment variable comes from
  overlay,  \* the values overlay of the flow: what the variable was before it
  surface,  \* whether the flow drives steps or an agent
  attempt,  \* replays of this flow so far
  result,   \* what the last replay said
  outcome,  \* the report of each flow, "none" until it is pushed
  exit,     \* the exit code, "none" while the suite runs
  needs,    \* history: what each flow depends on
  given,    \* history: what gave this flow a value of its own
  cleaned,  \* history: whether after_each ran for this flow
  touched,  \* history: the flows that reached the target system
  exported  \* history: the flows that exported the variable

suiteVars == <<policy, needs>>
envVars == <<env, overlay>>
turnVars == <<surface, attempt, result, given, cleaned>>
history == <<touched, exported>>
vars == <<pc, flow, outcome, exit, suiteVars, envVars, turnVars, history>>
-----------------------------------------------------------------------------
Policy == [retries: 0..MaxRetries, missing: {"skip", "record", "error"},
           stop: BOOLEAN, before: BOOLEAN, after: BOOLEAN]

Source == [by: {"ambient", "file", "var", "export"}, flow: 0..N]
Ambient == [by |-> "ambient", flow |-> 0]
From(by) == [by |-> by, flow |-> flow]

NoOverlay == [held |-> FALSE, previous |-> Ambient]

Outcome == {"none", "passed", "failed", "errored", "skipped", "blocked"}

Init == /\ policy \in Policy
        /\ pc = "prepare" /\ flow = 1 /\ exit = "none"
        /\ env = Ambient /\ overlay = NoOverlay
        /\ surface = "steps" /\ attempt = 0 /\ result = "none"
        /\ outcome = [f \in Flows |-> "none"]
        /\ needs = [f \in Flows |-> {}]
        /\ given = "none" /\ cleaned = FALSE
        /\ touched = {} /\ exported = {}

\* Dropping the overlay puts the variable back.
Restored == IF overlay.held THEN overlay.previous ELSE env

\* The report of the flow is pushed and the loop goes on to the next one; the
\* overlay goes out of scope.
Push(o) == /\ outcome' = [outcome EXCEPT ![flow] = o]
           /\ flow' = flow + 1
           /\ pc' = "next"
           /\ overlay' = NoOverlay
           /\ surface' = "steps" /\ attempt' = 0 /\ result' = "none"
           /\ given' = "none" /\ cleaned' = FALSE

PushOnly(o) == /\ Push(o)
               /\ env' = Restored
               /\ UNCHANGED <<suiteVars, exit, history>>

\* The flow goes on to the next part of its turn.
Continue(to) == pc' = to /\ UNCHANGED <<flow, outcome, exit>>

Leave(code) == pc' = "done" /\ exit' = code /\ UNCHANGED <<flow, outcome>>
-----------------------------------------------------------------------------
\* Discovery, the manifest, the selection, the control ids and env_from: any
\* of them may refuse the suite before a flow is looked at.
Prepare ==
  /\ pc = "prepare"
  /\ Continue("next") \/ Leave("error")
  /\ UNCHANGED <<suiteVars, envVars, turnVars, history>>

\* (mutant) A skipped prerequisite counts as passed, as its report says.
HeldBackByFailure(d) ==
  \/ policy.stop /\ \E f \in Flows : outcome[f] \in {"failed", "errored"}
  \/ \E f \in d : outcome[f] \notin {"passed", "skipped"}

\* stop_on_failure after a report that did not pass, or a prerequisite that did
\* not really pass.
HeldBack(d) ==
  \/ policy.stop /\ \E f \in Flows : outcome[f] \in {"failed", "errored"}
  \/ \E f \in d : outcome[f] # "passed"

\* The loop comes to the flow, which depends on flows before it.
Consider(d) ==
  /\ pc = "next" /\ flow <= N
  /\ d \subseteq 1..(flow - 1)
  /\ needs' = [needs EXCEPT ![flow] = d]
  /\ \/ /\ HeldBack(d)
        /\ Push("blocked")
        /\ UNCHANGED <<env, exit>>
     \/ /\ ~HeldBack(d)
        /\ Continue("load")
        /\ UNCHANGED <<envVars, turnVars>>
  /\ UNCHANGED <<policy, history>>

\* The spec is loaded; one that does not parse is one errored flow.
Load ==
  /\ pc = "load"
  /\ \/ PushOnly("errored")
     \/ Continue("values") /\ UNCHANGED <<suiteVars, envVars, turnVars, history>>

\* (mutant) Each value set saves what the variable was.
SetAgain(by) == /\ env' = From(by)
                /\ overlay' = [held |-> TRUE, previous |-> env]
                /\ given' = by

\* A value is set over the variable; what it was before the first is kept.
Set(by) == /\ env' = From(by)
           /\ overlay' = IF overlay.held THEN overlay ELSE [held |-> TRUE, previous |-> env]
           /\ given' = by

Keep == UNCHANGED <<envVars, given>>

\* The sibling values file or --vars; a bad one errors the flow, and what it
\* had already set is put back.
ApplyFile ==
  /\ pc = "values"
  /\ \/ PushOnly("errored")
     \/ /\ Keep \/ Set("file")
        /\ Continue("var")
        /\ UNCHANGED <<suiteVars, surface, attempt, result, cleaned, history>>

\* --var, over the file.
ApplyVar ==
  /\ pc = "var"
  /\ \/ PushOnly("errored")
     \/ /\ Keep \/ Set("var")
        /\ Continue("gate")
        /\ UNCHANGED <<suiteVars, surface, attempt, result, cleaned, history>>

\* skip_unless_env wins over everything that follows.
Gate ==
  /\ pc = "gate"
  /\ \/ PushOnly("skipped")
     \/ Continue("trace") /\ UNCHANGED <<suiteVars, envVars, turnVars, history>>

\* A flow without a trace is an error, a skip, or recorded first.
FindTrace ==
  /\ pc = "trace"
  /\ \/ Continue("seed") /\ UNCHANGED <<suiteVars, envVars, turnVars, history>>
     \/ policy.missing = "error" /\ PushOnly("errored")
     \/ policy.missing = "skip" /\ PushOnly("skipped")
     \/ /\ policy.missing = "record"
        /\ Continue("record")
        /\ UNCHANGED <<suiteVars, envVars, turnVars, history>>

\* The flow reaches the target system.
Touch == touched' = touched \cup {flow}

\* (mutant) A recording that fails is tried again.
RecordAgain ==
  /\ pc = "record"
  /\ Touch
  /\ Continue("seed") \/ Continue("trace")
  /\ UNCHANGED <<suiteVars, envVars, turnVars, exported>>

\* The policy records it now, against the target, before the replay.
Record ==
  /\ pc = "record"
  /\ \/ /\ Touch
        /\ \/ Continue("seed") /\ UNCHANGED <<envVars, turnVars>>
           \/ Push("errored") /\ env' = Restored /\ UNCHANGED exit
        /\ UNCHANGED <<suiteVars, exported>>
     \/ PushOnly("errored")

\* before_each; a hook that is refused, does not start or exits nonzero errors
\* its flow, and the suite goes on.
Seed ==
  /\ pc = "seed"
  /\ \/ policy.before /\ PushOnly("errored")
     \/ /\ surface' \in {"steps", "agent"}
        /\ Continue("replay")
        /\ UNCHANGED <<suiteVars, envVars, attempt, result, given, cleaned, history>>

\* A failing report is replayed again with a fresh driver while retries are
\* left; a fault ends the flow, and an agent flow is replayed once.
Retry(r) == surface = "steps" /\ r = "failed" /\ attempt < policy.retries

\* One replay: a report, or a fault before or after the target was reached.
Replay ==
  /\ pc = "replay"
  /\ attempt' = attempt + 1
  /\ \/ Touch /\ result' \in {"passed", "failed"}
     \/ surface = "steps" /\ result' = "fault" /\ (Touch \/ UNCHANGED touched)
  /\ Continue(IF Retry(result') THEN "replay" ELSE "cleanup")
  /\ UNCHANGED <<suiteVars, envVars, surface, given, cleaned, exported>>

\* after_each runs whichever way the replay went; its failure is a fault.
Cleanup ==
  /\ pc = "cleanup"
  /\ \/ /\ policy.after
        /\ cleaned' = TRUE
        /\ result' \in {result, "fault"}
     \/ ~policy.after /\ UNCHANGED <<cleaned, result>>
  /\ Continue("settle")
  /\ UNCHANGED <<suiteVars, envVars, surface, attempt, given, history>>

\* (mutant) The exports are set before the overlay is dropped.
SettleUnderOverlay ==
  /\ pc = "settle"
  /\ \/ (result = "fault" \/ surface = "steps") /\ PushOnly("errored")
     \/ result # "fault" /\ PushOnly(result)
     \/ /\ result = "passed" /\ surface = "steps"
        /\ Push("passed")
        /\ env' = IF overlay.held THEN overlay.previous ELSE From("export")
        /\ exported' = exported \cup {flow}
        /\ UNCHANGED <<suiteVars, exit, touched>>

\* The run bundle is written, which may fail; a passing step flow exports once
\* the overlay is dropped.
Settle ==
  /\ pc = "settle"
  /\ \/ (result = "fault" \/ surface = "steps") /\ PushOnly("errored")
     \/ result # "fault" /\ PushOnly(result)
     \/ /\ result = "passed" /\ surface = "steps"
        /\ Push("passed")
        /\ env' = From("export")
        /\ exported' = exported \cup {flow}
        /\ UNCHANGED <<suiteVars, exit, touched>>

\* (mutant) Blocked flows are only skipped ones.
VerdictOfReports(o) ==
  IF \E f \in Flows : o[f] = "errored" THEN "error"
  ELSE IF \E f \in Flows : o[f] = "failed" THEN "fail" ELSE "pass"

\* The exit code; a skipped report counts as passed, blocked ones are counted
\* apart.
Verdict(o) ==
  IF \E f \in Flows : o[f] = "errored" THEN "error"
  ELSE IF \E f \in Flows : o[f] \in {"failed", "blocked"} THEN "fail" ELSE "pass"

\* The merged junit is written, which may fail, and the suite exits.
Finish ==
  /\ pc = "next" /\ flow > N
  /\ Leave(Verdict(outcome)) \/ Leave("error")
  /\ UNCHANGED <<suiteVars, envVars, turnVars, history>>

Done == pc = "done" /\ UNCHANGED vars
-----------------------------------------------------------------------------
Step == \/ Prepare \/ (\E d \in SUBSET Flows : Consider(d)) \/ Load \/ ApplyFile \/ ApplyVar
        \/ Gate \/ FindTrace \/ Record \/ Seed \/ Replay \/ Cleanup \/ Settle \/ Finish

Next == Step \/ Done

Spec == Init /\ [][Next]_vars

\* The suite is one thread that keeps running.
FairSpec == Spec /\ WF_vars(Step)
-----------------------------------------------------------------------------
\* Every variable has its type, and a flow has a report exactly when the loop
\* has left it.
TypeOK ==
  /\ policy \in Policy
  /\ pc \in {"prepare", "next", "load", "values", "var", "gate", "trace", "record",
             "seed", "replay", "cleanup", "settle", "done"}
  /\ flow \in 1..(N + 1)
  /\ env \in Source
  /\ overlay \in [held: BOOLEAN, previous: Source]
  /\ surface \in {"steps", "agent"}
  /\ attempt \in 0..(MaxRetries + 1)
  /\ result \in {"none", "passed", "failed", "fault"}
  /\ outcome \in [Flows -> Outcome]
  /\ exit \in {"none", "pass", "fail", "error"}
  /\ needs \in [Flows -> SUBSET Flows]
  /\ given \in {"none", "file", "var"} /\ cleaned \in BOOLEAN
  /\ touched \subseteq Flows /\ exported \subseteq Flows
  /\ \A f \in Flows : outcome[f] # "none" <=> f < flow

\* The flows a flow depends on, directly or through others: those in every set
\* that holds its dependencies and, with a flow, that flow's.
Ancestors(f) ==
  {g \in Flows : \A S \in SUBSET Flows :
                   needs[f] \subseteq S /\ (\A h \in S : needs[h] \subseteq S) => g \in S}

\* depends_on (suite.rs, blocked_reason; docs: "A failed, errored, or skipped
\* prerequisite skips its dependents"): a flow reaches the target system, for a
\* replay or a first recording, only if everything it depends on, at any
\* distance, has itself been executed and passed.
PrerequisitesPassed ==
  \A f \in touched : \A g \in Ancestors(f) : outcome[g] = "passed" /\ g \in touched

\* What a flow is recorded or replayed with: its own value, --var over the file;
\* else the latest export of a flow before it; else the ambient environment.  In
\* particular no value given to one flow reaches another, however that ended.
SeesItsValues ==
  pc \in {"record", "replay"} =>
    env = IF given # "none" THEN From(given)
          ELSE IF exported # {} THEN [by |-> "export", flow |-> Max(exported)]
          ELSE Ambient

\* after_each ("Cleanup always runs, pass, fail or error"): the loop leaves a
\* flow it has replayed only after its cleanup.
AlwaysCleaned ==
  [][flow' # flow /\ attempt > 0 /\ policy.after => cleaned]_vars

\* The exit code tells: PASS only if every flow was executed and passed, or was
\* skipped for a reason of its own that holds up no other flow.
PassLeavesNoGap ==
  exit = "pass" =>
    \A f \in Flows : \/ outcome[f] = "passed" /\ f \in touched
                     \/ outcome[f] = "skipped" /\ \A g \in Flows : f \notin needs[g]

\* The suite always comes to an exit code.
SuiteEnds == <>(exit # "none")
=============================================================================
