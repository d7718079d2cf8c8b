--------------------------- MODULE RecordCommand ---------------------------
(***************************************************************************)
(* `flowproof record` (cmd_record): recordings of a flow file, the repair  *)
(* of a step that failed and the rerun over the steps that passed, one     *)
(* fresh attempt after an engine gap, the checkpoint a failure leaves, and *)
(* later commands that go on from it or reuse the trace.                   *)
(*                                                                         *)
(* A flow file is a sequence of entries; a foreach: entry stands for       *)
(* several steps of the flow, any other for one.                           *)
(***************************************************************************)
EXTENDS Authoring

CONSTANTS
    Projects,     \* [file, edits, replies, patches, leaks, model, repair, commands]
    MaxAttempts   \* repairs the model may be asked for by one command

ASSUME CommandAssumption == MaxAttempts \in Nat

VARIABLES
    project,     \* one of Projects: what may happen to the file
    file,        \* the flow file now
    repairing,   \* --no-repair was not given, and neither was --reuse
    used,        \* repairs asked for
    last,        \* the failure last repaired: [kind, intent]
    fresh,       \* the fresh attempt has been made
    trace,       \* the trace file: <<>>, or <<[steps, spec]>>
    checkpoint,  \* the checkpoint file: <<>>, or the steps it holds
    exit,        \* none, pass or error
    commands

command == <<project, file, repairing, used, last, fresh, trace, checkpoint, exit, commands>>
vars    == <<recorder, command>>

---------------------------------------------------------------------------
(* The flow file.                                                          *)

\* expand_foreach, done when the file is read.
Expanded(entries) == FlattenSeq([i \in DOMAIN entries |-> entries[i].steps])

\* The entry a step of the flow comes from.
EntryOf(entries, n) ==
    CHOOSE i \in DOMAIN entries :
        /\ Len(Expanded(SubSeq(entries, 1, i - 1))) < n
        /\ n <= Len(Expanded(SubSeq(entries, 1, i)))

\* find_step_index: the first step with this intent.
StepIndex(steps_, intent) ==
    CHOOSE i \in DOMAIN steps_ :
        /\ steps_[i].intent = intent
        /\ \A j \in 1..(i - 1) : steps_[j].intent # intent

IsAssertion(entry) == entry.form = "step" /\ entry.steps[1].by = "check"

---------------------------------------------------------------------------
(* A command.                                                              *)

Init ==
    /\ project \in Projects
    /\ file = project.file
    /\ phase = "idle"
    /\ spec = <<>> /\ replies = project.replies
    /\ page = Blank /\ covered = FALSE
    /\ old = <<>> /\ next = 1 /\ reused = <<>>
    /\ at = 1 /\ plan = <<>> /\ closed = FALSE /\ said = "none" /\ replans = 0
    /\ refused = {} /\ superseded = {} /\ steps = <<>> /\ from = 0
    /\ completed = <<>> /\ boundary = Blank /\ failure = NoFailure
    /\ repairing = FALSE /\ used = 0 /\ last = NoFailure /\ fresh = FALSE
    /\ trace = <<>> /\ checkpoint = <<>> /\ exit = "none" /\ commands = 0

\* The user edits the flow file between two commands.
Edit ==
    /\ phase = "idle"
    /\ commands > 0 /\ commands < project.commands
    /\ file' \in project.edits \ {file}
    /\ UNCHANGED <<recorder, project, repairing, used, last, fresh, trace, checkpoint, exit,
                   commands>>

\* resume_steps: the checkpoint's steps, or else those of the trace.
ResumeSteps ==
    IF checkpoint # <<>> THEN checkpoint
    ELSE IF trace # <<>> THEN trace[1].steps
    ELSE <<>>

\* record, record --resume, record --reuse.
Start ==
    /\ phase = "idle" /\ commands < project.commands
    /\ commands' = commands + 1
    /\ \/ /\ Recording(Expanded(file), project.replies, <<>>)
          /\ repairing' = project.repair
       \/ /\ commands > 0
          /\ Recording(Expanded(file), project.replies, ResumeSteps)
          /\ repairing' = project.repair
       \/ /\ trace # <<>>
          /\ Recording(Expanded(file), project.replies, trace[1].steps)
          /\ repairing' = FALSE
    /\ used' = 0 /\ last' = NoFailure /\ fresh' = FALSE /\ exit' = "none"
    /\ UNCHANGED <<project, file, trace, checkpoint>>

\* Every step passed: the trace is written over the one there was, unless the
\* store-guard finds what the flow asserts never leaks.
Store ==
    /\ phase = "author" /\ at > Len(spec)
    /\ \/ /\ phase' = "recorded"
          /\ trace' = <<[steps |-> completed, spec |-> spec]>>
          /\ UNCHANGED failure
       \/ /\ project.leaks
          /\ phase' = "failed"
          /\ failure' = [kind |-> "engine-gap", intent |-> "none"]
          /\ UNCHANGED trace
    /\ Returned
    /\ UNCHANGED <<spec, replies, at, kept, project, file, repairing, used, last, fresh,
                   checkpoint, exit, commands>>

\* The command ends; what it leaves of the file is for its caller to say.
Exit(code, left) ==
    /\ phase' = "idle"
    /\ exit' = code
    /\ checkpoint' = left
    /\ spec' = <<>> /\ at' = 1 /\ completed' = <<>> /\ boundary' = Blank
    /\ failure' = NoFailure
    /\ repairing' = FALSE /\ used' = 0 /\ last' = NoFailure /\ fresh' = FALSE
    /\ UNCHANGED <<replies, page, covered, reuse, stepping, steps, project, trace, commands>>

\* The checkpoint is removed; with --verify the trace must also replay.
Finish ==
    /\ phase = "recorded"
    /\ \E code \in {"pass", "error"} : Exit(code, <<>>)
    /\ UNCHANGED file

\* keep_checkpoint: a flow that asserts a secret does not leak leaves none.
KeepCheckpoint == Exit("error", IF project.leaks THEN <<>> ELSE completed)

---------------------------------------------------------------------------
(* Repair.                                                                 *)

\* A setup error is not repaired, but only the failure a loop starts from is
\* looked at: one that a repair brings about goes on as any other.
Repairs ==
    /\ phase = "failed" /\ repairing /\ project.model
    /\ failure.kind = "setup" => last # NoFailure

\* No repair was wanted, none can help, or there is no model to ask.
ReportFailure ==
    /\ phase = "failed" /\ ~Repairs
    /\ KeepCheckpoint
    /\ UNCHANGED file

\* The loop gets to ask: the failure names a step, and another one than last time.
Asks == Repairs /\ used < MaxAttempts /\ failure.intent # "none" /\ failure # last

\* The verdict that the flow is not at fault, the model's or the loop's own.
EngineGap ==
    /\ Repairs /\ used < MaxAttempts
    /\ used' = IF Asks THEN used + 1 ELSE used

\* A faulty variant: a fresh attempt may be followed by another.
RetryAgain ==
    /\ EngineGap
    /\ Recording(Expanded(file), project.replies, <<>>)
    /\ fresh' = TRUE
    /\ last' = NoFailure
    /\ UNCHANGED <<project, file, repairing, trace, checkpoint, exit, commands>>

\* fresh_record_attempt: once, over no earlier steps, with its own repairs if any
\* are left.
RetryFresh ==
    /\ ~fresh
    /\ EngineGap
    /\ Recording(Expanded(file), project.replies, <<>>)
    /\ fresh' = TRUE
    /\ last' = NoFailure
    /\ UNCHANGED <<project, file, repairing, trace, checkpoint, exit, commands>>

\* What an assertion expects is left alone; only its wait may be widened.
Patchable(n, patch) ==
    /\ n \in DOMAIN file
    /\ IsAssertion(file[n]) => patch = file[n]

\* The entry with the failing step's number is replaced.
Patched(patch) ==
    LET n == StepIndex(spec, failure.intent)
    IN  Patchable(n, patch) /\ file' = [file EXCEPT ![n] = patch]

\* A faulty variant: the rerun records the flow as it was before the patch.
PatchAndRerunOld ==
    /\ Asks
    /\ \E patch \in project.patches[failure.intent] :
        /\ Patched(patch)
        /\ Recording(spec, project.replies, completed)
    /\ used' = used + 1
    /\ last' = failure
    /\ UNCHANGED <<project, repairing, fresh, trace, checkpoint, exit, commands>>

\* run_repair_loop: the flow is patched, and recorded again over the steps that
\* passed.
PatchAndRerun ==
    /\ Asks
    /\ \E patch \in project.patches[failure.intent] :
        /\ Patched(patch)
        /\ Recording(Expanded(file'), project.replies, completed)
    /\ used' = used + 1
    /\ last' = failure
    /\ UNCHANGED <<project, repairing, fresh, trace, checkpoint, exit, commands>>

\* Nothing is left to try, or the patch cannot be had or applied.
GiveUp ==
    /\ Repairs
    /\ used >= MaxAttempts \/ fresh \/ Asks
    /\ KeepCheckpoint
    /\ UNCHANGED file

\* The patched flow does not load, or its application does not start: the file
\* stays patched.
PatchInVain ==
    /\ Asks
    /\ \E patch \in project.patches[failure.intent] : Patched(patch)
    /\ KeepCheckpoint

\* The report of the repairs cannot be written, or the fresh attempt cannot be
\* started: the command ends there.
BreakOff ==
    /\ \/ phase = "failed" /\ (Repairs \/ fresh)
       \/ phase = "recorded" /\ (used > 0 \/ fresh)
    /\ Exit("error", checkpoint)
    /\ UNCHANGED file

Ends == Store \/ Finish \/ ReportFailure \/ RetryFresh \/ PatchAndRerun \/ GiveUp
        \/ PatchInVain \/ BreakOff

Recorder == RecordStep /\ UNCHANGED command

Next ==
    \/ Recorder
    \/ Start \/ Store \/ Finish
    \/ ReportFailure \/ RetryFresh \/ PatchAndRerun \/ GiveUp \/ PatchInVain \/ BreakOff
    \/ Cover /\ UNCHANGED command
    \/ Edit

\* The command runs; the user, and what covers the page, need not.
Spec == Init /\ [][Next]_vars /\ WF_vars(Recorder) /\ WF_vars(Ends)

---------------------------------------------------------------------------
(* Properties.                                                             *)

\* keep_passed and the pruning of superseded writes (recorder.rs:4967-5010):
\* what is kept of a recording, replayed, finds on the page all that recording
\* found there and leaves it as recording left it, although the values the page
\* rejected are gone from it.
KeptReproduces == Redone(completed) = boundary

\* No two steps in a row read alike: two that do are one group to the cursor.
StepsReadApart ==
    \A i \in DOMAIN old : i # 1 /\ old[i].intent = old[i - 1].intent =>
        old[i].number = old[i - 1].number

\* Every group of earlier steps taken over is what one step of the earlier
\* recording did, and none is taken twice or out of order (ReuseCursor,
\* recorder.rs:1843-1906), as long as its steps read apart.
ReuseInOrder ==
    StepsReadApart =>
        /\ \A i \in DOMAIN reused : Cardinality(reused[i]) = 1
        /\ \A i, j \in DOMAIN reused : i < j => \A m \in reused[i], n \in reused[j] : m < n

\* A command that passes leaves the trace of the flow file as it then is, a
\* repaired one too (run_repair_loop, lib.rs:1713-1742).
PassMatchesFile ==
    [][exit' = "pass" /\ exit # "pass" => trace' # <<>> /\ trace'[1].spec = Expanded(file')]_vars

\* What a repair rewrites is the entry of the step that failed (find_step_index
\* and apply_patch, repair.rs:229-290).
RepairStaysPut ==
    [][(phase = "failed" /\ file' # file) =>
            \A i \in DOMAIN file : file'[i] # file[i] => i = EntryOf(file, at)]_vars

\* A command ends (cmd_record): its repairs and its fresh attempt are bounded,
\* as are the actions and the second looks of a step.
CommandEnds == (phase # "idle") ~> (phase = "idle")
=============================================================================
