---------------------------- MODULE SuiteJournal ----------------------------
(***************************************************************************)
(* `flowproof run <dir> --checkpoint <path> [--resume] [--stop-after F]`:  *)
(* several invocations of the suite runner that share one checkpoint       *)
(* journal (flowproof-cli/src/suite_journal.rs, suite_checkpoint.rs,       *)
(* suite_inputs.rs) and run the suite loop of lib.rs under it.  Processes  *)
(* crash, the machine loses power, every step of a save may fail, the      *)
(* operator removes stale lock files and edits the pinned inputs.          *)
(*                                                                         *)
(* The flow at position i of the manifest's `flows` is stage i.  A flow's  *)
(* exports are one value, its content abstract.                            *)
(***************************************************************************)
EXTENDS Naturals, Sequences

CONSTANTS N,           \* how many flows the suite selects
          Proc,        \* process ids: an invocation is a process, ids are reused
          Value,       \* what an operation may export
          Version,     \* contents of the pinned inputs (specs, traces, values)
          None         \* no file, no holder, no value

ASSUME NAssumption == N \in Nat \ {0}

Stages == 1..N

\* The journal: the claimed stage (0: none), the confirmed stages with their
\* exports, and the fingerprint of the inputs the checkpoint was made for.
Confirmed == [spec: Stages, val: Value]
Journal == [started: 0..N, confirmed: Seq(Confirmed), print: Version]

ASSUME NoneAssumption == None \notin Proc \cup Value \cup Version \cup Journal

VARIABLES
  disk,        \* the journal file, None when there is none
  images,      \* what a power loss may leave of the journal file
  lock,        \* the process that created <path>.lock, None when absent
  lockImages,  \* what a power loss may leave of the lock file
  tmp,         \* the processes whose <path>.<pid>.tmp is left in the directory
  inputs,      \* the pinned inputs as they are now
  proc,        \* the state of each process, see Running below
  ran,         \* the target system: the operations started, in order
  ranWith,     \* the inputs each of them was checked against
  made         \* what the operation of a stage that passed exported

lockVars == <<lock, lockImages>>
fileVars == <<disk, images, tmp>>
targetVars == <<ran, ranWith, made>>
vars == <<fileVars, lockVars, inputs, proc, targetVars>>
-----------------------------------------------------------------------------
\* The control points of an invocation that holds the lock.
Holding == {"open", "loop", "verify", "claim", "write", "rename", "sync",
            "operate", "running", "confirmed"}

Reports == {"failed", "errored", "blocked", "skipped"}

Process ==
  [pc: Holding \cup {"idle", "lock"},     \* what it does next
   ret: {"loop", "operate", "confirmed"}, \* where it goes when its save is done
   resume: BOOLEAN,                       \* --resume
   stop: 0..N,                            \* --stop-after, 0 when not given
   pin: Version \cup {None},              \* the fingerprint of its inputs
   checked: Version \cup {None},          \* the inputs its last check saw
   mem: Journal \cup {None},              \* its copy of the journal
   cursor: 1..(N + 1),                    \* the stage its loop is at
   env: [Stages -> Value \cup {None}],    \* exports in its environment
   paused: BOOLEAN,                       \* its --stop-after stage has passed
   reports: SUBSET Reports]               \* which reports it has pushed

Empty(v) == [started |-> 0, confirmed |-> <<>>, print |-> v]
NoExports == [s \in Stages |-> None]

\* A process at its beginning; with pc "idle", one that does not run.
Invocation(pc, resume, stop, pin) ==
  [pc |-> pc, ret |-> "loop", resume |-> resume, stop |-> stop, pin |-> pin,
   checked |-> None, mem |-> None, cursor |-> 1, env |-> NoExports,
   paused |-> FALSE, reports |-> {}]

Idle == Invocation("idle", FALSE, 0, None)

Init == /\ disk = None /\ images = {None}
        /\ lock = None /\ lockImages = {None}
        /\ tmp = {}
        /\ inputs \in Version
        /\ proc = [p \in Proc |-> Idle]
        /\ ran = <<>> /\ ranWith = <<>>
        /\ made = NoExports

At(p, pc) == proc[p].pc = pc
Become(p, q) == proc' = [proc EXCEPT ![p] = q]
Goto(p, pc) == Become(p, [proc[p] EXCEPT !.pc = pc])

\* Drop of the journal: the lock file goes, whoever created it.
Unlock == /\ lock' = None
          /\ lockImages' = lockImages \cup {None}

\* An error leaves the suite through `?`: nothing but the lock is undone.
Abort(p) == Unlock /\ Become(p, Idle)
-----------------------------------------------------------------------------
(* Opening *)

\* An invocation begins and fingerprints its inputs.
Start(p, r, s) ==
  /\ At(p, "idle")
  /\ Become(p, Invocation("lock", r, s, inputs))
  /\ UNCHANGED <<fileVars, lockVars, inputs, targetVars>>

\* create_new on <path>.lock: it fails when the file is there.
TakeLock(p) ==
  /\ At(p, "lock")
  /\ \/ /\ lock = None
        /\ lock' = p
        /\ lockImages' = lockImages \cup {p}
        /\ Goto(p, "open")
     \/ /\ lock # None
        /\ Become(p, Idle)
        /\ UNCHANGED lockVars
  /\ UNCHANGED <<fileVars, inputs, targetVars>>

\* (mutant) The stored fingerprint is not compared.
AcceptableForAnyInputs(j, v) ==
  /\ j.started = 0
  /\ \A i \in DOMAIN j.confirmed : j.confirmed[i].spec = i

\* A stored journal that --resume accepts: same inputs, nothing uncertain, the
\* confirmed stages a prefix of the selected ones.
Acceptable(j, v) ==
  /\ j.print = v
  /\ j.started = 0
  /\ \A i \in DOMAIN j.confirmed : j.confirmed[i].spec = i

Has(j, s) == \E i \in DOMAIN j.confirmed : j.confirmed[i].spec = s

\* --resume: read the journal and check it; a --stop-after stage that is
\* already confirmed is refused, and so is a file that cannot be read.
Resumable(p) == disk # None /\ Acceptable(disk, proc[p].pin) /\ ~Has(disk, proc[p].stop)

OpenResume(p) ==
  /\ At(p, "open") /\ proc[p].resume
  /\ \/ /\ Resumable(p)
        /\ Become(p, [proc[p] EXCEPT !.pc = "loop", !.mem = disk])
        /\ UNCHANGED lockVars
     \/ Abort(p)
  /\ UNCHANGED <<fileVars, inputs, targetVars>>

\* (mutant) A checkpoint that exists is overwritten.
OpenOver(p) ==
  /\ At(p, "open") /\ ~proc[p].resume
  /\ Become(p, [proc[p] EXCEPT !.pc = "write", !.ret = "loop", !.mem = Empty(proc[p].pin)])
  /\ UNCHANGED <<fileVars, lockVars, inputs, targetVars>>

\* No --resume: the path must be free, and an empty journal is saved there.  The
\* lock may also turn out not to be writable.
OpenFresh(p) ==
  /\ At(p, "open") /\ ~proc[p].resume
  /\ \/ /\ disk = None
        /\ Become(p, [proc[p] EXCEPT !.pc = "write", !.ret = "loop",
                                    !.mem = Empty(proc[p].pin)])
        /\ UNCHANGED lockVars
     \/ Abort(p)
  /\ UNCHANGED <<fileVars, inputs, targetVars>>
-----------------------------------------------------------------------------
(* Saving: temporary file, rename, directory sync; each may fail. *)

\* create_new, write and sync of <path>.<pid>.tmp.  A file left there by an
\* earlier process of the same id makes it fail; a failing write leaves it.
SaveWrite(p) ==
  /\ At(p, "write")
  /\ \/ /\ p \notin tmp
        /\ tmp' = tmp \cup {p}
        /\ Goto(p, "rename")
        /\ UNCHANGED lockVars
     \/ /\ tmp' \in {tmp, tmp \cup {p}}
        /\ Abort(p)
  /\ UNCHANGED <<disk, images, inputs, targetVars>>

SaveRename(p) ==
  /\ At(p, "rename")
  /\ \/ /\ disk' = proc[p].mem
        /\ images' = images \cup {proc[p].mem}
        /\ tmp' = tmp \ {p}
        /\ Goto(p, "sync")
        /\ UNCHANGED lockVars
     \/ /\ Abort(p)
        /\ UNCHANGED fileVars
  /\ UNCHANGED <<inputs, targetVars>>

\* (mutant) The directory is not synced after the rename.
SaveUnsynced(p) ==
  /\ At(p, "sync")
  /\ Goto(p, proc[p].ret)
  /\ UNCHANGED <<fileVars, lockVars, inputs, targetVars>>

\* The directory sync makes the current entries the only ones that survive.
SaveSync(p) ==
  /\ At(p, "sync")
  /\ \/ /\ images' = {disk}
        /\ lockImages' = {lock}
        /\ Goto(p, proc[p].ret)
        /\ UNCHANGED lock
     \/ /\ Abort(p)
        /\ UNCHANGED images
  /\ UNCHANGED <<disk, tmp, inputs, targetVars>>
-----------------------------------------------------------------------------
(* The loop over the selected specs *)

AtStage(p) == At(p, "loop") /\ proc[p].cursor <= N

ExportOf(j, s) == j.confirmed[CHOOSE i \in DOMAIN j.confirmed : j.confirmed[i].spec = s].val

\* The stage's exports become environment variables of the process.
Exporting(p) == [proc[p].env EXCEPT ![proc[p].cursor] = ExportOf(proc[p].mem, proc[p].cursor)]

\* (mutant) The exports of a resumed stage are not restored.
ResumedUnrestored(p) ==
  /\ AtStage(p)
  /\ Has(proc[p].mem, proc[p].cursor)
  /\ Become(p, [proc[p] EXCEPT !.cursor = @ + 1])
  /\ UNCHANGED <<fileVars, lockVars, inputs, targetVars>>

\* The stage was confirmed by an earlier invocation: its stored report is
\* pushed and its exports are restored; it is not executed.
Resumed(p) ==
  /\ AtStage(p)
  /\ Has(proc[p].mem, proc[p].cursor)
  /\ Become(p, [proc[p] EXCEPT !.env = Exporting(p), !.cursor = @ + 1])
  /\ UNCHANGED <<fileVars, lockVars, inputs, targetVars>>

\* A report that does not confirm the stage: the loop goes on to the next one.
Report(p, kind) ==
  /\ Become(p, [proc[p] EXCEPT !.pc = "loop", !.cursor = @ + 1, !.reports = @ \cup {kind}])
  /\ UNCHANGED <<fileVars, lockVars, inputs, targetVars>>

\* After the --stop-after stage, or after a failure, everything is blocked.
Stopped(p) == proc[p].paused \/ proc[p].reports \cap {"failed", "errored"} # {}

\* A stage whose prerequisite was skipped is blocked too; which stages depend on
\* which is left open.
Blocked(p) ==
  /\ AtStage(p)
  /\ ~Has(proc[p].mem, proc[p].cursor)
  /\ Stopped(p) \/ "skipped" \in proc[p].reports
  /\ Report(p, "blocked")

Runnable(p) == AtStage(p) /\ ~Has(proc[p].mem, proc[p].cursor) /\ ~Stopped(p)

\* The spec or the values no longer load: one errored report.
Unloadable(p) == /\ Runnable(p)
                 /\ inputs # proc[p].pin
                 /\ Report(p, "errored")

\* The trace is gone and missing traces are skipped (the default): the loop
\* goes on without ever reaching the boundary check.
TraceGone(p) == /\ Runnable(p)
                /\ inputs # proc[p].pin
                /\ Report(p, "skipped")

ReachBoundary(p) == /\ Runnable(p)
                    /\ Goto(p, "verify")
                    /\ UNCHANGED <<fileVars, lockVars, inputs, targetVars>>

\* The stage boundary: the pinned files and the environment are checked again.
VerifyStage(p) ==
  /\ At(p, "verify")
  /\ \/ /\ inputs = proc[p].pin
        /\ Become(p, [proc[p] EXCEPT !.pc = "claim", !.checked = inputs])
        /\ UNCHANGED lockVars
     \/ inputs # proc[p].pin /\ Abort(p)
  /\ UNCHANGED <<fileVars, inputs, targetVars>>

\* (mutant) Any stage may be claimed while none is.
MayClaimAny(j, s) == j.started = 0

\* Only the next unstarted stage may be claimed.
MayClaim(j, s) == j.started = 0 /\ s = Len(j.confirmed) + 1
Claimed(j, s) == [j EXCEPT !.started = s]

Claim(p) ==
  /\ At(p, "claim")
  /\ \/ /\ MayClaim(proc[p].mem, proc[p].cursor)
        /\ Become(p, [proc[p] EXCEPT !.pc = "write", !.ret = "operate",
                                    !.mem = Claimed(@, proc[p].cursor)])
        /\ UNCHANGED lockVars
     \/ ~MayClaim(proc[p].mem, proc[p].cursor) /\ Abort(p)
  /\ UNCHANGED <<fileVars, inputs, targetVars>>

\* The replay reaches the target system.
Operate(p) ==
  /\ At(p, "operate")
  /\ ran' = Append(ran, proc[p].cursor)
  /\ ranWith' = Append(ranWith, proc[p].checked)
  /\ Goto(p, "running")
  /\ UNCHANGED <<fileVars, lockVars, inputs, made>>

\* A failed report, or a fault before, during or after the replay.
NotPassed(p) ==
  \/ At(p, "running") /\ Report(p, "failed")
  \/ proc[p].pc \in {"operate", "running"} /\ Report(p, "errored")

\* A passing report with its exports: the claim becomes a confirmation.
Confirm(j, s, v) == [started |-> 0, print |-> j.print,
                     confirmed |-> Append(j.confirmed, [spec |-> s, val |-> v])]

Pass(p, v) ==
  /\ At(p, "running")
  /\ made' = [made EXCEPT ![proc[p].cursor] = v]
  /\ Become(p, [proc[p] EXCEPT !.pc = "write", !.ret = "confirmed",
                              !.mem = Confirm(@, proc[p].cursor, v)])
  /\ UNCHANGED <<fileVars, lockVars, inputs, ran, ranWith>>

\* The exports of a passing report are not those the spec declared at the
\* opening: the journal refuses to confirm the stage and the suite ends.
Refused(p) == /\ At(p, "running")
              /\ Abort(p)
              /\ UNCHANGED <<fileVars, inputs, targetVars>>

\* The confirmation is on disk: pause here if asked to, export, move on.
Export(p) ==
  /\ At(p, "confirmed")
  /\ Become(p, [proc[p] EXCEPT !.pc = "loop", !.env = Exporting(p), !.cursor = @ + 1,
                              !.paused = (proc[p].stop = proc[p].cursor)])
  /\ UNCHANGED <<fileVars, lockVars, inputs, targetVars>>

\* (mutant) A blocked stage does not fail the suite.
LenientVerdict(reports) == IF "errored" \in reports THEN "error"
                           ELSE IF "failed" \in reports THEN "fail" ELSE "pass"

\* The exit code.  A skipped report counts as passed; blocked ones are counted
\* apart.
Verdict(reports) == IF "errored" \in reports THEN "error"
                    ELSE IF reports \cap {"failed", "blocked"} # {} THEN "fail" ELSE "pass"

\* Every stage has its report: the suite exits with its verdict and drops the
\* journal.
Finish(p) ==
  /\ At(p, "loop") /\ proc[p].cursor > N
  /\ Unlock
  /\ Become(p, Idle)
  /\ UNCHANGED <<fileVars, inputs, targetVars>>
-----------------------------------------------------------------------------
(* The environment *)

\* A process is killed: its lock and its temporary file stay.
Crash(p) ==
  /\ ~At(p, "idle")
  /\ Become(p, Idle)
  /\ UNCHANGED <<fileVars, lockVars, inputs, targetVars>>

\* The machine goes down: directory entries changed since the last sync may be
\* the old ones or the new ones.
PowerLoss ==
  /\ disk' \in images /\ images' = {disk'}
  /\ lock' \in lockImages /\ lockImages' = {lock'}
  /\ tmp' \in SUBSET tmp
  /\ proc' = [p \in Proc |-> Idle]
  /\ UNCHANGED <<inputs, targetVars>>

\* The operator removes a lock whose process has stopped.
RemoveLock ==
  /\ lock # None
  /\ At(lock, "idle")
  /\ lock' = None
  /\ lockImages' = lockImages \cup {None}
  /\ UNCHANGED <<fileVars, inputs, proc, targetVars>>

\* Somebody edits, removes or restores a spec, a trace or a values file.
EditInputs ==
  /\ inputs' \in Version \ {inputs}
  /\ UNCHANGED <<fileVars, lockVars, proc, targetVars>>
-----------------------------------------------------------------------------
Step(p) == \/ TakeLock(p) \/ OpenResume(p) \/ OpenFresh(p)
           \/ SaveWrite(p) \/ SaveRename(p) \/ SaveSync(p)
           \/ Resumed(p) \/ Blocked(p) \/ Unloadable(p) \/ TraceGone(p)
           \/ ReachBoundary(p) \/ VerifyStage(p) \/ Claim(p)
           \/ Operate(p) \/ NotPassed(p) \/ (\E v \in Value : Pass(p, v))
           \/ Refused(p) \/ Export(p) \/ Finish(p)

Next == \/ \E p \in Proc : \/ \E r \in BOOLEAN, s \in 0..N : Start(p, r, s)
                           \/ Step(p)
                           \/ Crash(p)
        \/ PowerLoss \/ RemoveLock \/ EditInputs

Spec == Init /\ [][Next]_vars
-----------------------------------------------------------------------------
JournalOrNone == Journal \cup {None}

\* Every variable has its type.
TypeOK ==
  /\ disk \in JournalOrNone
  /\ images \subseteq JournalOrNone
  /\ lock \in Proc \cup {None}
  /\ lockImages \subseteq Proc \cup {None}
  /\ tmp \subseteq Proc
  /\ inputs \in Version
  /\ proc \in [Proc -> Process]
  /\ ran \in Seq(Stages)
  /\ ranWith \in Seq(Version)
  /\ made \in [Stages -> Value \cup {None}]

Files == images \cup {disk}
Passed == {s \in Stages : made[s] # None}

\* Lock (suite_journal.rs, Lock and Journal::open): however processes crash and
\* locks are removed by hand, at most one process is past the lock, and the
\* lock file on disk is its own.
LockExclusion == \A p \in Proc : proc[p].pc \in Holding => lock = p

\* begin saves before the operation starts: in every file a crash or a power
\* loss may leave, each operation that ever reached the target system is
\* confirmed or is the claimed one.
ClaimCoversOperation ==
  \A f \in Files : \A i \in DOMAIN ran :
    f # None /\ (Has(f, ran[i]) \/ f.started = ran[i])

\* complete is the only way out of a claim: whatever file is left, a confirmed
\* stage passed with exactly the exports the file holds, and no confirmed stage
\* is missing before another.
JournalTruthful ==
  \A f \in Files \ {None} : \A i \in DOMAIN f.confirmed :
    /\ f.confirmed[i].spec = i
    /\ i \in Passed
    /\ f.confirmed[i].val = made[i]

\* A stage whose outcome is uncertain (started, never passed) stays claimed in
\* every file, so that no later --resume clears or repeats it.
UncertainStaysClaimed ==
  \A i \in DOMAIN ran : ran[i] \notin Passed => \A f \in Files : f # None /\ f.started = ran[i]

\* Resume restores exports and a live stage exports them after its
\* confirmation: an operation finds what each earlier stage really exported.
ExportsRestored ==
  \A p \in Proc : proc[p].pc \in {"operate", "running"} =>
    \A s \in 1..(proc[p].cursor - 1) : made[s] # None /\ proc[p].env[s] = made[s]

\* Fingerprint and verify_stage: all operations of one checkpoint, in whatever
\* invocation they ran, were started from the same pinned inputs.
SameInputsThroughout == \A i, k \in DOMAIN ranWith : ranWith[i] = ranWith[k]

\* The suite exits PASS only when every stage is confirmed in the journal or
\* was reported skipped by this very invocation.
PassMeansConfirmed ==
  \A p \in Proc : (At(p, "loop") /\ proc[p].cursor > N
                   /\ Verdict(proc[p].reports) = "pass" /\ "skipped" \notin proc[p].reports)
     => \A s \in Stages : Has(disk, s)

\* docs/getting-started/suite-runs.md says of a checkpoint run that "the
\* incomplete suite exits nonzero" and that it "rechecks business inputs at
\* every stage boundary": no PASS while a stage of the checkpoint is pending.
PassIsComplete ==
  \A p \in Proc : (At(p, "loop") /\ proc[p].cursor > N /\ Verdict(proc[p].reports) = "pass")
     => \A s \in Stages : Has(disk, s)

-----------------------------------------------------------------------------
(* The inductive invariant behind the safety properties *)

\* A file that agrees with the target system: its confirmed stages are an
\* initial segment that passed, its claim is the next stage, nothing ran beyond
\* the confirmed and the claimed ones, and all of it from the same inputs.
Sound(f) ==
  IF f = None
  THEN ran = <<>> /\ ranWith = <<>>
  ELSE /\ \A i \in DOMAIN f.confirmed : /\ f.confirmed[i].spec = i
                                        /\ f.confirmed[i].val = made[i]
       /\ f.started \in {0, Len(f.confirmed) + 1}
       /\ Len(f.confirmed) <= Len(ran)
       /\ Len(ran) <= Len(f.confirmed) + (IF f.started = 0 THEN 0 ELSE 1)
       /\ \A i \in DOMAIN ranWith : ranWith[i] = f.print

Saving(p, ret) == proc[p].pc \in {"write", "rename", "sync"} /\ proc[p].ret = ret

\* What a process knows of the files and of the target system.
Informed(p) ==
  LET me == proc[p] IN
  /\ me.pc # "idle" => me.pin \in Version
  /\ me.pc \in {"lock", "open"} => me.cursor = 1
  \* Past the opening its copy of the journal is sound, it was made from the
  \* inputs the process pinned, and the exports of its stages are set.
  /\ me.pc \in Holding \ {"open"} =>
       /\ me.mem # None /\ Sound(me.mem)
       /\ me.mem.print = me.pin
       /\ \A s \in DOMAIN me.mem.confirmed : s < me.cursor => me.env[s] = made[s]
  \* Outside a save the copy is the file, and between a durable claim and the
  \* next save that file is the only one a power loss can leave.
  /\ me.pc \in Holding \ {"open", "write", "rename"} => disk = me.mem
  /\ me.pc \in {"operate", "running"} => images = {disk}
  \* The claim is for the stage at the cursor, which has not run before.
  /\ me.pc \in {"verify", "claim"} => me.cursor <= N
  /\ me.pc = "claim" \/ Saving(p, "operate") \/ me.pc = "operate" => me.checked = me.pin
  /\ Saving(p, "operate") \/ me.pc = "operate" =>
       me.mem.started = me.cursor /\ Len(ran) = Len(me.mem.confirmed)
  /\ me.pc = "running" => me.mem.started = me.cursor /\ Len(ran) = me.cursor
  /\ Saving(p, "confirmed") \/ me.pc = "confirmed" => Len(me.mem.confirmed) = me.cursor

\* Nothing is lost between the target system, the files and the processes.
Consistent ==
  /\ LockExclusion
  /\ \A f \in Files : Sound(f)
  /\ \A i \in DOMAIN ran : ran[i] = i
  /\ \A p \in Proc : Informed(p)

-----------------------------------------------------------------------------
\* The checkpoint as the target system sees it: each selected flow at most
\* once, in order, and only after the one before it passed.
Once == INSTANCE WorkflowOnce WITH passed <- Passed
OnceInOrder == Once!WSpec
=============================================================================
