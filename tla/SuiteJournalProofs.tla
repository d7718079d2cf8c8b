------------------------- MODULE SuiteJournalProofs -------------------------
(***************************************************************************)
(* Proofs about SuiteJournal, for every number of stages, every set of     *)
(* processes and every set of values: type correctness and the inductive   *)
(* invariant Consistent, and from them the safety properties.              *)
(***************************************************************************)
EXTENDS SuiteJournal, TLAPS

IInv == TypeOK /\ Consistent

(***************************************************************************)
(* Types.                                                                  *)
(***************************************************************************)
\* A process that has begun, or that does not run, has the type of a process.
LEMMA InvocationType ==
  ASSUME NEW pc \in {"idle", "lock"}, NEW r \in BOOLEAN, NEW s \in 0..N,
         NEW v \in Version \cup {None}
  PROVE  Invocation(pc, r, s, v) \in Process
  BY NAssumption DEF Invocation, Process, NoExports

LEMMA IdleType == Idle \in Process
  <1>1. 0 \in 0..N
    BY NAssumption
  <1> QED
    BY <1>1, InvocationType DEF Idle

\* The updates the actions make keep a process a process.
LEMMA PcType ==
  ASSUME NEW q \in Process, NEW x \in Holding
  PROVE  [q EXCEPT !.pc = x] \in Process
  BY DEF Process

LEMMA MemType ==
  ASSUME NEW q \in Process, NEW x \in Holding, NEW j \in Journal
  PROVE  [q EXCEPT !.pc = x, !.mem = j] \in Process
  BY DEF Process

LEMMA SaveType ==
  ASSUME NEW q \in Process, NEW x \in Holding, NEW r \in {"loop", "operate", "confirmed"},
         NEW j \in Journal
  PROVE  [q EXCEPT !.pc = x, !.ret = r, !.mem = j] \in Process
  BY DEF Process

LEMMA CheckedType ==
  ASSUME NEW q \in Process, NEW x \in Holding, NEW v \in Version
  PROVE  [q EXCEPT !.pc = x, !.checked = v] \in Process
  BY DEF Process

LEMMA RestoreType ==
  ASSUME NEW q \in Process, NEW e \in [Stages -> Value \cup {None}], NEW c \in 1..(N + 1)
  PROVE  [q EXCEPT !.env = e, !.cursor = c] \in Process
  BY DEF Process

LEMMA ReportType ==
  ASSUME NEW q \in Process, NEW x \in Holding, NEW c \in 1..(N + 1), NEW t \in SUBSET Reports
  PROVE  [q EXCEPT !.pc = x, !.cursor = c, !.reports = t] \in Process
  BY DEF Process

LEMMA ExportedType ==
  ASSUME NEW q \in Process, NEW x \in Holding, NEW e \in [Stages -> Value \cup {None}],
         NEW c \in 1..(N + 1), NEW b \in BOOLEAN
  PROVE  [q EXCEPT !.pc = x, !.env = e, !.cursor = c, !.paused = b] \in Process
  BY DEF Process

\* A step of one process gives it its next state and leaves the others alone.
LEMMA BecomeType ==
  ASSUME proc \in [Proc -> Process], NEW p \in Proc, NEW q \in Process, Become(p, q)
  PROVE  /\ proc' \in [Proc -> Process]
         /\ proc'[p] = q
         /\ \A r \in Proc \ {p} : proc'[r] = proc[r]
  BY DEF Become

\* The files, the processes and the target system agree at the start.
LEMMA InitIInv == Init => IInv
  <1> SUFFICES ASSUME Init PROVE IInv
    OBVIOUS
  <1> USE NAssumption, NoneAssumption
  <1>1. TypeOK
    BY IdleType DEF Init, TypeOK, JournalOrNone, NoExports
  <1>2. Consistent
    BY DEF Init, Consistent, LockExclusion, Files, Sound, Informed, Saving, Idle, Invocation, Holding
  <1> QED
    BY <1>1, <1>2 DEF IInv

\* The export of a stage the journal holds is a value.
LEMMA ExportType ==
  ASSUME NEW j \in Journal, NEW s \in Stages, Has(j, s)
  PROVE  ExportOf(j, s) \in Value
  <1> DEFINE i == CHOOSE k \in DOMAIN j.confirmed : j.confirmed[k].spec = s
  <1>1. i \in DOMAIN j.confirmed
    BY DEF Has
  <1>2. j.confirmed[i] \in Confirmed
    BY <1>1 DEF Journal
  <1> QED
    BY <1>2 DEF ExportOf, Confirmed

\* Confirming a stage gives a journal.
LEMMA ConfirmType ==
  ASSUME NEW j \in Journal, NEW s, NEW v,
         Append(j.confirmed, [spec |-> s, val |-> v]) \in Seq(Confirmed)
  PROVE  Confirm(j, s, v) \in Journal
  BY NAssumption DEF Confirm, Journal

\* Leaving keeps the types of what it changes.
LEMMA AbortType ==
  ASSUME TypeOK, NEW p \in Proc, Abort(p)
  PROVE  /\ proc' \in [Proc -> Process]
         /\ lock' \in Proc \cup {None}
         /\ lockImages' \subseteq Proc \cup {None}
  <1>1. proc \in [Proc -> Process] /\ Become(p, Idle)
    BY DEF TypeOK, Abort
  <1>2. proc' \in [Proc -> Process]
    BY <1>1, IdleType, BecomeType
  <1> QED
    BY <1>2 DEF TypeOK, Abort, Unlock

\* Every action of an invocation, and every event around it, keeps the types.
LEMMA TypeStep == IInv /\ [Next]_vars => TypeOK'
  <1> SUFFICES ASSUME IInv, [Next]_vars PROVE TypeOK'
    OBVIOUS
  <1>0. /\ TypeOK
        /\ proc \in [Proc -> Process]
        /\ \A p \in Proc : proc[p] \in Process
    BY DEF IInv, TypeOK
  <1>i. \A p \in Proc : Informed(p)
    BY DEF IInv, Consistent
  <1> USE NAssumption, NoneAssumption DEF fileVars, lockVars, targetVars
  <1>1. ASSUME NEW p \in Proc, NEW r \in BOOLEAN, NEW s \in 0..N, Start(p, r, s) PROVE TypeOK'
    <2>1. Invocation("lock", r, s, inputs) \in Process
      BY <1>0, InvocationType DEF TypeOK
    <2>2. proc' \in [Proc -> Process]
      BY <1>1, <1>0, <2>1, BecomeType DEF Start
    <2> QED
      BY <1>0, <1>1, <2>2 DEF Start, TypeOK
  <1>2. ASSUME NEW p \in Proc, TakeLock(p) PROVE TypeOK'
    <2>1. [proc[p] EXCEPT !.pc = "open"] \in Process
      BY <1>0 DEF Process, Holding
    <2>2. proc' \in [Proc -> Process]
      BY <1>2, <1>0, <2>1, IdleType, BecomeType DEF TakeLock, Goto
    <2> QED
      BY <1>0, <1>2, <2>2 DEF TakeLock, TypeOK
  <1>3. ASSUME NEW p \in Proc, OpenResume(p) PROVE TypeOK'
    <2>1. CASE Abort(p)
      BY <1>0, <1>3, <2>1, AbortType DEF OpenResume, TypeOK
    <2>2. CASE ~Abort(p)
      <3>0. Resumable(p)
        BY <1>3, <2>2 DEF OpenResume
      <3>1. disk \in Journal
        BY <1>0, <3>0 DEF Resumable, TypeOK, JournalOrNone
      <3>2. [proc[p] EXCEPT !.pc = "loop", !.mem = disk] \in Process
        BY <1>0, <3>1, MemType DEF Holding
      <3>3. proc' \in [Proc -> Process]
        BY <1>0, <1>3, <2>2, <3>2, BecomeType DEF OpenResume
      <3> QED
        BY <1>0, <1>3, <2>2, <3>3 DEF OpenResume, TypeOK
    <2> QED
      BY <2>1, <2>2
  <1>4. ASSUME NEW p \in Proc, OpenFresh(p) PROVE TypeOK'
    <2>1. CASE Abort(p)
      BY <1>0, <1>4, <2>1, AbortType DEF OpenFresh, TypeOK
    <2>2. CASE ~Abort(p)
      <3>1. proc[p].pin \in Version
        BY <1>4, <1>i DEF OpenFresh, Informed, At
      <3>2. Empty(proc[p].pin) \in Journal
        BY <3>1 DEF Empty, Journal
      <3>3. [proc[p] EXCEPT !.pc = "write", !.ret = "loop", !.mem = Empty(proc[p].pin)] \in Process
        BY <1>0, <3>2, SaveType DEF Holding
      <3>4. proc' \in [Proc -> Process]
        BY <1>0, <1>4, <2>2, <3>3, BecomeType DEF OpenFresh
      <3> QED
        BY <1>0, <1>4, <2>2, <3>4 DEF OpenFresh, TypeOK
    <2> QED
      BY <2>1, <2>2
  <1>5. ASSUME NEW p \in Proc, SaveWrite(p) PROVE TypeOK'
    <2>1. CASE Abort(p)
      BY <1>0, <1>5, <2>1, AbortType DEF SaveWrite, TypeOK
    <2>2. CASE ~Abort(p)
      <3>1. [proc[p] EXCEPT !.pc = "rename"] \in Process
        BY <1>0 DEF Process, Holding
      <3>2. proc' \in [Proc -> Process]
        BY <1>0, <1>5, <2>2, <3>1, BecomeType DEF SaveWrite, Goto
      <3> QED
        BY <1>0, <1>5, <2>2, <3>2 DEF SaveWrite, TypeOK
    <2> QED
      BY <2>1, <2>2
  <1>6. ASSUME NEW p \in Proc, SaveRename(p) PROVE TypeOK'
    <2>1. CASE Abort(p) /\ UNCHANGED fileVars
      BY <1>0, <1>6, <2>1, AbortType DEF SaveRename, TypeOK
    <2>2. CASE ~(Abort(p) /\ UNCHANGED fileVars)
      <3>1. [proc[p] EXCEPT !.pc = "sync"] \in Process
        BY <1>0 DEF Process, Holding
      <3>2. proc' \in [Proc -> Process]
        BY <1>0, <1>6, <2>2, <3>1, BecomeType DEF SaveRename, Goto
      <3>3. proc[p].mem \in JournalOrNone
        BY <1>0 DEF Process, JournalOrNone
      <3> QED
        BY <1>0, <1>6, <2>2, <3>2, <3>3 DEF SaveRename, TypeOK
    <2> QED
      BY <2>1, <2>2
  <1>7. ASSUME NEW p \in Proc, SaveSync(p) PROVE TypeOK'
    <2>1. CASE Abort(p)
      BY <1>0, <1>7, <2>1, AbortType DEF SaveSync, TypeOK
    <2>2. CASE ~Abort(p)
      <3>1. [proc[p] EXCEPT !.pc = proc[p].ret] \in Process
        BY <1>0 DEF Process, Holding
      <3>2. proc' \in [Proc -> Process]
        BY <1>0, <1>7, <2>2, <3>1, BecomeType DEF SaveSync, Goto
      <3> QED
        BY <1>0, <1>7, <2>2, <3>2 DEF SaveSync, TypeOK
    <2> QED
      BY <2>1, <2>2
  <1>8. ASSUME NEW p \in Proc, Resumed(p) PROVE TypeOK'
    <2>1. proc[p].cursor \in Stages /\ proc[p].cursor + 1 \in 1..(N + 1)
      BY <1>0, <1>8 DEF Resumed, AtStage, Process, Stages
    <2>2. proc[p].mem \in Journal
      BY <1>0, <1>i, <1>8 DEF Resumed, AtStage, At, Process, Informed, Holding
    <2>3. Exporting(p) \in [Stages -> Value \cup {None}]
      BY <1>0, <1>8, <2>1, <2>2, ExportType DEF Resumed, Exporting, Process
    <2>4. [proc[p] EXCEPT !.env = Exporting(p), !.cursor = @ + 1] \in Process
      BY <1>0, <2>1, <2>3, RestoreType
    <2>5. proc' \in [Proc -> Process]
      BY <1>0, <1>8, <2>4, BecomeType DEF Resumed
    <2> QED
      BY <1>0, <1>8, <2>5 DEF Resumed, TypeOK
  <1>9. ASSUME NEW p \in Proc, NEW kind \in Reports, proc[p].cursor <= N, Report(p, kind)
        PROVE  TypeOK'
    <2>1. proc[p].cursor + 1 \in 1..(N + 1) /\ proc[p].reports \cup {kind} \in SUBSET Reports
      BY <1>0, <1>9 DEF Process
    <2>2. [proc[p] EXCEPT !.pc = "loop", !.cursor = @ + 1, !.reports = @ \cup {kind}] \in Process
      BY <1>0, <2>1, ReportType DEF Holding
    <2>3. proc' \in [Proc -> Process]
      BY <1>0, <1>9, <2>2, BecomeType DEF Report
    <2> QED
      BY <1>0, <1>9, <2>3 DEF Report, TypeOK
  <1>10. ASSUME NEW p \in Proc, Blocked(p) \/ Unloadable(p) \/ TraceGone(p) PROVE TypeOK'
    BY <1>9, <1>10 DEF Blocked, Unloadable, TraceGone, Runnable, AtStage, Reports
  <1>11. ASSUME NEW p \in Proc, ReachBoundary(p) PROVE TypeOK'
    <2>1. proc' \in [Proc -> Process]
      BY <1>0, <1>11, PcType, BecomeType DEF ReachBoundary, Goto, Holding
    <2> QED
      BY <1>0, <1>11, <2>1 DEF ReachBoundary, TypeOK
  <1>12. ASSUME NEW p \in Proc, VerifyStage(p) PROVE TypeOK'
    <2>1. CASE inputs # proc[p].pin
      BY <1>0, <1>12, <2>1, AbortType DEF VerifyStage, TypeOK
    <2>2. CASE inputs = proc[p].pin
      <3>1. [proc[p] EXCEPT !.pc = "claim", !.checked = inputs] \in Process
        BY <1>0, CheckedType DEF TypeOK, Holding
      <3>2. proc' \in [Proc -> Process]
        BY <1>0, <1>12, <2>2, <3>1, BecomeType DEF VerifyStage
      <3> QED
        BY <1>0, <1>12, <2>2, <3>2 DEF VerifyStage, TypeOK
    <2> QED
      BY <2>1, <2>2
  <1>13. ASSUME NEW p \in Proc, Claim(p) PROVE TypeOK'
    <2>1. CASE ~MayClaim(proc[p].mem, proc[p].cursor)
      BY <1>0, <1>13, <2>1, AbortType DEF Claim, TypeOK
    <2>2. CASE MayClaim(proc[p].mem, proc[p].cursor)
      <3>1. proc[p].mem \in Journal
        BY <1>0, <1>i, <1>13 DEF Claim, At, Process, Informed, Holding
      <3>2. Claimed(proc[p].mem, proc[p].cursor) \in Journal
        <4>1. proc[p].cursor \in 0..N
          BY <1>0, <1>i, <1>13 DEF Claim, At, Process, Informed
        <4> QED
          BY <3>1, <4>1 DEF Claimed, Journal
      <3>3. [proc[p] EXCEPT !.pc = "write", !.ret = "operate",
                            !.mem = Claimed(@, proc[p].cursor)] \in Process
        BY <1>0, <3>2, SaveType DEF Holding
      <3>4. proc' \in [Proc -> Process]
        BY <1>0, <1>13, <2>2, <3>3, BecomeType DEF Claim
      <3> QED
        BY <1>0, <1>13, <2>2, <3>4 DEF Claim, TypeOK
    <2> QED
      BY <2>1, <2>2
  <1>14. ASSUME NEW p \in Proc, Operate(p) PROVE TypeOK'
    <2>1. proc' \in [Proc -> Process]
      BY <1>0, <1>14, PcType, BecomeType DEF Operate, Goto, Holding
    <2>2. proc[p].cursor \in Stages /\ proc[p].checked \in Version
      <3>1. /\ proc[p].mem \in Journal
            /\ proc[p].mem.started = proc[p].cursor
            /\ proc[p].checked = proc[p].pin
            /\ proc[p].pin \in Version
        BY <1>0, <1>i, <1>14 DEF Operate, At, Process, Informed, Holding
      <3> QED
        BY <1>0, <3>1 DEF Journal, Process, Stages
    <2>3. ran' \in Seq(Stages) /\ ranWith' \in Seq(Version)
      BY <1>0, <1>14, <2>2 DEF Operate, TypeOK
    <2> QED
      BY <1>0, <1>14, <2>1, <2>3 DEF Operate, TypeOK
  <1>15. ASSUME NEW p \in Proc, NotPassed(p) PROVE TypeOK'
    <2>1. /\ proc[p].mem \in Journal
          /\ proc[p].mem.started = proc[p].cursor
      BY <1>0, <1>i, <1>15 DEF NotPassed, At, Process, Informed, Holding
    <2>2. proc[p].cursor <= N
      BY <2>1 DEF Journal
    <2> QED
      BY <1>9, <1>15, <2>2 DEF NotPassed, Reports
  <1>16. ASSUME NEW p \in Proc, NEW v \in Value, Pass(p, v) PROVE TypeOK'
    <2>1. /\ proc[p].mem \in Journal
          /\ proc[p].mem.started = proc[p].cursor
      BY <1>0, <1>i, <1>16 DEF Pass, At, Process, Informed, Holding
    <2>2. proc[p].cursor \in Stages
      BY <1>0, <2>1 DEF Journal, Process, Stages
    <2>3. Confirm(proc[p].mem, proc[p].cursor, v) \in Journal
      <3>1. [spec |-> proc[p].cursor, val |-> v] \in Confirmed
        BY <2>2 DEF Confirmed
      <3>2. Append(proc[p].mem.confirmed, [spec |-> proc[p].cursor, val |-> v]) \in Seq(Confirmed)
        BY <2>1, <3>1 DEF Journal
      <3> QED
        BY <2>1, <3>2, ConfirmType
    <2>4. [proc[p] EXCEPT !.pc = "write", !.ret = "confirmed",
                          !.mem = Confirm(@, proc[p].cursor, v)] \in Process
      BY <1>0, <2>3, SaveType DEF Holding
    <2>5. proc' \in [Proc -> Process]
      BY <1>0, <1>16, <2>4, BecomeType DEF Pass
    <2>6. made' \in [Stages -> Value \cup {None}]
      BY <1>0, <1>16, <2>2 DEF Pass, TypeOK
    <2> QED
      BY <1>0, <1>16, <2>5, <2>6 DEF Pass, TypeOK
  <1>17. ASSUME NEW p \in Proc, Export(p) PROVE TypeOK'
    <2>1. /\ proc[p].mem \in Journal /\ Sound(proc[p].mem) /\ proc[p].mem # None
          /\ Len(proc[p].mem.confirmed) = proc[p].cursor
      BY <1>0, <1>i, <1>17 DEF Export, At, Process, Informed, Holding
    <2>2. proc[p].cursor \in DOMAIN proc[p].mem.confirmed
      BY <1>0, <2>1 DEF Journal, Process
    <2>3. proc[p].mem.confirmed[proc[p].cursor].spec = proc[p].cursor
      BY <2>1, <2>2 DEF Sound
    <2>4. proc[p].cursor \in Stages /\ Has(proc[p].mem, proc[p].cursor)
      <3>1. proc[p].mem.confirmed[proc[p].cursor] \in Confirmed
        BY <2>1, <2>2 DEF Journal
      <3> QED
        BY <2>2, <2>3, <3>1 DEF Confirmed, Has
    <2>5. Exporting(p) \in [Stages -> Value \cup {None}]
      BY <1>0, <2>1, <2>4, ExportType DEF Exporting, Process
    <2>6. proc[p].cursor + 1 \in 1..(N + 1) /\ (proc[p].stop = proc[p].cursor) \in BOOLEAN
      BY <2>4 DEF Stages
    <2>7. [proc[p] EXCEPT !.pc = "loop", !.env = Exporting(p), !.cursor = @ + 1,
                          !.paused = (proc[p].stop = proc[p].cursor)] \in Process
      BY <1>0, <2>5, <2>6, ExportedType DEF Holding
    <2>8. proc' \in [Proc -> Process]
      BY <1>0, <1>17, <2>7, BecomeType DEF Export
    <2> QED
      BY <1>0, <1>17, <2>8 DEF Export, TypeOK
  <1>18. ASSUME NEW p \in Proc, Finish(p) \/ Refused(p) PROVE TypeOK'
    BY <1>0, <1>18, AbortType DEF Finish, Refused, Abort, TypeOK
  <1>19. ASSUME NEW p \in Proc, Crash(p) PROVE TypeOK'
    <2>1. proc' \in [Proc -> Process]
      BY <1>0, <1>19, IdleType, BecomeType DEF Crash
    <2> QED
      BY <1>0, <1>19, <2>1 DEF Crash, TypeOK
  <1>20. ASSUME PowerLoss PROVE TypeOK'
    <2>1. proc' \in [Proc -> Process]
      BY <1>20, IdleType DEF PowerLoss
    <2> QED
      BY <1>0, <1>20, <2>1 DEF PowerLoss, TypeOK
  <1>21. ASSUME RemoveLock \/ EditInputs PROVE TypeOK'
    BY <1>0, <1>21 DEF RemoveLock, EditInputs, TypeOK
  <1>22. ASSUME UNCHANGED vars PROVE TypeOK'
    BY <1>0, <1>22 DEF vars, TypeOK
  <1> QED
    BY <1>1, <1>2, <1>3, <1>4, <1>5, <1>6, <1>7, <1>8, <1>10, <1>11, <1>12, <1>13, <1>14,
       <1>15, <1>16, <1>17, <1>18, <1>19, <1>20, <1>21, <1>22 DEF Next, Step

(***************************************************************************)
(* Consistent is preserved.                                                *)
(***************************************************************************)
\* While a process holds the lock, no other one does.
LEMMA Alone ==
  ASSUME IInv, NEW p \in Proc, proc[p].pc \in Holding, NEW q \in Proc \ {p}
  PROVE  /\ proc[q].pc \notin Holding
         /\ proc[q].pc # "idle" => proc[q].pin \in Version
         /\ proc[q].pc = "lock" => proc[q].cursor = 1
  BY DEF IInv, Consistent, LockExclusion, Informed

\* The files and the target system stay sound when they do not change.
LEMMA SoundFrame ==
  ASSUME UNCHANGED targetVars, NEW f
  PROVE  Sound(f)' <=> Sound(f)
  BY DEF targetVars, Sound

LEMMA InformedFrame ==
  ASSUME UNCHANGED <<disk, images, targetVars>>, NEW q \in Proc, proc'[q] = proc[q]
  PROVE  Informed(q)' <=> Informed(q)
  BY DEF targetVars, Sound, Informed, Saving

\* A process that does not hold the lock claims nothing of the files.
LEMMA Uninvolved ==
  ASSUME NEW q \in Proc,
         proc'[q].pc \notin Holding,
         proc'[q].pc # "idle" => proc'[q].pin \in Version,
         proc'[q].pc = "lock" => proc'[q].cursor = 1
  PROVE  Informed(q)'
  BY DEF Informed, Saving, Holding

\* What is left to show of a step of the process that holds the lock.
LEMMA HolderStep ==
  ASSUME IInv, NEW p \in Proc, proc[p].pc \in Holding,
         \A q \in Proc \ {p} : proc'[q] = proc[q],
         proc'[p].pc \in Holding => lock' = lock,
         \A f \in Files' : Sound(f)',
         \A i \in DOMAIN ran' : ran'[i] = i,
         Informed(p)'
  PROVE  Consistent'
  <1>1. ASSUME NEW q \in Proc \ {p} PROVE proc'[q].pc \notin Holding /\ Informed(q)'
    <2>1. /\ proc[q].pc \notin Holding
          /\ proc[q].pc # "idle" => proc[q].pin \in Version
          /\ proc[q].pc = "lock" => proc[q].cursor = 1
      BY Alone
    <2>2. proc'[q] = proc[q]
      OBVIOUS
    <2>3. Informed(q)'
      BY <2>1, <2>2, Uninvolved
    <2> QED
      BY <2>1, <2>2, <2>3
  <1>3. LockExclusion'
    BY <1>1 DEF IInv, Consistent, LockExclusion
  <1> QED
    BY <1>1, <1>3 DEF Consistent

\* Leaving on an error.
LEMMA AbortStep ==
  ASSUME IInv, NEW p \in Proc, proc[p].pc \in Holding, Abort(p),
         UNCHANGED <<disk, images, targetVars>>
  PROVE  Consistent'
  <1>1. proc \in [Proc -> Process] /\ Become(p, Idle)
    BY DEF IInv, TypeOK, Abort
  <1>2. proc'[p] = Idle /\ \A q \in Proc \ {p} : proc'[q] = proc[q]
    BY <1>1, IdleType, BecomeType
  <1>3. proc'[p].pc = "idle"
    BY <1>2 DEF Idle, Invocation
  <1>4. Informed(p)'
    BY <1>3 DEF Informed, Saving, Holding
  <1>5. \A f \in Files' : Sound(f)'
    BY SoundFrame DEF IInv, Consistent, Files
  <1>6. \A i \in DOMAIN ran' : ran'[i] = i
    BY DEF IInv, Consistent, targetVars
  <1> QED
    BY <1>2, <1>3, <1>4, <1>5, <1>6, HolderStep DEF Holding

\* A step of the holder that touches neither the files nor the target system.
LEMMA QuietStep ==
  ASSUME IInv, NEW p \in Proc, proc[p].pc \in Holding,
         NEW n \in Process, Become(p, n),
         UNCHANGED <<disk, images, lock, targetVars>>,
         Informed(p)'
  PROVE  Consistent'
  <1>1. \A q \in Proc \ {p} : proc'[q] = proc[q]
    BY BecomeType DEF IInv, TypeOK
  <1>2. \A f \in Files' : Sound(f)'
    BY SoundFrame DEF IInv, Consistent, Files
  <1>3. \A i \in DOMAIN ran' : ran'[i] = i
    BY DEF IInv, Consistent, targetVars
  <1> QED
    BY <1>1, <1>2, <1>3, HolderStep

\* The export a sound journal holds for a stage is what its operation exported.
LEMMA ExportValue ==
  ASSUME NEW j \in Journal, Sound(j), NEW s, Has(j, s)
  PROVE  s \in DOMAIN j.confirmed /\ ExportOf(j, s) = made[s]
  <1> DEFINE i == CHOOSE k \in DOMAIN j.confirmed : j.confirmed[k].spec = s
  <1>1. i \in DOMAIN j.confirmed /\ j.confirmed[i].spec = s
    BY DEF Has
  <1>2. j # None
    BY NoneAssumption
  <1>3. i = s /\ j.confirmed[i].val = made[i]
    BY <1>1, <1>2 DEF Sound
  <1> QED
    BY <1>1, <1>3 DEF ExportOf

\* A report that does not confirm its stage.
LEMMA ReportStep ==
  ASSUME IInv, NEW p \in Proc, NEW kind \in Reports, Report(p, kind),
         proc[p].pc \in {"loop", "operate", "running"},
         proc[p].cursor <= N, proc[p].cursor \notin DOMAIN proc[p].mem.confirmed
  PROVE  Consistent'
  <1>0. proc \in [Proc -> Process] /\ proc[p] \in Process /\ Informed(p) /\ proc[p].pc \in Holding
    BY DEF IInv, TypeOK, Consistent, Holding
  <1> DEFINE n == [proc[p] EXCEPT !.pc = "loop", !.cursor = @ + 1, !.reports = @ \cup {kind}]
  <1>1. PICK m : m = proc[p].mem
    OBVIOUS
  <1>2. proc[p].cursor + 1 \in 1..(N + 1) /\ proc[p].reports \cup {kind} \in SUBSET Reports
    BY <1>0, NAssumption DEF Process
  <1>3. n \in Process
    BY <1>0, <1>2, ReportType DEF Holding
  <1>4. Become(p, n)
    BY DEF Report
  <1>5. /\ proc'[p].pc = "loop" /\ proc'[p].mem = m /\ proc'[p].pin = proc[p].pin
        /\ proc'[p].cursor = proc[p].cursor + 1 /\ proc'[p].env = proc[p].env
    BY <1>0, <1>1, <1>4 DEF Become, Process
  <1>6. /\ disk = m /\ m # None /\ Sound(m) /\ m.print = proc[p].pin /\ proc[p].pin \in Version
        /\ \A s \in DOMAIN m.confirmed : s < proc[p].cursor => proc[p].env[s] = made[s]
    BY <1>0, <1>1 DEF Informed, Holding
  <1>7. UNCHANGED <<disk, images, lock, targetVars>>
    BY DEF Report, fileVars, lockVars
  <1>8. Sound(m)' /\ made' = made
    BY <1>6, <1>7, SoundFrame DEF targetVars
  <1>9. \A s \in DOMAIN m.confirmed : s < proc[p].cursor + 1 => proc[p].env[s] = made[s]
    <2>1. m \in Journal /\ proc[p].cursor \in Nat
      BY <1>0, <1>1, <1>6 DEF Process
    <2>2. \A s \in DOMAIN m.confirmed : s \in Nat /\ s # proc[p].cursor
      BY <1>1, <2>1 DEF Journal
    <2> QED
      BY <1>6, <2>1, <2>2
  <1>10. Informed(p)'
    BY <1>5, <1>6, <1>7, <1>8, <1>9 DEF Informed, Saving, Holding
  <1> QED
    BY <1>0, <1>3, <1>4, <1>7, <1>10, QuietStep

LEMMA ConsistentStep == IInv /\ [Next]_vars => Consistent'
  <1> SUFFICES ASSUME IInv, [Next]_vars PROVE Consistent'
    OBVIOUS
  <1>0. /\ TypeOK
        /\ proc \in [Proc -> Process]
        /\ \A p \in Proc : proc[p] \in Process
        /\ \A p \in Proc : Informed(p)
    BY DEF IInv, TypeOK, Consistent
  <1> USE NAssumption, NoneAssumption DEF fileVars, lockVars
  <1>1. ASSUME NEW p \in Proc, NEW r \in BOOLEAN, NEW s \in 0..N, Start(p, r, s) PROVE Consistent'
    <2>1. /\ proc'[p] = Invocation("lock", r, s, inputs)
          /\ \A q \in Proc \ {p} : proc'[q] = proc[q]
      BY <1>0, <1>1 DEF Start, Become
    <2>2. proc'[p].pc = "lock" /\ proc'[p].pin = inputs /\ proc'[p].cursor = 1
      BY <2>1 DEF Invocation
    <2>3. Informed(p)'
      BY <1>0, <2>2 DEF TypeOK, Informed, Saving, Holding
    <2>4. \A q \in Proc : Informed(q)'
      BY <1>0, <1>1, <2>1, <2>3, InformedFrame DEF Start
    <2>5. LockExclusion'
      BY <1>1, <2>1, <2>2 DEF IInv, Consistent, LockExclusion, Start, Holding
    <2>6. \A f \in Files' : Sound(f)'
      BY <1>1, SoundFrame DEF IInv, Consistent, Files, Start
    <2> QED
      BY <1>1, <2>4, <2>5, <2>6 DEF IInv, Consistent, Start, targetVars
  <1>2. ASSUME NEW p \in Proc, TakeLock(p) PROVE Consistent'
    <2>1. \A f \in Files' : Sound(f)'
      BY <1>2, SoundFrame DEF IInv, Consistent, Files, TakeLock
    <2>2. \A i \in DOMAIN ran' : ran'[i] = i
      BY <1>2 DEF IInv, Consistent, TakeLock, targetVars
    <2>3. \A q \in Proc \ {p} : proc'[q] = proc[q]
      BY <1>0, <1>2 DEF TakeLock, Goto, Become
    <2>4. \A q \in Proc \ {p} : Informed(q)'
      BY <1>0, <1>2, <2>3, InformedFrame DEF TakeLock
    <2>5. proc[p].pin \in Version /\ proc[p].cursor = 1
      BY <1>0, <1>2 DEF TakeLock, At, Informed
    <2>6. CASE lock = None
      <3>1. proc'[p].pc = "open" /\ proc'[p].pin = proc[p].pin /\ proc'[p].cursor = 1
        BY <1>0, <1>2, <2>5, <2>6 DEF TakeLock, Goto, Become, Process
      <3>2. Informed(p)'
        BY <2>5, <3>1 DEF Informed, Saving, Holding
      <3>3. LockExclusion'
        BY <1>2, <2>3, <2>6 DEF IInv, Consistent, LockExclusion, TakeLock
      <3> QED
        BY <2>1, <2>2, <2>4, <3>2, <3>3 DEF Consistent
    <2>7. CASE lock # None
      <3>1. proc'[p].pc = "idle"
        BY <1>0, <1>2, <2>7 DEF TakeLock, Become, Idle, Invocation
      <3>2. Informed(p)'
        BY <3>1 DEF Informed, Saving, Holding
      <3>3. LockExclusion'
        BY <1>2, <2>3, <2>7, <3>1 DEF IInv, Consistent, LockExclusion, TakeLock, Holding
      <3> QED
        BY <2>1, <2>2, <2>4, <3>2, <3>3 DEF Consistent
    <2> QED
      BY <2>6, <2>7
  <1>3. ASSUME NEW p \in Proc, OpenResume(p) PROVE Consistent'
    <2>1. proc[p].pc \in Holding /\ proc[p].pin \in Version /\ proc[p].cursor = 1
      BY <1>0, <1>3 DEF OpenResume, At, Holding, Informed
    <2>2. CASE Abort(p)
      BY <1>3, <2>1, <2>2, AbortStep DEF OpenResume
    <2>3. CASE ~Abort(p)
      <3>0. Resumable(p)
        BY <1>3, <2>3 DEF OpenResume
      <3>1. disk \in Journal /\ disk # None /\ disk.print = proc[p].pin /\ Sound(disk)
        BY <1>0, <3>0 DEF Resumable, Acceptable, TypeOK, JournalOrNone, IInv, Consistent, Files
      <3>2. [proc[p] EXCEPT !.pc = "loop", !.mem = disk] \in Process
        BY <1>0, <3>1, MemType DEF Holding
      <3>3. Become(p, [proc[p] EXCEPT !.pc = "loop", !.mem = disk])
        BY <1>3, <2>3 DEF OpenResume
      <3>4. /\ proc'[p].pc = "loop" /\ proc'[p].mem = disk
            /\ proc'[p].pin = proc[p].pin /\ proc'[p].cursor = proc[p].cursor
        BY <1>0, <3>3 DEF Become, Process
      <3>5. Informed(p)'
        <4>1. Sound(disk)' /\ disk' = disk
          BY <1>3, <3>1 DEF OpenResume, targetVars, Sound
        <4> QED
          BY <2>1, <3>1, <3>4, <4>1 DEF Informed, Saving, Holding, Journal
      <3> QED
        BY <1>3, <2>1, <2>3, <3>2, <3>3, <3>5, QuietStep DEF OpenResume
    <2> QED
      BY <2>2, <2>3
  <1>4. ASSUME NEW p \in Proc, OpenFresh(p) PROVE Consistent'
    <2>1. proc[p].pc \in Holding /\ proc[p].pin \in Version /\ proc[p].cursor = 1
      BY <1>0, <1>4 DEF OpenFresh, At, Holding, Informed
    <2>2. CASE Abort(p)
      BY <1>4, <2>1, <2>2, AbortStep DEF OpenFresh
    <2>3. CASE ~Abort(p)
      <3>0. PICK j : j = Empty(proc[p].pin)
        OBVIOUS
      <3> DEFINE n == [proc[p] EXCEPT !.pc = "write", !.ret = "loop", !.mem = j]
      <3>1. j \in Journal /\ j.started = 0 /\ j.confirmed = <<>> /\ j.print = proc[p].pin
        BY <2>1, <3>0 DEF Empty, Journal
      <3>2. n \in Process
        BY <1>0, <3>1, SaveType DEF Holding
      <3>3. Become(p, n)
        BY <1>4, <2>3, <3>0 DEF OpenFresh
      <3>4. /\ proc'[p].pc = "write" /\ proc'[p].ret = "loop" /\ proc'[p].mem = j
            /\ proc'[p].pin = proc[p].pin /\ proc'[p].cursor = proc[p].cursor
        BY <1>0, <3>3 DEF Become, Process
      <3>5. ran' = <<>> /\ ranWith' = <<>>
        BY <1>4, <2>3 DEF OpenFresh, IInv, Consistent, Files, Sound, targetVars
      <3>6. j # None
        BY <3>1, NoneAssumption
      <3>7. Sound(j)'
        <4>1. Len(j.confirmed) = 0 /\ DOMAIN j.confirmed = {} /\ Len(ran') = 0 /\ DOMAIN ranWith' = {}
          BY <3>1, <3>5
        <4> QED
          BY <3>1, <3>6, <4>1 DEF Sound
      <3>8. Informed(p)'
        BY <2>1, <3>1, <3>4, <3>6, <3>7 DEF Informed, Saving, Holding
      <3> QED
        BY <1>4, <2>1, <2>3, <3>2, <3>3, <3>8, QuietStep DEF OpenFresh
    <2> QED
      BY <2>2, <2>3
  <1>5. ASSUME NEW p \in Proc, SaveWrite(p) PROVE Consistent'
    <2>1. proc[p].pc = "write" /\ proc[p].pc \in Holding
      BY <1>5 DEF SaveWrite, At, Holding
    <2>2. CASE Abort(p)
      BY <1>5, <2>1, <2>2, AbortStep DEF SaveWrite
    <2>3. CASE ~Abort(p)
      <3>1. Become(p, [proc[p] EXCEPT !.pc = "rename"]) /\ UNCHANGED <<disk, images, lock, targetVars>>
        BY <1>5, <2>3 DEF SaveWrite, Goto
      <3>2. [proc[p] EXCEPT !.pc = "rename"] \in Process
        BY <1>0, PcType DEF Holding
      <3>3. PICK m : m = proc[p].mem
        OBVIOUS
      <3>4. /\ proc'[p].pc = "rename" /\ proc'[p].mem = m
            /\ proc'[p].pin = proc[p].pin /\ proc'[p].cursor = proc[p].cursor
            /\ proc'[p].env = proc[p].env /\ proc'[p].ret = proc[p].ret
            /\ proc'[p].checked = proc[p].checked
        BY <1>0, <3>1, <3>3 DEF Become, Process
      <3>5. Sound(m)' <=> Sound(m)
        BY <3>1, SoundFrame
      <3>6. Informed(p)'
        BY <1>0, <2>1, <3>1, <3>3, <3>4, <3>5 DEF Informed, Saving, Holding, targetVars
      <3> QED
        BY <2>1, <3>1, <3>2, <3>6, QuietStep
    <2> QED
      BY <2>2, <2>3
  <1>6. ASSUME NEW p \in Proc, SaveRename(p) PROVE Consistent'
    <2>1. proc[p].pc = "rename" /\ proc[p].pc \in Holding
      BY <1>6 DEF SaveRename, At, Holding
    <2>2. CASE Abort(p) /\ UNCHANGED fileVars
      BY <1>6, <2>1, <2>2, AbortStep DEF SaveRename
    <2>3. CASE ~(Abort(p) /\ UNCHANGED fileVars)
      <3>1. PICK m : m = proc[p].mem
        OBVIOUS
      <3>2. /\ Become(p, [proc[p] EXCEPT !.pc = "sync"])
            /\ UNCHANGED <<lock, targetVars>>
            /\ disk' = m /\ images' = images \cup {m}
        BY <1>6, <2>3, <3>1 DEF SaveRename, Goto
      <3>3. [proc[p] EXCEPT !.pc = "sync"] \in Process
        BY <1>0, PcType DEF Holding
      <3>4. /\ proc'[p].pc = "sync" /\ proc'[p].mem = m
            /\ proc'[p].pin = proc[p].pin /\ proc'[p].cursor = proc[p].cursor
            /\ proc'[p].env = proc[p].env /\ proc'[p].ret = proc[p].ret
            /\ proc'[p].checked = proc[p].checked
        BY <1>0, <3>1, <3>2 DEF Become, Process
      <3>5. Sound(m) /\ m # None
        BY <1>0, <2>1, <3>1 DEF Informed, Holding
      <3>6. Sound(m)'
        BY <3>2, <3>5, SoundFrame
      <3>7. Informed(p)'
        BY <1>0, <2>1, <3>1, <3>2, <3>4, <3>5, <3>6 DEF Informed, Saving, Holding, targetVars
      <3>8. \A f \in Files' : Sound(f)'
        <4>1. \A f \in images : Sound(f)
          BY DEF IInv, Consistent, Files
        <4> QED
          BY <3>2, <3>6, <4>1, SoundFrame DEF Files
      <3>9. \A i \in DOMAIN ran' : ran'[i] = i
        BY <3>2 DEF IInv, Consistent, targetVars
      <3> QED
        BY <1>0, <2>1, <3>2, <3>3, <3>7, <3>8, <3>9, HolderStep, BecomeType
    <2> QED
      BY <2>2, <2>3
  <1>7. ASSUME NEW p \in Proc, SaveSync(p) PROVE Consistent'
    <2>1. proc[p].pc = "sync" /\ proc[p].pc \in Holding
      BY <1>7 DEF SaveSync, At, Holding
    <2>2. CASE Abort(p) /\ UNCHANGED images
      BY <1>7, <2>1, <2>2, AbortStep DEF SaveSync
    <2>3. CASE ~(Abort(p) /\ UNCHANGED images)
      <3>1. PICK m : m = proc[p].mem
        OBVIOUS
      <3>2. /\ Become(p, [proc[p] EXCEPT !.pc = proc[p].ret])
            /\ UNCHANGED <<disk, lock, targetVars>>
            /\ images' = {disk}
        BY <1>7, <2>3 DEF SaveSync, Goto
      <3>3. proc[p].ret \in {"loop", "operate", "confirmed"}
        BY <1>0 DEF Process
      <3>4. [proc[p] EXCEPT !.pc = proc[p].ret] \in Process
        BY <1>0, <3>3, PcType DEF Holding
      <3>5. /\ proc'[p].pc = proc[p].ret /\ proc'[p].mem = m
            /\ proc'[p].pin = proc[p].pin /\ proc'[p].cursor = proc[p].cursor
            /\ proc'[p].env = proc[p].env /\ proc'[p].checked = proc[p].checked
        BY <1>0, <3>1, <3>2 DEF Become, Process
      <3>6. disk = m /\ Sound(m)
        BY <1>0, <2>1, <3>1 DEF Informed, Holding
      <3>7. Sound(m)'
        BY <3>2, <3>6, SoundFrame
      <3>8. Informed(p)'
        BY <1>0, <2>1, <3>1, <3>2, <3>3, <3>5, <3>6, <3>7 DEF Informed, Saving, Holding, targetVars
      <3>9. \A f \in Files' : Sound(f)'
        BY <3>2, <3>6, <3>7 DEF Files
      <3>10. \A i \in DOMAIN ran' : ran'[i] = i
        BY <3>2 DEF IInv, Consistent, targetVars
      <3> QED
        BY <1>0, <2>1, <3>2, <3>4, <3>8, <3>9, <3>10, HolderStep, BecomeType
    <2> QED
      BY <2>2, <2>3
  <1>8. ASSUME NEW p \in Proc, Resumed(p) PROVE Consistent'
    <2>1. proc[p].pc = "loop" /\ proc[p].pc \in Holding /\ proc[p].cursor \in Stages
      BY <1>0, <1>8 DEF Resumed, AtStage, At, Holding, Process, Stages
    <2>2. PICK m : m = proc[p].mem
      OBVIOUS
    <2>3. PICK e : e = Exporting(p)
      OBVIOUS
    <2>4. /\ m \in Journal /\ m # None /\ Sound(m) /\ m.print = proc[p].pin
          /\ disk = m /\ proc[p].pin \in Version
          /\ \A s \in DOMAIN m.confirmed : s < proc[p].cursor => proc[p].env[s] = made[s]
      BY <1>0, <2>1, <2>2 DEF Informed, Holding, Process
    <2>5. Has(m, proc[p].cursor)
      BY <1>8, <2>2 DEF Resumed
    <2>6. e \in [Stages -> Value \cup {None}]
      BY <1>0, <2>1, <2>2, <2>3, <2>4, <2>5, ExportType DEF Exporting, Process
    <2>7. \A s \in DOMAIN m.confirmed : s < proc[p].cursor + 1 => e[s] = made[s]
      <3>1. ExportOf(m, proc[p].cursor) = made[proc[p].cursor]
        BY <2>4, <2>5, ExportValue
      <3>2. e[proc[p].cursor] = made[proc[p].cursor]
        BY <1>0, <2>1, <2>2, <2>3, <3>1 DEF Exporting, Process
      <3>3. \A s \in DOMAIN m.confirmed : s # proc[p].cursor => e[s] = proc[p].env[s]
        BY <1>0, <2>1, <2>3 DEF Exporting, Process
      <3>4. \A s \in DOMAIN m.confirmed : s \in Nat
        BY <2>4 DEF Journal
      <3> QED
        BY <2>1, <2>4, <3>2, <3>3, <3>4 DEF Stages
    <2>8. Become(p, [proc[p] EXCEPT !.env = e, !.cursor = @ + 1])
          /\ UNCHANGED <<disk, images, lock, targetVars>>
      BY <1>8, <2>3 DEF Resumed
    <2>9. [proc[p] EXCEPT !.env = e, !.cursor = @ + 1] \in Process
      <3>1. proc[p].cursor + 1 \in 1..(N + 1)
        BY <2>1 DEF Stages
      <3> QED
        BY <1>0, <2>6, <3>1, RestoreType
    <2>10. /\ proc'[p].pc = "loop" /\ proc'[p].mem = m /\ proc'[p].pin = proc[p].pin
           /\ proc'[p].cursor = proc[p].cursor + 1 /\ proc'[p].env = e
      BY <1>0, <2>1, <2>2, <2>8 DEF Become, Process
    <2>11. Sound(m)' /\ made' = made
      BY <2>4, <2>8, SoundFrame DEF targetVars
    <2>12. Informed(p)'
      BY <2>4, <2>7, <2>8, <2>10, <2>11 DEF Informed, Saving, Holding
    <2> QED
      BY <2>1, <2>8, <2>9, <2>12, QuietStep
  <1>9. ASSUME NEW p \in Proc, Blocked(p) \/ Unloadable(p) \/ TraceGone(p) PROVE Consistent'
    <2>1. /\ proc[p].pc = "loop" /\ proc[p].cursor <= N
          /\ ~Has(proc[p].mem, proc[p].cursor)
          /\ \E kind \in Reports : Report(p, kind)
      BY <1>9 DEF Blocked, Unloadable, TraceGone, Runnable, AtStage, At, Reports
    <2>2. proc[p].mem # None /\ Sound(proc[p].mem)
      BY <1>0, <2>1 DEF Informed, Holding
    <2>3. proc[p].cursor \notin DOMAIN proc[p].mem.confirmed
      BY <2>1, <2>2 DEF Sound, Has
    <2> QED
      BY <2>1, <2>3, ReportStep
  <1>10. ASSUME NEW p \in Proc, ReachBoundary(p) PROVE Consistent'
    <2>1. proc[p].pc = "loop" /\ proc[p].pc \in Holding /\ proc[p].cursor <= N
      BY <1>10 DEF ReachBoundary, Runnable, AtStage, At, Holding
    <2>2. PICK m : m = proc[p].mem
      OBVIOUS
    <2>3. /\ Become(p, [proc[p] EXCEPT !.pc = "verify"])
          /\ UNCHANGED <<disk, images, lock, targetVars>>
      BY <1>10 DEF ReachBoundary, Goto
    <2>4. [proc[p] EXCEPT !.pc = "verify"] \in Process
      BY <1>0, PcType DEF Holding
    <2>5. /\ proc'[p].pc = "verify" /\ proc'[p].mem = m
          /\ proc'[p].pin = proc[p].pin /\ proc'[p].cursor = proc[p].cursor
          /\ proc'[p].env = proc[p].env
      BY <1>0, <2>2, <2>3 DEF Become, Process
    <2>6. Sound(m)' <=> Sound(m)
      BY <2>3, SoundFrame
    <2>7. Informed(p)'
      BY <1>0, <2>1, <2>2, <2>3, <2>5, <2>6 DEF Informed, Saving, Holding, targetVars
    <2> QED
      BY <2>1, <2>3, <2>4, <2>7, QuietStep
  <1>11. ASSUME NEW p \in Proc, VerifyStage(p) PROVE Consistent'
    <2>1. proc[p].pc = "verify" /\ proc[p].pc \in Holding
      BY <1>11 DEF VerifyStage, At, Holding
    <2>2. CASE inputs # proc[p].pin
      BY <1>11, <2>1, <2>2, AbortStep DEF VerifyStage
    <2>3. CASE inputs = proc[p].pin
      <3>1. PICK m : m = proc[p].mem
        OBVIOUS
      <3>2. /\ Become(p, [proc[p] EXCEPT !.pc = "claim", !.checked = inputs])
            /\ UNCHANGED <<disk, images, lock, targetVars>>
        BY <1>11, <2>3 DEF VerifyStage
      <3>3. [proc[p] EXCEPT !.pc = "claim", !.checked = inputs] \in Process
        BY <1>0, CheckedType DEF Holding, TypeOK
      <3>4. /\ proc'[p].pc = "claim" /\ proc'[p].mem = m
            /\ proc'[p].pin = proc[p].pin /\ proc'[p].cursor = proc[p].cursor
            /\ proc'[p].env = proc[p].env /\ proc'[p].checked = proc[p].pin
        BY <1>0, <2>3, <3>1, <3>2 DEF Become, Process
      <3>5. Sound(m)' <=> Sound(m)
        BY <3>2, SoundFrame
      <3>6. Informed(p)'
        BY <1>0, <2>1, <3>1, <3>2, <3>4, <3>5 DEF Informed, Saving, Holding, targetVars
      <3> QED
        BY <2>1, <3>2, <3>3, <3>6, QuietStep
    <2> QED
      BY <2>2, <2>3
  <1>12. ASSUME NEW p \in Proc, Claim(p) PROVE Consistent'
    <2>1. proc[p].pc = "claim" /\ proc[p].pc \in Holding /\ proc[p].cursor <= N
      BY <1>0, <1>12 DEF Claim, At, Holding, Informed
    <2>2. CASE ~MayClaim(proc[p].mem, proc[p].cursor)
      BY <1>12, <2>1, <2>2, AbortStep DEF Claim
    <2>3. CASE MayClaim(proc[p].mem, proc[p].cursor)
      <3>1. PICK m : m = proc[p].mem
        OBVIOUS
      <3>2. PICK c : c = proc[p].cursor
        OBVIOUS
      <3>3. PICK j : j = Claimed(m, c)
        OBVIOUS
      <3>4. /\ m \in Journal /\ m # None /\ Sound(m) /\ m.print = proc[p].pin
            /\ disk = m /\ proc[p].pin \in Version /\ proc[p].checked = proc[p].pin
            /\ \A s \in DOMAIN m.confirmed : s < c => proc[p].env[s] = made[s]
        BY <1>0, <2>1, <3>1, <3>2 DEF Informed, Holding, Process
      <3>5. c \in 1..N /\ m.started = 0 /\ c = Len(m.confirmed) + 1
        BY <1>0, <2>1, <2>3, <3>1, <3>2 DEF MayClaim, Process
      <3>6. /\ j \in Journal /\ j # None
            /\ j.started = c /\ j.confirmed = m.confirmed /\ j.print = m.print
        <4>1. j \in Journal
          BY <3>3, <3>4, <3>5 DEF Claimed, Journal
        <4>2. j.started = c /\ j.confirmed = m.confirmed /\ j.print = m.print
          BY <3>3, <3>4 DEF Claimed, Journal
        <4> QED
          BY <4>1, <4>2
      <3>7. /\ Become(p, [proc[p] EXCEPT !.pc = "write", !.ret = "operate", !.mem = j])
            /\ UNCHANGED <<disk, images, lock, targetVars>>
        BY <1>12, <2>3, <3>1, <3>2, <3>3 DEF Claim
      <3>8. [proc[p] EXCEPT !.pc = "write", !.ret = "operate", !.mem = j] \in Process
        BY <1>0, <3>6, SaveType DEF Holding
      <3>9. /\ proc'[p].pc = "write" /\ proc'[p].ret = "operate" /\ proc'[p].mem = j
            /\ proc'[p].pin = proc[p].pin /\ proc'[p].cursor = c
            /\ proc'[p].env = proc[p].env /\ proc'[p].checked = proc[p].checked
        BY <1>0, <3>2, <3>7 DEF Become, Process
      <3>10. Len(ran) = Len(m.confirmed) /\ Len(m.confirmed) \in Nat
        <4>1. Len(m.confirmed) \in Nat /\ Len(ran) \in Nat
          BY <1>0, <3>4 DEF Journal, TypeOK
        <4> QED
          BY <3>4, <3>5, <4>1 DEF Sound
      <3>11. Sound(j)
        <4>1. /\ \A i \in DOMAIN m.confirmed : m.confirmed[i].spec = i /\ m.confirmed[i].val = made[i]
              /\ \A i \in DOMAIN ranWith : ranWith[i] = m.print
          BY <3>4 DEF Sound
        <4>2. j.started # 0 /\ j.started = Len(j.confirmed) + 1
          BY <3>5, <3>6
        <4>3. Len(j.confirmed) <= Len(ran) /\ Len(ran) <= Len(j.confirmed) + 1
          BY <3>6, <3>10
        <4> QED
          BY <3>6, <4>1, <4>2, <4>3 DEF Sound
      <3>12. Sound(j)'
        BY <3>7, <3>11, SoundFrame
      <3>13. Informed(p)'
        BY <3>4, <3>6, <3>7, <3>9, <3>10, <3>12 DEF Informed, Saving, Holding, targetVars
      <3> QED
        BY <2>1, <3>7, <3>8, <3>13, QuietStep
    <2> QED
      BY <2>2, <2>3
  <1>13. ASSUME NEW p \in Proc, Operate(p) PROVE Consistent'
    <2>1. proc[p].pc = "operate" /\ proc[p].pc \in Holding
      BY <1>13 DEF Operate, At, Holding
    <2>2. PICK m : m = proc[p].mem
      OBVIOUS
    <2>3. PICK c : c = proc[p].cursor
      OBVIOUS
    <2>4. /\ m \in Journal /\ m # None /\ Sound(m) /\ m.print = proc[p].pin
          /\ disk = m /\ images = {m} /\ proc[p].pin \in Version
          /\ proc[p].checked = m.print
          /\ m.started = c /\ Len(ran) = Len(m.confirmed)
          /\ \A s \in DOMAIN m.confirmed : s < c => proc[p].env[s] = made[s]
      BY <1>0, <2>1, <2>2, <2>3 DEF Informed, Holding, Process
    <2>5. c \in 1..N /\ c = Len(m.confirmed) + 1 /\ Len(m.confirmed) \in Nat
      <3>1. c \in 1..(N + 1) /\ c \in 0..N
        BY <1>0, <2>3, <2>4 DEF Process, Journal
      <3>2. m.started \in {0, Len(m.confirmed) + 1}
        BY <2>4 DEF Sound
      <3> QED
        BY <2>4, <3>1, <3>2 DEF Journal
    <2>6. /\ Become(p, [proc[p] EXCEPT !.pc = "running"])
          /\ UNCHANGED <<disk, images, lock, made>>
          /\ ran' = Append(ran, c) /\ ranWith' = Append(ranWith, m.print)
      BY <1>13, <2>3, <2>4 DEF Operate, Goto
    <2>7. [proc[p] EXCEPT !.pc = "running"] \in Process
      BY <1>0, PcType DEF Holding
    <2>8. /\ proc'[p].pc = "running" /\ proc'[p].mem = m
          /\ proc'[p].pin = proc[p].pin /\ proc'[p].cursor = c
          /\ proc'[p].env = proc[p].env
      BY <1>0, <2>2, <2>3, <2>6 DEF Become, Process
    <2>9. Len(ran') = c /\ \A i \in DOMAIN ran' : ran'[i] = i
      <3>1. ran \in Seq(Stages) /\ \A i \in DOMAIN ran : ran[i] = i
        BY <1>0 DEF TypeOK, IInv, Consistent
      <3> QED
        BY <2>4, <2>5, <2>6, <3>1
    <2>10. \A i \in DOMAIN ranWith' : ranWith'[i] = m.print
      <3>1. ranWith \in Seq(Version) /\ \A i \in DOMAIN ranWith : ranWith[i] = m.print
        BY <1>0, <2>4 DEF TypeOK, Sound
      <3> QED
        BY <2>6, <3>1
    <2>11. Sound(m)'
      <3>1. \A i \in DOMAIN m.confirmed : m.confirmed[i].spec = i /\ m.confirmed[i].val = made[i]
        BY <2>4 DEF Sound
      <3>2. m # None /\ made' = made /\ m.started # 0 /\ m.started = Len(m.confirmed) + 1
        BY <2>4, <2>5, <2>6
      <3>3. Len(m.confirmed) <= Len(ran') /\ Len(ran') <= Len(m.confirmed) + 1
        BY <2>5, <2>9
      <3> QED
        BY <3>1, <3>2, <3>3, <2>10 DEF Sound
    <2>12. Informed(p)'
      BY <2>4, <2>6, <2>8, <2>9, <2>11 DEF Informed, Saving, Holding
    <2>13. \A f \in Files' : Sound(f)'
      BY <2>4, <2>6, <2>11 DEF Files
    <2> QED
      BY <1>0, <2>1, <2>6, <2>7, <2>9, <2>12, <2>13, HolderStep, BecomeType
  <1>14. ASSUME NEW p \in Proc, NotPassed(p) PROVE Consistent'
    <2>1. /\ proc[p].pc \in {"operate", "running"}
          /\ \E kind \in Reports : Report(p, kind)
      BY <1>14 DEF NotPassed, At, Reports
    <2>2. /\ proc[p].mem \in Journal /\ proc[p].mem # None /\ Sound(proc[p].mem)
          /\ proc[p].mem.started = proc[p].cursor
      BY <1>0, <2>1 DEF Informed, Holding, Process
    <2>3. proc[p].cursor <= N /\ proc[p].cursor \notin DOMAIN proc[p].mem.confirmed
      <3>1. proc[p].cursor \in 1..(N + 1) /\ proc[p].cursor \in 0..N
        BY <1>0, <2>2 DEF Process, Journal
      <3>2. proc[p].mem.started \in {0, Len(proc[p].mem.confirmed) + 1}
        BY <2>2 DEF Sound
      <3> QED
        BY <2>2, <3>1, <3>2 DEF Journal
    <2> QED
      BY <2>1, <2>3, ReportStep
  <1>15. ASSUME NEW p \in Proc, NEW v \in Value, Pass(p, v) PROVE Consistent'
    <2>1. proc[p].pc = "running" /\ proc[p].pc \in Holding
      BY <1>15 DEF Pass, At, Holding
    <2>2. PICK m : m = proc[p].mem
      OBVIOUS
    <2>3. PICK c : c = proc[p].cursor
      OBVIOUS
    <2>4. PICK j : j = Confirm(m, c, v)
      OBVIOUS
    <2>5. /\ m \in Journal /\ m # None /\ Sound(m) /\ m.print = proc[p].pin
          /\ disk = m /\ images = {m} /\ proc[p].pin \in Version
          /\ m.started = c /\ Len(ran) = c
          /\ \A s \in DOMAIN m.confirmed : s < c => proc[p].env[s] = made[s]
      BY <1>0, <2>1, <2>2, <2>3 DEF Informed, Holding, Process
    <2>6. c \in 1..N /\ c = Len(m.confirmed) + 1 /\ m.confirmed \in Seq(Confirmed)
      <3>1. c \in 1..(N + 1) /\ c \in 0..N
        BY <1>0, <2>3, <2>5 DEF Process, Journal
      <3>2. m.started \in {0, Len(m.confirmed) + 1}
        BY <2>5 DEF Sound
      <3> QED
        BY <2>5, <3>1, <3>2 DEF Journal
    <2>7. [spec |-> c, val |-> v] \in Confirmed
      BY <2>6 DEF Confirmed, Stages
    <2>8. /\ j \in Journal /\ j # None /\ j.started = 0 /\ j.print = m.print
          /\ j.confirmed = Append(m.confirmed, [spec |-> c, val |-> v])
      <3>1. j \in Journal
        BY <2>4, <2>5, <2>6, <2>7, ConfirmType
      <3> QED
        BY <2>4, <3>1 DEF Confirm
    <2>9. /\ Become(p, [proc[p] EXCEPT !.pc = "write", !.ret = "confirmed", !.mem = j])
          /\ UNCHANGED <<disk, images, lock, ran, ranWith>>
          /\ made' = [made EXCEPT ![c] = v]
      BY <1>15, <2>2, <2>3, <2>4 DEF Pass
    <2>10. [proc[p] EXCEPT !.pc = "write", !.ret = "confirmed", !.mem = j] \in Process
      BY <1>0, <2>8, SaveType DEF Holding
    <2>11. /\ proc'[p].pc = "write" /\ proc'[p].ret = "confirmed" /\ proc'[p].mem = j
           /\ proc'[p].pin = proc[p].pin /\ proc'[p].cursor = c
           /\ proc'[p].env = proc[p].env
      BY <1>0, <2>3, <2>9 DEF Become, Process
    <2>12. made'[c] = v /\ \A s \in DOMAIN m.confirmed : made'[s] = made[s]
      <3>1. made \in [Stages -> Value \cup {None}]
        BY <1>0 DEF TypeOK
      <3> QED
        BY <2>6, <2>9, <3>1 DEF Stages
    <2>13. \A i \in DOMAIN m.confirmed : /\ m.confirmed[i].spec = i
                                         /\ m.confirmed[i].val = made'[i]
      BY <2>5, <2>12 DEF Sound
    <2>14. \A i \in DOMAIN ranWith' : ranWith'[i] = m.print
      BY <2>5, <2>9 DEF Sound
    <2>15. Sound(m)'
      BY <2>5, <2>6, <2>9, <2>13, <2>14 DEF Sound
    <2>16. \A i \in DOMAIN j.confirmed : /\ j.confirmed[i].spec = i
                                         /\ j.confirmed[i].val = made'[i]
      <3>1. DOMAIN j.confirmed = 1..c /\ Len(m.confirmed) \in Nat
        BY <2>6, <2>7, <2>8
      <3>2. \A i \in 1..(c - 1) : i \in DOMAIN m.confirmed /\ j.confirmed[i] = m.confirmed[i]
        BY <2>6, <2>7, <2>8
      <3>3. j.confirmed[c] = [spec |-> c, val |-> v]
        BY <2>6, <2>7, <2>8
      <3>4. \A i \in 1..c : i = c \/ i \in 1..(c - 1)
        BY <2>6
      <3> QED
        BY <2>12, <2>13, <3>1, <3>2, <3>3, <3>4
    <2>17. Len(j.confirmed) = c
      BY <2>6, <2>7, <2>8
    <2>18. Sound(j)'
      BY <2>5, <2>6, <2>8, <2>9, <2>14, <2>16, <2>17 DEF Sound
    <2>19. \A s \in DOMAIN j.confirmed : s < c => proc[p].env[s] = made'[s]
      <3>1. \A s \in DOMAIN j.confirmed : s < c => s \in DOMAIN m.confirmed
        BY <2>6, <2>7, <2>8
      <3> QED
        BY <2>5, <2>12, <3>1
    <2>20. Informed(p)'
      BY <2>5, <2>8, <2>9, <2>11, <2>17, <2>18, <2>19 DEF Informed, Saving, Holding
    <2>21. \A f \in Files' : Sound(f)'
      BY <2>5, <2>9, <2>15 DEF Files
    <2>22. \A i \in DOMAIN ran' : ran'[i] = i
      BY <2>9 DEF IInv, Consistent
    <2> QED
      BY <1>0, <2>1, <2>9, <2>10, <2>20, <2>21, <2>22, HolderStep, BecomeType
  <1>16. ASSUME NEW p \in Proc, Export(p) PROVE Consistent'
    <2>1. proc[p].pc = "confirmed" /\ proc[p].pc \in Holding
      BY <1>16 DEF Export, At, Holding
    <2>2. PICK m : m = proc[p].mem
      OBVIOUS
    <2>3. PICK e : e = Exporting(p)
      OBVIOUS
    <2>4. PICK b : b = (proc[p].stop = proc[p].cursor)
      OBVIOUS
    <2>5. /\ m \in Journal /\ m # None /\ Sound(m) /\ m.print = proc[p].pin
          /\ disk = m /\ proc[p].pin \in Version /\ Len(m.confirmed) = proc[p].cursor
          /\ \A s \in DOMAIN m.confirmed : s < proc[p].cursor => proc[p].env[s] = made[s]
      BY <1>0, <2>1, <2>2 DEF Informed, Holding, Process
    <2>6. /\ proc[p].cursor \in DOMAIN m.confirmed /\ proc[p].cursor \in Stages
          /\ Has(m, proc[p].cursor)
      <3>1. proc[p].cursor \in DOMAIN m.confirmed
        BY <1>0, <2>5 DEF Process, Journal
      <3>2. m.confirmed[proc[p].cursor] \in Confirmed /\ m.confirmed[proc[p].cursor].spec = proc[p].cursor
        BY <2>5, <3>1 DEF Journal, Sound
      <3> QED
        BY <3>1, <3>2 DEF Confirmed, Has
    <2>7. e \in [Stages -> Value \cup {None}]
      BY <1>0, <2>2, <2>3, <2>5, <2>6, ExportType DEF Exporting, Process
    <2>8. \A s \in DOMAIN m.confirmed : s < proc[p].cursor + 1 => e[s] = made[s]
      <3>1. ExportOf(m, proc[p].cursor) = made[proc[p].cursor]
        BY <2>5, <2>6, ExportValue
      <3>2. e[proc[p].cursor] = made[proc[p].cursor]
        BY <1>0, <2>2, <2>3, <2>6, <3>1 DEF Exporting, Process
      <3>3. \A s \in DOMAIN m.confirmed : s # proc[p].cursor => e[s] = proc[p].env[s]
        BY <1>0, <2>3 DEF Exporting, Process
      <3>4. \A s \in DOMAIN m.confirmed : s \in Nat
        BY <2>5 DEF Journal
      <3> QED
        BY <2>5, <2>6, <3>2, <3>3, <3>4 DEF Stages
    <2>9. /\ Become(p, [proc[p] EXCEPT !.pc = "loop", !.env = e, !.cursor = @ + 1, !.paused = b])
          /\ UNCHANGED <<disk, images, lock, targetVars>>
      BY <1>16, <2>3, <2>4 DEF Export
    <2>10. [proc[p] EXCEPT !.pc = "loop", !.env = e, !.cursor = @ + 1, !.paused = b] \in Process
      <3>1. proc[p].cursor + 1 \in 1..(N + 1) /\ b \in BOOLEAN
        BY <2>4, <2>6 DEF Stages
      <3> QED
        BY <1>0, <2>7, <3>1, ExportedType DEF Holding
    <2>11. /\ proc'[p].pc = "loop" /\ proc'[p].mem = m /\ proc'[p].pin = proc[p].pin
           /\ proc'[p].cursor = proc[p].cursor + 1 /\ proc'[p].env = e
      BY <1>0, <2>2, <2>9 DEF Become, Process
    <2>12. Sound(m)' /\ made' = made
      BY <2>5, <2>9, SoundFrame DEF targetVars
    <2>13. Informed(p)'
      BY <2>5, <2>8, <2>9, <2>11, <2>12 DEF Informed, Saving, Holding
    <2> QED
      BY <2>1, <2>9, <2>10, <2>13, QuietStep
  <1>17. ASSUME NEW p \in Proc, Finish(p) \/ Refused(p) PROVE Consistent'
    <2>1. proc[p].pc \in Holding /\ Abort(p) /\ UNCHANGED <<disk, images, targetVars>>
      BY <1>17 DEF Finish, Refused, Abort, At, Holding
    <2> QED
      BY <2>1, AbortStep
  <1>18. ASSUME NEW p \in Proc, Crash(p) PROVE Consistent'
    <2>1. \A f \in Files' : Sound(f)'
      BY <1>18, SoundFrame DEF IInv, Consistent, Files, Crash
    <2>2. \A i \in DOMAIN ran' : ran'[i] = i
      BY <1>18 DEF IInv, Consistent, Crash, targetVars
    <2>3. \A q \in Proc \ {p} : proc'[q] = proc[q]
      BY <1>0, <1>18 DEF Crash, Become
    <2>4. \A q \in Proc \ {p} : Informed(q)'
      BY <1>0, <1>18, <2>3, InformedFrame DEF Crash
    <2>5. proc'[p].pc = "idle"
      BY <1>0, <1>18 DEF Crash, Become, Idle, Invocation
    <2>6. Informed(p)'
      BY <2>5, Uninvolved DEF Holding
    <2>7. LockExclusion'
      BY <1>18, <2>3, <2>5 DEF IInv, Consistent, LockExclusion, Crash, Holding
    <2> QED
      BY <2>1, <2>2, <2>4, <2>6, <2>7 DEF Consistent
  <1>19. ASSUME PowerLoss PROVE Consistent'
    <2>1. \A f \in Files' : Sound(f)'
      <3>1. Files' \subseteq Files
        BY <1>19 DEF PowerLoss, Files
      <3> QED
        BY <1>19, <3>1, SoundFrame DEF IInv, Consistent, PowerLoss
    <2>2. \A q \in Proc : proc'[q].pc = "idle"
      BY <1>19 DEF PowerLoss, Idle, Invocation
    <2>3. \A q \in Proc : Informed(q)'
      BY <2>2, Uninvolved DEF Holding
    <2>4. LockExclusion'
      BY <2>2 DEF LockExclusion, Holding
    <2> QED
      BY <1>19, <2>1, <2>3, <2>4 DEF IInv, Consistent, PowerLoss, targetVars
  <1>20. ASSUME RemoveLock PROVE Consistent'
    <2>1. \A q \in Proc : Informed(q)'
      BY <1>0, <1>20, InformedFrame DEF RemoveLock
    <2>2. LockExclusion'
      BY <1>20 DEF IInv, Consistent, LockExclusion, RemoveLock, At, Holding
    <2>3. \A f \in Files' : Sound(f)'
      BY <1>20, SoundFrame DEF IInv, Consistent, Files, RemoveLock
    <2> QED
      BY <1>20, <2>1, <2>2, <2>3 DEF IInv, Consistent, RemoveLock, targetVars
  <1>21. ASSUME EditInputs \/ UNCHANGED vars PROVE Consistent'
    <2>1. UNCHANGED <<disk, images, lock, proc, targetVars>>
      BY <1>21 DEF EditInputs, vars
    <2>2. \A q \in Proc : Informed(q)'
      BY <1>0, <2>1, InformedFrame
    <2>3. LockExclusion'
      BY <2>1 DEF IInv, Consistent, LockExclusion
    <2>4. \A f \in Files' : Sound(f)'
      BY <2>1, SoundFrame DEF IInv, Consistent, Files
    <2> QED
      BY <2>1, <2>2, <2>3, <2>4 DEF IInv, Consistent, targetVars
  <1> QED
    BY <1>1, <1>2, <1>3, <1>4, <1>5, <1>6, <1>7, <1>8, <1>9, <1>10, <1>11, <1>12, <1>13,
       <1>14, <1>15, <1>16, <1>17, <1>18, <1>19, <1>20, <1>21 DEF Next, Step

\* The inductive invariant: types, and agreement of target system, files and
\* processes.
THEOREM Invariance == Spec => []IInv
  <1>1. IInv /\ [Next]_vars => IInv'
    BY TypeStep, ConsistentStep DEF IInv
  <1> QED
    BY InitIInv, <1>1, PTL DEF Spec

(***************************************************************************)
(* The safety properties, each for every value of the constants.           *)
(***************************************************************************)
\* What soundness of a file says of the journal in it: the confirmed stages are
\* an initial segment of what ran, and the rest of what ran is the claim.
LEMMA SoundFile ==
  ASSUME IInv, NEW f \in Files
  PROVE  /\ f = None => ran = <<>> /\ ranWith = <<>>
         /\ f # None =>
              /\ f \in Journal
              /\ \A i \in DOMAIN f.confirmed :
                   i \in Stages /\ f.confirmed[i].spec = i /\ f.confirmed[i].val = made[i] /\ made[i] # None
              /\ \A i \in DOMAIN ran : i \in DOMAIN f.confirmed \/ f.started = i
              /\ \A i \in DOMAIN ranWith : ranWith[i] = f.print
  <1>1. f \in JournalOrNone /\ Sound(f) /\ ran \in Seq(Stages)
    BY DEF IInv, TypeOK, Consistent, Files
  <1>2. CASE f = None
    BY <1>1, <1>2 DEF Sound
  <1>3. CASE f # None
    <2>1. f \in Journal
      BY <1>1, <1>3 DEF JournalOrNone
    <2>2. \A i \in DOMAIN f.confirmed : /\ f.confirmed[i].spec = i
                                        /\ f.confirmed[i].val = made[i]
      BY <1>1, <1>3 DEF Sound
    <2>3. \A i \in DOMAIN f.confirmed : f.confirmed[i].spec \in Stages /\ f.confirmed[i].val \in Value
      <3>1. \A i \in DOMAIN f.confirmed : f.confirmed[i] \in Confirmed
        BY <2>1 DEF Journal
      <3> QED
        BY <3>1 DEF Confirmed
    <2>4. \A i \in DOMAIN f.confirmed : i \in Stages /\ made[i] # None
      BY <2>2, <2>3, NoneAssumption
    <2>5. \A i \in DOMAIN ran : i \in DOMAIN f.confirmed \/ f.started = i
      <3>1. /\ f.started \in {0, Len(f.confirmed) + 1}
            /\ Len(ran) <= Len(f.confirmed) + (IF f.started = 0 THEN 0 ELSE 1)
        BY <1>1, <1>3 DEF Sound
      <3>2. /\ Len(f.confirmed) \in Nat /\ DOMAIN f.confirmed = 1..Len(f.confirmed)
            /\ Len(ran) \in Nat /\ DOMAIN ran = 1..Len(ran)
        <4>1. f.confirmed \in Seq(Confirmed) /\ ran \in Seq(Stages)
          BY <1>1, <2>1 DEF Journal
        <4> QED
          BY <4>1
      <3>3. ASSUME NEW i \in DOMAIN ran, i \notin DOMAIN f.confirmed PROVE f.started = i
        <4>1. i \in Nat /\ i > Len(f.confirmed) /\ i <= Len(ran)
          BY <3>2, <3>3
        <4>2. CASE f.started = 0
          BY <3>1, <3>2, <4>1, <4>2
        <4>3. CASE f.started = Len(f.confirmed) + 1
          <5>1. f.started # 0
            BY <3>2, <4>3
          <5>2. Len(ran) <= Len(f.confirmed) + 1
            BY <3>1, <5>1
          <5>3. i = Len(f.confirmed) + 1
            BY <3>2, <4>1, <5>2
          <5> QED
            BY <4>3, <5>3
        <4> QED
          BY <3>1, <4>2, <4>3
      <3> QED
        BY <3>3
    <2>6. \A i \in DOMAIN ranWith : ranWith[i] = f.print
      BY <1>1, <1>3 DEF Sound
    <2> QED
      BY <1>3, <2>1, <2>2, <2>4, <2>5, <2>6
  <1> QED
    BY <1>2, <1>3

LEMMA ClaimCovers == IInv => ClaimCoversOperation
  <1> SUFFICES ASSUME IInv, NEW f \in Files, NEW i \in DOMAIN ran
               PROVE  f # None /\ (Has(f, ran[i]) \/ f.started = ran[i])
    BY DEF ClaimCoversOperation
  <1>1. ran[i] = i
    BY DEF IInv, Consistent
  <1>2. f # None
    BY SoundFile
  <1> QED
    BY <1>1, <1>2, SoundFile DEF Has

LEMMA Truthful == IInv => JournalTruthful
  BY SoundFile DEF JournalTruthful, Passed

LEMMA Uncertain == IInv => UncertainStaysClaimed
  <1> SUFFICES ASSUME IInv, NEW i \in DOMAIN ran, ran[i] \notin Passed, NEW f \in Files
               PROVE  f # None /\ f.started = ran[i]
    BY DEF UncertainStaysClaimed
  <1>1. f # None /\ (Has(f, ran[i]) \/ f.started = ran[i])
    BY ClaimCovers DEF ClaimCoversOperation
  <1>2. ~Has(f, ran[i])
    BY <1>1, SoundFile DEF Has, Passed
  <1> QED
    BY <1>1, <1>2

LEMMA Restored == IInv => ExportsRestored
  <1> SUFFICES ASSUME IInv, NEW p \in Proc, proc[p].pc \in {"operate", "running"},
                      NEW s \in 1..(proc[p].cursor - 1)
               PROVE  made[s] # None /\ proc[p].env[s] = made[s]
    BY DEF ExportsRestored
  <1>1. Informed(p) /\ proc[p] \in Process
    BY DEF IInv, TypeOK, Consistent
  <1>2. /\ proc[p].mem \in Journal /\ proc[p].mem # None /\ disk = proc[p].mem
        /\ proc[p].mem.started = proc[p].cursor
        /\ \A k \in DOMAIN proc[p].mem.confirmed : k < proc[p].cursor => proc[p].env[k] = made[k]
        /\ proc[p].mem.started \in {0, Len(proc[p].mem.confirmed) + 1}
    BY <1>1 DEF Informed, Holding, Process, Sound
  <1>3. s \in DOMAIN disk.confirmed
    BY <1>1, <1>2 DEF Process, Journal
  <1>4. made[s] # None
    BY <1>2, <1>3, SoundFile DEF Files
  <1>5. s < proc[p].cursor
    BY <1>1 DEF Process
  <1> QED
    BY <1>2, <1>3, <1>4, <1>5

LEMMA SameInputs == IInv => SameInputsThroughout
  BY SoundFile DEF SameInputsThroughout, Files

\* Every variable keeps its type.
THEOREM TypeCorrect == Spec => []TypeOK
  BY Invariance, PTL DEF IInv

\* The target system, the files and the processes always agree.
THEOREM AlwaysConsistent == Spec => []Consistent
  BY Invariance, PTL DEF IInv

\* Lock and Journal::open: one process past the lock, whatever crashes.
THEOREM LockExclusive == Spec => []LockExclusion
  <1>1. IInv => LockExclusion
    BY DEF IInv, Consistent
  <1> QED
    BY Invariance, <1>1, PTL

\* Journal::begin: every file a failure may leave covers every operation.
THEOREM ClaimsCoverOperations == Spec => []ClaimCoversOperation
  BY Invariance, ClaimCovers, PTL

\* Journal::complete: a confirmed stage passed, with the exports recorded.
THEOREM JournalAlwaysTruthful == Spec => []JournalTruthful
  BY Invariance, Truthful, PTL

\* An uncertain stage is claimed for ever: no --resume can repeat it.
THEOREM UncertainAlwaysClaimed == Spec => []UncertainStaysClaimed
  BY Invariance, Uncertain, PTL

\* restore_exports and export: an operation finds every earlier export.
THEOREM ExportsAlwaysRestored == Spec => []ExportsRestored
  BY Invariance, Restored, PTL

\* fingerprint and verify_stage: one checkpoint, one set of inputs.
THEOREM OneSetOfInputs == Spec => []SameInputsThroughout
  BY Invariance, SameInputs, PTL

(***************************************************************************)
(* The verdict of a run under a checkpoint.                                *)
(***************************************************************************)
\* While everything was well, each stage behind the cursor is confirmed.
Complete ==
  \A p \in Proc : proc[p].pc \in Holding \ {"open"} /\ proc[p].reports = {} =>
    \A s \in 1..(proc[p].cursor - 1) : Has(proc[p].mem, s)

LEMMA CompleteInit == Init => Complete
  BY DEF Init, Complete, Idle, Invocation, Holding

\* The confirmation of a stage keeps those before it.
LEMMA ConfirmKeeps ==
  ASSUME NEW j \in Journal, NEW c \in Stages, NEW v \in Value, NEW s \in Stages, Has(j, s)
  PROVE  Has(Confirm(j, c, v), s)
  <1>1. PICK i \in DOMAIN j.confirmed : j.confirmed[i].spec = s
    BY DEF Has
  <1>2. j.confirmed \in Seq(Confirmed) /\ [spec |-> c, val |-> v] \in Confirmed
    BY DEF Journal, Confirmed
  <1>3. /\ i \in DOMAIN Append(j.confirmed, [spec |-> c, val |-> v])
        /\ Append(j.confirmed, [spec |-> c, val |-> v])[i] = j.confirmed[i]
    BY <1>1, <1>2
  <1> QED
    BY <1>1, <1>3 DEF Has, Confirm

LEMMA CompleteStep == IInv /\ IInv' /\ Complete /\ [Next]_vars => Complete'
  <1> SUFFICES ASSUME IInv, IInv', Complete, [Next]_vars,
                      NEW p \in Proc, proc'[p].pc \in Holding \ {"open"}, proc'[p].reports = {},
                      NEW s \in 1..(proc'[p].cursor - 1)
               PROVE  Has(proc'[p].mem, s)
    BY DEF Complete
  <1>1. /\ proc \in [Proc -> Process] /\ proc[p] \in Process /\ proc'[p] \in Process
        /\ Informed(p)
    BY DEF IInv, TypeOK, Consistent
  <1>2. CASE proc'[p] = proc[p]
    BY <1>2 DEF Complete
  <1>3. CASE proc'[p] = Idle \/ proc'[p].pc \in {"idle", "lock", "open"}
    BY <1>3 DEF Idle, Invocation, Holding
  <1>4. CASE OpenResume(p) \/ OpenFresh(p)
    <2>1. proc[p].pc = "open" /\ proc[p].cursor = 1
      BY <1>1, <1>4 DEF OpenResume, OpenFresh, At, Informed
    <2>2. proc'[p] = Idle \/ proc'[p].cursor = 1
      <3>1. CASE Abort(p)
        BY <1>1, <3>1 DEF Abort, Become
      <3>2. CASE Become(p, [proc[p] EXCEPT !.pc = "loop", !.mem = disk])
        BY <1>1, <2>1, <3>2 DEF Become, Process
      <3>3. CASE Become(p, [proc[p] EXCEPT !.pc = "write", !.ret = "loop",
                                          !.mem = Empty(proc[p].pin)])
        BY <1>1, <2>1, <3>3 DEF Become, Process
      <3> QED
        BY <1>4, <3>1, <3>2, <3>3 DEF OpenResume, OpenFresh
    <2> QED
      BY <1>3, <2>2
  <1>5. CASE /\ proc'[p].mem = proc[p].mem \/ proc'[p].mem = Claimed(proc[p].mem, proc[p].cursor)
             /\ proc'[p].cursor = proc[p].cursor /\ proc'[p].reports = proc[p].reports
             /\ proc[p].pc \in Holding \ {"open"}
    <2>1. Has(proc[p].mem, s)
      BY <1>5 DEF Complete
    <2>2. proc[p].mem \in Journal
      BY <1>1, <1>5 DEF Informed, Process
    <2> QED
      BY <1>5, <2>1, <2>2 DEF Claimed, Journal, Has
  <1>6. CASE NotPassed(p) \/ Blocked(p) \/ Unloadable(p) \/ TraceGone(p)
    <2>1. \E kind \in Reports : Report(p, kind)
      BY <1>6 DEF NotPassed, Blocked, Unloadable, TraceGone, Reports
    <2>2. proc'[p].reports # {}
      BY <1>1, <2>1 DEF Report, Become, Process
    <2> QED
      BY <2>2
  <1>7. CASE \E v \in Value : Pass(p, v)
    <2>1. PICK v \in Value : Pass(p, v)
      BY <1>7
    <2>2. /\ proc'[p].mem = Confirm(proc[p].mem, proc[p].cursor, v)
          /\ proc'[p].cursor = proc[p].cursor /\ proc'[p].reports = proc[p].reports
          /\ proc[p].pc = "running"
      BY <1>1, <2>1 DEF Pass, Become, At, Process
    <2>3. /\ Has(proc[p].mem, s)
          /\ proc[p].mem \in Journal /\ proc[p].mem.started = proc[p].cursor
      BY <1>1, <2>2 DEF Complete, Informed, Holding, Process
    <2>4. proc[p].cursor \in Stages /\ s \in Stages
      BY <1>1, <2>2, <2>3, NAssumption DEF Process, Journal, Stages
    <2> QED
      BY <2>1, <2>2, <2>3, <2>4, ConfirmKeeps
  <1>8. CASE Resumed(p) \/ Export(p)
    <2>1. /\ proc'[p].mem = proc[p].mem /\ proc'[p].cursor = proc[p].cursor + 1
          /\ proc'[p].reports = proc[p].reports /\ proc[p].pc \in {"loop", "confirmed"}
      <3>1. CASE Resumed(p)
        BY <1>1, <3>1 DEF Resumed, AtStage, At, Become, Process
      <3>2. CASE Export(p)
        BY <1>1, <3>2 DEF Export, At, Become, Process
      <3> QED
        BY <1>8, <3>1, <3>2
    <2>2. Has(proc[p].mem, proc[p].cursor)
      <3>1. CASE Resumed(p)
        BY <3>1 DEF Resumed
      <3>2. CASE Export(p)
        <4>1. /\ proc[p].mem \in Journal /\ Sound(proc[p].mem) /\ proc[p].mem # None
              /\ Len(proc[p].mem.confirmed) = proc[p].cursor
          BY <1>1, <3>2 DEF Export, At, Informed, Holding, Process
        <4>2. proc[p].cursor \in DOMAIN proc[p].mem.confirmed
          BY <1>1, <4>1 DEF Journal, Process
        <4> QED
          BY <4>1, <4>2 DEF Sound, Has
      <3> QED
        BY <1>8, <3>1, <3>2
    <2>3. s = proc[p].cursor \/ s \in 1..(proc[p].cursor - 1)
      BY <1>1, <2>1 DEF Process
    <2> QED
      BY <2>1, <2>2, <2>3 DEF Complete, Holding
  <1>9. CASE \E q \in Proc \ {p} : \/ \E r \in BOOLEAN, k \in 0..N : Start(q, r, k)
                                  \/ Step(q) \/ Crash(q)
    BY <1>1, <1>2, <1>9 DEF Step, Start, TakeLock, OpenResume, OpenFresh, SaveWrite, SaveRename,
       SaveSync, Resumed, Blocked, Unloadable, TraceGone, ReachBoundary, VerifyStage, Claim, Operate,
       NotPassed, Pass, Refused, Export, Finish, Crash, Report, Abort, Goto, Become
  <1>10. CASE (\E r \in BOOLEAN, k \in 0..N : Start(p, r, k)) \/ TakeLock(p) \/ Crash(p)
    BY <1>1, <1>3, <1>10 DEF Start, TakeLock, Crash, Goto, Become, Invocation, Process
  <1>11. CASE SaveWrite(p) \/ SaveRename(p) \/ SaveSync(p)
    <2>1. proc'[p] = Idle \/ <1>5!1
      BY <1>1, <1>11 DEF SaveWrite, SaveRename, SaveSync, At, Abort, Goto, Become, Process, Holding
    <2> QED
      BY <1>3, <1>5, <2>1
  <1>12. CASE ReachBoundary(p) \/ VerifyStage(p) \/ Claim(p) \/ Operate(p)
    <2>1. proc'[p] = Idle \/ <1>5!1
      <3>1. CASE \E x \in Holding : Goto(p, x)
        BY <1>1, <1>12, <3>1 DEF Goto, Become, Process, ReachBoundary, Runnable, AtStage,
           VerifyStage, Claim, Operate, At, Holding
      <3>2. CASE Become(p, [proc[p] EXCEPT !.pc = "claim", !.checked = inputs])
        BY <1>1, <1>12, <3>2 DEF Become, Process, ReachBoundary, Runnable, AtStage,
           VerifyStage, Claim, Operate, At, Holding
      <3>3. CASE Become(p, [proc[p] EXCEPT !.pc = "write", !.ret = "operate",
                                          !.mem = Claimed(@, proc[p].cursor)])
        BY <1>1, <1>12, <3>3 DEF Become, Process, ReachBoundary, Runnable, AtStage,
           VerifyStage, Claim, Operate, At, Holding
      <3>4. CASE Abort(p)
        BY <1>1, <3>4 DEF Abort, Become
      <3> QED
        BY <1>12, <3>1, <3>2, <3>3, <3>4 DEF ReachBoundary, VerifyStage, Claim, Operate, Holding
    <2> QED
      BY <1>3, <1>5, <2>1
  <1>13. CASE Refused(p) \/ Finish(p)
    BY <1>1, <1>3, <1>13 DEF Refused, Finish, Abort, Become
  <1>14. CASE PowerLoss
    BY <1>3, <1>14 DEF PowerLoss
  <1>15. CASE RemoveLock \/ EditInputs \/ UNCHANGED vars
    BY <1>2, <1>15 DEF RemoveLock, EditInputs, vars
  <1> QED
    BY <1>4, <1>6, <1>7, <1>8, <1>9, <1>10, <1>11, <1>12, <1>13, <1>14, <1>15 DEF Next, Step

\* run_suite_with_author, the exit code: a suite that exits PASS and skipped
\* nothing has confirmed every stage in the journal on disk.
THEOREM PassIsConfirmed == Spec => []PassMeansConfirmed
  <1>1. IInv /\ Complete => PassMeansConfirmed
    <2> SUFFICES ASSUME IInv, Complete, NEW p \in Proc, At(p, "loop"), proc[p].cursor > N,
                        Verdict(proc[p].reports) = "pass", "skipped" \notin proc[p].reports,
                        NEW s \in Stages
                 PROVE  Has(disk, s)
      BY DEF PassMeansConfirmed
    <2>1. proc[p] \in Process /\ Informed(p) /\ proc[p].pc = "loop"
      BY DEF IInv, TypeOK, Consistent, At
    <2>2. proc[p].reports = {}
      BY <2>1 DEF Verdict, Process, Reports
    <2>3. disk = proc[p].mem
      BY <2>1 DEF Informed, Holding
    <2>4. s \in 1..(proc[p].cursor - 1)
      BY <2>1, NAssumption DEF Stages, Process
    <2> QED
      BY <2>1, <2>2, <2>3, <2>4 DEF Complete, Holding
  <1> QED
    BY Invariance, CompleteInit, CompleteStep, <1>1, PTL DEF Spec

(***************************************************************************)
(* The refinement: the target system sees a workflow run at most once.     *)
(***************************************************************************)
LEMMA InitRefines == Init => Once!WInit
  BY DEF Init, Once!WInit, Passed, NoExports

\* Reaching the target system is the start of the next stage.
LEMMA OperateRefines ==
  ASSUME IInv, NEW p \in Proc, Operate(p)
  PROVE  Once!WStart
  <1>1. Informed(p) /\ proc[p] \in Process /\ proc[p].pc = "operate"
    BY DEF IInv, TypeOK, Consistent, Operate, At
  <1>2. /\ proc[p].mem \in Journal /\ proc[p].mem # None /\ disk = proc[p].mem
        /\ proc[p].mem.started = proc[p].cursor
        /\ Len(ran) = Len(proc[p].mem.confirmed)
        /\ proc[p].mem.started \in {0, Len(proc[p].mem.confirmed) + 1}
    BY <1>1 DEF Informed, Holding, Process, Sound
  <1>3. proc[p].cursor = Len(ran) + 1 /\ Len(ran) \in Nat /\ Len(ran) < N
    <2>1. proc[p].cursor \in 1..(N + 1) /\ proc[p].cursor \in 0..N
      BY <1>1, <1>2 DEF Process, Journal
    <2>2. ran \in Seq(Stages)
      BY DEF IInv, TypeOK
    <2> QED
      BY <1>2, <2>1, <2>2, NAssumption
  <1>4. Len(ran) > 0 => Len(ran) \in Passed
    <2>1. Len(ran) > 0 => Len(ran) \in DOMAIN disk.confirmed
      BY <1>2, <1>3 DEF Journal
    <2> QED
      BY <1>2, <2>1, SoundFile DEF Files, Passed
  <1>5. ran' = Append(ran, Len(ran) + 1) /\ Passed' = Passed
    BY <1>3 DEF Operate, Passed
  <1> QED
    BY <1>3, <1>4, <1>5 DEF Once!WStart

\* Passing is the success of the stage under way.
LEMMA PassRefines ==
  ASSUME IInv, NEW p \in Proc, NEW v \in Value, Pass(p, v)
  PROVE  Once!WPass
  <1>1. Informed(p) /\ proc[p] \in Process /\ proc[p].pc = "running"
    BY DEF IInv, TypeOK, Consistent, Pass, At
  <1>2. /\ proc[p].mem \in Journal
        /\ proc[p].mem.started = proc[p].cursor /\ Len(ran) = proc[p].cursor
    BY <1>1 DEF Informed, Holding, Process
  <1>3. Len(ran) \in Stages /\ Len(ran) > 0
    BY <1>1, <1>2 DEF Process, Journal, Stages
  <1>4. made \in [Stages -> Value \cup {None}]
    BY DEF IInv, TypeOK
  <1>5. made' = [made EXCEPT ![Len(ran)] = v] /\ v # None
    BY <1>2, NoneAssumption DEF Pass
  <1>6. Passed' = Passed \cup {Len(ran)}
    BY <1>3, <1>4, <1>5 DEF Passed
  <1> QED
    BY <1>3, <1>6 DEF Once!WPass, Pass

LEMMA StepRefines == IInv /\ [Next]_vars => [Once!WNext]_(Once!wvars)
  <1> SUFFICES ASSUME IInv, [Next]_vars PROVE Once!WNext \/ UNCHANGED Once!wvars
    OBVIOUS
  <1>1. CASE \E p \in Proc : Operate(p)
    BY <1>1, OperateRefines DEF Once!WNext
  <1>2. CASE \E p \in Proc, v \in Value : Pass(p, v)
    BY <1>2, PassRefines DEF Once!WNext
  <1>3. CASE UNCHANGED <<ran, made>>
    BY <1>3 DEF Once!wvars, Passed
  <1>4. UNCHANGED <<ran, made>> \/ (\E p \in Proc : Operate(p)) \/ (\E p \in Proc, v \in Value : Pass(p, v))
    BY DEF Next, Step, vars, fileVars, lockVars, targetVars, Start, TakeLock, OpenResume,
           OpenFresh, SaveWrite, SaveRename, SaveSync, Resumed, Blocked, Unloadable, TraceGone,
           ReachBoundary, VerifyStage, Claim, NotPassed, Refused, Export, Finish, Crash, PowerLoss,
           RemoveLock, EditInputs, Report
  <1> QED
    BY <1>1, <1>2, <1>3, <1>4

\* The suite under a checkpoint implements the workflow that runs once.
THEOREM RunsOnceInOrder == Spec => OnceInOrder
  <1>1. Spec => Once!WInit /\ [][Once!WNext]_(Once!wvars)
    BY Invariance, InitRefines, StepRefines, PTL DEF Spec
  <1> QED
    BY <1>1 DEF OnceInOrder, Once!WSpec
=============================================================================
