------------------------- MODULE StepReplayProofs -------------------------
(* What is proved of replay, for all flows and all applications; and, for   *)
(* FlowMeaningProofs, of the worklist of a whole run and of how a flow is   *)
(* read (FlowMeaning, Reading).                                             *)
EXTENDS FlowMeaning, FiniteSetTheorems, SequenceTheorems, TLAPS, WellFoundedInduction

\* A step that is about to run belongs to a run that has not failed, and the
\* verdict is given at the end only.  The second step of every leaf below
\* needs the first conjunct: without it a step could run after a failure.
Untroubled ==
    /\ ready => ~failed
    /\ failed \in BOOLEAN
    /\ phase \in {"record", "stored", "replay"} => ~passed

LEMMA UntroubledInit == Init => Untroubled
BY Zenon DEF Init, RecordingInit, ReplayInit, Untroubled

LEMMA UntroubledNext == Untroubled /\ [Next]_vars => Untroubled'
<1> SUFFICES ASSUME Untroubled, [Next]_vars PROVE Untroubled'
    OBVIOUS
<1> USE DEF Untroubled
<1>1. CASE RecordStep /\ UNCHANGED replaying
    BY <1>1, Zenon DEF RecordStep, TakeBranch, SkipBranch, LeaveLoop, TakePass, LoopNeverSettles,
                EnterSurface, Perform, Abandon, Store, Pops, replaying
<1>2. CASE BreakRecording /\ UNCHANGED replaying
    BY <1>2 DEF BreakRecording, replaying
<1>3. CASE ReplayStep
    <2>1. CASE StartReplay
        BY <2>1 DEF StartReplay
    <2>2. CASE LeaveOut
        BY <2>2, Zenon DEF LeaveOut
    <2>9. CASE MeetLoop
        <3>1. UNCHANGED <<ready, failed, passed, phase>>
            BY <2>9 DEF MeetLoop
        <3> QED
            BY <3>1
    <2>10. CASE DropLoop
        BY <2>10 DEF DropLoop
    <2>3. CASE SettleLoop \/ RepeatLoop
        <3>1. UNCHANGED <<ready, failed, passed, phase>>
            BY <2>3, Zenon DEF SettleLoop, RepeatLoop
        <3> QED
            BY <3>1
    <2>11. CASE NoActiveSurface
        BY <2>11 DEF NoActiveSurface, replaying
    <2>4. CASE ExhaustLoop
        BY <2>4 DEF ExhaustLoop, ReadsLoop, NextIsLoop, Now
    <2>5. CASE SkipAfterFailure
        BY <2>5, Zenon DEF SkipAfterFailure
    <2>6. CASE Approach
        BY <2>6, Zenon DEF Approach
    <2>7. CASE RunStep \/ FailStep
        <3>1. UNCHANGED <<phase, passed>> /\ ~ready'
            BY <2>7 DEF RunStep, FailStep
        <3>2. failed' \in BOOLEAN
            BY <2>7 DEF RunStep, FailStep
        <3> QED
            BY <3>1, <3>2
    <2>8. CASE Report
        BY <2>8 DEF Report
    <2> QED
        BY <1>3, <2>1, <2>2, <2>3, <2>4, <2>5, <2>6, <2>7, <2>8, <2>9, <2>10, <2>11
        DEF ReplayStep
<1>4. CASE Break
    BY <1>4 DEF Break, replaying
<1>5. CASE Drift /\ UNCHANGED <<phase, flow, app, active, captures, leaked, recording, replaying>>
    BY <1>5 DEF replaying
<1>6. CASE UNCHANGED vars
    BY <1>6 DEF vars, replaying
<1> QED
    BY <1>1, <1>2, <1>3, <1>4, <1>5, <1>6 DEF Next

\* No step the specification takes does, reads or remembers anything in a
\* failed run, or takes the failure back.
LEMMA FailedStep ==
    Untroubled /\ [Next]_vars =>
        [phase = "replay" /\ failed =>
            failed' /\ ~passed' /\ UNCHANGED <<done, captures, active, verdicts>>]_vars
<1> SUFFICES ASSUME Untroubled, [Next]_vars, phase = "replay", failed
             PROVE  failed' /\ ~passed' /\ UNCHANGED <<done, captures, active, verdicts>>
    OBVIOUS
<1>0. ~ready /\ ~passed
    BY DEF Untroubled
<1>1. CASE RecordStep /\ UNCHANGED replaying
    BY <1>1 DEF RecordStep, TakeBranch, SkipBranch, LeaveLoop, TakePass, LoopNeverSettles,
                EnterSurface, Perform, Abandon, Store, Pops
<1>2. CASE BreakRecording /\ UNCHANGED replaying
    BY <1>2 DEF BreakRecording
<1>3. CASE ReplayStep
    <2>1. CASE StartReplay
        BY <2>1 DEF StartReplay
    <2>2. CASE LeaveOut \/ MeetLoop \/ DropLoop \/ SkipAfterFailure
        <3>1. UNCHANGED <<failed, passed, done, captures, verdicts, page>>
            BY <2>2, Zenon DEF LeaveOut, MeetLoop, DropLoop, SkipAfterFailure
        <3> QED
            BY <3>1, <1>0 DEF page
    <2>3. CASE SettleLoop \/ ExhaustLoop \/ RepeatLoop
        BY <2>3 DEF SettleLoop, ExhaustLoop, RepeatLoop, ReadsLoop
    <2>4. CASE NoActiveSurface \/ Approach
        BY <2>4, Zenon DEF NoActiveSurface, Approach
    <2>5. CASE RunStep \/ FailStep
        BY <2>5, <1>0 DEF RunStep, FailStep, Running
    <2>6. CASE Report
        BY <2>6 DEF Report, page
    <2> QED
        BY <1>3, <2>1, <2>2, <2>3, <2>4, <2>5, <2>6 DEF ReplayStep
<1>4. CASE Break
    BY <1>0, <1>4 DEF Break, replaying, page
<1>5. CASE Drift /\ UNCHANGED <<phase, flow, app, active, captures, leaked, recording, replaying>>
    BY <1>0, <1>5 DEF replaying
<1>6. CASE UNCHANGED vars
    BY <1>0, <1>6 DEF vars, replaying, page
<1> QED
    BY <1>1, <1>2, <1>3, <1>4, <1>5, <1>6 DEF Next

\* After a failure replay does nothing more to the application, reads and
\* remembers nothing more, and does not pass.
THEOREM FailureIsFinal == Spec => FailedIsFinal
<1>1. Init => Untroubled
    BY UntroubledInit
<1>2. Untroubled /\ [Next]_vars => Untroubled'
    BY UntroubledNext
<1>3. Untroubled /\ [Next]_vars =>
        [phase = "replay" /\ failed =>
            failed' /\ ~passed' /\ UNCHANGED <<done, captures, active, verdicts>>]_vars
    BY FailedStep
<1> QED
    BY <1>1, <1>2, <1>3, PTL DEF Spec, FailedIsFinal
---------------------------------------------------------------------------
(* Sequences of anything.                                                  *)

\* A function from 1..n is a sequence of its own elements.
LEMMA FunIsSeq ==
    ASSUME NEW n \in Nat, NEW s, s = [k \in 1..n |-> s[k]]
    PROVE  IsSeq(s) /\ Len(s) = n /\ DOMAIN s = 1..n
<1>1. s \in [1..n -> ToSet(s)]
    BY DEF ToSet
<1>2. s \in Seq(ToSet(s))
    BY <1>1
<1> QED
    BY <1>1, <1>2 DEF IsSeq

LEMMA SeqIsSeq ==
    ASSUME NEW S, NEW s \in Seq(S)
    PROVE  IsSeq(s)
<1>1. Len(s) \in Nat /\ s = [k \in 1..Len(s) |-> s[k]]
    OBVIOUS
<1> QED
    BY <1>1, FunIsSeq

LEMMA AppendIsSeq ==
    ASSUME NEW s, NEW e, IsSeq(s)
    PROVE  /\ IsSeq(Append(s, e)) /\ Append(s, e) # <<>>
           /\ DOMAIN Append(s, e) = 1..(Len(s) + 1) /\ DOMAIN s = 1..Len(s) /\ Len(s) \in Nat
           /\ \A k \in DOMAIN Append(s, e) : Append(s, e)[k] = IF k = Len(s) + 1 THEN e ELSE s[k]
<1> DEFINE S == ToSet(s) \cup {e}
<1>1. s \in Seq(S) /\ e \in S
    <2>1. s \in Seq(ToSet(s)) /\ ToSet(s) \subseteq S
        BY DEF IsSeq
    <2> QED
        BY <2>1, SeqMonotonic
<1> HIDE DEF S
<1>2. Append(s, e) \in Seq(S)
    BY <1>1
<1>3. IsSeq(Append(s, e))
    BY <1>2, SeqIsSeq
<1> QED
    BY <1>1, <1>3, AppendProperties

LEMMA ConcatIsSeq ==
    ASSUME NEW s, NEW t, IsSeq(s), IsSeq(t)
    PROVE  /\ IsSeq(s \o t) /\ Len(s \o t) = Len(s) + Len(t) /\ Len(s) \in Nat /\ Len(t) \in Nat
           /\ DOMAIN (s \o t) = 1..(Len(s) + Len(t))
           /\ DOMAIN s = 1..Len(s) /\ DOMAIN t = 1..Len(t)
           /\ \A k \in DOMAIN (s \o t) : (s \o t)[k] = IF k <= Len(s) THEN s[k] ELSE t[k - Len(s)]
<1> DEFINE S == ToSet(s) \cup ToSet(t)
<1>1. s \in Seq(S) /\ t \in Seq(S)
    <2>1. s \in Seq(ToSet(s)) /\ t \in Seq(ToSet(t)) /\ ToSet(s) \subseteq S /\ ToSet(t) \subseteq S
        BY DEF IsSeq
    <2> QED
        BY <2>1, SeqMonotonic
<1> HIDE DEF S
<1>2. s \o t \in Seq(S)
    BY <1>1
<1>3. IsSeq(s \o t)
    BY <1>2, SeqIsSeq
<1> QED
    BY <1>1, <1>2, <1>3, ConcatProperties

LEMMA TailIsSeq ==
    ASSUME NEW s, IsSeq(s), s # <<>>
    PROVE  /\ IsSeq(Tail(s)) /\ Len(s) \in Nat \ {0} /\ DOMAIN s = 1..Len(s)
           /\ DOMAIN Tail(s) = 1..(Len(s) - 1) /\ Head(s) = s[1]
           /\ \A k \in DOMAIN Tail(s) : Tail(s)[k] = s[k + 1]
<1>1. s \in Seq(ToSet(s))
    BY DEF IsSeq
<1>2. Tail(s) \in Seq(ToSet(s))
    BY <1>1, HeadTailProperties
<1>3. IsSeq(Tail(s))
    BY <1>2, SeqIsSeq
<1> QED
    BY <1>1, <1>2, <1>3, HeadTailProperties

LEMMA ShortIsSeq ==
    ASSUME NEW x
    PROVE  /\ IsSeq(<<>>) /\ DOMAIN <<>> = {}
           /\ IsSeq(<<x>>) /\ Len(<<x>>) = 1 /\ DOMAIN <<x>> = {1} /\ <<x>>[1] = x
<1>1. <<>> \in Seq({}) /\ <<x>> \in Seq({x})
    OBVIOUS
<1>2. IsSeq(<<>>) /\ IsSeq(<<x>>)
    BY <1>1, SeqIsSeq
<1> QED
    BY <1>2

---------------------------------------------------------------------------
(* Types.                                                                  *)

Bodies(items) == \A k \in DOMAIN items : items[k].kind = "loop" => IsSeq(items[k].body)
Statused(entries) == \A k \in DOMAIN entries : entries[k].status \in Statuses

\* The body of a loop is a sequence: a recorded pass is finite.
LEMMA BodyIsSeq ==
    ASSUME IsSeq(trace), NEW first \in DOMAIN trace
    PROVE  IsSeq(Body(first))
<1>1. Len(trace) \in Nat /\ first \in 1..Len(trace)
    BY DEF IsSeq
<1>2. ASSUME NEW p PROVE Cardinality(Pass(first, p)) \in Nat
    <2>1. Pass(first, p) \subseteq first..Len(trace)
        BY DEF Pass
    <2>2. IsFiniteSet(first..Len(trace))
        BY <1>1, FS_Interval
    <2> QED
        BY <2>1, <2>2, FS_Subset, FS_CardinalityType
<1> DEFINE steps == Pass(first, Longest(first))
<1>3. Cardinality(steps) \in Nat
    BY <1>2
<1>4. Body(first) = [k \in 1..Cardinality(steps) |-> CHOOSE i \in steps : Cardinality({j \in steps : j < i}) = k - 1]
    BY DEF Body
<1> HIDE DEF steps
<1>5. Body(first) = [k \in 1..Cardinality(steps) |-> Body(first)[k]]
    BY <1>4
<1> QED
    BY <1>3, <1>5, FunIsSeq

\* What is left of the worklist when passes are dropped from its front.
LEMMA BeyondShaped ==
    ASSUME NEW items, NEW i, IsSeq(items), Bodies(items)
    PROVE  IsSeq(Beyond(i, items)) /\ Bodies(Beyond(i, items))
<1>1. Len(items) \in Nat /\ DOMAIN items = 1..Len(items) /\ items \in Seq(ToSet(items))
    BY DEF IsSeq
<1>2. PICK front : front \subseteq DOMAIN items /\ Beyond(i, items) = SubSeq(items, Cardinality(front) + 1, Len(items))
    BY DEF Beyond
<1>3. Cardinality(front) \in Nat
    <2>1. IsFiniteSet(1..Len(items))
        BY <1>1, FS_Interval
    <2> QED
        BY <1>1, <1>2, <2>1, FS_Subset, FS_CardinalityType
<1> DEFINE m == Cardinality(front) + 1
           n == Len(items)
<1>4. m \in Int /\ m >= 1 /\ n \in Int
    BY <1>1, <1>3
<1> HIDE DEF m, n
<1>5. \A j \in m..n : items[j] \in ToSet(items)
    <2>1. \A j \in m..n : j \in DOMAIN items
        BY <1>1, <1>4 DEF n
    <2> QED
        BY <2>1 DEF ToSet
<1>6. /\ SubSeq(items, m, n) \in Seq(ToSet(items))
      /\ Len(SubSeq(items, m, n)) = IF m <= n THEN n - m + 1 ELSE 0
      /\ \A j \in 1..(n - m + 1) : SubSeq(items, m, n)[j] = items[m + j - 1]
    BY <1>4, <1>5, SubSeqProperties
<1>7. Beyond(i, items) = SubSeq(items, m, n)
    BY <1>2 DEF m, n
<1>8. \A j \in DOMAIN SubSeq(items, m, n) : j \in 1..(n - m + 1) /\ m + j - 1 \in DOMAIN items
    BY <1>1, <1>4, <1>6 DEF n
<1>9. Bodies(SubSeq(items, m, n))
    BY <1>6, <1>8 DEF Bodies
<1> QED
    BY <1>6, <1>7, <1>9, SeqIsSeq

LEMMA TailShaped ==
    ASSUME NEW items, IsSeq(items), Bodies(items), items # <<>>
    PROVE  /\ IsSeq(Tail(items)) /\ Bodies(Tail(items))
           /\ Head(items).kind = "loop" => IsSeq(Head(items).body)
<1>1. /\ IsSeq(Tail(items)) /\ Len(items) \in Nat \ {0} /\ DOMAIN items = 1..Len(items)
      /\ DOMAIN Tail(items) = 1..(Len(items) - 1) /\ Head(items) = items[1]
      /\ \A k \in DOMAIN Tail(items) : Tail(items)[k] = items[k + 1]
    BY TailIsSeq
<1>2. \A k \in DOMAIN Tail(items) : k + 1 \in DOMAIN items
    BY <1>1
<1> QED
    BY <1>1, <1>2 DEF Bodies

LEMMA ConcatShaped ==
    ASSUME NEW s, NEW t, IsSeq(s), IsSeq(t), Bodies(s), Bodies(t)
    PROVE  IsSeq(s \o t) /\ Bodies(s \o t)
<1>1. /\ IsSeq(s \o t) /\ Len(s) \in Nat /\ Len(t) \in Nat
      /\ DOMAIN (s \o t) = 1..(Len(s) + Len(t)) /\ DOMAIN s = 1..Len(s) /\ DOMAIN t = 1..Len(t)
      /\ \A k \in DOMAIN (s \o t) : (s \o t)[k] = IF k <= Len(s) THEN s[k] ELSE t[k - Len(s)]
    BY ConcatIsSeq
<1>2. \A k \in DOMAIN (s \o t) : IF k <= Len(s) THEN k \in DOMAIN s ELSE k - Len(s) \in DOMAIN t
    BY <1>1
<1> QED
    BY <1>1, <1>2 DEF Bodies

LEMMA ReportConcat ==
    ASSUME NEW s, NEW t, IsSeq(s), IsSeq(t), Statused(s), Statused(t)
    PROVE  IsSeq(s \o t) /\ Statused(s \o t) /\ (s # <<>> => s \o t # <<>>)
<1>1. /\ IsSeq(s \o t) /\ Len(s) \in Nat /\ Len(t) \in Nat
      /\ DOMAIN (s \o t) = 1..(Len(s) + Len(t)) /\ DOMAIN s = 1..Len(s) /\ DOMAIN t = 1..Len(t)
      /\ \A k \in DOMAIN (s \o t) : (s \o t)[k] = IF k <= Len(s) THEN s[k] ELSE t[k - Len(s)]
    BY ConcatIsSeq
<1>2. \A k \in DOMAIN (s \o t) : IF k <= Len(s) THEN k \in DOMAIN s ELSE k - Len(s) \in DOMAIN t
    BY <1>1
<1>3. Statused(s \o t)
    BY <1>1, <1>2 DEF Statused
<1>4. ASSUME s # <<>> PROVE s \o t # <<>>
    <2>1. Len(s) # 0
        <3>1. s \in Seq(ToSet(s))
            BY DEF IsSeq
        <3> QED
            BY <1>4, <3>1, EmptySeq
    <2>2. Len(s \o t) # 0
        BY <1>1, <2>1, ConcatIsSeq
    <2> QED
        BY <2>2
<1> QED
    BY <1>1, <1>3, <1>4

\* An entry is taken off the worklist and reported.
LEMMA PopShaped ==
    ASSUME IsSeq(work), Bodies(work), IsSeq(results), Statused(results), work # <<>>,
           NEW entry, entry.status \in Statuses, Pop(entry)
    PROVE  IsSeq(work') /\ Bodies(work') /\ IsSeq(results') /\ Statused(results') /\ results' # <<>>
<1>1. work' = Tail(work) /\ results' = Append(results, entry)
    BY DEF Pop
<1>2. IsSeq(work') /\ Bodies(work')
    BY <1>1, TailShaped
<1>3. /\ IsSeq(results') /\ results' # <<>> /\ Len(results) \in Nat
      /\ DOMAIN results' = 1..(Len(results) + 1) /\ DOMAIN results = 1..Len(results)
      /\ \A k \in DOMAIN results' : results'[k] = IF k = Len(results) + 1 THEN entry ELSE results[k]
    BY <1>1, AppendIsSeq
<1>4. \A k \in DOMAIN results' : k = Len(results) + 1 \/ k \in DOMAIN results
    BY <1>3
<1>5. Statused(results')
    BY <1>3, <1>4 DEF Statused
<1> QED
    BY <1>2, <1>3, <1>5

\* TypeOK by its parts: the flags and numbers, the trace, and the worklist with
\* the report.
FlagsTyped == /\ leaked \in BOOLEAN /\ partial \in BOOLEAN /\ ready \in BOOLEAN
              /\ failed \in BOOLEAN /\ passed \in BOOLEAN
              /\ phase \in Phases /\ flow \in Flows /\ app \in Apps
TraceTyped == IsSeq(trace) /\ selected \subseteq DOMAIN trace /\ guardIds \in Nat /\ loopIds \in Nat
WorkTyped == IsSeq(work) /\ Bodies(work) /\ IsSeq(results) /\ Statused(results)

LEMMA TypeParts == TypeOK <=> FlagsTyped /\ TraceTyped /\ WorkTyped
BY DEF TypeOK, FlagsTyped, TraceTyped, WorkTyped, Bodies, Statused

LEMMA TypesInit == Init => TypeOK
<1> SUFFICES ASSUME Init PROVE FlagsTyped /\ TraceTyped /\ WorkTyped
    BY TypeParts
<1>1. FlagsTyped
    BY DEF Init, RecordingInit, ReplayInit, FlagsTyped, Phases
<1>2. trace = <<>> /\ selected = {} /\ work = <<>> /\ results = <<>> /\ guardIds = 0 /\ loopIds = 0
    BY DEF Init, RecordingInit, ReplayInit
<1>3. IsSeq(<<>>) /\ DOMAIN <<>> = {}
    BY ShortIsSeq
<1>4. TraceTyped
    BY <1>2, <1>3 DEF TraceTyped
<1>5. WorkTyped
    BY <1>2, <1>3 DEF WorkTyped, Bodies, Statused
<1> QED
    BY <1>1, <1>4, <1>5

LEMMA TypesRecord ==
    ASSUME TypeOK, RecordStep, UNCHANGED replaying
    PROVE  TypeOK'
<1> SUFFICES FlagsTyped' /\ TraceTyped' /\ WorkTyped'
    BY TypeParts DEF TypeOK, FlagsTyped, TraceTyped, WorkTyped, Bodies, Statused
<1>1. FlagsTyped /\ TraceTyped /\ WorkTyped
    BY TypeParts
<1>2. WorkTyped'
    BY <1>1 DEF WorkTyped, Bodies, Statused, replaying
<1>3. FlagsTyped'
    <2>1. UNCHANGED <<partial, ready, failed, passed, flow, app>>
        BY Zenon DEF replaying, RecordStep, TakeBranch, SkipBranch, LeaveLoop, TakePass, LoopNeverSettles, EnterSurface,
               Perform, Abandon, Store, page
    <2>2. phase' \in {phase, "refused", "stored"}
        BY Zenon DEF RecordStep, TakeBranch, SkipBranch, LeaveLoop, TakePass, LoopNeverSettles, EnterSurface,
               Perform, Abandon, Store
    <2>3. leaked' = leaked \/ leaked' \in BOOLEAN
        BY Zenon DEF RecordStep, TakeBranch, SkipBranch, LeaveLoop, TakePass, LoopNeverSettles, EnterSurface,
               Perform, Abandon, Store, Sample
    <2> QED
        BY <1>1, <2>1, <2>2, <2>3 DEF FlagsTyped, Phases
<1>4. TraceTyped'
    <2>1. /\ guardIds' = guardIds \/ guardIds' = guardIds + 1
          /\ loopIds' = loopIds \/ loopIds' = loopIds + 1
        BY Zenon DEF RecordStep, TakeBranch, SkipBranch, LeaveLoop, TakePass, LoopNeverSettles, EnterSurface,
               Perform, Abandon, Store, recording
    <2>2. trace' = trace \/ \E e : trace' = Append(trace, e)
        BY Zenon DEF RecordStep, TakeBranch, SkipBranch, LeaveLoop, TakePass, LoopNeverSettles, EnterSurface,
               Perform, Abandon, Store, recording
    <2>3. IsSeq(trace') /\ DOMAIN trace \subseteq DOMAIN trace'
        <3>1. IsSeq(trace)
            BY <1>1 DEF TraceTyped
        <3>2. CASE trace' = trace
            BY <3>1, <3>2
        <3>3. ASSUME NEW e, trace' = Append(trace, e)
              PROVE  IsSeq(trace') /\ DOMAIN trace \subseteq DOMAIN trace'
            <4>1. /\ IsSeq(trace') /\ DOMAIN trace' = 1..(Len(trace) + 1)
                  /\ DOMAIN trace = 1..Len(trace) /\ Len(trace) \in Nat
                BY <3>1, <3>3, AppendIsSeq
            <4> QED
                BY <4>1
        <3> QED
            BY <2>2, <3>2, <3>3
    <2>4. selected' = selected
        BY DEF replaying
    <2>5. guardIds' \in Nat /\ loopIds' \in Nat
        BY <1>1, <2>1 DEF TraceTyped
    <2>6. selected' \subseteq DOMAIN trace'
        BY <1>1, <2>3, <2>4 DEF TraceTyped
    <2> QED
        BY <2>3, <2>5, <2>6 DEF TraceTyped
<1> QED
    BY <1>2, <1>3, <1>4

\* A loop that is over adds its body to the report, if it never ran.
LEMMA SettleReports ==
    ASSUME TypeOK, SettleLoop
    PROVE  IsSeq(results') /\ Statused(results') /\ (results # <<>> => results' # <<>>)
<1>1. work # <<>> /\ Head(work).kind = "loop"
    BY DEF SettleLoop, ReadsLoop, NextIsLoop, Now
<1>2. IsSeq(Head(work).body)
    BY <1>1, TailShaped DEF TypeOK, Bodies
<1> DEFINE body == Head(work).body
           entries == [k \in DOMAIN body |-> Skipped(body[k], 1, "held")]
<1>3. IsSeq(entries) /\ Statused(entries)
    <2>1. Len(body) \in Nat /\ DOMAIN body = 1..Len(body)
        BY <1>2 DEF IsSeq
    <2>2. entries = [k \in 1..Len(body) |-> entries[k]]
        BY <2>1
    <2>3. Statused(entries)
        BY DEF Statused, Skipped, Result, Statuses
    <2> HIDE DEF entries
    <2> QED
        BY <2>1, <2>2, <2>3, FunIsSeq
<1>4. results' = results \/ results' = results \o entries
    BY DEF SettleLoop
<1> HIDE DEF entries
<1> QED
    BY <1>3, <1>4, ReportConcat DEF TypeOK, Statused

\* The report adds to its entries at its end.
LEMMA ReportReports ==
    ASSUME TypeOK, Report
    PROVE  IsSeq(results') /\ Statused(results') /\ (results # <<>> => results' # <<>>)
<1> USE DEF Statuses
<1> DEFINE missing == IF (~failed /\ ~leaked) /\ ~partial THEN flow.exports \ DOMAIN captures ELSE {}
           scanned == IF failed \/ ~leaked THEN <<>> ELSE <<Result(0, 1, "failed", "leak", 0)>>
           unresolved == [k \in 1..Cardinality(missing) |-> Result(0, 1, "failed", "exports", 0)]
<1>2. results' = results \o scanned \o unresolved
    BY DEF Report
<1>3. IsSeq(scanned) /\ Statused(scanned)
    <2>1. IsSeq(<<>>) /\ Statused(<<>>)
        BY ShortIsSeq DEF Statused
    <2>2. ASSUME NEW e, e.status = "failed" PROVE IsSeq(<<e>>) /\ Statused(<<e>>)
        BY <2>2, ShortIsSeq DEF Statused
    <2>3. Result(0, 1, "failed", "leak", 0).status = "failed"
        BY DEF Result
    <2> QED
        BY <2>1, <2>2, <2>3
<1>4. IsSeq(unresolved) /\ Statused(unresolved)
    <2>1. Cardinality(missing) \in Nat
        <3>1. IsFiniteSet(flow.exports)
            BY ExportsAssumption DEF TypeOK
        <3>2. missing \subseteq flow.exports
            OBVIOUS
        <3> QED
            BY <3>1, <3>2, FS_Subset, FS_CardinalityType
    <2> HIDE DEF missing
    <2>2. Statused(unresolved)
        BY DEF Statused, Result
    <2>3. unresolved = [k \in 1..Cardinality(missing) |-> unresolved[k]]
        OBVIOUS
    <2> HIDE DEF unresolved
    <2> QED
        BY <2>1, <2>2, <2>3, FunIsSeq
<1> HIDE DEF scanned, unresolved
<1>5. /\ IsSeq(results \o scanned) /\ Statused(results \o scanned)
      /\ results # <<>> => results \o scanned # <<>>
    BY <1>3, ReportConcat DEF TypeOK, Statused
<1>6. IsSeq(results') /\ Statused(results') /\ (results # <<>> => results' # <<>>)
    BY <1>2, <1>4, <1>5, ReportConcat
<1> QED
    BY <1>6

\* The step that is about to run is still on the worklist.
ReadyHasStep == ready => work # <<>> /\ phase \in {"replay", "error"}

\* The steps of replay leave the trace alone once it is selected from.
LEMMA TypesReplay ==
    ASSUME TypeOK, ReadyHasStep, ReplayStep, ~StartReplay
    PROVE  TypeOK'
<1> SUFFICES FlagsTyped' /\ TraceTyped' /\ WorkTyped'
    BY TypeParts DEF TypeOK, FlagsTyped, TraceTyped, WorkTyped, Bodies, Statused
<1>1. FlagsTyped /\ TraceTyped /\ WorkTyped
    BY TypeParts
<1> USE DEF Statuses
<1>2. ASSUME NEW entry, entry.status \in Statuses, Pop(entry), work # <<>>
      PROVE  WorkTyped'
    BY <1>1, <1>2, PopShaped DEF WorkTyped
<1>3. ASSUME UNCHANGED <<flow, app, recording, selected, partial>>,
             phase' \in {phase, "error", "reported"}, leaked' \in BOOLEAN,
             ready' \in BOOLEAN, failed' \in BOOLEAN, passed' \in BOOLEAN
      PROVE  FlagsTyped' /\ TraceTyped'
    <2>1. FlagsTyped'
        BY <1>1, <1>3 DEF FlagsTyped, Phases
    <2>2. TraceTyped'
        BY <1>1, <1>3 DEF TraceTyped, recording
    <2> QED
        BY <2>1, <2>2
<1>4. ready \in BOOLEAN /\ failed \in BOOLEAN /\ passed \in BOOLEAN /\ leaked \in BOOLEAN
    BY <1>1 DEF FlagsTyped
<1>5. CASE LeaveOut
    <2>1. WorkTyped'
        <3>1. work # <<>> /\ \E i, p, why : Pop(Skipped(i, p, why))
            BY <1>5, Zenon DEF LeaveOut, NextIsStep, Now
        <3> QED
            BY <1>2, <3>1 DEF Skipped, Result
    <2>2. UNCHANGED <<phase, flow, app, recording, selected, partial, leaked, ready, failed, passed>>
        BY <1>5, Zenon DEF LeaveOut, page
    <2> QED
        BY <1>3, <1>4, <2>1, <2>2
<1>6. CASE MeetLoop
    <2>1. UNCHANGED <<phase, flow, app, recording, selected, partial, leaked, ready, failed, passed, results>>
        BY <1>6 DEF MeetLoop, page
    <2>2. PICK i : i \in selected /\ work' = <<LoopAt(i, Body(i), 0)>> \o Beyond(i, Tail(work)) /\ work # <<>>
        BY <1>6 DEF MeetLoop, NextIsStep, Now
    <2>3. IsSeq(Body(i))
        BY <1>1, <2>2, BodyIsSeq DEF TraceTyped
    <2>4. IsSeq(<<LoopAt(i, Body(i), 0)>>) /\ Bodies(<<LoopAt(i, Body(i), 0)>>)
        BY <2>3, ShortIsSeq DEF Bodies, LoopAt
    <2>5. IsSeq(Beyond(i, Tail(work))) /\ Bodies(Beyond(i, Tail(work)))
        BY <1>1, <2>2, TailShaped, BeyondShaped DEF WorkTyped
    <2>6. IsSeq(work') /\ Bodies(work')
        BY <2>2, <2>4, <2>5, ConcatShaped
    <2>7. WorkTyped'
        BY <1>1, <2>1, <2>6 DEF WorkTyped
    <2> QED
        BY <1>3, <1>4, <2>1, <2>7
<1>7. CASE DropLoop
    <2>1. UNCHANGED <<phase, flow, app, recording, selected, partial, leaked, ready, failed, passed, results>>
        BY <1>7 DEF DropLoop, page
    <2>2. IsSeq(work') /\ Bodies(work')
        BY <1>1, <1>7, TailShaped DEF DropLoop, NextIsLoop, Now, WorkTyped
    <2>3. WorkTyped'
        BY <1>1, <2>1, <2>2 DEF WorkTyped
    <2> QED
        BY <1>3, <1>4, <2>1, <2>3
<1>8. CASE SettleLoop
    <2>1. UNCHANGED <<phase, flow, app, recording, selected, partial, leaked, ready, failed, passed>>
        BY <1>8 DEF SettleLoop, page
    <2>2. work # <<>> /\ Head(work).kind = "loop" /\ work' = Tail(work)
        BY <1>8 DEF SettleLoop, ReadsLoop, NextIsLoop, Now
    <2>3. IsSeq(work') /\ Bodies(work')
        BY <1>1, <2>2, TailShaped DEF WorkTyped
    <2>6. IsSeq(results') /\ Statused(results')
        BY <1>8, SettleReports
    <2>7. WorkTyped'
        BY <2>3, <2>6 DEF WorkTyped
    <2> QED
        BY <1>3, <1>4, <2>1, <2>7
<1>9. CASE ExhaustLoop
    <2>1. WorkTyped'
        BY <1>2, <1>9 DEF ExhaustLoop, ReadsLoop, NextIsLoop, Now, Result
    <2>2. UNCHANGED <<phase, flow, app, recording, selected, partial, leaked, ready, passed>> /\ failed' = TRUE
        BY <1>9 DEF ExhaustLoop, page
    <2> QED
        BY <1>3, <1>4, <2>1, <2>2
<1>10. CASE RepeatLoop
    <2>1. UNCHANGED <<phase, flow, app, recording, selected, partial, leaked, ready, failed, passed, results>>
        BY <1>10, Zenon DEF RepeatLoop, page
    <2> DEFINE w == Head(work)
               again == [k \in DOMAIN w.body |-> StepAt(w.body[k], w.passes + 1)]
               after == <<LoopAt(w.first, w.body, w.passes + 1)>>
    <2>2. work # <<>> /\ w.kind = "loop" /\ work' = again \o after \o Tail(work)
        BY <1>10, Zenon DEF RepeatLoop, ReadsLoop, NextIsLoop, Now
    <2>3. IsSeq(Tail(work)) /\ Bodies(Tail(work)) /\ IsSeq(w.body)
        BY <1>1, <2>2, TailShaped DEF WorkTyped
    <2>4. IsSeq(again) /\ Bodies(again)
        <3>1. Len(w.body) \in Nat /\ DOMAIN w.body = 1..Len(w.body)
            BY <2>3 DEF IsSeq
        <3>2. again = [k \in 1..Len(w.body) |-> again[k]]
            BY <3>1
        <3>3. Bodies(again)
            BY DEF Bodies, StepAt
        <3> HIDE DEF again
        <3> QED
            BY <3>1, <3>2, <3>3, FunIsSeq
    <2>5. IsSeq(after) /\ Bodies(after)
        BY <2>3, ShortIsSeq DEF Bodies, LoopAt
    <2> HIDE DEF again, after
    <2>6. IsSeq(work') /\ Bodies(work')
        BY <2>2, <2>3, <2>4, <2>5, ConcatShaped
    <2>7. WorkTyped'
        BY <1>1, <2>1, <2>6 DEF WorkTyped
    <2> QED
        BY <1>3, <1>4, <2>1, <2>7
<1>11. CASE NoActiveSurface
    <2>1. phase' = "error" /\ UNCHANGED <<flow, app, recording, leaked, selected, partial, ready, failed, passed, work, results>>
        BY <1>11 DEF NoActiveSurface, page, replaying
    <2>2. WorkTyped'
        BY <1>1, <2>1 DEF WorkTyped, Bodies, Statused
    <2> QED
        BY <1>3, <1>4, <2>1, <2>2
<1>12. CASE SkipAfterFailure
    <2>1. WorkTyped'
        <3>1. work # <<>> /\ \E i, p, why : Pop(Skipped(i, p, why))
            BY <1>12, Zenon DEF SkipAfterFailure, AtStep, NextIsStep, Now
        <3> QED
            BY <1>2, <3>1 DEF Skipped, Result
    <2>2. UNCHANGED <<phase, flow, app, recording, selected, partial, leaked, ready, failed, passed>>
        BY <1>12, Zenon DEF SkipAfterFailure, page
    <2> QED
        BY <1>3, <1>4, <2>1, <2>2
<1>13. CASE Approach
    <2>1. \/ ready' = TRUE /\ UNCHANGED <<work, results>>
          \/ ready' = ready /\ \E e : e.status \in Statuses /\ Pop(e)
        <3>1. \A i, p, why, g : Result(i, p, "skipped", why, g).status \in Statuses
            BY DEF Result
        <3>2. \/ ready' = TRUE /\ UNCHANGED <<work, results>>
              \/ ready' = ready /\ \E i, p, why, g : Pop(Result(i, p, "skipped", why, g))
            BY <1>13, Zenon DEF Approach
        <3> QED
            BY <3>1, <3>2
    <2>2. WorkTyped'
        <3>1. CASE UNCHANGED <<work, results>>
            BY <1>1, <3>1 DEF WorkTyped, Bodies, Statused
        <3>2. work # <<>>
            BY <1>13, Zenon DEF Approach, AtStep, NextIsStep, Now
        <3> QED
            BY <1>2, <2>1, <3>1, <3>2
    <2>3. UNCHANGED <<phase, flow, app, recording, selected, partial, leaked, failed, passed>>
        BY <1>13, Zenon DEF Approach
    <2> QED
        BY <1>3, <1>4, <2>1, <2>2, <2>3, Zenon
<1>14. CASE RunStep \/ FailStep
    <2>1. /\ UNCHANGED <<phase, flow, app, recording, selected, partial, passed>> /\ ready' = FALSE
          /\ leaked' = leaked \/ leaked' \in BOOLEAN
          /\ failed' = failed \/ failed' = TRUE
        BY <1>14 DEF RunStep, FailStep, Sample, page
    <2>2. \E i, p, why : Pop(Result(i, p, "passed", why, 0)) \/ Pop(Result(i, p, "failed", why, 0))
        BY <1>14 DEF RunStep, FailStep
    <2>3. work # <<>>
        BY <1>14 DEF RunStep, FailStep, Running, ReadyHasStep
    <2>4. WorkTyped'
        BY <1>2, <2>2, <2>3 DEF Result
    <2> QED
        BY <1>3, <1>4, <2>1, <2>4
<1>15. CASE Report
    <2>1. /\ phase' = "reported" /\ UNCHANGED <<flow, app, leaked, recording, selected, partial, work, ready>>
          /\ failed' \in BOOLEAN /\ passed' \in BOOLEAN
        BY <1>15 DEF Report, page
    <2>6. IsSeq(results') /\ Statused(results')
        BY <1>15, ReportReports
    <2>7. WorkTyped'
        BY <1>1, <2>1, <2>6 DEF WorkTyped
    <2> QED
        BY <1>3, <1>4, <2>1, <2>7
<1> QED
    BY <1>5, <1>6, <1>7, <1>8, <1>9, <1>10, <1>11, <1>12, <1>13, <1>14, <1>15 DEF ReplayStep

LEMMA TypesStart ==
    ASSUME TypeOK, StartReplay
    PROVE  TypeOK'
<1> SUFFICES FlagsTyped' /\ TraceTyped' /\ WorkTyped'
    BY TypeParts DEF TypeOK, FlagsTyped, TraceTyped, WorkTyped, Bodies, Statused
<1>1. FlagsTyped /\ TraceTyped /\ WorkTyped
    BY TypeParts
<1>2. /\ phase' = "replay" /\ app' \in Apps /\ leaked' = FALSE /\ UNCHANGED <<flow, recording, ready, failed, passed, results>>
      /\ partial' \in BOOLEAN
      /\ selected' = DOMAIN trace \/ \E from, until \in 1..StepCount : selected' = Within(from, until)
      /\ work' = [i \in DOMAIN trace |-> StepAt(i, 1)]
    BY DEF StartReplay
<1>3. FlagsTyped'
    BY <1>1, <1>2 DEF FlagsTyped, Phases
<1>4. TraceTyped'
    <2>1. selected' \subseteq DOMAIN trace
        BY <1>2 DEF Within
    <2> QED
        BY <1>1, <1>2, <2>1 DEF TraceTyped, recording
<1>5. WorkTyped'
    <2>1. Len(trace) \in Nat /\ DOMAIN trace = 1..Len(trace)
        BY <1>1 DEF TraceTyped, IsSeq
    <2>2. Bodies(work')
        BY <1>2 DEF Bodies, StepAt
    <2>3. work' = [i \in 1..Len(trace) |-> work'[i]]
        BY <1>2, <2>1
    <2>4. IsSeq(work')
        BY <2>1, <2>3, FunIsSeq
    <2> QED
        BY <1>1, <1>2, <2>2, <2>4 DEF WorkTyped
<1> QED
    BY <1>3, <1>4, <1>5

LEMMA TypesNext ==
    ASSUME TypeOK, ReadyHasStep, [Next]_vars
    PROVE  TypeOK'
<1>1. CASE Break \/ (BreakRecording /\ UNCHANGED replaying)
    <2>1. phase' \in Phases /\ UNCHANGED <<flow, app, leaked, recording, partial, ready, failed, passed, selected, work, results>>
        BY <1>1 DEF Break, BreakRecording, page, replaying, Phases
    <2> QED
        BY <2>1 DEF TypeOK, recording
<1>2. CASE Drift /\ UNCHANGED <<phase, flow, app, active, captures, leaked, recording, replaying>>
    BY <1>2 DEF TypeOK, recording, replaying
<1>3. CASE UNCHANGED vars
    BY <1>3 DEF TypeOK, vars, page, recording, replaying
<1> QED
    BY <1>1, <1>2, <1>3, TypesRecord, TypesReplay, TypesStart DEF Next

LEMMA ReadyStep ==
    ASSUME TypeOK, ReadyHasStep, [Next]_vars
    PROVE  ReadyHasStep'
<1>1. CASE Approach
    BY <1>1, Zenon DEF Approach, AtStep, NextIsStep, Now, ReadyHasStep
<1>2. CASE ReplayStep /\ ~Approach /\ ~RunStep /\ ~FailStep /\ ~StartReplay /\ ~NoActiveSurface
    <2>1. ~ready /\ ready' = ready
        BY <1>2, Zenon DEF ReplayStep, LeaveOut, MeetLoop, DropLoop, SettleLoop, ExhaustLoop, RepeatLoop, SkipAfterFailure,
                    Report, AtStep, NextIsStep, NextIsLoop, ReadsLoop, Now
    <2> QED
        BY <2>1 DEF ReadyHasStep
<1>3. CASE RunStep \/ FailStep
    BY <1>3 DEF RunStep, FailStep, ReadyHasStep
<1>4. CASE StartReplay
    BY <1>4 DEF StartReplay, ReadyHasStep
<1>5. CASE NoActiveSurface \/ Break
    BY <1>5 DEF NoActiveSurface, Break, replaying, ReadyHasStep
<1>6. CASE (RecordStep \/ BreakRecording) /\ UNCHANGED replaying
    <2>1. phase \notin {"replay", "error"} /\ ready' = ready
        BY <1>6, Zenon DEF RecordStep, TakeBranch, SkipBranch, LeaveLoop, TakePass, LoopNeverSettles, EnterSurface,
                    Perform, Abandon, Store, BreakRecording, Pops, replaying
    <2> QED
        BY <2>1 DEF ReadyHasStep
<1>7. CASE Drift /\ UNCHANGED <<phase, flow, app, active, captures, leaked, recording, replaying>>
    BY <1>7 DEF ReadyHasStep, replaying
<1>8. CASE UNCHANGED vars
    BY <1>8 DEF ReadyHasStep, vars, replaying
<1> QED
    BY <1>1, <1>2, <1>3, <1>4, <1>5, <1>6, <1>7, <1>8 DEF Next

Typed == TypeOK /\ ReadyHasStep

LEMMA TypedAlways == Init => Typed
BY TypesInit DEF Typed, ReadyHasStep, Init, ReplayInit

\* Every variable has its type, for every flow and every application.
THEOREM TypeCorrect == Spec => []TypeOK
<1>1. Typed /\ [Next]_vars => Typed'
    BY TypesNext, ReadyStep DEF Typed
<1>2. Typed => TypeOK
    BY DEF Typed
<1> QED
    BY TypedAlways, <1>1, <1>2, PTL DEF Spec

---------------------------------------------------------------------------
(* What is handed over.                                                    *)

\* Before the report nothing is handed over; and what a run remembers it
\* remembers from a step that it reported.
NothingYet ==
    /\ phase # "reported" => exports = <<>> /\ ~passed
    /\ phase = "replay" /\ DOMAIN captures # {} => results # <<>>

HandedOver == NothingYet /\ ExportsFromPassOnly

LEMMA HandedRecord ==
    ASSUME HandedOver, (RecordStep \/ BreakRecording) /\ UNCHANGED replaying
    PROVE  HandedOver'
<1>1. phase = "record" /\ phase' \in {"record", "refused", "stored"}
    BY Zenon DEF RecordStep, TakeBranch, SkipBranch, LeaveLoop, TakePass, LoopNeverSettles, EnterSurface,
           Perform, Abandon, Store, BreakRecording, Pops
<1>2. UNCHANGED <<exports, passed>>
    BY DEF replaying
<1> QED
    BY <1>1, <1>2 DEF HandedOver, NothingYet, ExportsFromPassOnly

LEMMA HandedReplay ==
    ASSUME Typed, HandedOver, ReplayStep, ~Report
    PROVE  HandedOver'
<1>1. /\ phase \in {"stored", "replay"} /\ phase' \in {"replay", "error"}
      /\ UNCHANGED <<exports, passed>>
    BY Zenon DEF ReplayStep, StartReplay, LeaveOut, MeetLoop, DropLoop, SettleLoop, ExhaustLoop, RepeatLoop,
           SkipAfterFailure, Approach, RunStep, FailStep, NoActiveSurface, AtStep, NextIsStep, NextIsLoop,
           ReadsLoop, Now, Running, replaying
<1>2. exports = <<>> /\ ~passed
    BY <1>1 DEF HandedOver, NothingYet
<1>3. IsSeq(results) /\ IsSeq(work) /\ Statused(results)
    BY DEF Typed, TypeOK, Statused
<1>4. ASSUME NEW e, Pop(e) PROVE results' # <<>>
    BY <1>3, <1>4, AppendIsSeq DEF Pop
<1>5. DOMAIN captures' # {} => (phase = "replay" /\ results # <<>> => results' # <<>>)
    <2>1. CASE StartReplay
        BY <2>1 DEF StartReplay
    <2>2. CASE MeetLoop \/ DropLoop \/ RepeatLoop
        BY <2>2, Zenon DEF MeetLoop, DropLoop, RepeatLoop
    <2>3. CASE NoActiveSurface
        BY <2>3 DEF NoActiveSurface, replaying
    <2>4. CASE LeaveOut \/ ExhaustLoop \/ SkipAfterFailure \/ RunStep \/ FailStep
        <3>1. \E e : Pop(e)
            BY <2>4, Zenon DEF LeaveOut, ExhaustLoop, SkipAfterFailure, RunStep, FailStep
        <3> QED
            BY <1>4, <3>1
    <2>5. CASE Approach
        <3>1. results' = results \/ \E e : Pop(e)
            BY <2>5, Zenon DEF Approach
        <3> QED
            BY <1>4, <3>1
    <2>6. CASE SettleLoop
        BY <2>6, SettleReports DEF Typed
    <2> QED
        BY <2>1, <2>2, <2>3, <2>4, <2>5, <2>6 DEF ReplayStep
<1>6. CASE StartReplay
    <2>1. captures' = <<>> /\ DOMAIN <<>> = {}
        BY <1>6, ShortIsSeq DEF StartReplay
    <2> QED
        BY <1>1, <1>2, <2>1 DEF HandedOver, NothingYet, ExportsFromPassOnly
<1>7. CASE RunStep
    <2>1. \E e : Pop(e)
        BY <1>7 DEF RunStep
    <2>2. results' # <<>>
        BY <1>4, <2>1
    <2> QED
        BY <1>1, <1>2, <2>2 DEF HandedOver, NothingYet, ExportsFromPassOnly
<1>8. CASE ~StartReplay /\ ~RunStep
    <2>1. phase = "replay" /\ captures' = captures
        BY <1>8, Zenon DEF ReplayStep, LeaveOut, MeetLoop, DropLoop, SettleLoop, ExhaustLoop, RepeatLoop,
           SkipAfterFailure, Approach, FailStep, Report, NoActiveSurface, AtStep, NextIsStep, NextIsLoop,
           ReadsLoop, Now, Running
    <2>2. DOMAIN captures' # {} => results' # <<>>
        BY <1>5, <2>1 DEF HandedOver, NothingYet
    <2> QED
        BY <1>1, <1>2, <2>2 DEF HandedOver, NothingYet, ExportsFromPassOnly
<1> QED
    BY <1>6, <1>7, <1>8

LEMMA HandedReport ==
    ASSUME Typed, HandedOver, Report
    PROVE  HandedOver'
<1> DEFINE missing == IF (~failed /\ ~leaked) /\ ~partial THEN flow.exports \ DOMAIN captures ELSE {}
<1>1. /\ phase = "replay" /\ phase' = "reported" /\ UNCHANGED <<captures, leaked, partial, flow>>
      /\ failed' = (~(~failed /\ ~leaked) \/ missing # {})
      /\ exports' = IF failed' \/ partial THEN <<>> ELSE [n \in flow.exports |-> captures[n]]
    BY DEF Report, page
<1>2. passed' => ~failed'
    BY DEF Report
<1>3. ~partial /\ ~failed' /\ results' # <<>> => passed'
    BY DEF Report
<1>4. DOMAIN captures # {} => results' # <<>>
    <2>1. results # <<>> => results' # <<>>
        BY ReportReports DEF Typed
    <2> QED
        BY <1>1, <2>1 DEF HandedOver, NothingYet
<1>5. ~failed' => ~failed /\ ~leaked' /\ (partial \/ flow.exports \subseteq DOMAIN captures)
    BY <1>1
<1>6. CASE failed' \/ partial
    <2>1. exports' = <<>> /\ (passed' => partial') /\ DOMAIN exports' = {}
        BY <1>1, <1>2, <1>6, ShortIsSeq
    <2> QED
        BY <1>1, <2>1 DEF HandedOver, NothingYet, ExportsFromPassOnly
<1>7. CASE ~failed' /\ ~partial
    <2>1. /\ exports' = [n \in flow.exports |-> captures[n]] /\ ~leaked'
          /\ flow.exports \subseteq DOMAIN captures
        BY <1>1, <1>5, <1>7
    <2>2. exports' # <<>> => passed'
        <3>1. flow.exports = {} => exports' = <<>>
            BY <2>1
        <3>2. CASE flow.exports # {}
            BY <1>3, <1>4, <1>7, <2>1, <3>2
        <3> QED
            BY <3>1, <3>2
    <2>3. DOMAIN exports' = flow.exports' /\ \A n \in DOMAIN exports' : exports'[n] = captures'[n]
        BY <1>1, <2>1
    <2> QED
        BY <1>1, <1>7, <2>1, <2>2, <2>3 DEF HandedOver, NothingYet, ExportsFromPassOnly
<1> QED
    BY <1>6, <1>7

LEMMA HandedNext == Typed /\ HandedOver /\ [Next]_vars => HandedOver'
<1> SUFFICES ASSUME Typed, HandedOver, [Next]_vars PROVE HandedOver'
    OBVIOUS
<1>1. CASE Break
    BY <1>1 DEF Break, replaying, HandedOver, NothingYet, ExportsFromPassOnly
<1>2. CASE Drift /\ UNCHANGED <<phase, flow, app, active, captures, leaked, recording, replaying>>
    BY <1>2 DEF replaying, HandedOver, NothingYet, ExportsFromPassOnly
<1>3. CASE UNCHANGED vars
    BY <1>3 DEF vars, page, replaying, HandedOver, NothingYet, ExportsFromPassOnly
<1> QED
    BY <1>1, <1>2, <1>3, HandedRecord, HandedReplay, HandedReport DEF Next

\* What a flow hands to its successors comes from a run of the whole flow that
\* passed, leaked nothing and is complete (resolve_exports, all or none), for
\* every flow and every application.
THEOREM ExportsAreOfAPass == Spec => []ExportsFromPassOnly
<1>1. Init => Typed /\ HandedOver
    <2>1. Init => HandedOver
        BY ShortIsSeq DEF Init, RecordingInit, ReplayInit, HandedOver, NothingYet, ExportsFromPassOnly
    <2> QED
        BY <2>1, TypedAlways
<1>2. Typed /\ HandedOver /\ [Next]_vars => (Typed /\ HandedOver)'
    BY HandedNext, TypesNext, ReadyStep DEF Typed
<1>3. HandedOver => ExportsFromPassOnly
    BY DEF HandedOver
<1> QED
    BY <1>1, <1>2, <1>3, PTL DEF Spec

---------------------------------------------------------------------------
(* What the recorder writes down.                                          *)

\* A repeat: that is recorded as a loop: not a comparison, and not inside another.
LoopEntry(e) == e.node.kind = "repeat" /\ e.node.until \notin Compared /\ e.rep.id = 0

\* No repeat: whose condition replay reads again is under the guard of a when: block.
LoopsUnguarded ==
    phase = "record" => \A k \in DOMAIN queue : LoopEntry(queue[k]) => queue[k].guards = <<>>

\* The guards a step of the queue or of the trace carries.
Ids(e) == {e.guards[g].id : g \in DOMAIN e.guards}

Fields == {"node", "guards", "rep", "number", "passes", "own"}
\* What an entry of the queue is.
EntryTyped(e) ==
    /\ DOMAIN e = Fields
    /\ e.node \in Nodes /\ IsSeq(e.guards)
    /\ e.own \in 0..loopIds /\ e.rep.id \in 0..loopIds
    /\ e.rep.id = 0 => e.rep = NoLoop
    /\ e.node.kind = "in" => e.rep.id = 0

QueueTyped == IsSeq(queue) /\ \A k \in DOMAIN queue : EntryTyped(queue[k])

\* What replay relies on in a step of the trace.
TraceKnown ==
    /\ IsSeq(trace) /\ guardIds \in Nat /\ loopIds \in Nat
    /\ \A i \in DOMAIN trace : IsSeq(trace[i].guards) /\ trace[i].rep.id \in 0..loopIds

\* The steps of loop L are being recorded: they are at the front of the queue, and
\* the loop itself is behind them.
OpenLoop(e, L) == LoopEntry(e) /\ e.own = L
OpenAt(L, k) ==
    /\ OpenLoop(queue[k], L)
    /\ \A j \in DOMAIN queue : j < k => queue[j].rep.id = L
    /\ \A j \in DOMAIN queue : j > k => queue[j].rep.id # L /\ ~OpenLoop(queue[j], L)
Closed(L) == \A k \in DOMAIN queue : queue[k].rep.id # L /\ ~OpenLoop(queue[k], L)

\* A loop with a pass in the queue is the one being recorded.
LoopsOpen ==
    \A k \in DOMAIN queue :
        /\ queue[k].rep.id # 0 => \E m \in DOMAIN queue : OpenAt(queue[k].rep.id, m)
        /\ LoopEntry(queue[k]) /\ queue[k].own # 0 => OpenAt(queue[k].own, k)

\* A loop with steps in the trace is over, or its steps are the last ones.
LoopsDone ==
    \A i \in DOMAIN trace : trace[i].rep.id # 0 =>
        Closed(trace[i].rep.id) \/ \A j \in DOMAIN trace : i <= j => SameLoop(i, j)

\* The steps of a loop stand together in the trace.
LoopsTogether ==
    \A i, j \in DOMAIN trace : trace[i].rep.id # 0 /\ SameLoop(i, j) =>
        \A m \in DOMAIN trace : i <= m /\ m <= j => SameLoop(i, m)

\* A guard belongs to the steps of one loop, or to steps outside the loops.
Entries == ToSet(queue) \cup ToSet(trace)
GuardsKnown ==
    /\ \A a \in Entries : \A g \in Ids(a) : g \in 1..guardIds
    /\ \A a, b \in Entries : \A g \in Ids(a) : g \in Ids(b) => a.rep.id = b.rep.id

\* The steps of a loop have one number, that of the loop.
Numbered(L, n) ==
    \/ \E e \in Entries : e.rep.id = L /\ e.number = n
    \/ \E k \in DOMAIN queue : OpenLoop(queue[k], L) /\ queue[k].number = n
NumbersKnown == \A L, n, m : L # 0 /\ Numbered(L, n) /\ Numbered(L, m) => n = m

\* The invariant of the recorder, which what it says of guards completes.
Written == QueueTyped /\ TraceKnown /\ LoopsOpen /\ LoopsDone /\ LoopsTogether /\ NumbersKnown
Recorded == Written /\ GuardsKnown

\* The queue after its head made way for other entries.
LEMMA QueueAfter ==
    ASSUME IsSeq(queue), queue # <<>>, NEW ins, IsSeq(ins), queue' = ins \o Tail(queue)
    PROVE  /\ IsSeq(queue') /\ Len(ins) \in Nat /\ Len(queue) \in Nat \ {0}
           /\ DOMAIN ins = 1..Len(ins) /\ DOMAIN queue = 1..Len(queue) /\ Head(queue) = queue[1]
           /\ DOMAIN queue' = 1..(Len(ins) + Len(queue) - 1)
           /\ \A k \in DOMAIN queue' : queue'[k] = IF k <= Len(ins) THEN ins[k] ELSE queue[k - Len(ins) + 1]
<1>1. /\ IsSeq(Tail(queue)) /\ Len(queue) \in Nat \ {0} /\ DOMAIN queue = 1..Len(queue)
      /\ DOMAIN Tail(queue) = 1..(Len(queue) - 1) /\ Head(queue) = queue[1]
      /\ \A k \in DOMAIN Tail(queue) : Tail(queue)[k] = queue[k + 1]
    BY TailIsSeq
<1> DEFINE rest == Tail(queue)
<1> HIDE DEF rest
<1>2. /\ IsSeq(ins \o rest) /\ Len(ins) \in Nat /\ Len(rest) \in Nat
      /\ DOMAIN (ins \o rest) = 1..(Len(ins) + Len(rest))
      /\ DOMAIN ins = 1..Len(ins) /\ DOMAIN rest = 1..Len(rest)
      /\ \A k \in DOMAIN (ins \o rest) : (ins \o rest)[k] = IF k <= Len(ins) THEN ins[k] ELSE rest[k - Len(ins)]
    BY <1>1, ConcatIsSeq DEF rest
<1>3. queue' = ins \o rest
    BY DEF rest
<1>4. DOMAIN rest = 1..(Len(queue) - 1) /\ \A k \in DOMAIN rest : rest[k] = queue[k + 1]
    BY <1>1 DEF rest
<1>5. Len(rest) = Len(queue) - 1
    <2>1. queue \in Seq(ToSet(queue))
        BY DEF IsSeq
    <2> QED
        BY <2>1, HeadTailProperties DEF rest
<1>6. \A k \in DOMAIN queue' : k > Len(ins) => rest[k - Len(ins)] = queue[k - Len(ins) + 1]
    BY <1>1, <1>2, <1>3, <1>4, <1>5
<1>7. DOMAIN queue' = 1..(Len(ins) + Len(queue) - 1)
    BY <1>1, <1>2, <1>3, <1>5
<1>8. \A k \in DOMAIN queue' : queue'[k] = IF k <= Len(ins) THEN ins[k] ELSE queue[k - Len(ins) + 1]
    BY <1>2, <1>3, <1>6, <1>7
<1> QED
    BY <1>1, <1>2, <1>3, <1>7, <1>8

\* A step of the recorder takes the head of the queue, e, and puts ins in its place.
Takes(ins) ==
    /\ queue # <<>> /\ IsSeq(ins) /\ queue' = ins \o Tail(queue)
    /\ loopIds' \in Nat /\ loopIds <= loopIds' /\ guardIds' \in {guardIds, guardIds + 1}
    /\ \A k \in DOMAIN ins :
          /\ DOMAIN ins[k] = Fields
          /\ ins[k].node \in Nodes /\ IsSeq(ins[k].guards)
          /\ ins[k].own \in 0..loopIds' /\ ins[k].rep.id \in 0..loopIds'
          /\ ins[k].rep.id = 0 => ins[k].rep = NoLoop
          /\ ins[k].node.kind # "in"

LEMMA QueueTypedAfter ==
    ASSUME QueueTyped, TraceKnown, NEW ins, Takes(ins)
    PROVE  QueueTyped'
<1>1. /\ IsSeq(queue') /\ Len(ins) \in Nat /\ Len(queue) \in Nat \ {0}
      /\ DOMAIN ins = 1..Len(ins) /\ DOMAIN queue = 1..Len(queue)
      /\ DOMAIN queue' = 1..(Len(ins) + Len(queue) - 1)
      /\ \A k \in DOMAIN queue' : queue'[k] = IF k <= Len(ins) THEN ins[k] ELSE queue[k - Len(ins) + 1]
    BY QueueAfter DEF QueueTyped, Takes
<1>2. loopIds \in Nat /\ loopIds' \in Nat /\ loopIds <= loopIds'
    BY DEF TraceKnown, Takes
<1>3. ASSUME NEW k \in DOMAIN queue' PROVE EntryTyped(queue[k])'
    <2>1. CASE k <= Len(ins)
        <3>1. k \in DOMAIN ins /\ queue'[k] = ins[k]
            BY <1>1, <1>3, <2>1
        <3> QED
            BY <3>1 DEF Takes, EntryTyped
    <2>2. CASE k > Len(ins)
        <3>1. k - Len(ins) + 1 \in DOMAIN queue /\ queue'[k] = queue[k - Len(ins) + 1]
            BY <1>1, <1>3, <2>2
        <3>2. EntryTyped(queue[k - Len(ins) + 1])
            BY <3>1 DEF QueueTyped
        <3> QED
            BY <1>2, <3>1, <3>2 DEF EntryTyped
    <2> QED
        BY <1>1, <1>3, <2>1, <2>2
<1> QED
    BY <1>1, <1>3 DEF QueueTyped

\* Only the head of the queue is new to the guards.
LEMMA GuardsStay ==
    ASSUME GuardsKnown, guardIds \in Nat, guardIds' \in {guardIds, guardIds + 1}, NEW e \in Entries,
           \A d \in Entries' :
               \/ d \in Entries
               \/ Ids(d) = {}
               \/ d.rep.id = e.rep.id /\ \A g \in Ids(d) : g \in Ids(e) \/ (g = guardIds + 1 /\ guardIds' = g)
    PROVE  GuardsKnown'
<1>1. \A a \in Entries : \A g \in Ids(a) : g \in 1..guardIds
    BY DEF GuardsKnown
<1>2. ASSUME NEW a \in Entries', NEW g \in Ids(a) PROVE g \in 1..guardIds'
    BY <1>1
<1>3. ASSUME NEW a \in Entries', NEW b \in Entries', NEW g \in Ids(a), g \in Ids(b)
      PROVE  a.rep.id = b.rep.id
    <2>1. CASE g = guardIds + 1
        BY <1>1, <1>3, <2>1
    <2>2. CASE g # guardIds + 1
        <3>1. \E c \in Entries : c.rep.id = a.rep.id /\ g \in Ids(c)
            BY <1>3, <2>2
        <3>2. \E c \in Entries : c.rep.id = b.rep.id /\ g \in Ids(c)
            BY <1>3, <2>2
        <3> QED
            BY <3>1, <3>2 DEF GuardsKnown
    <2> QED
        BY <2>1, <2>2
<1> QED
    BY <1>2, <1>3 DEF GuardsKnown

LEMMA EntriesAfter ==
    ASSUME QueueTyped, NEW ins, Takes(ins)
    PROVE  ToSet(queue)' \subseteq ToSet(ins) \cup ToSet(queue) /\ Head(queue) \in ToSet(queue)
<1>1. /\ Len(ins) \in Nat /\ Len(queue) \in Nat \ {0}
      /\ DOMAIN ins = 1..Len(ins) /\ DOMAIN queue = 1..Len(queue) /\ Head(queue) = queue[1]
      /\ DOMAIN queue' = 1..(Len(ins) + Len(queue) - 1)
      /\ \A k \in DOMAIN queue' : queue'[k] = IF k <= Len(ins) THEN ins[k] ELSE queue[k - Len(ins) + 1]
    BY QueueAfter DEF QueueTyped, Takes
<1>2. ASSUME NEW k \in DOMAIN queue' PROVE queue'[k] \in ToSet(ins) \cup ToSet(queue)
    <2>1. CASE k <= Len(ins)
        <3>1. k \in DOMAIN ins /\ queue'[k] = ins[k]
            BY <1>1, <1>2, <2>1
        <3> QED
            BY <3>1 DEF ToSet
    <2>2. CASE k > Len(ins)
        <3>1. k - Len(ins) + 1 \in DOMAIN queue /\ queue'[k] = queue[k - Len(ins) + 1]
            BY <1>1, <1>2, <2>2
        <3> QED
            BY <3>1 DEF ToSet
    <2> QED
        BY <1>1, <1>2, <2>1, <2>2
<1>3. 1 \in DOMAIN queue
    BY <1>1
<1> QED
    BY <1>1, <1>2, <1>3 DEF ToSet

\* Whatever is new belongs to loop K, whose number is n.
LEMMA NumbersAfter ==
    ASSUME NumbersKnown, QueueTyped, NEW ins, Takes(ins), NEW K, NEW n,
           K # 0 => \A m : Numbered(K, m) => m = n,
           \A d \in ToSet(ins) : d.rep.id # 0 => d.rep.id = K /\ d.number = n,
           \A d \in ToSet(ins) : LoopEntry(d) /\ d.own # 0 => d.own = K /\ d.number = n,
           \A d \in ToSet(trace)' : d \in ToSet(trace) \/ (d.rep.id = K /\ d.number = n)
    PROVE  NumbersKnown'
<1>1. ToSet(queue)' \subseteq ToSet(ins) \cup ToSet(queue)
    BY EntriesAfter
<1>2. ASSUME NEW L, NEW m, L # 0, Numbered(L, m)'
      PROVE  Numbered(L, m) \/ (L = K /\ m = n)
    <2>1. ASSUME NEW d \in Entries', d.rep.id = L, d.number = m
          PROVE  Numbered(L, m) \/ (L = K /\ m = n)
        <3>1. d \in Entries => Numbered(L, m)
            BY <2>1 DEF Numbered
        <3>2. d \in ToSet(ins) \/ d \in ToSet(queue) \/ d \in ToSet(trace)'
            BY <1>1, <2>1 DEF Entries
        <3> QED
            BY <1>2, <2>1, <3>1, <3>2 DEF Entries
    <2>2. ASSUME NEW k \in DOMAIN queue', OpenLoop(queue'[k], L), queue'[k].number = m
          PROVE  Numbered(L, m) \/ (L = K /\ m = n)
        <3>1. queue'[k] \in ToSet(queue)'
            BY DEF ToSet
        <3>2. CASE queue'[k] \in ToSet(ins)
            BY <1>2, <2>2, <3>2 DEF OpenLoop
        <3>3. CASE queue'[k] \in ToSet(queue)
            <4>1. PICK l \in DOMAIN queue : queue[l] = queue'[k]
                BY <3>3 DEF ToSet
            <4> QED
                BY <2>2, <4>1 DEF Numbered
        <3> QED
            BY <1>1, <3>1, <3>2, <3>3
    <2>3. \/ \E d \in Entries' : d.rep.id = L /\ d.number = m
          \/ \E k \in DOMAIN queue' : OpenLoop(queue'[k], L) /\ queue'[k].number = m
        BY <1>2 DEF Numbered, OpenLoop, LoopEntry
    <2> QED
        BY <2>1, <2>2, <2>3
<1> QED
    BY <1>2 DEF NumbersKnown

\* The head of the queue has the number of its loop.
LEMMA NumberOfHead ==
    ASSUME NumbersKnown, QueueTyped, queue # <<>>, NEW L, L # 0,
           Head(queue).rep.id = L \/ OpenLoop(Head(queue), L)
    PROVE  \A m : Numbered(L, m) => m = Head(queue).number
<1>1. Head(queue) = queue[1] /\ Len(queue) \in Nat \ {0} /\ DOMAIN queue = 1..Len(queue)
    BY TailIsSeq DEF QueueTyped
<1>2. 1 \in DOMAIN queue
    BY <1>1
<1>3. Head(queue) \in Entries
    BY <1>1, <1>2 DEF Entries, ToSet
<1>4. Numbered(L, Head(queue).number)
    BY <1>1, <1>2, <1>3 DEF Numbered
<1> QED
    BY <1>4 DEF NumbersKnown

\* Three ways the recorder may change the loops in its queue: e makes way for
\* entries of its own loop, an open loop is left, or it takes another pass.
Inherits(ins) ==
    /\ Takes(ins)
    /\ ~(LoopEntry(Head(queue)) /\ Head(queue).own # 0)
    /\ \A k \in DOMAIN ins :
          /\ ins[k].rep = Head(queue).rep
          /\ LoopEntry(ins[k]) => ins[k].own = 0
          /\ ins[k].rep.id # 0 => ins[k].number = Head(queue).number

\* A loop that has been through a pass, at the head of the queue, is left.
Leaves ==
    /\ Takes(<<>>)
    /\ LoopEntry(Head(queue)) /\ Head(queue).own # 0

\* Loop L, at the head of the queue, makes way for a pass of its steps and itself.
PassOf(ins, L) ==
    /\ Takes(ins) /\ ins # <<>>
    /\ LoopEntry(Head(queue))
    /\ L = Head(queue).own \/ (Head(queue).own = 0 /\ L = loopIds + 1)
    /\ L # 0
    /\ \A k \in DOMAIN ins : k < Len(ins) => ins[k].rep.id = L
    /\ \A k \in DOMAIN ins : ins[k].number = Head(queue).number /\ (k < Len(ins) => ins[k].own = 0)
    /\ OpenLoop(ins[Len(ins)], L)

\* A head outside the loops is alone: no loop is open behind it.
LEMMA HeadFree ==
    ASSUME QueueTyped, LoopsOpen, queue # <<>>, Head(queue).rep.id = 0
    PROVE  /\ Head(queue) = queue[1] /\ 1 \in DOMAIN queue /\ Len(queue) \in Nat /\ DOMAIN queue = 1..Len(queue)
           /\ \A k \in DOMAIN queue : queue[k].rep.id = 0
           /\ \A k \in DOMAIN queue : k # 1 => ~(LoopEntry(queue[k]) /\ queue[k].own # 0)
<1>1. Head(queue) = queue[1] /\ Len(queue) \in Nat \ {0} /\ DOMAIN queue = 1..Len(queue)
    BY TailIsSeq DEF QueueTyped
<1>2. ASSUME NEW L, NEW m \in DOMAIN queue, OpenAt(L, m), L # 0 PROVE m = 1
    <2>1. m # 1 => queue[1].rep.id = L
        BY <1>1, <1>2 DEF OpenAt
    <2> QED
        BY <1>1, <1>2, <2>1
<1>3. ASSUME NEW k \in DOMAIN queue, queue[k].rep.id # 0 PROVE FALSE
    <2>1. PICK m \in DOMAIN queue : OpenAt(queue[k].rep.id, m)
        BY <1>3 DEF LoopsOpen
    <2>2. m = 1
        BY <1>2, <1>3, <2>1
    <2>3. k = 1 \/ k > 1
        BY <1>1
    <2> QED
        BY <1>1, <1>3, <2>1, <2>2, <2>3 DEF OpenAt
<1>4. ASSUME NEW k \in DOMAIN queue, k # 1, LoopEntry(queue[k]), queue[k].own # 0 PROVE FALSE
    BY <1>2, <1>4 DEF LoopsOpen
<1> QED
    BY <1>1, <1>3, <1>4

\* A loop that is open stays open while its steps are taken.
LEMMA OpenKept ==
    ASSUME QueueTyped, NEW ins, Inherits(ins), NEW L, L # 0, NEW m \in DOMAIN queue, OpenAt(L, m)
    PROVE  /\ m > 1 /\ m - 1 + Len(ins) \in DOMAIN queue'
           /\ OpenAt(L, m - 1 + Len(ins))'
<1>1. /\ Len(ins) \in Nat /\ Len(queue) \in Nat \ {0}
      /\ DOMAIN ins = 1..Len(ins) /\ DOMAIN queue = 1..Len(queue) /\ Head(queue) = queue[1]
      /\ DOMAIN queue' = 1..(Len(ins) + Len(queue) - 1)
      /\ \A k \in DOMAIN queue' : queue'[k] = IF k <= Len(ins) THEN ins[k] ELSE queue[k - Len(ins) + 1]
    BY QueueAfter DEF QueueTyped, Takes, Inherits
<1> DEFINE N == Len(ins)
           M == Len(queue)
           p == m - 1 + N
<1>2. m \in 1..M /\ m # 1
    BY <1>1 DEF OpenAt, OpenLoop, Inherits
<1>3. p \in DOMAIN queue' /\ p > N /\ queue'[p] = queue[m]
    BY <1>1, <1>2
<1>4. Head(queue).rep.id = L
    BY <1>1, <1>2 DEF OpenAt
<1>5. ASSUME NEW j \in DOMAIN queue', j < p PROVE queue'[j].rep.id = L
    <2>1. CASE j <= N
        BY <1>1, <1>4, <1>5, <2>1 DEF Inherits
    <2>2. CASE j > N
        <3>1. j - N + 1 \in DOMAIN queue /\ j - N + 1 < m /\ queue'[j] = queue[j - N + 1]
            BY <1>1, <1>2, <1>5, <2>2
        <3> QED
            BY <3>1 DEF OpenAt
    <2> QED
        BY <1>1, <1>5, <2>1, <2>2
<1>6. ASSUME NEW j \in DOMAIN queue', j > p PROVE queue'[j].rep.id # L /\ ~OpenLoop(queue'[j], L)
    <2>1. j - N + 1 \in DOMAIN queue /\ j - N + 1 > m /\ queue'[j] = queue[j - N + 1]
        BY <1>1, <1>2, <1>6
    <2> QED
        BY <2>1 DEF OpenAt
<1>7. OpenLoop(queue'[p], L)
    BY <1>3 DEF OpenAt
<1>8. OpenAt(L, p)'
    BY <1>5, <1>6, <1>7 DEF OpenAt, OpenLoop, LoopEntry
<1> QED
    BY <1>2, <1>3, <1>8

LEMMA OpenInherited ==
    ASSUME QueueTyped, LoopsOpen, NEW ins, Inherits(ins)
    PROVE  LoopsOpen'
<1>1. /\ Len(ins) \in Nat /\ Len(queue) \in Nat \ {0}
      /\ DOMAIN ins = 1..Len(ins) /\ DOMAIN queue = 1..Len(queue) /\ Head(queue) = queue[1]
      /\ DOMAIN queue' = 1..(Len(ins) + Len(queue) - 1)
      /\ \A k \in DOMAIN queue' : queue'[k] = IF k <= Len(ins) THEN ins[k] ELSE queue[k - Len(ins) + 1]
    BY QueueAfter DEF QueueTyped, Takes, Inherits
<1> DEFINE N == Len(ins)
<1>2. ASSUME NEW L, L # 0, NEW k \in DOMAIN queue, queue[k].rep.id = L
      PROVE  \E m \in DOMAIN queue' : OpenAt(L, m)'
    <2>1. PICK m \in DOMAIN queue : OpenAt(L, m)
        BY <1>2 DEF LoopsOpen
    <2> QED
        BY <1>2, <2>1, OpenKept
<1>3. ASSUME NEW k \in DOMAIN queue'
      PROVE  \E j \in DOMAIN queue : queue'[k].rep.id = queue[j].rep.id
    <2>1. CASE k <= N
        BY <1>1, <1>3, <2>1 DEF Inherits
    <2>2. CASE k > N
        <3>1. k - N + 1 \in DOMAIN queue /\ queue'[k] = queue[k - N + 1]
            BY <1>1, <1>3, <2>2
        <3> QED
            BY <3>1
    <2> QED
        BY <1>1, <1>3, <2>1, <2>2
<1>4. ASSUME NEW k \in DOMAIN queue', queue'[k].rep.id # 0
      PROVE  \E m \in DOMAIN queue' : OpenAt(queue[k].rep.id, m)'
    <2>1. PICK L : L = queue'[k].rep.id
        OBVIOUS
    <2>2. \E m \in DOMAIN queue' : OpenAt(L, m)'
        BY <1>2, <1>3, <1>4, <2>1
    <2> QED
        BY <2>1, <2>2 DEF OpenAt
<1>5. ASSUME NEW k \in DOMAIN queue', LoopEntry(queue'[k]), queue'[k].own # 0
      PROVE  OpenAt(queue[k].own, k)'
    <2>1. k > N
        BY <1>1, <1>5 DEF Inherits
    <2>2. PICK j, L : j = k - N + 1 /\ L = queue'[k].own
        OBVIOUS
    <2>3. j \in DOMAIN queue /\ queue'[k] = queue[j] /\ j - 1 + N = k
        BY <1>1, <1>5, <2>1, <2>2
    <2>4. OpenAt(L, j) /\ L # 0
        BY <1>5, <2>2, <2>3 DEF LoopsOpen
    <2>5. OpenAt(L, j - 1 + N)'
        BY <2>3, <2>4, OpenKept
    <2>6. OpenAt(L, k)'
        BY <2>3, <2>5
    <2> QED
        BY <2>2, <2>6 DEF OpenAt
<1> QED
    BY <1>4, <1>5 DEF LoopsOpen, LoopEntry

\* When a loop is left, no loop is open.
LEMMA OpenLeft ==
    ASSUME QueueTyped, LoopsOpen, Leaves
    PROVE  /\ \A k \in DOMAIN queue' : queue'[k].rep.id = 0 /\ ~(LoopEntry(queue'[k]) /\ queue'[k].own # 0)
           /\ LoopsOpen'
<1>1. /\ Len(<<>>) = 0 /\ Len(queue) \in Nat \ {0}
      /\ DOMAIN queue = 1..Len(queue)
      /\ DOMAIN queue' = 1..(0 + Len(queue) - 1)
      /\ \A k \in DOMAIN queue' : queue'[k] = IF k <= 0 THEN <<>>[k] ELSE queue[k - 0 + 1]
    BY QueueAfter, ShortIsSeq DEF QueueTyped, Takes, Leaves
<1>2. /\ \A k \in DOMAIN queue : queue[k].rep.id = 0
      /\ \A k \in DOMAIN queue : k # 1 => ~(LoopEntry(queue[k]) /\ queue[k].own # 0)
    BY HeadFree DEF Leaves, Takes, LoopEntry
<1>3. ASSUME NEW k \in DOMAIN queue'
      PROVE  queue'[k].rep.id = 0 /\ ~(LoopEntry(queue'[k]) /\ queue'[k].own # 0)
    <2>1. k + 1 \in DOMAIN queue /\ k + 1 # 1 /\ queue'[k] = queue[k + 1]
        BY <1>1, <1>3
    <2> QED
        BY <1>2, <2>1
<1> QED
    BY <1>3 DEF LoopsOpen, LoopEntry

\* Another pass: the loop's steps come to the front, the loop itself behind them.
LEMMA OpenPassed ==
    ASSUME QueueTyped, LoopsOpen, NEW ins, NEW L, PassOf(ins, L)
    PROVE  /\ Len(ins) \in DOMAIN queue' /\ OpenAt(L, Len(ins))'
           /\ \A k \in DOMAIN queue' : k < Len(ins) => queue'[k].rep.id = L
           /\ \A k \in DOMAIN queue' : k >= Len(ins) => queue'[k].rep.id = 0
           /\ LoopsOpen'
<1>1. /\ Len(ins) \in Nat /\ Len(queue) \in Nat \ {0}
      /\ DOMAIN ins = 1..Len(ins) /\ DOMAIN queue = 1..Len(queue)
      /\ DOMAIN queue' = 1..(Len(ins) + Len(queue) - 1)
      /\ \A k \in DOMAIN queue' : queue'[k] = IF k <= Len(ins) THEN ins[k] ELSE queue[k - Len(ins) + 1]
    BY QueueAfter DEF QueueTyped, Takes, PassOf
<1>2. /\ \A k \in DOMAIN queue : queue[k].rep.id = 0
      /\ \A k \in DOMAIN queue : k # 1 => ~(LoopEntry(queue[k]) /\ queue[k].own # 0)
    BY HeadFree DEF PassOf, Takes, LoopEntry
<1> DEFINE N == Len(ins)
<1>3. N # 0
    <2>1. ins \in Seq(ToSet(ins)) /\ ins # <<>>
        BY DEF PassOf, Takes, IsSeq
    <2> QED
        BY <2>1, EmptySeq
<1>4. N \in DOMAIN queue' /\ queue'[N] = ins[N] /\ N \in DOMAIN ins
    BY <1>1, <1>3
<1>5. ASSUME NEW k \in DOMAIN queue', k < N PROVE queue'[k].rep.id = L
    BY <1>1, <1>5 DEF PassOf
<1>6. OpenLoop(queue'[N], L) /\ L # 0
    BY <1>4 DEF PassOf
<1>7. ASSUME NEW k \in DOMAIN queue', k > N
      PROVE  queue'[k].rep.id = 0 /\ ~(LoopEntry(queue'[k]) /\ queue'[k].own # 0)
    <2>1. k - N + 1 \in DOMAIN queue /\ k - N + 1 # 1 /\ queue'[k] = queue[k - N + 1]
        BY <1>1, <1>7
    <2> QED
        BY <1>2, <2>1
<1>8. OpenAt(L, N)'
    <2>1. \A k \in DOMAIN queue' : k > N => ~OpenLoop(queue'[k], L)
        BY <1>6, <1>7 DEF OpenLoop
    <2> QED
        BY <1>5, <1>6, <1>7, <2>1 DEF OpenAt, OpenLoop, LoopEntry
<1>9. ASSUME NEW k \in DOMAIN queue', k >= N PROVE queue'[k].rep.id = 0
    <2>1. k = N \/ k > N
        BY <1>1, <1>9
    <2> QED
        BY <1>6, <1>7, <2>1 DEF OpenLoop, LoopEntry
<1>10. ASSUME NEW k \in DOMAIN queue', queue'[k].rep.id # 0
       PROVE  \E m \in DOMAIN queue' : OpenAt(queue[k].rep.id, m)'
    <2>1. k < N
        BY <1>1, <1>9, <1>10
    <2>2. queue'[k].rep.id = L
        BY <1>5, <2>1
    <2> QED
        BY <1>4, <1>8, <2>2 DEF OpenAt
<1>11. ASSUME NEW k \in DOMAIN queue', LoopEntry(queue'[k]), queue'[k].own # 0
       PROVE  OpenAt(queue[k].own, k)'
    <2>1. ~(k < N)
        BY <1>5, <1>6, <1>11 DEF LoopEntry
    <2>2. k = N
        BY <1>1, <1>7, <1>11, <2>1
    <2>3. queue'[k].own = L
        BY <1>6, <2>2 DEF OpenLoop
    <2> QED
        BY <1>8, <2>2, <2>3 DEF OpenAt
<1>12. LoopsOpen'
    BY <1>10, <1>11 DEF LoopsOpen, LoopEntry
<1> QED
    BY <1>4, <1>5, <1>8, <1>9, <1>12

\* A loop that is over stays over.
LEMMA ClosedInherited ==
    ASSUME QueueTyped, NEW ins, Inherits(ins), NEW L, L # 0, Closed(L)
    PROVE  Closed(L)'
<1>1. /\ Len(ins) \in Nat /\ Len(queue) \in Nat \ {0}
      /\ DOMAIN ins = 1..Len(ins) /\ DOMAIN queue = 1..Len(queue) /\ Head(queue) = queue[1]
      /\ DOMAIN queue' = 1..(Len(ins) + Len(queue) - 1)
      /\ \A k \in DOMAIN queue' : queue'[k] = IF k <= Len(ins) THEN ins[k] ELSE queue[k - Len(ins) + 1]
    BY QueueAfter DEF QueueTyped, Takes, Inherits
<1>2. ASSUME NEW k \in DOMAIN queue' PROVE queue'[k].rep.id # L /\ ~OpenLoop(queue'[k], L)
    <2>1. CASE k <= Len(ins)
        <3>1. k \in DOMAIN ins /\ queue'[k] = ins[k] /\ 1 \in DOMAIN queue
            BY <1>1, <1>2, <2>1
        <3> QED
            BY <1>1, <3>1 DEF Inherits, Closed, OpenLoop
    <2>2. CASE k > Len(ins)
        <3>1. k - Len(ins) + 1 \in DOMAIN queue /\ queue'[k] = queue[k - Len(ins) + 1]
            BY <1>1, <1>2, <2>2
        <3> QED
            BY <3>1 DEF Closed
    <2> QED
        BY <1>1, <1>2, <2>1, <2>2
<1> QED
    BY <1>2 DEF Closed, OpenLoop, LoopEntry

\* Steps that write nothing down keep the loops of the trace as they are.
LEMMA DoneUnwritten ==
    ASSUME QueueTyped, TraceKnown, LoopsOpen, LoopsDone, UNCHANGED trace,
           \/ \E ins : Inherits(ins)
           \/ Leaves
           \/ \E ins, L : PassOf(ins, L)
    PROVE  LoopsDone'
<1> SUFFICES ASSUME NEW i \in DOMAIN trace, NEW K, trace[i].rep.id = K, K # 0,
                    ~(\A j \in DOMAIN trace : i <= j => SameLoop(i, j))
             PROVE  Closed(K)'
    BY DEF LoopsDone, SameLoop, Closed
<1>1. Closed(K) /\ K \in 0..loopIds
    BY DEF LoopsDone, TraceKnown
<1>2. CASE \E ins : Inherits(ins)
    BY <1>1, <1>2, ClosedInherited
<1>3. CASE Leaves
    BY <1>3, OpenLeft DEF Closed, OpenLoop, LoopEntry
<1>4. ASSUME NEW ins, NEW L, PassOf(ins, L) PROVE Closed(K)'
    <2>1. loopIds \in Nat
        BY DEF TraceKnown
    <2>2. K # L
        <3>1. CASE L = loopIds + 1
            BY <1>1, <2>1, <3>1
        <3>2. CASE L = Head(queue).own
            <4>1. OpenLoop(queue[1], L) /\ 1 \in DOMAIN queue
                BY <1>4, <3>2, HeadFree DEF PassOf, Takes, OpenLoop, LoopEntry
            <4> QED
                BY <1>1, <4>1 DEF Closed
        <3> QED
            BY <1>4, <3>1, <3>2 DEF PassOf
    <2>3. /\ Len(ins) \in DOMAIN queue' /\ OpenAt(L, Len(ins))'
          /\ \A k \in DOMAIN queue' : k < Len(ins) => queue'[k].rep.id = L
          /\ \A k \in DOMAIN queue' : k >= Len(ins) => queue'[k].rep.id = 0
          /\ LoopsOpen' /\ IsSeq(queue') /\ Len(ins) \in Nat
        BY <1>4, OpenPassed, QueueAfter DEF QueueTyped, PassOf, Takes
    <2>4. DOMAIN queue' \subseteq Nat
        BY <2>3 DEF IsSeq
    <2>5. \A k \in DOMAIN queue' : queue'[k].rep.id # K
        BY <1>1, <2>2, <2>3, <2>4
    <2>6. ASSUME NEW k \in DOMAIN queue', OpenLoop(queue'[k], K) PROVE FALSE
        <3>1. k >= Len(ins)
            BY <1>4, <2>3, <2>4, <2>6 DEF OpenLoop, LoopEntry, PassOf
        <3>2. k = Len(ins) \/ k > Len(ins)
            BY <2>3, <2>4, <3>1
        <3>3. OpenLoop(queue'[Len(ins)], L)
            BY <2>3 DEF OpenAt, OpenLoop, LoopEntry
        <3>4. k # Len(ins)
            BY <2>2, <2>6, <3>3 DEF OpenLoop
        <3>5. OpenAt(queue[k].own, k)'
            BY <2>3, <2>6 DEF LoopsOpen, OpenLoop, LoopEntry
        <3>6. queue'[Len(ins)].rep.id = queue'[k].own
            BY <2>3, <3>2, <3>4, <3>5 DEF OpenAt
        <3> QED
            BY <2>3, <2>4, <2>6, <3>6 DEF OpenLoop
    <2> QED
        BY <2>5, <2>6 DEF Closed, OpenLoop, LoopEntry
<1> QED
    BY <1>2, <1>3, <1>4

\* The numbers of what one of them queues.
LEMMA NumbersUnwritten ==
    ASSUME QueueTyped, TraceKnown, NumbersKnown, UNCHANGED trace,
           \/ \E ins : Inherits(ins)
           \/ Leaves
           \/ \E ins, L : PassOf(ins, L)
    PROVE  NumbersKnown'
<1> DEFINE e == Head(queue)
<1>1. UNCHANGED ToSet(trace) /\ loopIds \in Nat
    BY DEF ToSet, TraceKnown
<1>2. CASE \E ins : Inherits(ins)
    <2>1. PICK ins : Inherits(ins)
        BY <1>2
    <2>2. Takes(ins)
        BY <2>1 DEF Inherits
    <2>3. PICK K, n : K = e.rep.id /\ n = e.number
        OBVIOUS
    <2>4. K # 0 => \A m : Numbered(K, m) => m = n
        BY <2>2, <2>3, NumberOfHead DEF Takes
    <2>5. \A d \in ToSet(ins) : d.rep.id # 0 => d.rep.id = K /\ d.number = n
        BY <2>1, <2>3 DEF Inherits, ToSet
    <2>6. \A d \in ToSet(ins) : LoopEntry(d) /\ d.own # 0 => d.own = K /\ d.number = n
        BY <2>1 DEF Inherits, ToSet
    <2> QED
        BY <1>1, <2>2, <2>4, <2>5, <2>6, NumbersAfter
<1>3. CASE Leaves
    <2>1. Takes(<<>>) /\ ToSet(<<>>) = {}
        BY <1>3, ShortIsSeq DEF Leaves, ToSet
    <2>2. \A d \in ToSet(<<>>) : FALSE
        BY <2>1
    <2>3. \A d \in ToSet(trace)' : d \in ToSet(trace)
        BY <1>1
    <2> QED
        BY <2>1, <2>2, <2>3, NumbersAfter
<1>4. CASE \E ins, L : PassOf(ins, L)
    <2>1. PICK ins, L : PassOf(ins, L)
        BY <1>4
    <2>2. Takes(ins) /\ L # 0 /\ LoopEntry(e)
        BY <2>1 DEF PassOf
    <2>3. PICK n : n = e.number
        OBVIOUS
    <2>4. \A m : Numbered(L, m) => m = n
        <3>1. CASE L = e.own
            BY <2>2, <2>3, <3>1, NumberOfHead DEF Takes, OpenLoop
        <3>2. CASE L = loopIds + 1
            <4>1. \A d \in Entries : d.rep.id \in 0..loopIds
                BY DEF Entries, ToSet, QueueTyped, EntryTyped, TraceKnown
            <4>2. \A k \in DOMAIN queue : queue[k].own \in 0..loopIds
                BY DEF QueueTyped, EntryTyped
            <4>3. L \notin 0..loopIds
                BY <1>1, <3>2
            <4> QED
                BY <4>1, <4>2, <4>3 DEF Numbered, OpenLoop
        <3> QED
            BY <2>1, <3>1, <3>2 DEF PassOf
    <2>5. /\ \A k \in DOMAIN ins : ins[k].number = n /\ (k < Len(ins) => ins[k].rep.id = L /\ ins[k].own = 0)
          /\ ins[Len(ins)].own = L /\ ins[Len(ins)].rep.id = 0
        BY <2>1, <2>3 DEF PassOf, OpenLoop, LoopEntry
    <2>6. Len(ins) \in Nat /\ DOMAIN ins = 1..Len(ins)
        BY <2>2 DEF Takes, IsSeq
    <2>7. \A k \in DOMAIN ins : k < Len(ins) \/ k = Len(ins)
        BY <2>6
    <2>8. \A d \in ToSet(ins) : d.rep.id # 0 => d.rep.id = L /\ d.number = n
        BY <2>5, <2>7 DEF ToSet
    <2>9. \A d \in ToSet(ins) : LoopEntry(d) /\ d.own # 0 => d.own = L /\ d.number = n
        BY <2>5, <2>7 DEF ToSet
    <2> QED
        BY <1>1, <2>2, <2>4, <2>8, <2>9, NumbersAfter
<1> QED
    BY <1>2, <1>3, <1>4

\* A step is written down: the loops it does not belong to are over.
LEMMA TraceWritten ==
    ASSUME QueueTyped, TraceKnown, LoopsOpen, LoopsDone, LoopsTogether,
           Inherits(<<>>), ~LoopEntry(Head(queue)),
           NEW t, t.rep = Head(queue).rep, IsSeq(t.guards), trace' = Append(trace, t)
    PROVE  TraceKnown' /\ LoopsDone' /\ LoopsTogether'
<1> DEFINE e == Head(queue)
           n == Len(trace)
<1>1. /\ IsSeq(trace') /\ DOMAIN trace' = 1..(n + 1) /\ DOMAIN trace = 1..n /\ n \in Nat
      /\ \A k \in DOMAIN trace' : trace'[k] = IF k = n + 1 THEN t ELSE trace[k]
    BY AppendIsSeq DEF TraceKnown
<1>2. /\ e = queue[1] /\ 1 \in DOMAIN queue /\ DOMAIN queue \subseteq Nat /\ EntryTyped(e)
      /\ \A m \in DOMAIN queue : m = 1 \/ 1 < m
    <2>1. e = queue[1] /\ Len(queue) \in Nat \ {0} /\ DOMAIN queue = 1..Len(queue)
        BY TailIsSeq DEF QueueTyped, Inherits, Takes
    <2>2. 1 \in DOMAIN queue
        BY <2>1
    <2> QED
        BY <2>1, <2>2 DEF QueueTyped
<1>3. ASSUME NEW K, K # 0, ~Closed(K) PROVE e.rep.id = K
    <2>1. \E m \in DOMAIN queue : OpenAt(K, m)
        <3>1. PICK k \in DOMAIN queue : queue[k].rep.id = K \/ OpenLoop(queue[k], K)
            BY <1>3 DEF Closed
        <3>2. CASE queue[k].rep.id = K
            BY <1>3, <3>2 DEF LoopsOpen
        <3>3. CASE OpenLoop(queue[k], K)
            BY <1>3, <3>3 DEF LoopsOpen, OpenLoop
        <3> QED
            BY <3>1, <3>2, <3>3
    <2>2. PICK m \in DOMAIN queue : OpenAt(K, m)
        BY <2>1
    <2>3. m # 1
        BY <1>2, <2>2 DEF OpenAt, OpenLoop
    <2> QED
        BY <1>2, <2>2, <2>3 DEF OpenAt
<1>4. e.rep.id # 0 => ~Closed(e.rep.id)
    BY <1>2 DEF Closed
<1>5. ASSUME NEW i \in DOMAIN trace, trace[i].rep.id # 0
      PROVE  \/ trace[i].rep.id # e.rep.id /\ Closed(trace[i].rep.id)
             \/ trace[i].rep.id = e.rep.id /\ \A j \in DOMAIN trace : i <= j => SameLoop(i, j)
    BY <1>3, <1>4, <1>5 DEF LoopsDone
<1>6. \A i, j \in DOMAIN trace : SameLoop(i, j) <=> SameLoop(i, j)'
    BY <1>1 DEF SameLoop
<1>7. TraceKnown'
    <2>1. loopIds' \in Nat /\ loopIds <= loopIds' /\ guardIds' \in Nat /\ loopIds \in Nat
        BY DEF Inherits, Takes, TraceKnown
    <2>2. ASSUME NEW i \in DOMAIN trace' PROVE IsSeq(trace'[i].guards) /\ trace'[i].rep.id \in 0..loopIds'
        <3>1. CASE i = n + 1
            BY <1>1, <1>2, <2>1, <3>1 DEF EntryTyped
        <3>2. CASE i \in DOMAIN trace
            BY <1>1, <2>1, <3>2 DEF TraceKnown
        <3> QED
            BY <1>1, <3>1, <3>2
    <2> QED
        BY <1>1, <2>1, <2>2 DEF TraceKnown
<1>8. LoopsDone'
    <2> SUFFICES ASSUME NEW i \in DOMAIN trace', NEW K, trace'[i].rep.id = K, K # 0
                 PROVE  Closed(K)' \/ \A j \in DOMAIN trace' : i <= j => SameLoop(i, j)'
        BY DEF LoopsDone, Closed, SameLoop
    <2>1. CASE i = n + 1
        <3>1. \A j \in DOMAIN trace' : i <= j => j = i
            BY <1>1, <2>1
        <3> QED
            BY <3>1 DEF SameLoop
    <2>2. CASE i \in DOMAIN trace
        <3>1. trace[i].rep.id = K
            BY <1>1, <2>2
        <3>2. CASE Closed(K)
            BY <3>2, ClosedInherited
        <3>3. CASE K = e.rep.id /\ \A j \in DOMAIN trace : i <= j => SameLoop(i, j)
            <4>1. ASSUME NEW j \in DOMAIN trace', i <= j PROVE SameLoop(i, j)'
                <5>1. CASE j = n + 1
                    BY <1>1, <2>2, <3>1, <3>3, <5>1 DEF SameLoop
                <5>2. CASE j \in DOMAIN trace
                    BY <1>6, <2>2, <3>3, <4>1, <5>2
                <5> QED
                    BY <1>1, <5>1, <5>2
            <4> QED
                BY <4>1
        <3> QED
            BY <1>5, <2>2, <3>1, <3>2, <3>3
    <2> QED
        BY <1>1, <2>1, <2>2
<1>9. LoopsTogether'
    <2> SUFFICES ASSUME NEW i \in DOMAIN trace', NEW j \in DOMAIN trace', trace'[i].rep.id # 0, SameLoop(i, j)',
                        NEW m \in DOMAIN trace', i <= m, m <= j
                 PROVE  SameLoop(i, m)'
        BY DEF LoopsTogether
    <2>1. CASE j \in DOMAIN trace
        <3>1. i \in DOMAIN trace /\ m \in DOMAIN trace
            BY <1>1, <2>1
        <3>2. trace[i].rep.id # 0 /\ SameLoop(i, j)
            BY <1>1, <1>6, <2>1, <3>1
        <3>3. SameLoop(i, m)
            BY <2>1, <3>1, <3>2 DEF LoopsTogether
        <3> QED
            BY <1>6, <3>1, <3>3
    <2>2. CASE j = n + 1
        <3>1. CASE m = n + 1
            BY <2>2, <3>1
        <3>2. CASE m \in DOMAIN trace
            <4>1. i \in DOMAIN trace
                BY <1>1, <3>2
            <4>2. trace[i].rep.id = e.rep.id /\ trace[i].rep.id # 0
                BY <1>1, <2>2, <4>1 DEF SameLoop
            <4> QED
                BY <1>5, <1>6, <3>2, <4>1, <4>2
        <3> QED
            BY <1>1, <3>1, <3>2
    <2> QED
        BY <1>1, <2>1, <2>2
<1> QED
    BY <1>7, <1>8, <1>9

LEMMA TraceUnwritten ==
    ASSUME TraceKnown, LoopsTogether, UNCHANGED trace, NEW ins, Takes(ins)
    PROVE  TraceKnown' /\ LoopsTogether'
<1>1. loopIds \in Nat /\ loopIds' \in Nat /\ loopIds <= loopIds' /\ guardIds' \in Nat
    BY DEF TraceKnown, Takes
<1> QED
    BY <1>1 DEF TraceKnown, LoopsTogether, SameLoop

\* The steps of a block, as they are queued.
LEMMA BlockQueued ==
    ASSUME NEW node \in Nodes, node.kind # "step", NEW guards, IsSeq(guards), NEW rep, NEW numbers,
           rep.id \in 0..loopIds', rep.id = 0 => rep = NoLoop, loopIds' \in Nat,
           NEW ins, ins = [i \in DOMAIN node.steps |-> Queued(node.steps[i], guards, rep, numbers[i])]
    PROVE  /\ IsSeq(ins) /\ Len(ins) = Len(node.steps) /\ DOMAIN ins = 1..Len(node.steps) /\ Len(node.steps) \in Nat
           /\ \A k \in DOMAIN ins :
                /\ DOMAIN ins[k] = Fields /\ ins[k].node \in Nodes /\ IsSeq(ins[k].guards) /\ ins[k].own \in 0..loopIds'
                /\ ins[k].guards = guards /\ ins[k].rep = rep /\ ins[k].own = 0
                /\ ins[k].rep.id \in 0..loopIds' /\ (ins[k].rep.id = 0 => ins[k].rep = NoLoop)
                /\ ins[k].node.kind # "in" /\ ins[k].number = numbers[k]
<1>1. node.steps \in Seq(Nodes)
    BY NodesAssumption
<1>2. Len(node.steps) \in Nat /\ DOMAIN node.steps = 1..Len(node.steps)
      /\ \A k \in DOMAIN node.steps : node.steps[k] \in Nodes /\ node.steps[k].kind # "in"
    BY <1>1, SurfacesAssumption
<1>3. ins = [k \in 1..Len(node.steps) |-> ins[k]]
    BY <1>2
<1>4. IsSeq(ins) /\ Len(ins) = Len(node.steps) /\ DOMAIN ins = 1..Len(node.steps)
    BY <1>2, <1>3, FunIsSeq
<1>5. ASSUME NEW k \in DOMAIN ins
      PROVE  /\ DOMAIN ins[k] = Fields
             /\ ins[k].node \in Nodes /\ ins[k].guards = guards /\ ins[k].rep = rep /\ ins[k].own = 0
             /\ ins[k].node.kind # "in" /\ ins[k].number = numbers[k]
    <2>1. ins[k] = Queued(node.steps[k], guards, rep, numbers[k]) /\ node.steps[k] \in Nodes /\ node.steps[k].kind # "in"
        BY <1>2, <1>4, <1>5
    <2> QED
        BY <2>1 DEF Queued, Fields
<1>6. 0 \in 0..loopIds'
    OBVIOUS
<1>7. ASSUME NEW k \in DOMAIN ins
      PROVE  /\ DOMAIN ins[k] = Fields /\ ins[k].node \in Nodes /\ IsSeq(ins[k].guards) /\ ins[k].own \in 0..loopIds'
             /\ ins[k].guards = guards /\ ins[k].rep = rep /\ ins[k].own = 0
             /\ ins[k].rep.id \in 0..loopIds' /\ (ins[k].rep.id = 0 => ins[k].rep = NoLoop)
             /\ ins[k].node.kind # "in" /\ ins[k].number = numbers[k]
    <2>1. /\ DOMAIN ins[k] = Fields /\ ins[k].node \in Nodes /\ ins[k].guards = guards /\ ins[k].rep = rep /\ ins[k].own = 0
          /\ ins[k].node.kind # "in" /\ ins[k].number = numbers[k]
        BY <1>5, <1>7
    <2>2. ins[k].own \in 0..loopIds'
        BY <1>6, <2>1
    <2>3. ins[k].rep.id = rep.id
        BY <2>1
    <2>4. IsSeq(ins[k].guards)
        BY <2>1 DEF IsSeq
    <2> QED
        BY <2>1, <2>2, <2>3, <2>4
<1> QED
    BY <1>2, <1>4, <1>7

\* The head of the queue.
LEMMA HeadTyped ==
    ASSUME Written, queue # <<>>
    PROVE  /\ Head(queue) \in ToSet(queue) /\ Head(queue) = queue[1] /\ 1 \in DOMAIN queue
           /\ EntryTyped(Head(queue)) /\ Head(queue) \in Entries
           /\ loopIds \in Nat /\ guardIds \in Nat
<1>1. Head(queue) = queue[1] /\ Len(queue) \in Nat \ {0} /\ DOMAIN queue = 1..Len(queue)
    BY TailIsSeq DEF Written, QueueTyped
<1>2. 1 \in DOMAIN queue
    BY <1>1
<1> QED
    BY <1>1, <1>2 DEF Written, QueueTyped, TraceKnown, ToSet, Entries

\* e makes way for entries of its own loop, and writes nothing.
LEMMA RecordedInherits ==
    ASSUME Written, NEW ins, Inherits(ins), UNCHANGED trace,
           \A d \in ToSet(ins) : \A g \in Ids(d) : g \in Ids(Head(queue)) \/ (g = guardIds + 1 /\ guardIds' = g)
    PROVE  Written' /\ (GuardsKnown => GuardsKnown')
<1>1. QueueTyped /\ TraceKnown /\ LoopsOpen /\ LoopsDone /\ LoopsTogether /\ NumbersKnown /\ Takes(ins)
    BY DEF Written, Inherits
<1>2. QueueTyped' /\ LoopsOpen' /\ LoopsDone' /\ TraceKnown' /\ LoopsTogether' /\ NumbersKnown'
    BY <1>1, QueueTypedAfter, OpenInherited, DoneUnwritten, TraceUnwritten, NumbersUnwritten
<1>3. ASSUME GuardsKnown PROVE GuardsKnown'
    <2>1. Head(queue) \in Entries /\ guardIds \in Nat /\ guardIds' \in {guardIds, guardIds + 1}
        BY <1>1, HeadTyped DEF Takes
    <2>2. ToSet(queue)' \subseteq ToSet(ins) \cup ToSet(queue) /\ ToSet(trace)' = ToSet(trace)
        BY <1>1, EntriesAfter
    <2>3. \A d \in ToSet(ins) : d.rep = Head(queue).rep
        BY DEF Inherits, ToSet
    <2>4. \A d \in Entries' : d \in Entries \/ d \in ToSet(ins)
        BY <2>2 DEF Entries
    <2> QED
        BY <1>3, <2>1, <2>3, <2>4, GuardsStay
<1> QED
    BY <1>2, <1>3 DEF Written

LEMMA RecordedBranch ==
    ASSUME Written, TakeBranch
    PROVE  Written' /\ (GuardsKnown => GuardsKnown')
<1> DEFINE e == Head(queue)
           more == GuardFor(e.node.when, guardIds + 1)
           guards == e.guards \o more
           ins == QueuedAll(e.node.steps, guards, e.rep, e.number)
<1>1. /\ queue # <<>> /\ e.node.kind = "when" /\ queue' = ins \o Tail(queue)
      /\ guardIds' = guardIds + 1 /\ UNCHANGED <<trace, loopIds>>
    BY DEF TakeBranch, Pops
<1>2. EntryTyped(e) /\ loopIds \in Nat /\ guardIds \in Nat
    BY <1>1, HeadTyped
<1>3. more = <<>> \/ more = <<[id |-> guardIds + 1, cond |-> e.node.when]>>
    BY DEF GuardFor
<1>4. IsSeq(more) /\ \A k \in DOMAIN more : more[k].id = guardIds + 1
    <2> DEFINE x == [id |-> guardIds + 1, cond |-> e.node.when]
    <2>1. x.id = guardIds + 1
        OBVIOUS
    <2> HIDE DEF x
    <2>2. IsSeq(<<>>) /\ DOMAIN <<>> = {} /\ IsSeq(<<x>>) /\ DOMAIN <<x>> = {1} /\ <<x>>[1] = x
        BY ShortIsSeq
    <2>3. more = <<>> \/ more = <<x>>
        BY <1>3 DEF x
    <2> QED
        BY <2>1, <2>2, <2>3
<1>5. IsSeq(guards) /\ \A k \in DOMAIN guards : guards[k].id \in Ids(e) \/ guards[k].id = guardIds + 1
    <2>1. IsSeq(e.guards)
        BY <1>2 DEF EntryTyped
    <2> DEFINE old == e.guards
    <2> HIDE DEF more, old
    <2>2. /\ IsSeq(old \o more) /\ Len(old) \in Nat /\ Len(more) \in Nat
          /\ DOMAIN (old \o more) = 1..(Len(old) + Len(more))
          /\ DOMAIN old = 1..Len(old) /\ DOMAIN more = 1..Len(more)
          /\ \A k \in DOMAIN (old \o more) : (old \o more)[k] = IF k <= Len(old) THEN old[k] ELSE more[k - Len(old)]
        BY <1>4, <2>1, ConcatIsSeq DEF old
    <2>3. ASSUME NEW k \in DOMAIN (old \o more)
          PROVE  (old \o more)[k].id \in Ids(e) \/ (old \o more)[k].id = guardIds + 1
        <3>1. CASE k <= Len(old)
            <4>1. k \in DOMAIN old /\ (old \o more)[k] = old[k]
                BY <2>2, <2>3, <3>1
            <4> QED
                BY <4>1 DEF Ids, old
        <3>2. CASE k > Len(old)
            <4>1. k - Len(old) \in DOMAIN more /\ (old \o more)[k] = more[k - Len(old)]
                BY <2>2, <2>3, <3>2
            <4> QED
                BY <1>4, <4>1
        <3> QED
            BY <2>2, <2>3, <3>1, <3>2
    <2> QED
        BY <2>2, <2>3 DEF old
<1> HIDE DEF guards
<1>6. /\ IsSeq(ins)
      /\ \A k \in DOMAIN ins :
                /\ DOMAIN ins[k] = Fields /\ ins[k].node \in Nodes /\ IsSeq(ins[k].guards) /\ ins[k].own \in 0..loopIds'
                /\ ins[k].guards = guards /\ ins[k].rep = e.rep /\ ins[k].own = 0
                /\ ins[k].rep.id \in 0..loopIds' /\ (ins[k].rep.id = 0 => ins[k].rep = NoLoop)
                /\ ins[k].node.kind # "in" /\ ins[k].number = e.number
    <2> DEFINE node == e.node
               rep == e.rep
               numbers == [i \in DOMAIN node.steps |-> e.number]
    <2>1. /\ node \in Nodes /\ node.kind # "step" /\ rep.id \in 0..loopIds' /\ (rep.id = 0 => rep = NoLoop)
          /\ loopIds' \in Nat
        BY <1>1, <1>2 DEF EntryTyped
    <2>2. \A k \in DOMAIN node.steps : numbers[k] = e.number
        OBVIOUS
    <2>3. ins = [i \in DOMAIN node.steps |-> Queued(node.steps[i], guards, rep, numbers[i])]
        BY DEF QueuedAll
    <2> HIDE DEF ins, node, rep, numbers
    <2>4. /\ IsSeq(ins)
          /\ \A k \in DOMAIN ins :
                /\ DOMAIN ins[k] = Fields /\ ins[k].node \in Nodes /\ IsSeq(ins[k].guards) /\ ins[k].own \in 0..loopIds'
                /\ ins[k].guards = guards /\ ins[k].rep = rep /\ ins[k].own = 0
                /\ ins[k].rep.id \in 0..loopIds' /\ (ins[k].rep.id = 0 => ins[k].rep = NoLoop)
                /\ ins[k].node.kind # "in" /\ ins[k].number = numbers[k]
        BY <1>5, <2>1, <2>3, BlockQueued
    <2> QED
        <3>1. DOMAIN ins = DOMAIN node.steps
            BY <2>3
        <3> QED
            BY <2>4, <2>2, <3>1 DEF rep
<1> HIDE DEF ins
<1>7. Inherits(ins)
    BY <1>1, <1>2, <1>6 DEF Inherits, Takes, LoopEntry
<1>8. \A d \in ToSet(ins) : \A g \in Ids(d) : g \in Ids(e) \/ (g = guardIds + 1 /\ guardIds' = g)
    BY <1>1, <1>5, <1>6, Zenon DEF ToSet, Ids
<1> QED
    BY <1>1, <1>7, <1>8, RecordedInherits

\* The steps of a pass, and behind them the loop with one more pass counted.
LEMMA PassQueued ==
    ASSUME Written, TakePass
    PROVE  LET e == Head(queue)
               own == IF e.own = 0 THEN loopIds + 1 ELSE e.own
               rep == IF e.rep # NoLoop THEN e.rep ELSE RepeatFor(e.node, own, e.passes + 1)
           IN  \E ins : /\ Takes(ins) /\ ins # <<>> /\ UNCHANGED <<trace, guardIds>>
                        /\ \A k \in DOMAIN ins : k < Len(ins) => ins[k].guards = e.guards /\ ins[k].rep = rep /\ ins[k].own = 0
                        /\ Len(ins) \in DOMAIN ins /\ DOMAIN ins = 1..Len(ins) /\ Len(ins) \in Nat
                        /\ ins[Len(ins)].node = e.node /\ ins[Len(ins)].guards = e.guards
                        /\ ins[Len(ins)].rep = e.rep /\ ins[Len(ins)].own = own
                        /\ \A k \in DOMAIN ins : ins[k].number = e.number
<1> DEFINE e == Head(queue)
           own == IF e.own = 0 THEN loopIds + 1 ELSE e.own
           rep == IF e.rep # NoLoop THEN e.rep ELSE RepeatFor(e.node, own, e.passes + 1)
           block == QueuedAll(e.node.steps, e.guards, rep, e.number)
           again == [e EXCEPT !.passes = @ + 1, !.own = own]
           ins == block \o <<again>>
<1>1. /\ queue # <<>> /\ e.node.kind = "repeat" /\ queue' = ins \o Tail(queue)
      /\ loopIds' = (IF e.own = 0 THEN loopIds + 1 ELSE loopIds) /\ UNCHANGED <<trace, guardIds>>
    BY DEF TakePass, Pops
<1>2. EntryTyped(e) /\ loopIds \in Nat /\ guardIds \in Nat
    BY <1>1, HeadTyped
<1>3. loopIds' \in Nat /\ loopIds <= loopIds' /\ own \in 0..loopIds'
    BY <1>1, <1>2 DEF EntryTyped
<1>4. rep.id \in 0..loopIds' /\ (rep.id = 0 => rep = NoLoop)
    <2>1. CASE e.rep # NoLoop
        BY <1>2, <1>3, <2>1 DEF EntryTyped
    <2>2. CASE e.rep = NoLoop /\ e.node.until \in Compared
        BY <1>3, <2>2 DEF RepeatFor, NoLoop
    <2>3. CASE e.rep = NoLoop /\ e.node.until \notin Compared
        <3>1. rep.id = own
            BY <2>3 DEF RepeatFor
        <3>2. own # 0
            BY <1>2 DEF EntryTyped
        <3> QED
            BY <1>3, <3>1, <3>2
    <2> QED
        BY <2>1, <2>2, <2>3
<1>5. /\ DOMAIN again = Fields /\ again.node = e.node /\ again.guards = e.guards
      /\ again.rep = e.rep /\ again.own = own /\ again.number = e.number
    BY <1>2 DEF EntryTyped, Fields
<1>6. /\ IsSeq(block) /\ DOMAIN block = 1..Len(block) /\ Len(block) \in Nat
      /\ \A k \in DOMAIN block :
            /\ DOMAIN block[k] = Fields /\ block[k].node \in Nodes /\ IsSeq(block[k].guards) /\ block[k].own \in 0..loopIds'
            /\ block[k].guards = e.guards /\ block[k].rep = rep /\ block[k].own = 0
            /\ block[k].rep.id \in 0..loopIds' /\ (block[k].rep.id = 0 => block[k].rep = NoLoop)
            /\ block[k].node.kind # "in" /\ block[k].number = e.number
    <2> DEFINE node == e.node
               guards == e.guards
               numbers == [i \in DOMAIN node.steps |-> e.number]
    <2>1. node \in Nodes /\ node.kind # "step" /\ IsSeq(guards)
        BY <1>1, <1>2 DEF EntryTyped
    <2>2. \A k \in DOMAIN node.steps : numbers[k] = e.number
        OBVIOUS
    <2>3. block = [i \in DOMAIN node.steps |-> Queued(node.steps[i], guards, rep, numbers[i])]
        BY DEF QueuedAll
    <2> HIDE DEF block, node, guards, rep, numbers
    <2>4. /\ IsSeq(block) /\ DOMAIN block = 1..Len(node.steps) /\ Len(block) = Len(node.steps) /\ Len(node.steps) \in Nat
          /\ \A k \in DOMAIN block :
                /\ DOMAIN block[k] = Fields /\ block[k].node \in Nodes /\ IsSeq(block[k].guards) /\ block[k].own \in 0..loopIds'
                /\ block[k].guards = guards /\ block[k].rep = rep /\ block[k].own = 0
                /\ block[k].rep.id \in 0..loopIds' /\ (block[k].rep.id = 0 => block[k].rep = NoLoop)
                /\ block[k].node.kind # "in" /\ block[k].number = numbers[k]
        BY <1>3, <1>4, <2>1, <2>3, BlockQueued, SMTT(60)
    <2> QED
        <3>1. DOMAIN block = DOMAIN node.steps
            BY <2>3
        <3> QED
            BY <2>4, <2>2, <3>1 DEF guards
<1> HIDE DEF block, again, rep, own
<1>7. IsSeq(<<again>>) /\ Len(<<again>>) = 1 /\ <<again>>[1] = again
    BY ShortIsSeq
<1>8. /\ IsSeq(ins) /\ Len(ins) = Len(block) + 1 /\ DOMAIN ins = 1..(Len(block) + 1)
      /\ \A k \in DOMAIN ins : ins[k] = IF k <= Len(block) THEN block[k] ELSE <<again>>[k - Len(block)]
    BY <1>6, <1>7, ConcatIsSeq
<1> DEFINE L == Len(ins)
<1>9. /\ L = Len(block) + 1 /\ DOMAIN ins = 1..L /\ L \in Nat /\ L \in DOMAIN ins
      /\ ins[L] = again /\ \A k \in DOMAIN ins : k < L => k \in DOMAIN block /\ ins[k] = block[k]
    BY <1>6, <1>7, <1>8
<1>10. ins # <<>>
    BY <1>9, ShortIsSeq
<1> HIDE DEF ins
<1>11. /\ DOMAIN again = Fields /\ again.node \in Nodes /\ IsSeq(again.guards)
       /\ again.own \in 0..loopIds' /\ again.rep.id \in 0..loopIds' /\ (again.rep.id = 0 => again.rep = NoLoop)
       /\ again.node.kind # "in"
    <2>1. e.rep.id \in 0..loopIds' /\ (e.rep.id = 0 => e.rep = NoLoop) /\ e.node \in Nodes /\ IsSeq(e.guards)
        BY <1>2, <1>3 DEF EntryTyped
    <2> QED
        BY <1>1, <1>3, <1>5, <2>1
<1>12. ASSUME NEW k \in DOMAIN ins
       PROVE  /\ DOMAIN ins[k] = Fields
              /\ ins[k].node \in Nodes /\ IsSeq(ins[k].guards)
              /\ ins[k].own \in 0..loopIds' /\ ins[k].rep.id \in 0..loopIds'
              /\ ins[k].rep.id = 0 => ins[k].rep = NoLoop
              /\ ins[k].node.kind # "in"
    <2>1. CASE k < L
        BY <1>6, <1>9, <1>12, <2>1
    <2>2. CASE k = L
        BY <1>9, <1>11, <2>2
    <2> QED
        BY <1>9, <1>12, <2>1, <2>2
<1>13. Takes(ins)
    BY <1>1, <1>3, <1>8, <1>12 DEF Takes, ins
<1>14. \A k \in DOMAIN ins : k < L => ins[k].guards = e.guards /\ ins[k].rep = rep /\ ins[k].own = 0
    BY <1>6, <1>9
<1>15. ASSUME NEW k \in DOMAIN ins PROVE ins[k].number = e.number
    <2>1. CASE k < L
        BY <1>6, <1>9, <1>15, <2>1
    <2>2. CASE k = L
        BY <1>5, <1>9, <2>2
    <2> QED
        BY <1>9, <1>15, <2>1, <2>2
<1> QED
    BY <1>1, <1>5, <1>9, <1>10, <1>13, <1>14, <1>15 DEF rep, own

\* A pass of a loop nested in another, or of one replay will not take again, is
\* written into the loop around it; a pass of any other opens the loop.
LEMMA RecordedPass ==
    ASSUME Written, TakePass
    PROVE  Written' /\ (GuardsKnown /\ LoopsUnguarded => GuardsKnown')
<1> DEFINE e == Head(queue)
           own == IF e.own = 0 THEN loopIds + 1 ELSE e.own
           rep == IF e.rep # NoLoop THEN e.rep ELSE RepeatFor(e.node, own, e.passes + 1)
<1>1. PICK ins : /\ Takes(ins) /\ ins # <<>> /\ UNCHANGED <<trace, guardIds>>
                 /\ \A k \in DOMAIN ins : k < Len(ins) => ins[k].guards = e.guards /\ ins[k].rep = rep /\ ins[k].own = 0
                 /\ Len(ins) \in DOMAIN ins /\ DOMAIN ins = 1..Len(ins) /\ Len(ins) \in Nat
                 /\ ins[Len(ins)].node = e.node /\ ins[Len(ins)].guards = e.guards
                 /\ ins[Len(ins)].rep = e.rep /\ ins[Len(ins)].own = own
                 /\ \A k \in DOMAIN ins : ins[k].number = e.number
    BY PassQueued
<1>2. /\ queue # <<>> /\ e.node.kind = "repeat" /\ phase = "record"
    BY DEF TakePass, Pops
<1>3. EntryTyped(e) /\ e \in Entries /\ e = queue[1] /\ 1 \in DOMAIN queue /\ loopIds \in Nat /\ guardIds \in Nat
    BY <1>2, HeadTyped
<1>4. own # 0
    BY <1>3 DEF EntryTyped
<1>5. \A k \in DOMAIN ins : ins[k].guards = e.guards
    BY <1>1
<1>6. \A d \in ToSet(ins) : \A g \in Ids(d) : g \in Ids(e)
    BY <1>5 DEF ToSet, Ids
<1>7. CASE ~LoopEntry(e)
    <2>1. rep = e.rep
        <3>1. CASE e.rep # NoLoop
            BY <3>1
        <3>2. CASE e.rep = NoLoop
            <4>1. e.node.until \in Compared
                BY <1>2, <1>7, <3>2 DEF LoopEntry, NoLoop
            <4> QED
                BY <3>2, <4>1 DEF RepeatFor
        <3> QED
            BY <3>1, <3>2
    <2> HIDE DEF rep, own
    <2>2. \A k \in DOMAIN ins : ins[k].rep = e.rep /\ (k < Len(ins) => ins[k].own = 0)
        BY <1>1, <2>1
    <2>3. ~LoopEntry(ins[Len(ins)])
        BY <1>1, <1>7 DEF LoopEntry
    <2>4. Inherits(ins)
        <3>1. ASSUME NEW k \in DOMAIN ins PROVE LoopEntry(ins[k]) => ins[k].own = 0
            <4>1. k < Len(ins) \/ k = Len(ins)
                BY <1>1, <3>1
            <4> QED
                BY <2>2, <2>3, <4>1
        <3> QED
            BY <1>1, <1>7, <2>2, <3>1 DEF Inherits
    <2> QED
        BY <1>1, <1>6, <2>4, RecordedInherits
<1>8. CASE LoopEntry(e)
    <2>1. e.rep = NoLoop /\ e.node.until \notin Compared /\ e.rep.id = 0
        BY <1>3, <1>8 DEF LoopEntry, EntryTyped
    <2>2. rep.id = own
        BY <2>1 DEF RepeatFor
    <2>3. PICK L : L = own
        OBVIOUS
    <2> HIDE DEF rep
    <2>4. \A k \in DOMAIN ins : k < Len(ins) => ins[k].rep.id = L
        BY <1>1, <2>2, <2>3
    <2>5. OpenLoop(ins[Len(ins)], L)
        BY <1>1, <1>8, <2>3 DEF OpenLoop, LoopEntry
    <2>6. L = e.own \/ (e.own = 0 /\ L = loopIds + 1)
        BY <2>3
    <2> HIDE DEF own
    <2>7. PassOf(ins, L)
        BY <1>1, <1>4, <1>8, <2>3, <2>4, <2>5, <2>6 DEF PassOf
    <2>8. QueueTyped /\ TraceKnown /\ LoopsOpen /\ LoopsDone /\ LoopsTogether /\ NumbersKnown
        BY DEF Written
    <2>9. QueueTyped' /\ LoopsOpen' /\ LoopsDone' /\ TraceKnown' /\ LoopsTogether' /\ NumbersKnown'
        BY <1>1, <2>7, <2>8, QueueTypedAfter, OpenPassed, DoneUnwritten, TraceUnwritten, NumbersUnwritten
    <2>10. ASSUME GuardsKnown, LoopsUnguarded PROVE GuardsKnown'
        <3>1. Ids(e) = {}
            <4>1. e.guards = <<>>
                BY <1>2, <1>3, <1>8, <2>10 DEF LoopsUnguarded
            <4> QED
                BY <4>1, ShortIsSeq DEF Ids
        <3>2. \A d \in ToSet(ins) : Ids(d) = {}
            BY <1>6, <3>1
        <3>3. ToSet(queue)' \subseteq ToSet(ins) \cup ToSet(queue) /\ ToSet(trace)' = ToSet(trace)
            BY <1>1, <2>8, EntriesAfter
        <3>4. \A d \in Entries' : d \in Entries \/ Ids(d) = {}
            BY <3>2, <3>3 DEF Entries
        <3> QED
            BY <1>1, <1>3, <2>10, <3>4, GuardsStay
    <2> QED
        BY <2>9, <2>10 DEF Written
<1> QED
    BY <1>7, <1>8

LEMMA RecordedEnter ==
    ASSUME Written, EnterSurface
    PROVE  Written' /\ (GuardsKnown => GuardsKnown')
<1> DEFINE e == Head(queue)
           ins == [i \in DOMAIN e.node.steps |-> Queued(e.node.steps[i], e.guards, e.rep, e.number + i - 1)]
<1>1. /\ queue # <<>> /\ e.node.kind = "in" /\ queue' = ins \o Tail(queue)
      /\ UNCHANGED <<trace, loopIds, guardIds>>
    BY DEF EnterSurface, Pops
<1>2. EntryTyped(e) /\ loopIds \in Nat /\ guardIds \in Nat
    BY <1>1, HeadTyped
<1>3. /\ IsSeq(ins)
      /\ \A k \in DOMAIN ins :
            /\ DOMAIN ins[k] = Fields /\ ins[k].node \in Nodes /\ IsSeq(ins[k].guards) /\ ins[k].own \in 0..loopIds'
            /\ ins[k].guards = e.guards /\ ins[k].rep = e.rep /\ ins[k].own = 0
            /\ ins[k].rep.id \in 0..loopIds' /\ (ins[k].rep.id = 0 => ins[k].rep = NoLoop)
            /\ ins[k].node.kind # "in"
    <2> DEFINE node == e.node
               rep == e.rep
               guards == e.guards
               numbers == [i \in DOMAIN node.steps |-> e.number + i - 1]
    <2>1. /\ node \in Nodes /\ node.kind # "step" /\ rep.id \in 0..loopIds' /\ (rep.id = 0 => rep = NoLoop)
          /\ loopIds' \in Nat /\ IsSeq(guards)
        BY <1>1, <1>2 DEF EntryTyped
    <2>2. ins = [i \in DOMAIN node.steps |-> Queued(node.steps[i], guards, rep, numbers[i])]
        OBVIOUS
    <2> HIDE DEF ins, node, rep, numbers, guards
    <2>3. /\ IsSeq(ins)
          /\ \A k \in DOMAIN ins :
                /\ DOMAIN ins[k] = Fields /\ ins[k].node \in Nodes /\ IsSeq(ins[k].guards) /\ ins[k].own \in 0..loopIds'
                /\ ins[k].guards = guards /\ ins[k].rep = rep /\ ins[k].own = 0
                /\ ins[k].rep.id \in 0..loopIds' /\ (ins[k].rep.id = 0 => ins[k].rep = NoLoop)
                /\ ins[k].node.kind # "in"
        BY <2>1, <2>2, BlockQueued
    <2> QED
        BY <2>3 DEF rep, guards
<1> HIDE DEF ins
<1>4. Inherits(ins)
    <2>1. e.rep.id = 0
        BY <1>1, <1>2 DEF EntryTyped
    <2> QED
        BY <1>1, <1>2, <1>3, <2>1 DEF Inherits, Takes, LoopEntry
<1>5. \A d \in ToSet(ins) : \A g \in Ids(d) : g \in Ids(e)
    BY <1>3 DEF ToSet, Ids
<1> QED
    BY <1>1, <1>4, <1>5, RecordedInherits

\* The head of the queue is taken off and nothing put in its place.
LEMMA HeadDropped ==
    ASSUME Written, queue # <<>>, queue' = Tail(queue), UNCHANGED <<loopIds, guardIds>>
    PROVE  Takes(<<>>)
<1>1. loopIds \in Nat /\ guardIds \in Nat /\ IsSeq(queue)
    BY HeadTyped DEF Written, QueueTyped
<1>2. queue' = <<>> \o Tail(queue)
    <2>1. IsSeq(Tail(queue))
        BY <1>1, TailIsSeq
    <2>2. <<>> \o Tail(queue) = Tail(queue)
        BY <2>1 DEF IsSeq
    <2> QED
        BY <2>2
<1>3. IsSeq(<<>>) /\ \A k \in DOMAIN <<>> : FALSE
    BY ShortIsSeq
<1>4. loopIds' \in Nat /\ loopIds <= loopIds' /\ guardIds' \in {guardIds, guardIds + 1}
    BY <1>1
<1> QED
    BY <1>2, <1>3, <1>4, Zenon DEF Takes

\* A block that does not apply, or a loop that is over, is taken off the queue.
LEMMA RecordedDrop ==
    ASSUME Written, SkipBranch \/ LeaveLoop
    PROVE  Written' /\ (GuardsKnown => GuardsKnown')
<1>1. queue # <<>> /\ queue' = Tail(queue) /\ UNCHANGED <<trace, loopIds, guardIds>>
    BY DEF SkipBranch, LeaveLoop, Pops
<1>2. EntryTyped(Head(queue)) /\ loopIds \in Nat /\ guardIds \in Nat /\ IsSeq(queue)
    BY <1>1, HeadTyped DEF Written, QueueTyped
<1>4. Takes(<<>>)
    BY <1>1, HeadDropped
<1>5. CASE LoopEntry(Head(queue)) /\ Head(queue).own # 0
    <2>1. Leaves
        BY <1>4, <1>5 DEF Leaves
    <2>2. QueueTyped /\ TraceKnown /\ LoopsOpen /\ LoopsDone /\ LoopsTogether /\ NumbersKnown
        BY DEF Written
    <2>3. QueueTyped' /\ LoopsOpen' /\ LoopsDone' /\ TraceKnown' /\ LoopsTogether' /\ NumbersKnown'
        BY <1>1, <1>4, <2>1, <2>2, QueueTypedAfter, OpenLeft, DoneUnwritten, TraceUnwritten, NumbersUnwritten
    <2>4. ASSUME GuardsKnown PROVE GuardsKnown'
        <3>1. ToSet(queue)' \subseteq ToSet(<<>>) \cup ToSet(queue) /\ ToSet(trace)' = ToSet(trace)
            BY <1>1, <1>4, <2>2, EntriesAfter
        <3>2. ToSet(<<>>) = {}
            BY ShortIsSeq DEF ToSet
        <3>3. \A d \in Entries' : d \in Entries
            BY <3>1, <3>2 DEF Entries
        <3>4. Head(queue) \in Entries
            BY <1>1, HeadTyped
        <3> QED
            BY <1>1, <1>2, <2>4, <3>3, <3>4, GuardsStay
    <2> QED
        BY <2>3, <2>4 DEF Written
<1>6. CASE ~(LoopEntry(Head(queue)) /\ Head(queue).own # 0)
    <2>1. Inherits(<<>>)
        BY <1>4, <1>6, ShortIsSeq DEF Inherits
    <2>2. ToSet(<<>>) = {}
        BY ShortIsSeq DEF ToSet
    <2> QED
        BY <1>1, <2>1, <2>2, RecordedInherits
<1> QED
    BY <1>5, <1>6

\* A step is performed and written down.
LEMMA RecordedPerform ==
    ASSUME Written, Perform
    PROVE  Written' /\ (GuardsKnown => GuardsKnown')
<1> DEFINE e == Head(queue)
           t == [leaf |-> e.node, guards |-> e.guards, rep |-> e.rep, number |-> e.number,
                 surface |-> IF flow.multi THEN active ELSE NoSurface]
<1>1. /\ queue # <<>> /\ e.node.kind = "step" /\ queue' = Tail(queue) /\ trace' = Append(trace, t)
      /\ UNCHANGED <<loopIds, guardIds>>
    BY DEF Perform, Pops
<1>2. EntryTyped(e) /\ e \in Entries /\ loopIds \in Nat /\ guardIds \in Nat /\ IsSeq(queue) /\ IsSeq(trace)
    BY <1>1, HeadTyped DEF Written, QueueTyped, TraceKnown
<1>4. Takes(<<>>)
    BY <1>1, HeadDropped
<1>5. ~LoopEntry(e)
    BY <1>1 DEF LoopEntry
<1>6. Inherits(<<>>)
    BY <1>4, <1>5, ShortIsSeq DEF Inherits
<1>7. QueueTyped /\ TraceKnown /\ LoopsOpen /\ LoopsDone /\ LoopsTogether /\ NumbersKnown
    BY DEF Written
<1>8. t.rep = e.rep /\ t.guards = e.guards /\ t.number = e.number
    OBVIOUS
<1> HIDE DEF t
<1>9. TraceKnown' /\ LoopsDone' /\ LoopsTogether'
    <2>1. IsSeq(t.guards)
        BY <1>2, <1>8 DEF EntryTyped
    <2>2. PICK u : u = t
        OBVIOUS
    <2>3. u.rep = e.rep /\ IsSeq(u.guards) /\ trace' = Append(trace, u)
        BY <1>1, <1>8, <2>1, <2>2
    <2> QED
        BY <1>5, <1>6, <1>7, <2>3, TraceWritten
<1>10. QueueTyped' /\ LoopsOpen'
    BY <1>4, <1>6, <1>7, QueueTypedAfter, OpenInherited
<1>11. ToSet(trace)' \subseteq ToSet(trace) \cup {t}
    <2>1. /\ DOMAIN trace' = 1..(Len(trace) + 1) /\ DOMAIN trace = 1..Len(trace) /\ Len(trace) \in Nat
          /\ \A k \in DOMAIN trace' : trace'[k] = IF k = Len(trace) + 1 THEN t ELSE trace[k]
        BY <1>1, <1>2, AppendIsSeq
    <2>2. \A k \in DOMAIN trace' : k = Len(trace) + 1 \/ k \in DOMAIN trace
        BY <2>1
    <2> QED
        BY <2>1, <2>2 DEF ToSet
<1>12. ToSet(queue)' \subseteq ToSet(queue) /\ ToSet(<<>>) = {}
    <2>1. ToSet(queue)' \subseteq ToSet(<<>>) \cup ToSet(queue)
        BY <1>4, <1>7, EntriesAfter
    <2>2. ToSet(<<>>) = {}
        BY ShortIsSeq DEF ToSet
    <2> QED
        BY <2>1, <2>2
<1>13. NumbersKnown'
    <2>1. PICK K, n : K = e.rep.id /\ n = e.number
        OBVIOUS
    <2>2. K # 0 => \A m : Numbered(K, m) => m = n
        BY <1>1, <1>7, <2>1, NumberOfHead
    <2>3. \A d \in ToSet(<<>>) : FALSE
        BY <1>12
    <2>4. \A d \in ToSet(trace)' : d \in ToSet(trace) \/ (d.rep.id = K /\ d.number = n)
        BY <1>8, <1>11, <2>1
    <2> QED
        BY <1>4, <1>7, <2>2, <2>3, <2>4, NumbersAfter
<1>14. ASSUME GuardsKnown PROVE GuardsKnown'
    <2>1. \A d \in Entries' : d \in Entries \/ d = t
        BY <1>11, <1>12 DEF Entries
    <2>2. Ids(t) = Ids(e)
        BY <1>8 DEF Ids
    <2>3. \A d \in Entries' : d \in Entries \/ (d.rep.id = e.rep.id /\ \A g \in Ids(d) : g \in Ids(e))
        BY <1>8, <2>1, <2>2
    <2> QED
        BY <1>1, <1>2, <1>14, <2>3, GuardsStay
<1> QED
    BY <1>9, <1>10, <1>13, <1>14 DEF Written

LEMMA RecordedNext ==
    ASSUME Written, [Next]_vars
    PROVE  Written' /\ (GuardsKnown /\ LoopsUnguarded => GuardsKnown')
<1>1. CASE RecordStep /\ ~(LoopNeverSettles \/ Abandon \/ Store)
    BY <1>1, RecordedBranch, RecordedPass, RecordedEnter, RecordedDrop, RecordedPerform DEF RecordStep
<1>2. CASE ~RecordStep \/ LoopNeverSettles \/ Abandon \/ Store
    <2>1. UNCHANGED <<queue, trace, guardIds, loopIds>>
        BY <1>2, Zenon DEF LoopNeverSettles, Abandon, Store, Next, BreakRecording, ReplayStep, StartReplay, LeaveOut, MeetLoop,
               DropLoop, SettleLoop, ExhaustLoop, RepeatLoop, NoActiveSurface, SkipAfterFailure, Approach, RunStep,
               FailStep, Report, Break, vars, recording
    <2>2. UNCHANGED Entries
        BY <2>1 DEF Entries, ToSet
    <2>3. QueueTyped' /\ TraceKnown' /\ LoopsOpen' /\ LoopsDone' /\ LoopsTogether'
        BY <2>1 DEF Written, QueueTyped, TraceKnown, LoopsOpen, LoopsDone, LoopsTogether, EntryTyped, OpenAt, Closed,
               OpenLoop, LoopEntry, SameLoop
    <2>4. NumbersKnown'
        <3>1. \A L, n : Numbered(L, n)' => Numbered(L, n)
            BY <2>1, <2>2 DEF Numbered, OpenLoop, LoopEntry
        <3> QED
            BY <3>1 DEF Written, NumbersKnown
    <2>5. GuardsKnown => GuardsKnown'
        BY <2>1, <2>2 DEF GuardsKnown
    <2> QED
        BY <2>3, <2>4, <2>5 DEF Written
<1> QED
    BY <1>1, <1>2

LEMMA RecordedInit == Init => Recorded
<1> SUFFICES ASSUME Init PROVE Recorded
    OBVIOUS
<1>1. /\ queue = [i \in DOMAIN flow.steps |-> Queued(flow.steps[i], <<>>, NoLoop, SpecStepNumbers(flow.steps)[i])]
      /\ trace = <<>> /\ guardIds = 0 /\ loopIds = 0 /\ flow.steps \in Seq(Nodes)
    BY NodesAssumption DEF Init, RecordingInit
<1>2. Len(flow.steps) \in Nat /\ DOMAIN flow.steps = 1..Len(flow.steps) /\ \A k \in DOMAIN flow.steps : flow.steps[k] \in Nodes
    BY <1>1
<1>3. queue = [k \in 1..Len(flow.steps) |-> queue[k]] /\ DOMAIN queue = DOMAIN flow.steps
    BY <1>1, <1>2
<1>4. IsSeq(queue)
    BY <1>2, <1>3, FunIsSeq
<1>5. IsSeq(<<>>) /\ DOMAIN <<>> = {}
    BY ShortIsSeq
<1>6. ASSUME NEW k \in DOMAIN queue
      PROVE  EntryTyped(queue[k]) /\ queue[k].rep.id = 0 /\ queue[k].own = 0 /\ queue[k].guards = <<>>
    <2>1. queue[k] = Queued(flow.steps[k], <<>>, NoLoop, SpecStepNumbers(flow.steps)[k]) /\ flow.steps[k] \in Nodes
        BY <1>1, <1>2, <1>3, <1>6
    <2>2. /\ DOMAIN queue[k] = Fields /\ queue[k].node = flow.steps[k] /\ queue[k].guards = <<>>
          /\ queue[k].rep = NoLoop /\ queue[k].own = 0
        BY <2>1 DEF Queued, Fields
    <2>3. NoLoop.id = 0
        BY DEF NoLoop
    <2> QED
        BY <1>1, <1>5, <2>1, <2>2, <2>3 DEF EntryTyped
<1>7. NumbersKnown
    <2>1. \A k \in DOMAIN queue : queue[k].rep.id = 0 /\ queue[k].own = 0
        BY <1>6
    <2>2. \A d \in Entries : d.rep.id = 0
        BY <1>1, <1>5, <2>1 DEF Entries, ToSet
    <2> QED
        BY <2>1, <2>2 DEF NumbersKnown, Numbered, OpenLoop
<1>8. QueueTyped /\ TraceKnown /\ LoopsOpen /\ LoopsDone /\ LoopsTogether
    BY <1>1, <1>4, <1>5, <1>6 DEF QueueTyped, TraceKnown, LoopsOpen, LoopsDone, LoopsTogether
<1>9. \A d \in Entries : Ids(d) = {}
    BY <1>1, <1>5, <1>6, Zenon DEF Entries, ToSet, Ids
<1>10. GuardsKnown
    BY <1>9 DEF GuardsKnown
<1> QED
    BY <1>8, <1>10, <1>7 DEF Recorded, Written

---------------------------------------------------------------------------
(* The worklist.                                                           *)

\* A set of numbers that is not empty has a least one.
LEMMA Least ==
    ASSUME NEW T \in SUBSET Nat, T # {}
    PROVE  \E x \in T : \A y \in T : x <= y
<1> DEFINE R == OpToRel(<, Nat)
<1>1. IsWellFoundedOn(R, Nat)
    BY NatLessThanWellFounded
<1>2. \A x, y \in Nat : x < y => <<x, y>> \in R
    BY DEF OpToRel
<1> HIDE DEF R
<1>3. PICK x \in T : \A y \in T : ~ (<<y, x>> \in R)
    BY <1>1, WFMin
<1>4. \A y \in T : ~(y < x)
    BY <1>2, <1>3
<1>5. \A y \in T : x <= y
    BY <1>4
<1> QED
    BY <1>5

\* The members of S before x.
Below(S, x) == {y \in S : y < x}

\* The members of a finite set of numbers have all the ranks there are.
LEMMA RankGrows ==
    ASSUME NEW S \in SUBSET Nat, IsFiniteSet(S), NEW x \in S, NEW z \in S
    PROVE  /\ Cardinality(Below(S, x)) \in Nat
           /\ x < z => Cardinality(Below(S, x)) < Cardinality(Below(S, z))
           /\ Cardinality(Below(S, x)) < Cardinality(S)
<1> DEFINE X == Below(S, x)
           Z == Below(S, z)
<1>1. /\ X \in SUBSET S /\ Z \in SUBSET S /\ x \notin X /\ X # S
    BY DEF Below
<1>2. /\ IsFiniteSet(X) /\ Cardinality(X) <= Cardinality(S)
      /\ Cardinality(S) = Cardinality(X) => S = X
    BY <1>1, FS_Subset
<1>3. IsFiniteSet(Z)
    BY <1>1, FS_Subset
<1>4. Cardinality(X) \in Nat /\ Cardinality(Z) \in Nat /\ Cardinality(S) \in Nat
    BY <1>2, <1>3, FS_CardinalityType
<1>5. ASSUME x < z PROVE Cardinality(X) < Cardinality(Z)
    <2>1. X \in SUBSET Z /\ x \in Z /\ x \notin X
        <3>1. \A y \in S : y < x => y < z
            BY <1>5
        <3>2. X \in SUBSET Z
            BY <3>1 DEF Below
        <3>3. x \in Z
            BY <1>5 DEF Below
        <3> QED
            BY <1>1, <3>2, <3>3
    <2> HIDE DEF X, Z
    <2>2. Cardinality(X) <= Cardinality(Z) /\ (Cardinality(Z) = Cardinality(X) => Z = X)
        BY <1>3, <2>1, FS_Subset
    <2> QED
        BY <1>4, <2>1, <2>2
<1> HIDE DEF X, Z
<1>6. Cardinality(X) < Cardinality(S)
    BY <1>1, <1>2, <1>4
<1> QED
    BY <1>4, <1>5, <1>6 DEF X, Z

LEMMA RanksFill ==
    ASSUME NEW S \in SUBSET Nat, IsFiniteSet(S)
    PROVE  \A r \in 0..(Cardinality(S) - 1) : \E x \in S : Cardinality(Below(S, x)) = r
<1> DEFINE rank == [x \in S |-> Cardinality(Below(S, x))]
           R == 0..(Cardinality(S) - 1)
<1>1. Cardinality(S) \in Nat
    BY FS_CardinalityType
<1>2. \A x \in S : rank[x] \in R
    BY <1>1, RankGrows
<1>3. \A x, z \in S : rank[x] = rank[z] => x = z
    <2> SUFFICES ASSUME NEW x \in S, NEW z \in S, x # z PROVE rank[x] # rank[z]
        OBVIOUS
    <2>1. /\ rank[x] \in Nat /\ rank[z] \in Nat
          /\ x < z => rank[x] < rank[z]
          /\ z < x => rank[z] < rank[x]
        BY RankGrows
    <2> HIDE DEF rank
    <2> QED
        BY <2>1
<1>4. IsFiniteSet(R) /\ Cardinality(R) = Cardinality(S)
    <2> DEFINE c == Cardinality(S)
    <2>1. c \in Nat
        BY <1>1
    <2> HIDE DEF c
    <2>2. IsFiniteSet(0..(c - 1)) /\ Cardinality(0..(c - 1)) = c
        BY <2>1, FS_Interval
    <2> QED
        BY <2>2 DEF c
<1>5. rank \in [S -> R]
    BY <1>2
<1> HIDE DEF rank, R
<1>6. rank \in Injection(S, R)
    BY <1>3, <1>5 DEF Injection, IsInjective
<1>7. rank \in Surjection(S, R)
    BY <1>4, <1>6, FS_Injection
<1>8. \A r \in R : \E x \in S : rank[x] = r
    BY <1>7 DEF Surjection
<1> QED
    BY <1>8 DEF rank, R

\* The body of a loop has steps of that loop only.
LEMMA BodyOfLoop ==
    ASSUME IsSeq(trace), NEW first \in DOMAIN trace
    PROVE  /\ IsSeq(Body(first))
           /\ \A k \in DOMAIN Body(first) :
                 Body(first)[k] \in DOMAIN trace /\ SameLoop(first, Body(first)[k]) /\ first <= Body(first)[k]
           /\ \A k, l \in DOMAIN Body(first) : Body(first)[k] = Body(first)[l] => k = l
<1>1. Len(trace) \in Nat /\ first \in 1..Len(trace) /\ DOMAIN trace = 1..Len(trace)
    BY DEF IsSeq
<1> DEFINE S == Pass(first, Longest(first))
<1>2. S \in SUBSET (first..Len(trace)) /\ \A i \in S : SameLoop(first, i) /\ first <= i
    BY <1>1 DEF Pass
<1>3. IsFiniteSet(S) /\ S \in SUBSET Nat
    <2>1. IsFiniteSet(first..Len(trace))
        BY <1>1, FS_Interval
    <2> QED
        BY <1>1, <1>2, <2>1, FS_Subset
<1>4. Cardinality(S) \in Nat
    BY <1>3, FS_CardinalityType
<1>5. Body(first) = [k \in 1..Cardinality(S) |-> CHOOSE i \in S : Cardinality(Below(S, i)) = k - 1]
    BY DEF Body, Below
<1> HIDE DEF S
<1>6. ASSUME NEW k \in 1..Cardinality(S) PROVE Body(first)[k] \in S /\ Cardinality(Below(S, Body(first)[k])) = k - 1
    <2>1. k - 1 \in 0..(Cardinality(S) - 1)
        BY <1>4
    <2>2. \E i \in S : Cardinality(Below(S, i)) = k - 1
        BY <1>3, <2>1, RanksFill
    <2> QED
        BY <1>5, <2>2
<1>7. DOMAIN Body(first) = 1..Cardinality(S)
    BY <1>5
<1>8. S \in SUBSET DOMAIN trace
    BY <1>1, <1>2
<1>9. ASSUME NEW k \in DOMAIN Body(first), NEW l \in DOMAIN Body(first), Body(first)[k] = Body(first)[l]
      PROVE  k = l
    <2>1. k \in Int /\ l \in Int /\ k - 1 = l - 1
        BY <1>4, <1>6, <1>7, <1>9
    <2> QED
        BY <2>1
<1> QED
    BY <1>2, <1>6, <1>7, <1>8, <1>9, BodyIsSeq

\* Dropping the passes at the front leaves the rest as it was, and its first entry is of
\* another loop.
LEMMA BeyondDrops ==
    ASSUME NEW items, IsSeq(items), NEW i
    PROVE  \E m \in Nat :
              /\ DOMAIN items = 1..Len(items) /\ Len(items) \in Nat /\ m <= Len(items)
              /\ IsSeq(Beyond(i, items)) /\ DOMAIN Beyond(i, items) = 1..(Len(items) - m)
              /\ \A k \in DOMAIN Beyond(i, items) : Beyond(i, items)[k] = items[m + k]
              /\ m < Len(items) => ~(items[m + 1].kind = "step" /\ SameLoop(i, items[m + 1].index))
              /\ \A k \in 1..m : SameLoop(i, items[k].index)
<1> DEFINE P(k) == items[k].kind = "step" /\ SameLoop(i, items[k].index)
           n == Len(items)
           front == {k \in DOMAIN items : \A j \in 1..k : P(j)}
           bad == {k \in 1..n : ~P(k)}
<1>1. n \in Nat /\ DOMAIN items = 1..n /\ items \in Seq(ToSet(items))
    BY DEF IsSeq
<1>2. Beyond(i, items) = SubSeq(items, Cardinality(front) + 1, n)
    BY DEF Beyond
<1> HIDE DEF P, n
<1>3. \E m \in 0..n : front = 1..m /\ (m < n => ~P(m + 1))
    <2>1. CASE bad = {}
        <3>1. front = 1..n
            BY <1>1, <2>1
        <3> QED
            BY <1>1, <3>1
    <2>2. CASE bad # {}
        <3>1. bad \in SUBSET Nat
            BY <1>1
        <3> HIDE DEF bad
        <3>2. PICK b \in bad : \A y \in bad : b <= y
            BY <2>2, <3>1, Least
        <3>3. b \in 1..n /\ ~P(b) /\ \A k \in 1..n : k < b => P(k)
            BY <1>1, <3>1, <3>2 DEF bad
        <3>4. ASSUME NEW k \in DOMAIN items PROVE k \in front <=> k \in 1..(b - 1)
            <4>1. k \in front => k < b
                BY <1>1, <3>3
            <4>2. k < b => \A j \in 1..k : P(j)
                BY <1>1, <3>3
            <4> QED
                BY <1>1, <3>3, <4>1, <4>2
        <3>5. front = 1..(b - 1)
            BY <1>1, <3>3, <3>4
        <3>6. b - 1 \in 0..n /\ b - 1 + 1 = b
            BY <1>1, <3>3
        <3> QED
            BY <3>3, <3>5, <3>6
    <2> QED
        BY <2>1, <2>2
<1>4. PICK m \in 0..n : front = 1..m /\ (m < n => ~P(m + 1))
    BY <1>3
<1>5. Cardinality(front) = m
    <2>1. m \in Int /\ 1 \in Int /\ m >= 0
        BY <1>1
    <2>2. Cardinality(1..m) = m
        BY <2>1, FS_Interval
    <2> QED
        BY <1>4, <2>2
<1> HIDE DEF front
<1>6. \A j \in (m + 1)..n : items[j] \in ToSet(items)
    <2>1. \A j \in (m + 1)..n : j \in DOMAIN items
        BY <1>1
    <2> QED
        BY <2>1 DEF ToSet
<1> DEFINE a == m + 1
<1>7. a \in Int /\ n \in Int /\ a >= 1
    BY <1>1
<1> HIDE DEF a
<1>8. /\ SubSeq(items, a, n) \in Seq(ToSet(items))
      /\ Len(SubSeq(items, a, n)) = IF a <= n THEN n - a + 1 ELSE 0
      /\ \A j \in 1..(n - a + 1) : SubSeq(items, a, n)[j] = items[a + j - 1]
    BY <1>6, <1>7, SubSeqProperties DEF a
<1>9. Beyond(i, items) = SubSeq(items, a, n)
    BY <1>2, <1>5 DEF a
<1>10. IsSeq(Beyond(i, items)) /\ DOMAIN Beyond(i, items) = 1..Len(Beyond(i, items))
    <2> DEFINE s == SubSeq(items, a, n)
    <2>1. s \in Seq(ToSet(items))
        BY <1>8
    <2> HIDE DEF s
    <2>2. IsSeq(s) /\ DOMAIN s = 1..Len(s)
        BY <2>1, SeqIsSeq
    <2> QED
        BY <1>9, <2>2 DEF s
<1>11. Len(Beyond(i, items)) = n - m /\ n - a + 1 = n - m
    BY <1>1, <1>8, <1>9 DEF a
<1>12. \A k \in DOMAIN Beyond(i, items) : Beyond(i, items)[k] = items[m + k]
    BY <1>1, <1>8, <1>9, <1>10, <1>11 DEF a
<1>13. m \in Nat /\ DOMAIN items = 1..Len(items) /\ Len(items) \in Nat /\ m <= Len(items)
    BY <1>1, <1>4 DEF n
<1>14. IsSeq(Beyond(i, items)) /\ DOMAIN Beyond(i, items) = 1..(Len(items) - m)
    BY <1>10, <1>11 DEF n
<1>15. m < Len(items) => ~(items[m + 1].kind = "step" /\ SameLoop(i, items[m + 1].index))
    BY <1>4 DEF n, P
<1>16. \A k \in 1..m : SameLoop(i, items[k].index)
    <2>1. \A k \in 1..m : k \in 1..k /\ k \in front
        BY <1>4
    <2> QED
        BY <2>1 DEF front, P
<1> QED
    BY <1>12, <1>13, <1>14, <1>15, <1>16

\* The loop an entry of the worklist belongs to, 0 if to none.
LoopOf(w) == IF w.kind = "step" THEN trace[w.index].rep.id ELSE trace[w.first].rep.id

\* What an entry of the worklist is.
WorkEntry(w) ==
    \/ w.kind = "step" /\ w.index \in DOMAIN trace /\ w.pass \in Nat
    \/ /\ w.kind = "loop" /\ w.first \in DOMAIN trace /\ w.passes \in Nat
       /\ LoopOf(w) # 0 /\ LoopOf(w) \in seen
       /\ IsSeq(w.body)
       /\ \A k \in DOMAIN w.body : w.body[k] \in DOMAIN trace /\ SameLoop(w.first, w.body[k])

\* The worklist has at most one loop: its steps are before it, and none is behind it.
LoopAlone ==
    \A a, b \in DOMAIN work : work[a].kind = "loop" /\ b # a =>
        /\ work[b].kind = "step"
        /\ b < a => LoopOf(work[b]) = LoopOf(work[a]) /\ work[b].pass <= work[a].passes
        /\ b > a => LoopOf(work[b]) # LoopOf(work[a])

\* Behind the loop, or without one, the steps stand in the order of the trace.
StepsInOrder ==
    \A a, b \in DOMAIN work :
        a < b /\ (\A c \in DOMAIN work : c >= a => work[c].kind = "step") => work[a].index < work[b].index

\* How the worklist is laid out.
WorkShape == IsSeq(work) /\ (\A a \in DOMAIN work : WorkEntry(work[a])) /\ LoopAlone /\ StepsInOrder

\* What of a recording the layout rests on.
TraceShape == IsSeq(trace) /\ LoopsTogether

LEMMA ShapeTail ==
    ASSUME WorkShape, work # <<>>, work' = Tail(work), UNCHANGED <<trace, seen>>
    PROVE  WorkShape'
<1>1. /\ IsSeq(work') /\ Len(work) \in Nat \ {0} /\ DOMAIN work = 1..Len(work)
      /\ DOMAIN work' = 1..(Len(work) - 1)
      /\ \A k \in DOMAIN work' : work'[k] = work[k + 1]
    BY TailIsSeq DEF WorkShape
<1>2. \A k \in DOMAIN work' : k + 1 \in DOMAIN work
    BY <1>1
<1>3. ASSUME NEW a \in DOMAIN work' PROVE WorkEntry(work[a])'
    <2>1. WorkEntry(work[a + 1]) /\ work'[a] = work[a + 1]
        BY <1>1, <1>2 DEF WorkShape
    <2> QED
        BY <2>1, Zenon DEF WorkEntry, LoopOf, SameLoop
<1>4. LoopAlone'
    <2> SUFFICES ASSUME NEW a \in DOMAIN work', NEW b \in DOMAIN work', work'[a].kind = "loop", b # a
                 PROVE  /\ work'[b].kind = "step"
                        /\ b < a => LoopOf(work[b])' = LoopOf(work[a])' /\ work'[b].pass <= work'[a].passes
                        /\ b > a => LoopOf(work[b])' # LoopOf(work[a])'
        BY DEF LoopAlone
    <2>1. /\ a + 1 \in DOMAIN work /\ b + 1 \in DOMAIN work /\ work'[a] = work[a + 1] /\ work'[b] = work[b + 1]
          /\ b + 1 # a + 1 /\ (b < a => b + 1 < a + 1) /\ (b > a => b + 1 > a + 1)
        BY <1>1, <1>2
    <2> QED
        BY <2>1 DEF WorkShape, LoopAlone, LoopOf
<1>5. StepsInOrder'
    <2> SUFFICES ASSUME NEW a \in DOMAIN work', NEW b \in DOMAIN work', a < b,
                        \A c \in DOMAIN work' : c >= a => work'[c].kind = "step"
                 PROVE  work'[a].index < work'[b].index
        BY DEF StepsInOrder
    <2>1. a + 1 \in DOMAIN work /\ b + 1 \in DOMAIN work /\ work'[a] = work[a + 1] /\ work'[b] = work[b + 1] /\ a + 1 < b + 1
        BY <1>1, <1>2
    <2>2. ASSUME NEW c \in DOMAIN work, c >= a + 1 PROVE work[c].kind = "step"
        <3>1. c - 1 \in DOMAIN work' /\ c - 1 >= a /\ c - 1 + 1 = c
            BY <1>1, <2>2
        <3> QED
            BY <1>1, <3>1
    <2> QED
        BY <2>1, <2>2 DEF WorkShape, StepsInOrder
<1> QED
    BY <1>1, <1>3, <1>4, <1>5 DEF WorkShape

\* A loop replay meets takes the place of the passes the recording took.
\* The recorded passes of the loop of step i, at the front of the worklist, made way for it.
MeetPlaced(i, m) ==
    /\ m \in Nat /\ work'[1] = LoopAt(i, Body(i), 0) /\ 1 \in DOMAIN work'
    /\ \A a \in DOMAIN work : work[a].kind = "step" /\ (a <= m + 1 => SameLoop(i, work[a].index))
    /\ \A a \in DOMAIN work : a > m + 1 => a - m \in DOMAIN work' /\ a - m # 1
    /\ \A k \in DOMAIN work' : k # 1 =>
          k + m \in DOMAIN work /\ work'[k] = work[k + m] /\ k > 1 /\ ~SameLoop(i, work'[k].index)

LEMMA ShapeMeet ==
    ASSUME WorkShape, TraceShape, work # <<>>, NEW i, i = Head(work).index, Head(work).kind = "step",
           FirstOfLoop(i), seen' = seen \cup {trace[i].rep.id}, UNCHANGED trace,
           work' = <<LoopAt(i, Body(i), 0)>> \o Beyond(i, Tail(work))
    PROVE  /\ WorkShape'
           /\ ToSet(work') \subseteq {LoopAt(i, Body(i), 0)} \cup ToSet(work)
           /\ \E m \in Nat : MeetPlaced(i, m)
<1> DEFINE items == Tail(work)
           loop == LoopAt(i, Body(i), 0)
           rest == Beyond(i, items)
<1>1. /\ IsSeq(items) /\ Len(work) \in Nat \ {0} /\ DOMAIN work = 1..Len(work)
      /\ DOMAIN items = 1..(Len(work) - 1) /\ Head(work) = work[1]
      /\ \A k \in DOMAIN items : items[k] = work[k + 1]
    BY TailIsSeq DEF WorkShape
<1>2. 1 \in DOMAIN work /\ i \in DOMAIN trace /\ work[1].kind = "step" /\ work[1].index = i /\ LoopOf(work[1]) = trace[i].rep.id
    <2>1. 1 \in DOMAIN work
        BY <1>1
    <2>2. WorkEntry(work[1])
        BY <2>1 DEF WorkShape
    <2> QED
        BY <1>1, <2>1, <2>2 DEF WorkEntry, LoopOf
<1>3. \A a \in DOMAIN work : work[a].kind = "step"
    <2> SUFFICES ASSUME NEW a \in DOMAIN work, work[a].kind # "step" PROVE FALSE
        OBVIOUS
    <2>1. WorkEntry(work[a]) /\ a # 1 /\ 1 < a
        BY <1>1, <1>2 DEF WorkShape
    <2>2. work[a].kind = "loop" /\ LoopOf(work[a]) \in seen
        BY <2>1 DEF WorkEntry
    <2>3. LoopOf(work[1]) = LoopOf(work[a])
        BY <1>2, <2>1, <2>2 DEF WorkShape, LoopAlone
    <2> QED
        BY <1>2, <2>2, <2>3 DEF FirstOfLoop
<1>4. \A a, b \in DOMAIN work : a < b => work[a].index < work[b].index
    BY <1>3 DEF WorkShape, StepsInOrder
<1> HIDE DEF items
<1>5. PICK m \in Nat :
          /\ DOMAIN items = 1..Len(items) /\ Len(items) \in Nat /\ m <= Len(items)
          /\ IsSeq(rest) /\ DOMAIN rest = 1..(Len(items) - m)
          /\ \A k \in DOMAIN rest : rest[k] = items[m + k]
          /\ m < Len(items) => ~(items[m + 1].kind = "step" /\ SameLoop(i, items[m + 1].index))
          /\ \A k \in 1..m : SameLoop(i, items[k].index)
    BY <1>1, BeyondDrops DEF items
<1>6. Len(items) = Len(work) - 1
    <2>1. work \in Seq(ToSet(work))
        BY DEF WorkShape, IsSeq
    <2> QED
        BY <2>1, HeadTailProperties DEF items
<1>7. IsSeq(Body(i)) /\ \A k \in DOMAIN Body(i) : Body(i)[k] \in DOMAIN trace /\ SameLoop(i, Body(i)[k])
    BY <1>2, BodyOfLoop DEF TraceShape
<1>8. /\ loop.kind = "loop" /\ loop.first = i /\ loop.passes = 0 /\ loop.body = Body(i)
    BY DEF LoopAt
<1> HIDE DEF loop, rest
<1>9. work' = <<loop>> \o rest
    BY DEF loop, rest, items
<1>10. /\ IsSeq(work') /\ DOMAIN work' = 1..(1 + Len(rest)) /\ Len(rest) \in Nat /\ DOMAIN rest = 1..Len(rest)
       /\ work'[1] = loop /\ 1 \in DOMAIN work'
       /\ \A k \in DOMAIN work' : k # 1 => work'[k] = rest[k - 1] /\ k - 1 \in DOMAIN rest
    <2>1. IsSeq(<<loop>>) /\ Len(<<loop>>) = 1 /\ <<loop>>[1] = loop
        BY ShortIsSeq
    <2> DEFINE s == <<loop>>
    <2> HIDE DEF s
    <2>2. IsSeq(s) /\ Len(s) = 1 /\ s[1] = loop
        BY <2>1 DEF s
    <2>3. /\ IsSeq(s \o rest) /\ Len(rest) \in Nat /\ DOMAIN (s \o rest) = 1..(Len(s) + Len(rest)) /\ DOMAIN rest = 1..Len(rest)
          /\ \A k \in DOMAIN (s \o rest) : (s \o rest)[k] = IF k <= Len(s) THEN s[k] ELSE rest[k - Len(s)]
        BY <1>5, <2>2, ConcatIsSeq
    <2>4. work' = s \o rest
        BY <1>9 DEF s
    <2>5. /\ IsSeq(work') /\ Len(rest) \in Nat /\ DOMAIN work' = 1..(1 + Len(rest)) /\ DOMAIN rest = 1..Len(rest)
          /\ \A k \in DOMAIN work' : work'[k] = IF k <= 1 THEN s[k] ELSE rest[k - 1]
        BY <2>2, <2>3, <2>4
    <2>6. 1 \in DOMAIN work' /\ work'[1] = loop
        BY <2>2, <2>5
    <2>7. ASSUME NEW k \in DOMAIN work', k # 1 PROVE work'[k] = rest[k - 1] /\ k - 1 \in DOMAIN rest
        BY <2>5, <2>7
    <2> QED
        BY <2>5, <2>6, <2>7
<1>11. ASSUME NEW k \in DOMAIN work', k # 1
       PROVE  k + m \in DOMAIN work /\ work'[k] = work[k + m] /\ m + 2 <= k + m /\ k + m > 1
    <2>1. k - 1 \in DOMAIN rest /\ work'[k] = rest[k - 1] /\ k \in Nat
        BY <1>10, <1>11
    <2>2. m + (k - 1) \in DOMAIN items /\ rest[k - 1] = items[m + (k - 1)] /\ k >= 2
        BY <1>5, <2>1
    <2>3. items[m + (k - 1)] = work[m + (k - 1) + 1]
        BY <1>1, <2>2 DEF items
    <2> QED
        BY <1>1, <1>5, <1>6, <2>1, <2>2, <2>3
<1>12. ASSUME NEW k \in DOMAIN work', k # 1 PROVE trace[work'[k].index].rep.id # trace[i].rep.id
    <2>1. k + m \in DOMAIN work /\ work'[k] = work[k + m] /\ m + 2 <= k + m /\ k + m > 1
        BY <1>11, <1>12
    <2>2. m + 1 \in DOMAIN items /\ m < Len(items) /\ m + 2 \in DOMAIN work /\ items[m + 1] = work[m + 2]
        BY <1>1, <1>5, <1>6, <2>1 DEF items
    <2>3. work[m + 2].kind = "step" /\ ~SameLoop(i, work[m + 2].index)
        BY <1>3, <1>5, <2>2
    <2>4. i < work[m + 2].index
        BY <1>2, <1>4, <2>2
    <2>5. work[m + 2].index <= work[k + m].index /\ work[m + 2].index \in DOMAIN trace /\ work[k + m].index \in DOMAIN trace
        <3>1. WorkEntry(work[m + 2]) /\ WorkEntry(work[k + m]) /\ work[k + m].kind = "step"
            BY <1>3, <2>1, <2>2 DEF WorkShape
        <3>2. work[m + 2].index \in DOMAIN trace /\ work[k + m].index \in DOMAIN trace
            BY <2>3, <3>1 DEF WorkEntry
        <3>3. DOMAIN trace \subseteq Nat
            BY DEF TraceShape, IsSeq
        <3>4. m + 2 = k + m \/ m + 2 < k + m
            BY <1>1, <2>1, <2>2
        <3>5. m + 2 < k + m => work[m + 2].index < work[k + m].index
            BY <1>4, <2>1, <2>2
        <3> QED
            BY <3>2, <3>3, <3>4, <3>5
    <2>6. ASSUME SameLoop(i, work[k + m].index) PROVE FALSE
        <3>1. i <= work[m + 2].index
            <4>1. DOMAIN trace \subseteq Nat
                BY DEF TraceShape, IsSeq
            <4> QED
                BY <1>2, <2>4, <2>5, <4>1
        <3>2. SameLoop(i, work[m + 2].index)
            BY <1>2, <2>5, <2>6, <3>1 DEF TraceShape, LoopsTogether, FirstOfLoop
        <3> QED
            BY <2>3, <3>2
    <2> QED
        BY <2>1, <2>6 DEF SameLoop
<1>13. ASSUME NEW a \in DOMAIN work' PROVE WorkEntry(work[a])'
    <2>1. CASE a = 1
        <3>1. LoopOf(work[1])' = trace[i].rep.id
            BY <1>8, <1>10 DEF LoopOf
        <3> QED
            BY <1>2, <1>7, <1>8, <1>10, <2>1, <3>1 DEF WorkEntry, SameLoop, FirstOfLoop
    <2>2. CASE a # 1
        <3>1. WorkEntry(work[a + m]) /\ work'[a] = work[a + m]
            BY <1>11, <2>2 DEF WorkShape
        <3> QED
            BY <3>1, Zenon DEF WorkEntry, LoopOf, SameLoop
    <2> QED
        BY <2>1, <2>2
<1>14. \A a \in DOMAIN work' : a # 1 => work'[a].kind = "step"
    BY <1>3, <1>11
<1>15. LoopAlone'
    <2> SUFFICES ASSUME NEW a \in DOMAIN work', NEW b \in DOMAIN work', work'[a].kind = "loop", b # a
                 PROVE  /\ work'[b].kind = "step"
                        /\ b < a => LoopOf(work[b])' = LoopOf(work[a])' /\ work'[b].pass <= work'[a].passes
                        /\ b > a => LoopOf(work[b])' # LoopOf(work[a])'
        BY DEF LoopAlone
    <2>1. a = 1 /\ b # 1 /\ b > 1 /\ work'[b].kind = "step"
        BY <1>10, <1>14
    <2>2. LoopOf(work[b])' = trace[work'[b].index].rep.id /\ LoopOf(work[a])' = trace[i].rep.id
        BY <1>8, <1>10, <2>1 DEF LoopOf
    <2>3. trace[work'[b].index].rep.id # trace[i].rep.id
        BY <1>12, <2>1
    <2>4. ~(b < a)
        BY <1>10, <2>1
    <2> QED
        BY <2>1, <2>2, <2>3, <2>4, Zenon
<1>16. StepsInOrder'
    <2> SUFFICES ASSUME NEW a \in DOMAIN work', NEW b \in DOMAIN work', a < b,
                        \A c \in DOMAIN work' : c >= a => work'[c].kind = "step"
                 PROVE  work'[a].index < work'[b].index
        BY DEF StepsInOrder
    <2>1. a # 1 /\ b # 1
        BY <1>8, <1>10
    <2>2. /\ a + m \in DOMAIN work /\ work'[a] = work[a + m] /\ b + m \in DOMAIN work /\ work'[b] = work[b + m]
          /\ a + m < b + m
        BY <1>10, <1>11, <2>1
    <2> QED
        BY <1>4, <2>2
<1>17. ToSet(work') \subseteq {loop} \cup ToSet(work)
    BY <1>10, <1>11 DEF ToSet
<1>18. ASSUME NEW a \in DOMAIN work, a <= m + 1 PROVE SameLoop(i, work[a].index)
    <2>1. CASE a = 1
        BY <1>2, <2>1 DEF SameLoop
    <2>2. CASE a # 1
        <3>1. a - 1 \in 1..m /\ a - 1 \in DOMAIN items /\ items[a - 1] = work[a]
            <4>1. a - 1 \in 1..m /\ a - 1 \in DOMAIN items
                BY <1>1, <1>5, <1>18, <2>2
            <4>2. items[a - 1] = work[(a - 1) + 1] /\ (a - 1) + 1 = a
                BY <1>1, <4>1
            <4> QED
                BY <4>1, <4>2
        <3> QED
            BY <1>5, <3>1
    <2> QED
        BY <2>1, <2>2
<1>19. ASSUME NEW a \in DOMAIN work, a > m + 1 PROVE a - m \in DOMAIN work' /\ a - m # 1
    <2>1. DOMAIN work' = 1..(1 + Len(rest)) /\ Len(rest) \in Nat /\ DOMAIN rest = 1..Len(rest)
        BY <1>10
    <2>2. Len(rest) = Len(items) - m
        BY <1>5, <2>1
    <2>3. Len(work) \in Nat /\ a \in 1..Len(work) /\ m \in Nat
        BY <1>1, <1>5, <1>19
    <2> QED
        BY <1>6, <1>19, <2>1, <2>2, <2>3
<1>20. MeetPlaced(i, m)
    <2>1. \A k \in DOMAIN work' : k # 1 => k > 1
        BY <1>10
    <2>2. \A k \in DOMAIN work' : k # 1 => ~SameLoop(i, work'[k].index)
        BY <1>12 DEF SameLoop
    <2> QED
        BY <1>3, <1>5, <1>10, <1>11, <1>18, <1>19, <2>1, <2>2 DEF MeetPlaced, loop
<1> QED
    BY <1>5, <1>10, <1>13, <1>15, <1>16, <1>17, <1>20 DEF WorkShape, loop

\* Another pass puts the steps of the body before the loop.
PassPlaced(w) ==
    /\ IsSeq(work') /\ Len(work) \in Nat \ {0} /\ DOMAIN work = 1..Len(work)
    /\ Len(w.body) \in Nat /\ DOMAIN w.body = 1..Len(w.body)
    /\ DOMAIN work' = 1..(Len(w.body) + Len(work))
    /\ \A k \in 1..Len(w.body) : work'[k] = StepAt(w.body[k], w.passes + 1)
    /\ work'[Len(w.body) + 1] = LoopAt(w.first, w.body, w.passes + 1)
    /\ \A k \in 2..Len(work) : work'[k + Len(w.body)] = work[k]

LEMMA RepeatPlaces ==
    ASSUME WorkShape, work # <<>>, Head(work).kind = "loop",
           NEW again, again = [k \in DOMAIN Head(work).body |-> StepAt(Head(work).body[k], Head(work).passes + 1)],
           NEW loop, loop = LoopAt(Head(work).first, Head(work).body, Head(work).passes + 1),
           work' = again \o <<loop>> \o Tail(work)
    PROVE  PassPlaced(Head(work))
<1> DEFINE w == Head(work)
           one == <<loop>>
           rest == Tail(work)
           B == Len(w.body)
           M == Len(work)
<1>1. /\ IsSeq(rest) /\ M \in Nat \ {0} /\ DOMAIN work = 1..M
      /\ DOMAIN rest = 1..(M - 1) /\ w = work[1]
      /\ \A k \in DOMAIN rest : rest[k] = work[k + 1]
    BY TailIsSeq DEF WorkShape
<1>2. IsSeq(w.body)
    <2>1. 1 \in DOMAIN work
        BY <1>1
    <2>2. WorkEntry(work[1])
        BY <2>1 DEF WorkShape
    <2> QED
        BY <1>1, <2>2 DEF WorkEntry
<1>3. B \in Nat /\ DOMAIN w.body = 1..B
    BY <1>2 DEF IsSeq
<1>4. /\ IsSeq(again) /\ Len(again) = B /\ DOMAIN again = 1..B
      /\ \A k \in 1..B : again[k] = StepAt(w.body[k], w.passes + 1)
    <2>1. again = [k \in 1..B |-> again[k]] /\ \A k \in 1..B : again[k] = StepAt(w.body[k], w.passes + 1)
        BY <1>3
    <2> QED
        BY <1>3, <2>1, FunIsSeq
<1>5. IsSeq(one) /\ Len(one) = 1 /\ one[1] = loop
    BY ShortIsSeq
<1>7. work' = (again \o one) \o rest
    OBVIOUS
<1>8. Len(rest) = M - 1
    <2>1. work \in Seq(ToSet(work))
        BY DEF WorkShape, IsSeq
    <2> QED
        BY <2>1, HeadTailProperties
<1> HIDE DEF one, rest
<1> DEFINE front == again \o one
<1>9. /\ IsSeq(front) /\ Len(front) = B + 1 /\ DOMAIN front = 1..(B + 1)
      /\ \A k \in 1..B : front[k] = StepAt(w.body[k], w.passes + 1)
      /\ front[B + 1] = loop
    <2>1. /\ IsSeq(front) /\ Len(front) = Len(again) + Len(one) /\ DOMAIN front = 1..(Len(again) + Len(one))
          /\ \A k \in DOMAIN front : front[k] = IF k <= Len(again) THEN again[k] ELSE one[k - Len(again)]
        BY <1>4, <1>5, ConcatIsSeq, Zenon
    <2> HIDE DEF front
    <2>2. Len(front) = B + 1 /\ DOMAIN front = 1..(B + 1)
        BY <1>4, <1>5, <2>1
    <2>3. ASSUME NEW k \in 1..B PROVE front[k] = StepAt(w.body[k], w.passes + 1)
        <3>1. k \in DOMAIN front /\ k <= Len(again)
            BY <1>3, <1>4, <2>2, <2>3
        <3> QED
            BY <1>4, <2>1, <2>3, <3>1
    <2>4. front[B + 1] = loop
        <3>1. PICK p : p = B + 1
            OBVIOUS
        <3>2. p \in DOMAIN front /\ ~(p <= Len(again)) /\ p - Len(again) = 1
            BY <1>3, <1>4, <2>2, <3>1
        <3>3. front[p] = one[p - Len(again)]
            BY <2>1, <3>2
        <3> QED
            BY <1>5, <3>1, <3>2, <3>3
    <2> QED
        BY <2>1, <2>2, <2>3, <2>4
<1> HIDE DEF front
<1>10. /\ IsSeq(work') /\ DOMAIN work' = 1..(B + M)
       /\ \A k \in DOMAIN work' : work'[k] = IF k <= B + 1 THEN front[k] ELSE rest[k - (B + 1)]
    <2>1. /\ IsSeq(front \o rest) /\ DOMAIN (front \o rest) = 1..(Len(front) + Len(rest))
          /\ \A k \in DOMAIN (front \o rest) : (front \o rest)[k] = IF k <= Len(front) THEN front[k] ELSE rest[k - Len(front)]
        BY <1>1, <1>9, ConcatIsSeq, Zenon
    <2>2. work' = front \o rest
        BY <1>7, Zenon DEF front
    <2>3. Len(front) + Len(rest) = B + M
        BY <1>1, <1>3, <1>8, <1>9
    <2> QED
        BY <1>9, <2>1, <2>2, <2>3
<1>11. ASSUME NEW k \in 1..B PROVE work'[k] = StepAt(w.body[k], w.passes + 1)
    <2>1. k \in DOMAIN work' /\ k <= B + 1
        BY <1>1, <1>3, <1>10, <1>11
    <2> QED
        BY <1>9, <1>10, <1>11, <2>1
<1>12. work'[B + 1] = loop
    <2>1. B + 1 \in DOMAIN work' /\ B + 1 <= B + 1
        BY <1>1, <1>3, <1>10
    <2> QED
        BY <1>9, <1>10, <2>1
<1>13. ASSUME NEW k \in 2..M PROVE work'[k + B] = work[k]
    <2>1. PICK p : p = k + B
        OBVIOUS
    <2>2. p \in DOMAIN work' /\ ~(p <= B + 1) /\ p - (B + 1) = k - 1 /\ k - 1 \in DOMAIN rest /\ k - 1 + 1 = k
        BY <1>1, <1>3, <1>10, <1>13, <2>1
    <2>3. work'[p] = rest[p - (B + 1)]
        BY <1>10, <2>2
    <2> QED
        BY <1>1, <2>1, <2>2, <2>3, Zenon
<1> HIDE DEF w
<1> QED
    BY <1>1, <1>3, <1>10, <1>11, <1>12, <1>13, Zenon DEF PassPlaced, w

LEMMA ShapeRepeat ==
    ASSUME WorkShape, NEW w, w = work[1], w.kind = "loop", UNCHANGED <<trace, seen>>, PassPlaced(w)
    PROVE  /\ WorkShape'
           /\ \A x \in ToSet(work') :
                 \/ \E k \in DOMAIN w.body : x = StepAt(w.body[k], w.passes + 1)
                 \/ x = LoopAt(w.first, w.body, w.passes + 1)
                 \/ \E b \in DOMAIN work : b > 1 /\ x = work[b]
<1> DEFINE loop == LoopAt(w.first, w.body, w.passes + 1)
           B == Len(w.body)
           M == Len(work)
<1>1. M \in Nat \ {0} /\ DOMAIN work = 1..M /\ w = work[1] /\ 1 \in DOMAIN work
    <2>1. M \in Nat \ {0} /\ DOMAIN work = 1..M
        BY DEF PassPlaced
    <2>2. 1 \in DOMAIN work
        BY <2>1
    <2> QED
        BY <2>1, <2>2
<1>2. /\ w.first \in DOMAIN trace /\ w.passes \in Nat /\ trace[w.first].rep.id # 0 /\ trace[w.first].rep.id \in seen
      /\ IsSeq(w.body) /\ \A k \in DOMAIN w.body : w.body[k] \in DOMAIN trace /\ SameLoop(w.first, w.body[k])
    <2>1. WorkEntry(work[1])
        BY <1>1 DEF WorkShape
    <2> QED
        BY <1>1, <2>1 DEF WorkEntry, LoopOf
<1>3. B \in Nat /\ DOMAIN w.body = 1..B
    BY DEF PassPlaced
<1>6. loop.kind = "loop" /\ loop.first = w.first /\ loop.body = w.body /\ loop.passes = w.passes + 1
    BY DEF LoopAt
<1> HIDE DEF loop
<1>10. IsSeq(work') /\ DOMAIN work' = 1..(B + M)
    BY DEF PassPlaced
<1>11. ASSUME NEW k \in DOMAIN work', k <= B
       PROVE  /\ work'[k] = StepAt(w.body[k], w.passes + 1) /\ k \in DOMAIN w.body
              /\ work'[k].kind = "step" /\ work'[k].index = w.body[k] /\ work'[k].pass = w.passes + 1
    <2>1. k \in 1..B
        BY <1>3, <1>10, <1>11
    <2>2. work'[k] = StepAt(w.body[k], w.passes + 1)
        BY <2>1 DEF PassPlaced
    <2>3. /\ StepAt(w.body[k], w.passes + 1).kind = "step" /\ StepAt(w.body[k], w.passes + 1).index = w.body[k]
          /\ StepAt(w.body[k], w.passes + 1).pass = w.passes + 1
        BY DEF StepAt
    <2> QED
        BY <1>3, <2>1, <2>2, <2>3
<1>12. B + 1 \in DOMAIN work' /\ work'[B + 1] = loop
    <2>1. B + 1 \in DOMAIN work'
        BY <1>1, <1>3, <1>10
    <2> QED
        BY <2>1 DEF PassPlaced, loop
<1>13. ASSUME NEW k \in DOMAIN work', k > B + 1
       PROVE  k - B \in DOMAIN work /\ k - B > 1 /\ work'[k] = work[k - B]
    <2>1. k - B \in 2..M /\ k - B + B = k
        BY <1>1, <1>3, <1>10, <1>13
    <2>2. work'[k] = work[k - B]
        BY <2>1 DEF PassPlaced
    <2> QED
        BY <1>1, <2>1, <2>2
<1>14. \A k \in DOMAIN work' : k <= B \/ k = B + 1 \/ k > B + 1
    BY <1>1, <1>3, <1>10
<1>15. ASSUME NEW k \in DOMAIN work', k > B + 1
       PROVE  work'[k].kind = "step" /\ LoopOf(work'[k]) # trace[w.first].rep.id
    <2>1. k - B \in DOMAIN work /\ k - B > 1 /\ work'[k] = work[k - B]
        BY <1>13, <1>15
    <2>2. work[k - B].kind = "step" /\ LoopOf(work[k - B]) # LoopOf(work[1])
        BY <1>1, <2>1 DEF WorkShape, LoopAlone
    <2>3. LoopOf(work[1]) = trace[w.first].rep.id
        BY <1>1 DEF LoopOf
    <2> QED
        BY <2>1, <2>2, <2>3
<1>16. ASSUME NEW a \in DOMAIN work' PROVE WorkEntry(work[a])'
    <2>1. CASE a <= B
        <3>1. w.body[a] \in DOMAIN trace /\ w.passes + 1 \in Nat
            BY <1>2, <1>11, <2>1
        <3> QED
            BY <1>11, <2>1, <3>1 DEF WorkEntry
    <2>2. CASE a = B + 1
        <3>1. work'[a] = loop
            BY <1>12, <2>2
        <3>2. LoopOf(work[a])' = trace[w.first].rep.id
            BY <1>6, <3>1 DEF LoopOf
        <3>3. w.passes + 1 \in Nat
            BY <1>2
        <3> QED
            BY <1>2, <1>6, <3>1, <3>2, <3>3 DEF WorkEntry, SameLoop
    <2>3. CASE a > B + 1
        <3>1. WorkEntry(work[a - B]) /\ work'[a] = work[a - B]
            BY <1>13, <2>3 DEF WorkShape
        <3> QED
            BY <3>1, Zenon DEF WorkEntry, LoopOf, SameLoop
    <2> QED
        BY <1>14, <2>1, <2>2, <2>3
<1>17. LoopAlone'
    <2> SUFFICES ASSUME NEW a \in DOMAIN work', NEW b \in DOMAIN work', work'[a].kind = "loop", b # a
                 PROVE  /\ work'[b].kind = "step"
                        /\ b < a => LoopOf(work[b])' = LoopOf(work[a])' /\ work'[b].pass <= work'[a].passes
                        /\ b > a => LoopOf(work[b])' # LoopOf(work[a])'
        BY DEF LoopAlone
    <2>1. a = B + 1
        BY <1>11, <1>14, <1>15
    <2>2. work'[a] = loop /\ LoopOf(work[a])' = trace[w.first].rep.id
        BY <1>6, <1>12, <2>1 DEF LoopOf
    <2>3. CASE b <= B
        <3>1. work'[b].kind = "step" /\ work'[b].pass <= work'[a].passes /\ LoopOf(work[b])' = trace[w.body[b]].rep.id
            BY <1>2, <1>6, <1>11, <2>2, <2>3 DEF LoopOf
        <3>2. trace[w.body[b]].rep.id = trace[w.first].rep.id
            BY <1>2, <1>11, <2>3 DEF SameLoop
        <3>3. ~(b > a)
            BY <1>3, <1>10, <2>1, <2>3
        <3> QED
            BY <2>2, <3>1, <3>2, <3>3
    <2>4. CASE b > B + 1
        <3>1. work'[b].kind = "step" /\ LoopOf(work'[b]) # trace[w.first].rep.id
            BY <1>15, <2>4
        <3>2. LoopOf(work[b])' = LoopOf(work'[b])
            BY DEF LoopOf
        <3>3. ~(b < a)
            BY <1>3, <1>10, <2>1, <2>4
        <3> QED
            BY <2>2, <3>1, <3>2, <3>3
    <2> QED
        BY <1>14, <2>1, <2>3, <2>4
<1>18. StepsInOrder'
    <2> SUFFICES ASSUME NEW a \in DOMAIN work', NEW b \in DOMAIN work', a < b,
                        \A c \in DOMAIN work' : c >= a => work'[c].kind = "step"
                 PROVE  work'[a].index < work'[b].index
        BY DEF StepsInOrder
    <2>1. ~(B + 1 >= a)
        BY <1>6, <1>12
    <2>2. a > B + 1 /\ b > B + 1
        BY <1>1, <1>3, <1>10, <2>1
    <2>3. /\ a - B \in DOMAIN work /\ a - B > 1 /\ work'[a] = work[a - B]
          /\ b - B \in DOMAIN work /\ work'[b] = work[b - B]
        BY <1>13, <2>2
    <2>5. a - B < b - B
        BY <1>1, <1>3, <1>10
    <2>4. \A c \in DOMAIN work : c >= a - B => work[c].kind = "step"
        <3>1. \A c \in DOMAIN work : c >= a - B => c # 1
            BY <1>1, <1>3, <2>3
        <3> QED
            BY <1>1, <3>1 DEF WorkShape, LoopAlone
    <2> QED
        BY <2>3, <2>4, <2>5 DEF WorkShape, StepsInOrder
<1>19. ASSUME NEW x \in ToSet(work')
       PROVE  \/ \E k \in DOMAIN w.body : x = StepAt(w.body[k], w.passes + 1)
              \/ x = loop
              \/ \E b \in DOMAIN work : b > 1 /\ x = work[b]
    <2>1. PICK k \in DOMAIN work' : x = work'[k]
        BY <1>19 DEF ToSet
    <2> QED
        BY <1>11, <1>12, <1>13, <1>14, <2>1
<1> QED
    BY <1>10, <1>16, <1>17, <1>18, <1>19 DEF WorkShape, loop

LEMMA ShapeStart ==
    ASSUME IsSeq(trace), UNCHANGED trace, work' = [i \in DOMAIN trace |-> StepAt(i, 1)]
    PROVE  WorkShape'
<1>1. Len(trace) \in Nat /\ DOMAIN trace = 1..Len(trace)
    BY DEF IsSeq
<1>2. work' = [i \in 1..Len(trace) |-> work'[i]] /\ DOMAIN work' = DOMAIN trace
    BY <1>1
<1>3. IsSeq(work')
    BY <1>1, <1>2, FunIsSeq
<1>4. \A i \in DOMAIN work' : work'[i].kind = "step" /\ work'[i].index = i /\ work'[i].pass = 1
    BY DEF StepAt
<1> QED
    BY <1>2, <1>3, <1>4 DEF WorkShape, WorkEntry, LoopAlone, StepsInOrder

---------------------------------------------------------------------------
(* Blocks run to their ends.                                               *)

\* What a recording is to replay.
GuardsShared == \A i, j \in DOMAIN trace : \A g \in GuardIds(i) : g \in GuardIds(j) => SameLoop(i, j)
TraceFacts == TraceShape /\ GuardsShared /\ \A i \in DOMAIN trace : IsSeq(trace[i].guards)

\* An entry of the worklist may still read guard g.
Carries(w, g) ==
    IF w.kind = "step" THEN g \in GuardIds(w.index) ELSE \E k \in DOMAIN w.body : g \in GuardIds(w.body[k])
\* What it reads it reads in a pass after pass p.
Behind(w, p) == IF w.kind = "step" THEN p < w.pass ELSE p <= w.passes

\* The reported steps that ran well.
PassedRuns == {r \in ToSet(results) : r.status = "passed"}
\* Guard g was read and held.
Holding(g) == g \in DOMAIN verdicts /\ verdicts[g]

\* The guards of a step that ran hold, or are read again in a later pass only.
Settled(r, g) ==
    \/ Holding(g)
    \/ trace[r.index].rep.id # 0 /\ \A w \in ToSet(work) : Carries(w, g) => Behind(w, r.pass)

\* What is known of them.
RunsKnown ==
    \A r \in PassedRuns :
        /\ r.index \in DOMAIN trace /\ r.pass \in Nat
        /\ trace[r.index].rep.id # 0 => trace[r.index].rep.id \in seen
        /\ \A g \in GuardIds(r.index) : Settled(r, g)

\* A loop counts the passes its steps ran in.
PassesCounted ==
    \A w \in ToSet(work) : w.kind = "loop" =>
        \A r \in PassedRuns : trace[r.index].rep.id = LoopOf(w) => r.pass <= w.passes

\* A step about to run has had its guards read, and all of them hold.
GuardsRead ==
    ready => /\ work # <<>> /\ Head(work).kind = "step" /\ ~FirstOfLoop(Head(work).index)
             /\ \A g \in GuardIds(Head(work).index) : Holding(g)

\* The invariant of replay.
ReplayKnown == WorkShape /\ RunsKnown /\ PassesCounted /\ GuardsRead

\* A step that drops work and passes nothing.
LEMMA RunsQuiet ==
    ASSUME RunsKnown, PassesCounted, UNCHANGED trace, seen \subseteq seen',
           ToSet(work)' \subseteq ToSet(work), PassedRuns' \subseteq PassedRuns,
           \A g : Holding(g) => Holding(g)'
    PROVE  RunsKnown' /\ PassesCounted'
<1>1. ASSUME NEW r \in PassedRuns', NEW g \in GuardIds(r.index)' PROVE Settled(r, g)'
    <2>1. r \in PassedRuns /\ g \in GuardIds(r.index)
        BY <1>1 DEF GuardIds
    <2>2. Settled(r, g)
        BY <2>1 DEF RunsKnown
    <2>3. \A w : Carries(w, g)' => Carries(w, g)
        BY DEF Carries, GuardIds
    <2> QED
        BY <2>2, <2>3 DEF Settled, Behind
<1>2. RunsKnown'
    BY <1>1 DEF RunsKnown
<1>3. PassesCounted'
    BY DEF PassesCounted, LoopOf
<1> QED
    BY <1>2, <1>3

\* A step ran: its guards hold.
LEMMA RunsRan ==
    ASSUME ReplayKnown, ready, UNCHANGED <<trace, seen, verdicts>>, ToSet(work)' \subseteq ToSet(work),
           \A w \in ToSet(work)' : \E b \in DOMAIN work : b > 1 /\ w = work[b],
           NEW r, r.index = Head(work).index, r.pass = Head(work).pass,
           PassedRuns' \subseteq PassedRuns \cup {r}
    PROVE  RunsKnown' /\ PassesCounted'
<1>1. /\ Head(work) = work[1] /\ 1 \in DOMAIN work /\ work[1].kind = "step"
      /\ r.index \in DOMAIN trace /\ r.pass \in Nat /\ ~FirstOfLoop(r.index)
      /\ \A g \in GuardIds(r.index) : Holding(g)
    <2>1. work # <<>> /\ IsSeq(work)
        BY DEF ReplayKnown, GuardsRead, WorkShape
    <2>2. Head(work) = work[1] /\ Len(work) \in Nat \ {0} /\ DOMAIN work = 1..Len(work)
        BY <2>1, TailIsSeq
    <2>3. 1 \in DOMAIN work
        BY <2>2
    <2>4. WorkEntry(work[1])
        BY <2>3 DEF ReplayKnown, WorkShape
    <2> QED
        BY <2>2, <2>3, <2>4 DEF ReplayKnown, GuardsRead, WorkEntry
<1>2. \A g : Holding(g) <=> Holding(g)'
    BY DEF Holding
<1>3. \A w, g : Carries(w, g)' => Carries(w, g)
    BY DEF Carries, GuardIds
<1>4. ASSUME NEW s \in PassedRuns', NEW g \in GuardIds(s.index)' PROVE Settled(s, g)'
    <2>1. g \in GuardIds(s.index)
        BY <1>4 DEF GuardIds
    <2>2. CASE s = r
        BY <1>1, <1>2, <2>1, <2>2 DEF Settled
    <2>3. CASE s \in PassedRuns
        <3>1. Settled(s, g)
            BY <2>1, <2>3 DEF ReplayKnown, RunsKnown
        <3> QED
            BY <1>2, <1>3, <3>1 DEF Settled, Behind
    <2> QED
        BY <1>4, <2>2, <2>3
<1>5. RunsKnown'
    BY <1>1, <1>4 DEF ReplayKnown, RunsKnown, FirstOfLoop
<1>6. ASSUME NEW w \in ToSet(work)', w.kind = "loop", NEW s \in PassedRuns', trace[s.index].rep.id = LoopOf(w)
      PROVE  s.pass <= w.passes
    <2>1. CASE s = r
        <3>1. PICK b \in DOMAIN work : b > 1 /\ w = work[b]
            BY <1>6
        <3> QED
            BY <1>1, <1>6, <2>1, <3>1 DEF ReplayKnown, WorkShape, LoopAlone
    <2>2. CASE s \in PassedRuns
        BY <1>6, <2>2 DEF ReplayKnown, PassesCounted
    <2> QED
        BY <1>6, <2>1, <2>2
<1>7. PassesCounted'
    BY <1>6 DEF PassesCounted, LoopOf
<1> QED
    BY <1>5, <1>7

\* No step that ran is of a loop that replay meets.
LEMMA RunsMeet ==
    ASSUME TraceFacts, RunsKnown, PassesCounted, NEW i \in DOMAIN trace, FirstOfLoop(i),
           UNCHANGED <<trace, verdicts>>, seen \subseteq seen',
           ToSet(work)' \subseteq {LoopAt(i, Body(i), 0)} \cup ToSet(work), PassedRuns' \subseteq PassedRuns
    PROVE  RunsKnown' /\ PassesCounted'
<1> DEFINE loop == LoopAt(i, Body(i), 0)
<1>1. loop.kind = "loop" /\ loop.first = i /\ loop.body = Body(i) /\ loop.passes = 0
    BY DEF LoopAt
<1>2. \A k \in DOMAIN Body(i) : Body(i)[k] \in DOMAIN trace /\ SameLoop(i, Body(i)[k])
    BY BodyOfLoop DEF TraceFacts, TraceShape
<1>3. \A g : Holding(g) <=> Holding(g)'
    BY DEF Holding
<1>4. \A w, g : Carries(w, g)' <=> Carries(w, g)
    BY DEF Carries, GuardIds
<1>5. ASSUME NEW r \in PassedRuns PROVE trace[r.index].rep.id # trace[i].rep.id
    BY <1>5 DEF RunsKnown, FirstOfLoop
<1> HIDE DEF loop
<1>6. ASSUME NEW r \in PassedRuns, NEW g \in GuardIds(r.index), Carries(loop, g) PROVE FALSE
    <2>1. PICK k \in DOMAIN Body(i) : g \in GuardIds(Body(i)[k])
        BY <1>1, <1>6 DEF Carries
    <2>2. r.index \in DOMAIN trace
        BY <1>6 DEF RunsKnown
    <2>3. SameLoop(r.index, Body(i)[k])
        BY <1>2, <1>6, <2>1, <2>2 DEF TraceFacts, GuardsShared
    <2> QED
        BY <1>2, <1>5, <2>3 DEF SameLoop
<1>7. ASSUME NEW r \in PassedRuns', NEW g \in GuardIds(r.index)' PROVE Settled(r, g)'
    <2>1. r \in PassedRuns /\ g \in GuardIds(r.index)
        BY <1>7 DEF GuardIds
    <2>2. Settled(r, g)
        BY <2>1 DEF RunsKnown
    <2>3. \A w \in ToSet(work)' : Carries(w, g) => w \in ToSet(work)
        BY <1>6, <2>1 DEF loop
    <2> QED
        BY <1>3, <1>4, <2>2, <2>3 DEF Settled, Behind
<1>8. RunsKnown'
    BY <1>7 DEF RunsKnown
<1>9. ASSUME NEW w \in ToSet(work)', w.kind = "loop", NEW r \in PassedRuns', trace[r.index].rep.id = LoopOf(w)
      PROVE  r.pass <= w.passes
    <2>1. CASE w = loop
        <3>1. LoopOf(w) = trace[i].rep.id
            BY <1>1, <2>1 DEF LoopOf
        <3> QED
            BY <1>5, <1>9, <3>1
    <2>2. CASE w \in ToSet(work)
        BY <1>9, <2>2 DEF PassesCounted
    <2> QED
        BY <1>9, <2>1, <2>2 DEF loop
<1>10. PassesCounted'
    BY <1>9 DEF PassesCounted, LoopOf
<1> QED
    BY <1>8, <1>10

\* Another pass forgets what the guards of the body said, and reads them again.
LEMMA RunsRepeat ==
    ASSUME TraceFacts, WorkShape, RunsKnown, PassesCounted, NEW w, w = work[1], 1 \in DOMAIN work, w.kind = "loop",
           NEW guards, guards = UNION {GuardIds(w.body[k]) : k \in DOMAIN w.body},
           verdicts' = [g \in DOMAIN verdicts \ guards |-> verdicts[g]],
           \A x \in ToSet(work)' :
                 \/ \E k \in DOMAIN w.body : x = StepAt(w.body[k], w.passes + 1)
                 \/ x = LoopAt(w.first, w.body, w.passes + 1)
                 \/ \E b \in DOMAIN work : b > 1 /\ x = work[b],
           UNCHANGED <<trace, seen>>, PassedRuns' \subseteq PassedRuns
    PROVE  RunsKnown' /\ PassesCounted'
<1> DEFINE loop == LoopAt(w.first, w.body, w.passes + 1)
<1>1. loop.kind = "loop" /\ loop.first = w.first /\ loop.body = w.body /\ loop.passes = w.passes + 1
    BY DEF LoopAt
<1>2. /\ w.first \in DOMAIN trace /\ w.passes \in Nat /\ trace[w.first].rep.id # 0
      /\ \A k \in DOMAIN w.body : w.body[k] \in DOMAIN trace /\ SameLoop(w.first, w.body[k])
    <2>1. WorkEntry(work[1])
        BY DEF WorkShape
    <2> QED
        BY <2>1 DEF WorkEntry, LoopOf
<1>3. \A x, g : Carries(x, g)' <=> Carries(x, g)
    BY DEF Carries, GuardIds
<1>4. \A g : Holding(g) /\ g \notin guards => Holding(g)'
    BY DEF Holding
<1>5. \A k \in DOMAIN w.body : /\ StepAt(w.body[k], w.passes + 1).kind = "step"
                               /\ StepAt(w.body[k], w.passes + 1).index = w.body[k]
                               /\ StepAt(w.body[k], w.passes + 1).pass = w.passes + 1
    BY DEF StepAt
<1>6. w \in ToSet(work)
    BY DEF ToSet
<1>7. ASSUME NEW b \in DOMAIN work, b > 1
      PROVE  work[b].kind = "step" /\ trace[work[b].index].rep.id # trace[w.first].rep.id /\ work[b].index \in DOMAIN trace
    <2>1. WorkEntry(work[b])
        BY <1>7 DEF WorkShape
    <2>2. work[b].kind = "step" /\ LoopOf(work[b]) # LoopOf(work[1])
        BY <1>7 DEF WorkShape, LoopAlone
    <2> QED
        BY <2>1, <2>2 DEF WorkEntry, LoopOf
<1> HIDE DEF loop
<1>8. ASSUME NEW r \in PassedRuns', NEW g \in GuardIds(r.index)' PROVE Settled(r, g)'
    <2>1. r \in PassedRuns /\ g \in GuardIds(r.index) /\ r.index \in DOMAIN trace /\ r.pass \in Nat /\ Settled(r, g)
        <3>1. r \in PassedRuns /\ g \in GuardIds(r.index)
            BY <1>8 DEF GuardIds
        <3> QED
            BY <3>1 DEF RunsKnown
    <2>2. CASE g \notin guards
        <3>1. CASE Holding(g)
            BY <1>4, <2>2, <3>1 DEF Settled
        <3>2. CASE /\ trace[r.index].rep.id # 0
                   /\ \A x \in ToSet(work) : Carries(x, g) => Behind(x, r.pass)
            <4>1. \A k \in DOMAIN w.body : g \notin GuardIds(w.body[k])
                BY <2>2
            <4>2. ASSUME NEW x \in ToSet(work)', Carries(x, g) PROVE x \in ToSet(work)
                <5>1. ~Carries(loop, g)
                    BY <1>1, <4>1 DEF Carries
                <5>2. \A k \in DOMAIN w.body : ~Carries(StepAt(w.body[k], w.passes + 1), g)
                    BY <1>5, <4>1 DEF Carries
                <5>3. \E b \in DOMAIN work : x = work[b]
                    BY <4>2, <5>1, <5>2 DEF loop
                <5> QED
                    BY <5>3 DEF ToSet
            <4> QED
                BY <1>3, <3>2, <4>2 DEF Settled, Behind
        <3> QED
            BY <2>1, <3>1, <3>2 DEF Settled
    <2>3. CASE g \in guards
        <3>1. PICK k \in DOMAIN w.body : g \in GuardIds(w.body[k])
            BY <2>3
        <3>2. trace[r.index].rep.id = trace[w.first].rep.id
            BY <1>2, <2>1, <3>1 DEF TraceFacts, GuardsShared, SameLoop
        <3>3. r.pass <= w.passes
            <4>1. LoopOf(w) = trace[w.first].rep.id
                BY DEF LoopOf
            <4> QED
                BY <1>6, <2>1, <3>2, <4>1 DEF PassesCounted
        <3>4. r.pass < w.passes + 1 /\ r.pass <= w.passes + 1
            BY <1>2, <2>1, <3>3
        <3>5. ASSUME NEW x \in ToSet(work)', Carries(x, g) PROVE Behind(x, r.pass)
            <4>1. CASE \E l \in DOMAIN w.body : x = StepAt(w.body[l], w.passes + 1)
                BY <1>5, <3>4, <4>1 DEF Behind
            <4>2. CASE x = loop
                BY <1>1, <3>4, <4>2 DEF Behind
            <4>3. ASSUME NEW b \in DOMAIN work, b > 1, x = work[b] PROVE FALSE
                <5>1. g \in GuardIds(work[b].index)
                    BY <1>7, <3>5, <4>3 DEF Carries
                <5>2. SameLoop(r.index, work[b].index)
                    BY <1>7, <2>1, <4>3, <5>1 DEF TraceFacts, GuardsShared
                <5> QED
                    BY <1>7, <3>2, <4>3, <5>2 DEF SameLoop
            <4> QED
                BY <3>5, <4>1, <4>2, <4>3 DEF loop
        <3> QED
            BY <1>2, <1>3, <3>2, <3>5 DEF Settled, Behind
    <2> QED
        BY <2>2, <2>3
<1>9. RunsKnown'
    BY <1>8 DEF RunsKnown
<1>10. ASSUME NEW x \in ToSet(work)', x.kind = "loop", NEW r \in PassedRuns', trace[r.index].rep.id = LoopOf(x)
       PROVE  r.pass <= x.passes
    <2>1. x = loop
        BY <1>5, <1>7, <1>10 DEF loop
    <2>2. LoopOf(x) = LoopOf(w)
        BY <1>1, <2>1 DEF LoopOf
    <2>3. r.pass <= w.passes /\ r.pass \in Nat
        BY <1>6, <1>10, <2>2 DEF PassesCounted, RunsKnown
    <2> QED
        BY <1>1, <1>2, <2>1, <2>3
<1>11. PassesCounted'
    BY <1>10 DEF PassesCounted, LoopOf
<1> QED
    BY <1>9, <1>11

LEMMA WorkDrops ==
    ASSUME WorkShape, work # <<>>, work' = Tail(work)
    PROVE  /\ ToSet(work)' \subseteq ToSet(work) /\ Head(work) = work[1] /\ 1 \in DOMAIN work
           /\ \A w \in ToSet(work)' : \E b \in DOMAIN work : b > 1 /\ w = work[b]
<1>1. /\ Len(work) \in Nat \ {0} /\ DOMAIN work = 1..Len(work) /\ Head(work) = work[1]
      /\ DOMAIN work' = 1..(Len(work) - 1)
      /\ \A k \in DOMAIN work' : work'[k] = work[k + 1]
    BY TailIsSeq DEF WorkShape
<1>2. \A k \in DOMAIN work' : k + 1 \in DOMAIN work /\ k + 1 > 1
    BY <1>1
<1>3. 1 \in DOMAIN work
    BY <1>1
<1>4. \A w \in ToSet(work)' : \E b \in DOMAIN work : b > 1 /\ w = work[b]
    BY <1>1, <1>2 DEF ToSet
<1> QED
    BY <1>1, <1>3, <1>4 DEF ToSet

\* The report grows by entries that no step reached and no guard skipped.
Grows(t) ==
    \A k \in DOMAIN t :
        \/ k \in DOMAIN results /\ t[k] = results[k]
        \/ k > Len(results) /\ t[k].status # "passed" /\ t[k].guard = 0

LEMMA ReportGrows ==
    ASSUME IsSeq(results), NEW more, IsSeq(more), \A k \in DOMAIN more : more[k].status # "passed" /\ more[k].guard = 0
    PROVE  Grows(results \o more)
<1>1. /\ Len(results) \in Nat /\ Len(more) \in Nat
      /\ DOMAIN (results \o more) = 1..(Len(results) + Len(more)) /\ DOMAIN results = 1..Len(results) /\ DOMAIN more = 1..Len(more)
      /\ \A k \in DOMAIN (results \o more) : (results \o more)[k] = IF k <= Len(results) THEN results[k] ELSE more[k - Len(results)]
    BY ConcatIsSeq
<1> DEFINE t == results \o more
<1> HIDE DEF t
<1>2. /\ DOMAIN t = 1..(Len(results) + Len(more))
      /\ \A k \in DOMAIN t : t[k] = IF k <= Len(results) THEN results[k] ELSE more[k - Len(results)]
    BY <1>1 DEF t
<1>3. ASSUME NEW k \in DOMAIN t
      PROVE  \/ k \in DOMAIN results /\ t[k] = results[k]
             \/ k > Len(results) /\ t[k].status # "passed" /\ t[k].guard = 0
    <2>1. CASE k <= Len(results)
        BY <1>1, <1>2, <1>3, <2>1
    <2>2. CASE k > Len(results)
        <3>1. k - Len(results) \in DOMAIN more /\ t[k] = more[k - Len(results)]
            BY <1>1, <1>2, <1>3, <2>2
        <3> QED
            BY <2>2, <3>1
    <2> QED
        BY <1>1, <1>2, <1>3, <2>1, <2>2
<1>4. Grows(t)
    BY <1>3 DEF Grows
<1> QED
    BY <1>4 DEF t

LEMMA ReportPops ==
    ASSUME IsSeq(results), NEW e, results' = Append(results, e)
    PROVE  /\ PassedRuns' \subseteq PassedRuns \cup {e}
           /\ DOMAIN results = 1..Len(results) /\ DOMAIN results' = 1..(Len(results) + 1) /\ Len(results) \in Nat
           /\ \A k \in DOMAIN results' : results'[k] = IF k = Len(results) + 1 THEN e ELSE results[k]
           /\ e.status # "passed" => PassedRuns' \subseteq PassedRuns
           /\ e.status # "passed" /\ e.guard = 0 => Grows(results')
<1>1. /\ DOMAIN results' = 1..(Len(results) + 1) /\ DOMAIN results = 1..Len(results) /\ Len(results) \in Nat
      /\ \A k \in DOMAIN results' : results'[k] = IF k = Len(results) + 1 THEN e ELSE results[k]
    BY AppendIsSeq
<1>2. \A k \in DOMAIN results' : (k \in DOMAIN results /\ results'[k] = results[k]) \/ (k > Len(results) /\ results'[k] = e)
    BY <1>1
<1>3. PassedRuns' \subseteq PassedRuns \cup {e}
    BY <1>2 DEF PassedRuns, ToSet
<1>4. e.status # "passed" => PassedRuns' \subseteq PassedRuns
    BY <1>3 DEF PassedRuns
<1>5. e.status # "passed" /\ e.guard = 0 => Grows(results')
    BY <1>2 DEF Grows
<1> QED
    BY <1>1, <1>3, <1>4, <1>5

LEMMA GrowthQuiet ==
    ASSUME IsSeq(results), BlockRunsToItsEnd, UNCHANGED trace, Grows(results'), IsSeq(results')
    PROVE  PassedRuns' \subseteq PassedRuns /\ BlockRunsToItsEnd'
<1>1. /\ Len(results) \in Nat /\ DOMAIN results = 1..Len(results)
      /\ Len(results') \in Nat /\ DOMAIN results' = 1..Len(results')
    BY DEF IsSeq
<1>2. PassedRuns' \subseteq PassedRuns
    BY DEF PassedRuns, Grows, ToSet
<1>3. BlockRunsToItsEnd'
    <2> SUFFICES ASSUME NEW j \in DOMAIN results', NEW k \in DOMAIN results', j < k,
                        results'[j].status = "passed", results'[k].guard # 0,
                        results'[k].guard \in GuardIds(results'[j].index),
                        trace[results'[j].index].rep = NoLoop \/ results'[j].pass = results'[k].pass
                 PROVE  FALSE
        BY DEF BlockRunsToItsEnd, GuardIds
    <2>1. k \in DOMAIN results /\ results'[k] = results[k]
        BY DEF Grows
    <2>2. j \in DOMAIN results /\ results'[j] = results[j]
        BY DEF Grows
    <2> QED
        BY <2>1, <2>2 DEF BlockRunsToItsEnd, GuardIds
<1> QED
    BY <1>2, <1>3

\* Before replay its state is untouched.
Unstarted ==
    phase \in {"record", "refused", "stored"} => results = <<>> /\ work = <<>> /\ seen = {} /\ ~ready

\* What replay knows of the blocks.
BlocksKnown == Recorded /\ Unstarted /\ (phase = "replay" => ReplayKnown) /\ BlockRunsToItsEnd

LEMMA TraceRecorded ==
    ASSUME Recorded
    PROVE  TraceFacts
<1>1. ASSUME NEW i \in DOMAIN trace PROVE trace[i] \in Entries /\ GuardIds(i) = Ids(trace[i])
    BY <1>1 DEF Entries, ToSet, GuardIds, Ids
<1>2. GuardsShared
    BY <1>1 DEF Recorded, GuardsKnown, GuardsShared, SameLoop
<1> QED
    BY <1>2 DEF Recorded, Written, TraceKnown, TraceFacts, TraceShape

\* A step of replay that takes an entry off the worklist and runs nothing.
LEMMA QuietStep ==
    ASSUME ReplayKnown, IsSeq(results), BlockRunsToItsEnd, work # <<>>, work' = Tail(work),
           IsSeq(results'), Grows(results'), UNCHANGED <<trace, seen, verdicts>>, ~ready'
    PROVE  ReplayKnown' /\ BlockRunsToItsEnd'
<1>1. PassedRuns' \subseteq PassedRuns /\ BlockRunsToItsEnd'
    BY GrowthQuiet
<1>2. ToSet(work)' \subseteq ToSet(work) /\ WorkShape'
    BY WorkDrops, ShapeTail DEF ReplayKnown
<1>3. \A g : Holding(g) => Holding(g)'
    BY DEF Holding
<1>4. RunsKnown' /\ PassesCounted'
    BY <1>1, <1>2, <1>3, RunsQuiet DEF ReplayKnown
<1> QED
    BY <1>1, <1>2, <1>4 DEF ReplayKnown, GuardsRead

LEMMA BlocksQuiet ==
    ASSUME ReplayKnown, Typed, BlockRunsToItsEnd,
           LeaveOut \/ DropLoop \/ SettleLoop \/ ExhaustLoop \/ SkipAfterFailure \/ FailStep
    PROVE  ReplayKnown' /\ BlockRunsToItsEnd'
<1>1. /\ UNCHANGED <<trace, seen, verdicts>> /\ ~ready' /\ work # <<>> /\ work' = Tail(work)
    <2>1. CASE FailStep
        BY <2>1 DEF FailStep, Running, Pop, recording, Typed, ReadyHasStep
    <2>2. CASE LeaveOut \/ DropLoop \/ SettleLoop \/ ExhaustLoop \/ SkipAfterFailure
        <3>1. Now
            BY <2>2, Zenon DEF LeaveOut, DropLoop, SettleLoop, ExhaustLoop, SkipAfterFailure, AtStep, ReadsLoop, NextIsStep, NextIsLoop
        <3>2. UNCHANGED <<recording, seen, verdicts, ready>>
            BY <2>2, Zenon DEF LeaveOut, DropLoop, SettleLoop, ExhaustLoop, SkipAfterFailure
        <3>3. work' = Tail(work)
            BY <2>2, Zenon DEF LeaveOut, DropLoop, SettleLoop, ExhaustLoop, SkipAfterFailure, Pop
        <3> QED
            BY <3>1, <3>2, <3>3 DEF Now, recording
    <2> QED
        BY <2>1, <2>2
<1>2. IsSeq(results)
    BY DEF Typed, TypeOK
<1>3. IsSeq(results') /\ Grows(results')
    <2>1. CASE LeaveOut \/ ExhaustLoop \/ SkipAfterFailure \/ FailStep
        <3>1. \E i, p, why : results' = Append(results, Result(i, p, "skipped", why, 0)) \/ results' = Append(results, Result(i, p, "failed", why, 0))
            BY <2>1, Zenon DEF LeaveOut, ExhaustLoop, SkipAfterFailure, FailStep, Pop, Skipped
        <3>2. \A i, p, why : /\ Result(i, p, "skipped", why, 0).status # "passed" /\ Result(i, p, "skipped", why, 0).guard = 0
                             /\ Result(i, p, "failed", why, 0).status # "passed" /\ Result(i, p, "failed", why, 0).guard = 0
            BY DEF Result
        <3>3. PICK e : results' = Append(results, e) /\ e.status # "passed" /\ e.guard = 0
            BY <3>1, <3>2
        <3> QED
            BY <1>2, <3>3, ReportPops, AppendIsSeq
    <2>2. CASE DropLoop
        <3>1. results' = results
            BY <2>2 DEF DropLoop
        <3> QED
            BY <1>2, <3>1 DEF Grows
    <2>3. CASE SettleLoop
        <3> DEFINE body == Head(work).body
                   more == [k \in DOMAIN body |-> Skipped(body[k], 1, "held")]
        <3>1. results' = results \/ results' = results \o more
            BY <2>3 DEF SettleLoop
        <3>2. \A k \in DOMAIN more : more[k].status # "passed" /\ more[k].guard = 0
            BY DEF Skipped, Result
        <3>3. IsSeq(more)
            <4>1. IsSeq(body)
                BY <1>1, <2>3, TailShaped DEF SettleLoop, ReadsLoop, NextIsLoop, Typed, TypeOK, Bodies
            <4>2. Len(body) \in Nat /\ DOMAIN body = 1..Len(body)
                BY <4>1 DEF IsSeq
            <4>3. more = [k \in 1..Len(body) |-> more[k]]
                BY <4>2
            <4> HIDE DEF more
            <4> QED
                BY <4>2, <4>3, FunIsSeq
        <3> HIDE DEF more
        <3>4. CASE results' = results \o more
            <4>1. Grows(results \o more) /\ IsSeq(results \o more)
                BY <1>2, <3>2, <3>3, ReportGrows, ConcatIsSeq
            <4> QED
                BY <3>4, <4>1
        <3>5. CASE results' = results
            BY <1>2, <3>5 DEF Grows
        <3> QED
            BY <3>1, <3>4, <3>5
    <2> QED
        BY <2>1, <2>2, <2>3
<1> QED
    BY <1>1, <1>2, <1>3, QuietStep

LEMMA BlocksMeet ==
    ASSUME ReplayKnown, Recorded, BlockRunsToItsEnd, MeetLoop
    PROVE  ReplayKnown' /\ BlockRunsToItsEnd'
<1>1. /\ work # <<>> /\ Head(work).kind = "step" /\ ~ready /\ FirstOfLoop(Head(work).index)
      /\ seen' = seen \cup {trace[Head(work).index].rep.id}
      /\ work' = <<LoopAt(Head(work).index, Body(Head(work).index), 0)>> \o Beyond(Head(work).index, Tail(work))
      /\ UNCHANGED <<trace, verdicts, results, ready>>
    BY DEF MeetLoop, NextIsStep, Now, recording
<1>2. PICK i : i = Head(work).index
    OBVIOUS
<1>3. TraceFacts
    BY TraceRecorded
<1>4. i \in DOMAIN trace
    <2>1. Head(work) = work[1] /\ Len(work) \in Nat \ {0} /\ DOMAIN work = 1..Len(work)
        BY <1>1, TailIsSeq DEF ReplayKnown, WorkShape
    <2>2. 1 \in DOMAIN work
        BY <2>1
    <2>3. WorkEntry(work[1])
        BY <2>2 DEF ReplayKnown, WorkShape
    <2> QED
        BY <1>1, <1>2, <2>1, <2>3 DEF WorkEntry
<1>5. WorkShape' /\ ToSet(work)' \subseteq {LoopAt(i, Body(i), 0)} \cup ToSet(work)
    <2>1. WorkShape /\ TraceShape
        BY <1>3 DEF ReplayKnown, TraceFacts
    <2>2. /\ FirstOfLoop(i) /\ seen' = seen \cup {trace[i].rep.id} /\ trace' = trace
          /\ work' = <<LoopAt(i, Body(i), 0)>> \o Beyond(i, Tail(work))
        BY <1>1, <1>2
    <2>3. WorkShape' /\ ToSet(work') \subseteq {LoopAt(i, Body(i), 0)} \cup ToSet(work)
        BY <1>1, <1>2, <2>1, <2>2, ShapeMeet
    <2> QED
        BY <2>3 DEF ToSet
<1>6. PassedRuns' = PassedRuns
    BY <1>1 DEF PassedRuns
<1>7. RunsKnown' /\ PassesCounted'
    <2>1. RunsKnown /\ PassesCounted /\ seen \subseteq seen' /\ FirstOfLoop(i)
        BY <1>1, <1>2 DEF ReplayKnown
    <2> QED
        BY <1>1, <1>3, <1>4, <1>5, <1>6, <2>1, RunsMeet
<1>8. BlockRunsToItsEnd'
    BY <1>1 DEF BlockRunsToItsEnd, GuardIds
<1> QED
    BY <1>1, <1>5, <1>7, <1>8 DEF ReplayKnown, GuardsRead

LEMMA BlocksRepeat ==
    ASSUME ReplayKnown, Recorded, BlockRunsToItsEnd, RepeatLoop
    PROVE  ReplayKnown' /\ BlockRunsToItsEnd'
<1>1. /\ work # <<>> /\ Head(work).kind = "loop" /\ ~ready /\ UNCHANGED <<trace, seen, results, ready>>
    BY Zenon DEF RepeatLoop, ReadsLoop, NextIsLoop, Now, recording
<1>2. verdicts' = [g \in DOMAIN verdicts \ UNION {GuardIds(Head(work).body[k]) : k \in DOMAIN Head(work).body} |-> verdicts[g]]
    BY Zenon DEF RepeatLoop, GuardIds
<1>3. WorkShape /\ RunsKnown /\ PassesCounted
    BY DEF ReplayKnown
<1>4. PassPlaced(Head(work))
    <2>1. PICK again, loop : /\ again = [k \in DOMAIN Head(work).body |-> StepAt(Head(work).body[k], Head(work).passes + 1)]
                             /\ loop = LoopAt(Head(work).first, Head(work).body, Head(work).passes + 1)
        BY Zenon
    <2>2. work' = again \o <<loop>> \o Tail(work)
        BY <2>1, Zenon DEF RepeatLoop
    <2> QED
        BY <1>1, <1>3, <2>1, <2>2, RepeatPlaces
<1>5. PICK w, guards : w = Head(work) /\ guards = UNION {GuardIds(w.body[k]) : k \in DOMAIN w.body}
    OBVIOUS
<1>6. w = work[1] /\ 1 \in DOMAIN work /\ w.kind = "loop"
    <2>1. Head(work) = work[1] /\ Len(work) \in Nat \ {0} /\ DOMAIN work = 1..Len(work)
        BY <1>1, <1>3, TailIsSeq DEF WorkShape
    <2>2. 1 \in DOMAIN work
        BY <2>1
    <2> QED
        BY <1>1, <1>5, <2>1, <2>2
<1>7. /\ WorkShape'
      /\ \A x \in ToSet(work') :
            \/ \E k \in DOMAIN w.body : x = StepAt(w.body[k], w.passes + 1)
            \/ x = LoopAt(w.first, w.body, w.passes + 1)
            \/ \E b \in DOMAIN work : b > 1 /\ x = work[b]
    <2>1. PassPlaced(w)
        BY <1>4, <1>5 DEF PassPlaced
    <2> QED
        BY <1>1, <1>3, <1>6, <2>1, ShapeRepeat
<1>8. PassedRuns' \subseteq PassedRuns /\ ToSet(work)' = ToSet(work')
    BY <1>1 DEF PassedRuns, ToSet
<1>9. verdicts' = [g \in DOMAIN verdicts \ guards |-> verdicts[g]]
    BY <1>2, <1>5
<1>10. RunsKnown' /\ PassesCounted'
    <2>1. TraceFacts
        BY TraceRecorded
    <2>2. guards = UNION {GuardIds(w.body[k]) : k \in DOMAIN w.body}
        BY <1>5
    <2>3. \A x \in ToSet(work)' :
            \/ \E k \in DOMAIN w.body : x = StepAt(w.body[k], w.passes + 1)
            \/ x = LoopAt(w.first, w.body, w.passes + 1)
            \/ \E b \in DOMAIN work : b > 1 /\ x = work[b]
        BY <1>7, <1>8
    <2>4. UNCHANGED <<trace, seen>>
        BY <1>1
    <2> QED
        BY <1>3, <1>6, <1>8, <1>9, <2>1, <2>2, <2>3, <2>4, RunsRepeat
<1>11. BlockRunsToItsEnd'
    <2>1. results' = results /\ trace' = trace
        BY <1>1
    <2> QED
        BY <2>1 DEF BlockRunsToItsEnd, GuardIds
<1> QED
    BY <1>1, <1>7, <1>10, <1>11 DEF ReplayKnown, GuardsRead

LEMMA BlocksRun ==
    ASSUME ReplayKnown, Typed, BlockRunsToItsEnd, RunStep
    PROVE  ReplayKnown' /\ BlockRunsToItsEnd'
<1>1. /\ ready /\ work # <<>> /\ work' = Tail(work) /\ UNCHANGED <<trace, seen, verdicts>> /\ ~ready'
      /\ \/ results' = Append(results, Result(Head(work).index, Head(work).pass, "passed", "ran", 0))
         \/ results' = Append(results, Result(Head(work).index, Head(work).pass, "failed", "acted", 0))
    BY DEF RunStep, Running, Pop, recording, Typed, ReadyHasStep
<1>2. IsSeq(results)
    BY DEF Typed, TypeOK
<1>3. PICK r : /\ r.index = Head(work).index /\ r.pass = Head(work).pass /\ r.guard = 0
               /\ results' = Append(results, r)
    <2>1. \A s, why : LET x == Result(Head(work).index, Head(work).pass, s, why, 0)
                      IN  x.index = Head(work).index /\ x.pass = Head(work).pass /\ x.guard = 0
        BY DEF Result
    <2> QED
        BY <1>1, <2>1
<1>4. /\ PassedRuns' \subseteq PassedRuns \cup {r}
      /\ DOMAIN results = 1..Len(results) /\ DOMAIN results' = 1..(Len(results) + 1) /\ Len(results) \in Nat
      /\ \A k \in DOMAIN results' : results'[k] = IF k = Len(results) + 1 THEN r ELSE results[k]
    BY <1>2, <1>3, ReportPops
<1>5. /\ ToSet(work)' \subseteq ToSet(work) /\ WorkShape'
      /\ \A w \in ToSet(work)' : \E b \in DOMAIN work : b > 1 /\ w = work[b]
    BY <1>1, WorkDrops, ShapeTail DEF ReplayKnown
<1>6. RunsKnown' /\ PassesCounted'
    BY <1>1, <1>3, <1>4, <1>5, RunsRan
<1>7. BlockRunsToItsEnd'
    <2> SUFFICES ASSUME NEW j \in DOMAIN results', NEW k \in DOMAIN results', j < k,
                        results'[j].status = "passed", results'[k].guard # 0,
                        results'[k].guard \in GuardIds(results'[j].index),
                        trace[results'[j].index].rep = NoLoop \/ results'[j].pass = results'[k].pass
                 PROVE  FALSE
        BY <1>1 DEF BlockRunsToItsEnd, GuardIds
    <2>1. k \in DOMAIN results /\ results'[k] = results[k]
        BY <1>3, <1>4
    <2>2. j \in DOMAIN results /\ results'[j] = results[j]
        BY <1>4, <2>1
    <2> QED
        BY <2>1, <2>2 DEF BlockRunsToItsEnd, GuardIds
<1> QED
    BY <1>1, <1>5, <1>6, <1>7 DEF ReplayKnown, GuardsRead

\* Of the guards that do not hold one is read, the first.
LEMMA FirstFalse ==
    ASSUME NEW s, IsSeq(s), NEW false, false \subseteq DOMAIN s, false # {},
           NEW read, read = {g \in DOMAIN s : \A f \in false : g <= f}
    PROVE  \E g \in read : g \in false
<1>1. DOMAIN s \subseteq Nat
    BY DEF IsSeq
<1>2. PICK x \in false : \A y \in false : x <= y
    BY <1>1, Least
<1>3. x \in read /\ x \in false
    BY <1>2
<1> QED
    BY <1>3

LEMMA BlocksApproach ==
    ASSUME ReplayKnown, Recorded, Typed, BlockRunsToItsEnd, Approach
    PROVE  ReplayKnown' /\ BlockRunsToItsEnd'
<1>1. /\ work # <<>> /\ Head(work).kind = "step" /\ ~ready /\ ~FirstOfLoop(Head(work).index)
      /\ UNCHANGED <<trace, seen>>
    BY Zenon DEF Approach, AtStep, NextIsStep, Now, recording
<1>2. PICK h, surface : h = Head(work) /\ surface = IF trace[h.index].surface = NoSurface THEN active ELSE trace[h.index].surface
    OBVIOUS
<1>3. PICK guards : guards = trace[h.index].guards
    OBVIOUS
<1>4. PICK false : false = {g \in DOMAIN guards : ~Verdict(guards[g], surface)}
    OBVIOUS
<1>5. PICK read, ids : /\ read = {g \in DOMAIN guards : \A f \in false : g <= f}
                       /\ ids = {guards[g].id : g \in read}
    OBVIOUS
<1>6. /\ verdicts' = [id \in DOMAIN verdicts \cup ids |->
             IF id \in DOMAIN verdicts THEN verdicts[id] ELSE \E g \in read \ false : guards[g].id = id]
      /\ IF false = {}
         THEN ready' = TRUE /\ UNCHANGED <<work, results>>
         ELSE /\ Pop(Result(h.index, h.pass, "skipped", "guard", guards[CHOOSE g \in read : g \in false].id))
              /\ UNCHANGED ready
    <2> DEFINE S == IF trace[Head(work).index].surface = NoSurface THEN active ELSE trace[Head(work).index].surface
               G == trace[Head(work).index].guards
               F == {g \in DOMAIN G : ~Verdict(G[g], S)}
               R == {g \in DOMAIN G : \A f \in F : g <= f}
               N == {G[g].id : g \in R}
    <2>1. verdicts' = [id \in DOMAIN verdicts \cup N |->
             IF id \in DOMAIN verdicts THEN verdicts[id] ELSE \E g \in R \ F : G[g].id = id]
        BY Zenon DEF Approach
    <2>2. IF F = {}
          THEN ready' = TRUE /\ UNCHANGED <<work, results>>
          ELSE /\ Pop(Result(Head(work).index, Head(work).pass, "skipped", "guard", G[CHOOSE g \in R : g \in F].id))
               /\ UNCHANGED ready
        BY Zenon DEF Approach
    <2>3. G = guards /\ S = surface
        BY <1>2, <1>3
    <2> HIDE DEF S, G
    <2>4. F = false
        BY <1>4, <2>3
    <2> HIDE DEF F
    <2>5. R = read
        BY <1>5, <2>3, <2>4
    <2> HIDE DEF R
    <2>6. N = ids
        BY <1>5, <2>3, <2>5
    <2> HIDE DEF N
    <2>7. verdicts' = [id \in DOMAIN verdicts \cup ids |->
             IF id \in DOMAIN verdicts THEN verdicts[id] ELSE \E g \in read \ false : guards[g].id = id]
        BY <2>1, <2>3, <2>4, <2>5, <2>6
    <2>8. IF false = {}
          THEN ready' = TRUE /\ UNCHANGED <<work, results>>
          ELSE /\ Pop(Result(h.index, h.pass, "skipped", "guard", guards[CHOOSE g \in read : g \in false].id))
               /\ UNCHANGED ready
        BY <1>2, <2>2, <2>3, <2>4, <2>5
    <2> QED
        BY <2>7, <2>8
<1>7. h = work[1] /\ 1 \in DOMAIN work /\ WorkEntry(h) /\ h.index \in DOMAIN trace /\ h.pass \in Nat /\ h \in ToSet(work)
    <2>1. Head(work) = work[1] /\ Len(work) \in Nat \ {0} /\ DOMAIN work = 1..Len(work)
        BY <1>1, TailIsSeq DEF ReplayKnown, WorkShape
    <2>2. 1 \in DOMAIN work
        BY <2>1
    <2>3. WorkEntry(work[1])
        BY <2>2 DEF ReplayKnown, WorkShape
    <2> QED
        BY <1>1, <1>2, <2>1, <2>2, <2>3 DEF WorkEntry, ToSet
<1>8. IsSeq(guards) /\ GuardIds(h.index) = {guards[g].id : g \in DOMAIN guards}
    BY <1>3, <1>7, TraceRecorded DEF TraceFacts, GuardIds
<1>9. \A g : Holding(g) => Holding(g)'
    BY <1>6 DEF Holding
<1>10. IsSeq(results)
    BY DEF Typed, TypeOK
<1>11. CASE false = {}
    <2>1. UNCHANGED <<work, results, trace, seen>> /\ ready'
        BY <1>1, <1>6, <1>11
    <2>2. RunsKnown' /\ PassesCounted'
        <3>1. ToSet(work)' = ToSet(work) /\ PassedRuns' = PassedRuns
            BY <2>1 DEF ToSet, PassedRuns
        <3> QED
            BY <1>9, <2>1, <3>1, RunsQuiet DEF ReplayKnown
    <2>3. ASSUME NEW g \in GuardIds(h.index) PROVE Holding(g)'
        <3>1. PICK k \in DOMAIN guards : g = guards[k].id
            BY <1>8, <2>3
        <3>2. k \in read \ false /\ g \in ids /\ Verdict(guards[k], surface)
            BY <1>4, <1>5, <1>11, <3>1
        <3>3. g \in DOMAIN verdicts => verdicts[g]
            BY <3>1, <3>2 DEF Verdict
        <3>4. g \in DOMAIN verdicts' /\ verdicts'[g] = IF g \in DOMAIN verdicts THEN verdicts[g] ELSE \E l \in read \ false : guards[l].id = g
            BY <1>6, <3>2
        <3> QED
            BY <3>1, <3>2, <3>3, <3>4 DEF Holding
    <2>4. GuardsRead'
        BY <1>1, <1>2, <2>1, <2>3 DEF GuardsRead, FirstOfLoop, GuardIds
    <2>5. WorkShape'
        BY <2>1 DEF ReplayKnown, WorkShape, WorkEntry, LoopAlone, StepsInOrder, LoopOf, SameLoop
    <2>6. BlockRunsToItsEnd'
        BY <2>1 DEF BlockRunsToItsEnd, GuardIds
    <2> QED
        BY <2>2, <2>4, <2>5, <2>6 DEF ReplayKnown
<1>12. CASE false # {}
    <2>1. PICK c, e : /\ c = (CHOOSE g \in read : g \in false)
                      /\ e = Result(h.index, h.pass, "skipped", "guard", guards[c].id)
        OBVIOUS
    <2>2. results' = Append(results, e) /\ work' = Tail(work) /\ ~ready'
        BY <1>1, <1>6, <1>12, <2>1 DEF Pop
    <2>3. c \in DOMAIN guards /\ ~Verdict(guards[c], surface)
        <3>1. false \subseteq DOMAIN guards
            BY <1>4
        <3>2. c \in read \cap false
            <4>1. IsSeq(guards) /\ read = {g \in DOMAIN guards : \A f \in false : g <= f}
                BY <1>5, <1>8
            <4>2. \E g \in read : g \in false
                BY <1>12, <3>1, <4>1, FirstFalse
            <4>3. (CHOOSE g \in read : g \in false) \in read /\ (CHOOSE g \in read : g \in false) \in false
                BY <4>2
            <4> QED
                BY <2>1, <4>3
        <3> QED
            BY <1>4, <3>2
    <2>4. e.pass = h.pass /\ e.guard = guards[c].id /\ e.status = "skipped"
        BY <2>1 DEF Result
    <2>5. /\ PassedRuns' \subseteq PassedRuns
          /\ DOMAIN results = 1..Len(results) /\ DOMAIN results' = 1..(Len(results) + 1) /\ Len(results) \in Nat
          /\ \A k \in DOMAIN results' : results'[k] = IF k = Len(results) + 1 THEN e ELSE results[k]
        BY <1>10, <2>2, <2>4, ReportPops
    <2>6. ToSet(work)' \subseteq ToSet(work) /\ WorkShape'
        BY <1>1, <2>2, WorkDrops, ShapeTail DEF ReplayKnown
    <2>7. RunsKnown' /\ PassesCounted'
        BY <1>1, <1>9, <2>5, <2>6, RunsQuiet DEF ReplayKnown
    <2>8. ~Holding(guards[c].id) /\ guards[c].id \in GuardIds(h.index)
        BY <1>8, <2>3 DEF Verdict, Holding
    <2>9. ASSUME NEW r \in PassedRuns, guards[c].id \in GuardIds(r.index)
          PROVE  trace[r.index].rep # NoLoop /\ r.pass # h.pass
        <3>1. Settled(r, guards[c].id) /\ r.pass \in Nat
            BY <2>9 DEF ReplayKnown, RunsKnown
        <3>2. Carries(h, guards[c].id) => Behind(h, r.pass)
            BY <1>7, <2>8, <3>1 DEF Settled
        <3>3. Behind(h, r.pass)
            BY <1>1, <1>2, <2>8, <3>2 DEF Carries
        <3>4. trace[r.index].rep.id # 0
            BY <2>8, <3>1 DEF Settled
        <3> QED
            BY <1>1, <1>2, <1>7, <3>1, <3>3, <3>4 DEF Behind, NoLoop
    <2>10. BlockRunsToItsEnd'
        <3> SUFFICES ASSUME NEW j \in DOMAIN results', NEW k \in DOMAIN results', j < k,
                            results'[j].status = "passed", results'[k].guard # 0,
                            results'[k].guard \in GuardIds(results'[j].index),
                            trace[results'[j].index].rep = NoLoop \/ results'[j].pass = results'[k].pass
                     PROVE  FALSE
            BY <1>1 DEF BlockRunsToItsEnd, GuardIds
        <3>1. j \in DOMAIN results /\ results'[j] = results[j]
            BY <2>5
        <3>2. results[j] \in PassedRuns
            BY <3>1 DEF PassedRuns, ToSet
        <3>3. CASE k \in DOMAIN results
            <4>1. results'[k] = results[k]
                BY <2>5, <3>3
            <4> QED
                BY <3>1, <3>3, <4>1 DEF BlockRunsToItsEnd, GuardIds
        <3>4. CASE k = Len(results) + 1
            <4>1. results'[k] = e
                BY <2>5, <3>4
            <4> QED
                BY <2>4, <2>9, <3>1, <3>2, <4>1
        <3> QED
            BY <2>5, <3>3, <3>4
    <2> QED
        BY <2>2, <2>6, <2>7, <2>10 DEF ReplayKnown, GuardsRead
<1> QED
    BY <1>11, <1>12

LEMMA BlocksStart ==
    ASSUME Recorded, Unstarted, StartReplay
    PROVE  ReplayKnown' /\ BlockRunsToItsEnd'
<1>1. /\ results' = <<>> /\ seen' = {} /\ ~ready' /\ UNCHANGED trace
      /\ work' = [i \in DOMAIN trace |-> StepAt(i, 1)]
    BY DEF StartReplay, Unstarted, recording
<1>2. IsSeq(trace)
    BY DEF Recorded, Written, TraceKnown
<1>3. WorkShape'
    BY <1>1, <1>2, ShapeStart
<1>4. PassedRuns' = {}
    BY <1>1 DEF PassedRuns, ToSet
<1>5. RunsKnown' /\ PassesCounted'
    BY <1>4 DEF RunsKnown, PassesCounted
<1>6. BlockRunsToItsEnd'
    BY <1>1 DEF BlockRunsToItsEnd
<1> QED
    BY <1>1, <1>3, <1>5, <1>6 DEF ReplayKnown, GuardsRead

LEMMA BlocksReport ==
    ASSUME Typed, BlockRunsToItsEnd, Report
    PROVE  BlockRunsToItsEnd'
<1> DEFINE bad(why) == Result(0, 1, "failed", why, 0)
           scanned == IF failed \/ ~leaked THEN <<>> ELSE <<bad("leak")>>
           missing == IF (~failed /\ ~leaked) /\ ~partial THEN flow.exports \ DOMAIN captures ELSE {}
           unresolved == [k \in 1..Cardinality(missing) |-> bad("exports")]
<1>1. UNCHANGED trace /\ IsSeq(results)
    BY DEF Report, recording, Typed, TypeOK
<1>2. results' = results \o scanned \o unresolved
    BY DEF Report
<1>3. \A why : bad(why).status # "passed" /\ bad(why).guard = 0
    BY DEF Result
<1>4. Cardinality(missing) \in Nat
    <2>1. IsFiniteSet(flow.exports)
        BY ExportsAssumption DEF Typed, TypeOK
    <2>2. IsFiniteSet(missing)
        BY <2>1, FS_Subset, FS_EmptySet
    <2> QED
        BY <2>2, FS_CardinalityType
<1> HIDE DEF bad
<1>5. IsSeq(scanned) /\ \A k \in DOMAIN scanned : scanned[k].status # "passed" /\ scanned[k].guard = 0
    <2>1. CASE failed \/ ~leaked
        BY <2>1, ShortIsSeq
    <2>2. CASE ~(failed \/ ~leaked)
        BY <1>3, <2>2, ShortIsSeq
    <2> QED
        BY <2>1, <2>2
<1>6. IsSeq(unresolved) /\ \A k \in DOMAIN unresolved : unresolved[k].status # "passed" /\ unresolved[k].guard = 0
    <2>1. \A k \in DOMAIN unresolved : unresolved[k].status # "passed" /\ unresolved[k].guard = 0
        BY <1>3
    <2>2. DOMAIN unresolved = 1..Cardinality(missing)
        OBVIOUS
    <2>3. unresolved = [k \in 1..Cardinality(missing) |-> unresolved[k]]
        BY <2>2
    <2> HIDE DEF unresolved, missing
    <2>4. IsSeq(unresolved)
        BY <1>4, <2>3, FunIsSeq
    <2> QED
        BY <2>1, <2>4
<1> HIDE DEF scanned, unresolved, missing
<1>7. PICK a, b : a = scanned /\ b = unresolved
    OBVIOUS
<1>8. Grows(results \o a) /\ IsSeq(results \o a)
    BY <1>1, <1>5, <1>7, ReportGrows, ConcatIsSeq
<1>9. \A k \in DOMAIN (a \o b) : (a \o b)[k].status # "passed" /\ (a \o b)[k].guard = 0
    <2>1. /\ IsSeq(a \o b) /\ DOMAIN (a \o b) = 1..(Len(a) + Len(b)) /\ DOMAIN a = 1..Len(a) /\ DOMAIN b = 1..Len(b)
          /\ Len(a) \in Nat /\ Len(b) \in Nat
          /\ \A k \in DOMAIN (a \o b) : (a \o b)[k] = IF k <= Len(a) THEN a[k] ELSE b[k - Len(a)]
        BY <1>5, <1>6, <1>7, ConcatIsSeq
    <2> TAKE k \in DOMAIN (a \o b)
    <2>2. CASE k <= Len(a)
        BY <1>5, <1>7, <2>1, <2>2
    <2>3. CASE k > Len(a)
        <3>1. k - Len(a) \in DOMAIN b /\ (a \o b)[k] = b[k - Len(a)]
            BY <2>1, <2>3
        <3> QED
            BY <1>6, <1>7, <3>1
    <2> QED
        BY <2>1, <2>2, <2>3
<1>10. IsSeq(a \o b) /\ results' = results \o (a \o b)
    <2>1. IsSeq(a) /\ IsSeq(b)
        BY <1>5, <1>6, <1>7
    <2>2. IsSeq(a \o b)
        BY <2>1, ConcatIsSeq
    <2>3. results \o a \o b = results \o (a \o b)
        BY <1>1, <2>1 DEF IsSeq
    <2> QED
        BY <1>2, <1>7, <2>2, <2>3
<1>11. Grows(results \o (a \o b)) /\ IsSeq(results \o (a \o b))
    <2>1. PICK m : m = a \o b
        OBVIOUS
    <2>2. Grows(results \o m) /\ IsSeq(results \o m)
        BY <1>1, <1>9, <1>10, <2>1, ReportGrows, ConcatIsSeq
    <2> QED
        BY <2>1, <2>2
<1> QED
    BY <1>1, <1>10, <1>11, GrowthQuiet

LEMMA BlocksNext ==
    ASSUME Typed, BlocksKnown, LoopsUnguarded, [Next]_vars
    PROVE  BlocksKnown'
<1>1. Recorded'
    BY RecordedNext DEF BlocksKnown, Recorded
<1>2. CASE (RecordStep \/ BreakRecording) /\ UNCHANGED replaying
    <2>1. phase = "record" /\ phase' # "replay" /\ UNCHANGED <<results, work, seen, ready>>
        BY <1>2, Zenon DEF replaying, RecordStep, BreakRecording, TakeBranch, SkipBranch, LeaveLoop, TakePass, LoopNeverSettles,
                    EnterSurface, Perform, Abandon, Store, Pops
    <2>2. results' = <<>> /\ Unstarted'
        BY <2>1 DEF BlocksKnown, Unstarted
    <2>3. BlockRunsToItsEnd'
        BY <2>2 DEF BlockRunsToItsEnd
    <2> QED
        BY <1>1, <2>1, <2>2, <2>3 DEF BlocksKnown
<1>3. CASE StartReplay
    <2>1. phase' = "replay"
        BY <1>3 DEF StartReplay
    <2> QED
        BY <1>1, <1>3, <2>1, BlocksStart DEF BlocksKnown, Unstarted
<1>4. CASE LeaveOut \/ MeetLoop \/ DropLoop \/ SettleLoop \/ ExhaustLoop \/ RepeatLoop \/ SkipAfterFailure \/ Approach
           \/ RunStep \/ FailStep
    <2>1. phase = "replay" /\ phase' = "replay"
        BY <1>4, Zenon DEF LeaveOut, MeetLoop, DropLoop, SettleLoop, ExhaustLoop, RepeatLoop, SkipAfterFailure, Approach, RunStep,
                    FailStep, Running, AtStep, ReadsLoop, NextIsStep, NextIsLoop, Now
    <2>2. ReplayKnown' /\ BlockRunsToItsEnd'
        BY <1>4, <2>1, BlocksQuiet, BlocksMeet, BlocksRepeat, BlocksApproach, BlocksRun DEF BlocksKnown
    <2> QED
        BY <1>1, <2>1, <2>2 DEF BlocksKnown, Unstarted
<1>5. CASE Report
    <2>1. phase' = "reported"
        BY <1>5 DEF Report
    <2> QED
        BY <1>1, <1>5, <2>1, BlocksReport DEF BlocksKnown, Unstarted
<1>6. CASE NoActiveSurface \/ Break
    <2>1. phase' = "error" /\ UNCHANGED <<trace, results>>
        BY <1>6 DEF NoActiveSurface, Break, recording, replaying
    <2>2. BlockRunsToItsEnd'
        BY <2>1 DEF BlocksKnown, BlockRunsToItsEnd, GuardIds
    <2> QED
        BY <1>1, <2>1, <2>2 DEF BlocksKnown, Unstarted
<1>7. CASE \/ Drift /\ UNCHANGED <<phase, flow, app, active, captures, leaked, recording, replaying>>
           \/ UNCHANGED vars
    <2>1. UNCHANGED <<phase, trace, work, seen, verdicts, ready, results>>
        BY <1>7 DEF vars, recording, replaying
    <2>2. BlockRunsToItsEnd'
        BY <2>1 DEF BlocksKnown, BlockRunsToItsEnd, GuardIds
    <2>3. Unstarted'
        BY <2>1 DEF BlocksKnown, Unstarted
    <2>4. ReplayKnown => WorkShape' /\ GuardsRead'
        BY <2>1 DEF ReplayKnown, WorkShape, WorkEntry, LoopAlone, StepsInOrder, LoopOf, SameLoop,
                    GuardsRead, Holding, FirstOfLoop, GuardIds
    <2>5. ReplayKnown => RunsKnown' /\ PassesCounted'
        <3>1. ToSet(work)' = ToSet(work) /\ PassedRuns' = PassedRuns /\ \A g : Holding(g) => Holding(g)'
            BY <2>1 DEF ToSet, PassedRuns, Holding
        <3> QED
            BY <2>1, <3>1, RunsQuiet DEF ReplayKnown
    <2> QED
        BY <1>1, <2>1, <2>2, <2>3, <2>4, <2>5 DEF BlocksKnown, ReplayKnown
<1> QED
    BY <1>2, <1>3, <1>4, <1>5, <1>6, <1>7 DEF Next, ReplayStep

\* A when: block whose first step ran is run to its end (verdicts keeps what its
\* one reading said), whatever the application does and whatever is selected, if no
\* loop that replay repeats stands in a when: block: each pass of such a loop drops the
\* verdict of the block around it.
THEOREM BlocksRunToTheirEnds == Spec /\ []LoopsUnguarded => []BlockRunsToItsEnd
<1>1. Init => Typed /\ BlocksKnown
    <2>1. Init => phase = "record" /\ results = <<>> /\ work = <<>> /\ seen = {} /\ ~ready
        BY DEF Init, RecordingInit, ReplayInit
    <2>2. results = <<>> => BlockRunsToItsEnd
        BY DEF BlockRunsToItsEnd
    <2> QED
        BY <2>1, <2>2, RecordedInit, TypedAlways DEF BlocksKnown, Unstarted
<1>2. Typed /\ BlocksKnown /\ LoopsUnguarded /\ [Next]_vars => (Typed /\ BlocksKnown)'
    BY BlocksNext, TypesNext, ReadyStep DEF Typed
<1>3. BlocksKnown => BlockRunsToItsEnd
    BY DEF BlocksKnown
<1> QED
    BY <1>1, <1>2, <1>3, PTL DEF Spec

---------------------------------------------------------------------------
(* The report accounts for the trace.                                      *)

\* An entry of the report that says what became of a step of the trace.
Counts(r) == r.index # 0 /\ r.why # "bound"

\* The report followed by the worklist: what has become of the steps and what will.
\* A step goes from the worklist to the report without leaving its slot.
WorkSlot(w) ==
    IF w.kind = "step" THEN StepAt(w.index, w.pass) ELSE [kind |-> "loop", index |-> w.first, pass |-> 0]
Slots == {k \in 1..(Len(results) + Len(work)) : k <= Len(results) => Counts(results[k])}
Slot(k) ==
    IF k <= Len(results) THEN StepAt(results[k].index, results[k].pass)
    ELSE WorkSlot(work[k - Len(results)])

\* A step of a loop that replay repeats.
Looped(i) == trace[i].rep.id # 0 /\ i \in selected
\* Step i has an entry for pass p, or will have one.
Planned(i, p) == \E k \in Slots : Slot(k) = StepAt(i, p)

\* A step has one slot for each pass.
Once == \A a, b \in Slots : Slot(a).kind = "step" /\ Slot(a) = Slot(b) => a = b
\* The slots are in the order of the trace, the passes of a loop together.
InOrder ==
    \A a, b \in Slots :
        a < b /\ ~(Looped(Slot(a).index) /\ Looped(Slot(b).index)) => Slot(a).index < Slot(b).index
\* A loop is selected as a whole.
SelectedWhole == \A i \in selected, j \in DOMAIN trace : trace[i].rep.id # 0 /\ SameLoop(i, j) => j \in selected
\* The report is about steps of the trace, and about those of the loops met.
ToldKnown ==
    \A k \in DOMAIN results : Counts(results[k]) =>
        /\ results[k].index \in DOMAIN trace
        /\ Looped(results[k].index) => trace[results[k].index].rep.id \in seen
\* A step outside the loops is in its first pass; the body of a loop starts with its
\* first step and has each of its steps once.
DueKnown ==
    \A b \in DOMAIN work :
        /\ work[b].kind = "step" /\ ~Looped(work[b].index) => work[b].pass = 1
        /\ work[b].kind = "loop" =>
              /\ work[b].first \in selected
              /\ \A k \in DOMAIN work[b].body : work[b].first <= work[b].body[k]
              /\ \A k, l \in DOMAIN work[b].body : work[b].body[k] = work[b].body[l] => k = l
\* The passes of loop L: passes 1 to c, each with the steps in B.
PassesWhole(L, B, c) ==
    \A i \in DOMAIN trace : trace[i].rep.id = L /\ i \in selected =>
        \A p : Planned(i, p) <=> i \in B /\ p \in 1..c
PassesKnown ==
    /\ \A L : L # 0 => \E B, c : c \in Nat /\ PassesWhole(L, B, c)
    /\ \A b \in DOMAIN work : work[b].kind = "loop" => PassesWhole(LoopOf(work[b]), ToSet(work[b].body), work[b].passes)
AllPlanned == \A i \in DOMAIN trace : ~Looped(i) => Planned(i, 1)

Plan == SelectedWhole /\ Once /\ InOrder /\ ToldKnown /\ DueKnown /\ PassesKnown /\ AllPlanned

\* The next entry of the worklist has the first slot behind the report.
LEMMA SlotOfWork ==
    ASSUME IsSeq(results), IsSeq(work), NEW b \in DOMAIN work
    PROVE  Len(results) + b \in Slots /\ Slot(Len(results) + b) = WorkSlot(work[b])
<1>1. Len(results) \in Nat /\ Len(work) \in Nat /\ DOMAIN work = 1..Len(work)
    BY DEF IsSeq
<1>2. PICK k : k = Len(results) + b
    OBVIOUS
<1>3. k \in 1..(Len(results) + Len(work)) /\ ~(k <= Len(results)) /\ k - Len(results) = b
    BY <1>1, <1>2
<1>4. k \in Slots /\ Slot(k) = WorkSlot(work[b])
    BY <1>3 DEF Slots, Slot
<1> QED
    BY <1>2, <1>4

\* What a slot is.
LEMMA SlotKnown ==
    ASSUME IsSeq(results), IsSeq(work), NEW k \in Slots
    PROVE  /\ k \in Nat /\ Len(results) \in Nat
           /\ \/ k <= Len(results) /\ k \in DOMAIN results /\ Counts(results[k])
                 /\ Slot(k) = StepAt(results[k].index, results[k].pass)
              \/ k > Len(results) /\ k - Len(results) \in DOMAIN work /\ Slot(k) = WorkSlot(work[k - Len(results)])
<1>1. /\ Len(results) \in Nat /\ Len(work) \in Nat /\ DOMAIN work = 1..Len(work) /\ DOMAIN results = 1..Len(results)
    BY DEF IsSeq
<1>2. k \in 1..(Len(results) + Len(work)) /\ (k <= Len(results) => Counts(results[k]))
    BY DEF Slots
<1>3. CASE k <= Len(results)
    BY <1>1, <1>2, <1>3 DEF Slot
<1>4. CASE k > Len(results)
    <2>1. k - Len(results) \in DOMAIN work /\ ~(k <= Len(results))
        BY <1>1, <1>2, <1>4
    <2> QED
        BY <1>1, <1>2, <1>4, <2>1 DEF Slot
<1> QED
    BY <1>1, <1>2, <1>3, <1>4

\* The head of the worklist is its first entry.
LEMMA HeadOfWork ==
    ASSUME IsSeq(work), work # <<>>
    PROVE  Head(work) = work[1] /\ 1 \in DOMAIN work
<1>1. Head(work) = work[1] /\ Len(work) \in Nat \ {0} /\ DOMAIN work = 1..Len(work)
    BY TailIsSeq
<1> QED
    BY <1>1

\* A slot is of a step of the trace.
LEMMA SlotIndex ==
    ASSUME IsSeq(results), WorkShape, ToldKnown
    PROVE  \A a \in Slots : Slot(a).index \in DOMAIN trace
<1> SUFFICES ASSUME NEW a \in Slots PROVE Slot(a).index \in DOMAIN trace
    OBVIOUS
<1>1. CASE a \in DOMAIN results /\ Counts(results[a]) /\ Slot(a) = StepAt(results[a].index, results[a].pass)
    BY <1>1 DEF ToldKnown, StepAt
<1>2. ASSUME NEW b \in DOMAIN work, Slot(a) = WorkSlot(work[b]) PROVE Slot(a).index \in DOMAIN trace
    <2>1. WorkEntry(work[b])
        BY DEF WorkShape
    <2> QED
        BY <1>2, <2>1 DEF WorkEntry, WorkSlot, StepAt
<1> QED
    BY <1>1, <1>2, SlotKnown DEF WorkShape

\* The slots keep their order and their steps: nothing new is planned.
LEMMA PlanMoved ==
    ASSUME Once, InOrder, UNCHANGED <<trace, selected>>, NEW f,
           Slots' \subseteq Nat,
           \A a \in Slots' : f[a] \in Slots /\ Slot(a)'.index = Slot(f[a]).index
                             /\ (Slot(a)'.kind = "step" => Slot(a)' = Slot(f[a])),
           \A a, b \in Slots' : a < b => f[a] < f[b]
    PROVE  Once' /\ InOrder' /\ \A i, p : Planned(i, p)' => Planned(i, p)
<1>1. Slots \subseteq Int
    BY DEF Slots
<1>2. Once'
    <2> SUFFICES ASSUME NEW a \in Slots', NEW b \in Slots', Slot(a)'.kind = "step", Slot(a)' = Slot(b)'
                 PROVE  a = b
        BY DEF Once
    <2>1. Slot(a)' = Slot(f[a]) /\ Slot(b)' = Slot(f[b]) /\ f[a] \in Slots /\ f[b] \in Slots
        OBVIOUS
    <2>2. f[a] = f[b]
        BY <2>1 DEF Once
    <2>3. f[a] \in Int
        BY <1>1, <2>1, Zenon
    <2>4. ~(f[a] < f[a])
        <3>1. \A x \in Int : ~(x < x)
            OBVIOUS
        <3> QED
            BY <2>3, <3>1, Zenon
    <2>5. ~(a < b) /\ ~(b < a)
        BY <2>2, <2>4, Zenon
    <2>6. a \in Nat /\ b \in Nat
        OBVIOUS
    <2> QED
        BY <2>5, <2>6
<1>3. InOrder'
    <2> SUFFICES ASSUME NEW a \in Slots', NEW b \in Slots', a < b, ~(Looped(Slot(a).index)' /\ Looped(Slot(b).index)')
                 PROVE  Slot(a)'.index < Slot(b)'.index
        BY DEF InOrder
    <2>1. /\ Slot(a)'.index = Slot(f[a]).index /\ Slot(b)'.index = Slot(f[b]).index /\ f[a] \in Slots /\ f[b] \in Slots
          /\ f[a] < f[b]
        OBVIOUS
    <2>2. ~(Looped(Slot(f[a]).index) /\ Looped(Slot(f[b]).index))
        BY <2>1 DEF Looped
    <2> QED
        BY <2>1, <2>2 DEF InOrder
<1>4. ASSUME NEW i, NEW p, Planned(i, p)' PROVE Planned(i, p)
    <2>1. PICK a \in Slots' : Slot(a)' = StepAt(i, p)
        BY <1>4 DEF Planned, StepAt
    <2>2. Slot(a)'.kind = "step"
        BY <2>1 DEF StepAt
    <2> QED
        BY <2>1, <2>2 DEF Planned
<1> QED
    BY <1>2, <1>3, <1>4

\* The slot of a loop, behind slot n, makes way for the steps of its body in pass q, and
\* for the loop itself if that is not over; the slots behind it move on.
Spread(n, hi, first, body, q) ==
    /\ n \in Nat /\ hi \in Nat /\ n <= hi /\ Slots' \subseteq Nat
    /\ \A a \in Slots' : a <= n => a \in Slots /\ Slot(a)' = Slot(a)
    /\ \A a \in Slots' : n < a /\ a <= hi =>
          \/ Slot(a)'.kind # "step" /\ Slot(a)'.index = first
          \/ a - n \in DOMAIN body /\ Slot(a)' = StepAt(body[a - n], q)
    /\ \A a \in Slots' : a > hi => a - hi + n + 1 \in Slots /\ Slot(a)' = Slot(a - hi + n + 1)
    /\ \A b \in Slots : b # n + 1 => \E a \in Slots' : Slot(a)' = Slot(b)
    /\ \A k \in DOMAIN body : \E a \in Slots' : Slot(a)' = StepAt(body[k], q)

\* A loop makes way for the steps of its body, in a pass that was not planned yet.
LEMMA PlanSpread ==
    ASSUME Once, InOrder, SelectedWhole, TraceShape, UNCHANGED <<trace, selected>>,
           NEW n, NEW hi, NEW first, NEW body, NEW q, Spread(n, hi, first, body, q),
           n + 1 \in Slots, Slot(n + 1).index = first,
           first \in selected, first \in DOMAIN trace, trace[first].rep.id # 0,
           \A a \in Slots : Slot(a).index \in DOMAIN trace,
           \A k \in DOMAIN body : body[k] \in DOMAIN trace /\ SameLoop(first, body[k]) /\ first <= body[k]
                                  /\ ~Planned(body[k], q),
           \A k, l \in DOMAIN body : body[k] = body[l] => k = l
    PROVE  Once' /\ InOrder'
<1>0. /\ n \in Nat /\ hi \in Nat /\ n <= hi /\ Slots' \subseteq Nat
      /\ \A a \in Slots' : a <= n => a \in Slots /\ Slot(a)' = Slot(a)
      /\ \A a \in Slots' : n < a /\ a <= hi =>
            \/ Slot(a)'.kind # "step" /\ Slot(a)'.index = first
            \/ a - n \in DOMAIN body /\ Slot(a)' = StepAt(body[a - n], q)
      /\ \A a \in Slots' : a > hi => a - hi + n + 1 \in Slots /\ Slot(a)' = Slot(a - hi + n + 1)
    BY DEF Spread
<1> USE <1>0
<1>1. Slots \subseteq Nat /\ DOMAIN trace \subseteq Nat
    BY DEF Slots, TraceShape, IsSeq
<1>2. ASSUME NEW a \in Slots', n < a, a <= hi
      PROVE  /\ Slot(a)'.index \in DOMAIN trace /\ SameLoop(first, Slot(a)'.index) /\ first <= Slot(a)'.index
             /\ Looped(Slot(a)'.index)
             /\ Slot(a)'.kind = "step" => a - n \in DOMAIN body /\ Slot(a)' = StepAt(body[a - n], q)
    <2>1. CASE Slot(a)'.kind # "step" /\ Slot(a)'.index = first
        BY <1>1, <2>1 DEF Looped, SameLoop
    <2>2. CASE a - n \in DOMAIN body /\ Slot(a)' = StepAt(body[a - n], q)
        <3>1. Slot(a)'.index = body[a - n]
            BY <2>2 DEF StepAt
        <3>2. body[a - n] \in DOMAIN trace /\ SameLoop(first, body[a - n]) /\ first <= body[a - n]
            BY <2>2
        <3>3. Looped(body[a - n])
            BY <3>2 DEF SelectedWhole, Looped, SameLoop
        <3> QED
            BY <2>2, <3>1, <3>2, <3>3
    <2> QED
        BY <1>2, <2>1, <2>2
<1> DEFINE f == [a \in Slots' |-> IF a <= n THEN a ELSE a - hi + n + 1]
           Old(a) == a <= n \/ a > hi
<1>3. \A a \in Slots' : Old(a) => f[a] \in Slots /\ Slot(a)' = Slot(f[a])
    <2> TAKE a \in Slots'
    <2>1. ASSUME a <= n PROVE f[a] = a
        BY <2>1
    <2>2. ASSUME a > hi PROVE f[a] = a - hi + n + 1
        <3>1. a \in Nat /\ ~(a <= n)
            BY <2>2
        <3> QED
            BY <3>1
    <2> QED
        BY <2>1, <2>2
<1>4. \A a, b \in Slots' : a < b /\ Old(a) /\ Old(b) => f[a] < f[b]
    <2> TAKE a \in Slots', b \in Slots'
    <2> HAVE a < b /\ Old(a) /\ Old(b)
    <2>1. a \in Nat /\ b \in Nat
        OBVIOUS
    <2>2. /\ f[a] = IF a <= n THEN a ELSE a - hi + n + 1
          /\ f[b] = IF b <= n THEN b ELSE b - hi + n + 1
        OBVIOUS
    <2> HIDE DEF f
    <2> QED
        BY <2>1, <2>2
<1>5. \A a \in Slots' : (a > hi => f[a] > n + 1) /\ (a <= n => f[a] < n + 1)
    <2> TAKE a \in Slots'
    <2>1. a \in Nat /\ f[a] = IF a <= n THEN a ELSE a - hi + n + 1
        OBVIOUS
    <2> HIDE DEF f
    <2> QED
        BY <2>1
<1> HIDE DEF f
<1>6. \A a \in Slots' : ~Old(a) => n < a /\ a <= hi
    <2>1. \A x \in Nat : ~(x <= n) => n < x
        OBVIOUS
    <2>2. \A x \in Nat : ~(x > hi) => x <= hi
        OBVIOUS
    <2> QED
        BY <2>1, <2>2, Zenon
<1>7. Once'
    <2> SUFFICES ASSUME NEW a \in Slots', NEW b \in Slots', a < b, Slot(a)'.kind = "step", Slot(a)' = Slot(b)'
                 PROVE  FALSE
        BY <1>1 DEF Once
    <2>1. CASE Old(a) /\ Old(b)
        <3>1. f[a] \in Slots /\ f[b] \in Slots /\ Slot(a)' = Slot(f[a]) /\ Slot(b)' = Slot(f[b]) /\ f[a] < f[b]
            BY <1>3, <1>4, <2>1
        <3>2. f[a] = f[b]
            BY <3>1 DEF Once
        <3>3. \A x \in Nat : ~(x < x)
            OBVIOUS
        <3> QED
            BY <1>1, <3>1, <3>2, <3>3, Zenon
    <2>2. CASE ~Old(a) /\ ~Old(b)
        <3>1. n < a /\ a <= hi /\ n < b /\ b <= hi
            BY <1>6, <2>2, Zenon
        <3>2. /\ a - n \in DOMAIN body /\ Slot(a)' = StepAt(body[a - n], q)
              /\ b - n \in DOMAIN body /\ Slot(b)' = StepAt(body[b - n], q)
            BY <1>2, <3>1
        <3>3. body[a - n] = body[b - n]
            <4>1. StepAt(body[a - n], q) = StepAt(body[b - n], q)
                BY <3>2, Zenon
            <4>2. \A x, y : StepAt(x, q) = StepAt(y, q) => x = y
                BY DEF StepAt
            <4> QED
                BY <4>1, <4>2, Zenon
        <3>4. a - n = b - n
            BY <3>2, <3>3
        <3> QED
            BY <3>4
    <2>3. CASE Old(a) # Old(b)
        <3>1. PICK x \in Slots', y \in Slots' : ~Old(x) /\ Old(y) /\ Slot(x)' = Slot(y)' /\ Slot(x)'.kind = "step"
            BY <2>3
        <3>2. n < x /\ x <= hi
            BY <3>1
        <3>3. x - n \in DOMAIN body /\ Slot(x)' = StepAt(body[x - n], q)
            BY <1>2, <3>1, <3>2
        <3>4. f[y] \in Slots /\ Slot(f[y]) = StepAt(body[x - n], q)
            BY <1>3, <3>1, <3>3
        <3>5. Planned(body[x - n], q)
            BY <3>4 DEF Planned
        <3> QED
            BY <3>3, <3>5
    <2> QED
        BY <2>1, <2>2, <2>3
<1>8. InOrder'
    <2> SUFFICES ASSUME NEW a \in Slots', NEW b \in Slots', a < b,
                        ~(Looped(Slot(a)'.index) /\ Looped(Slot(b)'.index))
                 PROVE  Slot(a)'.index < Slot(b)'.index
        BY DEF InOrder, Looped
    <2>1. CASE Old(a) /\ Old(b)
        <3>1. f[a] \in Slots /\ f[b] \in Slots /\ Slot(a)' = Slot(f[a]) /\ Slot(b)' = Slot(f[b]) /\ f[a] < f[b]
            BY <1>3, <1>4, <2>1
        <3> QED
            BY <3>1 DEF InOrder
    <2>2. CASE ~Old(a) /\ ~Old(b)
        <3>1. n < a /\ a <= hi /\ n < b /\ b <= hi
            BY <1>6, <2>2, Zenon
        <3>2. Looped(Slot(a)'.index) /\ Looped(Slot(b)'.index)
            BY <1>2, <3>1, Zenon
        <3> QED
            BY <3>2, Zenon
    <2>3. CASE Old(a) /\ ~Old(b)
        <3>1. n < b /\ b <= hi /\ a <= n
            BY <2>3
        <3>2. first <= Slot(b)'.index /\ Looped(Slot(b)'.index) /\ Slot(b)'.index \in DOMAIN trace
            BY <1>2, <3>1
        <3>3. a \in Slots /\ Slot(a)' = Slot(a) /\ a < n + 1
            <4>1. a \in Slots /\ Slot(a)' = Slot(a)
                BY <3>1, Zenon
            <4>2. a \in Nat
                BY <1>1, <4>1, Zenon
            <4>3. \A x \in Nat : x <= n => x < n + 1
                OBVIOUS
            <4> QED
                BY <3>1, <4>1, <4>2, <4>3, Zenon
        <3>4. ~Looped(Slot(a).index)
            BY <3>2, <3>3
        <3>5. Slot(a).index < first
            BY <3>3, <3>4 DEF InOrder
        <3>6. Slot(a).index \in Nat /\ first \in Nat /\ Slot(b)'.index \in Nat
            BY <1>1, <3>2, <3>3
        <3>7. Slot(a).index < Slot(b)'.index
            BY <3>2, <3>5, <3>6
        <3> QED
            BY <3>3, <3>7
    <2>4. CASE ~Old(a) /\ Old(b)
        <3>1. n < a /\ a <= hi /\ b > hi
            BY <2>4
        <3>2. PICK x, y : x = Slot(a)'.index /\ y = Slot(b)'.index
            OBVIOUS
        <3>3. x \in DOMAIN trace /\ SameLoop(first, x) /\ first <= x /\ Looped(x)
            BY <1>2, <3>1, <3>2
        <3>4. f[b] \in Slots /\ Slot(f[b]).index = y /\ n + 1 < f[b]
            BY <1>3, <1>5, <3>1, <3>2
        <3>5. y \in DOMAIN trace /\ ~Looped(y)
            BY <3>2, <3>3, <3>4
        <3>6. first < y
            BY <3>4, <3>5 DEF InOrder
        <3>7. ASSUME y <= x PROVE FALSE
            <4>1. SameLoop(first, y)
                BY <1>1, <3>3, <3>5, <3>6, <3>7 DEF TraceShape, LoopsTogether
            <4>2. Looped(y)
                BY <3>5, <4>1 DEF SelectedWhole, Looped, SameLoop
            <4> QED
                BY <3>5, <4>2
        <3>8. x < y
            BY <1>1, <3>3, <3>5, <3>7
        <3> QED
            BY <3>2, <3>8
    <2> QED
        BY <2>1, <2>2, <2>3, <2>4
<1> QED
    BY <1>7, <1>8

\* An entry leaves the worklist for the report.
LEMMA PopSlots ==
    ASSUME IsSeq(results), IsSeq(work), work # <<>>, NEW r, results' = Append(results, r), work' = Tail(work)
    PROVE  /\ Len(results) + 1 \in Slots /\ Slot(Len(results) + 1) = WorkSlot(Head(work))
           /\ \A k \in Slots : k # Len(results) + 1 => k \in Slots' /\ Slot(k)' = Slot(k)
           /\ \A k \in Slots' : k # Len(results) + 1 => k \in Slots
           /\ Len(results) + 1 \in Slots' <=> Counts(r)
           /\ \A k : k = Len(results) + 1 => Slot(k)' = StepAt(r.index, r.pass)
<1> DEFINE n == Len(results)
           m == Len(work)
<1>1. n \in Nat /\ m \in Nat /\ m >= 1 /\ DOMAIN work = 1..m /\ DOMAIN results = 1..n /\ Head(work) = work[1]
    BY TailIsSeq DEF IsSeq
<1>2. /\ DOMAIN results' = 1..(n + 1) /\ Len(results') = n + 1
      /\ \A k \in 1..n : results'[k] = results[k]
      /\ results'[n + 1] = r
    <2>1. /\ DOMAIN Append(results, r) = 1..(n + 1)
          /\ \A k \in DOMAIN Append(results, r) : Append(results, r)[k] = IF k = n + 1 THEN r ELSE results[k]
        BY AppendIsSeq
    <2>2. Len(results') = n + 1
        BY AppendProperties DEF IsSeq
    <2>3. \A k \in 1..n : k \in 1..(n + 1) /\ k # n + 1
        BY <1>1
    <2>4. n + 1 \in 1..(n + 1)
        BY <1>1
    <2> QED
        BY <2>1, <2>2, <2>3, <2>4
<1>3. /\ Len(work') = m - 1 /\ \A k \in 1..(m - 1) : work'[k] = work[k + 1]
    <2>1. DOMAIN Tail(work) = 1..(m - 1) /\ \A k \in DOMAIN Tail(work) : Tail(work)[k] = work[k + 1]
        BY TailIsSeq
    <2>2. Len(work') = m - 1
        BY HeadTailProperties DEF IsSeq
    <2> QED
        BY <2>1, <2>2
<1> HIDE DEF n, m
<1>4. 1 \in DOMAIN work
    BY <1>1
<1>5. n + 1 \in Slots /\ Slot(n + 1) = WorkSlot(Head(work))
    BY <1>1, <1>4, SlotOfWork DEF n
<1>6. Slots = {k \in 1..(n + m) : k <= n => Counts(results[k])}
    BY DEF Slots, n, m
<1>7. Slots' = {k \in 1..(n + m) : k <= n + 1 => Counts(results'[k])}
    <2>1. Len(results') + Len(work') = n + m
        BY <1>1, <1>2, <1>3
    <2> QED
        BY <1>2, <2>1 DEF Slots
<1>8. ASSUME NEW k \in 1..(n + m), k # n + 1
      PROVE  /\ k \in Slots <=> k \in Slots'
             /\ Slot(k)' = Slot(k)
    <2>1. CASE k <= n
        <3>1. k \in 1..n /\ k <= n + 1
            BY <1>1, <2>1
        <3>2. results'[k] = results[k]
            BY <1>2, <3>1
        <3> QED
            BY <1>2, <1>6, <1>7, <2>1, <3>1, <3>2 DEF Slot, n
    <2>2. CASE k > n
        <3>1. ~(k <= n) /\ ~(k <= n + 1) /\ k - (n + 1) \in 1..(m - 1) /\ k - (n + 1) + 1 = k - n
            BY <1>1, <1>8, <2>2
        <3>2. work'[k - (n + 1)] = work[k - n]
            BY <1>3, <3>1
        <3> QED
            BY <1>2, <1>6, <1>7, <2>2, <3>1, <3>2 DEF Slot, n, WorkSlot
    <2> QED
        BY <1>1, <2>1, <2>2
<1>9. n + 1 \in Slots' <=> Counts(r)
    <2>1. n + 1 \in 1..(n + m) /\ n + 1 <= n + 1
        BY <1>1
    <2> QED
        BY <1>2, <1>7, <2>1
<1>10. ASSUME NEW k, k = n + 1 PROVE Slot(k)' = StepAt(r.index, r.pass)
    <2>1. k = n + 1
        BY <1>10
    <2>2. k <= Len(results') /\ results'[k] = r
        BY <1>1, <1>2, <2>1
    <2>3. Slot(k)' = StepAt(results'[k].index, results'[k].pass)
        BY <2>2 DEF Slot
    <2> QED
        BY <2>1, <2>2, <2>3
<1> QED
    BY <1>5, <1>6, <1>7, <1>8, <1>9, <1>10 DEF n

\* An entry leaves the worklist, and nothing is said of it.
LEMMA TailSlots ==
    ASSUME IsSeq(results), IsSeq(work), work # <<>>, results' = results, work' = Tail(work)
    PROVE  /\ Slots' \subseteq Nat
           /\ \A a \in Slots' : a <= Len(results) => a \in Slots /\ Slot(a)' = Slot(a)
           /\ \A a \in Slots' : a > Len(results) => a + 1 \in Slots /\ Slot(a)' = Slot(a + 1)
           /\ \A b \in Slots : b # Len(results) + 1 => \E a \in Slots' : Slot(a)' = Slot(b)
<1> DEFINE n == Len(results)
           m == Len(work)
<1>1. n \in Nat /\ m \in Nat /\ m >= 1 /\ DOMAIN work = 1..m /\ DOMAIN results = 1..n
    BY TailIsSeq DEF IsSeq
<1>2. /\ Len(work') = m - 1 /\ \A k \in 1..(m - 1) : work'[k] = work[k + 1]
    <2>1. DOMAIN Tail(work) = 1..(m - 1) /\ \A k \in DOMAIN Tail(work) : Tail(work)[k] = work[k + 1]
        BY TailIsSeq
    <2>2. Len(work') = m - 1
        BY HeadTailProperties DEF IsSeq
    <2> QED
        BY <2>1, <2>2
<1> HIDE DEF n, m
<1>3. Slots = {k \in 1..(n + m) : k <= n => Counts(results[k])}
    BY DEF Slots, n, m
<1>4. Slots' = {k \in 1..(n + (m - 1)) : k <= n => Counts(results[k])}
    BY <1>2 DEF Slots, n
<1>5. ASSUME NEW k \in 1..(n + m), k <= n
      PROVE  (k \in Slots <=> k \in Slots') /\ Slot(k)' = Slot(k)
    <2>1. k \in 1..(n + (m - 1))
        BY <1>1, <1>5
    <2> QED
        BY <1>3, <1>4, <1>5, <2>1 DEF Slot, n
<1>6. ASSUME NEW k \in 1..(n + (m - 1)), k > n
      PROVE  k \in Slots' /\ k + 1 \in Slots /\ Slot(k)' = Slot(k + 1)
    <2>1. ~(k <= n) /\ ~(k + 1 <= n) /\ k + 1 \in 1..(n + m) /\ k - n \in 1..(m - 1) /\ k - n + 1 = k + 1 - n
        BY <1>1, <1>6
    <2>2. work'[k - n] = work[k + 1 - n]
        BY <1>2, <2>1
    <2>3. k \in Slots' /\ k + 1 \in Slots
        BY <1>3, <1>4, <1>6, <2>1
    <2>4. Slot(k + 1) = WorkSlot(work[k + 1 - n])
        BY <2>1 DEF Slot, n
    <2>5. Slot(k)' = WorkSlot(work'[k - n])
        BY <2>1 DEF Slot, n, WorkSlot
    <2> QED
        BY <2>2, <2>3, <2>4, <2>5
<1>7. ASSUME NEW b \in Slots, b # n + 1 PROVE \E a \in Slots' : Slot(a)' = Slot(b)
    <2>1. b \in 1..(n + m)
        BY <1>3
    <2>2. CASE b <= n
        BY <1>5, <2>1, <2>2
    <2>3. CASE b > n
        <3>1. b - 1 \in 1..(n + (m - 1)) /\ b - 1 > n /\ b - 1 + 1 = b
            BY <1>1, <1>7, <2>1, <2>3
        <3>2. b - 1 \in Slots' /\ Slot(b - 1)' = Slot(b - 1 + 1)
            BY <1>6, <3>1
        <3> QED
            BY <3>1, <3>2
    <2> QED
        BY <1>1, <2>1, <2>2, <2>3
<1>8. Slots' \subseteq Nat /\ Slots' \subseteq 1..(n + (m - 1)) /\ Slots' \subseteq 1..(n + m)
    BY <1>1, <1>4
<1> QED
    BY <1>5, <1>6, <1>7, <1>8 DEF n

\* What is planned stays planned when entries only leave the worklist.
LEMMA PlansKept ==
    ASSUME Plan, UNCHANGED <<trace, selected>>, ToSet(work)' \subseteq ToSet(work),
           \A i, p : Planned(i, p)' <=> Planned(i, p)
    PROVE  SelectedWhole' /\ DueKnown' /\ PassesKnown' /\ AllPlanned'
<1>1. SelectedWhole'
    BY DEF Plan, SelectedWhole, SameLoop
<1>2. \A b \in DOMAIN work' : \E c \in DOMAIN work : work'[b] = work[c]
    BY DEF ToSet
<1>3. DueKnown'
    BY <1>2 DEF Plan, DueKnown, Looped
<1>4. \A L, B, c : PassesWhole(L, B, c) => PassesWhole(L, B, c)'
    BY DEF PassesWhole
<1>5. \A L : L # 0 => (\E B, c : c \in Nat /\ PassesWhole(L, B, c))'
    BY <1>4 DEF Plan, PassesKnown
<1>6. ASSUME NEW b \in DOMAIN work', work'[b].kind = "loop"
      PROVE  PassesWhole(LoopOf(work[b]), ToSet(work[b].body), work[b].passes)'
    <2>1. PICK c \in DOMAIN work : work'[b] = work[c]
        BY <1>2, <1>6
    <2>2. PICK L, B, m : L = LoopOf(work[c]) /\ B = ToSet(work[c].body) /\ m = work[c].passes
        OBVIOUS
    <2>3. PassesWhole(L, B, m)'
        <3>1. PassesWhole(L, B, m)
            BY <1>6, <2>1, <2>2 DEF Plan, PassesKnown
        <3> QED
            BY <1>4, <3>1
    <2>4. L = LoopOf(work[b])' /\ B = ToSet(work[b].body)' /\ m = work'[b].passes
        BY <2>1, <2>2 DEF LoopOf, ToSet
    <2> QED
        BY <2>3, <2>4
<1>7. PassesKnown'
    BY <1>5, <1>6 DEF PassesKnown
<1>8. AllPlanned'
    BY DEF Plan, AllPlanned, Looped
<1> QED
    BY <1>1, <1>3, <1>7, <1>8

\* The next step is reported, with its pass.
LEMMA PlanPopped ==
    ASSUME Plan, WorkShape, IsSeq(trace), IsSeq(results), work # <<>>, Head(work).kind = "step",
           UNCHANGED <<trace, selected, seen>>,
           NEW r, r.index = Head(work).index, r.pass = Head(work).pass, r.why # "bound",
           results' = Append(results, r), work' = Tail(work),
           r.index \in selected => ~FirstOfLoop(r.index)
    PROVE  Plan'
<1>1. PICK n : n = Len(results)
    OBVIOUS
<1>2. /\ ToSet(work)' \subseteq ToSet(work) /\ Head(work) = work[1] /\ 1 \in DOMAIN work
      /\ WorkEntry(Head(work))
    BY WorkDrops DEF WorkShape
<1>3. r.index \in DOMAIN trace /\ Counts(r)
    <2>1. r.index \in DOMAIN trace
        BY <1>2 DEF WorkEntry
    <2>2. 0 \notin DOMAIN trace
        BY DEF IsSeq
    <2> QED
        BY <2>1, <2>2 DEF Counts
<1>4. WorkSlot(Head(work)) = StepAt(r.index, r.pass)
    BY DEF WorkSlot
<1>5. /\ n + 1 \in Slots /\ Slot(n + 1) = StepAt(r.index, r.pass) /\ n + 1 \in Slots'
      /\ \A k : k = n + 1 => Slot(k)' = StepAt(r.index, r.pass)
      /\ \A k \in Slots : k # n + 1 => k \in Slots' /\ Slot(k)' = Slot(k)
      /\ \A k \in Slots' : k # n + 1 => k \in Slots
    BY <1>1, <1>3, <1>4, PopSlots DEF WorkShape
<1>6. Slots' = Slots /\ \A k \in Slots : Slot(k)' = Slot(k)
    <2>1. PICK h : h = n + 1
        OBVIOUS
    <2>2. /\ h \in Slots /\ Slot(h) = StepAt(r.index, r.pass) /\ h \in Slots'
          /\ Slot(h)' = StepAt(r.index, r.pass)
        BY <1>5, <2>1
    <2>3. \A k \in Slots : k # h => k \in Slots' /\ Slot(k)' = Slot(k)
        BY <1>5, <2>1
    <2>4. \A k \in Slots' : k # h => k \in Slots
        BY <1>5, <2>1
    <2>5. \A k : k \in Slots' <=> k \in Slots
        BY <2>2, <2>3, <2>4, Zenon
    <2>6. \A k \in Slots : Slot(k)' = Slot(k)
        BY <2>2, <2>3, Zenon
    <2> QED
        BY <2>5, <2>6, Zenon
<1>7. Once' /\ InOrder' /\ \A i, p : Planned(i, p)' <=> Planned(i, p)
    <2>1. \A i, p : Planned(i, p)' <=> Planned(i, p)
        BY <1>6 DEF Planned, StepAt
    <2> QED
        BY <1>6, <2>1 DEF Plan, Once, InOrder, Looped
<1>8. ToldKnown'
    <2>1. /\ DOMAIN results = 1..Len(results) /\ DOMAIN results' = 1..(Len(results) + 1) /\ Len(results) \in Nat
          /\ \A k \in DOMAIN results' : results'[k] = IF k = Len(results) + 1 THEN r ELSE results[k]
        BY AppendIsSeq
    <2>2. \A k \in DOMAIN results' : results'[k] = r \/ (k \in DOMAIN results /\ results'[k] = results[k])
        BY <2>1
    <2>3. Looped(r.index) => trace[r.index].rep.id \in seen
        BY DEF Looped, FirstOfLoop
    <2> QED
        BY <1>3, <2>2, <2>3 DEF Plan, ToldKnown, Looped
<1>9. SelectedWhole' /\ DueKnown' /\ PassesKnown' /\ AllPlanned'
    BY <1>2, <1>7, PlansKept
<1> QED
    BY <1>7, <1>8, <1>9 DEF Plan

\* A loop leaves the worklist, and no step is reported.
LEMMA PlanDropped ==
    ASSUME Plan, WorkShape, IsSeq(results), work # <<>>, Head(work).kind # "step",
           UNCHANGED <<trace, selected, seen>>, work' = Tail(work),
           \/ results' = results
           \/ \E r : ~Counts(r) /\ results' = Append(results, r)
    PROVE  Plan'
<1>1. PICK n : n = Len(results)
    OBVIOUS
<1>2. /\ ToSet(work)' \subseteq ToSet(work) /\ Head(work) = work[1] /\ 1 \in DOMAIN work
    BY WorkDrops DEF WorkShape
<1>3. n + 1 \in Slots /\ Slot(n + 1).kind # "step" /\ n \in Nat /\ Slots \subseteq Nat
    <2>1. Slot(n + 1) = WorkSlot(Head(work)) /\ n + 1 \in Slots
        BY <1>1, <1>2, SlotOfWork DEF WorkShape
    <2>2. WorkSlot(Head(work)).kind = "loop"
        BY DEF WorkSlot
    <2>3. n \in Nat /\ Slots \subseteq Nat
        BY <1>1 DEF IsSeq, Slots
    <2> QED
        BY <2>1, <2>2, <2>3
<1>4. PICK f : /\ Slots' \subseteq Nat
               /\ \A a \in Slots' : f[a] \in Slots /\ Slot(a)' = Slot(f[a])
               /\ \A a, b \in Slots' : a < b => f[a] < f[b]
               /\ \A b \in Slots : b # n + 1 => \E a \in Slots' : Slot(a)' = Slot(b)
    <2>1. CASE results' = results
        <3>1. PICK f : f = [a \in Slots' |-> IF a <= n THEN a ELSE a + 1]
            OBVIOUS
        <3>2. /\ Slots' \subseteq Nat
              /\ \A a \in Slots' : a <= n => a \in Slots /\ Slot(a)' = Slot(a)
              /\ \A a \in Slots' : a > n => a + 1 \in Slots /\ Slot(a)' = Slot(a + 1)
              /\ \A b \in Slots : b # n + 1 => \E a \in Slots' : Slot(a)' = Slot(b)
            BY <1>1, <2>1, TailSlots DEF WorkShape
        <3>3. \A a \in Slots' : a \in Nat /\ f[a] = IF a <= n THEN a ELSE a + 1
            BY <3>1, <3>2
        <3>4. \A a, b \in Slots' : a < b => f[a] < f[b]
            BY <1>3, <3>3
        <3>5. \A a \in Slots' : f[a] \in Slots /\ Slot(a)' = Slot(f[a])
            <4> TAKE a \in Slots'
            <4>1. CASE a <= n
                BY <3>2, <3>3, <4>1
            <4>2. CASE ~(a <= n)
                <5>1. a > n /\ f[a] = a + 1
                    BY <1>3, <3>3, <4>2
                <5> QED
                    BY <3>2, <5>1
            <4> QED
                BY <4>1, <4>2
        <3> QED
            BY <3>2, <3>4, <3>5
    <2>2. ASSUME NEW r, ~Counts(r), results' = Append(results, r)
          PROVE  \E f : /\ Slots' \subseteq Nat
                        /\ \A a \in Slots' : f[a] \in Slots /\ Slot(a)' = Slot(f[a])
                        /\ \A a, b \in Slots' : a < b => f[a] < f[b]
                        /\ \A b \in Slots : b # n + 1 => \E a \in Slots' : Slot(a)' = Slot(b)
        <3>1. PICK f : f = [a \in Slots' |-> a]
            OBVIOUS
        <3>2. /\ n + 1 \notin Slots'
              /\ \A k \in Slots : k # n + 1 => k \in Slots' /\ Slot(k)' = Slot(k)
              /\ \A k \in Slots' : k # n + 1 => k \in Slots
            BY <1>1, <2>2, PopSlots DEF WorkShape
        <3>3. \A k \in Slots' : k \in Slots /\ Slot(k)' = Slot(k) /\ f[k] = k
            BY <3>1, <3>2
        <3> QED
            BY <1>3, <3>2, <3>3
    <2> QED
        BY <2>1, <2>2
<1>5. Once' /\ InOrder' /\ \A i, p : Planned(i, p)' => Planned(i, p)
    <2>1. \A a \in Slots' : f[a] \in Slots /\ Slot(a)'.index = Slot(f[a]).index
                             /\ (Slot(a)'.kind = "step" => Slot(a)' = Slot(f[a]))
        BY <1>4
    <2>2. Once /\ InOrder /\ UNCHANGED <<trace, selected>>
        BY DEF Plan
    <2>3. /\ Slots' \subseteq Nat
          /\ \A a, b \in Slots' : a < b => f[a] < f[b]
        BY <1>4
    <2> QED
        BY <2>1, <2>2, <2>3, PlanMoved
<1>6. ASSUME NEW i, NEW p, Planned(i, p) PROVE Planned(i, p)'
    <2>1. PICK b \in Slots : Slot(b) = StepAt(i, p)
        BY <1>6 DEF Planned
    <2>2. b # n + 1
        BY <1>3, <2>1 DEF StepAt
    <2>3. PICK a \in Slots' : Slot(a)' = Slot(b)
        BY <1>4, <2>2
    <2> QED
        BY <2>1, <2>3 DEF Planned, StepAt
<1>7. ToldKnown'
    <2>1. \A k \in DOMAIN results' : Counts(results'[k]) => k \in DOMAIN results /\ results'[k] = results[k]
        <3>1. CASE results' = results
            BY <3>1
        <3>2. ASSUME NEW r, ~Counts(r), results' = Append(results, r), NEW k \in DOMAIN results', Counts(results'[k])
              PROVE  k \in DOMAIN results /\ results'[k] = results[k]
            <4>1. /\ DOMAIN results = 1..Len(results) /\ DOMAIN results' = 1..(Len(results) + 1) /\ Len(results) \in Nat
                  /\ results'[k] = IF k = Len(results) + 1 THEN r ELSE results[k]
                BY <3>2, AppendIsSeq
            <4>2. k # Len(results) + 1
                BY <3>2, <4>1, Zenon
            <4>3. k \in 1..Len(results)
                BY <4>1, <4>2
            <4> QED
                BY <4>1, <4>2, <4>3
        <3> QED
            BY <3>1, <3>2
    <2> QED
        BY <2>1 DEF Plan, ToldKnown, Looped
<1>8. SelectedWhole' /\ DueKnown' /\ PassesKnown' /\ AllPlanned'
    BY <1>2, <1>5, <1>6, PlansKept
<1> QED
    BY <1>5, <1>7, <1>8 DEF Plan

\* What is planned then.
LEMMA SpreadPlans ==
    ASSUME Plan, WorkShape, TraceShape, IsSeq(results), work # <<>>, UNCHANGED <<trace, selected>>,
           NEW w, w = Head(work), w.kind = "loop", NEW n, n = Len(results), NEW hi,
           Spread(n, hi, w.first, w.body, w.passes + 1)
    PROVE  /\ SelectedWhole' /\ Once' /\ InOrder' /\ AllPlanned'
           /\ PassesWhole(trace[w.first].rep.id, ToSet(w.body), w.passes + 1)'
           /\ \A L, B, c : L # trace[w.first].rep.id /\ PassesWhole(L, B, c) => PassesWhole(L, B, c)'
<1> DEFINE q == w.passes + 1
<1>1. Head(work) = work[1] /\ 1 \in DOMAIN work
    BY HeadOfWork DEF WorkShape
<1>2. /\ w.first \in DOMAIN trace /\ w.passes \in Nat /\ trace[w.first].rep.id # 0
      /\ \A k \in DOMAIN w.body : w.body[k] \in DOMAIN trace /\ SameLoop(w.first, w.body[k])
    <2>1. WorkEntry(w)
        BY <1>1 DEF WorkShape
    <2> QED
        BY <2>1 DEF WorkEntry, LoopOf
<1>3. /\ w.first \in selected
      /\ \A k \in DOMAIN w.body : w.first <= w.body[k]
      /\ \A k, l \in DOMAIN w.body : w.body[k] = w.body[l] => k = l
    BY <1>1 DEF Plan, DueKnown
<1>4. PassesWhole(trace[w.first].rep.id, ToSet(w.body), w.passes)
    BY <1>1 DEF Plan, PassesKnown, LoopOf
<1>5. \A k \in DOMAIN w.body : w.body[k] \in ToSet(w.body) /\ w.body[k] \in selected /\ trace[w.body[k]].rep.id = trace[w.first].rep.id
    BY <1>2, <1>3 DEF Plan, SelectedWhole, SameLoop, ToSet
<1>6. \A k \in DOMAIN w.body : ~Planned(w.body[k], q)
    <2>1. q \notin 1..w.passes
        BY <1>2
    <2> QED
        BY <1>2, <1>4, <1>5, <2>1 DEF PassesWhole
<1>7. n + 1 \in Slots /\ Slot(n + 1).index = w.first /\ Slot(n + 1).kind = "loop"
    <2>1. Slot(n + 1) = WorkSlot(w) /\ n + 1 \in Slots
        BY <1>1, SlotOfWork DEF WorkShape
    <2>2. WorkSlot(w).index = w.first /\ WorkSlot(w).kind = "loop"
        BY DEF WorkSlot
    <2> QED
        BY <2>1, <2>2
<1>8. \A a \in Slots : Slot(a).index \in DOMAIN trace
    BY SlotIndex DEF Plan
<1> HIDE DEF q
<1>9. Once' /\ InOrder'
    <2>1. PICK first, body : first = w.first /\ body = w.body
        OBVIOUS
    <2>2. Spread(n, hi, first, body, q)
        BY <2>1 DEF q
    <2>3. /\ n + 1 \in Slots /\ Slot(n + 1).index = first
          /\ first \in selected /\ first \in DOMAIN trace /\ trace[first].rep.id # 0
          /\ \A k \in DOMAIN body : body[k] \in DOMAIN trace /\ SameLoop(first, body[k]) /\ first <= body[k]
                                    /\ ~Planned(body[k], q)
          /\ \A k, l \in DOMAIN body : body[k] = body[l] => k = l
        BY <1>2, <1>3, <1>6, <1>7, <2>1
    <2>4. Once /\ InOrder /\ SelectedWhole
        BY DEF Plan
    <2> QED
        BY <1>8, <2>2, <2>3, <2>4, PlanSpread
<1>10. ASSUME NEW i, NEW p PROVE Planned(i, p)' <=> Planned(i, p) \/ (i \in ToSet(w.body) /\ p = q)
    <2>1. ASSUME Planned(i, p) PROVE Planned(i, p)'
        <3>1. PICK b \in Slots : Slot(b) = StepAt(i, p)
            BY <2>1 DEF Planned
        <3>2. b # n + 1
            BY <1>7, <3>1 DEF StepAt
        <3>3. PICK a \in Slots' : Slot(a)' = Slot(b)
            BY <3>2 DEF Spread
        <3> QED
            BY <3>1, <3>3 DEF Planned, StepAt
    <2>2. ASSUME i \in ToSet(w.body), p = q PROVE Planned(i, p)'
        <3>1. PICK k \in DOMAIN w.body : i = w.body[k]
            BY <2>2 DEF ToSet
        <3>2. PICK a \in Slots' : Slot(a)' = StepAt(i, p)
            BY <2>2, <3>1 DEF Spread, q
        <3> QED
            BY <3>2 DEF Planned, StepAt
    <2>3. ASSUME Planned(i, p)' PROVE Planned(i, p) \/ (i \in ToSet(w.body) /\ p = q)
        <3>1. PICK a \in Slots' : Slot(a)' = StepAt(i, p)
            BY <2>3 DEF Planned, StepAt
        <3>2. a \in Nat /\ n \in Nat /\ hi \in Nat
            BY DEF Spread
        <3>3. CASE a <= n
            BY <3>1, <3>3 DEF Spread, Planned
        <3>4. CASE n < a /\ a <= hi
            <4>1. Slot(a)'.kind = "step"
                BY <3>1 DEF StepAt
            <4>2. a - n \in DOMAIN w.body /\ Slot(a)' = StepAt(w.body[a - n], q)
                BY <3>4, <4>1 DEF Spread, q
            <4>3. i = w.body[a - n] /\ p = q
                <5>1. \A x, u : StepAt(x, u).index = x /\ StepAt(x, u).pass = u
                    BY DEF StepAt
                <5>2. StepAt(i, p) = StepAt(w.body[a - n], q)
                    BY <3>1, <4>2, Zenon
                <5>3. StepAt(i, p).index = StepAt(w.body[a - n], q).index /\ StepAt(i, p).pass = StepAt(w.body[a - n], q).pass
                    BY <5>2, Zenon
                <5> QED
                    BY <5>1, <5>3
            <4> QED
                BY <4>2, <4>3 DEF ToSet
        <3>5. CASE a > hi
            <4>1. a - hi + n + 1 \in Slots /\ Slot(a)' = Slot(a - hi + n + 1)
                BY <3>5 DEF Spread
            <4> QED
                BY <3>1, <4>1 DEF Planned
        <3> QED
            BY <3>2, <3>3, <3>4, <3>5
    <2> QED
        BY <2>1, <2>2, <2>3
<1>11. PassesWhole(trace[w.first].rep.id, ToSet(w.body), w.passes + 1)'
    <2>1. \A p : p \in 1..(w.passes + 1) <=> p \in 1..w.passes \/ p = q
        BY <1>2 DEF q
    <2>2. ASSUME NEW i \in DOMAIN trace, trace[i].rep.id = trace[w.first].rep.id, i \in selected, NEW p
          PROVE  Planned(i, p)' <=> i \in ToSet(w.body) /\ p \in 1..(w.passes + 1)
        BY <1>4, <1>10, <2>1, <2>2 DEF PassesWhole
    <2> QED
        BY <2>2 DEF PassesWhole, ToSet
<1>12. ASSUME NEW L, NEW B, NEW c, L # trace[w.first].rep.id, PassesWhole(L, B, c) PROVE PassesWhole(L, B, c)'
    <2>1. ASSUME NEW i \in DOMAIN trace, trace[i].rep.id = L, i \in selected, NEW p
          PROVE  Planned(i, p)' <=> i \in B /\ p \in 1..c
        <3>1. i \notin ToSet(w.body)
            BY <1>5, <1>12, <2>1 DEF ToSet
        <3> QED
            BY <1>10, <1>12, <2>1, <3>1 DEF PassesWhole
    <2> QED
        BY <2>1 DEF PassesWhole
<1>13. SelectedWhole' /\ AllPlanned'
    BY <1>10 DEF Plan, SelectedWhole, AllPlanned, Looped, SameLoop
<1> QED
    BY <1>9, <1>11, <1>12, <1>13

\* A loop that is over and never ran: its body is reported.
LEMMA SettleSlots ==
    ASSUME IsSeq(trace), IsSeq(results), WorkShape, work # <<>>, NEW w, w = Head(work), w.kind = "loop", w.passes = 0,
           NEW more, more = [k \in DOMAIN w.body |-> Skipped(w.body[k], 1, "held")],
           results' = results \o more, work' = Tail(work),
           NEW n, n = Len(results), NEW hi, hi = n + Len(w.body)
    PROVE  Spread(n, hi, w.first, w.body, w.passes + 1)
<1> DEFINE m == Len(work)
           d == Len(w.body)
<1>1. n \in Nat /\ m \in Nat /\ m >= 1 /\ DOMAIN work = 1..m /\ DOMAIN results = 1..n
    BY TailIsSeq DEF IsSeq, WorkShape
<1>2. IsSeq(w.body) /\ \A k \in DOMAIN w.body : w.body[k] \in DOMAIN trace
    <2>1. WorkEntry(w)
        BY HeadOfWork DEF WorkShape
    <2> QED
        BY <2>1 DEF WorkEntry
<1>3. d \in Nat /\ DOMAIN w.body = 1..d
    BY <1>2 DEF IsSeq
<1>4. IsSeq(more) /\ Len(more) = d /\ \A k \in 1..d : more[k] = Skipped(w.body[k], 1, "held")
    <2>1. more = [k \in 1..d |-> more[k]] /\ \A k \in 1..d : more[k] = Skipped(w.body[k], 1, "held")
        BY <1>3
    <2> QED
        BY <1>3, <2>1, FunIsSeq, Zenon
<1>5. \A k \in 1..d : Counts(more[k]) /\ StepAt(more[k].index, more[k].pass) = StepAt(w.body[k], w.passes + 1)
    <2> TAKE k \in 1..d
    <2>1. more[k].index = w.body[k] /\ more[k].pass = 1 /\ more[k].why = "held"
        BY <1>4 DEF Skipped, Result
    <2>2. w.body[k] # 0
        BY <1>2, <1>3 DEF IsSeq
    <2> QED
        BY <2>1, <2>2 DEF Counts
<1>6. /\ Len(results') = n + d
      /\ \A k \in 1..n : results'[k] = results[k]
      /\ \A k \in 1..d : results'[n + k] = more[k]
    <2>1. /\ Len(results \o more) = n + d /\ DOMAIN (results \o more) = 1..(n + d)
          /\ \A k \in DOMAIN (results \o more) : (results \o more)[k] = IF k <= n THEN results[k] ELSE more[k - n]
        <3>1. PICK t : t = results \o more
            OBVIOUS
        <3>2. /\ Len(t) = Len(results) + Len(more) /\ DOMAIN t = 1..(Len(results) + Len(more))
              /\ \A k \in DOMAIN t : t[k] = IF k <= Len(results) THEN results[k] ELSE more[k - Len(results)]
            BY <1>4, <3>1, ConcatIsSeq
        <3>3. Len(t) = n + d /\ DOMAIN t = 1..(n + d)
            BY <1>4, <3>2
        <3>4. \A k \in DOMAIN t : t[k] = IF k <= n THEN results[k] ELSE more[k - n]
            BY <3>2
        <3> QED
            BY <3>1, <3>3, <3>4
    <2>2. \A k \in 1..n : k \in 1..(n + d) /\ k <= n
        BY <1>1, <1>3
    <2>3. ASSUME NEW k \in 1..d PROVE results'[n + k] = more[k]
        <3>1. PICK j : j = n + k
            OBVIOUS
        <3>2. j \in 1..(n + d) /\ ~(j <= n) /\ j - n = k
            BY <1>1, <1>3, <3>1
        <3> QED
            BY <2>1, <3>1, <3>2
    <2> QED
        BY <2>1, <2>2, <2>3
<1>7. /\ Len(work') = m - 1 /\ \A k \in 1..(m - 1) : work'[k] = work[k + 1]
    <2>1. DOMAIN Tail(work) = 1..(m - 1) /\ \A k \in DOMAIN Tail(work) : Tail(work)[k] = work[k + 1]
        BY TailIsSeq DEF WorkShape
    <2>2. Len(work') = m - 1
        BY HeadTailProperties DEF IsSeq, WorkShape
    <2> QED
        BY <2>1, <2>2
<1> HIDE DEF m, d
<1>8. Slots = {k \in 1..(n + m) : k <= n => Counts(results[k])}
    BY DEF Slots, m
<1>9. Slots' = {k \in 1..(n + d + (m - 1)) : k <= n + d => Counts(results'[k])}
    BY <1>6, <1>7 DEF Slots
<1>10. ASSUME NEW a \in 1..n PROVE (a \in Slots' <=> a \in Slots) /\ Slot(a)' = Slot(a)
    <2>1. a <= n /\ a <= n + d /\ a \in 1..(n + m) /\ a \in 1..(n + d + (m - 1))
        BY <1>1, <1>3
    <2>2. results'[a] = results[a]
        BY <1>6
    <2>3. Slot(a) = StepAt(results[a].index, results[a].pass)
        BY <2>1 DEF Slot
    <2>4. Slot(a)' = StepAt(results'[a].index, results'[a].pass)
        BY <1>6, <2>1 DEF Slot
    <2> QED
        BY <1>8, <1>9, <2>1, <2>2, <2>3, <2>4
<1>11. ASSUME NEW k \in 1..d, NEW a, a = n + k PROVE a \in Slots' /\ Slot(a)' = StepAt(w.body[k], w.passes + 1)
    <2>1. a <= n + d /\ a \in 1..(n + d + (m - 1)) /\ results'[a] = more[k]
        BY <1>1, <1>3, <1>6, <1>11
    <2>2. Slot(a)' = StepAt(results'[a].index, results'[a].pass)
        BY <1>6, <2>1 DEF Slot
    <2> QED
        BY <1>5, <1>9, <2>1, <2>2
<1>12. ASSUME NEW a, NEW b, a \in 1..(n + d + (m - 1)), a > n + d, b = a - d + 1
       PROVE  a \in Slots' /\ b \in Slots /\ Slot(a)' = Slot(b)
    <2>1. ~(a <= n + d) /\ ~(b <= n) /\ b \in 1..(n + m) /\ a - (n + d) \in 1..(m - 1) /\ a - (n + d) + 1 = b - n
        BY <1>1, <1>3, <1>12
    <2>2. work'[a - (n + d)] = work[b - n]
        BY <1>7, <2>1
    <2>3. Slot(b) = WorkSlot(work[b - n])
        BY <2>1 DEF Slot
    <2>4. Slot(a)' = WorkSlot(work'[a - (n + d)])
        BY <1>6, <2>1 DEF Slot, WorkSlot
    <2> QED
        BY <1>8, <1>9, <1>12, <2>1, <2>2, <2>3, <2>4
<1>13. Slots' \subseteq Nat /\ Slots' \subseteq 1..(n + d + (m - 1)) /\ Slots \subseteq 1..(n + m)
    BY <1>1, <1>3, <1>8, <1>9
<1>14. n \in Nat /\ hi \in Nat /\ n <= hi /\ hi = n + d
    BY <1>1, <1>3 DEF d
<1>15. ASSUME NEW a \in Slots', a <= n PROVE a \in Slots /\ Slot(a)' = Slot(a)
    BY <1>10, <1>13, <1>15
<1>16. ASSUME NEW a \in Slots', n < a, a <= hi
       PROVE  a - n \in DOMAIN w.body /\ Slot(a)' = StepAt(w.body[a - n], w.passes + 1)
    <2>1. PICK k : k = a - n
        OBVIOUS
    <2>2. k \in 1..d /\ a = n + k
        <3>1. a \in Nat /\ n < a /\ a <= n + d /\ n \in Nat /\ d \in Nat
            BY <1>1, <1>3, <1>13, <1>14, <1>16
        <3>2. \A x, y, z \in Nat : y < x /\ x <= y + z => x - y \in 1..z /\ x = y + (x - y)
            OBVIOUS
        <3> QED
            BY <2>1, <3>1, <3>2, Zenon
    <2> QED
        BY <1>3, <1>11, <2>1, <2>2
<1>17. ASSUME NEW a \in Slots', a > hi PROVE a - hi + n + 1 \in Slots /\ Slot(a)' = Slot(a - hi + n + 1)
    <2>1. PICK b : b = a - hi + n + 1
        OBVIOUS
    <2>2. a \in 1..(n + d + (m - 1)) /\ a > n + d /\ b = a - d + 1
        BY <1>1, <1>3, <1>13, <1>14, <1>17, <2>1
    <2> QED
        BY <1>12, <2>1, <2>2
<1>18. ASSUME NEW b \in Slots, b # n + 1 PROVE \E a \in Slots' : Slot(a)' = Slot(b)
    <2>1. b \in 1..(n + m)
        BY <1>13
    <2>2. CASE b <= n
        BY <1>1, <1>10, <2>1, <2>2
    <2>3. CASE b > n
        <3>1. PICK a : a = b + d - 1
            OBVIOUS
        <3>2. a \in 1..(n + d + (m - 1)) /\ a > n + d /\ b = a - d + 1
            <4>1. b \in Nat /\ b > n + 1 /\ b <= n + m
                BY <1>1, <1>18, <2>1, <2>3
            <4> QED
                BY <1>1, <1>3, <3>1, <4>1
        <3> QED
            BY <1>12, <3>2
    <2> QED
        BY <1>1, <2>1, <2>2, <2>3
<1>19. \A k \in DOMAIN w.body : \E a \in Slots' : Slot(a)' = StepAt(w.body[k], w.passes + 1)
    BY <1>3, <1>11
<1> QED
    BY <1>13, <1>14, <1>15, <1>16, <1>17, <1>18, <1>19 DEF Spread

\* Another pass: the steps of the body, then the loop again.
LEMMA RepeatSlots ==
    ASSUME IsSeq(results), WorkShape, NEW w, w.kind = "loop", results' = results, PassPlaced(w),
           NEW n, n = Len(results), NEW hi, hi = n + Len(w.body) + 1
    PROVE  Spread(n, hi, w.first, w.body, w.passes + 1)
<1> DEFINE m == Len(work)
           d == Len(w.body)
<1>1. n \in Nat /\ DOMAIN results = 1..n
    BY DEF IsSeq
<1>2. m \in Nat /\ m >= 1 /\ DOMAIN work = 1..m /\ d \in Nat /\ DOMAIN w.body = 1..d
    BY DEF PassPlaced
<1>3. Len(work') = d + m
    <2>1. IsSeq(work') /\ DOMAIN work' = 1..(d + m)
        BY DEF PassPlaced
    <2>2. DOMAIN work' = 1..Len(work') /\ Len(work') \in Nat
        BY <2>1 DEF IsSeq
    <2>3. PICK x : x = Len(work')
        OBVIOUS
    <2>4. x \in Nat /\ 1..x = 1..(d + m)
        BY <2>1, <2>2, <2>3
    <2>5. x = d + m
        BY <1>2, <2>4
    <2> QED
        BY <2>3, <2>5
<1>4. /\ \A k \in 1..d : work'[k] = StepAt(w.body[k], w.passes + 1)
      /\ work'[d + 1] = LoopAt(w.first, w.body, w.passes + 1)
      /\ \A k \in 2..m : work'[k + d] = work[k]
    BY DEF PassPlaced
<1> HIDE DEF m, d
<1>5. Slots = {k \in 1..(n + m) : k <= n => Counts(results[k])}
    BY DEF Slots, m
<1>6. Slots' = {k \in 1..(n + (d + m)) : k <= n => Counts(results[k])}
    BY <1>3 DEF Slots
<1>7. ASSUME NEW a \in 1..n PROVE (a \in Slots' <=> a \in Slots) /\ Slot(a)' = Slot(a)
    <2>1. a <= n /\ a \in 1..(n + m) /\ a \in 1..(n + (d + m))
        BY <1>1, <1>2
    <2>2. Slot(a) = StepAt(results[a].index, results[a].pass)
        BY <2>1 DEF Slot
    <2>3. Slot(a)' = StepAt(results[a].index, results[a].pass)
        BY <2>1 DEF Slot
    <2> QED
        BY <1>5, <1>6, <2>1, <2>2, <2>3
<1>8. ASSUME NEW a, a \in 1..(n + (d + m)), a > n
      PROVE  a \in Slots' /\ Slot(a)' = WorkSlot(work'[a - n])
    <2>1. ~(a <= n)
        BY <1>1, <1>8
    <2>2. Slot(a)' = WorkSlot(work'[a - n])
        BY <2>1 DEF Slot, WorkSlot
    <2> QED
        BY <1>6, <1>8, <2>1, <2>2
<1>9. ASSUME NEW k \in 1..d, NEW a, a = n + k PROVE a \in Slots' /\ Slot(a)' = StepAt(w.body[k], w.passes + 1)
    <2>1. a \in 1..(n + (d + m)) /\ a > n /\ a - n = k
        BY <1>1, <1>2, <1>9
    <2>2. WorkSlot(StepAt(w.body[k], w.passes + 1)) = StepAt(w.body[k], w.passes + 1)
        BY DEF WorkSlot, StepAt
    <2> QED
        BY <1>4, <1>8, <2>1, <2>2
<1>10. ASSUME NEW a, a = n + d + 1 PROVE Slot(a)'.kind # "step" /\ Slot(a)'.index = w.first
    <2>1. a \in 1..(n + (d + m)) /\ a > n /\ a - n = d + 1
        BY <1>1, <1>2, <1>10
    <2>2. /\ WorkSlot(LoopAt(w.first, w.body, w.passes + 1)).kind = "loop"
          /\ WorkSlot(LoopAt(w.first, w.body, w.passes + 1)).index = w.first
        BY DEF WorkSlot, LoopAt
    <2>3. Slot(a)' = WorkSlot(LoopAt(w.first, w.body, w.passes + 1))
        BY <1>4, <1>8, <2>1
    <2> QED
        BY <2>2, <2>3
<1>11. ASSUME NEW a, NEW b, a \in 1..(n + (d + m)), a > n + d + 1, b = a - d
       PROVE  a \in Slots' /\ b \in Slots /\ Slot(a)' = Slot(b)
    <2>1. a > n /\ ~(b <= n) /\ b \in 1..(n + m) /\ b - n \in 2..m /\ a - n = (b - n) + d
        BY <1>1, <1>2, <1>11
    <2>2. work'[a - n] = work[b - n]
        BY <1>4, <2>1
    <2>3. Slot(b) = WorkSlot(work[b - n])
        BY <2>1 DEF Slot
    <2> QED
        BY <1>5, <1>8, <1>11, <2>1, <2>2, <2>3
<1>13. Slots' \subseteq Nat /\ Slots' \subseteq 1..(n + (d + m)) /\ Slots \subseteq 1..(n + m)
    BY <1>1, <1>2, <1>5, <1>6
<1>14. n \in Nat /\ hi \in Nat /\ n <= hi /\ hi = n + d + 1
    BY <1>1, <1>2 DEF d
<1>15. ASSUME NEW a \in Slots', a <= n PROVE a \in Slots /\ Slot(a)' = Slot(a)
    BY <1>7, <1>13, <1>15
<1>16. ASSUME NEW a \in Slots', n < a, a <= hi
       PROVE  \/ Slot(a)'.kind # "step" /\ Slot(a)'.index = w.first
              \/ a - n \in DOMAIN w.body /\ Slot(a)' = StepAt(w.body[a - n], w.passes + 1)
    <2>1. PICK k : k = a - n
        OBVIOUS
    <2>2. (k \in 1..d /\ a = n + k) \/ a = n + d + 1
        BY <1>1, <1>2, <1>13, <1>14, <1>16, <2>1
    <2> QED
        BY <1>2, <1>9, <1>10, <2>1, <2>2
<1>17. ASSUME NEW a \in Slots', a > hi PROVE a - hi + n + 1 \in Slots /\ Slot(a)' = Slot(a - hi + n + 1)
    <2>1. PICK b : b = a - hi + n + 1
        OBVIOUS
    <2>2. a \in 1..(n + (d + m)) /\ a > n + d + 1 /\ b = a - d
        BY <1>1, <1>2, <1>13, <1>14, <1>17, <2>1
    <2> QED
        BY <1>11, <2>1, <2>2
<1>18. ASSUME NEW b \in Slots, b # n + 1 PROVE \E a \in Slots' : Slot(a)' = Slot(b)
    <2>1. b \in 1..(n + m)
        BY <1>13
    <2>2. CASE b <= n
        BY <1>1, <1>7, <2>1, <2>2
    <2>3. CASE b > n
        <3>1. PICK a : a = b + d
            OBVIOUS
        <3>2. a \in 1..(n + (d + m)) /\ a > n + d + 1 /\ b = a - d
            BY <1>1, <1>2, <1>18, <2>1, <2>3, <3>1
        <3> QED
            BY <1>11, <3>2
    <2> QED
        BY <1>1, <2>1, <2>2, <2>3
<1>19. \A k \in DOMAIN w.body : \E a \in Slots' : Slot(a)' = StepAt(w.body[k], w.passes + 1)
    BY <1>2, <1>9
<1> QED
    BY <1>13, <1>14, <1>15, <1>16, <1>17, <1>18, <1>19 DEF Spread

\* What is known of the passes of one loop and stays known of the others.
LEMMA PassesSpread ==
    ASSUME PassesKnown, NEW M, NEW D, NEW e \in Nat, PassesWhole(M, D, e)',
           \A L, B, c : L # M /\ PassesWhole(L, B, c) => PassesWhole(L, B, c)'
    PROVE  (\A L : L # 0 => \E B, c : c \in Nat /\ PassesWhole(L, B, c))'
<1> SUFFICES ASSUME NEW L, L # 0 PROVE \E B, c : c \in Nat /\ PassesWhole(L, B, c)'
    OBVIOUS
<1>1. CASE L = M
    BY <1>1
<1>2. CASE L # M
    <2>1. PICK B, c : c \in Nat /\ PassesWhole(L, B, c)
        BY DEF PassesKnown
    <2> QED
        BY <1>2, <2>1
<1> QED
    BY <1>1, <1>2

\* A loop whose condition holds at once is over: its body is reported skipped, in pass 1.
LEMMA PlanSettled ==
    ASSUME Plan, WorkShape, TraceShape, IsSeq(results), work # <<>>, UNCHANGED <<trace, selected, seen>>,
           NEW w, w = Head(work), w.kind = "loop", w.passes = 0,
           NEW more, more = [k \in DOMAIN w.body |-> Skipped(w.body[k], 1, "held")],
           results' = results \o more, work' = Tail(work)
    PROVE  Plan'
<1>1. PICK n, hi : n = Len(results) /\ hi = n + Len(w.body)
    OBVIOUS
<1>2. IsSeq(trace)
    BY DEF TraceShape
<1>3. Spread(n, hi, w.first, w.body, w.passes + 1)
    BY <1>1, <1>2, SettleSlots
<1>4. /\ SelectedWhole' /\ Once' /\ InOrder' /\ AllPlanned'
      /\ PassesWhole(trace[w.first].rep.id, ToSet(w.body), w.passes + 1)'
      /\ \A L, B, c : L # trace[w.first].rep.id /\ PassesWhole(L, B, c) => PassesWhole(L, B, c)'
    BY <1>1, <1>3, SpreadPlans
<1>5. w = work[1] /\ 1 \in DOMAIN work
    BY HeadOfWork DEF WorkShape
<1>6. /\ w.first \in DOMAIN trace /\ trace[w.first].rep.id # 0 /\ trace[w.first].rep.id \in seen /\ IsSeq(w.body)
      /\ \A k \in DOMAIN w.body : w.body[k] \in DOMAIN trace /\ SameLoop(w.first, w.body[k])
    <2>1. WorkEntry(w)
        BY <1>5 DEF WorkShape
    <2> QED
        BY <2>1 DEF WorkEntry, LoopOf
<1>7. \A b \in DOMAIN work' : work'[b].kind = "step" /\ \E c \in DOMAIN work : work'[b] = work[c]
    <2> TAKE b \in DOMAIN work'
    <2>1. \A x \in ToSet(work)' : \E c \in DOMAIN work : c > 1 /\ x = work[c]
        BY WorkDrops
    <2>2. work'[b] \in ToSet(work)'
        BY DEF ToSet
    <2>3. PICK c \in DOMAIN work : c > 1 /\ work'[b] = work[c]
        BY <2>1, <2>2
    <2>4. c # 1
        BY <2>3
    <2> QED
        BY <1>5, <2>3, <2>4 DEF WorkShape, LoopAlone
<1>8. DueKnown'
    BY <1>7 DEF Plan, DueKnown, Looped
<1>9. PassesKnown'
    <2>1. PICK M, D : M = trace[w.first].rep.id /\ D = ToSet(w.body)
        OBVIOUS
    <2>2. PassesWhole(M, D, 1)' /\ \A L, B, c : L # M /\ PassesWhole(L, B, c) => PassesWhole(L, B, c)'
        <3>1. M = trace[w.first].rep.id' /\ D = ToSet(w.body)' /\ w.passes + 1 = 1
            BY <2>1 DEF ToSet
        <3> QED
            BY <1>4, <2>1, <3>1
    <2>3. (\A L : L # 0 => \E B, c : c \in Nat /\ PassesWhole(L, B, c))'
        BY <2>2, PassesSpread, Zenon DEF Plan
    <2> QED
        BY <1>7, <2>3 DEF PassesKnown
<1>10. ToldKnown'
    <2>1. /\ IsSeq(more)
          /\ \A k \in DOMAIN more : more[k].index \in DOMAIN trace /\ trace[more[k].index].rep.id \in seen
        <3>1. DOMAIN more = DOMAIN w.body /\ \A k \in DOMAIN more : more[k].index = w.body[k]
            BY DEF Skipped, Result
        <3>2. Len(w.body) \in Nat /\ DOMAIN w.body = 1..Len(w.body)
            BY <1>6 DEF IsSeq
        <3>3. more = [k \in 1..Len(w.body) |-> more[k]]
            BY <3>2
        <3>4. IsSeq(more)
            BY <3>2, <3>3, FunIsSeq
        <3>5. ASSUME NEW k \in DOMAIN more PROVE more[k].index \in DOMAIN trace /\ trace[more[k].index].rep.id \in seen
            <4>1. k \in DOMAIN w.body /\ more[k].index = w.body[k]
                BY <3>1, <3>5
            <4>2. w.body[k] \in DOMAIN trace /\ trace[w.body[k]].rep.id = trace[w.first].rep.id
                BY <1>6, <4>1 DEF SameLoop
            <4> QED
                BY <1>6, <4>1, <4>2, Zenon
        <3> QED
            BY <3>4, <3>5, Zenon
    <2>2. /\ Len(results) \in Nat /\ Len(more) \in Nat
          /\ DOMAIN (results \o more) = 1..(Len(results) + Len(more)) /\ DOMAIN results = 1..Len(results) /\ DOMAIN more = 1..Len(more)
          /\ \A k \in DOMAIN (results \o more) : (results \o more)[k] = IF k <= Len(results) THEN results[k] ELSE more[k - Len(results)]
        BY <2>1, ConcatIsSeq
    <2>3. PICK t : t = results \o more
        OBVIOUS
    <2>4. ASSUME NEW k \in DOMAIN t
          PROVE  (k \in DOMAIN results /\ t[k] = results[k]) \/ \E j \in DOMAIN more : t[k] = more[j]
        <3>1. k \in 1..(Len(results) + Len(more)) /\ t[k] = IF k <= Len(results) THEN results[k] ELSE more[k - Len(results)]
            BY <2>2, <2>3, <2>4
        <3>2. CASE k <= Len(results)
            BY <2>2, <3>1, <3>2
        <3>3. CASE k > Len(results)
            <4>1. k - Len(results) \in DOMAIN more /\ ~(k <= Len(results))
                BY <2>2, <3>1, <3>3
            <4> QED
                BY <3>1, <4>1
        <3> QED
            BY <2>2, <3>1, <3>2, <3>3
    <2>5. results' = t
        BY <2>3
    <2>6. ASSUME NEW k \in DOMAIN t, Counts(t[k])
          PROVE  t[k].index \in DOMAIN trace /\ (Looped(t[k].index) => trace[t[k].index].rep.id \in seen)
        <3>1. CASE k \in DOMAIN results /\ t[k] = results[k]
            BY <2>6, <3>1 DEF Plan, ToldKnown
        <3>2. CASE \E j \in DOMAIN more : t[k] = more[j]
            BY <2>1, <3>2, Zenon
        <3> QED
            BY <2>4, <3>1, <3>2
    <2> QED
        BY <2>5, <2>6, Zenon DEF ToldKnown, Looped
<1> QED
    BY <1>4, <1>8, <1>9, <1>10 DEF Plan

\* A loop makes way for its next pass.
LEMMA PlanRepeated ==
    ASSUME Plan, WorkShape, TraceShape, IsSeq(results), work # <<>>, UNCHANGED <<trace, selected, seen, results>>,
           NEW w, w = Head(work), w.kind = "loop", PassPlaced(w)
    PROVE  Plan'
<1>1. PICK n, hi : n = Len(results) /\ hi = n + Len(w.body) + 1
    OBVIOUS
<1>2. IsSeq(trace)
    BY DEF TraceShape
<1>3. Spread(n, hi, w.first, w.body, w.passes + 1)
    BY <1>1, RepeatSlots
<1>4. /\ SelectedWhole' /\ Once' /\ InOrder' /\ AllPlanned'
      /\ PassesWhole(trace[w.first].rep.id, ToSet(w.body), w.passes + 1)'
      /\ \A L, B, c : L # trace[w.first].rep.id /\ PassesWhole(L, B, c) => PassesWhole(L, B, c)'
    BY <1>1, <1>3, SpreadPlans
<1>5. w = work[1] /\ 1 \in DOMAIN work
    BY HeadOfWork DEF WorkShape
<1>6. /\ w.first \in DOMAIN trace /\ trace[w.first].rep.id # 0 /\ w.passes \in Nat
      /\ \A k \in DOMAIN w.body : w.body[k] \in DOMAIN trace /\ SameLoop(w.first, w.body[k])
    <2>1. WorkEntry(w)
        BY <1>5 DEF WorkShape
    <2> QED
        BY <2>1 DEF WorkEntry, LoopOf
<1>7. PICK loop : loop = LoopAt(w.first, w.body, w.passes + 1)
    OBVIOUS
<1>8. loop.kind = "loop" /\ loop.first = w.first /\ loop.body = w.body /\ loop.passes = w.passes + 1
    BY <1>7 DEF LoopAt
<1>9. \A b \in DOMAIN work' :
         \/ work'[b].kind = "step" /\ \E k \in DOMAIN w.body : work'[b].index = w.body[k]
         \/ work'[b] = loop
         \/ work'[b].kind = "step" /\ \E c \in DOMAIN work : work'[b] = work[c]
    <2> TAKE b \in DOMAIN work'
    <2>1. \A x \in ToSet(work') :
             \/ \E k \in DOMAIN w.body : x = StepAt(w.body[k], w.passes + 1)
             \/ x = loop
             \/ \E c \in DOMAIN work : c > 1 /\ x = work[c]
        BY <1>5, <1>7, ShapeRepeat
    <2>2. work'[b] \in ToSet(work')
        BY DEF ToSet
    <2>3. ASSUME NEW k \in DOMAIN w.body, work'[b] = StepAt(w.body[k], w.passes + 1)
          PROVE  work'[b].kind = "step" /\ work'[b].index = w.body[k]
        BY <2>3 DEF StepAt
    <2>4. ASSUME NEW c \in DOMAIN work, c > 1, work'[b] = work[c] PROVE work'[b].kind = "step"
        <3>1. c # 1
            BY <2>4
        <3> QED
            BY <1>5, <2>4, <3>1 DEF WorkShape, LoopAlone
    <2> QED
        BY <2>1, <2>2, <2>3, <2>4
<1>10. DueKnown'
    <2>1. ASSUME NEW b \in DOMAIN work', work'[b].kind = "step", ~Looped(work[b].index)' PROVE work'[b].pass = 1
        <3>1. ASSUME NEW k \in DOMAIN w.body, work'[b].index = w.body[k] PROVE FALSE
            <4>1. w.first \in selected
                BY <1>5 DEF Plan, DueKnown
            <4>2. Looped(w.body[k])
                BY <1>6, <4>1 DEF Plan, SelectedWhole, Looped, SameLoop
            <4> QED
                BY <2>1, <3>1, <4>2 DEF Looped
        <3>2. ASSUME NEW c \in DOMAIN work, work'[b] = work[c] PROVE work'[b].pass = 1
            BY <2>1, <3>2 DEF Plan, DueKnown, Looped
        <3> QED
            BY <1>8, <1>9, <2>1, <3>1, <3>2
    <2>2. ASSUME NEW b \in DOMAIN work', work'[b].kind = "loop"
          PROVE  /\ work'[b].first \in selected'
                 /\ \A k \in DOMAIN work'[b].body : work'[b].first <= work'[b].body[k]
                 /\ \A k, l \in DOMAIN work'[b].body : work'[b].body[k] = work'[b].body[l] => k = l
        <3>1. work'[b] = loop
            BY <1>9, <2>2
        <3>2. /\ w.first \in selected
              /\ \A k \in DOMAIN w.body : w.first <= w.body[k]
              /\ \A k, l \in DOMAIN w.body : w.body[k] = w.body[l] => k = l
            BY <1>5 DEF Plan, DueKnown
        <3> QED
            BY <1>8, <3>1, <3>2
    <2> QED
        BY <2>1, <2>2 DEF DueKnown
<1>11. PassesKnown'
    <2>1. PICK M, D, e : M = trace[w.first].rep.id /\ D = ToSet(w.body) /\ e = w.passes + 1
        OBVIOUS
    <2>2. PassesWhole(M, D, e)' /\ \A L, B, c : L # M /\ PassesWhole(L, B, c) => PassesWhole(L, B, c)'
        <3>1. M = trace[w.first].rep.id' /\ D = ToSet(w.body)'
            BY <2>1 DEF ToSet
        <3> QED
            BY <1>4, <2>1, <3>1
    <2>3. (\A L : L # 0 => \E B, c : c \in Nat /\ PassesWhole(L, B, c))'
        <3>1. e \in Nat
            BY <1>6, <2>1
        <3> QED
            BY <2>2, <3>1, PassesSpread DEF Plan
    <2>4. ASSUME NEW b \in DOMAIN work', work'[b].kind = "loop"
          PROVE  PassesWhole(LoopOf(work[b]), ToSet(work[b].body), work[b].passes)'
        <3>1. work'[b] = loop
            BY <1>9, <2>4
        <3>2. LoopOf(work[b])' = M /\ ToSet(work[b].body)' = D /\ work'[b].passes = e
            BY <1>8, <2>1, <3>1 DEF LoopOf, ToSet
        <3> QED
            BY <2>2, <3>2
    <2> QED
        BY <2>3, <2>4 DEF PassesKnown
<1>12. ToldKnown'
    BY DEF Plan, ToldKnown, Looped
<1> QED
    BY <1>4, <1>10, <1>11, <1>12 DEF Plan

\* The recorded passes of a loop give up their slots, but for the first: it is the loop's.
LEMMA MeetSlots ==
    ASSUME IsSeq(results), IsSeq(work), IsSeq(work'), results' = results, work # <<>>,
           NEW i, NEW m, MeetPlaced(i, m), Head(work).index = i,
           NEW n, n = Len(results)
    PROVE  /\ n \in Nat /\ Slots' \subseteq Nat
           /\ \A a \in Slots' : a <= n => a \in Slots /\ Slot(a)' = Slot(a)
           /\ n + 1 \in Slots /\ Slot(n + 1).index = i
           /\ \A a \in Slots' : a = n + 1 => Slot(a)'.kind # "step" /\ Slot(a)'.index = i
           /\ \A a \in Slots' : a > n + 1 =>
                 a + m \in Slots /\ Slot(a)' = Slot(a + m) /\ ~SameLoop(i, Slot(a + m).index)
           /\ \A a \in Slots : a <= n => \E b \in Slots' : Slot(b)' = Slot(a)
           /\ \A a \in Slots : a > n => SameLoop(i, Slot(a).index) \/ \E b \in Slots' : Slot(b)' = Slot(a)
<1>1. n \in Nat /\ DOMAIN results = 1..n /\ DOMAIN work = 1..Len(work) /\ Len(work) \in Nat
      /\ DOMAIN work' = 1..Len(work') /\ Len(work') \in Nat
    BY DEF IsSeq
<1>2. m \in Nat /\ work'[1] = LoopAt(i, Body(i), 0) /\ 1 \in DOMAIN work'
    BY DEF MeetPlaced
<1>3. \A a \in DOMAIN work : work[a].kind = "step" /\ (a <= m + 1 => SameLoop(i, work[a].index))
    BY DEF MeetPlaced
<1>4. \A a \in DOMAIN work : a > m + 1 => a - m \in DOMAIN work' /\ a - m # 1
    BY DEF MeetPlaced
<1>5. \A k \in DOMAIN work' : k # 1 =>
          k + m \in DOMAIN work /\ work'[k] = work[k + m] /\ k > 1 /\ ~SameLoop(i, work'[k].index)
    BY DEF MeetPlaced
<1>6. Slots = {k \in 1..(n + Len(work)) : k <= n => Counts(results[k])}
    BY DEF Slots
<1>7. Slots' = {k \in 1..(n + Len(work')) : k <= n => Counts(results[k])}
    BY DEF Slots
<1>8. Slots' \subseteq Nat /\ Slots \subseteq Nat
    BY <1>1, <1>6, <1>7
<1>9. ASSUME NEW a \in 1..n PROVE (a \in Slots' <=> a \in Slots) /\ Slot(a)' = Slot(a)
    <2>1. a <= n /\ a \in 1..(n + Len(work)) /\ a \in 1..(n + Len(work'))
        BY <1>1
    <2>2. Slot(a) = StepAt(results[a].index, results[a].pass)
        BY <2>1 DEF Slot
    <2>3. Slot(a)' = StepAt(results[a].index, results[a].pass)
        BY <2>1 DEF Slot
    <2> QED
        BY <1>6, <1>7, <2>1, <2>2, <2>3
<1>10. ASSUME NEW a, NEW k \in DOMAIN work, a = n + k PROVE a \in Slots /\ Slot(a) = WorkSlot(work[k])
    BY <1>10, SlotOfWork
<1>11. ASSUME NEW a, NEW k \in DOMAIN work', a = n + k PROVE a \in Slots' /\ Slot(a)' = WorkSlot(work'[k])
    <2>1. a \in 1..(n + Len(work')) /\ ~(a <= n) /\ a - n = k
        BY <1>1, <1>11
    <2>2. Slot(a)' = WorkSlot(work'[a - n])
        BY <2>1 DEF Slot, WorkSlot
    <2> QED
        BY <1>7, <2>1, <2>2
<1>12. n + 1 \in Slots /\ Slot(n + 1).index = i
    <2>1. 1 \in DOMAIN work /\ Head(work) = work[1]
        BY HeadOfWork
    <2>2. PICK a : a = n + 1
        OBVIOUS
    <2>3. a \in Slots /\ Slot(a) = WorkSlot(work[1])
        BY <1>10, <2>1, <2>2
    <2>4. WorkSlot(work[1]).index = i
        BY <1>3, <2>1 DEF WorkSlot, StepAt
    <2> QED
        BY <2>2, <2>3, <2>4
<1>13. ASSUME NEW a \in Slots', a = n + 1 PROVE Slot(a)'.kind # "step" /\ Slot(a)'.index = i
    <2>1. Slot(a)' = WorkSlot(LoopAt(i, Body(i), 0))
        BY <1>2, <1>11, <1>13
    <2>2. WorkSlot(LoopAt(i, Body(i), 0)).kind = "loop" /\ WorkSlot(LoopAt(i, Body(i), 0)).index = i
        BY DEF WorkSlot, LoopAt
    <2> QED
        BY <2>1, <2>2
<1>14. ASSUME NEW a \in Slots', a > n + 1
       PROVE  a + m \in Slots /\ Slot(a)' = Slot(a + m) /\ ~SameLoop(i, Slot(a + m).index)
    <2>1. PICK k, b : k = a - n /\ b = a + m
        OBVIOUS
    <2>2. k \in DOMAIN work' /\ k # 1 /\ a = n + k /\ b = n + (k + m)
        <3>1. a \in 1..(n + Len(work'))
            BY <1>7
        <3> QED
            BY <1>1, <1>2, <1>14, <2>1, <3>1
    <2>3. k + m \in DOMAIN work /\ work'[k] = work[k + m] /\ ~SameLoop(i, work'[k].index)
        BY <1>5, <2>2
    <2>4. b \in Slots /\ Slot(b) = WorkSlot(work[k + m]) /\ Slot(a)' = WorkSlot(work'[k])
        BY <1>10, <1>11, <2>2, <2>3
    <2>5. Slot(b).index = work[k + m].index
        BY <1>3, <2>3, <2>4 DEF WorkSlot, StepAt
    <2> QED
        BY <2>1, <2>3, <2>4, <2>5
<1>15. ASSUME NEW a \in Slots, a > n, ~SameLoop(i, Slot(a).index) PROVE \E b \in Slots' : Slot(b)' = Slot(a)
    <2>1. PICK k : k = a - n
        OBVIOUS
    <2>2. k \in DOMAIN work /\ a = n + k
        <3>1. a \in 1..(n + Len(work))
            BY <1>6
        <3> QED
            BY <1>1, <1>15, <2>1, <3>1
    <2>3. Slot(a) = WorkSlot(work[k]) /\ Slot(a).index = work[k].index
        BY <1>3, <1>10, <2>2 DEF WorkSlot, StepAt
    <2>4. k > m + 1
        BY <1>1, <1>2, <1>3, <1>15, <2>2, <2>3
    <2>5. PICK l : l = k - m
        OBVIOUS
    <2>6. l \in DOMAIN work' /\ l # 1 /\ l + m = k
        BY <1>1, <1>2, <1>4, <2>2, <2>4, <2>5
    <2>7. work'[l] = work[k]
        BY <1>5, <2>6
    <2>8. PICK b : b = n + l
        OBVIOUS
    <2> QED
        BY <1>11, <2>3, <2>6, <2>7, <2>8
<1>16. ASSUME NEW a \in Slots, a <= n PROVE \E b \in Slots' : Slot(b)' = Slot(a)
    <2>1. a \in 1..n
        BY <1>1, <1>6, <1>16
    <2> QED
        BY <1>9, <2>1
<1>17. ASSUME NEW a \in Slots', a <= n PROVE a \in Slots /\ Slot(a)' = Slot(a)
    <2>1. a \in 1..n
        BY <1>1, <1>7, <1>17
    <2> QED
        BY <1>9, <2>1
<1> QED
    BY <1>1, <1>8, <1>12, <1>13, <1>14, <1>15, <1>16, <1>17

\* A loop stands for all its recorded passes, of which none was reported yet.
LEMMA PlanMet ==
    ASSUME Plan, WorkShape, WorkShape', TraceShape, IsSeq(results), work # <<>>,
           UNCHANGED <<trace, selected, results>>, NEW i, i = Head(work).index, Head(work).kind = "step",
           i \in selected, FirstOfLoop(i), seen' = seen \cup {trace[i].rep.id}, NEW m, MeetPlaced(i, m)
    PROVE  Plan'
<1>1. PICK n : n = Len(results)
    OBVIOUS
<1>2. i \in DOMAIN trace /\ trace[i].rep.id # 0 /\ trace[i].rep.id \notin seen
    <2>1. WorkEntry(work[1]) /\ Head(work) = work[1]
        BY HeadOfWork DEF WorkShape
    <2> QED
        BY <2>1 DEF WorkEntry, FirstOfLoop
<1>3. /\ n \in Nat /\ Slots' \subseteq Nat
      /\ \A a \in Slots' : a <= n => a \in Slots /\ Slot(a)' = Slot(a)
      /\ n + 1 \in Slots /\ Slot(n + 1).index = i
      /\ \A a \in Slots' : a = n + 1 => Slot(a)'.kind # "step" /\ Slot(a)'.index = i
      /\ \A a \in Slots' : a > n + 1 =>
            a + m \in Slots /\ Slot(a)' = Slot(a + m) /\ ~SameLoop(i, Slot(a + m).index)
      /\ \A a \in Slots : a <= n => \E b \in Slots' : Slot(b)' = Slot(a)
      /\ \A a \in Slots : a > n => SameLoop(i, Slot(a).index) \/ \E b \in Slots' : Slot(b)' = Slot(a)
    BY <1>1, MeetSlots DEF WorkShape
<1>4. m \in Nat
    BY DEF MeetPlaced
<1>5. PICK f : f = [a \in Slots' |-> IF a <= n + 1 THEN a ELSE a + m]
    OBVIOUS
<1>6. \A a \in Slots' : a \in Nat /\ f[a] = IF a <= n + 1 THEN a ELSE a + m
    BY <1>3, <1>5
<1>7. \A a, b \in Slots' : a < b => f[a] < f[b]
    BY <1>3, <1>4, <1>6
<1>8. ASSUME NEW a \in Slots'
      PROVE  f[a] \in Slots /\ Slot(a)'.index = Slot(f[a]).index /\ (Slot(a)'.kind = "step" => Slot(a)' = Slot(f[a]))
    <2>1. a \in Nat
        BY <1>6
    <2>2. CASE a <= n
        <3>1. f[a] = a
            BY <1>3, <1>6, <2>1, <2>2
        <3> QED
            BY <1>3, <2>2, <3>1
    <2>3. CASE a = n + 1
        <3>1. f[a] = n + 1
            BY <1>3, <1>6, <2>1, <2>3
        <3> QED
            BY <1>3, <2>3, <3>1
    <2>4. CASE a > n + 1
        <3>1. f[a] = a + m
            BY <1>3, <1>6, <2>1, <2>4
        <3> QED
            BY <1>3, <2>4, <3>1
    <2> QED
        BY <1>3, <2>1, <2>2, <2>3, <2>4
<1>9. Once' /\ InOrder' /\ \A j, p : Planned(j, p)' => Planned(j, p)
    <2>1. Once /\ InOrder /\ UNCHANGED <<trace, selected>> /\ Slots' \subseteq Nat
        BY <1>3 DEF Plan
    <2> QED
        BY <1>7, <1>8, <2>1, PlanMoved
<1>10. ASSUME NEW j, NEW p, ~SameLoop(i, j), Planned(j, p) PROVE Planned(j, p)'
    <2>1. PICK a \in Slots : Slot(a) = StepAt(j, p)
        BY <1>10 DEF Planned
    <2>2. Slot(a).index = j /\ a \in Int
        BY <2>1 DEF StepAt, Slots
    <2>3. \E b \in Slots' : Slot(b)' = Slot(a)
        BY <1>3, <1>10, <2>2
    <2> QED
        BY <2>1, <2>3 DEF Planned, StepAt
<1>11. ASSUME NEW j \in selected, SameLoop(i, j), NEW p, Planned(j, p)' PROVE FALSE
    <2>1. PICK a \in Slots' : Slot(a)' = StepAt(j, p)
        BY <1>11 DEF Planned, StepAt
    <2>2. Slot(a)'.index = j /\ Slot(a)'.kind = "step" /\ a \in Nat
        BY <1>6, <2>1 DEF StepAt
    <2>3. CASE a <= n
        <3>1. a \in Slots /\ Slot(a).index = j
            BY <1>3, <2>2, <2>3
        <3>2. a \in DOMAIN results /\ Counts(results[a]) /\ Slot(a) = StepAt(results[a].index, results[a].pass)
            <4>1. ~(a > Len(results))
                BY <1>1, <1>3, <2>2, <2>3
            <4> QED
                BY <3>1, <4>1, SlotKnown DEF WorkShape
        <3>3. results[a].index = j
            BY <3>1, <3>2 DEF StepAt
        <3>4. trace[j].rep.id = trace[i].rep.id /\ Looped(j)
            BY <1>2, <1>11 DEF SameLoop, Looped
        <3>5. trace[j].rep.id \in seen
            BY <3>2, <3>3, <3>4 DEF Plan, ToldKnown
        <3> QED
            BY <1>2, <3>4, <3>5
    <2>4. CASE a = n + 1
        BY <1>3, <2>2, <2>4
    <2>5. CASE a > n + 1
        BY <1>3, <1>11, <2>2, <2>5
    <2> QED
        BY <1>3, <2>2, <2>3, <2>4, <2>5
<1>12. PICK M, D : M = trace[i].rep.id /\ D = ToSet(Body(i))
    OBVIOUS
<1>13. PassesWhole(M, D, 0)'
    <2>1. \A p : p \notin 1..0
        OBVIOUS
    <2>2. ASSUME NEW j \in DOMAIN trace, trace[j].rep.id = M, j \in selected, NEW p PROVE ~Planned(j, p)'
        <3>1. SameLoop(i, j)
            BY <1>12, <2>2 DEF SameLoop
        <3> QED
            BY <1>11, <2>2, <3>1
    <2> QED
        BY <2>1, <2>2 DEF PassesWhole
<1>14. ASSUME NEW L, NEW B, NEW c, L # M, PassesWhole(L, B, c) PROVE PassesWhole(L, B, c)'
    <2>1. ASSUME NEW j \in DOMAIN trace, trace[j].rep.id = L, j \in selected, NEW p
          PROVE  Planned(j, p)' <=> j \in B /\ p \in 1..c
        <3>1. ~SameLoop(i, j)
            BY <1>12, <1>14, <2>1 DEF SameLoop
        <3> QED
            BY <1>9, <1>10, <1>14, <2>1, <3>1 DEF PassesWhole
    <2> QED
        BY <2>1 DEF PassesWhole
<1>15. AllPlanned'
    <2> SUFFICES ASSUME NEW j \in DOMAIN trace, ~Looped(j) PROVE Planned(j, 1)'
        BY DEF AllPlanned, Looped
    <2>1. ~SameLoop(i, j)
        BY <1>2 DEF Plan, SelectedWhole, Looped, SameLoop
    <2> QED
        BY <1>10, <2>1 DEF Plan, AllPlanned
<1>16. PICK loop : loop = LoopAt(i, Body(i), 0)
    OBVIOUS
<1>17. loop.kind = "loop" /\ loop.first = i /\ loop.body = Body(i) /\ loop.passes = 0
    BY <1>16 DEF LoopAt
<1>18. ASSUME NEW b \in DOMAIN work'
       PROVE  work'[b] = loop \/ (work'[b].kind = "step" /\ \E c \in DOMAIN work : work'[b] = work[c])
    BY <1>16 DEF MeetPlaced
<1>19. DueKnown'
    <2>1. /\ \A k \in DOMAIN Body(i) : i <= Body(i)[k]
          /\ \A k, l \in DOMAIN Body(i) : Body(i)[k] = Body(i)[l] => k = l
        BY <1>2, BodyOfLoop DEF TraceShape
    <2>2. ASSUME NEW b \in DOMAIN work', work'[b].kind = "step", ~Looped(work[b].index)' PROVE work'[b].pass = 1
        <3>1. PICK c \in DOMAIN work : work'[b] = work[c]
            BY <1>17, <1>18, <2>2
        <3> QED
            BY <2>2, <3>1 DEF Plan, DueKnown, Looped
    <2>3. ASSUME NEW b \in DOMAIN work', work'[b].kind = "loop"
          PROVE  /\ work'[b].first \in selected'
                 /\ \A k \in DOMAIN work'[b].body : work'[b].first <= work'[b].body[k]
                 /\ \A k, l \in DOMAIN work'[b].body : work'[b].body[k] = work'[b].body[l] => k = l
        <3>1. work'[b] = loop
            BY <1>18, <2>3
        <3> QED
            BY <1>17, <2>1, <3>1
    <2> QED
        BY <2>2, <2>3 DEF DueKnown
<1>20. PassesKnown'
    <2>1. (\A L : L # 0 => \E B, c : c \in Nat /\ PassesWhole(L, B, c))'
        BY <1>13, <1>14, PassesSpread DEF Plan
    <2>2. ASSUME NEW b \in DOMAIN work', work'[b].kind = "loop"
          PROVE  PassesWhole(LoopOf(work[b]), ToSet(work[b].body), work[b].passes)'
        <3>1. work'[b] = loop
            BY <1>18, <2>2
        <3>2. LoopOf(work[b])' = M /\ ToSet(work[b].body)' = D /\ work'[b].passes = 0
            BY <1>12, <1>17, <3>1 DEF LoopOf, ToSet
        <3> QED
            BY <1>13, <3>2
    <2> QED
        BY <2>1, <2>2 DEF PassesKnown
<1>21. ToldKnown' /\ SelectedWhole'
    BY DEF Plan, ToldKnown, Looped, SelectedWhole, SameLoop
<1> QED
    BY <1>9, <1>15, <1>19, <1>20, <1>21 DEF Plan

\* Replay starts with every step of the trace in the worklist, once.
LEMMA PlanStart ==
    ASSUME Written, results = <<>>, StartReplay
    PROVE  WorkShape' /\ Plan'
<1>1. /\ results' = <<>> /\ UNCHANGED trace /\ work' = [i \in DOMAIN trace |-> StepAt(i, 1)]
      /\ \/ selected' = DOMAIN trace
         \/ \E from, until : selected' = Within(from, until)
    BY DEF StartReplay, recording
<1>2. IsSeq(trace)
    BY DEF Written, TraceKnown
<1>3. Len(trace) \in Nat /\ DOMAIN trace = 1..Len(trace)
    BY <1>2 DEF IsSeq
<1>4. WorkShape'
    BY <1>1, <1>2, ShapeStart
<1>5. Len(work') = Len(trace)
    <2>1. work' = [k \in 1..Len(trace) |-> work'[k]]
        BY <1>1, <1>3
    <2> QED
        BY <1>3, <2>1, FunIsSeq
<1>6. Slots' = DOMAIN trace /\ \A k \in DOMAIN trace : Slot(k)' = StepAt(k, 1)
    <2>1. Len(results') = 0
        BY <1>1
    <2>2. Slots' = {k \in 1..(0 + Len(trace)) : k <= 0 => Counts(results'[k])}
        BY <1>5, <2>1 DEF Slots
    <2>3. 0 + Len(trace) = Len(trace) /\ \A k \in 1..Len(trace) : ~(k <= 0) /\ k - 0 = k
        BY <1>3
    <2>4. ASSUME NEW k \in DOMAIN trace PROVE Slot(k)' = StepAt(k, 1)
        <3>1. Slot(k)' = WorkSlot(work'[k])
            BY <1>3, <2>1, <2>3, <2>4 DEF Slot, WorkSlot
        <3>2. work'[k] = StepAt(k, 1)
            BY <1>1, <2>4
        <3> QED
            BY <3>1, <3>2 DEF WorkSlot, StepAt
    <2> QED
        BY <1>3, <2>2, <2>3, <2>4
<1>7. \A k \in DOMAIN trace : Slot(k)'.index = k
    BY <1>6 DEF StepAt
<1>8. Once' /\ InOrder'
    <2>1. \A a, b \in Slots' : Slot(a)' = Slot(b)' => a = b
        BY <1>6, <1>7
    <2>2. \A a, b \in Slots' : a < b => Slot(a)'.index < Slot(b)'.index
        BY <1>6, <1>7
    <2> QED
        BY <2>1, <2>2 DEF Once, InOrder
<1>9. ASSUME NEW i \in DOMAIN trace, NEW p PROVE Planned(i, p)' <=> p = 1
    <2>1. \A j \in DOMAIN trace : StepAt(j, 1) = StepAt(i, p) <=> j = i /\ p = 1
        BY DEF StepAt
    <2> QED
        BY <1>6, <2>1 DEF Planned, StepAt
<1>10. ToldKnown'
    BY <1>1 DEF ToldKnown
<1>11. \A b \in DOMAIN work' : work'[b].kind = "step" /\ work'[b].pass = 1
    BY <1>1 DEF StepAt
<1>12. DueKnown'
    BY <1>11 DEF DueKnown
<1>13. PassesKnown'
    <2>1. PICK D : D = DOMAIN trace
        OBVIOUS
    <2>2. \A p : p \in 1..1 <=> p = 1
        OBVIOUS
    <2>3. \A L : PassesWhole(L, D, 1)'
        BY <1>1, <1>9, <2>1, <2>2 DEF PassesWhole
    <2>4. \A L : \E B, c : c \in Nat /\ PassesWhole(L, B, c)'
        BY <2>3
    <2> QED
        BY <1>11, <2>4 DEF PassesKnown
<1>14. AllPlanned'
    BY <1>1, <1>9 DEF AllPlanned
<1>15. SelectedWhole'
    <2> SUFFICES ASSUME NEW i \in selected', NEW j \in DOMAIN trace, trace[i].rep.id # 0, SameLoop(i, j)
                 PROVE  j \in selected'
        BY <1>1 DEF SelectedWhole, SameLoop
    <2>1. CASE selected' = DOMAIN trace
        BY <2>1
    <2>2. ASSUME NEW from, NEW until, selected' = Within(from, until) PROVE j \in selected'
        <3>1. i \in DOMAIN trace /\ trace[i].number \in from..until
            BY <2>2 DEF Within
        <3>2. trace[i] \in Entries /\ trace[j] \in Entries
            BY <3>1 DEF Entries, ToSet
        <3>3. Numbered(trace[i].rep.id, trace[i].number) /\ Numbered(trace[i].rep.id, trace[j].number)
            BY <3>2 DEF Numbered, SameLoop
        <3>4. trace[i].number = trace[j].number
            BY <3>3 DEF Written, NumbersKnown
        <3> QED
            BY <2>2, <3>1, <3>4 DEF Within
    <2> QED
        BY <1>1, <2>1, <2>2
<1> QED
    BY <1>4, <1>8, <1>10, <1>12, <1>13, <1>14, <1>15 DEF Plan

\* The verdict is a failure exactly when an entry says so.
FailureTold == failed <=> \E k \in DOMAIN results : results[k].status = "failed"

\* Entries are added, and the run is failed exactly when one of them is.
LEMMA FailureSaid ==
    ASSUME FailureTold, IsSeq(results), NEW s, IsSeq(s), results' = results \o s,
           failed' <=> failed \/ \E k \in DOMAIN s : s[k].status = "failed"
    PROVE  FailureTold'
<1>1. /\ Len(results) \in Nat /\ Len(s) \in Nat
      /\ DOMAIN (results \o s) = 1..(Len(results) + Len(s)) /\ DOMAIN results = 1..Len(results) /\ DOMAIN s = 1..Len(s)
      /\ \A k \in DOMAIN (results \o s) : (results \o s)[k] = IF k <= Len(results) THEN results[k] ELSE s[k - Len(results)]
    BY ConcatIsSeq
<1>2. PICK t : t = results \o s
    OBVIOUS
<1>3. DOMAIN t = 1..(Len(results) + Len(s)) /\ \A k \in DOMAIN t : t[k] = IF k <= Len(results) THEN results[k] ELSE s[k - Len(results)]
    BY <1>1, <1>2
<1>4. \A k \in DOMAIN results : k \in DOMAIN t /\ t[k] = results[k]
    BY <1>1, <1>3
<1>5. ASSUME NEW k \in DOMAIN s PROVE \E j \in DOMAIN t : t[j] = s[k]
    <2>1. PICK j : j = Len(results) + k
        OBVIOUS
    <2>2. j \in DOMAIN t /\ ~(j <= Len(results)) /\ j - Len(results) = k
        BY <1>1, <1>3, <2>1
    <2> QED
        BY <1>3, <2>2
<1>6. ASSUME NEW k \in DOMAIN t PROVE (k \in DOMAIN results /\ t[k] = results[k]) \/ \E j \in DOMAIN s : t[k] = s[j]
    <2>1. CASE k <= Len(results)
        BY <1>1, <1>3, <2>1
    <2>2. CASE k > Len(results)
        <3>1. k - Len(results) \in DOMAIN s /\ ~(k <= Len(results))
            BY <1>1, <1>3, <2>2
        <3> QED
            BY <1>3, <3>1
    <2> QED
        BY <1>1, <1>3, <2>1, <2>2
<1>7. (\E k \in DOMAIN t : t[k].status = "failed") <=>
        (\E k \in DOMAIN results : results[k].status = "failed") \/ (\E k \in DOMAIN s : s[k].status = "failed")
    BY <1>4, <1>5, <1>6
<1> QED
    BY <1>2, <1>7 DEF FailureTold

\* One entry is added.
LEMMA FailurePopped ==
    ASSUME FailureTold, IsSeq(results), NEW r, results' = Append(results, r), failed' <=> failed \/ r.status = "failed"
    PROVE  FailureTold'
<1>1. PICK s : s = <<r>>
    OBVIOUS
<1>2. IsSeq(s) /\ DOMAIN s = {1} /\ s[1] = r
    BY <1>1, ShortIsSeq
<1>3. results' = results \o s
    BY <1>1 DEF IsSeq
<1>4. failed' <=> failed \/ \E k \in DOMAIN s : s[k].status = "failed"
    BY <1>2
<1> QED
    BY <1>2, <1>3, <1>4, FailureSaid

\* What the end of the worklist adds to the report.
LEMMA ReportTail ==
    ASSUME Typed, Report
    PROVE  \E s : /\ IsSeq(s) /\ results' = results \o s
                  /\ \A k \in DOMAIN s : s[k].index = 0 /\ s[k].status = "failed" /\ s[k].why \in {"leak", "exports"}
                  /\ failed' <=> failed \/ DOMAIN s # {}
<1> DEFINE bad(why) == Result(0, 1, "failed", why, 0)
           scanned == IF failed \/ ~leaked THEN <<>> ELSE <<bad("leak")>>
           missing == IF (~failed /\ ~leaked) /\ ~partial THEN flow.exports \ DOMAIN captures ELSE {}
           unresolved == [k \in 1..Cardinality(missing) |-> bad("exports")]
<1>1. IsSeq(results)
    BY DEF Typed, TypeOK
<1>2. results' = results \o scanned \o unresolved
    BY DEF Report
<1>3. failed' = (~(~failed /\ ~leaked) \/ missing # {})
    BY DEF Report
<1>4. \A why : bad(why).index = 0 /\ bad(why).status = "failed" /\ bad(why).why = why
    BY DEF Result
<1>5. IsFiniteSet(missing) /\ Cardinality(missing) \in Nat
    <2>1. IsFiniteSet(flow.exports)
        BY ExportsAssumption DEF Typed, TypeOK
    <2>2. IsFiniteSet(missing)
        BY <2>1, FS_Subset, FS_EmptySet
    <2> QED
        BY <2>2, FS_CardinalityType
<1>6. leaked \in BOOLEAN /\ failed \in BOOLEAN
    BY DEF Typed, TypeOK
<1> HIDE DEF bad
<1>7. /\ IsSeq(scanned) /\ (DOMAIN scanned = {} <=> failed \/ ~leaked)
      /\ \A k \in DOMAIN scanned : scanned[k].index = 0 /\ scanned[k].status = "failed" /\ scanned[k].why \in {"leak", "exports"}
    <2>1. CASE failed \/ ~leaked
        BY <2>1, ShortIsSeq
    <2>2. CASE ~(failed \/ ~leaked)
        BY <1>4, <2>2, ShortIsSeq
    <2> QED
        BY <2>1, <2>2
<1>8. missing # {} => Cardinality(missing) # 0
    <2> HIDE DEF missing
    <2> QED
        BY <1>5, FS_EmptySet
<1>9. missing = {} => Cardinality(missing) = 0
    <2> HIDE DEF missing
    <2> QED
        BY FS_EmptySet
<1>10. /\ IsSeq(unresolved) /\ (DOMAIN unresolved = {} <=> missing = {})
       /\ \A k \in DOMAIN unresolved : unresolved[k].index = 0 /\ unresolved[k].status = "failed" /\ unresolved[k].why \in {"leak", "exports"}
    <2>1. \A k \in DOMAIN unresolved : unresolved[k].index = 0 /\ unresolved[k].status = "failed" /\ unresolved[k].why \in {"leak", "exports"}
        BY <1>4
    <2>2. DOMAIN unresolved = 1..Cardinality(missing)
        OBVIOUS
    <2>3. unresolved = [k \in 1..Cardinality(missing) |-> unresolved[k]]
        BY <2>2
    <2> HIDE DEF unresolved, missing
    <2>4. IsSeq(unresolved)
        BY <1>5, <2>3, FunIsSeq
    <2>5. 1..Cardinality(missing) = {} <=> Cardinality(missing) = 0
        BY <1>5
    <2> QED
        BY <1>8, <1>9, <2>1, <2>2, <2>4, <2>5
<1>11. missing # {} => ~failed /\ ~leaked
    OBVIOUS
<1> HIDE DEF scanned, unresolved, missing
<1>12. PICK a, b, s : a = scanned /\ b = unresolved /\ s = a \o b
    OBVIOUS
<1>13. /\ IsSeq(a) /\ (DOMAIN a = {} <=> failed \/ ~leaked) /\ \A k \in DOMAIN a : a[k].index = 0 /\ a[k].status = "failed" /\ a[k].why \in {"leak", "exports"}
       /\ IsSeq(b) /\ (DOMAIN b = {} <=> missing = {}) /\ \A k \in DOMAIN b : b[k].index = 0 /\ b[k].status = "failed" /\ b[k].why \in {"leak", "exports"}
    BY <1>7, <1>10, <1>12
<1>14. /\ IsSeq(s) /\ DOMAIN s = 1..(Len(a) + Len(b)) /\ DOMAIN a = 1..Len(a) /\ DOMAIN b = 1..Len(b)
       /\ Len(a) \in Nat /\ Len(b) \in Nat
       /\ \A k \in DOMAIN s : s[k] = IF k <= Len(a) THEN a[k] ELSE b[k - Len(a)]
    BY <1>12, <1>13, ConcatIsSeq
<1>15. ASSUME NEW k \in DOMAIN s PROVE s[k].index = 0 /\ s[k].status = "failed" /\ s[k].why \in {"leak", "exports"}
    <2>1. CASE k <= Len(a)
        <3>1. k \in DOMAIN a /\ s[k] = a[k]
            BY <1>14, <2>1
        <3> QED
            BY <1>13, <3>1
    <2>2. CASE k > Len(a)
        <3>1. k - Len(a) \in DOMAIN b /\ s[k] = b[k - Len(a)]
            BY <1>14, <2>2
        <3> QED
            BY <1>13, <3>1
    <2> QED
        BY <1>14, <2>1, <2>2
<1>16. DOMAIN s = {} <=> DOMAIN a = {} /\ DOMAIN b = {}
    BY <1>14
<1>17. results' = results \o s
    <2>1. results \o a \o b = results \o (a \o b)
        BY <1>1, <1>13 DEF IsSeq
    <2> QED
        BY <1>2, <1>12, <2>1
<1>18. failed' <=> failed \/ DOMAIN s # {}
    BY <1>3, <1>6, <1>11, <1>13, <1>16
<1> QED
    BY <1>14, <1>15, <1>17, <1>18

\* What the end of the worklist adds counts for no step.
LEMMA PlanReported ==
    ASSUME Plan, IsSeq(results), work = <<>>, NEW s, IsSeq(s), \A k \in DOMAIN s : s[k].index = 0,
           results' = results \o s, UNCHANGED <<work, trace, selected, seen>>
    PROVE  Plan'
<1>1. PICK t : t = results \o s
    OBVIOUS
<1>2. /\ Len(results) \in Nat /\ Len(s) \in Nat /\ DOMAIN results = 1..Len(results)
      /\ DOMAIN t = 1..Len(t) /\ Len(t) = Len(results) + Len(s)
      /\ \A k \in DOMAIN t : k <= Len(results) => t[k] = results[k]
      /\ \A k \in DOMAIN t : k > Len(results) => ~Counts(t[k])
    <2>1. /\ Len(results) \in Nat /\ Len(s) \in Nat /\ Len(t) = Len(results) + Len(s)
          /\ DOMAIN t = 1..(Len(results) + Len(s)) /\ DOMAIN results = 1..Len(results) /\ DOMAIN s = 1..Len(s)
          /\ \A k \in DOMAIN t : t[k] = IF k <= Len(results) THEN results[k] ELSE s[k - Len(results)]
        BY <1>1, ConcatIsSeq
    <2>2. ASSUME NEW k \in DOMAIN t, k > Len(results) PROVE ~Counts(t[k])
        <3>1. k - Len(results) \in DOMAIN s /\ ~(k <= Len(results))
            BY <2>1, <2>2
        <3> QED
            BY <2>1, <3>1 DEF Counts
    <2>3. \A k \in DOMAIN t : k <= Len(results) => t[k] = results[k]
        BY <2>1
    <2> QED
        BY <2>1, <2>2, <2>3
<1>3. Len(work) = 0
    OBVIOUS
<1>4. Slots = {k \in 1..Len(results) : Counts(results[k])}
    <2>1. Len(results) + Len(work) = Len(results)
        BY <1>2, <1>3
    <2> QED
        BY <1>2, <2>1 DEF Slots
<1>5. Slots' = {k \in 1..Len(t) : Counts(t[k])}
    <2>1. Len(t) + Len(work') = Len(t)
        BY <1>2, <1>3
    <2> QED
        BY <1>1, <1>2, <2>1 DEF Slots
<1>6. ASSUME NEW k \in 1..Len(t), Counts(t[k]) PROVE k \in 1..Len(results) /\ t[k] = results[k]
    <2>1. k \in DOMAIN t
        BY <1>2
    <2>2. ~(k > Len(results))
        BY <1>2, <1>6, <2>1, Zenon
    <2>3. k <= Len(results)
        BY <1>2, <2>2
    <2> QED
        BY <1>2, <2>1, <2>3
<1>7. ASSUME NEW k \in 1..Len(results) PROVE k \in 1..Len(t) /\ t[k] = results[k]
    BY <1>2
<1>8. Slots' = Slots /\ \A k \in Slots : Slot(k)' = Slot(k)
    <2>1. Slots' = Slots
        BY <1>4, <1>5, <1>6, <1>7
    <2>2. ASSUME NEW k \in Slots PROVE Slot(k)' = Slot(k)
        <3>1. k \in 1..Len(results) /\ k \in 1..Len(t) /\ t[k] = results[k]
            BY <1>4, <1>7
        <3>2. k <= Len(results) /\ k <= Len(t)
            BY <1>2, <3>1
        <3> QED
            BY <1>1, <3>1, <3>2 DEF Slot
    <2> QED
        BY <2>1, <2>2
<1>9. Once' /\ InOrder' /\ \A i, p : Planned(i, p)' <=> Planned(i, p)
    <2>1. \A i, p : Planned(i, p)' <=> Planned(i, p)
        BY <1>8 DEF Planned, StepAt
    <2> QED
        BY <1>8, <2>1 DEF Plan, Once, InOrder, Looped
<1>10. ToldKnown'
    BY <1>1, <1>2, <1>6 DEF Plan, ToldKnown, Looped
<1>11. SelectedWhole' /\ DueKnown' /\ PassesKnown' /\ AllPlanned'
    <2>1. ToSet(work)' \subseteq ToSet(work)
        BY DEF ToSet
    <2> QED
        BY <1>9, <2>1, PlansKept
<1> QED
    BY <1>9, <1>10, <1>11 DEF Plan

\* When the worklist is empty the plan is the report.
LEMMA ReportedFrom ==
    ASSUME Plan, FailureTold, work = <<>>, IsSeq(results), IsSeq(trace)
    PROVE  EveryStepReported
<1> DEFINE Of(i, p) == {k \in DOMAIN results : results[k].index = i /\ results[k].pass = p /\ results[k].why # "bound"}
           entries == {k \in DOMAIN results : results[k].index # 0 /\ results[k].why # "bound"}
           body == {results[k].index : k \in {l \in entries : Looped(results[l].index)}}
<1>1. Slots = entries /\ \A k \in entries : Slot(k) = StepAt(results[k].index, results[k].pass)
    <2>1. Len(results) \in Nat /\ DOMAIN results = 1..Len(results) /\ Len(results) + Len(work) = Len(results)
        BY DEF IsSeq
    <2>2. Slots = entries
        BY <2>1 DEF Slots, Counts
    <2>3. \A k \in entries : k <= Len(results)
        BY <2>1
    <2> QED
        BY <2>2, <2>3 DEF Slot
<1>2. 0 \notin DOMAIN trace
    BY DEF IsSeq
<1>3. ASSUME NEW i \in DOMAIN trace, NEW p PROVE Of(i, p) = {k \in Slots : Slot(k) = StepAt(i, p)}
    <2>1. \A k \in entries : Slot(k) = StepAt(i, p) <=> results[k].index = i /\ results[k].pass = p
        BY <1>1 DEF StepAt
    <2> QED
        BY <1>1, <1>2, <2>1
<1>4. ASSUME NEW i \in DOMAIN trace, NEW p, Planned(i, p) PROVE Cardinality(Of(i, p)) = 1 /\ Of(i, p) # {}
    <2>1. PICK k \in Slots : Slot(k) = StepAt(i, p)
        BY <1>4 DEF Planned
    <2>2. Slot(k).kind = "step"
        BY <2>1 DEF StepAt
    <2>3. \A l \in Slots : Slot(l) = StepAt(i, p) => l = k
        BY <2>1, <2>2 DEF Plan, Once
    <2>4. Of(i, p) = {k}
        BY <1>3, <2>1, <2>3
    <2> HIDE DEF Of
    <2> QED
        BY <2>4, FS_Singleton
<1>5. \A k \in entries : results[k].index \in DOMAIN trace /\ Planned(results[k].index, results[k].pass)
    BY <1>1 DEF Plan, ToldKnown, Counts, Planned
<1>6. \A j, k \in entries :
          j < k /\ ~(Looped(results[j].index) /\ Looped(results[k].index)) => results[j].index < results[k].index
    <2>1. \A k \in entries : k \in Slots /\ Slot(k).index = results[k].index
        BY <1>1 DEF StepAt
    <2> QED
        BY <2>1 DEF Plan, InOrder
<1>7. \A i \in DOMAIN trace : ~Looped(i) => Cardinality(Of(i, 1)) = 1
    BY <1>4 DEF Plan, AllPlanned
<1>8. ASSUME NEW k \in entries, NEW i \in body, Looped(results[k].index), SameLoop(i, results[k].index)
      PROVE  /\ Cardinality(Of(i, results[k].pass)) = 1
             /\ results[k].pass > 1 => Of(i, results[k].pass - 1) # {}
    <2>1. PICK l \in entries : i = results[l].index /\ Looped(results[l].index)
        OBVIOUS
    <2>2. PICK L, j, p, q : L = trace[i].rep.id /\ j = results[k].index /\ p = results[k].pass /\ q = results[l].pass
        OBVIOUS
    <2>3. /\ i \in DOMAIN trace /\ trace[i].rep.id = L /\ i \in selected /\ Planned(i, q) /\ L # 0
          /\ j \in DOMAIN trace /\ trace[j].rep.id = L /\ j \in selected /\ Planned(j, p)
        BY <1>5, <1>8, <2>1, <2>2 DEF Looped, SameLoop
    <2>4. PICK B, c : c \in Nat /\ PassesWhole(L, B, c)
        BY <2>3 DEF Plan, PassesKnown
    <2>5. i \in B /\ p \in 1..c
        BY <2>3, <2>4 DEF PassesWhole
    <2>6. Planned(i, p) /\ (p > 1 => Planned(i, p - 1))
        <3>1. p > 1 => p - 1 \in 1..c
            BY <2>4, <2>5
        <3> QED
            BY <2>3, <2>4, <2>5, <3>1 DEF PassesWhole
    <2> HIDE DEF Of
    <2> QED
        BY <1>4, <2>2, <2>3, <2>6
<1> QED
    BY <1>6, <1>7, <1>8 DEF EveryStepReported, FailureTold, Looped

\* The step that is about to run is a selected one, of no loop that is not met yet.
ReadyPlanned ==
    ready => /\ work # <<>> /\ Head(work).kind = "step"
             /\ Head(work).index \in selected /\ ~FirstOfLoop(Head(work).index)

\* What replay knows of its report, in each phase.
Replaying == WorkShape /\ Plan /\ FailureTold /\ ReadyPlanned
ReportKnown ==
    /\ Written
    /\ phase \in {"record", "refused", "stored"} => Unstarted /\ ~failed
    /\ phase = "replay" => Replaying
    /\ phase = "reported" => Plan /\ FailureTold /\ work = <<>>

\* A step is reported in the pass it is in.
LEMMA ReplayingPop ==
    ASSUME Replaying, IsSeq(trace), IsSeq(results), work # <<>>, Head(work).kind = "step",
           UNCHANGED <<trace, selected, seen>>, ~ready',
           NEW r, r.index = Head(work).index, r.pass = Head(work).pass, r.why # "bound",
           results' = Append(results, r), work' = Tail(work),
           r.index \in selected => ~FirstOfLoop(r.index),
           failed' <=> failed \/ r.status = "failed"
    PROVE  Replaying'
<1>1. Plan'
    BY PlanPopped DEF Replaying
<1>2. WorkShape' /\ FailureTold'
    BY ShapeTail, FailurePopped DEF Replaying
<1> QED
    BY <1>1, <1>2 DEF Replaying, ReadyPlanned

\* A loop leaves the worklist, with or without an entry for its bound.
LEMMA ReplayingDrop ==
    ASSUME Replaying, IsSeq(results), work # <<>>, Head(work).kind = "loop",
           UNCHANGED <<trace, selected, seen>>, ~ready', work' = Tail(work),
           \/ results' = results /\ (failed' <=> failed)
           \/ \E r : ~Counts(r) /\ results' = Append(results, r) /\ (failed' <=> failed \/ r.status = "failed")
    PROVE  Replaying'
<1>1. Plan'
    BY PlanDropped DEF Replaying
<1>2. WorkShape'
    BY ShapeTail DEF Replaying
<1>3. FailureTold'
    <2>1. CASE results' = results /\ (failed' <=> failed)
        BY <2>1 DEF Replaying, FailureTold
    <2>2. ASSUME NEW r, results' = Append(results, r), failed' <=> failed \/ r.status = "failed"
          PROVE  FailureTold'
        BY <2>2, FailurePopped DEF Replaying
    <2> QED
        BY <2>1, <2>2
<1> QED
    BY <1>1, <1>2, <1>3 DEF Replaying, ReadyPlanned

\* A step is left out, skipped, run or failed.
LEMMA ReportSteps ==
    ASSUME Replaying, Typed, LeaveOut \/ SkipAfterFailure \/ RunStep \/ FailStep
    PROVE  Replaying'
<1>1. IsSeq(trace) /\ IsSeq(results) /\ failed \in BOOLEAN
    BY DEF Typed, TypeOK
<1>2. /\ work # <<>> /\ Head(work).kind = "step" /\ UNCHANGED <<trace, selected, seen>> /\ ~ready'
      /\ Head(work).index \in selected => ~FirstOfLoop(Head(work).index)
    <2>1. CASE LeaveOut \/ SkipAfterFailure
        <3>1. NextIsStep /\ UNCHANGED <<recording, selected, seen, ready>>
            BY <2>1, Zenon DEF LeaveOut, SkipAfterFailure, AtStep
        <3>2. Head(work).index \notin selected \/ ~FirstOfLoop(Head(work).index)
            BY <2>1, Zenon DEF LeaveOut, SkipAfterFailure, AtStep
        <3> QED
            BY <3>1, <3>2 DEF NextIsStep, Now, recording
    <2>2. CASE RunStep \/ FailStep
        BY <2>2 DEF RunStep, FailStep, Running, recording, Replaying, ReadyPlanned
    <2> QED
        BY <2>1, <2>2
<1>3. \E p, status, why :
          /\ Pop(Result(Head(work).index, p, status, why, 0)) /\ why # "bound"
          /\ failed' <=> failed \/ status = "failed"
          /\ p = Head(work).pass \/ (p = 1 /\ Head(work).index \notin selected)
    <2>1. CASE LeaveOut
        <3>1. Pop(Result(Head(work).index, 1, "skipped", "not selected", 0))
            BY <2>1, Zenon DEF LeaveOut, Skipped
        <3>2. failed' = failed /\ Head(work).index \notin selected
            BY <2>1, Zenon DEF LeaveOut
        <3>3. PICK status, why : status = "skipped" /\ why = "not selected"
            BY Zenon
        <3>4. Pop(Result(Head(work).index, 1, status, why, 0)) /\ why # "bound" /\ (failed' <=> failed \/ status = "failed")
            BY <3>1, <3>2, <3>3, Zenon
        <3> QED
            BY <3>2, <3>4, Zenon
    <2>2. CASE SkipAfterFailure
        BY <2>2, Zenon DEF SkipAfterFailure, Skipped
    <2>3. CASE RunStep
        BY <2>3 DEF RunStep
    <2>4. CASE FailStep
        BY <2>4 DEF FailStep
    <2> QED
        BY <2>1, <2>2, <2>3, <2>4
<1>4. PICK p, status, why :
          /\ Pop(Result(Head(work).index, p, status, why, 0)) /\ why # "bound"
          /\ failed' <=> failed \/ status = "failed"
          /\ p = Head(work).pass \/ (p = 1 /\ Head(work).index \notin selected)
    BY <1>3
<1>5. p = Head(work).pass
    <2>1. Head(work) = work[1] /\ 1 \in DOMAIN work
        BY <1>2, HeadOfWork DEF Replaying, WorkShape
    <2>2. Head(work).index \notin selected => Head(work).pass = 1
        BY <1>2, <2>1 DEF Replaying, Plan, DueKnown, Looped
    <2> QED
        BY <1>4, <2>2
<1>6. PICK r : r = Result(Head(work).index, p, status, why, 0)
    OBVIOUS
<1>7. /\ r.index = Head(work).index /\ r.pass = Head(work).pass /\ r.why # "bound" /\ r.status = status
    BY <1>4, <1>5, <1>6 DEF Result
<1>8. results' = Append(results, r) /\ work' = Tail(work)
    BY <1>4, <1>6 DEF Pop
<1>9. r.index \in selected => ~FirstOfLoop(r.index)
    BY <1>2, <1>7
<1>10. failed' <=> failed \/ r.status = "failed"
    BY <1>4, <1>7
<1> QED
    BY <1>1, <1>2, <1>7, <1>8, <1>9, <1>10, ReplayingPop

\* The guards of a step are read.
LEMMA ReportApproach ==
    ASSUME Replaying, Typed, Approach
    PROVE  Replaying'
<1>1. IsSeq(trace) /\ IsSeq(results) /\ failed \in BOOLEAN
    BY DEF Typed, TypeOK
<1>2. /\ work # <<>> /\ Head(work).kind = "step" /\ UNCHANGED <<trace, selected, seen, failed>> /\ ~ready
      /\ Head(work).index \in selected /\ ~FirstOfLoop(Head(work).index)
    BY Zenon DEF Approach, AtStep, NextIsStep, Now, recording
<1>3. \/ ready' = TRUE /\ UNCHANGED <<work, results>>
      \/ \E g : Pop(Result(Head(work).index, Head(work).pass, "skipped", "guard", g)) /\ UNCHANGED ready
    BY Zenon DEF Approach
<1>4. CASE ready' = TRUE /\ UNCHANGED <<work, results>>
    <2>1. Plan'
        <3>1. Slots' = Slots /\ \A k : Slot(k)' = Slot(k)
            BY <1>4 DEF Slots, Slot
        <3>2. \A i, p : Planned(i, p)' <=> Planned(i, p)
            BY <3>1 DEF Planned, StepAt
        <3>3. Once' /\ InOrder'
            BY <1>2, <3>1 DEF Replaying, Plan, Once, InOrder, Looped
        <3>4. ToldKnown'
            BY <1>2, <1>4 DEF Replaying, Plan, ToldKnown, Looped
        <3>5. ToSet(work)' \subseteq ToSet(work)
            BY <1>4 DEF ToSet
        <3>6. SelectedWhole' /\ DueKnown' /\ PassesKnown' /\ AllPlanned'
            BY <1>2, <3>2, <3>5, PlansKept DEF Replaying
        <3> QED
            BY <3>3, <3>4, <3>6 DEF Plan
    <2>2. WorkShape'
        BY <1>2, <1>4 DEF Replaying, WorkShape, WorkEntry, LoopAlone, StepsInOrder, LoopOf, SameLoop
    <2>3. FailureTold' /\ ReadyPlanned'
        BY <1>2, <1>4 DEF Replaying, FailureTold, ReadyPlanned, FirstOfLoop
    <2> QED
        BY <2>1, <2>2, <2>3 DEF Replaying
<1>5. ASSUME NEW g, Pop(Result(Head(work).index, Head(work).pass, "skipped", "guard", g)), UNCHANGED ready
      PROVE  Replaying'
    <2>1. PICK r : r = Result(Head(work).index, Head(work).pass, "skipped", "guard", g)
        OBVIOUS
    <2>2. /\ r.index = Head(work).index /\ r.pass = Head(work).pass /\ r.why # "bound" /\ r.status # "failed"
        BY <2>1 DEF Result
    <2>3. results' = Append(results, r) /\ work' = Tail(work) /\ ~ready'
        BY <1>2, <1>5, <2>1 DEF Pop
    <2>4. failed' <=> failed \/ r.status = "failed"
        BY <1>2, <2>2
    <2>5. r.index \in selected => ~FirstOfLoop(r.index)
        BY <1>2, <2>2
    <2> QED
        BY <1>1, <1>2, <2>2, <2>3, <2>4, <2>5, ReplayingPop
<1> QED
    BY <1>3, <1>4, <1>5, Zenon

\* A loop is over.
LEMMA ReportLoops ==
    ASSUME Replaying, Typed, TraceShape, DropLoop \/ SettleLoop \/ ExhaustLoop
    PROVE  Replaying'
<1>1. IsSeq(trace) /\ IsSeq(results) /\ failed \in BOOLEAN
    BY DEF Typed, TypeOK
<1>2. /\ work # <<>> /\ Head(work).kind = "loop" /\ UNCHANGED <<trace, selected, seen>> /\ ~ready' /\ work' = Tail(work)
    <2>1. NextIsLoop
        BY DEF DropLoop, SettleLoop, ExhaustLoop, ReadsLoop
    <2>2. UNCHANGED <<recording, selected, seen, ready>>
        BY DEF DropLoop, SettleLoop, ExhaustLoop
    <2>3. work' = Tail(work)
        BY DEF DropLoop, SettleLoop, ExhaustLoop, Pop
    <2> QED
        BY <2>1, <2>2, <2>3 DEF NextIsLoop, Now, recording
<1>3. CASE DropLoop \/ (SettleLoop /\ Head(work).passes > 0)
    <2>1. results' = results /\ (failed' <=> failed)
        BY <1>3 DEF DropLoop, SettleLoop
    <2> QED
        BY <1>1, <1>2, <2>1, ReplayingDrop
<1>4. CASE ExhaustLoop
    <2>1. PICK r : r = Result(Head(work).first, Head(work).passes, "failed", "bound", 0)
        OBVIOUS
    <2>2. r.why = "bound" /\ r.status = "failed"
        BY <2>1 DEF Result
    <2>3. results' = Append(results, r) /\ failed'
        BY <1>4, <2>1 DEF ExhaustLoop, Pop
    <2>4. ~Counts(r) /\ (failed' <=> failed \/ r.status = "failed")
        BY <2>2, <2>3 DEF Counts
    <2> QED
        BY <1>1, <1>2, <2>3, <2>4, ReplayingDrop
<1>5. CASE SettleLoop /\ ~(Head(work).passes > 0)
    <2>1. PICK w, more : w = Head(work) /\ more = [k \in DOMAIN w.body |-> Skipped(w.body[k], 1, "held")]
        OBVIOUS
    <2>2. Head(work) = work[1] /\ 1 \in DOMAIN work
        BY <1>2, HeadOfWork DEF Replaying, WorkShape
    <2>3. WorkEntry(w) /\ w.kind = "loop"
        BY <1>2, <2>1, <2>2 DEF Replaying, WorkShape
    <2>4. w.passes = 0
        <3>1. w.passes \in Nat /\ ~(w.passes > 0)
            BY <1>5, <2>1, <2>3 DEF WorkEntry
        <3> QED
            BY <3>1
    <2>5. results' = results \o more /\ failed' = failed
        <3>1. results' = results \o [k \in DOMAIN Head(work).body |-> Skipped(Head(work).body[k], 1, "held")]
            BY <1>5 DEF SettleLoop
        <3> QED
            BY <1>5, <2>1, <3>1 DEF SettleLoop
    <2>6. Plan' /\ WorkShape'
        <3>1. Plan'
            BY <1>1, <1>2, <2>1, <2>3, <2>4, <2>5, PlanSettled DEF Replaying
        <3> QED
            BY <1>2, <3>1, ShapeTail DEF Replaying
    <2>7. IsSeq(more) /\ \A k \in DOMAIN more : more[k].status = "skipped"
        <3>1. \A k \in DOMAIN more : more[k].status = "skipped"
            BY <2>1 DEF Skipped, Result
        <3>2. DOMAIN more = DOMAIN w.body /\ IsSeq(w.body)
            BY <2>1, <2>3 DEF WorkEntry
        <3>3. Len(w.body) \in Nat /\ DOMAIN w.body = 1..Len(w.body)
            BY <3>2 DEF IsSeq
        <3>4. more = [k \in 1..Len(w.body) |-> more[k]]
            BY <2>1, <3>2, <3>3
        <3> QED
            BY <3>1, <3>3, <3>4, FunIsSeq
    <2>8. FailureTold'
        BY <1>1, <2>5, <2>7, FailureSaid DEF Replaying
    <2> QED
        BY <1>2, <2>6, <2>8 DEF Replaying, ReadyPlanned
<1> QED
    BY <1>3, <1>4, <1>5

\* A loop is met.
LEMMA ReportMeet ==
    ASSUME Replaying, Typed, TraceShape, MeetLoop
    PROVE  Replaying'
<1>1. /\ work # <<>> /\ Head(work).kind = "step" /\ ~ready /\ FirstOfLoop(Head(work).index)
      /\ Head(work).index \in selected
      /\ seen' = seen \cup {trace[Head(work).index].rep.id}
      /\ work' = <<LoopAt(Head(work).index, Body(Head(work).index), 0)>> \o Beyond(Head(work).index, Tail(work))
      /\ UNCHANGED <<trace, selected, results, failed, ready>>
    BY DEF MeetLoop, NextIsStep, Now, recording
<1>2. PICK i : i = Head(work).index
    OBVIOUS
<1>3. WorkShape' /\ \E m \in Nat : MeetPlaced(i, m)
    <2>1. /\ FirstOfLoop(i) /\ seen' = seen \cup {trace[i].rep.id} /\ trace' = trace
          /\ work' = <<LoopAt(i, Body(i), 0)>> \o Beyond(i, Tail(work))
        BY <1>1, <1>2
    <2> QED
        BY <1>1, <1>2, <2>1, ShapeMeet DEF Replaying
<1>4. PICK m \in Nat : MeetPlaced(i, m)
    BY <1>3
<1>5. Plan'
    <2>1. IsSeq(results) /\ seen' = seen \cup {trace[i].rep.id} /\ FirstOfLoop(i) /\ i \in selected
        BY <1>1, <1>2 DEF Typed, TypeOK
    <2>2. work # <<>> /\ Head(work).kind = "step" /\ UNCHANGED <<trace, selected, results>>
        BY <1>1
    <2>3. Plan /\ WorkShape /\ WorkShape' /\ TraceShape
        BY <1>3 DEF Replaying
    <2> QED
        BY <1>2, <1>4, <2>1, <2>2, <2>3, PlanMet
<1>6. FailureTold' /\ ReadyPlanned'
    <2>1. UNCHANGED <<results, failed, ready>> /\ ~ready
        BY <1>1
    <2> QED
        BY <2>1 DEF Replaying, FailureTold, ReadyPlanned
<1> QED
    BY <1>3, <1>5, <1>6 DEF Replaying

\* A loop is repeated.
LEMMA ReportRepeat ==
    ASSUME Replaying, Typed, TraceShape, RepeatLoop
    PROVE  Replaying'
<1>1. /\ work # <<>> /\ Head(work).kind = "loop" /\ ~ready /\ UNCHANGED <<trace, selected, seen, results, failed, ready>>
    BY Zenon DEF RepeatLoop, ReadsLoop, NextIsLoop, Now, recording
<1>2. WorkShape /\ Plan
    BY DEF Replaying
<1>3. PassPlaced(Head(work))
    <2>1. PICK again, loop : /\ again = [k \in DOMAIN Head(work).body |-> StepAt(Head(work).body[k], Head(work).passes + 1)]
                             /\ loop = LoopAt(Head(work).first, Head(work).body, Head(work).passes + 1)
        BY Zenon
    <2>2. work' = again \o <<loop>> \o Tail(work)
        BY <2>1, Zenon DEF RepeatLoop
    <2> QED
        BY <1>1, <1>2, <2>1, <2>2, RepeatPlaces
<1>4. PICK w : w = Head(work)
    OBVIOUS
<1>5. w = work[1] /\ w.kind = "loop" /\ PassPlaced(w)
    <2>1. Head(work) = work[1]
        BY <1>1, <1>2, HeadOfWork DEF WorkShape
    <2>2. PassPlaced(w)
        BY <1>3, <1>4 DEF PassPlaced
    <2> QED
        BY <1>1, <1>4, <2>1, <2>2
<1>6. WorkShape'
    <2>1. UNCHANGED <<trace, seen>>
        BY <1>1
    <2> QED
        BY <1>2, <1>5, <2>1, ShapeRepeat
<1>7. Plan'
    <2>1. IsSeq(results) /\ UNCHANGED <<trace, selected, seen, results>> /\ work # <<>>
        BY <1>1 DEF Typed, TypeOK
    <2> QED
        BY <1>2, <1>4, <1>5, <2>1, PlanRepeated
<1>8. FailureTold' /\ ReadyPlanned'
    <2>1. UNCHANGED <<results, failed, ready>> /\ ~ready
        BY <1>1
    <2> QED
        BY <2>1 DEF Replaying, FailureTold, ReadyPlanned
<1> QED
    BY <1>6, <1>7, <1>8 DEF Replaying

\* The report is made.
LEMMA ReportMade ==
    ASSUME Replaying, Typed, Report
    PROVE  Plan' /\ FailureTold' /\ work' = <<>>
<1>1. PICK s : /\ IsSeq(s) /\ results' = results \o s
               /\ \A k \in DOMAIN s : s[k].index = 0 /\ s[k].status = "failed"
               /\ failed' <=> failed \/ DOMAIN s # {}
    BY ReportTail
<1>2. work = <<>> /\ UNCHANGED <<work, trace, selected, seen>> /\ IsSeq(results) /\ IsSeq(trace)
    BY DEF Report, recording, Typed, TypeOK
<1>3. Plan'
    BY <1>1, <1>2, PlanReported DEF Replaying
<1>4. FailureTold'
    <2>1. failed' <=> failed \/ \E k \in DOMAIN s : s[k].status = "failed"
        BY <1>1
    <2> QED
        BY <1>1, <1>2, <2>1, FailureSaid DEF Replaying
<1> QED
    BY <1>2, <1>3, <1>4

\* Every step keeps what replay knows of its report.
LEMMA ReportNext ==
    ASSUME Typed, ReportKnown, [Next]_vars
    PROVE  ReportKnown'
<1>1. Written'
    BY RecordedNext DEF ReportKnown
<1>2. CASE (RecordStep \/ BreakRecording) /\ UNCHANGED replaying
    <2>1. phase = "record" /\ phase' \notin {"replay", "reported"} /\ UNCHANGED <<results, work, seen, ready, failed>>
        BY <1>2, Zenon DEF replaying, RecordStep, BreakRecording, TakeBranch, SkipBranch, LeaveLoop, TakePass, LoopNeverSettles,
                    EnterSurface, Perform, Abandon, Store, Pops
    <2>2. Unstarted' /\ ~failed'
        BY <2>1 DEF ReportKnown, Unstarted
    <2> QED
        BY <1>1, <2>1, <2>2 DEF ReportKnown
<1>3. CASE StartReplay
    <2>1. phase = "stored" /\ phase' = "replay" /\ UNCHANGED <<results, ready, failed>>
        BY <1>3 DEF StartReplay
    <2>2. results = <<>> /\ ~ready /\ ~failed /\ Written
        BY <2>1 DEF ReportKnown, Unstarted
    <2>3. WorkShape' /\ Plan'
        BY <1>3, <2>2, PlanStart
    <2>4. FailureTold' /\ ReadyPlanned'
        BY <2>1, <2>2 DEF FailureTold, ReadyPlanned
    <2> QED
        BY <1>1, <2>1, <2>3, <2>4 DEF ReportKnown, Replaying
<1>4. CASE LeaveOut \/ MeetLoop \/ DropLoop \/ SettleLoop \/ ExhaustLoop \/ RepeatLoop \/ SkipAfterFailure \/ Approach
           \/ RunStep \/ FailStep
    <2>1. phase = "replay" /\ phase' = "replay"
        BY <1>4, Zenon DEF LeaveOut, MeetLoop, DropLoop, SettleLoop, ExhaustLoop, RepeatLoop, SkipAfterFailure, Approach, RunStep,
                    FailStep, Running, AtStep, ReadsLoop, NextIsStep, NextIsLoop, Now
    <2>2. Replaying /\ TraceShape
        BY <2>1 DEF ReportKnown, Written, TraceKnown, TraceShape
    <2>3. Replaying'
        BY <1>4, <2>2, ReportSteps, ReportApproach, ReportLoops, ReportMeet, ReportRepeat
    <2> QED
        BY <1>1, <2>1, <2>3 DEF ReportKnown
<1>5. CASE Report
    <2>1. phase = "replay" /\ phase' = "reported"
        BY <1>5 DEF Report
    <2> QED
        BY <1>1, <1>5, <2>1, ReportMade DEF ReportKnown
<1>6. CASE NoActiveSurface \/ Break
    <2>1. phase' = "error"
        BY <1>6 DEF NoActiveSurface, Break
    <2> QED
        BY <1>1, <2>1 DEF ReportKnown
<1>7. CASE \/ Drift /\ UNCHANGED <<phase, flow, app, active, captures, leaked, recording, replaying>>
           \/ UNCHANGED vars
    <2>1. UNCHANGED <<phase, trace, selected, work, seen, ready, failed, results>>
        BY <1>7 DEF vars, recording, replaying
    <2>2. Plan => Plan'
        <3>1. Slots' = Slots /\ \A k : Slot(k)' = Slot(k)
            BY <2>1 DEF Slots, Slot
        <3>2. \A i, p : Planned(i, p)' <=> Planned(i, p)
            BY <3>1 DEF Planned, StepAt
        <3>3. Plan => Once' /\ InOrder'
            BY <2>1, <3>1 DEF Plan, Once, InOrder, Looped
        <3>4. Plan => ToldKnown'
            BY <2>1 DEF Plan, ToldKnown, Looped
        <3>5. ToSet(work)' \subseteq ToSet(work)
            BY <2>1 DEF ToSet
        <3>6. Plan => SelectedWhole' /\ DueKnown' /\ PassesKnown' /\ AllPlanned'
            BY <2>1, <3>2, <3>5, PlansKept
        <3> QED
            BY <3>3, <3>4, <3>6 DEF Plan
    <2>3. WorkShape => WorkShape'
        BY <2>1 DEF WorkShape, WorkEntry, LoopAlone, StepsInOrder, LoopOf, SameLoop
    <2>4. (FailureTold => FailureTold') /\ (ReadyPlanned => ReadyPlanned') /\ (Unstarted => Unstarted')
        BY <2>1 DEF FailureTold, ReadyPlanned, FirstOfLoop, Unstarted
    <2> QED
        BY <1>1, <2>1, <2>2, <2>3, <2>4 DEF ReportKnown, Replaying
<1> QED
    BY <1>2, <1>3, <1>4, <1>5, <1>6, <1>7 DEF Next, ReplayStep

\* The report of a replay (run_trace_selected) accounts for the trace, for every flow,
\* every application and every selection of steps, whatever fails: a step outside the
\* loops that replay repeats has exactly one entry, in the order of the trace; each pass
\* of a loop is reported whole, no pass before it is left out; and the verdict is a
\* failure exactly when an entry says so.  At each moment the report followed by the
\* worklist is such an account (Plan).
THEOREM EveryStepIsReported == Spec => []EveryStepReported
<1>1. Init => Typed /\ ReportKnown
    <2>1. Init => phase = "record" /\ results = <<>> /\ work = <<>> /\ seen = {} /\ ~ready /\ ~failed
        BY DEF Init, RecordingInit, ReplayInit
    <2> QED
        BY <2>1, RecordedInit, TypedAlways DEF ReportKnown, Recorded, Unstarted
<1>2. Typed /\ ReportKnown /\ [Next]_vars => (Typed /\ ReportKnown)'
    BY ReportNext, TypesNext, ReadyStep DEF Typed
<1>3. Typed /\ ReportKnown => EveryStepReported
    <2>1. CASE phase = "reported"
        BY <2>1, ReportedFrom DEF ReportKnown, Typed, TypeOK
    <2>2. CASE phase # "reported"
        BY <2>2 DEF EveryStepReported
    <2> QED
        BY <2>1, <2>2
<1> QED
    BY <1>1, <1>2, <1>3, PTL DEF Spec

---------------------------------------------------------------------------
(* The worklist of a whole run.                                            *)

\* The steps of a body are in the order of the trace, and of one recorded pass.
LEMMA BodyInOrder ==
    ASSUME IsSeq(trace), NEW first \in DOMAIN trace
    PROVE  /\ \A k, l \in DOMAIN Body(first) : k < l => Body(first)[k] < Body(first)[l]
           /\ \A k \in DOMAIN Body(first) : trace[Body(first)[k]].rep.pass = Longest(first)
<1>1. Len(trace) \in Nat /\ first \in 1..Len(trace) /\ DOMAIN trace = 1..Len(trace)
    BY DEF IsSeq
<1> DEFINE S == Pass(first, Longest(first))
<1>2. S \in SUBSET (first..Len(trace)) /\ \A i \in S : trace[i].rep.pass = Longest(first)
    BY <1>1 DEF Pass
<1>3. IsFiniteSet(S) /\ S \in SUBSET Nat
    <2>1. IsFiniteSet(first..Len(trace))
        BY <1>1, FS_Interval
    <2> QED
        BY <1>1, <1>2, <2>1, FS_Subset
<1>4. Cardinality(S) \in Nat
    BY <1>3, FS_CardinalityType
<1>5. Body(first) = [k \in 1..Cardinality(S) |-> CHOOSE i \in S : Cardinality(Below(S, i)) = k - 1]
    BY DEF Body, Below
<1> HIDE DEF S
<1>6. ASSUME NEW k \in 1..Cardinality(S) PROVE Body(first)[k] \in S /\ Cardinality(Below(S, Body(first)[k])) = k - 1
    <2>1. k - 1 \in 0..(Cardinality(S) - 1)
        BY <1>4
    <2>2. \E i \in S : Cardinality(Below(S, i)) = k - 1
        BY <1>3, <2>1, RanksFill
    <2> QED
        BY <1>5, <2>2
<1>7. DOMAIN Body(first) = 1..Cardinality(S)
    BY <1>5
<1>8. ASSUME NEW k \in DOMAIN Body(first), NEW l \in DOMAIN Body(first), k < l
      PROVE  Body(first)[k] < Body(first)[l]
    <2> DEFINE x == Body(first)[k]
               z == Body(first)[l]
    <2>1. x \in S /\ z \in S /\ Cardinality(Below(S, x)) = k - 1 /\ Cardinality(Below(S, z)) = l - 1
        BY <1>6, <1>7
    <2> HIDE DEF x, z
    <2>2. x \in Nat /\ z \in Nat /\ k \in Nat /\ l \in Nat
        BY <1>3, <1>4, <1>7, <2>1
    <2>3. z < x => Cardinality(Below(S, z)) < Cardinality(Below(S, x))
        BY <1>3, <2>1, RankGrows
    <2>4. x # z
        BY <1>8, <2>1, <2>2
    <2>5. x < z
        BY <1>8, <2>1, <2>2, <2>3, <2>4
    <2> QED
        BY <2>5 DEF x, z
<1> QED
    BY <1>2, <1>6, <1>7, <1>8

\* Step i is the first of its loop.
IsFirst(i) == \A j \in DOMAIN trace : SameLoop(i, j) => i <= j

\* The steps to come are in the order of the trace; behind a loop none of it is to come.
WorkInOrder ==
    \A a, b \in DOMAIN work : a < b /\ work[b].kind = "step" =>
        IF work[a].kind = "step" THEN work[a].index < work[b].index
        ELSE \A i \in DOMAIN trace : SameLoop(work[a].first, i) => i < work[b].index

\* A loop has its first step and its body, and what is to come before it is of that.
LoopsWhole ==
    \A b \in DOMAIN work : work[b].kind = "loop" =>
        /\ work[b].body = Body(work[b].first)
        /\ IsFirst(work[b].first)
        /\ \A a \in DOMAIN work : a < b => work[a].index \in ToSet(work[b].body)

\* Step i is to come.
Comes1(i) == \E a \in DOMAIN work : work[a].kind = "step" /\ work[a].index = i

\* A loop not met yet is to come whole; a step of another stands before its loop.
UnseenToCome == \A i \in DOMAIN trace : FirstOfLoop(i) => Comes1(i)
SeenHasLoop ==
    \A a \in DOMAIN work : work[a].kind = "step" /\ trace[work[a].index].rep.id # 0 /\ ~FirstOfLoop(work[a].index) =>
        \E b \in DOMAIN work : work[b].kind = "loop" /\ SameLoop(work[b].first, work[a].index)

WorkWhole == selected = DOMAIN trace /\ WorkInOrder /\ LoopsWhole /\ UnseenToCome /\ SeenHasLoop

\* An entry leaves the worklist that is not of a loop to be met.
LEMMA WholeTail ==
    ASSUME WorkShape, WorkWhole, work # <<>>, work' = Tail(work), UNCHANGED <<trace, seen, selected>>,
           Head(work).kind = "step" => ~FirstOfLoop(Head(work).index)
    PROVE  WorkWhole'
<1>1. /\ IsSeq(work') /\ Len(work) \in Nat \ {0} /\ DOMAIN work = 1..Len(work)
      /\ DOMAIN work' = 1..(Len(work) - 1) /\ Head(work) = work[1]
      /\ \A k \in DOMAIN work' : work'[k] = work[k + 1]
    BY TailIsSeq DEF WorkShape
<1>2. \A k \in DOMAIN work' : k + 1 \in DOMAIN work
    BY <1>1
<1>3. ASSUME NEW a \in DOMAIN work, a # 1 PROVE a - 1 \in DOMAIN work' /\ work'[a - 1] = work[a]
    <2>1. a - 1 \in DOMAIN work' /\ a - 1 + 1 = a
        BY <1>1, <1>3
    <2> QED
        BY <1>1, <2>1
<1>4. \A i, j : SameLoop(i, j)' <=> SameLoop(i, j)
    BY DEF SameLoop
<1>5. \A i : Body(i)' = Body(i)
    BY DEF Body, Pass, Longest, SameLoop
<1>6. WorkInOrder'
    <2> SUFFICES ASSUME NEW a \in DOMAIN work', NEW b \in DOMAIN work', a < b, work'[b].kind = "step"
                 PROVE  IF work'[a].kind = "step" THEN work'[a].index < work'[b].index
                        ELSE \A i \in DOMAIN trace' : SameLoop(work[a].first, i)' => i < work'[b].index
        BY DEF WorkInOrder
    <2>1. /\ a + 1 \in DOMAIN work /\ b + 1 \in DOMAIN work /\ work'[a] = work[a + 1] /\ work'[b] = work[b + 1] /\ a + 1 < b + 1
        BY <1>1, <1>2
    <2> QED
        BY <2>1 DEF WorkWhole, WorkInOrder, SameLoop
<1>7. LoopsWhole'
    <2> SUFFICES ASSUME NEW b \in DOMAIN work', work'[b].kind = "loop"
                 PROVE  /\ work'[b].body = Body(work[b].first)'
                        /\ IsFirst(work[b].first)'
                        /\ \A a \in DOMAIN work' : a < b => work'[a].index \in ToSet(work'[b].body)
        BY DEF LoopsWhole, ToSet
    <2>1. b + 1 \in DOMAIN work /\ work'[b] = work[b + 1]
        BY <1>1, <1>2
    <2>2. /\ work[b + 1].body = Body(work[b + 1].first)
          /\ IsFirst(work[b + 1].first)
          /\ \A a \in DOMAIN work : a < b + 1 => work[a].index \in ToSet(work[b + 1].body)
        BY <2>1 DEF WorkWhole, LoopsWhole
    <2>3. work'[b].body = Body(work[b].first)'
        <3>1. work'[b].first = work[b + 1].first
            BY <2>1
        <3>2. Body(work[b].first)' = Body(work[b + 1].first)
            BY <3>1 DEF Body, Pass, Longest, SameLoop
        <3> QED
            BY <2>1, <2>2, <3>2
    <2>4. IsFirst(work[b].first)'
        BY <2>1, <2>2 DEF IsFirst, SameLoop
    <2>5. ASSUME NEW a \in DOMAIN work', a < b PROVE work'[a].index \in ToSet(work'[b].body)
        <3>1. a + 1 \in DOMAIN work /\ a + 1 < b + 1 /\ work'[a] = work[a + 1]
            BY <1>1, <1>2, <2>5
        <3> QED
            BY <2>1, <2>2, <3>1
    <2> QED
        BY <2>3, <2>4, <2>5
<1>8. UnseenToCome'
    <2> SUFFICES ASSUME NEW i \in DOMAIN trace, FirstOfLoop(i)
                 PROVE  \E a \in DOMAIN work' : work'[a].kind = "step" /\ work'[a].index = i
        BY DEF UnseenToCome, FirstOfLoop, Comes1
    <2>1. PICK a \in DOMAIN work : work[a].kind = "step" /\ work[a].index = i
        BY DEF WorkWhole, UnseenToCome, Comes1
    <2>2. a # 1
        BY <1>1, <2>1
    <2> QED
        BY <1>3, <2>1, <2>2
<1>9. SeenHasLoop'
    <2> SUFFICES ASSUME NEW a \in DOMAIN work', work'[a].kind = "step", trace[work'[a].index].rep.id # 0,
                        ~FirstOfLoop(work'[a].index)
                 PROVE  \E b \in DOMAIN work' : work'[b].kind = "loop" /\ SameLoop(work'[b].first, work'[a].index)
        BY DEF SeenHasLoop, FirstOfLoop, SameLoop
    <2>1. a + 1 \in DOMAIN work /\ work'[a] = work[a + 1] /\ a + 1 > 1
        BY <1>1, <1>2
    <2>2. PICK b \in DOMAIN work : work[b].kind = "loop" /\ SameLoop(work[b].first, work[a + 1].index)
        BY <2>1 DEF WorkWhole, SeenHasLoop
    <2>3. b # 1
        <3> SUFFICES ASSUME b = 1 PROVE FALSE
            OBVIOUS
        <3>1. LoopOf(work[a + 1]) # LoopOf(work[b])
            BY <1>1, <2>1, <2>2 DEF WorkShape, LoopAlone
        <3> QED
            BY <2>1, <2>2, <3>1 DEF LoopOf, SameLoop
    <2> QED
        BY <1>3, <2>1, <2>2, <2>3
<1> QED
    BY <1>6, <1>7, <1>8, <1>9 DEF WorkWhole

\* A loop that is met.
LEMMA WholeMeet ==
    ASSUME IsSeq(work), WorkWhole, work # <<>>, NEW i, i = Head(work).index, i \in DOMAIN trace, Head(work).kind = "step",
           FirstOfLoop(i), seen' = seen \cup {trace[i].rep.id}, UNCHANGED <<trace, selected>>,
           IsSeq(work'), NEW m, MeetPlaced(i, m)
    PROVE  WorkWhole'
<1>1. Head(work) = work[1] /\ 1 \in DOMAIN work /\ DOMAIN work \subseteq Nat \ {0} /\ DOMAIN work' \subseteq Nat \ {0} /\ m \in Nat
    <2>1. DOMAIN work = 1..Len(work) /\ DOMAIN work' = 1..Len(work') /\ Len(work) \in Nat /\ Len(work') \in Nat
        BY DEF IsSeq
    <2>2. Head(work) = work[1] /\ 1 \in DOMAIN work
        BY HeadOfWork
    <2> QED
        BY <2>1, <2>2 DEF MeetPlaced
<1>2. \A a \in DOMAIN work : work[a].kind = "step"
    BY DEF MeetPlaced
<1>3. ASSUME NEW b \in DOMAIN work', b # 1
      PROVE  b + m \in DOMAIN work /\ work'[b] = work[b + m] /\ ~SameLoop(i, work'[b].index) /\ b > 1 /\ b \in Nat
    <2>1. b + m \in DOMAIN work /\ work'[b] = work[b + m] /\ ~SameLoop(i, work'[b].index)
        BY <1>3 DEF MeetPlaced
    <2> QED
        BY <1>1, <1>3, <2>1
<1>4. ASSUME NEW a \in DOMAIN work, ~SameLoop(i, work[a].index)
      PROVE  a > m + 1 /\ a - m \in DOMAIN work' /\ a - m # 1 /\ work'[a - m] = work[a]
    <2>1. a > m + 1
        BY <1>1, <1>4 DEF MeetPlaced
    <2>2. a - m \in DOMAIN work' /\ a - m # 1
        BY <2>1 DEF MeetPlaced
    <2>3. work'[a - m] = work[(a - m) + m]
        BY <1>3, <2>2
    <2>4. (a - m) + m = a
        BY <1>1
    <2> QED
        BY <2>1, <2>2, <2>3, <2>4
<1>5. ASSUME NEW a \in DOMAIN work, SameLoop(i, work[a].index) PROVE a <= m + 1
    <2> SUFFICES ASSUME ~(a <= m + 1) PROVE FALSE
        OBVIOUS
    <2>1. a - m \in DOMAIN work' /\ a - m # 1 /\ (a - m) + m = a
        BY <1>1 DEF MeetPlaced
    <2>2. work'[a - m] = work[(a - m) + m] /\ ~SameLoop(i, work'[a - m].index)
        BY <1>3, <2>1
    <2> QED
        BY <1>5, <2>1, <2>2
<1>6. ASSUME NEW j \in DOMAIN trace, SameLoop(i, j) PROVE \E a \in DOMAIN work : work[a].index = j /\ a <= m + 1
    <2>1. FirstOfLoop(j)
        BY <1>6 DEF FirstOfLoop, SameLoop
    <2> QED
        BY <1>5, <1>6, <2>1 DEF WorkWhole, UnseenToCome, Comes1
<1>7. \A j, k : SameLoop(j, k)' <=> SameLoop(j, k)
    BY DEF SameLoop
<1>8. IsFirst(i)
    <2> SUFFICES ASSUME NEW j \in DOMAIN trace, SameLoop(i, j) PROVE i <= j
        BY DEF IsFirst
    <2>1. PICK a \in DOMAIN work : work[a].index = j
        BY <1>6
    <2>2. CASE a = 1
        BY <1>1, <2>1, <2>2
    <2>3. CASE a # 1
        BY <1>1, <1>2, <2>1, <2>3 DEF WorkWhole, WorkInOrder
    <2> QED
        BY <2>2, <2>3
<1>9. work'[1] = LoopAt(i, Body(i), 0) /\ work'[1].kind = "loop" /\ work'[1].first = i /\ work'[1].body = Body(i)
    BY DEF MeetPlaced, LoopAt
<1>10. WorkInOrder'
    <2> SUFFICES ASSUME NEW a \in DOMAIN work', NEW b \in DOMAIN work', a < b, work'[b].kind = "step"
                 PROVE  IF work'[a].kind = "step" THEN work'[a].index < work'[b].index
                        ELSE \A j \in DOMAIN trace' : SameLoop(work[a].first, j)' => j < work'[b].index
        BY DEF WorkInOrder
    <2>1. b # 1 /\ b \in Nat /\ a \in Nat
        BY <1>1
    <2>2. b + m \in DOMAIN work /\ work'[b] = work[b + m]
        BY <1>3, <2>1
    <2>3. CASE a = 1
        <3>1. ASSUME NEW j \in DOMAIN trace, SameLoop(i, j) PROVE j < work'[b].index
            <4>1. PICK c \in DOMAIN work : work[c].index = j /\ c <= m + 1
                BY <1>6, <3>1
            <4>2. c < b + m
                BY <1>1, <2>1, <2>3, <4>1
            <4> QED
                BY <1>2, <2>2, <4>1, <4>2 DEF WorkWhole, WorkInOrder
        <3>2. work'[a].kind # "step" /\ work'[a].first = i
            BY <1>9, <2>3
        <3> QED
            BY <3>1, <3>2 DEF SameLoop
    <2>4. CASE a # 1
        <3>1. a + m \in DOMAIN work /\ work'[a] = work[a + m] /\ a + m < b + m
            BY <1>1, <1>3, <2>1, <2>4
        <3> QED
            BY <1>2, <2>2, <3>1 DEF WorkWhole, WorkInOrder
    <2> QED
        BY <2>3, <2>4
<1>11. \A b \in DOMAIN work' : work'[b].kind = "loop" => b = 1
    <2> SUFFICES ASSUME NEW b \in DOMAIN work', work'[b].kind = "loop", b # 1 PROVE FALSE
        OBVIOUS
    <2> QED
        BY <1>2, <1>3
<1>12. LoopsWhole'
    <2>1. Body(i)' = Body(i) /\ IsFirst(i)'
        BY <1>8 DEF Body, Pass, Longest, SameLoop, IsFirst
    <2> SUFFICES ASSUME NEW b \in DOMAIN work', work'[b].kind = "loop"
                 PROVE  /\ work'[b].body = Body(work[b].first)'
                        /\ IsFirst(work[b].first)'
                        /\ \A a \in DOMAIN work' : a < b => work'[a].index \in ToSet(work'[b].body)
        BY DEF LoopsWhole, ToSet
    <2>2. b = 1
        BY <1>11
    <2>3. work'[b].first = i /\ work'[b].body = Body(i)
        BY <1>9, <2>2
    <2>4. Body(work[b].first)' = Body(i)
        <3>1. work'[b].first = i
            BY <2>3
        <3> QED
            BY <3>1 DEF Body, Pass, Longest, SameLoop
    <2>4a. IsFirst(work[b].first)'
        BY <1>8, <2>3 DEF SameLoop, IsFirst
    <2>5. \A a \in DOMAIN work' : ~(a < b)
        BY <1>1, <2>2
    <2> QED
        BY <2>3, <2>4, <2>4a, <2>5
<1>13. UnseenToCome'
    <2> SUFFICES ASSUME NEW j \in DOMAIN trace, FirstOfLoop(j)'
                 PROVE  \E a \in DOMAIN work' : work'[a].kind = "step" /\ work'[a].index = j
        BY DEF UnseenToCome, Comes1
    <2>1. FirstOfLoop(j) /\ ~SameLoop(i, j)
        BY DEF FirstOfLoop, SameLoop
    <2>2. PICK a \in DOMAIN work : work[a].kind = "step" /\ work[a].index = j
        BY <2>1 DEF WorkWhole, UnseenToCome, Comes1
    <2> QED
        BY <1>4, <2>1, <2>2
<1>14. SeenHasLoop'
    <2> SUFFICES ASSUME NEW a \in DOMAIN work', work'[a].kind = "step", trace[work'[a].index].rep.id # 0,
                        ~(trace[work'[a].index].rep.id # 0 /\ trace[work'[a].index].rep.id \notin seen')
                 PROVE  FALSE
        BY DEF SeenHasLoop, FirstOfLoop, SameLoop
    <2>1. a # 1
        BY <1>9
    <2>2. a + m \in DOMAIN work /\ work'[a] = work[a + m] /\ ~SameLoop(i, work'[a].index)
        BY <1>3, <2>1
    <2>3. ~FirstOfLoop(work[a + m].index) /\ trace[work[a + m].index].rep.id # 0
        BY <2>2 DEF FirstOfLoop, SameLoop
    <2> QED
        BY <1>2, <2>2, <2>3 DEF WorkWhole, SeenHasLoop
<1> QED
    BY <1>10, <1>12, <1>13, <1>14 DEF WorkWhole

\* A loop makes way for another pass of its body.
LEMMA WholeRepeat ==
    ASSUME IsSeq(trace), WorkShape, WorkWhole, NEW w, w = work[1], 1 \in DOMAIN work, w.kind = "loop", PassPlaced(w),
           UNCHANGED <<trace, seen, selected>>
    PROVE  WorkWhole'
<1> DEFINE n == Len(w.body)
<1>1. /\ n \in Nat /\ Len(work) \in Nat \ {0} /\ DOMAIN work = 1..Len(work) /\ DOMAIN w.body = 1..n
      /\ DOMAIN work' = 1..(n + Len(work))
      /\ \A k \in 1..n : work'[k] = StepAt(w.body[k], w.passes + 1)
      /\ work'[n + 1] = LoopAt(w.first, w.body, w.passes + 1)
      /\ \A k \in 2..Len(work) : work'[k + n] = work[k]
    BY DEF PassPlaced
<1> HIDE DEF n
<1>2. /\ \A k \in 1..n : work'[k].kind = "step" /\ work'[k].index = w.body[k]
      /\ work'[n + 1].kind = "loop" /\ work'[n + 1].first = w.first /\ work'[n + 1].body = w.body
      /\ n + 1 \in DOMAIN work'
    <2>1. \A i, p : StepAt(i, p).kind = "step" /\ StepAt(i, p).index = i
        BY DEF StepAt
    <2>2. LoopAt(w.first, w.body, w.passes + 1).kind = "loop" /\ LoopAt(w.first, w.body, w.passes + 1).first = w.first
          /\ LoopAt(w.first, w.body, w.passes + 1).body = w.body
        BY DEF LoopAt
    <2>3. n + 1 \in DOMAIN work'
        BY <1>1
    <2>4. \A k \in 1..n : work'[k].kind = "step" /\ work'[k].index = w.body[k]
        BY <1>1, <2>1
    <2>5. work'[n + 1].kind = "loop" /\ work'[n + 1].first = w.first /\ work'[n + 1].body = w.body
        BY <1>1, <2>2
    <2> QED
        BY <2>3, <2>4, <2>5
<1>3. ASSUME NEW b \in DOMAIN work', b \notin 1..n, b # n + 1
      PROVE  b > n + 1 /\ b - n \in DOMAIN work /\ b - n > 1 /\ work'[b] = work[b - n] /\ work'[b].kind = "step"
    <2>1. b > n + 1 /\ b - n \in 2..Len(work) /\ (b - n) + n = b
        BY <1>1, <1>3
    <2>2. work'[b] = work[b - n]
        <3>1. work'[(b - n) + n] = work[b - n]
            BY <1>1, <2>1
        <3> QED
            BY <2>1, <3>1
    <2>3. b - n \in DOMAIN work /\ b - n # 1 /\ b - n > 1
        BY <1>1, <2>1
    <2>4. work[b - n].kind = "step"
        BY <2>3 DEF WorkShape, LoopAlone
    <2> QED
        BY <2>1, <2>2, <2>3, <2>4
<1>4. ASSUME NEW a \in DOMAIN work, a # 1 PROVE a + n \in DOMAIN work' /\ work'[a + n] = work[a]
    BY <1>1, <1>4
<1>5. /\ w.first \in DOMAIN trace /\ w.body = Body(w.first) /\ IsFirst(w.first)
      /\ \A k \in 1..n : w.body[k] \in DOMAIN trace /\ SameLoop(w.first, w.body[k])
    BY <1>1 DEF WorkShape, WorkEntry, WorkWhole, LoopsWhole
<1>6. \A k, l \in 1..n : k < l => w.body[k] < w.body[l]
    BY <1>1, <1>5, BodyInOrder
<1>7. WorkInOrder'
    <2> SUFFICES ASSUME NEW a \in DOMAIN work', NEW b \in DOMAIN work', a < b, work'[b].kind = "step"
                 PROVE  IF work'[a].kind = "step" THEN work'[a].index < work'[b].index
                        ELSE \A j \in DOMAIN trace' : SameLoop(work[a].first, j)' => j < work'[b].index
        BY DEF WorkInOrder
    <2>1. b # n + 1 /\ a \in Nat /\ b \in Nat
        BY <1>1, <1>2
    <2>2. CASE b \in 1..n
        <3>1. a \in 1..n
            BY <1>1, <2>1, <2>2
        <3> QED
            BY <1>2, <1>6, <2>2, <3>1
    <2>3. CASE b \notin 1..n
        <3>1. b - n \in DOMAIN work /\ b - n > 1 /\ work'[b] = work[b - n] /\ b > n + 1
            BY <1>3, <2>1, <2>3
        <3>2. \A j \in DOMAIN trace : SameLoop(w.first, j) => j < work'[b].index
            BY <3>1 DEF WorkWhole, WorkInOrder
        <3>3. CASE a \in 1..n
            BY <1>2, <1>5, <3>2, <3>3
        <3>4. CASE a = n + 1
            <4>1. work'[a].kind # "step" /\ work'[a].first = w.first
                BY <1>2, <3>4
            <4> QED
                BY <3>2, <4>1 DEF SameLoop
        <3>5. CASE a \notin 1..n /\ a # n + 1
            <4>1. a - n \in DOMAIN work /\ work'[a] = work[a - n] /\ work'[a].kind = "step"
                BY <1>3, <3>5
            <4>2. a - n < b - n
                BY <1>1, <2>1
            <4> QED
                BY <3>1, <4>1, <4>2 DEF WorkWhole, WorkInOrder
        <3> QED
            BY <3>3, <3>4, <3>5
    <2> QED
        BY <2>2, <2>3
<1>8. LoopsWhole'
    <2> SUFFICES ASSUME NEW b \in DOMAIN work', work'[b].kind = "loop"
                 PROVE  /\ work'[b].body = Body(work[b].first)'
                        /\ IsFirst(work[b].first)'
                        /\ \A a \in DOMAIN work' : a < b => work'[a].index \in ToSet(work'[b].body)
        BY DEF LoopsWhole, ToSet
    <2>1. b = n + 1
        BY <1>2, <1>3
    <2>2. work'[b].first = w.first /\ work'[b].body = w.body
        BY <1>2, <2>1
    <2>3. Body(work[b].first)' = Body(w.first)
        <3>1. work'[b].first = w.first
            BY <2>2
        <3> QED
            BY <3>1 DEF Body, Pass, Longest, SameLoop
    <2>4. IsFirst(work[b].first)'
        BY <1>5, <2>2 DEF IsFirst, SameLoop
    <2>5. ASSUME NEW a \in DOMAIN work', a < b PROVE work'[a].index \in ToSet(work'[b].body)
        <3>1. a \in 1..n
            BY <1>1, <2>1, <2>5
        <3>2. work'[a].index = w.body[a] /\ a \in DOMAIN w.body
            BY <1>1, <1>2, <3>1
        <3> QED
            BY <2>2, <3>2 DEF ToSet
    <2> QED
        BY <1>5, <2>2, <2>3, <2>4, <2>5
<1>9. UnseenToCome'
    <2> SUFFICES ASSUME NEW j \in DOMAIN trace, FirstOfLoop(j)
                 PROVE  \E a \in DOMAIN work' : work'[a].kind = "step" /\ work'[a].index = j
        BY DEF UnseenToCome, FirstOfLoop, Comes1
    <2>1. PICK a \in DOMAIN work : work[a].kind = "step" /\ work[a].index = j
        BY DEF WorkWhole, UnseenToCome, Comes1
    <2>2. a # 1
        BY <2>1
    <2> QED
        BY <1>4, <2>1, <2>2
<1>10. SeenHasLoop'
    <2> SUFFICES ASSUME NEW a \in DOMAIN work', work'[a].kind = "step", trace[work'[a].index].rep.id # 0,
                        ~FirstOfLoop(work'[a].index)
                 PROVE  \E b \in DOMAIN work' : work'[b].kind = "loop" /\ SameLoop(work'[b].first, work'[a].index)
        BY DEF SeenHasLoop, FirstOfLoop, SameLoop
    <2>1. CASE a \in 1..n
        <3>1. SameLoop(w.first, work'[a].index)
            BY <1>2, <1>5, <2>1
        <3>2. SameLoop(work'[n + 1].first, work'[a].index)
            BY <1>2, <3>1
        <3> QED
            BY <1>2, <3>2
    <2>2. CASE a \notin 1..n
        <3>1. a # n + 1
            BY <1>2
        <3>2. a - n \in DOMAIN work /\ work'[a] = work[a - n] /\ a - n > 1 /\ a - n \in Nat
            BY <1>1, <1>3, <2>2, <3>1
        <3>3. PICK b \in DOMAIN work : work[b].kind = "loop" /\ SameLoop(work[b].first, work[a - n].index)
            BY <3>2 DEF WorkWhole, SeenHasLoop
        <3>4. b = 1
            BY <3>3 DEF WorkShape, LoopAlone
        <3>5. LoopOf(work[a - n]) # LoopOf(work[b])
            BY <3>2, <3>3, <3>4 DEF WorkShape, LoopAlone
        <3>6. work[a - n].kind = "step" /\ work[b].kind # "step"
            BY <3>2, <3>3
        <3> QED
            BY <3>3, <3>5, <3>6 DEF LoopOf, SameLoop
    <2> QED
        BY <2>1, <2>2
<1> QED
    BY <1>7, <1>8, <1>9, <1>10 DEF WorkWhole

\* Replay of the whole trace starts.
LEMMA WholeStart ==
    ASSUME IsSeq(trace), UNCHANGED trace, selected' = DOMAIN trace, work' = [i \in DOMAIN trace |-> StepAt(i, 1)],
           seen' = {}
    PROVE  WorkWhole'
<1>1. DOMAIN work' = DOMAIN trace /\ \A a \in DOMAIN work' : work'[a].kind = "step" /\ work'[a].index = a
    BY DEF StepAt
<1>2. DOMAIN trace \subseteq Int
    BY DEF IsSeq
<1>3. WorkInOrder' /\ LoopsWhole'
    BY <1>1, <1>2 DEF WorkInOrder, LoopsWhole
<1>4. UnseenToCome'
    BY <1>1 DEF UnseenToCome, Comes1
<1>5. SeenHasLoop'
    BY <1>1 DEF SeenHasLoop, FirstOfLoop
<1> QED
    BY <1>3, <1>4, <1>5 DEF WorkWhole

\* A worklist that is left alone.
LEMMA WholeSame ==
    ASSUME WorkWhole, UNCHANGED <<work, trace, seen, selected>>
    PROVE  WorkWhole'
<1>1. \A i : Body(i)' = Body(i)
    BY DEF Body, Pass, Longest, SameLoop
<1> QED
    BY <1>1 DEF WorkWhole, WorkInOrder, LoopsWhole, UnseenToCome, SeenHasLoop, SameLoop, FirstOfLoop, IsFirst, Comes1, ToSet

\* The worklist of a whole run.
Whole == phase = "replay" /\ ~partial => WorkWhole

\* Every step keeps what is known of the worklist of a whole run.
LEMMA WholeNext ==
    ASSUME Typed, ReportKnown, Whole, [Next]_vars
    PROVE  Whole'
<1> SUFFICES ASSUME phase' = "replay", ~partial'
             PROVE  WorkWhole'
    BY DEF Whole
<1>1. TypeOK /\ Written
    BY DEF Typed, ReportKnown
<1>2. IsSeq(trace) /\ IsSeq(work) /\ TraceShape
    BY <1>1 DEF TypeOK, Written, TraceShape
<1> USE <1>1, <1>2
<1>3. CASE StartReplay
    <2>1. selected' = DOMAIN trace /\ UNCHANGED <<trace, seen>> /\ work' = [i \in DOMAIN trace |-> StepAt(i, 1)] /\ seen = {}
        BY <1>3 DEF StartReplay, recording, ReportKnown, Unstarted
    <2> QED
        BY <2>1, WholeStart
<1>4. CASE phase = "replay" /\ ~partial
    <2>1. WorkShape /\ WorkWhole /\ ReadyPlanned
        BY <1>4 DEF ReportKnown, Replaying, Whole
    <2> USE <2>1
    <2>2. CASE LeaveOut
        <3>1. work # <<>> /\ Head(work).kind = "step" /\ Head(work).index \notin DOMAIN trace
            BY <2>2 DEF LeaveOut, NextIsStep, Now, WorkWhole
        <3>2. WorkEntry(Head(work))
            BY <3>1, HeadOfWork DEF WorkShape
        <3> QED
            BY <3>1, <3>2 DEF WorkEntry
    <2>3. CASE MeetLoop
        <3>1. work # <<>> /\ Head(work).kind = "step" /\ FirstOfLoop(Head(work).index)
              /\ seen' = seen \cup {trace[Head(work).index].rep.id} /\ UNCHANGED <<trace, selected>>
              /\ work' = <<LoopAt(Head(work).index, Body(Head(work).index), 0)>> \o Beyond(Head(work).index, Tail(work))
            BY <2>3 DEF MeetLoop, NextIsStep, Now, recording
        <3>2. WorkEntry(Head(work))
            BY <3>1, HeadOfWork DEF WorkShape
        <3>3. Head(work).index \in DOMAIN trace
            BY <3>1, <3>2 DEF WorkEntry
        <3>4. WorkShape' /\ \E m \in Nat : MeetPlaced(Head(work).index, m)
            BY <3>1, ShapeMeet
        <3>5. PICK m \in Nat : MeetPlaced(Head(work).index, m)
            BY <3>4
        <3> QED
            BY <3>1, <3>3, <3>4, <3>5, WholeMeet DEF WorkShape
    <2>4. CASE DropLoop \/ SettleLoop \/ ExhaustLoop
        <3>1. work # <<>> /\ Head(work).kind = "loop" /\ UNCHANGED <<trace, seen, selected>> /\ work' = Tail(work)
            BY <2>4 DEF DropLoop, SettleLoop, ExhaustLoop, ReadsLoop, NextIsLoop, Now, recording, Pop
        <3> QED
            BY <3>1, WholeTail
    <2>5. CASE RepeatLoop
        <3>1. /\ work # <<>> /\ Head(work).kind = "loop" /\ UNCHANGED <<trace, seen, selected>>
              /\ work' = [k \in DOMAIN Head(work).body |-> StepAt(Head(work).body[k], Head(work).passes + 1)]
                        \o <<LoopAt(Head(work).first, Head(work).body, Head(work).passes + 1)>> \o Tail(work)
            BY <2>5, Zenon DEF RepeatLoop, ReadsLoop, NextIsLoop, Now, recording
        <3>2. PassPlaced(Head(work))
            BY <3>1, RepeatPlaces
        <3>3. Head(work) = work[1] /\ 1 \in DOMAIN work
            BY <3>1, HeadOfWork
        <3> QED
            BY <3>1, <3>2, <3>3, WholeRepeat
    <2>6. CASE SkipAfterFailure \/ Approach
        <3>1. work # <<>> /\ ~FirstOfLoop(Head(work).index) /\ UNCHANGED <<trace, seen, selected>>
              /\ (work' = Tail(work) \/ UNCHANGED work)
            BY <2>6, Zenon DEF SkipAfterFailure, Approach, AtStep, NextIsStep, Now, recording, Pop
        <3> QED
            BY <3>1, WholeTail, WholeSame
    <2>7. CASE RunStep \/ FailStep
        <3>1. ready /\ work' = Tail(work) /\ UNCHANGED <<trace, seen, selected>>
            BY <2>7 DEF RunStep, FailStep, Running, Pop, recording
        <3> QED
            BY <3>1, WholeTail DEF ReadyPlanned
    <2>8. CASE UNCHANGED <<work, trace, seen, selected>>
        BY <2>8, WholeSame
    <2>9. CASE (RecordStep \/ BreakRecording) /\ UNCHANGED replaying
        BY <1>4, <2>9 DEF RecordStep, BreakRecording, TakeBranch, SkipBranch, LeaveLoop, TakePass, LoopNeverSettles,
                          EnterSurface, Perform, Abandon, Store, Pops
    <2>10. CASE Report \/ NoActiveSurface \/ Break
        BY <2>10 DEF Report, NoActiveSurface, Break
    <2>11. CASE StartReplay
        BY <1>4, <2>11 DEF StartReplay
    <2>12. CASE Drift /\ UNCHANGED <<phase, flow, app, active, captures, leaked, recording, replaying>>
        BY <2>8, <2>12 DEF recording, replaying
    <2>13. CASE UNCHANGED vars
        BY <2>8, <2>13 DEF vars, recording, replaying
    <2> QED
        BY <2>2, <2>3, <2>4, <2>5, <2>6, <2>7, <2>9, <2>10, <2>11, <2>12, <2>13 DEF Next, ReplayStep
<1>5. CASE ~StartReplay /\ ~(phase = "replay" /\ ~partial)
    <2>1. phase' # "replay" \/ (phase = "replay" /\ UNCHANGED partial)
        <3>1. CASE RecordStep /\ UNCHANGED replaying
            BY <3>1, Zenon DEF RecordStep, TakeBranch, SkipBranch, LeaveLoop, TakePass, LoopNeverSettles,
                          EnterSurface, Perform, Abandon, Store, Pops
        <3>2. CASE BreakRecording /\ UNCHANGED replaying
            BY <3>2 DEF BreakRecording
        <3>3. CASE ReplayStep
            BY <1>5, <3>3, Zenon DEF ReplayStep, LeaveOut, MeetLoop, DropLoop, SettleLoop, ExhaustLoop, RepeatLoop, NoActiveSurface,
                SkipAfterFailure, Approach, RunStep, FailStep, Report, AtStep, NextIsStep, NextIsLoop, ReadsLoop, Running, Now, replaying
        <3>4. CASE Break
            BY <3>4 DEF Break
        <3>5. CASE Drift /\ UNCHANGED <<phase, flow, app, active, captures, leaked, recording, replaying>>
            BY <3>5 DEF Drift, replaying
        <3>6. CASE UNCHANGED vars
            BY <3>6 DEF vars, replaying
        <3> QED
            BY <3>1, <3>2, <3>3, <3>4, <3>5, <3>6 DEF Next
    <2> QED
        BY <1>5, <2>1
<1> QED
    BY <1>3, <1>4, <1>5

---------------------------------------------------------------------------
(* Reading a flow.                                                         *)

\* Place k holds a step, or a block about to be entered.
Fresh(f, k) == k \in Places(f) /\ At(f, k).back = 0

\* The flows replay can follow: every block has a step, a loop is in no when: block
\* and is not what an in: block starts with, and no two steps have the same name.
Plain(f) ==
    /\ \A k \in Places(f) :
          LET e == At(f, k)
          IN  /\ e.node.kind # "step" => e.node.steps # <<>>
              /\ e.node.kind = "repeat" => e.under = <<>>
              /\ e.node.kind = "in" => e.node.steps[1].kind # "repeat"
    /\ \A x, y \in StepPlaces(f) : At(f, x).node.name = At(f, y).node.name => x = y

\* The lines that take the place of the first of them, e.
Ins(e, k) == IF e.node.kind = "step" \/ e.back # 0 THEN <<>> ELSE Entered(e, k)
UnderIn(e, k) == IF e.node.kind = "when" THEN Append(e.under, k) ELSE e.under
LoopIn(e, k) == IF e.node.kind = "repeat" THEN k ELSE e.loop
SurfaceIn(e) == IF e.node.kind = "in" THEN e.node.surface ELSE e.surface

\* The recursive function Reading defines exists.
LEMMA ReadingExists ==
    ASSUME NEW f
    PROVE  \E g : g = [k \in 1..Limit |->
                IF k = 1 THEN [i \in DOMAIN f.steps |-> Line(f.steps[i], <<>>, 0, Main)]
                ELSE Onwards(g[k - 1], k - 1)]
<1> DEFINE start == [i \in DOMAIN f.steps |-> Line(f.steps[i], <<>>, 0, Main)]
           Has(m) == \E g : g = [k \in 1..m |-> IF k = 1 THEN start ELSE Onwards(g[k - 1], k - 1)]
           T == {m \in Nat : ~Has(m)}
<1>0. SUFFICES Has(Limit)
    OBVIOUS
<1> SUFFICES ASSUME T # {} PROVE FALSE
    BY LimitAssumption
<1> HIDE DEF start
<1>1. PICK m \in T : \A k \in T : m <= k
    BY Least
<1>2. ASSUME NEW l \in Nat, l <= 1 PROVE Has(l)
    <2> DEFINE g == [k \in 1..l |-> start]
    <2>1. g = [k \in 1..l |-> IF k = 1 THEN start ELSE Onwards(g[k - 1], k - 1)]
        BY <1>2
    <2> QED
        BY <2>1
<1>3. m \in Nat /\ m > 1 /\ m - 1 \in Nat /\ ~(m <= m - 1)
    <2>1. m \in Nat /\ ~Has(m)
        BY <1>1
    <2>2. ~(m <= 1)
        BY <1>2, <2>1
    <2> HIDE DEF Has
    <2> QED
        BY <2>1, <2>2
<1>4. Has(m - 1)
    BY <1>1, <1>3
<1>5. PICK g : g = [k \in 1..(m - 1) |-> IF k = 1 THEN start ELSE Onwards(g[k - 1], k - 1)]
    BY <1>4
<1> DEFINE h == [k \in 1..m |-> IF k = m THEN Onwards(g[m - 1], m - 1) ELSE g[k]]
           q == [k \in 1..m |-> IF k = 1 THEN start ELSE Onwards(h[k - 1], k - 1)]
<1>6. \A k \in 1..m : h[k] = q[k]
    <2> TAKE k \in 1..m
    <2>1. CASE k = m
        <3>1. h[m] = Onwards(g[m - 1], m - 1) /\ h[m - 1] = g[m - 1]
            BY <1>3
        <3>2. q[m] = Onwards(h[m - 1], m - 1)
            BY <1>3
        <3> QED
            BY <2>1, <3>1, <3>2
    <2>2. CASE k # m
        <3>1. k \in 1..(m - 1) /\ (k # 1 => k - 1 \in 1..m /\ k - 1 # m)
            BY <1>3, <2>2
        <3>2. h[k] = g[k] /\ (k # 1 => h[k - 1] = g[k - 1])
            BY <2>2, <3>1
        <3>3. g[k] = IF k = 1 THEN start ELSE Onwards(g[k - 1], k - 1)
            BY <1>5, <3>1
        <3> QED
            BY <3>2, <3>3
    <2> QED
        BY <2>1, <2>2
<1>7. h = q
    BY <1>6
<1>8. Has(m)
    BY <1>7
<1> QED
    BY <1>1, <1>8

\* Reading starts with the steps of the flow, goes on place by place, and ends.
LEMMA ReadingSteps ==
    ASSUME NEW f \in Flows
    PROVE  /\ Reading[f][1] = [i \in DOMAIN f.steps |-> Line(f.steps[i], <<>>, 0, Main)]
           /\ \A k \in 1..Limit : k # Limit => Reading[f][k + 1] = Onwards(Reading[f][k], k)
           /\ Reading[f][Limit] = <<>>
           /\ Limit \in Nat \ {0}
<1> DEFINE g == CHOOSE g : g = [k \in 1..Limit |->
                IF k = 1 THEN [i \in DOMAIN f.steps |-> Line(f.steps[i], <<>>, 0, Main)]
                ELSE Onwards(g[k - 1], k - 1)]
<1>1. g = [k \in 1..Limit |->
                IF k = 1 THEN [i \in DOMAIN f.steps |-> Line(f.steps[i], <<>>, 0, Main)]
                ELSE Onwards(g[k - 1], k - 1)]
    BY ReadingExists, Zenon
<1>2. Reading[f] = g
    BY DEF Reading
<1> HIDE DEF g
<1>3. Limit \in Nat \ {0} /\ Reading[f][Limit] = <<>>
    BY LimitAssumption
<1>4. g[1] = [i \in DOMAIN f.steps |-> Line(f.steps[i], <<>>, 0, Main)]
    <2>1. 1 \in 1..Limit
        BY <1>3
    <2> QED
        BY <1>1, <2>1, Zenon
<1>5. ASSUME NEW k \in 1..Limit, k # Limit PROVE g[k + 1] = Onwards(g[k], k)
    <2>1. k + 1 \in 1..Limit /\ k + 1 # 1 /\ (k + 1) - 1 = k
        BY <1>3, <1>5
    <2> QED
        BY <1>1, <2>1
<1> QED
    BY <1>2, <1>3, <1>4, <1>5

\* Sequences with the same entries are equal.
LEMMA SeqsEqual ==
    ASSUME NEW s, NEW t, IsSeq(s), IsSeq(t), DOMAIN s = DOMAIN t, \A m \in DOMAIN s : s[m] = t[m]
    PROVE  s = t
<1>1. s = [m \in DOMAIN s |-> s[m]] /\ t = [m \in DOMAIN t |-> t[m]]
    BY DEF IsSeq
<1> QED
    BY <1>1, Zenon

\* A place behind the first a of a + b - 1 places.
LEMMA Shifted ==
    ASSUME NEW a \in Nat, NEW b \in Nat, NEW m \in 1..(a + b - 1), ~(m <= a)
    PROVE  m - a + 1 \in 1..b /\ 1 < m - a + 1 /\ m > a
OBVIOUS

\* An interval from 1 tells its length.
LEMMA SameRange ==
    ASSUME NEW a \in Nat, NEW b \in Nat, 1..a = 1..b
    PROVE  a = b
<1>1. a \in 1..a \/ a = 0
    OBVIOUS
<1>2. b \in 1..b \/ b = 0
    OBVIOUS
<1> QED
    BY <1>1, <1>2

\* What a line is.
IsLine(e) == DOMAIN e = {"node", "under", "loop", "surface", "back"} /\ e = [x \in DOMAIN e |-> e[x]]

\* What Line makes.
LEMMA LineIs ==
    ASSUME NEW n, NEW under, NEW loop, NEW surface
    PROVE  /\ IsLine(Line(n, under, loop, surface))
           /\ Line(n, under, loop, surface).node = n /\ Line(n, under, loop, surface).under = under
           /\ Line(n, under, loop, surface).loop = loop /\ Line(n, under, loop, surface).surface = surface
           /\ Line(n, under, loop, surface).back = 0
BY DEF Line, IsLine

\* The line of a loop that comes back.
LEMMA BackIs ==
    ASSUME NEW e, IsLine(e), NEW k
    PROVE  LET b == [e EXCEPT !.back = k]
           IN  IsLine(b) /\ b.node = e.node /\ b.under = e.under /\ b.loop = e.loop /\ b.surface = e.surface /\ b.back = k
BY DEF IsLine

\* The steps of a block take its place, and a loop comes back behind them.
LEMMA EnteredLines ==
    ASSUME NEW e, NEW k, e.node \in Nodes, e.node.kind # "step"
    PROVE  LET n == Len(e.node.steps)
               ins == Entered(e, k)
           IN  /\ n \in Nat /\ IsSeq(ins) /\ Len(ins) = IF e.node.kind = "repeat" THEN n + 1 ELSE n
               /\ DOMAIN e.node.steps = 1..n /\ DOMAIN ins = 1..Len(ins)
               /\ \A m \in 1..n :
                     /\ e.node.steps[m] \in Nodes
                     /\ ins[m] = Line(e.node.steps[m], UnderIn(e, k), LoopIn(e, k), SurfaceIn(e))
               /\ e.node.kind = "repeat" => ins[n + 1] = [e EXCEPT !.back = k]
<1> DEFINE n == Len(e.node.steps)
           of(m) == Line(e.node.steps[m], UnderIn(e, k), LoopIn(e, k), SurfaceIn(e))
           steps == [m \in 1..n |-> of(m)]
           b == [e EXCEPT !.back = k]
<1>1. e.node.steps \in Seq(Nodes)
    BY NodesAssumption
<1>2. n \in Nat /\ DOMAIN e.node.steps = 1..n /\ \A m \in 1..n : e.node.steps[m] \in Nodes
    BY <1>1
<1>3. Entered(e, k) = IF e.node.kind = "repeat" THEN Append(steps, b) ELSE steps
    BY <1>2 DEF Entered, UnderIn, LoopIn, SurfaceIn
<1>4. steps = [m \in 1..n |-> steps[m]] /\ \A m \in 1..n : steps[m] = of(m)
    OBVIOUS
<1> HIDE DEF steps, of, b, n
<1>5. IsSeq(steps) /\ Len(steps) = n /\ DOMAIN steps = 1..n
    BY <1>2, <1>4, FunIsSeq
<1>6. /\ IsSeq(Append(steps, b)) /\ DOMAIN Append(steps, b) = 1..(n + 1)
      /\ \A m \in 1..(n + 1) : Append(steps, b)[m] = IF m = n + 1 THEN b ELSE steps[m]
    BY <1>5, AppendIsSeq
<1>7. CASE e.node.kind = "repeat"
    <2> DEFINE ins == Append(steps, b)
    <2>1. Entered(e, k) = ins
        BY <1>3, <1>7
    <2> HIDE DEF ins
    <2>2. IsSeq(ins) /\ DOMAIN ins = 1..(n + 1) /\ \A m \in 1..(n + 1) : ins[m] = IF m = n + 1 THEN b ELSE steps[m]
        BY <1>6 DEF ins
    <2>3. Len(ins) \in Nat /\ DOMAIN ins = 1..Len(ins)
        BY <2>2 DEF IsSeq
    <2>4. Len(ins) = n + 1
        BY <1>2, <2>2, <2>3
    <2>5. ins[n + 1] = b /\ \A m \in 1..n : ins[m] = of(m)
        <3>1. n + 1 \in 1..(n + 1) /\ \A m \in 1..n : m \in 1..(n + 1) /\ m # n + 1
            BY <1>2
        <3> QED
            BY <1>4, <2>2, <3>1, Zenon
    <2> QED
        BY <1>2, <1>7, <2>1, <2>2, <2>3, <2>4, <2>5, Zenon DEF b, of, n
<1>8. CASE e.node.kind # "repeat"
    <2>1. Entered(e, k) = steps
        BY <1>3, <1>8
    <2> QED
        BY <1>2, <1>4, <1>5, <1>8, <2>1, Zenon DEF of, n
<1> QED
    BY <1>7, <1>8

\* A block that is no loop makes way for its own steps and nothing more.
LEMMA EnteredBlock ==
    ASSUME NEW e, NEW k, e.node \in Nodes, e.node.kind # "step", e.node.kind # "repeat",
           NEW node, node = e.node, NEW d, d = Entered(e, k)
    PROVE  /\ Len(node.steps) \in Nat /\ IsSeq(d) /\ Len(d) = Len(node.steps) /\ DOMAIN d = 1..Len(node.steps)
           /\ \A m \in DOMAIN d : d[m] = Line(node.steps[m], UnderIn(e, k), LoopIn(e, k), SurfaceIn(e))
<1>1. /\ Len(node.steps) \in Nat /\ IsSeq(d) /\ Len(d) = Len(node.steps)
      /\ DOMAIN node.steps = 1..Len(node.steps) /\ DOMAIN d = 1..Len(d)
    BY EnteredLines
<1>2. \A m \in 1..Len(node.steps) : d[m] = Line(node.steps[m], UnderIn(e, k), LoopIn(e, k), SurfaceIn(e))
    BY EnteredLines, Zenon
<1> QED
    BY <1>1, <1>2

\* One line further.
LEMMA OnwardsLines ==
    ASSUME NEW f \in Flows, NEW k \in 1..Limit, k # Limit, IsSeq(Reading[f][k]), Reading[f][k] # <<>>,
           At(f, k).node \in Nodes
    PROVE  LET L == Reading[f][k]
               M == Reading[f][k + 1]
               ins == Ins(At(f, k), k)
           IN  /\ k + 1 \in 1..Limit
               /\ IsSeq(M) /\ IsSeq(ins) /\ Len(ins) \in Nat /\ DOMAIN ins = 1..Len(ins)
               /\ Len(L) \in Nat \ {0} /\ DOMAIN L = 1..Len(L) /\ At(f, k) = L[1]
               /\ Len(M) = Len(ins) + Len(L) - 1 /\ DOMAIN M = 1..Len(M)
               /\ \A m \in 1..Len(M) : M[m] = IF m <= Len(ins) THEN ins[m] ELSE L[m - Len(ins) + 1]
               /\ M = ins \o Tail(L)
<1> DEFINE L == Reading[f][k]
           M == Reading[f][k + 1]
           ins == Ins(At(f, k), k)
           rest == Tail(L)
<1>1. M = Onwards(L, k) /\ k + 1 \in 1..Limit
    <2>1. M = Onwards(L, k) /\ Limit \in Nat
        BY ReadingSteps
    <2> HIDE DEF M, L
    <2> QED
        BY <2>1
<1>2. IsSeq(ins)
    BY EnteredLines, ShortIsSeq DEF Ins
<1>3. /\ IsSeq(rest) /\ Len(L) \in Nat \ {0} /\ DOMAIN L = 1..Len(L)
      /\ DOMAIN rest = 1..(Len(L) - 1) /\ Head(L) = L[1]
      /\ \A m \in DOMAIN rest : rest[m] = L[m + 1]
    BY TailIsSeq
<1>4. M = ins \o rest
    <2>1. At(f, k) = Head(L)
        BY DEF At
    <2>2. CASE Head(L).node.kind = "step" \/ Head(L).back # 0
        <3>1. M = rest /\ ins = <<>>
            BY <1>1, <2>1, <2>2 DEF Onwards, Ins
        <3>2. <<>> \o rest = rest
            BY <1>3 DEF IsSeq
        <3> QED
            BY <3>1, <3>2
    <2>3. CASE ~(Head(L).node.kind = "step" \/ Head(L).back # 0)
        <3>1. M = Entered(Head(L), k) \o Tail(L) /\ ins = Entered(Head(L), k)
            BY <1>1, <2>1, <2>3, Zenon DEF Onwards, Ins
        <3> QED
            BY <3>1
    <2> QED
        BY <2>2, <2>3
<1>5. At(f, k) = L[1]
    BY <1>3 DEF At
<1> HIDE DEF ins, rest, L, M
<1>6. /\ IsSeq(ins \o rest) /\ Len(ins \o rest) = Len(ins) + Len(rest) /\ Len(ins) \in Nat /\ Len(rest) \in Nat
      /\ DOMAIN (ins \o rest) = 1..(Len(ins) + Len(rest))
      /\ DOMAIN ins = 1..Len(ins) /\ DOMAIN rest = 1..Len(rest)
      /\ \A m \in DOMAIN (ins \o rest) : (ins \o rest)[m] = IF m <= Len(ins) THEN ins[m] ELSE rest[m - Len(ins)]
    BY <1>2, <1>3, ConcatIsSeq, Zenon
<1>7. Len(rest) = Len(L) - 1
    <2> DEFINE a == Len(L) - 1
               b == Len(rest)
    <2>1. a \in Nat
        BY <1>3
    <2>2. b \in Nat /\ 1..a = 1..b
        BY <1>3, <1>6
    <2> HIDE DEF a, b
    <2>3. a = b
        BY <2>1, <2>2, SameRange
    <2> QED
        BY <2>3 DEF a, b
<1>8. /\ IsSeq(M) /\ Len(M) = Len(ins) + Len(L) - 1 /\ DOMAIN M = 1..Len(M)
    BY <1>3, <1>4, <1>6, <1>7
<1>9. ASSUME NEW m \in 1..Len(M) PROVE M[m] = IF m <= Len(ins) THEN ins[m] ELSE L[m - Len(ins) + 1]
    <2>1. M[m] = IF m <= Len(ins) THEN ins[m] ELSE rest[m - Len(ins)]
        BY <1>4, <1>6, <1>8, <1>9
    <2>2. ~(m <= Len(ins)) => m - Len(ins) \in DOMAIN rest
        BY <1>3, <1>6, <1>8, <1>9
    <2> QED
        BY <1>3, <2>1, <2>2
<1> QED
    BY <1>1, <1>2, <1>3, <1>4, <1>5, <1>6, <1>8, <1>9 DEF L, M, ins, rest

---------------------------------------------------------------------------
(* What a reading is made of.                                              *)

Simple(f) == Plain(f) /\ ~Nested(f)
WhenPlace(f, w) == Fresh(f, w) /\ At(f, w).node.kind = "when"
LoopPlace(f, s) == Fresh(f, s) /\ At(f, s).node.kind = "repeat"

\* Block w and a line e in it are in the same loop, and on the same surface.
Alongside(f, w, e) == At(f, w).loop = e.loop /\ At(f, w).surface = e.surface

\* A line to come at place k: the blocks it is in were entered before, from the
\* outermost to the innermost; a loop is the outermost.
Laid(f, k, e) ==
    /\ IsLine(e) /\ e.node \in Nodes /\ IsSeq(e.under)
    /\ e.loop \in 0..(k - 1) /\ e.back \in 0..(k - 1)
    /\ \A r \in DOMAIN e.under :
          e.under[r] \in 1..(k - 1) /\ WhenPlace(f, e.under[r]) /\ e.loop < e.under[r]
    /\ \A q, r \in DOMAIN e.under : q < r => e.under[q] < e.under[r]
    /\ e.loop # 0 => LoopPlace(f, e.loop)
    /\ e.back # 0 => LoopPlace(f, e.back) /\ e.node = At(f, e.back).node /\ e.loop = 0 /\ e.under = <<>>
    /\ e.node.kind = "in" => f.multi /\ e.under = <<>> /\ e.loop = 0
    /\ e.node.kind # "in" => IF f.multi THEN e.surface \in Surfaces ELSE e.surface = Main
    /\ \A r \in DOMAIN e.under : Alongside(f, e.under[r], e)

\* Behind the steps on one surface come blocks that switch to others, if any.
ReadAt(f, k) ==
    LET L == Reading[f][k]
    IN  /\ IsSeq(L)
        /\ \A m \in DOMAIN L : Laid(f, k, L[m])
        /\ \A m, n \in DOMAIN L : L[m].node.kind # "in" /\ L[n].node.kind # "in" => L[m].surface = L[n].surface
        /\ \A m, n \in DOMAIN L : m < n /\ L[m].node.kind = "in" => L[n].node.kind = "in"

\* The reading starts laid out.
LEMMA ReadStart ==
    ASSUME NEW f \in Flows
    PROVE  ReadAt(f, 1)
<1> DEFINE L == Reading[f][1]
           n == Len(f.steps)
<1>1. L = [i \in DOMAIN f.steps |-> Line(f.steps[i], <<>>, 0, Main)]
    BY ReadingSteps
<1>2. f.steps \in Seq(Nodes)
    BY NodesAssumption
<1>3. n \in Nat /\ DOMAIN f.steps = 1..n /\ \A i \in 1..n : f.steps[i] \in Nodes
    BY <1>2
<1>4. L = [i \in 1..n |-> L[i]] /\ \A i \in 1..n : L[i] = Line(f.steps[i], <<>>, 0, Main)
    BY <1>1, <1>3
<1> HIDE DEF L, n
<1>5. IsSeq(L) /\ DOMAIN L = 1..n
    BY <1>3, <1>4, FunIsSeq
<1>6. \A i \in 1..n : (f.steps[i].kind = "in") <=> f.multi
    BY <1>3, SurfacesAssumption
<1>7. IsSeq(<<>>) /\ DOMAIN <<>> = {}
    BY ShortIsSeq
<1>8. ASSUME NEW m \in DOMAIN L
      PROVE  Laid(f, 1, L[m]) /\ ((L[m].node.kind = "in") <=> f.multi)
    <2> DEFINE e == L[m]
    <2>1. e.node = f.steps[m] /\ e.under = <<>> /\ e.loop = 0 /\ e.surface = Main /\ e.back = 0 /\ IsLine(e)
        BY <1>4, <1>5, LineIs
    <2>2. e.node \in Nodes /\ ((e.node.kind = "in") <=> f.multi)
        BY <1>3, <1>5, <1>6, <2>1
    <2>3. 0 \in 0..(1 - 1)
        OBVIOUS
    <2> HIDE DEF e
    <2>4. Laid(f, 1, e)
        BY <1>7, <2>1, <2>2, <2>3, Zenon DEF Laid
    <2> QED
        BY <2>2, <2>4 DEF e
<1>9. \A m \in DOMAIN L : L[m].surface = Main
    BY <1>4, <1>5, LineIs
<1> QED
    BY <1>5, <1>8, <1>9, Zenon DEF ReadAt, L

\* A line stays laid out.
LEMMA LaidLater ==
    ASSUME NEW f, NEW k \in Nat, NEW e, Laid(f, k, e)
    PROVE  Laid(f, k + 1, e)
<1>1. \A x \in 0..(k - 1) : x \in 0..((k + 1) - 1)
    OBVIOUS
<1>2. \A x \in 1..(k - 1) : x \in 1..((k + 1) - 1)
    OBVIOUS
<1> QED
    BY <1>1, <1>2, Zenon DEF Laid

\* The lines a block makes way for.
LEMMA LaidEntered ==
    ASSUME NEW f \in Flows, Simple(f), NEW k \in 1..Limit, Fresh(f, k), NEW e, e = At(f, k), Laid(f, k, e),
           e.node.kind # "step", NEW m \in 1..Len(Entered(e, k))
    PROVE  /\ Laid(f, k + 1, Entered(e, k)[m])
           /\ Entered(e, k)[m].node.kind # "in"
           /\ Entered(e, k)[m].surface = SurfaceIn(e)
<1> DEFINE n == Len(e.node.steps)
           d == Entered(e, k)[m]
<1>1. e.node \in Nodes /\ IsSeq(e.under) /\ k \in Nat \ {0} /\ k \in Places(f) /\ e.back = 0
    BY ReadingSteps DEF Laid, Fresh
<1>2. e.node.kind = "repeat" => e.under = <<>> /\ e.loop = 0
    BY <1>1 DEF Simple, Plain, Nested
<1>3. k \in 0..((k + 1) - 1) /\ k \in 1..((k + 1) - 1) /\ 0 \in 0..((k + 1) - 1)
    BY <1>1
<1>4. e.node.kind = "when" => WhenPlace(f, k)
    BY DEF WhenPlace
<1>5. e.node.kind = "repeat" => LoopPlace(f, k)
    BY DEF LoopPlace
<1>6. Laid(f, k + 1, e)
    BY <1>1, LaidLater
<1>7. /\ n \in Nat /\ Len(Entered(e, k)) = IF e.node.kind = "repeat" THEN n + 1 ELSE n
      /\ DOMAIN e.node.steps = 1..n
      /\ \A i \in 1..n : /\ e.node.steps[i] \in Nodes
                         /\ Entered(e, k)[i] = Line(e.node.steps[i], UnderIn(e, k), LoopIn(e, k), SurfaceIn(e))
      /\ e.node.kind = "repeat" => Entered(e, k)[n + 1] = [e EXCEPT !.back = k]
    BY <1>1, EnteredLines
<1>8. IsSeq(<<>>) /\ DOMAIN <<>> = {}
    BY ShortIsSeq
<1>9. e.node.kind # "in" => SurfaceIn(e) = e.surface
    BY DEF SurfaceIn
<1>10. IF f.multi THEN SurfaceIn(e) \in Surfaces ELSE SurfaceIn(e) = Main
    <2>1. CASE e.node.kind = "in"
        BY <1>1, <2>1, SurfacesAssumption DEF Laid, SurfaceIn
    <2>2. CASE e.node.kind # "in"
        BY <1>9, <2>2 DEF Laid
    <2> QED
        BY <2>1, <2>2
<1>11. CASE m <= n
    <2>1. m \in 1..n
        BY <1>7, <1>11
    <2>2. /\ d.node = e.node.steps[m] /\ d.under = UnderIn(e, k) /\ d.loop = LoopIn(e, k)
          /\ d.surface = SurfaceIn(e) /\ d.back = 0 /\ IsLine(d) /\ d.node \in Nodes
        BY <1>7, <2>1, LineIs
    <2>3. d.node.kind # "in"
        BY <1>1, <1>7, <2>1, <2>2, SurfacesAssumption
    <2> HIDE DEF d, n
    <2>4. d.loop \in 0..((k + 1) - 1) /\ (d.loop # 0 => LoopPlace(f, d.loop))
        BY <1>3, <1>5, <1>6, <2>2, Zenon DEF LoopIn, Laid
    <2>5. /\ IsSeq(d.under)
          /\ \A r \in DOMAIN d.under :
                d.under[r] \in 1..((k + 1) - 1) /\ WhenPlace(f, d.under[r]) /\ d.loop < d.under[r]
          /\ \A q, r \in DOMAIN d.under : q < r => d.under[q] < d.under[r]
        <3>1. CASE e.node.kind = "when"
            <4>1. d.under = Append(e.under, k) /\ d.loop = e.loop
                BY <2>2, <3>1 DEF UnderIn, LoopIn
            <4>2. /\ IsSeq(d.under) /\ DOMAIN e.under = 1..Len(e.under) /\ Len(e.under) \in Nat
                  /\ DOMAIN d.under = 1..(Len(e.under) + 1)
                  /\ \A r \in DOMAIN d.under : d.under[r] = IF r = Len(e.under) + 1 THEN k ELSE e.under[r]
                BY <1>1, <4>1, AppendIsSeq
            <4>3. \A r \in DOMAIN d.under : r # Len(e.under) + 1 => r \in DOMAIN e.under
                BY <4>2
            <4>4. \A r \in DOMAIN e.under : e.under[r] \in 1..(k - 1) /\ WhenPlace(f, e.under[r]) /\ e.loop < e.under[r]
                BY DEF Laid
            <4>5. e.loop \in 0..(k - 1) /\ e.loop < k
                BY <1>1 DEF Laid
            <4>6. ASSUME NEW r \in DOMAIN d.under
                  PROVE  d.under[r] \in 1..((k + 1) - 1) /\ WhenPlace(f, d.under[r]) /\ d.loop < d.under[r]
                <5>1. CASE r = Len(e.under) + 1
                    BY <1>3, <1>4, <3>1, <4>1, <4>2, <4>5, <5>1, Zenon
                <5>2. CASE r # Len(e.under) + 1
                    <6>1. d.under[r] = e.under[r] /\ r \in DOMAIN e.under
                        BY <4>2, <4>3, <5>2
                    <6>2. \A x \in 1..(k - 1) : x \in 1..((k + 1) - 1)
                        BY <1>1
                    <6> QED
                        BY <4>1, <4>4, <6>1, <6>2, Zenon
                <5> QED
                    BY <5>1, <5>2
            <4>7. ASSUME NEW q \in DOMAIN d.under, NEW r \in DOMAIN d.under, q < r PROVE d.under[q] < d.under[r]
                <5>1. q # Len(e.under) + 1
                    BY <4>2, <4>7
                <5>2. d.under[q] = e.under[q] /\ q \in DOMAIN e.under /\ d.under[q] \in 1..(k - 1)
                    BY <4>2, <4>3, <4>4, <5>1
                <5>3. CASE r = Len(e.under) + 1
                    <6>1. d.under[r] = k
                        BY <4>2, <5>3
                    <6> QED
                        BY <1>1, <5>2, <6>1
                <5>4. CASE r # Len(e.under) + 1
                    <6>1. d.under[r] = e.under[r] /\ r \in DOMAIN e.under
                        BY <4>2, <4>3, <5>4
                    <6> QED
                        BY <4>7, <5>2, <6>1 DEF Laid
                <5> QED
                    BY <5>3, <5>4
            <4> QED
                BY <4>2, <4>6, <4>7
        <3>2. CASE e.node.kind = "repeat"
            <4>1. d.under = <<>>
                BY <1>2, <2>2, <3>2 DEF UnderIn
            <4> QED
                BY <1>8, <4>1
        <3>3. CASE e.node.kind # "when" /\ e.node.kind # "repeat"
            <4>1. d.under = e.under /\ d.loop = e.loop
                BY <2>2, <3>3 DEF UnderIn, LoopIn
            <4> QED
                BY <1>6, <4>1, Zenon DEF Laid
        <3> QED
            BY <3>1, <3>2, <3>3
    <2>7. ASSUME NEW r \in DOMAIN d.under PROVE Alongside(f, d.under[r], d)
        <3>1. CASE e.node.kind = "when"
            <4>1. d.under = Append(e.under, k) /\ d.loop = e.loop /\ d.surface = e.surface
                BY <1>9, <2>2, <3>1 DEF UnderIn, LoopIn
            <4>2. /\ DOMAIN e.under = 1..Len(e.under) /\ Len(e.under) \in Nat
                  /\ DOMAIN d.under = 1..(Len(e.under) + 1)
                  /\ \A q \in DOMAIN d.under : d.under[q] = IF q = Len(e.under) + 1 THEN k ELSE e.under[q]
                BY <1>1, <4>1, AppendIsSeq
            <4>3. CASE r = Len(e.under) + 1
                BY <4>1, <4>2, <4>3 DEF Alongside
            <4>4. CASE r # Len(e.under) + 1
                <5>1. r \in DOMAIN e.under /\ d.under[r] = e.under[r]
                    BY <4>2, <4>4
                <5>2. Alongside(f, e.under[r], e)
                    BY <5>1 DEF Laid
                <5> QED
                    BY <4>1, <5>1, <5>2 DEF Alongside
            <4> QED
                BY <4>3, <4>4
        <3>2. CASE e.node.kind \in {"repeat", "in"}
            <4>1. d.under = <<>>
                BY <1>2, <2>2, <3>2 DEF UnderIn, Laid
            <4> QED
                BY <1>8, <2>7, <4>1
        <3>3. CASE e.node.kind \notin {"when", "repeat", "in"}
            <4>1. d.under = e.under /\ d.loop = e.loop /\ d.surface = e.surface
                BY <1>9, <2>2, <3>3 DEF UnderIn, LoopIn
            <4>2. Alongside(f, e.under[r], e)
                BY <2>7, <4>1 DEF Laid
            <4> QED
                BY <4>1, <4>2 DEF Alongside
        <3> QED
            BY <3>1, <3>2, <3>3
    <2>6. Laid(f, k + 1, d)
        BY <1>3, <1>10, <2>2, <2>3, <2>4, <2>5, <2>7, Zenon DEF Laid
    <2> QED
        BY <2>2, <2>3, <2>6 DEF d
<1>12. CASE ~(m <= n)
    <2>1. e.node.kind = "repeat" /\ m = n + 1
        BY <1>7, <1>12
    <2>2. d = [e EXCEPT !.back = k]
        BY <1>7, <2>1
    <2>3. IsLine(d) /\ d.node = e.node /\ d.under = e.under /\ d.loop = e.loop /\ d.surface = e.surface /\ d.back = k
        BY <2>2, BackIs DEF Laid
    <2> HIDE DEF d, n
    <2>4. e.node.kind # "in"
        BY <2>1
    <2>6. \A r \in DOMAIN d.under : Alongside(f, d.under[r], d)
        BY <1>2, <1>8, <2>1, <2>3
    <2>5. Laid(f, k + 1, d)
        BY <1>2, <1>3, <1>5, <1>6, <2>1, <2>3, <2>4, <2>6, Zenon DEF Laid
    <2> QED
        BY <1>9, <2>3, <2>4, <2>5 DEF d
<1> QED
    BY <1>11, <1>12

\* And so does what is to come at the next place.
LEMMA ReadNext ==
    ASSUME NEW f \in Flows, Simple(f), NEW k \in 1..Limit, k # Limit, ReadAt(f, k)
    PROVE  ReadAt(f, k + 1)
<1> DEFINE L == Reading[f][k]
           M == Reading[f][k + 1]
           e == At(f, k)
           ins == Ins(e, k)
<1>1. CASE L = <<>>
    <2>1. M = <<>>
        BY <1>1, ReadingSteps DEF Onwards
    <2>2. IsSeq(M) /\ DOMAIN M = {}
        BY <2>1, ShortIsSeq
    <2> QED
        BY <2>2, Zenon DEF ReadAt
<1>2. CASE L # <<>>
    <2>1. k \in Places(f) /\ IsSeq(L) /\ k \in Nat
        BY <1>2, ReadingSteps DEF Places, ReadAt
    <2>2. Len(L) \in Nat \ {0} /\ DOMAIN L = 1..Len(L) /\ e = L[1]
        BY <1>2, <2>1, TailIsSeq DEF At
    <2>3. 1 \in DOMAIN L
        BY <2>2
    <2>4. Laid(f, k, e)
        BY <2>2, <2>3 DEF ReadAt
    <2>5. e.node \in Nodes
        BY <2>4 DEF Laid
    <2>6. /\ IsSeq(M) /\ IsSeq(ins) /\ Len(ins) \in Nat /\ DOMAIN ins = 1..Len(ins)
          /\ Len(M) = Len(ins) + Len(L) - 1 /\ DOMAIN M = 1..Len(M)
          /\ \A m \in 1..Len(M) : M[m] = IF m <= Len(ins) THEN ins[m] ELSE L[m - Len(ins) + 1]
        BY <1>2, <2>1, <2>5, OnwardsLines
    <2>7. ASSUME NEW m \in DOMAIN ins
          PROVE  /\ Laid(f, k + 1, ins[m]) /\ ins[m].node.kind # "in" /\ ins[m].surface = SurfaceIn(e)
                 /\ e.node.kind # "step" /\ e.back = 0
        <3>1. ~(e.node.kind = "step" \/ e.back # 0) /\ ins = Entered(e, k)
            <4>1. (e.node.kind = "step" \/ e.back # 0) => ins = <<>>
                BY DEF Ins
            <4>2. ins # <<>>
                BY <2>7, ShortIsSeq
            <4> QED
                BY <4>1, <4>2 DEF Ins
        <3>2. Fresh(f, k)
            BY <2>1, <3>1 DEF Fresh
        <3>3. m \in 1..Len(Entered(e, k))
            BY <2>6, <2>7, <3>1
        <3> QED
            BY <2>4, <3>1, <3>2, <3>3, LaidEntered
    <2>8. ASSUME NEW m \in DOMAIN M
          PROVE  \/ m <= Len(ins) /\ m \in DOMAIN ins /\ M[m] = ins[m]
                 \/ /\ m > Len(ins) /\ m - Len(ins) + 1 \in DOMAIN L /\ 1 < m - Len(ins) + 1
                    /\ M[m] = L[m - Len(ins) + 1]
        <3>1. m \in 1..Len(M) /\ m \in Nat
            BY <2>6, <2>8
        <3>2. CASE m <= Len(ins)
            BY <2>6, <3>1, <3>2
        <3>3. CASE ~(m <= Len(ins))
            <4> DEFINE a == Len(ins)
                       b == Len(L)
            <4>1. a \in Nat /\ b \in Nat /\ m \in 1..(a + b - 1) /\ ~(m <= a)
                BY <2>2, <2>6, <3>1, <3>3
            <4> HIDE DEF a, b
            <4>2. m - a + 1 \in 1..b /\ 1 < m - a + 1 /\ m > a
                BY <4>1, Shifted
            <4>3. M[m] = L[m - a + 1]
                BY <2>6, <3>1, <3>3 DEF a
            <4> QED
                BY <2>2, <4>2, <4>3, Zenon DEF a, b
        <3> QED
            BY <3>2, <3>3
    <2>9. \A m \in DOMAIN L : Laid(f, k + 1, L[m])
        BY <2>1, LaidLater DEF ReadAt
    <2>10. ASSUME NEW m \in DOMAIN L, 1 < m, DOMAIN ins # {}, L[m].node.kind # "in"
           PROVE  SurfaceIn(e) = L[m].surface
        <3>1. e.node.kind # "in"
            BY <2>2, <2>3, <2>10 DEF ReadAt
        <3> QED
            BY <2>2, <2>3, <2>10, <3>1 DEF ReadAt, SurfaceIn
    <2> HIDE DEF L, M, ins, e
    <2>11. \A m \in DOMAIN M : Laid(f, k + 1, M[m])
        BY <2>7, <2>8, <2>9, Zenon
    <2>12. ASSUME NEW m \in DOMAIN M, NEW n \in DOMAIN M, M[m].node.kind # "in", M[n].node.kind # "in"
           PROVE  M[m].surface = M[n].surface
        <3>1. /\ m <= Len(ins) => m \in DOMAIN ins /\ M[m].surface = SurfaceIn(e)
              /\ n <= Len(ins) => n \in DOMAIN ins /\ M[n].surface = SurfaceIn(e)
            BY <2>6, <2>7, <2>8
        <3>2. CASE m <= Len(ins) /\ n <= Len(ins)
            BY <3>1, <3>2
        <3>3. CASE m <= Len(ins) /\ ~(n <= Len(ins))
            BY <2>8, <2>10, <2>12, <3>1, <3>3
        <3>4. CASE ~(m <= Len(ins)) /\ n <= Len(ins)
            BY <2>8, <2>10, <2>12, <3>1, <3>4
        <3>5. CASE ~(m <= Len(ins)) /\ ~(n <= Len(ins))
            BY <2>8, <2>12, <3>5 DEF ReadAt, L
        <3> QED
            BY <3>2, <3>3, <3>4, <3>5
    <2>13. ASSUME NEW m \in DOMAIN M, NEW n \in DOMAIN M, m < n, M[m].node.kind = "in"
           PROVE  M[n].node.kind = "in"
        <3>1. ~(m <= Len(ins)) /\ m > Len(ins)
            <4>1. ~(m \in DOMAIN ins /\ M[m] = ins[m])
                BY <2>7, <2>13
            <4>2. m > Len(ins)
                BY <2>8, <4>1
            <4> QED
                BY <2>6, <4>2
        <3>2. n > Len(ins) /\ ~(n <= Len(ins)) /\ m - Len(ins) + 1 < n - Len(ins) + 1
            BY <2>6, <2>13, <3>1
        <3> QED
            BY <2>8, <2>13, <3>1, <3>2 DEF ReadAt, L
    <2> QED
        BY <2>6, <2>11, <2>12, <2>13, Zenon DEF ReadAt, M
<1> QED
    BY <1>1, <1>2

\* What is known of every place of a reading.
LEMMA ReadAll ==
    ASSUME NEW f \in Flows, Simple(f)
    PROVE  \A k \in 1..Limit : ReadAt(f, k)
<1> DEFINE T == {k \in 1..Limit : ~ReadAt(f, k)}
<1> SUFFICES ASSUME T # {} PROVE FALSE
    OBVIOUS
<1>1. T \in SUBSET Nat /\ Limit \in Nat
    BY LimitAssumption
<1>2. PICK k \in T : \A j \in T : k <= j
    BY <1>1, Least
<1>3. k # 1
    BY <1>2, ReadStart
<1>4. k - 1 \in 1..Limit /\ k - 1 # Limit /\ (k - 1) + 1 = k /\ ~(k <= k - 1)
    BY <1>1, <1>2, <1>3
<1>5. ReadAt(f, k - 1)
    BY <1>2, <1>4
<1>6. ReadAt(f, k)
    <2> DEFINE j == k - 1
    <2>1. j \in 1..Limit /\ j # Limit /\ ReadAt(f, j) /\ j + 1 = k
        BY <1>4, <1>5
    <2> HIDE DEF j
    <2>2. ReadAt(f, j + 1)
        BY <2>1, ReadNext
    <2> QED
        BY <2>1, <2>2
<1> QED
    BY <1>2, <1>6

\* What is known of a line.
LEMMA LineKnown ==
    ASSUME NEW f \in Flows, Simple(f), NEW k \in Places(f)
    PROVE  /\ k \in 1..Limit /\ k # Limit /\ k + 1 \in 1..Limit /\ ReadAt(f, k) /\ Laid(f, k, At(f, k))
           /\ IsSeq(Reading[f][k]) /\ Reading[f][k] # <<>> /\ Len(Reading[f][k]) \in Nat \ {0}
           /\ DOMAIN Reading[f][k] = 1..Len(Reading[f][k]) /\ 1 \in DOMAIN Reading[f][k]
           /\ At(f, k) = Reading[f][k][1] /\ At(f, k).node \in Nodes
<1>1. k \in 1..Limit /\ Reading[f][k] # <<>> /\ k # Limit /\ Limit \in Nat
    BY ReadingSteps DEF Places
<1>2. ReadAt(f, k) /\ k + 1 \in 1..Limit
    BY <1>1, ReadAll
<1>3. IsSeq(Reading[f][k])
    BY <1>2 DEF ReadAt
<1> DEFINE L == Reading[f][k]
<1>4. Len(L) \in Nat \ {0} /\ DOMAIN L = 1..Len(L) /\ At(f, k) = L[1]
    BY <1>1, <1>3, TailIsSeq DEF At
<1>5. 1 \in DOMAIN L
    BY <1>4
<1>6. Laid(f, k, At(f, k))
    BY <1>2, <1>4, <1>5 DEF ReadAt
<1>7. At(f, k).node \in Nodes
    BY <1>6 DEF Laid
<1> QED
    BY <1>1, <1>2, <1>3, <1>4, <1>5, <1>6, <1>7

---------------------------------------------------------------------------
(* Where a block ends.                                                     *)

\* Line e is in the block entered at place b.
In(b, e) == e.loop = b \/ e.back = b \/ \E r \in DOMAIN e.under : e.under[r] = b

\* A block that a line is in was entered before.
LEMMA InBefore ==
    ASSUME NEW f, NEW k \in Nat, NEW e, Laid(f, k, e), NEW b \in Nat \ {0}, In(b, e)
    PROVE  b < k
<1>1. e.loop \in 0..(k - 1) /\ e.back \in 0..(k - 1) /\ \A r \in DOMAIN e.under : e.under[r] \in 1..(k - 1)
    BY DEF Laid
<1>2. b \in 0..(k - 1)
    <2>1. CASE \E r \in DOMAIN e.under : e.under[r] = b
        BY <1>1, <2>1
    <2>2. CASE e.loop = b \/ e.back = b
        BY <1>1, <2>2
    <2> QED
        BY <2>1, <2>2 DEF In
<1> QED
    BY <1>2

\* The lines of a block are in it, and in the blocks it is in.
LEMMA InEntered ==
    ASSUME NEW f \in Flows, Simple(f), NEW k \in Places(f), At(f, k).back = 0, At(f, k).node.kind # "step",
           NEW m \in 1..Len(Entered(At(f, k), k)), NEW b \in Nat \ {0}
    PROVE  LET e == At(f, k)
               d == Entered(e, k)[m]
           IN  /\ In(b, d) <=> (In(b, e) \/ (b = k /\ e.node.kind \in {"when", "repeat"}))
               /\ e.node.kind # "repeat" => d.loop = e.loop /\ d.back = 0
               /\ e.node.kind = "repeat" => (IF d.back = 0 THEN d.loop = k ELSE d = [e EXCEPT !.back = k])
<1> DEFINE e == At(f, k)
           d == Entered(e, k)[m]
           n == Len(e.node.steps)
<1>1. e.node \in Nodes /\ IsSeq(e.under) /\ IsLine(e) /\ k \in Nat \ {0}
    BY LineKnown, ReadingSteps DEF Laid
<1>2. e.node.kind = "repeat" => e.under = <<>> /\ e.loop = 0
    BY DEF Simple, Plain, Nested
<1>3. /\ n \in Nat /\ Len(Entered(e, k)) = IF e.node.kind = "repeat" THEN n + 1 ELSE n
      /\ \A i \in 1..n : Entered(e, k)[i] = Line(e.node.steps[i], UnderIn(e, k), LoopIn(e, k), SurfaceIn(e))
      /\ e.node.kind = "repeat" => Entered(e, k)[n + 1] = [e EXCEPT !.back = k]
    BY <1>1, EnteredLines
<1>4. DOMAIN <<>> = {}
    BY ShortIsSeq
<1>5. e.back = 0
    OBVIOUS
<1>6. CASE m <= n
    <2>1. m \in 1..n
        BY <1>3, <1>6
    <2>2. d.under = UnderIn(e, k) /\ d.loop = LoopIn(e, k) /\ d.back = 0
        BY <1>3, <2>1, LineIs
    <2> HIDE DEF d, n, e
    <2>3. CASE e.node.kind = "when"
        <3>1. d.under = Append(e.under, k) /\ d.loop = e.loop
            BY <2>2, <2>3 DEF UnderIn, LoopIn
        <3>2. /\ DOMAIN e.under = 1..Len(e.under) /\ Len(e.under) \in Nat
              /\ DOMAIN d.under = 1..(Len(e.under) + 1)
              /\ \A r \in DOMAIN d.under : d.under[r] = IF r = Len(e.under) + 1 THEN k ELSE e.under[r]
            BY <1>1, <3>1, AppendIsSeq
        <3>3. /\ \A r \in DOMAIN d.under : r # Len(e.under) + 1 => r \in DOMAIN e.under
              /\ \A r \in DOMAIN e.under : r \in DOMAIN d.under /\ r # Len(e.under) + 1
              /\ Len(e.under) + 1 \in DOMAIN d.under
            BY <3>2
        <3>4. (\E r \in DOMAIN d.under : d.under[r] = b) <=> (b = k \/ \E r \in DOMAIN e.under : e.under[r] = b)
            BY <3>2, <3>3, Zenon
        <3> QED
            BY <1>5, <2>2, <2>3, <3>1, <3>4, Zenon DEF In, d, e
    <2>4. CASE e.node.kind = "repeat"
        <3>1. d.under = <<>> /\ e.under = <<>> /\ e.loop = 0 /\ d.loop = k
            BY <1>2, <2>2, <2>4 DEF UnderIn, LoopIn
        <3> QED
            BY <1>4, <1>5, <2>2, <2>4, <3>1 DEF In, d, e
    <2>5. CASE e.node.kind # "when" /\ e.node.kind # "repeat"
        <3>1. d.under = e.under /\ d.loop = e.loop
            BY <2>2, <2>5 DEF UnderIn, LoopIn
        <3> QED
            BY <1>5, <2>2, <2>5, <3>1 DEF In, d, e
    <2> QED
        BY <2>3, <2>4, <2>5
<1>7. CASE ~(m <= n)
    <2>1. e.node.kind = "repeat" /\ m = n + 1
        BY <1>3, <1>7
    <2>2. d = [e EXCEPT !.back = k]
        BY <1>3, <2>1
    <2>3. d.under = e.under /\ d.loop = e.loop /\ d.back = k
        BY <1>1, <2>2, BackIs
    <2> HIDE DEF d, n, e
    <2> QED
        BY <1>1, <1>2, <1>4, <1>5, <2>1, <2>2, <2>3 DEF In, d, e
<1> QED
    BY <1>6, <1>7

\* A block that no line is in is not entered again.
LEMMA OutStays ==
    ASSUME NEW f \in Flows, Simple(f), NEW z \in 1..Limit, NEW b \in Nat \ {0}, b < z,
           \A m \in DOMAIN Reading[f][z] : ~In(b, Reading[f][z][m])
    PROVE  \A k \in z..Limit : \A m \in DOMAIN Reading[f][k] : ~In(b, Reading[f][k][m])
<1> DEFINE Out(k) == \A m \in DOMAIN Reading[f][k] : ~In(b, Reading[f][k][m])
           T == {k \in z..Limit : ~Out(k)}
<1> SUFFICES ASSUME T # {} PROVE FALSE
    OBVIOUS
<1>1. T \in SUBSET Nat /\ Limit \in Nat
    BY LimitAssumption
<1>2. PICK k \in T : \A j \in T : k <= j
    BY <1>1, Least
<1>3. k # z
    BY <1>2
<1>4. PICK j : j = k - 1
    OBVIOUS
<1>5. j \in 1..Limit /\ j # Limit /\ j + 1 = k /\ ~(k <= j) /\ j \in z..Limit /\ b # j
    BY <1>1, <1>2, <1>3, <1>4
<1>6. Out(j)
    BY <1>2, <1>5
<1>7. Out(k)
    <2>1. CASE Reading[f][j] = <<>>
        <3>1. Reading[f][k] = <<>>
            BY <1>5, <2>1, ReadingSteps DEF Onwards
        <3> QED
            BY <3>1, ShortIsSeq
    <2>2. CASE Reading[f][j] # <<>>
        <3> DEFINE L == Reading[f][j]
                   M == Reading[f][k]
                   ins == Ins(At(f, j), j)
        <3>1. j \in Places(f)
            BY <1>5, <2>2 DEF Places
        <3>2. IsSeq(L) /\ 1 \in DOMAIN L /\ At(f, j) = L[1] /\ At(f, j).node \in Nodes
            BY <3>1, LineKnown
        <3>3. /\ Len(ins) \in Nat /\ DOMAIN ins = 1..Len(ins)
              /\ Len(L) \in Nat \ {0} /\ DOMAIN L = 1..Len(L)
              /\ Len(M) = Len(ins) + Len(L) - 1 /\ DOMAIN M = 1..Len(M)
              /\ \A m \in 1..Len(M) : M[m] = IF m <= Len(ins) THEN ins[m] ELSE L[m - Len(ins) + 1]
            BY <1>5, <2>2, <3>2, OnwardsLines
        <3>4. ASSUME NEW m \in DOMAIN ins PROVE ~In(b, ins[m])
            <4>1. ~(At(f, j).node.kind = "step" \/ At(f, j).back # 0) /\ ins = Entered(At(f, j), j)
                <5>1. (At(f, j).node.kind = "step" \/ At(f, j).back # 0) => ins = <<>>
                    BY DEF Ins
                <5>2. ins # <<>>
                    BY <3>4, ShortIsSeq
                <5> QED
                    BY <5>1, <5>2 DEF Ins
            <4>2. m \in 1..Len(Entered(At(f, j), j))
                BY <3>3, <4>1
            <4>3. ~In(b, At(f, j))
                BY <1>6, <3>2
            <4>4. At(f, j).back = 0 /\ At(f, j).node.kind # "step"
                BY <4>1
            <4>5. In(b, Entered(At(f, j), j)[m]) <=> (In(b, At(f, j)) \/ (b = j /\ At(f, j).node.kind \in {"when", "repeat"}))
                BY <3>1, <4>2, <4>4, InEntered
            <4> QED
                BY <1>5, <4>1, <4>3, <4>5
        <3> HIDE DEF ins, M, L
        <3>5. ASSUME NEW m \in DOMAIN M PROVE ~In(b, M[m])
            <4>1. CASE m <= Len(ins)
                <5>1. m \in DOMAIN ins /\ M[m] = ins[m]
                    BY <3>3, <3>5, <4>1
                <5> QED
                    BY <3>4, <5>1
            <4>2. CASE ~(m <= Len(ins))
                <5> DEFINE a == Len(ins)
                           c == Len(L)
                <5>1. a \in Nat /\ c \in Nat /\ m \in 1..(a + c - 1) /\ ~(m <= a)
                    BY <3>3, <3>5, <4>2
                <5> HIDE DEF a, c
                <5>2. m - a + 1 \in 1..c
                    BY <5>1, Shifted
                <5>3. M[m] = L[m - a + 1]
                    BY <3>3, <3>5, <4>2 DEF a
                <5>4. m - a + 1 \in DOMAIN L
                    BY <3>3, <5>2 DEF c
                <5> QED
                    BY <1>6, <5>3, <5>4 DEF L
            <4> QED
                BY <4>1, <4>2
        <3> QED
            BY <3>5 DEF M
    <2> QED
        BY <2>1, <2>2
<1> QED
    BY <1>2, <1>7

\* A block whose end matters: one that may be left out, or done again.
BlockPlace(f, b) == WhenPlace(f, b) \/ LoopPlace(f, b)

\* Inside block b: its lines are in front of those that were behind it.
Inside(f, b, k) ==
    LET L == Reading[f][k]
        M == Reading[f][b]
        n == Len(L) - (Len(M) - 1)
    IN  /\ n >= 1
        /\ \A m \in 1..n : In(b, L[m])
        /\ \A m \in 1..(Len(M) - 1) : L[n + m] = M[m + 1]
        /\ At(f, b).node.kind = "repeat" =>
              /\ L[n] = [At(f, b) EXCEPT !.back = b]
              /\ \A m \in 1..(n - 1) : L[m].loop = b /\ L[m].back = 0

\* A block that is entered is inside itself.
LEMMA InsideStart ==
    ASSUME NEW f \in Flows, Simple(f), NEW b, BlockPlace(f, b)
    PROVE  b \in Places(f) /\ Inside(f, b, b + 1)
<1> DEFINE e == At(f, b)
           L == Reading[f][b]
           M == Reading[f][b + 1]
           ins == Ins(e, b)
           n == Len(M) - (Len(L) - 1)
<1>1. /\ b \in Places(f) /\ e.back = 0 /\ e.node.kind # "step" /\ e.node.kind \in {"when", "repeat"}
      /\ (e.node.kind = "when") <=> ~(e.node.kind = "repeat")
    BY DEF BlockPlace, WhenPlace, LoopPlace, Fresh
<1>2. b \in 1..Limit /\ b # Limit /\ IsSeq(L) /\ L # <<>> /\ e.node \in Nodes /\ IsLine(e)
    BY <1>1, LineKnown DEF Laid
<1>3. ins = Entered(e, b)
    BY <1>1 DEF Ins
<1>4. /\ Len(ins) \in Nat /\ DOMAIN ins = 1..Len(ins)
      /\ Len(L) \in Nat \ {0}
      /\ Len(M) = Len(ins) + Len(L) - 1 /\ DOMAIN M = 1..Len(M)
      /\ \A m \in 1..Len(M) : M[m] = IF m <= Len(ins) THEN ins[m] ELSE L[m - Len(ins) + 1]
    BY <1>2, OnwardsLines
<1>5. n = Len(ins)
    BY <1>4
<1>6. /\ Len(e.node.steps) \in Nat /\ e.node.steps # <<>>
      /\ Len(ins) = IF e.node.kind = "repeat" THEN Len(e.node.steps) + 1 ELSE Len(e.node.steps)
      /\ e.node.kind = "repeat" => ins[Len(e.node.steps) + 1] = [e EXCEPT !.back = b]
      /\ \A m \in 1..Len(e.node.steps) : ins[m].back = 0
    <2>1. e.node.steps # <<>>
        BY <1>1 DEF Simple, Plain
    <2> QED
        BY <1>1, <1>2, <1>3, <2>1, EnteredLines, LineIs
<1>7. n >= 1
    <2>1. Len(e.node.steps) # 0
        <3>1. e.node.steps \in Seq(Nodes)
            BY <1>1, <1>2, NodesAssumption
        <3> DEFINE s == e.node.steps
        <3>2. s \in Seq(Nodes) /\ s # <<>>
            BY <1>6, <3>1
        <3> HIDE DEF s
        <3>3. Len(s) # 0
            BY <3>2
        <3> QED
            BY <3>3 DEF s
    <2> DEFINE q == Len(e.node.steps)
    <2>2. q \in Nat /\ q # 0 /\ n = IF e.node.kind = "repeat" THEN q + 1 ELSE q
        BY <1>5, <1>6, <2>1
    <2> HIDE DEF q, n
    <2> QED
        BY <2>2
<1>8. b \in Nat \ {0}
    BY <1>2
<1>9. ASSUME NEW m \in 1..n PROVE In(b, M[m]) /\ M[m] = ins[m]
    <2>1. m \in 1..Len(ins) /\ m \in 1..Len(M) /\ m <= Len(ins)
        BY <1>4, <1>5, <1>9
    <2>2. M[m] = ins[m]
        BY <1>4, <2>1
    <2>3. In(b, ins[m])
        <3>1. m \in 1..Len(Entered(At(f, b), b))
            BY <1>3, <2>1
        <3>2. In(b, Entered(At(f, b), b)[m]) <=> (In(b, At(f, b)) \/ (b = b /\ At(f, b).node.kind \in {"when", "repeat"}))
            BY <1>1, <1>8, <3>1, InEntered
        <3> QED
            BY <1>1, <1>3, <3>2
    <2> QED
        BY <2>2, <2>3
<1>10. ASSUME NEW m \in 1..(Len(L) - 1) PROVE M[n + m] = L[m + 1]
    <2>1. PICK i : i = n + m
        OBVIOUS
    <2>2. i \in 1..Len(M) /\ ~(i <= Len(ins)) /\ i - Len(ins) + 1 = m + 1
        BY <1>4, <1>5, <1>10, <2>1
    <2>3. M[i] = L[i - Len(ins) + 1]
        BY <1>4, <2>2
    <2> QED
        BY <2>1, <2>2, <2>3
<1>11. ASSUME e.node.kind = "repeat" PROVE M[n] = [e EXCEPT !.back = b] /\ \A m \in 1..(n - 1) : M[m].loop = b /\ M[m].back = 0
    <2>1. n \in 1..n /\ n = Len(e.node.steps) + 1
        BY <1>4, <1>5, <1>6, <1>7, <1>11
    <2>2. M[n] = [e EXCEPT !.back = b]
        BY <1>6, <1>9, <1>11, <2>1
    <2>3. ASSUME NEW m \in 1..(n - 1) PROVE M[m].loop = b /\ M[m].back = 0
        <3>1. m \in 1..n /\ m \in 1..Len(e.node.steps) /\ m \in 1..Len(Entered(At(f, b), b))
            <4> DEFINE q == Len(e.node.steps)
            <4>1. q \in Nat /\ n = q + 1 /\ Len(ins) = n
                BY <1>5, <1>6, <2>1
            <4> HIDE DEF q, n, ins
            <4>2. m \in 1..q /\ m \in 1..n
                BY <2>3, <4>1
            <4> QED
                BY <1>3, <4>1, <4>2 DEF q
        <3>2. M[m] = ins[m] /\ ins[m].back = 0
            BY <1>6, <1>9, <3>1
        <3>3. ins[m].back = 0 => ins[m].loop = b
            <4> DEFINE d == Entered(At(f, b), b)[m]
            <4>1. IF d.back = 0 THEN d.loop = b ELSE d = [At(f, b) EXCEPT !.back = b]
                BY <1>1, <1>8, <1>11, <3>1, InEntered
            <4> QED
                BY <1>3, <4>1
        <3> QED
            BY <3>2, <3>3
    <2> QED
        BY <2>2, <2>3
<1> QED
    BY <1>1, <1>7, <1>9, <1>10, <1>11 DEF Inside

\* The next place is inside too, or the block is over.
LEMMA InsideNext ==
    ASSUME NEW f \in Flows, Simple(f), NEW b, BlockPlace(f, b), NEW k \in 1..Limit, k > b, Inside(f, b, k)
    PROVE  /\ k \in Places(f) /\ In(b, At(f, k)) /\ k + 1 \in 1..Limit
           /\ \/ Inside(f, b, k + 1)
              \/ Reading[f][k + 1] = Tail(Reading[f][b])
           /\ Reading[f][k + 1] = Tail(Reading[f][b]) => ~Inside(f, b, k + 1)
           /\ At(f, b).node.kind = "repeat" =>
                 IF Reading[f][k + 1] = Tail(Reading[f][b])
                 THEN At(f, k) = [At(f, b) EXCEPT !.back = b] /\ Tail(Reading[f][k]) = Tail(Reading[f][b])
                 ELSE At(f, k).loop = b /\ At(f, k).back = 0
<1> DEFINE B == Reading[f][b]
           N == Len(B) - 1
           L == Reading[f][k]
           M == Reading[f][k + 1]
           e == At(f, k)
           ins == Ins(e, k)
           n == Len(L) - N
<1>1. /\ b \in Places(f) /\ b \in Nat \ {0} /\ N \in Nat /\ IsSeq(B) /\ B # <<>> /\ Len(B) \in Nat
      /\ DOMAIN B = 1..Len(B)
    <2>1. b \in Places(f)
        BY InsideStart
    <2>2. b \in 1..Limit /\ IsSeq(B) /\ B # <<>> /\ Len(B) \in Nat \ {0} /\ DOMAIN B = 1..Len(B)
        BY <2>1, LineKnown
    <2> QED
        BY <2>1, <2>2
<1>2. IsSeq(L) /\ Len(L) \in Nat /\ DOMAIN L = 1..Len(L) /\ k \in Nat \ {0}
    BY ReadAll DEF ReadAt, IsSeq
<1>3. /\ n >= 1 /\ \A m \in 1..n : In(b, L[m])
      /\ \A m \in 1..N : L[n + m] = B[m + 1]
      /\ At(f, b).node.kind = "repeat" =>
              L[n] = [At(f, b) EXCEPT !.back = b] /\ \A m \in 1..(n - 1) : L[m].loop = b /\ L[m].back = 0
    BY DEF Inside
<1>4. n \in Nat \ {0} /\ Len(L) = n + N
    BY <1>1, <1>2, <1>3
<1>5. k \in Places(f)
    <2>1. Len(L) # 0
        BY <1>1, <1>4
    <2> QED
        BY <1>2, <2>1, ShortIsSeq DEF Places
<1>6. k # Limit /\ k + 1 \in 1..Limit /\ e = L[1] /\ e.node \in Nodes /\ L # <<>>
    BY <1>5, LineKnown
<1>7. /\ Len(ins) \in Nat /\ DOMAIN ins = 1..Len(ins) /\ IsSeq(M)
      /\ Len(M) = Len(ins) + Len(L) - 1 /\ DOMAIN M = 1..Len(M)
      /\ \A m \in 1..Len(M) : M[m] = IF m <= Len(ins) THEN ins[m] ELSE L[m - Len(ins) + 1]
    BY <1>2, <1>6, OnwardsLines
<1> DEFINE c == Len(ins)
           n2 == Len(M) - N
<1>8. In(b, e) /\ 1 \in 1..n
    <2>1. 1 \in 1..n
        BY <1>4
    <2> QED
        BY <1>3, <1>6, <2>1
<1>9. ASSUME NEW m \in 1..c
      PROVE  /\ In(b, ins[m]) /\ e.back = 0 /\ e.node.kind # "step"
             /\ At(f, b).node.kind = "repeat" => ins[m].loop = b /\ ins[m].back = 0 /\ n # 1
    <2>1. ~(e.node.kind = "step" \/ e.back # 0) /\ ins = Entered(e, k)
        <3>1. (e.node.kind = "step" \/ e.back # 0) => ins = <<>>
            BY DEF Ins
        <3>2. m \in DOMAIN ins
            BY <1>7
        <3>3. ins # <<>>
            BY <3>2, ShortIsSeq
        <3> QED
            BY <3>1, <3>3 DEF Ins
    <2>2. m \in 1..Len(Entered(e, k)) /\ e.back = 0 /\ e.node.kind # "step"
        BY <1>9, <2>1
    <2>3. In(b, Entered(e, k)[m]) /\ (e.node.kind # "repeat" => Entered(e, k)[m].loop = e.loop /\ Entered(e, k)[m].back = 0)
        <3>1. m \in 1..Len(Entered(At(f, k), k)) /\ At(f, k).back = 0 /\ At(f, k).node.kind # "step"
            BY <2>2
        <3>2. In(b, Entered(At(f, k), k)[m]) <=> (In(b, At(f, k)) \/ (b = k /\ At(f, k).node.kind \in {"when", "repeat"}))
            BY <1>1, <1>5, <3>1, InEntered, Zenon
        <3>3. At(f, k).node.kind # "repeat" =>
                  Entered(At(f, k), k)[m].loop = At(f, k).loop /\ Entered(At(f, k), k)[m].back = 0
            <4> DEFINE d == Entered(At(f, k), k)[m]
            <4>1. /\ At(f, k).node.kind # "repeat" => d.loop = At(f, k).loop /\ d.back = 0
                  /\ At(f, k).node.kind = "repeat" => (IF d.back = 0 THEN d.loop = k ELSE d = [At(f, k) EXCEPT !.back = k])
                BY <1>1, <1>5, <3>1, InEntered
            <4> QED
                BY <4>1
        <3> QED
            BY <1>8, <3>2, <3>3
    <2>4. ASSUME At(f, b).node.kind = "repeat" PROVE ins[m].loop = b /\ ins[m].back = 0 /\ n # 1
        <3>1. n # 1
            <4>1. IsLine(At(f, b))
                BY <1>1, LineKnown DEF Laid
            <4>2. [At(f, b) EXCEPT !.back = b].back = b
                BY <4>1, BackIs
            <4> QED
                BY <1>1, <1>3, <1>6, <2>2, <2>4, <4>2
        <3>2. 1 \in 1..(n - 1)
            <4>1. n \in Nat \ {0}
                BY <1>4
            <4> HIDE DEF n
            <4> QED
                BY <3>1, <4>1
        <3>3. e.loop = b
            BY <1>3, <1>6, <2>4, <3>2
        <3>4. e.node.kind # "repeat"
            BY <1>1, <1>5, <3>3 DEF Simple, Nested
        <3> QED
            BY <2>1, <2>3, <3>1, <3>3, <3>4
    <2> QED
        BY <2>1, <2>2, <2>3, <2>4
<1>10. n2 = c + n - 1 /\ Len(M) = n2 + N /\ c \in Nat /\ n2 \in Nat
    BY <1>1, <1>4, <1>7
<1>11. \A m \in 1..(n2 + N) : M[m] = IF m <= c THEN ins[m] ELSE L[m - c + 1]
    BY <1>7, <1>10
<1>12. Len(B) = N + 1
    BY <1>1
<1> HIDE DEF ins, n, n2, M, L, N, c, e
<1>13. \A m \in 1..N : M[n2 + m] = B[m + 1]
    <2> TAKE m \in 1..N
    <2>1. PICK i : i = n2 + m
        OBVIOUS
    <2>2. i \in 1..(n2 + N) /\ ~(i <= c) /\ i - c + 1 = n + m
        BY <1>1, <1>4, <1>10, <2>1
    <2> QED
        BY <1>3, <1>11, <2>1, <2>2
<1>14. ASSUME n2 >= 1 PROVE Inside(f, b, k + 1) /\ M # Tail(B)
    <2>1. ASSUME NEW m \in 1..n2 PROVE In(b, M[m])
        <3>1. m \in 1..(n2 + N)
            BY <1>1, <1>10, <2>1
        <3>2. CASE m <= c
            <4>1. m \in 1..c
                BY <1>10, <2>1, <3>2
            <4> QED
                BY <1>9, <1>11, <3>1, <3>2, <4>1
        <3>3. CASE ~(m <= c)
            <4>1. m - c + 1 \in 1..n
                BY <1>4, <1>10, <2>1, <3>3
            <4> QED
                BY <1>3, <1>11, <3>1, <3>3, <4>1
        <3> QED
            BY <3>2, <3>3
    <2>2. ASSUME At(f, b).node.kind = "repeat"
          PROVE  M[n2] = [At(f, b) EXCEPT !.back = b] /\ \A m \in 1..(n2 - 1) : M[m].loop = b /\ M[m].back = 0
        <3>1. n # 1
            <4>1. n = 1 => c >= 1
                BY <1>10, <1>14
            <4>2. n = 1 => 1 \in 1..c
                BY <1>10, <4>1
            <4> QED
                BY <1>9, <2>2, <4>2
        <3>2. n2 \in 1..(n2 + N) /\ ~(n2 <= c) /\ n2 - c + 1 = n
            BY <1>1, <1>4, <1>10, <1>14, <3>1
        <3>3. M[n2] = L[n]
            BY <1>11, <3>2
        <3>4. ASSUME NEW m \in 1..(n2 - 1) PROVE M[m].loop = b /\ M[m].back = 0
            <4>1. m \in 1..(n2 + N)
                BY <1>1, <1>10, <3>4
            <4>2. CASE m <= c
                <5>1. m \in 1..c
                    BY <1>10, <3>4, <4>2
                <5> QED
                    BY <1>9, <1>11, <2>2, <4>1, <4>2, <5>1
            <4>3. CASE ~(m <= c)
                <5>1. m - c + 1 \in 1..(n - 1)
                    BY <1>4, <1>10, <3>4, <4>3
                <5> QED
                    BY <1>3, <1>11, <2>2, <4>1, <4>3, <5>1
            <4> QED
                BY <4>2, <4>3
        <3> QED
            BY <1>3, <2>2, <3>3, <3>4
    <2>3. Inside(f, b, k + 1)
        BY <1>13, <1>14, <2>1, <2>2 DEF Inside, n2, N, M
    <2>4. M # Tail(B)
        <3>1. Len(Tail(B)) = N
            <4>1. B \in Seq(ToSet(B))
                BY <1>1 DEF IsSeq
            <4> QED
                BY <1>1, <4>1, HeadTailProperties DEF N
        <3>2. Len(M) # N
            BY <1>1, <1>10, <1>14
        <3> QED
            BY <3>1, <3>2
    <2> QED
        BY <2>3, <2>4
<1>15. ASSUME ~(n2 >= 1) PROVE M = Tail(B) /\ n = 1 /\ ~Inside(f, b, k + 1)
    <2>1. n2 = 0 /\ n = 1
        BY <1>4, <1>10, <1>15
    <2>2. IsSeq(Tail(B)) /\ DOMAIN Tail(B) = 1..N /\ \A m \in DOMAIN Tail(B) : Tail(B)[m] = B[m + 1]
        BY <1>1, TailIsSeq DEF N
    <2>3. DOMAIN M = 1..N
        BY <1>1, <1>7, <1>10, <2>1
    <2>4. \A m \in 1..N : M[m] = B[m + 1]
        <3>1. \A m \in 1..N : n2 + m = m
            BY <1>1, <2>1
        <3> QED
            BY <1>13, <3>1
    <2>5. M = Tail(B)
        <3> DEFINE t == Tail(B)
        <3>1. IsSeq(M) /\ IsSeq(t) /\ DOMAIN M = DOMAIN t /\ \A m \in DOMAIN M : M[m] = t[m]
            BY <1>7, <2>2, <2>3, <2>4
        <3> HIDE DEF t
        <3>2. M = t
            BY <3>1, SeqsEqual
        <3> QED
            BY <3>2 DEF t
    <2>6. ~Inside(f, b, k + 1)
        BY <1>15 DEF Inside, n2, N, M
    <2> QED
        BY <2>1, <2>5, <2>6
<1>16. ASSUME At(f, b).node.kind = "repeat"
       PROVE  IF M = Tail(B) THEN e = [At(f, b) EXCEPT !.back = b] /\ Tail(L) = Tail(B) ELSE e.loop = b /\ e.back = 0
    <2>1. CASE n = 1
        <3>1. e = [At(f, b) EXCEPT !.back = b]
            BY <1>3, <1>6, <1>16, <2>1 DEF e, L
        <3>2. c = 0
            <4>1. ~(1 \in 1..c)
                BY <1>9, <1>16, <2>1
            <4> QED
                BY <1>10, <4>1
        <3>3. M = Tail(B)
            BY <1>10, <1>15, <2>1, <3>2
        <3>4. Tail(L) = Tail(B)
            <4>1. IsSeq(Tail(L)) /\ DOMAIN Tail(L) = 1..(Len(L) - 1) /\ \A m \in DOMAIN Tail(L) : Tail(L)[m] = L[m + 1]
                BY <1>2, <1>6, TailIsSeq DEF L
            <4>2. DOMAIN Tail(L) = 1..N
                BY <1>1, <1>4, <2>1, <4>1
            <4>3. \A m \in 1..N : Tail(L)[m] = B[m + 1]
                <5>1. \A m \in 1..N : n + m = m + 1
                    BY <1>1, <2>1
                <5> QED
                    BY <1>3, <4>1, <4>2, <5>1
            <4>4. IsSeq(Tail(B)) /\ DOMAIN Tail(B) = 1..N /\ \A m \in DOMAIN Tail(B) : Tail(B)[m] = B[m + 1]
                BY <1>1, TailIsSeq DEF N
            <4> DEFINE s == Tail(L)
                       t == Tail(B)
            <4>5. IsSeq(s) /\ IsSeq(t) /\ DOMAIN s = DOMAIN t /\ \A m \in DOMAIN s : s[m] = t[m]
                BY <4>1, <4>2, <4>3, <4>4
            <4> HIDE DEF s, t
            <4>6. s = t
                BY <4>5, SeqsEqual
            <4> QED
                BY <4>6 DEF s, t
        <3> QED
            BY <3>1, <3>3, <3>4
    <2>2. CASE n # 1
        <3>1. 1 \in 1..(n - 1)
            BY <1>4, <2>2
        <3>2. M # Tail(B)
            BY <1>14, <1>15, <2>2
        <3> QED
            BY <1>3, <1>6, <1>16, <3>1, <3>2 DEF e, L
    <2> QED
        BY <2>1, <2>2
<1> QED
    BY <1>5, <1>6, <1>8, <1>14, <1>15, <1>16 DEF M, e, L

\* Where block b is over.
Ends(f, b, z) ==
    /\ z \in 1..Limit /\ b + 1 < z
    /\ Reading[f][z] = Tail(Reading[f][b])
    /\ \A k \in (b + 1)..(z - 1) : Inside(f, b, k)
End(f, b) == CHOOSE z \in Nat : Ends(f, b, z)

\* Every block ends.
LEMMA EndExists ==
    ASSUME NEW f \in Flows, Simple(f), NEW b, BlockPlace(f, b)
    PROVE  Ends(f, b, End(f, b)) /\ End(f, b) \in Nat
<1> DEFINE T == {k \in (b + 1)..Limit : ~Inside(f, b, k)}
<1>1. b \in 1..Limit /\ Limit \in Nat \ {0} /\ b + 1 \in 1..Limit /\ Inside(f, b, b + 1) /\ b \in Places(f)
      /\ Len(Reading[f][b]) \in Nat \ {0}
    BY InsideStart, LineKnown, LimitAssumption
<1>2. Limit \in T
    <2>1. Reading[f][Limit] = <<>> /\ Len(<<>>) = 0
        BY LimitAssumption
    <2>2. ~(Len(Reading[f][Limit]) - (Len(Reading[f][b]) - 1) >= 1)
        BY <1>1, <2>1
    <2>3. ~Inside(f, b, Limit)
        BY <2>2 DEF Inside
    <2>4. Limit \in (b + 1)..Limit
        BY <1>1
    <2> QED
        BY <2>3, <2>4
<1>3. T \in SUBSET Nat
    BY <1>1
<1>4. PICK z \in T : \A j \in T : z <= j
    BY <1>2, <1>3, Least
<1>5. z \in (b + 1)..Limit /\ z # b + 1 /\ ~Inside(f, b, z) /\ z \in Nat
    BY <1>1, <1>3, <1>4
<1>6. \A k \in (b + 1)..(z - 1) : Inside(f, b, k)
    <2> TAKE k \in (b + 1)..(z - 1)
    <2>1. k \in (b + 1)..Limit /\ ~(z <= k)
        BY <1>1, <1>5
    <2> QED
        BY <1>4, <2>1
<1>7. PICK j : j = z - 1
    OBVIOUS
<1>8. j \in 1..Limit /\ j > b /\ j \in (b + 1)..(z - 1) /\ j + 1 = z /\ z \in 1..Limit /\ b + 1 < z
    BY <1>1, <1>5, <1>7
<1>9. Inside(f, b, j)
    BY <1>6, <1>8
<1>10. Reading[f][z] = Tail(Reading[f][b])
    BY <1>5, <1>8, <1>9, InsideNext
<1>11. Ends(f, b, z)
    BY <1>6, <1>8, <1>10 DEF Ends
<1> QED
    BY <1>5, <1>11 DEF End

\* The places of block b are those from behind b to its end; what comes then is in
\* no block entered from b on.
LEMMA EndFacts ==
    ASSUME NEW f \in Flows, Simple(f), NEW b, BlockPlace(f, b)
    PROVE  /\ End(f, b) \in 1..Limit /\ b \in Places(f) /\ b \in Nat \ {0} /\ b + 1 < End(f, b)
           /\ Reading[f][End(f, b)] = Tail(Reading[f][b])
           /\ \A k \in (b + 1)..(End(f, b) - 1) : k \in Places(f) /\ In(b, At(f, k))
           /\ \A k \in End(f, b)..Limit, w \in b..(End(f, b) - 1) :
                 \A m \in DOMAIN Reading[f][k] : ~In(w, Reading[f][k][m])
<1> DEFINE z == End(f, b)
<1>1. /\ z \in 1..Limit /\ b + 1 < z /\ Reading[f][z] = Tail(Reading[f][b])
      /\ \A k \in (b + 1)..(z - 1) : Inside(f, b, k)
    BY EndExists DEF Ends
<1>2. /\ b \in Places(f) /\ b \in 1..Limit /\ b \in Nat \ {0} /\ IsSeq(Reading[f][b]) /\ Reading[f][b] # <<>>
      /\ ReadAt(f, b) /\ Len(Reading[f][b]) \in Nat
    <2>1. b \in Places(f)
        BY InsideStart
    <2> QED
        BY <2>1, LineKnown
<1> HIDE DEF z
<1>3. ASSUME NEW k \in (b + 1)..(z - 1) PROVE k \in Places(f) /\ In(b, At(f, k))
    <2>1. k \in 1..Limit /\ k > b
        BY <1>1, <1>2, LimitAssumption
    <2> QED
        BY <1>1, <2>1, InsideNext
<1>4. ASSUME NEW w \in b..(z - 1)
      PROVE  \A m \in DOMAIN Reading[f][z] : ~In(w, Reading[f][z][m])
    <2> TAKE m \in DOMAIN Reading[f][z]
    <2> DEFINE B == Reading[f][b]
    <2>1. DOMAIN Tail(B) = 1..(Len(B) - 1) /\ \A i \in DOMAIN Tail(B) : Tail(B)[i] = B[i + 1] /\ DOMAIN B = 1..Len(B)
        BY <1>2, TailIsSeq
    <2>2. m + 1 \in DOMAIN B /\ Reading[f][z][m] = B[m + 1]
        BY <1>1, <1>2, <2>1
    <2>3. Laid(f, b, B[m + 1])
        BY <1>2, <2>2 DEF ReadAt
    <2>4. w \in Nat \ {0} /\ ~(w < b)
        BY <1>1, <1>2
    <2> QED
        BY <1>2, <2>2, <2>3, <2>4, InBefore
<1>5. ASSUME NEW w \in b..(z - 1)
      PROVE  \A k \in z..Limit : \A m \in DOMAIN Reading[f][k] : ~In(w, Reading[f][k][m])
    <2>1. w \in Nat \ {0} /\ w < z
        BY <1>1, <1>2
    <2> QED
        BY <1>1, <1>4, <2>1, OutStays
<1> QED
    BY <1>1, <1>2, <1>3, <1>5 DEF z

\* A loop comes back at its last place, and its other places are steps of it.
LEMMA LoopEnds ==
    ASSUME NEW f \in Flows, Simple(f), NEW s, LoopPlace(f, s)
    PROVE  LET c == End(f, s) - 1
           IN  /\ c \in Places(f) /\ s < c
               /\ At(f, c) = [At(f, s) EXCEPT !.back = s] /\ Tail(Reading[f][c]) = Tail(Reading[f][s])
               /\ \A k \in (s + 1)..(c - 1) : k \in Places(f) /\ At(f, k).loop = s /\ At(f, k).back = 0
<1> DEFINE c == End(f, s) - 1
<1>1. BlockPlace(f, s) /\ At(f, s).node.kind = "repeat"
    BY DEF BlockPlace, LoopPlace
<1>2. /\ End(f, s) \in 1..Limit /\ s + 1 < End(f, s) /\ Reading[f][End(f, s)] = Tail(Reading[f][s])
      /\ \A k \in (s + 1)..(End(f, s) - 1) : Inside(f, s, k)
    BY <1>1, EndExists DEF Ends
<1>3. s \in Places(f) /\ s \in Nat \ {0} /\ s \in 1..Limit /\ Limit \in Nat
    BY <1>1, EndFacts, LimitAssumption DEF Places
<1>4. c \in Nat /\ End(f, s) = c + 1 /\ c \in (s + 1)..(End(f, s) - 1) /\ c > s /\ c \in 1..Limit
    BY <1>2, <1>3
<1> HIDE DEF c
<1>5. /\ c \in Places(f) /\ At(f, c) = [At(f, s) EXCEPT !.back = s] /\ Tail(Reading[f][c]) = Tail(Reading[f][s])
    BY <1>1, <1>2, <1>4, InsideNext
<1>6. ASSUME NEW k \in (s + 1)..(c - 1) PROVE k \in Places(f) /\ At(f, k).loop = s /\ At(f, k).back = 0
    <2>1. /\ k \in (s + 1)..(End(f, s) - 1) /\ k + 1 \in (s + 1)..(End(f, s) - 1) /\ k > s /\ k \in 1..Limit
        BY <1>2, <1>3, <1>4
    <2>2. Inside(f, s, k) /\ Inside(f, s, k + 1)
        BY <1>2, <2>1
    <2>3. Reading[f][k + 1] # Tail(Reading[f][s])
        BY <1>1, <2>1, <2>2, InsideNext
    <2> QED
        BY <1>1, <2>1, <2>2, <2>3, InsideNext
<1> QED
    BY <1>3, <1>4, <1>5, <1>6 DEF c

\* A place of a block lies in it.
LEMMA InRange ==
    ASSUME NEW f \in Flows, Simple(f), NEW b, BlockPlace(f, b), NEW k \in Places(f), In(b, At(f, k))
    PROVE  b < k /\ k < End(f, b)
<1>1. /\ End(f, b) \in 1..Limit /\ b \in Nat \ {0}
      /\ \A i \in End(f, b)..Limit, w \in b..(End(f, b) - 1) :
                 \A m \in DOMAIN Reading[f][i] : ~In(w, Reading[f][i][m])
      /\ b + 1 < End(f, b)
    BY EndFacts
<1>2. k \in 1..Limit /\ Laid(f, k, At(f, k)) /\ 1 \in DOMAIN Reading[f][k] /\ At(f, k) = Reading[f][k][1] /\ Limit \in Nat
    BY LineKnown, LimitAssumption
<1>3. b < k
    BY <1>1, <1>2, InBefore
<1>4. k < End(f, b)
    <2> SUFFICES ASSUME ~(k < End(f, b)) PROVE FALSE
        OBVIOUS
    <2>1. k \in End(f, b)..Limit /\ b \in b..(End(f, b) - 1)
        BY <1>1, <1>2
    <2> QED
        BY <1>1, <1>2, <2>1
<1> QED
    BY <1>3, <1>4

---------------------------------------------------------------------------
(* Blocks entered one after the other.                                     *)

\* A line is in a when: block it stands under.
LEMMA InWhen ==
    ASSUME NEW f, NEW k, NEW e, Laid(f, k, e), NEW w, WhenPlace(f, w), w # 0, In(w, e)
    PROVE  \E r \in DOMAIN e.under : e.under[r] = w
<1>1. e.loop # w /\ e.back # w
    BY DEF Laid, WhenPlace, LoopPlace
<1> QED
    BY <1>1 DEF In

\* A line is in a loop it is a step of, or the end of.
LEMMA InLoop ==
    ASSUME NEW f, NEW k, NEW e, Laid(f, k, e), NEW s, LoopPlace(f, s), In(s, e)
    PROVE  e.loop = s \/ e.back = s
<1>1. \A r \in DOMAIN e.under : e.under[r] # s
    BY DEF Laid, WhenPlace, LoopPlace
<1> QED
    BY <1>1 DEF In

\* A block is followed by its first step.
LEMMA FirstChild ==
    ASSUME NEW f \in Flows, Simple(f), NEW k, Fresh(f, k), At(f, k).node.kind # "step"
    PROVE  /\ k + 1 \in Places(f) /\ At(f, k + 1).back = 0 /\ At(f, k + 1).node.kind \notin {"repeat", "in"}
           /\ At(f, k + 1).surface = SurfaceIn(At(f, k))
           /\ \A b \in Nat \ {0} : In(b, At(f, k)) => In(b, At(f, k + 1))
           /\ BlockPlace(f, k) => In(k, At(f, k + 1))
           /\ At(f, k).node.kind = "when" => At(f, k + 1).loop = At(f, k).loop
           /\ At(f, k).node.kind = "repeat" => At(f, k + 1).loop = k
<1> DEFINE e == At(f, k)
           M == Reading[f][k + 1]
           ins == Ins(e, k)
           n == Len(e.node.steps)
           d == At(f, k + 1)
<1>1. k \in Places(f) /\ e.back = 0
    BY DEF Fresh
<1>2. /\ k \in 1..Limit /\ k # Limit /\ k + 1 \in 1..Limit /\ IsSeq(Reading[f][k]) /\ Reading[f][k] # <<>>
      /\ e.node \in Nodes /\ Laid(f, k, e) /\ IsSeq(e.under) /\ k \in Nat \ {0}
    BY <1>1, LineKnown DEF Laid
<1>3. ins = Entered(e, k)
    BY <1>1 DEF Ins
<1>4. /\ Len(ins) \in Nat /\ Len(Reading[f][k]) \in Nat \ {0} /\ IsSeq(M)
      /\ Len(M) = Len(ins) + Len(Reading[f][k]) - 1 /\ DOMAIN M = 1..Len(M)
      /\ \A m \in 1..Len(M) : M[m] = IF m <= Len(ins) THEN ins[m] ELSE Reading[f][k][m - Len(ins) + 1]
    BY <1>2, OnwardsLines
<1>5. e.node.steps # <<>> /\ (e.node.kind = "repeat" => e.under = <<>>) /\ (e.node.kind = "in" => e.node.steps[1].kind # "repeat")
    BY <1>1 DEF Simple, Plain
<1>6. /\ n \in Nat /\ Len(ins) = IF e.node.kind = "repeat" THEN n + 1 ELSE n
      /\ \A m \in 1..n : /\ e.node.steps[m] \in Nodes
                         /\ ins[m] = Line(e.node.steps[m], UnderIn(e, k), LoopIn(e, k), SurfaceIn(e))
    <2> HIDE DEF e, ins
    <2>1. e.node \in Nodes /\ e.node.kind # "step"
        BY <1>2 DEF e
    <2>2. /\ n \in Nat /\ Len(Entered(e, k)) = IF e.node.kind = "repeat" THEN n + 1 ELSE n
          /\ \A m \in 1..n : /\ e.node.steps[m] \in Nodes
                             /\ Entered(e, k)[m] = Line(e.node.steps[m], UnderIn(e, k), LoopIn(e, k), SurfaceIn(e))
        BY <2>1, EnteredLines
    <2> QED
        BY <1>3, <2>2, Zenon
<1>7. n # 0
    <2> DEFINE s == e.node.steps
    <2>1. s \in Seq(Nodes) /\ s # <<>>
        BY <1>2, <1>5, NodesAssumption
    <2> HIDE DEF s
    <2>2. Len(s) # 0
        BY <2>1
    <2> QED
        BY <2>2 DEF s
<1>8. 1 \in 1..n /\ 1 \in 1..Len(ins) /\ 1 <= Len(ins) /\ 1 \in 1..Len(M)
    <2> DEFINE c == Len(ins)
               a == Len(Reading[f][k])
               l == Len(M)
    <2>1. n \in Nat \ {0} /\ (c = n \/ c = n + 1) /\ a \in Nat \ {0} /\ l = c + a - 1
        BY <1>4, <1>6, <1>7
    <2> HIDE DEF n, c, a, l
    <2>2. 1 \in 1..n /\ 1 \in 1..c /\ 1 <= c /\ 1 \in 1..l
        BY <2>1
    <2> QED
        BY <2>2 DEF c, l
<1>9. M # <<>>
    BY <1>4, <1>8
<1>10. k + 1 \in Places(f) /\ d = M[1]
    <2>1. k + 1 \in Places(f)
        BY <1>2, <1>9 DEF Places
    <2> QED
        BY <2>1, LineKnown
<1>11. d = ins[1] /\ d = Line(e.node.steps[1], UnderIn(e, k), LoopIn(e, k), SurfaceIn(e)) /\ e.node.steps[1] \in Nodes
    BY <1>4, <1>6, <1>8, <1>10
<1>12. /\ d.node = e.node.steps[1] /\ d.under = UnderIn(e, k) /\ d.loop = LoopIn(e, k) /\ d.surface = SurfaceIn(e)
       /\ d.back = 0
    BY <1>11, LineIs
<1>13. 1 \in 1..Len(Entered(At(f, k), k)) /\ ins[1] = Entered(At(f, k), k)[1]
    BY <1>3, <1>8
<1>14. \A b \in Nat \ {0} : In(b, Entered(At(f, k), k)[1]) <=> (In(b, At(f, k)) \/ (b = k /\ At(f, k).node.kind \in {"when", "repeat"}))
    <2> TAKE b \in Nat \ {0}
    <2> QED
        BY <1>1, <1>13, InEntered
<1>15. \A b \in Nat \ {0} : In(b, d) <=> (In(b, e) \/ (b = k /\ e.node.kind \in {"when", "repeat"}))
    BY <1>11, <1>13, <1>14
<1>16. d.node.kind # "in"
    BY <1>2, <1>6, <1>8, <1>12, SurfacesAssumption
<1>17. d.node.kind # "repeat"
    <2> SUFFICES ASSUME d.node.kind = "repeat" PROVE FALSE
        OBVIOUS
    <2>1. d.under = <<>> /\ d.loop = 0
        BY <1>10 DEF Simple, Plain, Nested
    <2>2. e.node.kind # "repeat"
        BY <1>2, <1>12, <2>1 DEF LoopIn
    <2>3. e.node.kind # "when"
        <3>1. Append(e.under, k) # <<>>
            BY <1>2, AppendIsSeq
        <3> QED
            BY <1>12, <2>1, <3>1, Zenon DEF UnderIn
    <2>4. e.node.kind # "in"
        BY <1>5, <1>12
    <2> QED
        BY <1>2, <2>2, <2>3, <2>4, NodesAssumption
<1>18. BlockPlace(f, k) => e.node.kind \in {"when", "repeat"}
    BY DEF BlockPlace, WhenPlace, LoopPlace
<1> QED
    BY <1>2, <1>10, <1>12, <1>15, <1>16, <1>17, <1>18 DEF LoopIn

\* From place k to place y blocks are entered, and nothing else.
Chain(f, k, y) == \A i \in k..(y - 1) : Fresh(f, i) /\ At(f, i).node.kind # "step"

\* A block leads to a step.
LEMMA Descends ==
    ASSUME NEW f \in Flows, Simple(f), NEW k, Fresh(f, k)
    PROVE  \E y \in StepPlaces(f) : k <= y /\ Chain(f, k, y)
<1> DEFINE T == {i \in k..Limit : ~(Fresh(f, i) /\ At(f, i).node.kind # "step")}
<1>1. k \in 1..Limit /\ Limit \in Nat
    BY LimitAssumption DEF Fresh, Places
<1>2. Limit \in T
    BY <1>1, LimitAssumption DEF Fresh, Places
<1>3. T \in SUBSET Nat
    BY <1>1
<1>4. PICK y \in T : \A j \in T : y <= j
    BY <1>2, <1>3, Least
<1>5. y \in k..Limit /\ y \in Nat /\ k <= y
    BY <1>1, <1>4
<1>6. Chain(f, k, y)
    <2> SUFFICES ASSUME NEW i \in k..(y - 1) PROVE i \notin T /\ i \in k..Limit
        BY DEF Chain
    <2> HIDE DEF T
    <2> QED
        BY <1>1, <1>4, <1>5
<1>7. Fresh(f, y)
    <2>1. CASE y = k
        BY <2>1
    <2>2. CASE y # k
        <3>1. PICK j : j = y - 1
            OBVIOUS
        <3>2. j \in k..(y - 1) /\ j + 1 = y
            BY <1>1, <1>5, <2>2, <3>1
        <3>3. j + 1 \in Places(f) /\ At(f, j + 1).back = 0
            BY <1>6, <3>2, FirstChild DEF Chain
        <3> QED
            BY <3>2, <3>3 DEF Fresh
    <2> QED
        BY <2>1, <2>2
<1>8. y \in StepPlaces(f)
    BY <1>4, <1>7 DEF StepPlaces, Fresh
<1> QED
    BY <1>5, <1>6, <1>8

\* What such a chain passes on to its end.
LEMMA ChainIn ==
    ASSUME NEW f \in Flows, Simple(f), NEW k \in Nat \ {0}, NEW y \in Nat, k <= y, Chain(f, k, y)
    PROVE  /\ \A i \in k..y : \A b \in Nat \ {0} : In(b, At(f, i)) => In(b, At(f, y))
           /\ \A i \in k..(y - 1) : BlockPlace(f, i) => In(i, At(f, y))
<1> DEFINE P(i) == \A b \in Nat \ {0} : In(b, At(f, i)) => In(b, At(f, y))
           T == {n \in 0..(y - k) : ~P(y - n)}
<1>1. \A n \in 0..(y - k) : P(y - n)
    <2> SUFFICES ASSUME T # {} PROVE FALSE
        OBVIOUS
    <2>0. T \in SUBSET Nat
        OBVIOUS
    <2>1. PICK n \in T : \A j \in T : n <= j
        BY <2>0, Least
    <2>2. n \in 0..(y - k) /\ ~P(y - n)
        BY <2>1
    <2>3. n # 0
        <3>1. y - 0 = y
            OBVIOUS
        <3> QED
            BY <2>2, <3>1
    <2> HIDE DEF P
    <2>4. PICK j : j = n - 1
        OBVIOUS
    <2>5. j \in 0..(y - k) /\ ~(n <= j)
        BY <2>2, <2>3, <2>4
    <2>6. P(y - j)
        BY <2>1, <2>5
    <2>7. PICK i : i = y - n
        OBVIOUS
    <2>8. i \in k..(y - 1) /\ i + 1 = y - j
        BY <2>2, <2>3, <2>4, <2>7
    <2>9. \A b \in Nat \ {0} : In(b, At(f, i)) => In(b, At(f, i + 1))
        BY <2>8, FirstChild DEF Chain
    <2>10. P(i + 1)
        BY <2>6, <2>8
    <2>11. P(i)
        BY <2>9, <2>10 DEF P
    <2> QED
        BY <2>2, <2>7, <2>11
<1>2. ASSUME NEW i \in k..y PROVE P(i)
    <2>1. PICK n : n = y - i
        OBVIOUS
    <2>2. n \in 0..(y - k) /\ y - n = i
        BY <1>2, <2>1
    <2> HIDE DEF P
    <2> QED
        BY <1>1, <2>2
<1>3. ASSUME NEW i \in k..(y - 1), BlockPlace(f, i) PROVE In(i, At(f, y))
    <2>1. In(i, At(f, i + 1)) /\ i + 1 \in k..y /\ i \in Nat \ {0}
        BY <1>3, FirstChild DEF Chain
    <2> QED
        BY <1>2, <2>1
<1> QED
    BY <1>2, <1>3

\* A chain stays on one surface, but for a switch at its start, and meets a loop at
\* its start only.
LEMMA ChainPlain ==
    ASSUME NEW f \in Flows, Simple(f), NEW k \in Nat \ {0}, NEW y \in Nat, k <= y, Chain(f, k, y), y \in Places(f)
    PROVE  /\ \A i \in k..y : i # k => At(f, i).node.kind \notin {"in", "repeat"} /\ At(f, i).back = 0
           /\ \A i \in k..y : i # k \/ At(f, k).node.kind # "in" => At(f, i).surface = At(f, y).surface
<1>1. ASSUME NEW i \in k..y, i # k
      PROVE  At(f, i).node.kind \notin {"in", "repeat"} /\ At(f, i).back = 0 /\ At(f, i).surface = SurfaceIn(At(f, i - 1))
    <2>1. PICK j : j = i - 1
        OBVIOUS
    <2>2. j \in k..(y - 1) /\ j + 1 = i
        BY <1>1, <2>1
    <2>3. Fresh(f, j) /\ At(f, j).node.kind # "step"
        BY <2>2 DEF Chain
    <2>4. At(f, j + 1).node.kind \notin {"in", "repeat"} /\ At(f, j + 1).back = 0
          /\ At(f, j + 1).surface = SurfaceIn(At(f, j))
        BY <2>3, FirstChild
    <2> QED
        BY <2>1, <2>2, <2>4
<1> DEFINE P(i) == i # k \/ At(f, k).node.kind # "in" => At(f, i).surface = At(f, y).surface
           T == {n \in 0..(y - k) : ~P(y - n)}
<1>2. \A n \in 0..(y - k) : P(y - n)
    <2> SUFFICES ASSUME T # {} PROVE FALSE
        OBVIOUS
    <2>0. T \in SUBSET Nat
        OBVIOUS
    <2>1. PICK n \in T : \A j \in T : n <= j
        BY <2>0, Least
    <2>2. n \in 0..(y - k) /\ ~P(y - n)
        BY <2>1
    <2>3. n # 0
        <3>1. y - 0 = y
            OBVIOUS
        <3> QED
            BY <2>2, <3>1
    <2>4. PICK j : j = n - 1
        OBVIOUS
    <2>5. PICK i : i = y - n
        OBVIOUS
    <2> HIDE DEF P
    <2>6. j \in 0..(y - k) /\ ~(n <= j) /\ i + 1 \in k..y /\ i + 1 # k /\ i + 1 = y - j /\ (i + 1) - 1 = i
        BY <2>2, <2>3, <2>4, <2>5
    <2>7. P(i + 1)
        BY <2>1, <2>6
    <2>8. At(f, i + 1).surface = At(f, y).surface
        BY <2>6, <2>7 DEF P
    <2>9. At(f, i + 1).surface = SurfaceIn(At(f, i))
        BY <1>1, <2>6
    <2>10. i # k => At(f, i).node.kind # "in"
        <3>1. i \in k..y
            BY <2>2, <2>3, <2>5
        <3> QED
            BY <1>1, <3>1
    <2>11. P(i)
        BY <2>8, <2>9, <2>10 DEF P, SurfaceIn
    <2> QED
        BY <2>2, <2>5, <2>11
<1>3. ASSUME NEW i \in k..y PROVE P(i)
    <2>1. PICK n : n = y - i
        OBVIOUS
    <2>2. n \in 0..(y - k) /\ y - n = i
        BY <1>3, <2>1
    <2> HIDE DEF P
    <2> QED
        BY <1>2, <2>2
<1> QED
    BY <1>1, <1>3
=============================================================================
