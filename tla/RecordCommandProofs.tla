------------------------ MODULE RecordCommandProofs ------------------------
(* What is proved of the record command, for all flow files, models, edits  *)
(* and patches.                                                             *)
EXTENDS RecordCommand, SequenceTheorems, FiniteSetTheorems, WellFoundedInduction, TLAPS

\* While a command runs, what it records is the flow file as it is, patched or
\* not; and a recording that is done has been stored.
Current ==
    /\ phase \in {"idle", "author", "act", "failed", "recorded"}
    /\ phase # "idle" => spec = Expanded(file)
    /\ phase = "recorded" => trace # <<>> /\ trace[1].spec = spec

LEMMA CurrentInit == Init => Current
BY DEF Init, Current

\* A recording begins with the first step to author.
LEMMA BeginsCurrent ==
    ASSUME NEW theReplies, NEW earlier, Recording(Expanded(file'), theReplies, earlier)
    PROVE  Current'
BY DEF Recording, Current

\* A command that ends is idle.
LEMMA ExitCurrent ==
    ASSUME NEW code, NEW left, Exit(code, left)
    PROVE  Current' /\ exit' = code /\ trace' = trace /\ phase' = "idle"
BY DEF Exit, Current

LEMMA FailedCurrent ==
    ASSUME Current, NEW k, NEW intent, Failed(k, intent), UNCHANGED command, phase \in {"author", "act"}
    PROVE  Current'
BY DEF Failed, command, Current

LEMMA ReplanCurrent ==
    ASSUME Current, NEW key, NEW fields, phase = "act", Replan(key, fields), UNCHANGED command
    PROVE  Current'
<1>1. CASE Closed("complete", superseded \cup fields)
    BY <1>1 DEF Closed, command, Current
<1>2. CASE Failed("engine-gap", "none")
    BY <1>2, FailedCurrent
<1>3. CASE /\ Remainder
           /\ replans < MaxReplans /\ replans' = replans + 1
           /\ UNCHANGED <<phase, spec, replies, page, covered, reuse, at, closed, steps, from, kept,
                          failure>>
    BY <1>3 DEF command, Current
<1> QED
    BY <1>1, <1>2, <1>3 DEF Replan

LEMMA RefusedCurrent ==
    ASSUME Current, NEW key, NEW fields, NEW k, phase = "act", Refused(key, fields, k),
           UNCHANGED command
    PROVE  Current'
BY ReplanCurrent, FailedCurrent DEF Refused

LEMMA OpenedCurrent ==
    ASSUME Current, NEW acts, NEW loop, NEW answer \in {"none", "rest", "more"},
           phase = "author", Opened(acts, loop, answer), UNCHANGED command
    PROVE  Current'
BY AuthoringAssumption DEF Opened, command, Current

LEMMA RecorderCurrent == Current /\ Recorder => Current'
<1> SUFFICES ASSUME Current, RecordStep, UNCHANGED command
             PROVE  Current'
    BY DEF Recorder
<1>1. CASE Reuse
    <2>1. phase = "author" /\ \E acts : Opened(acts, FALSE, "none")
        BY <1>1 DEF Reuse, Authors
    <2> QED
        BY <2>1, OpenedCurrent
<1>2. CASE AuthorByRules
    <2>1. phase = "author" /\ \E acts : Opened(acts, FALSE, "none")
        BY <1>2 DEF AuthorByRules, Authors
    <2> QED
        BY <2>1, OpenedCurrent
<1>3. CASE AuthorByModel
    <2>1. phase = "author" /\ \E acts : \E answer \in {"rest", "more"} : Opened(acts, TRUE, answer)
        BY <1>3 DEF AuthorByModel, Authors
    <2> QED
        BY <2>1, OpenedCurrent
<1>4. CASE Ambiguous
    <2>1. phase = "author" /\ \E k : Failed(k, spec[at].intent)
        BY <1>4 DEF Ambiguous, Authors
    <2> QED
        BY <2>1, FailedCurrent
<1>5. CASE DriverFails
    <2>1. phase \in {"author", "act"} /\ \E k : Failed(k, "none")
        BY <1>5 DEF DriverFails
    <2> QED
        BY <2>1, FailedCurrent
<1>6. CASE FinishStep
    <2>1. phase = "act"
        BY <1>6 DEF FinishStep, StepIsDone
    <2>2. phase' = "author" /\ spec' = spec /\ UNCHANGED command
        BY <1>6, Zenon DEF FinishStep, Closed
    <2> QED
        BY <2>1, <2>2 DEF command, Current
<1>7. CASE NeverFinishes
    <2>1. phase = "act" /\ Failed("wrong-wait-signal", spec[at].intent)
        BY <1>7 DEF NeverFinishes
    <2> QED
        BY <2>1, FailedCurrent
<1>8. CASE AskForRest
    BY <1>8, ReplanCurrent DEF AskForRest
<1>9. CASE RefuseMissing \/ RefuseRejected \/ RefuseOccluded
    <2>1. phase = "act"
        BY <1>9 DEF RefuseMissing, RefuseRejected, RefuseOccluded, Acts
    <2>2. \E key, fields, k : Refused(key, fields, k)
        BY <1>9 DEF RefuseMissing, RefuseRejected, RefuseOccluded
    <2> QED
        BY <2>1, <2>2, RefusedCurrent
<1>10. CASE CheckFails
    <2>1. phase = "act" /\ Failed("wrong-wait-signal", spec[at].intent)
        BY <1>10 DEF CheckFails, Acts
    <2> QED
        BY <2>1, FailedCurrent
<1>11. CASE Perform
    <2>1. phase = "act"
        BY <1>11 DEF Perform, Acts
    <2>2. CASE Failed("wrong-wait-signal", spec[at].intent)
        BY <2>1, <2>2, FailedCurrent
    <2>3. CASE UNCHANGED <<phase, spec>>
        BY <2>1, <2>3 DEF command, Current
    <2> QED
        BY <1>11, <2>2, <2>3 DEF Perform
<1> QED
    BY <1>1, <1>2, <1>3, <1>4, <1>5, <1>6, <1>7, <1>8, <1>9, <1>10, <1>11 DEF RecordStep

\* An action of the command, not of the recorder, keeps to the flow file, and
\* passes with its trace only.
LEMMA EndsCurrent ==
    Current /\ Ends =>
        /\ Current' /\ phase # "act"
        /\ exit' = "pass" /\ exit # "pass" => trace' # <<>> /\ trace'[1].spec = Expanded(file')
<1> SUFFICES ASSUME Current, Ends
             PROVE  /\ Current' /\ phase # "act"
                    /\ exit' = "pass" /\ exit # "pass" => trace' # <<>> /\ trace'[1].spec = Expanded(file')
    OBVIOUS
<1>1. CASE Store
    BY <1>1 DEF Store, Current
<1>2. CASE Finish
    <2>1. \E code : Exit(code, <<>>)
        BY <1>2 DEF Finish
    <2>2. phase = "recorded" /\ UNCHANGED file
        BY <1>2 DEF Finish
    <2>3. trace # <<>> /\ trace[1].spec = Expanded(file)
        BY <2>2 DEF Current
    <2> QED
        BY <2>1, <2>2, <2>3, ExitCurrent
<1>3. CASE ReportFailure \/ GiveUp \/ PatchInVain
    <2>1. phase = "failed" /\ KeepCheckpoint
        BY <1>3 DEF ReportFailure, GiveUp, PatchInVain, Repairs, Asks
    <2>2. \E left : Exit("error", left)
        BY <2>1 DEF KeepCheckpoint
    <2> QED
        BY <2>1, <2>2, ExitCurrent
<1>4. CASE BreakOff
    <2>1. phase # "act" /\ Exit("error", checkpoint)
        BY <1>4 DEF BreakOff
    <2> QED
        BY <2>1, ExitCurrent
<1>5. CASE RetryFresh
    <2>1. phase = "failed" /\ file' = file /\ exit' = exit
        BY <1>5 DEF RetryFresh, EngineGap, Repairs
    <2>2. Recording(Expanded(file'), project.replies, <<>>)
        BY <1>5, <2>1 DEF RetryFresh
    <2> QED
        BY <2>1, <2>2, BeginsCurrent
<1>6. CASE PatchAndRerun
    <2>1. phase = "failed" /\ exit' = exit /\ Recording(Expanded(file'), project.replies, completed)
        BY <1>6 DEF PatchAndRerun, Asks, Repairs
    <2> QED
        BY <2>1, BeginsCurrent
<1> QED
    BY <1>1, <1>2, <1>3, <1>4, <1>5, <1>6 DEF Ends

LEMMA StartCurrent == Start => Current' /\ phase = "idle" /\ exit' = "none"
<1> SUFFICES ASSUME Start PROVE Current' /\ phase = "idle" /\ exit' = "none"
    OBVIOUS
<1>1. phase = "idle" /\ exit' = "none" /\ file' = file
    BY DEF Start
<1>2. \E earlier : Recording(Expanded(file'), project.replies, earlier)
    BY <1>1 DEF Start
<1> QED
    BY <1>1, <1>2, BeginsCurrent

LEMMA NextCurrent ==
    Current /\ [Next]_vars =>
        /\ Current'
        /\ exit' = "pass" /\ exit # "pass" => trace' # <<>> /\ trace'[1].spec = Expanded(file')
<1> SUFFICES ASSUME Current, [Next]_vars
             PROVE  /\ Current'
                    /\ exit' = "pass" /\ exit # "pass" =>
                          trace' # <<>> /\ trace'[1].spec = Expanded(file')
    OBVIOUS
<1>1. CASE Recorder
    BY <1>1, RecorderCurrent DEF Recorder, command
<1>2. CASE Ends
    BY <1>2, EndsCurrent
<1>3. CASE Start
    BY <1>3, StartCurrent
<1>4. CASE Cover /\ UNCHANGED command
    BY <1>4 DEF Cover, command, stepping, Current
<1>5. CASE Edit
    BY <1>5 DEF Edit, recorder, stepping, Current
<1>6. CASE UNCHANGED vars
    BY <1>6 DEF vars, recorder, stepping, command, Current
<1> QED
    BY <1>1, <1>2, <1>3, <1>4, <1>5, <1>6 DEF Next, Ends

\* A command that passes leaves the trace of the flow file as it then is, however
\* often it patched the file on the way (run_repair_loop), for every model, every
\* patch and every edit between the commands.
THEOREM PassIsOfTheFile == Spec => PassMatchesFile
<1>1. Current /\ [Next]_vars => Current'
    BY NextCurrent
<1>2. Current /\ [Next]_vars =>
          [exit' = "pass" /\ exit # "pass" => trace' # <<>> /\ trace'[1].spec = Expanded(file')]_vars
    BY NextCurrent
<1> QED
    BY <1>1, <1>2, CurrentInit, PTL DEF Spec, PassMatchesFile

---------------------------------------------------------------------------
(* The definitions by recursion, and what they compute.                    *)

\* The first of some numbers.
LEMMA Least ==
    ASSUME NEW T \in SUBSET Nat, T # {}
    PROVE  \E x \in T : \A y \in T : x <= y
<1> DEFINE R == OpToRel(<, Nat)
<1>1. IsWellFoundedOn(R, Nat)
    BY NatLessThanWellFounded
<1>2. \A x, y \in Nat : x < y => <<x, y>> \in R
    BY DEF OpToRel
<1> HIDE DEF R
<1>3. PICK x \in T : \A y \in T : ~ (<<y, x>> \in R)
    BY <1>1, WFMin
<1>4. \A y \in T : ~(y < x)
    BY <1>2, <1>3
<1>5. \A y \in T : x <= y
    BY <1>4
<1> QED
    BY <1>5

\* A list: what Append and \o speak of.
IsList(list) == list \in Seq({list[i] : i \in DOMAIN list})

LEMMA EmptyIsList == IsList(<<>>) /\ Len(<<>>) = 0
BY EmptySeq DEF IsList

LEMMA ListFacts ==
    ASSUME NEW list, IsList(list)
    PROVE  Len(list) \in Nat /\ DOMAIN list = 1..Len(list)
BY LenProperties DEF IsList

LEMMA AppendIsList ==
    ASSUME NEW list, IsList(list), NEW e
    PROVE  /\ IsList(Append(list, e))
           /\ Len(Append(list, e)) = Len(list) + 1
           /\ Append(list, e)[Len(list) + 1] = e
           /\ \A i \in 1..Len(list) : Append(list, e)[i] = list[i]
<1> DEFINE S == {list[i] : i \in DOMAIN list} \cup {e}
<1>1. list \in Seq(S) /\ e \in S
    BY SeqMonotonic DEF IsList
<1> HIDE DEF S
<1>2. /\ Append(list, e) \in Seq(S) /\ Len(Append(list, e)) = Len(list) + 1
      /\ Append(list, e)[Len(list) + 1] = e
      /\ \A i \in 1..Len(list) : Append(list, e)[i] = list[i]
    BY <1>1, AppendProperties
<1> DEFINE t == Append(list, e)
           U == {t[i] : i \in DOMAIN t}
<1> HIDE DEF t
<1>3. t \in Seq(S)
    BY <1>2 DEF t
<1>4. Len(t) \in Nat /\ DOMAIN t = 1..Len(t) /\ t \in [1..Len(t) -> S]
    BY <1>3, LenProperties
<1>5. t \in [1..Len(t) -> U]
    BY <1>4
<1>6. t \in Seq(U)
    BY <1>4, <1>5, SeqDef
<1> QED
    BY <1>2, <1>6 DEF t, IsList

\* The pages a list leads to, one after the other, are there.
LEMMA LeadsExists ==
    ASSUME NEW list, NEW n \in Nat
    PROVE  \E f : f = [i \in 0..n |-> IF i = 0 THEN Blank ELSE Then(list[i].act, f[i - 1])]
<1> DEFINE Has(m) ==
        \E f : f = [i \in 0..m |-> IF i = 0 THEN Blank ELSE Then(list[i].act, f[i - 1])]
    T == {m \in Nat : ~Has(m)}
<1> SUFFICES ASSUME T # {} PROVE FALSE
    OBVIOUS
<1>1. PICK m \in T : \A k \in T : m <= k
    BY Least
<1>2. Has(0)
    <2> DEFINE f == [i \in 0..0 |-> Blank]
    <2>1. f = [i \in 0..0 |-> IF i = 0 THEN Blank ELSE Then(list[i].act, f[i - 1])]
        OBVIOUS
    <2> QED
        BY <2>1
<1>3. m # 0 /\ m \in Nat /\ m - 1 \in Nat /\ ~(m <= m - 1)
    <2>1. m \in Nat /\ ~Has(m)
        BY <1>1
    <2>2. m # 0
        BY <1>2, <2>1
    <2> HIDE DEF Has
    <2> QED
        BY <2>1, <2>2
<1>4. Has(m - 1)
    BY <1>1, <1>3
<1>5. PICK g : g = [i \in 0..(m - 1) |-> IF i = 0 THEN Blank ELSE Then(list[i].act, g[i - 1])]
    BY <1>4
<1> DEFINE h == [i \in 0..m |-> IF i = m THEN Then(list[m].act, g[m - 1]) ELSE g[i]]
           k == [i \in 0..m |-> IF i = 0 THEN Blank ELSE Then(list[i].act, h[i - 1])]
<1>6. \A i \in 0..m : h[i] = k[i]
    <2> TAKE i \in 0..m
    <2>1. CASE i = m
        <3>1. h[m] = Then(list[m].act, g[m - 1]) /\ h[m - 1] = g[m - 1]
            BY <1>3
        <3>2. k[m] = Then(list[m].act, h[m - 1])
            BY <1>3
        <3> QED
            BY <2>1, <3>1, <3>2
    <2>2. CASE i # m
        <3>1. i \in 0..(m - 1) /\ (i # 0 => i - 1 \in 0..m /\ i - 1 # m)
            BY <1>3, <2>2
        <3>2. h[i] = g[i] /\ (i # 0 => h[i - 1] = g[i - 1])
            BY <2>2, <3>1
        <3>3. g[i] = IF i = 0 THEN Blank ELSE Then(list[i].act, g[i - 1])
            BY <1>5, <3>1
        <3> QED
            BY <3>2, <3>3
    <2> QED
        BY <2>1, <2>2
<1>7. h = k
    BY <1>6
<1>8. Has(m)
    BY <1>7
<1> QED
    BY <1>1, <1>8

\* What is replayed is replayed step by step.
LEMMA RedoneSteps ==
    ASSUME NEW list, NEW n \in Nat, Len(list) = n
    PROVE  \E f : /\ f[0] = Blank
                  /\ \A i \in 1..n : f[i] = Then(list[i].act, f[i - 1])
                  /\ Redone(list) = f[n]
<1> DEFINE Leads(g) == g = [i \in 0..n |-> IF i = 0 THEN Blank ELSE Then(list[i].act, g[i - 1])]
           f == CHOOSE g : Leads(g)
<1>1. f = [i \in 0..n |-> IF i = 0 THEN Blank ELSE Then(list[i].act, f[i - 1])]
    <2>1. \E g : Leads(g)
        BY LeadsExists
    <2> HIDE DEF Leads
    <2>2. Leads(f)
        BY <2>1
    <2> QED
        BY <2>2 DEF Leads
<1>2. Redone(list) = f[n]
    BY DEF Redone
<1> HIDE DEF f
<1>3. f[0] = Blank /\ \A i \in 1..n : f[i] = Then(list[i].act, f[i - 1])
    BY <1>1
<1> QED
    BY <1>2, <1>3

LEMMA RedoneEmpty == Redone(<<>>) = Blank
BY RedoneSteps, EmptyIsList

LEMMA RedoneAppend ==
    ASSUME NEW list, IsList(list), NEW e
    PROVE  Redone(Append(list, e)) = Then(e.act, Redone(list))
<1> DEFINE n == Len(list)
           more == Append(list, e)
<1>1. n \in Nat /\ n + 1 \in Nat /\ Len(more) = n + 1 /\ more[n + 1] = e
      /\ \A i \in 1..n : more[i] = list[i]
    BY ListFacts, AppendIsList
<1> HIDE DEF n, more
<1>2. PICK f : /\ f[0] = Blank
               /\ \A i \in 1..n : f[i] = Then(list[i].act, f[i - 1])
               /\ Redone(list) = f[n]
    BY <1>1, RedoneSteps DEF n
<1>3. PICK g : /\ g[0] = Blank
               /\ \A i \in 1..(n + 1) : g[i] = Then(more[i].act, g[i - 1])
               /\ Redone(more) = g[n + 1]
    BY <1>1, RedoneSteps
<1>4. \A i \in 0..n : f[i] = g[i]
    <2> DEFINE T == {i \in 0..n : f[i] # g[i]}
    <2> SUFFICES ASSUME T # {} PROVE FALSE
        OBVIOUS
    <2>3. T \in SUBSET Nat
        BY <1>1
    <2>1. PICK m \in T : \A k \in T : m <= k
        BY <2>3, Least
    <2>2. m \in 1..n /\ m \in 1..(n + 1) /\ m - 1 \in 0..n /\ ~(m <= m - 1)
        BY <1>1, <1>2, <1>3, <2>1
    <2>4. f[m - 1] = g[m - 1]
        BY <2>1, <2>2
    <2> QED
        BY <1>1, <1>2, <1>3, <2>1, <2>2, <2>4
<1>5. n + 1 \in 1..(n + 1) /\ (n + 1) - 1 = n /\ n \in 0..n
    BY <1>1
<1>6. g[n + 1] = Then(more[n + 1].act, g[n])
    BY <1>3, <1>5
<1> QED
    BY <1>1, <1>2, <1>3, <1>4, <1>5, <1>6 DEF more

\* What is kept is put together one action after the other.
LEMMA PassedExists ==
    ASSUME from \in Nat, Len(steps) \in Nat, NEW rejected
    PROVE  \E f : f = [i \in from..Len(steps) |->
                IF i = from THEN completed
                ELSE IF i \in Dropped(rejected) THEN f[i - 1]
                ELSE Append(f[i - 1], steps[i])]
<1> DEFINE Add(i, list) == IF i \in Dropped(rejected) THEN list ELSE Append(list, steps[i])
           Has(m) == \E f : f = [i \in from..m |-> IF i = from THEN completed ELSE Add(i, f[i - 1])]
           T == {m \in Nat : ~Has(m)}
<1>0. SUFFICES Has(Len(steps))
    OBVIOUS
<1> SUFFICES ASSUME T # {} PROVE FALSE
    OBVIOUS
<1> HIDE DEF Add
<1>1. PICK m \in T : \A k \in T : m <= k
    BY Least
<1>2. ASSUME NEW l \in Nat, l <= from PROVE Has(l)
    <2> DEFINE f == [i \in from..l |-> completed]
    <2>1. f = [i \in from..l |-> IF i = from THEN completed ELSE Add(i, f[i - 1])]
        BY <1>2
    <2> QED
        BY <2>1
<1>3. m \in Nat /\ m > from /\ m - 1 \in Nat /\ ~(m <= m - 1)
    <2>1. m \in Nat /\ ~Has(m)
        BY <1>1
    <2>2. ~(m <= from)
        BY <1>2, <2>1
    <2> HIDE DEF Has
    <2> QED
        BY <2>1, <2>2
<1>4. Has(m - 1)
    BY <1>1, <1>3
<1>5. PICK g : g = [i \in from..(m - 1) |-> IF i = from THEN completed ELSE Add(i, g[i - 1])]
    BY <1>4
<1> DEFINE h == [i \in from..m |-> IF i = m THEN Add(m, g[m - 1]) ELSE g[i]]
           k == [i \in from..m |-> IF i = from THEN completed ELSE Add(i, h[i - 1])]
<1>6. \A i \in from..m : h[i] = k[i]
    <2> TAKE i \in from..m
    <2>1. CASE i = m
        <3>1. h[m] = Add(m, g[m - 1]) /\ h[m - 1] = g[m - 1]
            BY <1>3
        <3>2. k[m] = Add(m, h[m - 1])
            BY <1>3
        <3> QED
            BY <2>1, <3>1, <3>2
    <2>2. CASE i # m
        <3>1. i \in from..(m - 1) /\ (i # from => i - 1 \in from..m /\ i - 1 # m)
            BY <1>3, <2>2
        <3>2. h[i] = g[i] /\ (i # from => h[i - 1] = g[i - 1])
            BY <2>2, <3>1
        <3>3. g[i] = IF i = from THEN completed ELSE Add(i, g[i - 1])
            BY <1>5, <3>1
        <3> QED
            BY <3>2, <3>3
    <2> QED
        BY <2>1, <2>2
<1>7. h = k
    BY <1>6
<1>8. Has(m)
    BY <1>7
<1> QED
    BY <1>1, <1>8

LEMMA PassedSteps ==
    ASSUME from \in Nat, Len(steps) \in Nat, from <= Len(steps), NEW rejected
    PROVE  \E f : /\ f[from] = completed
                  /\ \A i \in Own : f[i] = IF i \in Dropped(rejected) THEN f[i - 1]
                                           ELSE Append(f[i - 1], steps[i])
                  /\ Passed(rejected) = f[Len(steps)]
<1> DEFINE f == CHOOSE f : f = [i \in from..Len(steps) |->
                    IF i = from THEN completed
                    ELSE IF i \in Dropped(rejected) THEN f[i - 1]
                    ELSE Append(f[i - 1], steps[i])]
<1>1. f = [i \in from..Len(steps) |-> IF i = from THEN completed
                    ELSE IF i \in Dropped(rejected) THEN f[i - 1]
                    ELSE Append(f[i - 1], steps[i])]
    BY PassedExists, Zenon
<1>2. Passed(rejected) = f[Len(steps)]
    BY DEF Passed
<1> HIDE DEF f
<1>3. f[from] = completed /\ \A i \in Own : f[i] = IF i \in Dropped(rejected) THEN f[i - 1]
                                                   ELSE Append(f[i - 1], steps[i])
    <2>1. from \in from..Len(steps) /\ \A i \in Own : i \in from..Len(steps) /\ i # from
        BY DEF Own
    <2> QED
        BY <1>1, <2>1, Zenon
<1> QED
    BY <1>2, <1>3

---------------------------------------------------------------------------
(* What is kept, replayed, leads where the recording led.                  *)

\* A page, and what an action makes of it.
IsPage(p) ==
    /\ p = [screen |-> p.screen, values |-> p.values, picked |-> p.picked, seen |-> p.seen]
    /\ p.values = [g \in Fields |-> p.values[g]]
    /\ p.picked \in BOOLEAN
    /\ IsList(p.seen)

LEMMA PagesEqual ==
    ASSUME NEW p, NEW q, IsPage(p), IsPage(q), p.screen = q.screen, p.picked = q.picked,
           p.seen = q.seen, \A g \in Fields : p.values[g] = q.values[g]
    PROVE  p = q
<1>1. p.values = q.values
    BY DEF IsPage
<1> QED
    BY <1>1 DEF IsPage

LEMMA BlankIsPage == IsPage(Blank)
BY EmptyIsList DEF IsPage, Blank

LEMMA ConcatIsList ==
    ASSUME NEW s, NEW t, IsList(s), IsList(t)
    PROVE  IsList(s \o t)
<1> DEFINE S == {s[i] : i \in DOMAIN s} \cup {t[i] : i \in DOMAIN t}
           u == s \o t
           U == {u[i] : i \in DOMAIN u}
<1>1. s \in Seq(S) /\ t \in Seq(S)
    BY SeqMonotonic DEF IsList
<1> HIDE DEF S
<1>2. u \in Seq(S)
    BY <1>1, ConcatProperties
<1> HIDE DEF u
<1>3. Len(u) \in Nat /\ DOMAIN u = 1..Len(u) /\ u \in [1..Len(u) -> S]
    BY <1>2, LenProperties
<1>4. u \in [1..Len(u) -> U]
    BY <1>3
<1>5. u \in Seq(U)
    BY <1>3, <1>4, SeqDef
<1> QED
    BY <1>5 DEF u, IsList

LEMMA SingleIsList == ASSUME NEW e PROVE IsList(<<e>>)
<1>1. <<e>> \in Seq({e}) /\ DOMAIN <<e>> = {1} /\ <<e>>[1] = e
    OBVIOUS
<1>2. {<<e>>[i] : i \in DOMAIN <<e>>} = {e}
    BY <1>1
<1> QED
    BY <1>1, <1>2 DEF IsList

LEMMA ConcatNone ==
    ASSUME NEW s, IsList(s)
    PROVE  s \o <<>> = s
BY ConcatEmptySeq DEF IsList

LEMMA DoIsPage ==
    ASSUME NEW p, IsPage(p), NEW act
    PROVE  IsPage(Do(act, p))
<1> DEFINE d == Do(act, p)
<1>1. IsList(Finds(act, p))
    BY EmptyIsList, SingleIsList DEF Finds
<1>2. IsList(p.seen \o Finds(act, p))
    BY <1>1, ConcatIsList DEF IsPage
<1>3. d.seen = p.seen \o Finds(act, p) /\ d.picked = (p.picked \/ act.kind = "pick")
    BY DEF Do
<1>4. d.values = [g \in Fields |-> d.values[g]]
    <2>1. CASE act.kind = "write"
        <3>1. d.values = [p.values EXCEPT ![act.field] = act.value]
            BY <2>1 DEF Do
        <3> QED
            BY <3>1 DEF IsPage
    <2>2. CASE act.kind # "write"
        <3>1. d.values = p.values
            BY <2>2 DEF Do
        <3> QED
            BY <3>1 DEF IsPage
    <2> QED
        BY <2>1, <2>2
<1>5. d = [screen |-> d.screen, values |-> d.values, picked |-> d.picked, seen |-> d.seen]
    BY DEF Do
<1> QED
    BY <1>2, <1>3, <1>4, <1>5 DEF IsPage

\* A write to the field was left out, and a later one is still to come.
Pending(g, i) ==
    \E d, j \in Writes(g) :
        /\ d <= i /\ i < j
        /\ \A o \in Observers : d < o => \A k \in Writes(g) : k < o

\* The page q that what is kept so far leads to is the page p of the recording,
\* but for such fields.
Agrees(q, p, i) ==
    /\ IsPage(q) /\ IsPage(p)
    /\ q.screen = p.screen /\ q.picked = p.picked /\ q.seen = p.seen
    /\ \A g \in Fields : q.values[g] = p.values[g] \/ Pending(g, i)

LEMMA PendingOn ==
    ASSUME from \in Nat, Len(steps) \in Nat, NEW g, NEW i \in Own, Pending(g, i - 1), i \notin Writes(g)
    PROVE  Pending(g, i)
<1>1. PICK d, j \in Writes(g) : /\ d <= i - 1 /\ i - 1 < j
                               /\ \A o \in Observers : d < o => \A k \in Writes(g) : k < o
    BY DEF Pending
<1>2. d \in Nat /\ j \in Nat /\ i \in Nat /\ j # i
    BY DEF Writes, Own
<1>3. d <= i /\ i < j
    BY <1>1, <1>2
<1> QED
    BY <1>1, <1>3 DEF Pending

\* A write that is left out.
LEMMA DroppedAgrees ==
    ASSUME from \in Nat, Len(steps) \in Nat, NEW i \in Own, NEW rejected, i \in Dropped(rejected),
           NEW q, NEW p, Agrees(q, p, i - 1)
    PROVE  Agrees(q, Do(steps[i].act, p), i)
<1> DEFINE act == steps[i].act
           d == Do(act, p)
<1>1. PICK f : i \in Writes(f) /\ (\E j \in Writes(f) : i < j)
               /\ \A o \in Observers : i < o => \A j \in Writes(f) : j < o
    BY DEF Dropped
<1>2. act.kind = "write" /\ act.field = f
    BY <1>1 DEF Writes
<1>3. Pending(f, i)
    BY <1>1 DEF Pending, Own
<1>4. IsPage(d)
    BY DoIsPage DEF Agrees
<1>5. d.screen = p.screen /\ d.picked = p.picked /\ d.seen = p.seen
    <2>1. d.screen = p.screen /\ d.picked = (p.picked \/ FALSE) /\ d.seen = p.seen \o <<>>
        BY <1>2 DEF Do, Finds
    <2>2. p.picked \in BOOLEAN /\ IsList(p.seen)
        BY DEF Agrees, IsPage
    <2> QED
        BY <2>1, <2>2, ConcatNone
<1>6. \A g \in Fields : g # f => d.values[g] = p.values[g]
    BY <1>2 DEF Do, Agrees, IsPage
<1>7. ASSUME NEW g \in Fields, g # f, Pending(g, i - 1) PROVE Pending(g, i)
    <2>1. i \notin Writes(g)
        BY <1>2, <1>7 DEF Writes
    <2> QED
        BY <1>7, <2>1, PendingOn
<1>8. \A g \in Fields : q.values[g] = d.values[g] \/ Pending(g, i)
    BY <1>3, <1>6, <1>7 DEF Agrees
<1> HIDE DEF d
<1>9. Agrees(q, d, i)
    BY <1>4, <1>5, <1>8 DEF Agrees
<1> QED
    BY <1>9 DEF d

\* An action that is kept.
LEMMA KeptAgrees ==
    ASSUME from \in Nat, Len(steps) \in Nat, NEW i \in Own, NEW q, NEW p, Agrees(q, p, i - 1)
    PROVE  Agrees(Do(steps[i].act, q), Do(steps[i].act, p), i)
<1> DEFINE act == steps[i].act
           d == Do(act, p)
           e == Do(act, q)
<1>1. IsPage(d) /\ IsPage(e)
    BY DoIsPage DEF Agrees
<1>2. e.screen = d.screen /\ e.picked = d.picked
    BY DEF Do, Agrees
<1>3. CASE act.kind = "write"
    <2>1. e.seen = d.seen
        BY <1>3 DEF Do, Finds, Agrees
    <2>2. ASSUME NEW g \in Fields PROVE e.values[g] = d.values[g] \/ Pending(g, i)
        <3>1. CASE g = act.field
            BY <1>3, <3>1 DEF Do, Agrees, IsPage
        <3>2. CASE g # act.field
            <4>1. e.values[g] = q.values[g] /\ d.values[g] = p.values[g]
                BY <1>3, <3>2 DEF Do, Agrees, IsPage
            <4>2. i \notin Writes(g)
                BY <3>2 DEF Writes
            <4> QED
                BY <4>1, <4>2, PendingOn DEF Agrees
        <3> QED
            BY <3>1, <3>2
    <2> HIDE DEF d, e
    <2>3. Agrees(e, d, i)
        BY <1>1, <1>2, <2>1, <2>2 DEF Agrees
    <2> QED
        BY <2>3 DEF d, e
<1>4. CASE act.kind # "write"
    <2>1. e.values = q.values /\ d.values = p.values
        BY <1>4 DEF Do
    <2>2. ASSUME NEW g \in Fields PROVE e.values[g] = d.values[g] \/ Pending(g, i)
        <3>1. i \notin Writes(g)
            BY <1>4 DEF Writes
        <3> QED
            BY <2>1, <3>1, PendingOn DEF Agrees
    <2>3. e.seen = d.seen
        <3>1. CASE act.kind = "pick"
            BY <3>1 DEF Do, Finds, Agrees
        <3>2. CASE act.kind # "pick"
            <4>1. i \in Observers
                BY <1>4, <3>2 DEF Observers
            <4>2. ASSUME NEW g, Pending(g, i - 1) PROVE FALSE
                <5>1. PICK c, j \in Writes(g) : /\ c <= i - 1 /\ i - 1 < j
                                               /\ \A o \in Observers : c < o => \A k \in Writes(g) : k < o
                    BY <4>2 DEF Pending
                <5>2. c \in Nat /\ j \in Nat /\ i \in Nat
                    BY DEF Writes, Own
                <5>3. c < i
                    BY <5>1, <5>2
                <5>4. j < i
                    BY <4>1, <5>1, <5>3
                <5> QED
                    BY <5>1, <5>2, <5>4
            <4>3. q = p
                BY <4>2, PagesEqual DEF Agrees
            <4> QED
                BY <4>3
        <3> QED
            BY <3>1, <3>2
    <2> HIDE DEF d, e
    <2>4. Agrees(e, d, i)
        BY <1>1, <1>2, <2>2, <2>3 DEF Agrees
    <2> QED
        BY <2>4 DEF d, e
<1> QED
    BY <1>3, <1>4

\* The page went through the actions of this step, each of them possible, from
\* where the last step left it.
WentThrough(r) ==
    /\ r[from] = boundary
    /\ \A i \in Own : OnScreen(steps[i].act, r[i - 1]) /\ r[i] = Do(steps[i].act, r[i - 1])
    /\ r[Len(steps)] = page

\* The lists are lists, the pages pages; and what is kept leads to the page as the
\* last step that passed left it, from where this one has brought it.
Reproducing ==
    /\ KeptReproduces
    /\ IsList(completed) /\ IsList(steps) /\ IsPage(boundary)
    /\ from \in Nat /\ from <= Len(steps)
    /\ phase = "author" => page = boundary
    /\ phase = "act" => \E r : WentThrough(r)

LEMMA PassedReproduces ==
    ASSUME Reproducing, phase = "act", NEW rejected
    PROVE  Redone(Passed(rejected)) = page /\ IsList(Passed(rejected)) /\ IsPage(page)
<1>1. from \in Nat /\ Len(steps) \in Nat /\ from <= Len(steps)
    BY ListFacts DEF Reproducing
<1>2. PICK f : /\ f[from] = completed
               /\ \A i \in Own : f[i] = IF i \in Dropped(rejected) THEN f[i - 1]
                                        ELSE Append(f[i - 1], steps[i])
               /\ Passed(rejected) = f[Len(steps)]
    BY <1>1, PassedSteps
<1>3. PICK r : WentThrough(r)
    BY DEF Reproducing
<1> DEFINE Good(i) == IsList(f[i]) /\ Agrees(Redone(f[i]), r[i], i)
           T == {i \in from..Len(steps) : ~Good(i)}
<1>4. Good(from)
    <2>1. IsList(completed) /\ Redone(completed) = boundary /\ IsPage(boundary)
        BY DEF Reproducing, KeptReproduces
    <2>2. Agrees(boundary, boundary, from)
        BY <2>1 DEF Agrees
    <2> QED
        BY <1>2, <1>3, <2>1, <2>2 DEF WentThrough
<1>5. ASSUME NEW i \in Own, Good(i - 1) PROVE Good(i)
    <2>1. r[i] = Do(steps[i].act, r[i - 1]) /\ OnScreen(steps[i].act, r[i - 1])
        BY <1>3 DEF WentThrough
    <2>2. CASE i \in Dropped(rejected)
        <3>1. f[i] = f[i - 1]
            BY <1>2, <2>2
        <3>2. Agrees(Redone(f[i - 1]), r[i], i)
            BY <1>1, <1>5, <2>1, <2>2, DroppedAgrees
        <3> QED
            BY <1>5, <3>1, <3>2
    <2>3. CASE i \notin Dropped(rejected)
        <3>1. f[i] = Append(f[i - 1], steps[i])
            BY <1>2, <2>3
        <3>2. IsList(f[i]) /\ Redone(f[i]) = Then(steps[i].act, Redone(f[i - 1]))
            BY <1>5, <3>1, AppendIsList, RedoneAppend
        <3>3. Redone(f[i - 1]).screen = r[i - 1].screen
            BY <1>5 DEF Agrees
        <3>4. Then(steps[i].act, Redone(f[i - 1])) = Do(steps[i].act, Redone(f[i - 1]))
            BY <2>1, <3>3 DEF Then, OnScreen
        <3>5. Agrees(Do(steps[i].act, Redone(f[i - 1])), r[i], i)
            BY <1>1, <1>5, <2>1, KeptAgrees
        <3> QED
            BY <3>2, <3>4, <3>5
    <2> QED
        BY <2>2, <2>3
<1>6. T = {}
    <2> SUFFICES ASSUME T # {} PROVE FALSE
        OBVIOUS
    <2>1. T \in SUBSET Nat
        BY <1>1
    <2>2. PICK m \in T : \A k \in T : m <= k
        BY <2>1, Least
    <2>3. m \in from..Len(steps) /\ ~Good(m)
        BY <2>2
    <2>4. m # from
        BY <1>4, <2>3
    <2> HIDE DEF Good
    <2>5. m \in Own /\ m - 1 \in from..Len(steps) /\ ~(m <= m - 1)
        BY <1>1, <2>3, <2>4 DEF Own
    <2>6. Good(m - 1)
        BY <2>2, <2>5
    <2> QED
        BY <1>5, <2>3, <2>5, <2>6
<1>7. Good(Len(steps))
    <2> HIDE DEF Good
    <2> QED
        BY <1>1, <1>6
<1>8. Agrees(Redone(Passed(rejected)), page, Len(steps)) /\ IsList(Passed(rejected))
    BY <1>2, <1>3, <1>7 DEF WentThrough
<1>9. ASSUME NEW g, Pending(g, Len(steps)) PROVE FALSE
    <2>1. PICK j \in Writes(g) : Len(steps) < j
        BY <1>9 DEF Pending
    <2> QED
        BY <1>1, <2>1 DEF Writes, Own
<1> QED
    BY <1>8, <1>9, PagesEqual DEF Agrees

LEMMA ReproducingInit == Init => Reproducing
<1> SUFFICES ASSUME Init PROVE Reproducing
    OBVIOUS
<1>1. completed = <<>> /\ steps = <<>> /\ boundary = Blank /\ from = 0 /\ phase = "idle"
    BY DEF Init
<1> QED
    BY <1>1, EmptyIsList, BlankIsPage, RedoneEmpty DEF Reproducing, KeptReproduces

\* Nothing is kept yet, and the page is as the application starts.
LEMMA EmptyReproduces ==
    ASSUME completed' = <<>>, boundary' = Blank, IsList(steps'), from' \in Nat, from' <= Len(steps'),
           phase' = "author" => page' = Blank, phase' # "act"
    PROVE  Reproducing'
BY EmptyIsList, BlankIsPage, RedoneEmpty DEF Reproducing, KeptReproduces

LEMMA BeginsReproducing ==
    ASSUME NEW theSpec, NEW theReplies, NEW earlier, Recording(theSpec, theReplies, earlier)
    PROVE  Reproducing'
<1>1. /\ completed' = <<>> /\ boundary' = Blank /\ steps' = <<>> /\ from' = 0
      /\ page' = Blank /\ phase' = "author"
    BY DEF Recording
<1>2. IsList(steps') /\ Len(steps') = 0
    BY <1>1, EmptyIsList
<1> QED
    BY <1>1, <1>2, EmptyReproduces

LEMMA FailedReproducing ==
    ASSUME Reproducing, NEW k, NEW intent, Failed(k, intent)
    PROVE  Reproducing'
<1>1. UNCHANGED <<completed, boundary>> /\ steps' = <<>> /\ from' = 0 /\ phase' = "failed"
    BY DEF Failed, Returned, kept
<1>2. IsList(steps') /\ Len(steps') = 0
    BY <1>1, EmptyIsList
<1> QED
    BY <1>1, <1>2 DEF Reproducing, KeptReproduces

LEMMA ClosedReproducing ==
    ASSUME Reproducing, phase = "act", NEW answer, NEW rejected, Closed(answer, rejected)
    PROVE  Reproducing'
<1>1. /\ completed' = Passed(rejected) /\ boundary' = page /\ page' = page /\ steps' = steps
      /\ from' = Len(steps) /\ phase' = "author"
    BY Zenon DEF Closed
<1>2. Redone(Passed(rejected)) = page /\ IsList(Passed(rejected)) /\ IsPage(page)
    BY PassedReproduces
<1>3. IsList(steps) /\ Len(steps) \in Nat
    BY ListFacts DEF Reproducing
<1>4. KeptReproduces' /\ IsList(completed') /\ IsPage(boundary') /\ IsList(steps')
    BY <1>1, <1>2, <1>3 DEF KeptReproduces
<1>5. from' \in Nat /\ from' <= Len(steps')
    BY <1>1, <1>3
<1> QED
    BY <1>1, <1>4, <1>5 DEF Reproducing

LEMMA ReplanReproducing ==
    ASSUME Reproducing, NEW key, NEW fields, phase = "act", Replan(key, fields)
    PROVE  Reproducing'
<1>1. CASE Closed("complete", superseded \cup fields)
    BY <1>1, ClosedReproducing
<1>2. CASE Failed("engine-gap", "none")
    BY <1>2, FailedReproducing
<1>3. CASE UNCHANGED <<phase, page, steps, from, kept>>
    BY <1>3 DEF kept, Reproducing, KeptReproduces, WentThrough, Own
<1> QED
    BY <1>1, <1>2, <1>3 DEF Replan

LEMMA OpenedReproducing ==
    ASSUME Reproducing, NEW acts, NEW loop, NEW answer, phase = "author", Opened(acts, loop, answer)
    PROVE  Reproducing'
<1>1. /\ from' = Len(steps) /\ steps' = steps /\ page' = page /\ UNCHANGED <<completed, boundary>>
      /\ phase' = "act"
    BY DEF Opened, kept
<1>2. Len(steps) \in Nat /\ page = boundary
    BY ListFacts DEF Reproducing
<1> DEFINE r == [i \in {Len(steps)} |-> page]
<1>3. WentThrough(r)'
    BY <1>1, <1>2 DEF WentThrough, Own
<1> QED
    BY <1>1, <1>2, <1>3 DEF Reproducing, KeptReproduces

\* One more action.
LEMMA PerformReproducing ==
    ASSUME Reproducing, phase = "act", UNCHANGED <<phase, from, kept>>,
           NEW e, OnScreen(e.act, page), page' = Do(e.act, page), steps' = Append(steps, e)
    PROVE  Reproducing'
<1> DEFINE n == Len(steps)
<1>1. n \in Nat /\ from \in Nat /\ from <= n
    BY ListFacts DEF Reproducing
<1>2. IsList(steps') /\ Len(steps') = n + 1 /\ steps'[n + 1] = e
      /\ \A i \in 1..n : steps'[i] = steps[i]
    BY AppendIsList DEF Reproducing
<1>3. PICK r : WentThrough(r)
    BY DEF Reproducing
<1>s. PICK s : s = [i \in from..(n + 1) |-> IF i = n + 1 THEN page' ELSE r[i]]
    OBVIOUS
<1>4. from' = from /\ boundary' = boundary /\ completed' = completed
    BY DEF kept
<1>5. s[from] = boundary
    BY <1>1, <1>3, <1>s DEF WentThrough
<1>6. ASSUME NEW i \in (from + 1)..(n + 1)
      PROVE  OnScreen(steps'[i].act, s[i - 1]) /\ s[i] = Do(steps'[i].act, s[i - 1])
    <2>1. CASE i = n + 1
        <3>1. s[n + 1] = page' /\ s[n] = page /\ (n + 1) - 1 = n
            BY <1>1, <1>3, <1>s DEF WentThrough
        <3> QED
            BY <1>2, <2>1, <3>1
    <2>2. CASE i # n + 1
        <3>1. i \in Own /\ i \in 1..n /\ i \in from..(n + 1) /\ i - 1 \in from..(n + 1) /\ i - 1 # n + 1
            BY <1>1, <2>2 DEF Own
        <3>2. s[i] = r[i] /\ s[i - 1] = r[i - 1] /\ steps'[i] = steps[i]
            BY <1>2, <1>s, <2>2, <3>1
        <3> QED
            BY <1>3, <3>1, <3>2 DEF WentThrough
    <2> QED
        BY <2>1, <2>2
<1>7. s[n + 1] = page'
    BY <1>1, <1>s
<1>8. WentThrough(s)'
    <2>1. s[from'] = boundary' /\ s[Len(steps')] = page'
        BY <1>2, <1>4, <1>5, <1>7
    <2>2. Own' = (from + 1)..(n + 1)
        BY <1>2, <1>4 DEF Own
    <2>3. \A i \in Own' : OnScreen(steps'[i].act, s[i - 1]) /\ s[i] = Do(steps'[i].act, s[i - 1])
        BY <1>6, <2>2
    <2> QED
        BY <2>1, <2>3 DEF WentThrough
<1>9. from' <= Len(steps')
    BY <1>1, <1>2, <1>4
<1> QED
    BY <1>1, <1>2, <1>4, <1>8, <1>9 DEF Reproducing, KeptReproduces

LEMMA RecordStepReproducing == Reproducing /\ RecordStep => Reproducing'
<1> SUFFICES ASSUME Reproducing, RecordStep PROVE Reproducing'
    OBVIOUS
<1>1. CASE Reuse \/ AuthorByRules \/ AuthorByModel
    <2>1. phase = "author" /\ \E acts, loop, answer : Opened(acts, loop, answer)
        BY <1>1 DEF Reuse, AuthorByRules, AuthorByModel, Authors
    <2> QED
        BY <2>1, OpenedReproducing
<1>2. CASE Ambiguous \/ DriverFails \/ NeverFinishes \/ CheckFails
    <2>1. \E k, intent : Failed(k, intent)
        BY <1>2 DEF Ambiguous, DriverFails, NeverFinishes, CheckFails
    <2> QED
        BY <2>1, FailedReproducing
<1>3. CASE FinishStep
    <2>1. phase = "act" /\ Closed(said, superseded)
        BY <1>3 DEF FinishStep, StepIsDone
    <2> QED
        BY <2>1, ClosedReproducing
<1>4. CASE AskForRest
    BY <1>4, ReplanReproducing DEF AskForRest
<1>5. CASE RefuseMissing \/ RefuseRejected \/ RefuseOccluded
    <2>1. phase = "act"
        BY <1>5 DEF RefuseMissing, RefuseRejected, RefuseOccluded, Acts
    <2>2. \E key, fields, k : Refused(key, fields, k)
        BY <1>5 DEF RefuseMissing, RefuseRejected, RefuseOccluded
    <2>3. (\E key, fields : Replan(key, fields)) \/ (\E k, intent : Failed(k, intent))
        BY <2>2 DEF Refused
    <2> QED
        BY <2>1, <2>3, ReplanReproducing, FailedReproducing
<1>6. CASE Perform
    <2>1. phase = "act" /\ OnScreen(Head(plan), page)
        BY <1>6 DEF Perform, Acts, Missing, Holds, OnScreen
    <2>2. CASE Failed("wrong-wait-signal", spec[at].intent)
        BY <2>2, FailedReproducing
    <2>3. CASE /\ page' = Do(Head(plan), page)
               /\ steps' = Append(steps, [act |-> Head(plan), intent |-> spec[at].intent, number |-> at])
               /\ UNCHANGED <<phase, from, kept>>
        <3> DEFINE e == [act |-> Head(plan), intent |-> spec[at].intent, number |-> at]
        <3>1. e.act = Head(plan) /\ steps' = Append(steps, e)
            BY <2>3
        <3> HIDE DEF e
        <3> QED
            BY <2>1, <2>3, <3>1, PerformReproducing
    <2> QED
        BY <1>6, <2>2, <2>3 DEF Perform
<1> QED
    BY <1>1, <1>2, <1>3, <1>4, <1>5, <1>6 DEF RecordStep

LEMMA ExitReproducing ==
    ASSUME Reproducing, NEW code, NEW left, Exit(code, left)
    PROVE  Reproducing'
<1>1. completed' = <<>> /\ boundary' = Blank /\ steps' = steps /\ from' = from /\ phase' = "idle"
    BY DEF Exit, stepping
<1> QED
    BY <1>1, EmptyReproduces DEF Reproducing

LEMMA EndsReproducing == Reproducing /\ Ends => Reproducing'
<1> SUFFICES ASSUME Reproducing, Ends PROVE Reproducing'
    OBVIOUS
<1>1. CASE Store
    <2>1. UNCHANGED <<completed, boundary>> /\ steps' = <<>> /\ from' = 0
          /\ phase' \in {"recorded", "failed"}
        BY <1>1 DEF Store, Returned, kept
    <2>2. IsList(steps') /\ Len(steps') = 0
        BY <2>1, EmptyIsList
    <2> QED
        BY <2>1, <2>2 DEF Reproducing, KeptReproduces
<1>2. CASE Finish \/ ReportFailure \/ GiveUp \/ PatchInVain \/ BreakOff
    <2>1. \E code, left : Exit(code, left)
        BY <1>2 DEF Finish, ReportFailure, GiveUp, PatchInVain, BreakOff, KeepCheckpoint
    <2> QED
        BY <2>1, ExitReproducing
<1>3. CASE RetryFresh \/ PatchAndRerun
    <2>1. \E theSpec, theReplies, earlier : Recording(theSpec, theReplies, earlier)
        BY <1>3 DEF RetryFresh, PatchAndRerun
    <2> QED
        BY <2>1, BeginsReproducing
<1> QED
    BY <1>1, <1>2, <1>3 DEF Ends

LEMMA NextReproducing == Reproducing /\ [Next]_vars => Reproducing'
<1> SUFFICES ASSUME Reproducing, [Next]_vars PROVE Reproducing'
    OBVIOUS
<1>1. CASE Recorder
    BY <1>1, RecordStepReproducing DEF Recorder
<1>2. CASE Ends
    BY <1>2, EndsReproducing
<1>3. CASE Start
    <2>1. \E theSpec, theReplies, earlier : Recording(theSpec, theReplies, earlier)
        BY <1>3 DEF Start
    <2> QED
        BY <2>1, BeginsReproducing
<1>4. CASE UNCHANGED <<phase, page, steps, from, completed, boundary>>
    BY <1>4 DEF Reproducing, KeptReproduces, WentThrough, Own
<1>5. CASE Cover /\ UNCHANGED command
    BY <1>4, <1>5 DEF Cover, stepping, kept
<1>6. CASE Edit \/ UNCHANGED vars
    BY <1>4, <1>6 DEF Edit, vars, recorder, stepping, kept
<1> QED
    BY <1>1, <1>2, <1>3, <1>5, <1>6 DEF Next, Ends

\* What is kept of a recording (keep_passed), replayed, finds on the page all that
\* recording found there and leaves it as recording left it, whatever values the
\* page rejected and whichever writes were left out for it: for every form, every
\* model and every number of actions.
THEOREM WhatIsKeptReproduces == Spec => []KeptReproduces
<1>1. Reproducing => KeptReproduces
    BY DEF Reproducing
<1> QED
    BY <1>1, ReproducingInit, NextReproducing, PTL DEF Spec

---------------------------------------------------------------------------
(* Reuse.                                                                  *)

\* What is kept of the steps that passed, as a list of earlier steps: in the order
\* of the steps, each with the intent of its step.
InStepOrder(list) ==
    /\ IsList(list)
    /\ \A i \in DOMAIN list : list[i].number \in Nat
    /\ \A i, j \in DOMAIN list : i < j =>
          /\ list[i].number <= list[j].number
          /\ list[i].number = list[j].number => list[i].intent = list[j].intent

\* The groups taken over, each what one step did, and all before the next.
Taken ==
    /\ IsList(reused) /\ next \in Nat
    /\ StepsReadApart =>
          /\ \A i \in DOMAIN reused : \E g \in DOMAIN old : g < next /\ reused[i] = {old[g].number}
          /\ \A i, j \in DOMAIN reused : i < j => \A m \in reused[i], n \in reused[j] : m < n

\* The steps on offer, now or to a later command, are kept ones, and those kept so
\* far are from steps before this one.
Offering ==
    /\ InStepOrder(old)
    /\ InStepOrder(checkpoint)
    /\ trace # <<>> => InStepOrder(trace[1].steps)

Numbered ==
    /\ InStepOrder(completed)
    /\ at \in Nat
    /\ phase \in {"author", "act"} => \A i \in DOMAIN completed : completed[i].number < at
    /\ phase = "act" => \A i \in Own : steps[i].number = at /\ steps[i].intent = spec[at].intent

InOrder == Reproducing /\ Taken /\ Offering /\ Numbered

LEMMA EmptyInOrder == InStepOrder(<<>>)
BY EmptyIsList DEF InStepOrder

\* One step more, of the last number.
LEMMA AppendInOrder ==
    ASSUME NEW list, InStepOrder(list), NEW e, e.number \in Nat,
           \A i \in DOMAIN list : /\ list[i].number <= e.number
                                  /\ list[i].number = e.number => list[i].intent = e.intent
    PROVE  /\ InStepOrder(Append(list, e))
           /\ \A i \in DOMAIN Append(list, e) :
                 /\ Append(list, e)[i].number <= e.number
                 /\ Append(list, e)[i].number = e.number => Append(list, e)[i].intent = e.intent
<1> DEFINE n == Len(list)
           t == Append(list, e)
<1>1. n \in Nat /\ DOMAIN list = 1..n
    BY ListFacts DEF InStepOrder
<1>2. IsList(t) /\ Len(t) = n + 1 /\ t[n + 1] = e /\ \A i \in 1..n : t[i] = list[i]
    BY AppendIsList DEF InStepOrder
<1> HIDE DEF t, n
<1>3. DOMAIN t = 1..(n + 1)
    BY <1>2, ListFacts
<1>4. \A i \in DOMAIN t : i = n + 1 \/ (i \in 1..n /\ i \in DOMAIN list /\ t[i] = list[i])
    BY <1>1, <1>2, <1>3
<1>5. e.number <= e.number
    OBVIOUS
<1>6. \A i \in DOMAIN t : /\ t[i].number \in Nat
                          /\ t[i].number <= e.number
                          /\ t[i].number = e.number => t[i].intent = e.intent
    BY <1>2, <1>4, <1>5 DEF InStepOrder
<1>7. ASSUME NEW i \in DOMAIN t, NEW j \in DOMAIN t, i < j
      PROVE  t[i].number <= t[j].number /\ (t[i].number = t[j].number => t[i].intent = t[j].intent)
    <2>1. CASE j = n + 1
        BY <1>2, <1>6, <2>1
    <2>2. CASE j # n + 1
        <3>1. i # n + 1
            BY <1>1, <1>3, <1>7, <2>2
        <3> QED
            BY <1>4, <1>7, <2>2, <3>1 DEF InStepOrder
    <2> QED
        BY <2>1, <2>2
<1> QED
    BY <1>2, <1>6, <1>7 DEF InStepOrder, t

\* What is kept of a step that is done.
LEMMA PassedInOrder ==
    ASSUME Reproducing, Numbered, phase = "act", NEW rejected
    PROVE  InStepOrder(Passed(rejected))
           /\ \A i \in DOMAIN Passed(rejected) : Passed(rejected)[i].number < at + 1
<1>1. from \in Nat /\ Len(steps) \in Nat /\ from <= Len(steps) /\ at \in Nat
    BY ListFacts DEF Reproducing, Numbered
<1>2. PICK f : /\ f[from] = completed
               /\ \A i \in Own : f[i] = IF i \in Dropped(rejected) THEN f[i - 1]
                                        ELSE Append(f[i - 1], steps[i])
               /\ Passed(rejected) = f[Len(steps)]
    BY <1>1, PassedSteps
<1> DEFINE Good(list) == /\ InStepOrder(list)
                         /\ \A k \in DOMAIN list :
                               /\ list[k].number <= at
                               /\ list[k].number = at => list[k].intent = spec[at].intent
           T == {i \in from..Len(steps) : ~Good(f[i])}
<1>3. Good(f[from])
    <2>1. \A k \in DOMAIN completed : completed[k].number \in Nat /\ completed[k].number < at
        BY DEF Numbered, InStepOrder
    <2>2. \A k \in DOMAIN completed : completed[k].number <= at /\ completed[k].number # at
        BY <1>1, <2>1
    <2> QED
        BY <1>2, <2>2 DEF Numbered
<1>4. ASSUME NEW i \in Own, Good(f[i - 1]) PROVE Good(f[i])
    <2>1. CASE i \in Dropped(rejected)
        <3>1. f[i] = f[i - 1]
            BY <1>2, <2>1
        <3> HIDE DEF Good
        <3> QED
            BY <1>4, <3>1
    <2>2. CASE i \notin Dropped(rejected)
        <3>1. f[i] = Append(f[i - 1], steps[i])
            BY <1>2, <2>2
        <3>2. steps[i].number = at /\ steps[i].intent = spec[at].intent
            BY DEF Numbered
        <3>3. PICK e : e = steps[i]
            OBVIOUS
        <3>4. e.number = at /\ e.intent = spec[at].intent /\ e.number \in Nat
            BY <1>1, <3>2, <3>3
        <3>5. PICK list : list = f[i - 1]
            OBVIOUS
        <3>6. InStepOrder(list)
              /\ \A k \in DOMAIN list : /\ list[k].number <= e.number
                                        /\ list[k].number = e.number => list[k].intent = e.intent
            BY <1>4, <3>4, <3>5
        <3>7. Good(Append(list, e))
            BY <3>4, <3>6, AppendInOrder
        <3> HIDE DEF Good
        <3> QED
            BY <3>1, <3>3, <3>5, <3>7
    <2> QED
        BY <2>1, <2>2
<1> HIDE DEF Good
<1>5. T = {}
    <2> SUFFICES ASSUME T # {} PROVE FALSE
        OBVIOUS
    <2>1. T \in SUBSET Nat
        BY <1>1
    <2>2. PICK m \in T : \A k \in T : m <= k
        BY <2>1, Least
    <2>3. m \in from..Len(steps) /\ ~Good(f[m])
        BY <2>2
    <2>4. m # from
        BY <1>3, <2>3
    <2>5. m \in Own /\ m - 1 \in from..Len(steps) /\ ~(m <= m - 1)
        BY <1>1, <2>3, <2>4 DEF Own
    <2>6. Good(f[m - 1])
        BY <2>2, <2>5
    <2> QED
        BY <1>4, <2>3, <2>5, <2>6
<1>6. Good(Passed(rejected))
    BY <1>1, <1>2, <1>5
<1>7. \A i \in DOMAIN Passed(rejected) :
          Passed(rejected)[i].number \in Nat /\ Passed(rejected)[i].number <= at
    BY <1>6 DEF Good, InStepOrder
<1>8. \A x \in Nat : x <= at => x < at + 1
    BY <1>1
<1> QED
    BY <1>6, <1>7, <1>8 DEF Good

\* A group holds what one step did.
LEMMA GroupIsOneStep ==
    ASSUME InStepOrder(old), StepsReadApart, NEW g \in DOMAIN old
    PROVE  {old[i].number : i \in Group(g)} = {old[g].number}
<1>1. Len(old) \in Nat /\ DOMAIN old = 1..Len(old) /\ g \in 1..Len(old)
    BY ListFacts DEF InStepOrder
<1> DEFINE T == {i \in Group(g) : old[i].number # old[g].number}
<1>2. T = {}
    <2> SUFFICES ASSUME T # {} PROVE FALSE
        OBVIOUS
    <2>1. T \in SUBSET Nat
        BY <1>1 DEF Group
    <2>2. PICK m \in T : \A k \in T : m <= k
        BY <2>1, Least
    <2>3. m \in g..Len(old) /\ m # g /\ \A k \in g..m : old[k].intent = old[g].intent
        BY <2>2 DEF Group
    <2>4. m - 1 \in g..Len(old) /\ (\A k \in g..(m - 1) : k \in g..m) /\ ~(m <= m - 1)
          /\ m \in DOMAIN old /\ m # 1 /\ m \in g..m /\ m - 1 \in g..m
        BY <1>1, <2>3
    <2>5. m - 1 \in Group(g)
        BY <2>3, <2>4 DEF Group
    <2>6. old[m - 1].number = old[g].number
        BY <2>2, <2>4, <2>5
    <2>7. old[m].number = old[m - 1].number
        BY <2>3, <2>4 DEF StepsReadApart
    <2> QED
        BY <2>2, <2>6, <2>7
<1>3. g \in Group(g)
    BY <1>1 DEF Group
<1> QED
    BY <1>2, <1>3

\* Every group is what a later step did than any step before it.
LEMMA GroupsAreLater ==
    ASSUME InStepOrder(old), NEW g \in Groups, NEW h \in DOMAIN old, h < g
    PROVE  old[h].number < old[g].number
<1>1. Len(old) \in Nat /\ DOMAIN old = 1..Len(old) /\ g \in 1..Len(old) /\ h \in 1..Len(old)
    BY ListFacts DEF InStepOrder, Groups
<1>2. g # 1 /\ g - 1 \in DOMAIN old /\ g - 1 < g /\ (h = g - 1 \/ h < g - 1)
    BY <1>1
<1>3. old[g].intent # old[g - 1].intent
    BY <1>2 DEF Groups
<1>4. old[g - 1].number <= old[g].number /\ old[g - 1].number # old[g].number
    BY <1>1, <1>2, <1>3 DEF InStepOrder
<1>5. h = g - 1 \/ old[h].number <= old[g - 1].number
    BY <1>1, <1>2 DEF InStepOrder
<1>6. old[h].number \in Nat /\ old[g - 1].number \in Nat /\ old[g].number \in Nat
    BY <1>1, <1>2 DEF InStepOrder
<1> QED
    BY <1>4, <1>5, <1>6

LEMMA InOrderInit == Init => InOrder
<1> SUFFICES ASSUME Init PROVE InOrder
    OBVIOUS
<1>1. /\ completed = <<>> /\ old = <<>> /\ checkpoint = <<>> /\ trace = <<>> /\ reused = <<>>
      /\ next = 1 /\ at = 1 /\ phase = "idle"
    BY DEF Init
<1>2. Taken /\ Offering /\ Numbered
    BY <1>1, EmptyIsList, EmptyInOrder DEF Taken, Offering, Numbered
<1> QED
    BY <1>2, ReproducingInit DEF InOrder

\* Nothing is on offer and nothing was taken.
LEMMA NothingTaken ==
    ASSUME reused' = <<>>, next' = 1
    PROVE  Taken'
BY EmptyIsList DEF Taken, StepsReadApart

\* A recording begins over earlier steps.
LEMMA BeginsInOrder ==
    ASSUME Offering, UNCHANGED <<trace, checkpoint>>,
           NEW theSpec, NEW theReplies, NEW earlier, InStepOrder(earlier),
           Recording(theSpec, theReplies, earlier)
    PROVE  InOrder'
<1>1. /\ phase' = "author" /\ old' = earlier /\ next' = 1 /\ reused' = <<>> /\ at' = 1
      /\ completed' = <<>>
    BY DEF Recording
<1>2. Offering'
    BY <1>1 DEF Offering
<1>3. Numbered'
    BY <1>1, EmptyInOrder DEF Numbered
<1> QED
    BY <1>1, <1>2, <1>3, NothingTaken, BeginsReproducing DEF InOrder

\* The recorder has returned.
LEMMA ReturnedInOrder ==
    ASSUME Offering, Numbered, Returned, UNCHANGED <<completed, at, checkpoint>>,
           phase' \notin {"author", "act"},
           trace' = trace \/ trace'[1].steps = completed
    PROVE  Taken' /\ Offering' /\ Numbered'
<1>1. old' = <<>> /\ next' = 1 /\ reused' = <<>>
    BY DEF Returned
<1>2. Offering'
    BY <1>1, EmptyInOrder DEF Offering, Numbered
<1>3. Numbered'
    BY DEF Numbered
<1> QED
    BY <1>1, <1>2, <1>3, NothingTaken

LEMMA FailedInOrder ==
    ASSUME InOrder, NEW k, NEW intent, Failed(k, intent), UNCHANGED command
    PROVE  Taken' /\ Offering' /\ Numbered'
<1>1. Returned /\ UNCHANGED <<completed, at>> /\ phase' = "failed"
    BY DEF Failed, kept
<1>2. UNCHANGED <<checkpoint, trace>>
    BY DEF command
<1> QED
    BY <1>1, <1>2, ReturnedInOrder DEF InOrder

LEMMA ClosedInOrder ==
    ASSUME InOrder, phase = "act", NEW answer, NEW rejected, Closed(answer, rejected),
           UNCHANGED command
    PROVE  Taken' /\ Offering' /\ Numbered'
<1>1. completed' = Passed(rejected) /\ at' = at + 1 /\ phase' = "author"
      /\ UNCHANGED <<old, next, reused>>
    BY Zenon DEF Closed, reuse
<1>2. UNCHANGED <<checkpoint, trace>>
    BY DEF command
<1>3. InStepOrder(Passed(rejected))
      /\ \A i \in DOMAIN Passed(rejected) : Passed(rejected)[i].number < at + 1
    BY PassedInOrder DEF InOrder
<1>4. Taken' /\ Offering'
    BY <1>1, <1>2 DEF InOrder, Taken, Offering, StepsReadApart
<1>5. at' \in Nat
    BY <1>1 DEF InOrder, Numbered
<1> QED
    BY <1>1, <1>3, <1>4, <1>5 DEF Numbered

\* A step goes on: nothing that the invariant speaks of changes.
LEMMA StillInOrder ==
    ASSUME InOrder, UNCHANGED <<phase, spec, old, next, reused, at, steps, from, completed>>,
           UNCHANGED command
    PROVE  Taken' /\ Offering' /\ Numbered'
BY DEF command, InOrder, Taken, Offering, Numbered, Own, StepsReadApart

LEMMA ReplanInOrder ==
    ASSUME InOrder, NEW key, NEW fields, phase = "act", Replan(key, fields), UNCHANGED command
    PROVE  Taken' /\ Offering' /\ Numbered'
<1>1. CASE Closed("complete", superseded \cup fields)
    BY <1>1, ClosedInOrder
<1>2. CASE Failed("engine-gap", "none")
    BY <1>2, FailedInOrder
<1>3. CASE UNCHANGED <<phase, spec, reuse, at, steps, from, kept>>
    BY <1>3, StillInOrder DEF kept, reuse
<1> QED
    BY <1>1, <1>2, <1>3 DEF Replan

\* A step begins: none of its actions is performed yet.
LEMMA OpenedInOrder ==
    ASSUME InOrder, NEW acts, NEW loop, NEW answer, phase = "author", Opened(acts, loop, answer),
           UNCHANGED command, UNCHANGED old
    PROVE  Offering' /\ Numbered'
<1>1. from' = Len(steps) /\ steps' = steps /\ at' = at /\ completed' = completed /\ phase' = "act"
    BY DEF Opened, kept
<1>2. UNCHANGED <<checkpoint, trace>>
    BY DEF command
<1>3. Offering'
    BY <1>2 DEF InOrder, Offering
<1>4. Len(steps) \in Nat
    BY ListFacts DEF InOrder, Reproducing
<1>5. Own' = {}
    BY <1>1, <1>4 DEF Own
<1> QED
    BY <1>1, <1>3, <1>5 DEF InOrder, Numbered

\* A group that comes after those taken.
LEMMA TakenInOrder ==
    ASSUME InOrder, StepsReadApart, NEW g \in Groups, g >= next,
           reused' = Append(reused, {old[i].number : i \in Group(g)})
    PROVE  /\ \A i \in DOMAIN reused' : \E h \in DOMAIN old : h < g + 1 /\ reused'[i] = {old[h].number}
           /\ \A i, j \in DOMAIN reused' : i < j => \A x \in reused'[i], y \in reused'[j] : x < y
<1>1. Len(old) \in Nat /\ DOMAIN old = 1..Len(old)
    BY ListFacts DEF InOrder, Offering, InStepOrder
<1>2. g \in DOMAIN old /\ g \in Nat /\ next \in Nat /\ g < g + 1
    BY <1>1 DEF Groups, InOrder, Taken
<1>3. reused' = Append(reused, {old[g].number})
    BY <1>2, GroupIsOneStep DEF InOrder, Offering
<1> DEFINE n == Len(reused)
<1>4. /\ IsList(reused) /\ n \in Nat /\ DOMAIN reused = 1..n
      /\ \A i \in DOMAIN reused : \E h \in DOMAIN old : h < next /\ reused[i] = {old[h].number}
      /\ \A i, j \in DOMAIN reused : i < j => \A x \in reused[i], y \in reused[j] : x < y
    BY ListFacts DEF InOrder, Taken
<1>5. /\ IsList(reused') /\ reused'[n + 1] = {old[g].number}
      /\ Len(reused') = n + 1 /\ \A i \in 1..n : reused'[i] = reused[i]
    BY <1>3, <1>4, AppendIsList
<1>6. DOMAIN reused' = 1..(n + 1)
    BY <1>5, ListFacts
<1> HIDE DEF n
<1>7. \A i \in DOMAIN reused' : i = n + 1 \/ (i # n + 1 /\ i \in DOMAIN reused /\ reused'[i] = reused[i])
    BY <1>4, <1>5, <1>6
<1>8. \A i \in DOMAIN reused : \E h \in DOMAIN old : h < g /\ h < g + 1 /\ reused[i] = {old[h].number}
    BY <1>1, <1>2, <1>4
<1>9. \A i \in DOMAIN reused' : \E h \in DOMAIN old : h < g + 1 /\ reused'[i] = {old[h].number}
    BY <1>2, <1>5, <1>7, <1>8
<1>10. ASSUME NEW i \in DOMAIN reused', NEW j \in DOMAIN reused', i < j,
              NEW x \in reused'[i], NEW y \in reused'[j]
       PROVE  x < y
    <2>1. i # n + 1 /\ i \in DOMAIN reused
        BY <1>4, <1>6, <1>10
    <2>2. CASE j = n + 1
        <3>1. PICK h \in DOMAIN old : h < g /\ reused[i] = {old[h].number}
            BY <1>8, <2>1
        <3>2. x = old[h].number /\ y = old[g].number
            BY <1>5, <1>7, <1>10, <2>1, <2>2, <3>1
        <3>3. old[h].number < old[g].number
            BY <3>1, GroupsAreLater DEF InOrder, Offering
        <3> QED
            BY <3>2, <3>3
    <2>3. CASE j # n + 1
        BY <1>4, <1>7, <1>10, <2>1, <2>3
    <2> QED
        BY <2>2, <2>3
<1> QED
    BY <1>9, <1>10

\* A group is taken over.
LEMMA ReuseInOrderStep ==
    ASSUME InOrder, Reuse, UNCHANGED command
    PROVE  Taken' /\ Offering' /\ Numbered'
<1>1. phase = "author" /\ Offers(spec[at].intent) # {}
    BY DEF Reuse, Authors, Offered, Reusable
<1>2. PICK g : g = Offer(spec[at].intent)
    OBVIOUS
<1>3. /\ next' = g + 1 /\ reused' = Append(reused, {old[i].number : i \in Group(g)}) /\ old' = old
      /\ \E acts : Opened(acts, FALSE, "none")
    BY <1>2 DEF Reuse
<1>4. Len(old) \in Nat /\ DOMAIN old = 1..Len(old)
    BY ListFacts DEF InOrder, Offering, InStepOrder
<1>5. g \in Groups /\ g >= next
    <2>1. Offers(spec[at].intent) \in SUBSET Nat
        BY <1>4 DEF Offers, Groups
    <2>2. \E h \in Offers(spec[at].intent) : \A k \in Offers(spec[at].intent) : h <= k
        BY <1>1, <2>1, Least
    <2>3. g \in Offers(spec[at].intent)
        BY <1>2, <2>2 DEF Offer
    <2> QED
        BY <2>3 DEF Offers
<1>6. g \in DOMAIN old /\ g \in Nat /\ next \in Nat /\ g < g + 1
    BY <1>4, <1>5 DEF Groups, InOrder, Taken
<1>7. IsList(reused')
    BY <1>3, AppendIsList DEF InOrder, Taken
<1>8. StepsReadApart' => StepsReadApart
    BY <1>3 DEF StepsReadApart
<1>9. next' = g + 1 /\ next' \in Nat
    BY <1>3, <1>6
<1>10. Taken'
    <2>1. StepsReadApart' =>
              /\ \A i \in DOMAIN reused' : \E h \in DOMAIN old : h < g + 1 /\ reused'[i] = {old[h].number}
              /\ \A i, j \in DOMAIN reused' : i < j => \A x \in reused'[i], y \in reused'[j] : x < y
        BY <1>3, <1>5, <1>8, TakenInOrder
    <2>2. StepsReadApart' =>
              \A i \in DOMAIN reused' : \E h \in DOMAIN old' : h < next' /\ reused'[i] = {old'[h].number}
        <3>1. old' = old /\ next' = g + 1
            BY <1>3
        <3> QED
            BY ONLY <2>1, <3>1
    <2> QED
        BY <1>7, <1>9, <2>1, <2>2 DEF Taken
<1> QED
    BY <1>1, <1>3, <1>10, OpenedInOrder

\* An action is written down with the number of its step.
LEMMA PerformInOrder ==
    ASSUME InOrder, phase = "act", UNCHANGED <<phase, spec, reuse, at, from, kept>>, UNCHANGED command,
           NEW e, e.number = at, e.intent = spec[at].intent, steps' = Append(steps, e)
    PROVE  Taken' /\ Offering' /\ Numbered'
<1> DEFINE n == Len(steps)
<1>1. n \in Nat /\ from \in Nat
    BY ListFacts DEF InOrder, Reproducing
<1>2. Len(steps') = n + 1 /\ steps'[n + 1] = e /\ \A i \in 1..n : steps'[i] = steps[i]
    BY AppendIsList DEF InOrder, Reproducing
<1>3. Own' = (from + 1)..(n + 1)
    BY <1>2 DEF Own
<1>4. \A i \in Own' : i = n + 1 \/ (i \in Own /\ i \in 1..n)
    BY <1>1, <1>3 DEF Own
<1>5. \A i \in Own' : steps'[i].number = at /\ steps'[i].intent = spec[at].intent
    BY <1>2, <1>4 DEF InOrder, Numbered
<1>6. UNCHANGED <<completed, old, next, reused, checkpoint, trace>>
    BY DEF kept, reuse, command
<1>7. Taken' /\ Offering'
    BY <1>6 DEF InOrder, Taken, Offering, StepsReadApart
<1>8. Numbered'
    BY <1>5, <1>6 DEF InOrder, Numbered
<1> QED
    BY <1>7, <1>8

LEMMA RecorderInOrder == InOrder /\ Recorder => InOrder'
<1> SUFFICES ASSUME InOrder, RecordStep, UNCHANGED command PROVE Taken' /\ Offering' /\ Numbered'
    BY RecordStepReproducing DEF Recorder, InOrder
<1>1. CASE Reuse
    BY <1>1, ReuseInOrderStep
<1>2. CASE AuthorByRules \/ AuthorByModel
    <2>1. phase = "author" /\ UNCHANGED reuse /\ \E acts, loop, answer : Opened(acts, loop, answer)
        BY <1>2 DEF AuthorByRules, AuthorByModel, Authors
    <2>2. UNCHANGED <<old, next, reused>>
        BY <2>1 DEF reuse
    <2>3. Taken'
        BY <2>2 DEF InOrder, Taken, StepsReadApart
    <2> QED
        BY <2>1, <2>2, <2>3, OpenedInOrder
<1>3. CASE Ambiguous \/ DriverFails \/ NeverFinishes \/ CheckFails
    <2>1. \E k, intent : Failed(k, intent)
        BY <1>3 DEF Ambiguous, DriverFails, NeverFinishes, CheckFails
    <2> QED
        BY <2>1, FailedInOrder
<1>4. CASE FinishStep
    <2>1. phase = "act" /\ Closed(said, superseded)
        BY <1>4 DEF FinishStep, StepIsDone
    <2> QED
        BY <2>1, ClosedInOrder
<1>5. CASE AskForRest
    BY <1>5, ReplanInOrder DEF AskForRest
<1>6. CASE RefuseMissing \/ RefuseRejected \/ RefuseOccluded
    <2>1. phase = "act"
        BY <1>6 DEF RefuseMissing, RefuseRejected, RefuseOccluded, Acts
    <2>2. \E key, fields, k : Refused(key, fields, k)
        BY <1>6 DEF RefuseMissing, RefuseRejected, RefuseOccluded
    <2>3. (\E key, fields : Replan(key, fields)) \/ (\E k, intent : Failed(k, intent))
        BY <2>2 DEF Refused
    <2> QED
        BY <2>1, <2>3, ReplanInOrder, FailedInOrder
<1>7. CASE Perform
    <2>1. phase = "act"
        BY <1>7 DEF Perform, Acts
    <2>2. CASE Failed("wrong-wait-signal", spec[at].intent)
        BY <2>2, FailedInOrder
    <2>3. CASE /\ steps' = Append(steps, [act |-> Head(plan), intent |-> spec[at].intent, number |-> at])
               /\ UNCHANGED <<phase, spec, reuse, at, from, kept>>
        <3> DEFINE e == [act |-> Head(plan), intent |-> spec[at].intent, number |-> at]
        <3>1. e.number = at /\ e.intent = spec[at].intent /\ steps' = Append(steps, e)
            BY <2>3
        <3> HIDE DEF e
        <3>2. PICK x : x = e
            OBVIOUS
        <3> QED
            BY <2>1, <2>3, <3>1, <3>2, PerformInOrder
    <2> QED
        BY <1>7, <2>2, <2>3 DEF Perform
<1> QED
    BY <1>1, <1>2, <1>3, <1>4, <1>5, <1>6, <1>7 DEF RecordStep

\* A command that ends leaves the checkpoint as it was, or what was kept, or none.
LEMMA ExitInOrder ==
    ASSUME InOrder, NEW code, NEW left, Exit(code, left), InStepOrder(left)
    PROVE  InOrder'
<1>1. /\ checkpoint' = left /\ trace' = trace /\ at' = 1 /\ completed' = <<>> /\ phase' = "idle"
      /\ UNCHANGED <<old, next, reused>>
    BY DEF Exit, reuse
<1>2. Taken' /\ Offering'
    BY <1>1 DEF InOrder, Taken, Offering, StepsReadApart
<1>3. Numbered'
    BY <1>1, EmptyInOrder DEF Numbered
<1> QED
    BY <1>2, <1>3, ExitReproducing DEF InOrder

LEMMA EndsInOrder == InOrder /\ Ends => InOrder'
<1> SUFFICES ASSUME InOrder, Ends PROVE InOrder'
    OBVIOUS
<1>1. InStepOrder(completed) /\ InStepOrder(checkpoint)
    BY DEF InOrder, Numbered, Offering
<1>2. CASE Store
    <2>1. /\ Returned /\ UNCHANGED <<completed, at, checkpoint>> /\ phase' \in {"recorded", "failed"}
          /\ trace' = trace \/ trace' = <<[steps |-> completed, spec |-> spec]>>
        BY <1>2 DEF Store, kept
    <2>2. trace' = trace \/ trace'[1].steps = completed
        BY <2>1
    <2>3. Taken' /\ Offering' /\ Numbered'
        BY <1>1, <2>1, <2>2, ReturnedInOrder DEF InOrder
    <2> QED
        BY <1>2, <2>3, EndsReproducing DEF InOrder
<1>3. CASE Finish \/ ReportFailure \/ GiveUp \/ PatchInVain \/ BreakOff
    <2>1. \E code, left : Exit(code, left) /\ left \in {<<>>, completed, checkpoint}
        BY <1>3 DEF Finish, ReportFailure, GiveUp, PatchInVain, BreakOff, KeepCheckpoint
    <2> QED
        BY <1>1, <2>1, EmptyInOrder, ExitInOrder
<1>4. CASE RetryFresh \/ PatchAndRerun
    <2>1. /\ \E theSpec, theReplies, earlier :
                earlier \in {<<>>, completed} /\ Recording(theSpec, theReplies, earlier)
          /\ UNCHANGED <<trace, checkpoint>>
        BY <1>4 DEF RetryFresh, PatchAndRerun
    <2> QED
        BY <1>1, <2>1, EmptyInOrder, BeginsInOrder DEF InOrder
<1> QED
    BY <1>2, <1>3, <1>4 DEF Ends

LEMMA NextInOrder == InOrder /\ [Next]_vars => InOrder'
<1> SUFFICES ASSUME InOrder, [Next]_vars PROVE InOrder'
    OBVIOUS
<1>1. CASE Recorder
    BY <1>1, RecorderInOrder
<1>2. CASE Ends
    BY <1>2, EndsInOrder
<1>3. CASE Start
    <2>1. /\ \E theSpec, theReplies, earlier :
                /\ earlier = <<>> \/ earlier = checkpoint \/ (trace # <<>> /\ earlier = trace[1].steps)
                /\ Recording(theSpec, theReplies, earlier)
          /\ UNCHANGED <<trace, checkpoint>>
        BY <1>3 DEF Start, ResumeSteps
    <2> QED
        BY <2>1, EmptyInOrder, BeginsInOrder DEF InOrder, Offering
<1>4. CASE UNCHANGED <<phase, spec, reuse, at, steps, from, kept, trace, checkpoint>>
    <2>1. Taken' /\ Offering' /\ Numbered'
        BY <1>4 DEF reuse, kept, InOrder, Taken, Offering, Numbered, Own, StepsReadApart
    <2> QED
        BY <2>1, NextReproducing DEF InOrder
<1>5. CASE Cover /\ UNCHANGED command
    BY <1>4, <1>5 DEF Cover, command, stepping
<1>6. CASE Edit \/ UNCHANGED vars
    BY <1>4, <1>6 DEF Edit, vars, recorder, command, stepping
<1> QED
    BY <1>1, <1>2, <1>3, <1>5, <1>6 DEF Next, Ends

\* Every group of earlier steps taken over is what one step did, none is taken twice
\* and none out of order (ReuseCursor, take_matching), over every edit, repair and
\* checkpoint, as long as no two of the earlier steps in a row read alike.
THEOREM GroupsAreSteps == Spec => []ReuseInOrder
<1>1. InOrder => ReuseInOrder
    <2> SUFFICES ASSUME InOrder, StepsReadApart PROVE ReuseInOrder
        BY DEF ReuseInOrder
    <2>1. \A i \in DOMAIN reused : \E x : reused[i] = {x}
        BY DEF InOrder, Taken
    <2>2. \A x : Cardinality({x}) = 1
        BY FS_Singleton
    <2> QED
        BY <2>1, <2>2 DEF InOrder, Taken, ReuseInOrder
<1> QED
    BY <1>1, InOrderInit, NextInOrder, PTL DEF Spec
=============================================================================
