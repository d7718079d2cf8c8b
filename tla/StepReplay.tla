---------------------------- MODULE StepReplay ----------------------------
(***************************************************************************)
(* Replaying a recorded flow (run_trace_selected), possibly against an     *)
(* application that behaves differently from the recorded one, whole or    *)
(* in part (--from/--until).  The trace is flat; replay rebuilds its loops *)
(* from the passes the recording took and reads every condition again.     *)
(***************************************************************************)
EXTENDS FlowRecording, FiniteSets, SequencesExt

\* A flow exports a list of names.
ASSUME ExportsAssumption == \A f \in Flows : IsFiniteSet(f.exports)

VARIABLES
    selected,    \* the trace steps to replay
    partial,     \* --from or --until was given
    work,        \* the worklist: steps, and checks between the passes of a loop
    seen,        \* the loops met so far
    verdicts,    \* guard id -> what its reading said
    ready,       \* the step at the head of the worklist is about to run
    failed,
    done,        \* what replay did to the application
    results,     \* the report's steps
    passed,      \* the report's verdict
    exports      \* name -> value handed to the flows that follow

replaying == <<selected, partial, work, seen, verdicts, ready, failed, done,
               results, passed, exports>>
vars == <<phase, page, captures, leaked, recording, replaying>>

---------------------------------------------------------------------------
(* Selecting steps.                                                        *)

StepCount ==
    LET last == Len(flow.steps)
    IN  SpecStepNumbers(flow.steps)[last]
          + (IF flow.multi THEN Len(flow.steps[last].steps) - 1 ELSE 0)

Within(from, until) == {i \in DOMAIN trace : trace[i].number \in from..until}

\* No selected step reads a capture whose latest earlier maker is left out.
CapturesSelected(S) ==
    \A i \in S : \A n \in trace[i].leaf.uses :
        LET makers == {j \in 1..(i - 1) : n \in trace[j].leaf.makes}
        IN  makers = {} \/ (CHOOSE j \in makers : \A k \in makers : k <= j) \in S

---------------------------------------------------------------------------
(* The worklist.                                                           *)

StepAt(i, pass) == [kind |-> "step", index |-> i, pass |-> pass]
LoopAt(first, body, passes) ==
    [kind |-> "loop", first |-> first, body |-> body, passes |-> passes]

SameLoop(i, j) == trace[i].rep.id = trace[j].rep.id

\* The recorded passes of the loop that starts at step first.
Pass(first, p) ==
    {i \in first..Len(trace) :
        /\ \A j \in first..i : SameLoop(first, j)
        /\ trace[i].rep.pass = p}

\* The earliest of the longest recorded passes.
Longest(first) ==
    LET passes == {trace[i].rep.pass : i \in first..Len(trace)}
        Size(p) == Cardinality(Pass(first, p))
    IN  CHOOSE p \in passes : \A q \in passes : Size(p) > Size(q) \/ (Size(p) = Size(q) /\ p <= q)

\* Its steps, in their order.
Body(first) ==
    LET steps == Pass(first, Longest(first))
    IN  [k \in 1..Cardinality(steps) |->
            CHOOSE i \in steps : Cardinality({j \in steps : j < i}) = k - 1]

\* (mutant) Only the first recorded pass makes way for the loop.
BeyondFirst(i, items) ==
    LET front == {k \in DOMAIN items : \A j \in 1..k :
                    /\ items[j].kind = "step" /\ SameLoop(i, items[j].index)
                    /\ trace[items[j].index].rep.pass = 1}
    IN  SubSeq(items, Cardinality(front) + 1, Len(items))

\* The worklist without the recorded passes of the loop of step i at its front.
Beyond(i, items) ==
    LET front == {k \in DOMAIN items : \A j \in 1..k :
                    items[j].kind = "step" /\ SameLoop(i, items[j].index)}
    IN  SubSeq(items, Cardinality(front) + 1, Len(items))

Result(i, pass, status, why, guard) ==
    [index |-> i, pass |-> pass, status |-> status, why |-> why, guard |-> guard]
Skipped(i, pass, why) == Result(i, pass, "skipped", why, 0)

Pop(result) ==
    /\ results' = Append(results, result)
    /\ work' = Tail(work)

---------------------------------------------------------------------------

ReplayInit ==
    /\ selected = {} /\ partial = FALSE
    /\ work = <<>> /\ seen = {} /\ verdicts = <<>>
    /\ ready = FALSE /\ failed = FALSE
    /\ done = <<>> /\ results = <<>> /\ passed = FALSE /\ exports = <<>>

\* The trace is loaded and the application launched, afresh and not
\* necessarily in the version that was recorded.  The surfaces of a flow of
\* several launch when they are first activated.
StartReplay ==
    /\ phase = "stored"
    /\ phase' = "replay"
    /\ app' \in Apps
    /\ screen' = app'.start
    /\ active' = IF flow.multi THEN NoSurface ELSE Main
    /\ captures' = <<>>
    /\ leaked' = FALSE
    /\ \/ partial' = FALSE /\ selected' = DOMAIN trace
       \/ /\ partial' = TRUE
          /\ \E from, until \in 1..StepCount :
                /\ selected' = Within(from, until)
                /\ selected' # {}
                /\ CapturesSelected(selected')
    /\ work' = [i \in DOMAIN trace |-> StepAt(i, 1)]
    /\ UNCHANGED <<flow, recording, seen, verdicts, ready, failed, done, results, passed,
                   exports>>

Now == phase = "replay" /\ ~ready /\ work # <<>>
NextIsStep == Now /\ Head(work).kind = "step"
NextIsLoop == Now /\ Head(work).kind = "loop"

LeaveOut ==
    /\ NextIsStep
    /\ Head(work).index \notin selected
    /\ Pop(Skipped(Head(work).index, 1, "not selected"))
    /\ UNCHANGED <<phase, page, captures, leaked, recording, selected, partial, seen,
                   verdicts, ready, failed, done, passed, exports>>

\* The first step of a loop not met before stands for all its recorded passes.
FirstOfLoop(i) == trace[i].rep.id # 0 /\ trace[i].rep.id \notin seen

MeetLoop ==
    /\ NextIsStep
    /\ LET i == Head(work).index
       IN  /\ i \in selected
           /\ FirstOfLoop(i)
           /\ seen' = seen \cup {trace[i].rep.id}
           /\ work' = <<LoopAt(i, Body(i), 0)>> \o Beyond(i, Tail(work))
    /\ UNCHANGED <<phase, page, captures, leaked, recording, selected, partial, verdicts,
                   ready, failed, done, results, passed, exports>>

\* A loop that comes up after a failure is dropped without a word.
DropLoop ==
    /\ NextIsLoop
    /\ failed
    /\ work' = Tail(work)
    /\ UNCHANGED <<phase, page, captures, leaked, recording, selected, partial, seen,
                   verdicts, ready, failed, done, results, passed, exports>>

\* The condition of a loop is read on the active surface.
ReadsLoop ==
    /\ NextIsLoop
    /\ ~failed
    /\ active # NoSurface

LoopHolds == Reads(trace[Head(work).first].rep.until)

\* It holds: the loop is over, and a body that never ran is reported skipped.
SettleLoop ==
    /\ ReadsLoop
    /\ LoopHolds
    /\ work' = Tail(work)
    /\ LET body == Head(work).body
       IN  results' = IF Head(work).passes > 0 THEN results
                      ELSE results \o [k \in DOMAIN body |-> Skipped(body[k], 1, "held")]
    /\ UNCHANGED <<phase, page, captures, leaked, recording, selected, partial, seen,
                   verdicts, ready, failed, done, passed, exports>>

\* It does not, and the bound is reached.
ExhaustLoop ==
    /\ ReadsLoop
    /\ ~LoopHolds
    /\ Head(work).passes >= trace[Head(work).first].rep.max
    /\ failed' = TRUE
    /\ Pop(Result(Head(work).first, Head(work).passes, "failed", "bound", 0))
    /\ UNCHANGED <<phase, page, captures, leaked, recording, selected, partial, seen,
                   verdicts, ready, done, passed, exports>>

\* (mutant) Another pass goes by the verdicts of the pass before.
RepeatLoopKeepingVerdicts ==
    /\ ReadsLoop
    /\ ~LoopHolds
    /\ LET w == Head(work)
       IN  /\ w.passes < trace[w.first].rep.max
           /\ work' = [k \in DOMAIN w.body |-> StepAt(w.body[k], w.passes + 1)]
                        \o <<LoopAt(w.first, w.body, w.passes + 1)>> \o Tail(work)
    /\ UNCHANGED <<phase, page, captures, leaked, recording, selected, partial, seen, verdicts,
                   ready, failed, done, results, passed, exports>>

\* It does not: another pass, for which every guard of the body is read anew.
RepeatLoop ==
    /\ ReadsLoop
    /\ ~LoopHolds
    /\ LET w == Head(work)
           guards == UNION {{trace[w.body[k]].guards[g].id : g \in DOMAIN trace[w.body[k]].guards}
                               : k \in DOMAIN w.body}
       IN  /\ w.passes < trace[w.first].rep.max
           /\ verdicts' = [g \in DOMAIN verdicts \ guards |-> verdicts[g]]
           /\ work' = [k \in DOMAIN w.body |-> StepAt(w.body[k], w.passes + 1)]
                        \o <<LoopAt(w.first, w.body, w.passes + 1)>> \o Tail(work)
    /\ UNCHANGED <<phase, page, captures, leaked, recording, selected, partial, seen, ready,
                   failed, done, results, passed, exports>>

\* A selected step outside any loop, or of a pass of a loop already met.
AtStep ==
    /\ NextIsStep
    /\ Head(work).index \in selected
    /\ ~FirstOfLoop(Head(work).index)

SkipAfterFailure ==
    /\ AtStep
    /\ failed
    /\ Pop(Skipped(Head(work).index, Head(work).pass, "previous step failed"))
    /\ UNCHANGED <<phase, page, captures, leaked, recording, selected, partial, seen,
                   verdicts, ready, failed, done, passed, exports>>

\* (mutant) The condition of a block is read at each of its steps.
VerdictNow(guard, surface) == screen[surface] \in app.shows[guard.cond]

\* (mutant) A failed run goes on.
ApproachAnyway ==
    /\ AtStep
    /\ ready' = TRUE
    /\ active' = IF trace[Head(work).index].surface = NoSurface THEN active
                 ELSE trace[Head(work).index].surface
    /\ UNCHANGED <<phase, flow, app, screen, captures, leaked, recording, selected, partial,
                   work, seen, verdicts, failed, done, results, passed, exports>>

\* The step's surface is made the active one and its guards are read in
\* order, up to the first that does not hold; a guard that has a verdict is
\* not read again.
Verdict(guard, surface) ==
    IF guard.id \in DOMAIN verdicts THEN verdicts[guard.id]
    ELSE screen[surface] \in app.shows[guard.cond]

Approach ==
    /\ AtStep
    /\ ~failed
    /\ LET i == Head(work).index
           guards == trace[i].guards
           surface == IF trace[i].surface = NoSurface THEN active ELSE trace[i].surface
           false == {g \in DOMAIN guards : ~Verdict(guards[g], surface)}
           read == {g \in DOMAIN guards : \A f \in false : g <= f}
           ids == {guards[g].id : g \in read}
       IN  /\ active' = surface
           /\ verdicts' = [id \in DOMAIN verdicts \cup ids |->
                 IF id \in DOMAIN verdicts THEN verdicts[id]
                 ELSE \E g \in read \ false : guards[g].id = id]
           /\ IF false = {}
              THEN ready' = TRUE /\ UNCHANGED <<work, results>>
              ELSE /\ Pop(Result(i, Head(work).pass, "skipped", "guard",
                            guards[CHOOSE g \in read : g \in false].id))
                   /\ UNCHANGED ready
    /\ UNCHANGED <<phase, flow, app, screen, captures, leaked, recording, selected, partial,
                   seen, failed, done, passed, exports>>

Running == phase = "replay" /\ ready
Current == trace[Head(work).index].leaf

\* What a step does to the application, with the values it took.
Deed(leaf) == [name |-> leaf.name, on |-> active, with |-> [n \in leaf.uses |-> captures[n]]]

RunStep ==
    /\ Running
    /\ Possible(Current)
    /\ Act(Current)
    /\ done' = Append(done, Deed(Current))
    /\ \/ /\ Sample
          /\ Pop(Result(Head(work).index, Head(work).pass, "passed", "ran", 0))
          /\ UNCHANGED failed
       \* It acted, and then an unexpected dialog or a postcondition failed it.
       \/ /\ failed' = TRUE
          /\ Pop(Result(Head(work).index, Head(work).pass, "failed", "acted", 0))
          /\ UNCHANGED leaked
    /\ ready' = FALSE
    /\ UNCHANGED <<phase, flow, app, active, recording, selected, partial, seen, verdicts,
                   passed, exports>>

\* (mutant) A wait for an element has no timeout.
FailStepNever ==
    /\ Running
    /\ ~(Current.uses \subseteq DOMAIN captures)
    /\ failed' = TRUE
    /\ ready' = FALSE
    /\ Pop(Result(Head(work).index, Head(work).pass, "failed", "stuck", 0))
    /\ UNCHANGED <<phase, page, captures, leaked, recording, selected, partial, seen,
                   verdicts, done, passed, exports>>

\* Its element did not become actionable, its check did not hold in time, or
\* a capture it refers to was never made.
FailStep ==
    /\ Running
    /\ ~Possible(Current)
    /\ failed' = TRUE
    /\ ready' = FALSE
    /\ Pop(Result(Head(work).index, Head(work).pass, "failed", "stuck", 0))
    /\ UNCHANGED <<phase, page, captures, leaked, recording, selected, partial, seen,
                   verdicts, done, passed, exports>>

\* A reading with no surface active: the surface registry fails closed, and
\* the run ends in an error, without a report.
NoActiveSurface ==
    /\ NextIsLoop
    /\ ~failed
    /\ active = NoSurface
    /\ phase' = "error"
    /\ UNCHANGED <<page, captures, leaked, recording, replaying>>

\* So it does when the driver fails, at any moment.
Break ==
    /\ phase = "replay"
    /\ phase' = "error"
    /\ UNCHANGED <<page, captures, leaked, recording, replaying>>

\* (mutant) The exports that could be resolved are handed over all the same.
ReportSomeExports ==
    /\ phase = "replay"
    /\ ~ready
    /\ work = <<>>
    /\ phase' = "reported"
    /\ failed' = (failed \/ leaked)
    /\ exports' = IF failed' \/ partial THEN <<>>
                  ELSE [n \in flow.exports \cap DOMAIN captures |-> captures[n]]
    /\ passed' = (~failed' /\ results # <<>>)
    /\ UNCHANGED <<page, captures, leaked, recording, selected, partial, work, seen, verdicts,
                   ready, done, results>>

\* The end of the worklist: the scan for secrets, unless a step failed; the
\* exports, all or none, of a whole run that passed so far; the verdict.
Report ==
    /\ phase = "replay"
    /\ ~ready
    /\ work = <<>>
    /\ phase' = "reported"
    /\ LET ok == ~failed /\ ~leaked
           missing == IF ok /\ ~partial THEN flow.exports \ DOMAIN captures ELSE {}
           scanned == IF failed \/ ~leaked THEN <<>>
                      ELSE <<Result(0, 1, "failed", "leak", 0)>>
           unresolved == [k \in 1..Cardinality(missing) |-> Result(0, 1, "failed", "exports", 0)]
       IN  /\ results' = results \o scanned \o unresolved
           /\ failed' = (~ok \/ missing # {})
           /\ exports' = IF failed' \/ partial THEN <<>>
                         ELSE [n \in flow.exports |-> captures[n]]
    /\ passed' = (/\ ~failed'
                  /\ IF partial THEN \E k \in DOMAIN results' : results'[k].status = "passed"
                     ELSE results' # <<>>)
    /\ UNCHANGED <<page, captures, leaked, recording, selected, partial, work, seen, verdicts,
                   ready, done>>

ReplayStep ==
    \/ StartReplay
    \/ LeaveOut \/ MeetLoop \/ DropLoop
    \/ SettleLoop \/ ExhaustLoop \/ RepeatLoop \/ NoActiveSurface
    \/ SkipAfterFailure \/ Approach
    \/ RunStep \/ FailStep
    \/ Report

Init == RecordingInit /\ ReplayInit

Next ==
    \/ RecordStep /\ UNCHANGED replaying
    \/ BreakRecording /\ UNCHANGED replaying
    \/ ReplayStep
    \/ Break
    \/ Drift /\ UNCHANGED <<phase, flow, app, active, captures, leaked, recording, replaying>>

\* Every wait in the recorder and in replay has a timeout.  The page need not
\* move, and nothing need break.
Spec ==
    /\ Init
    /\ [][Next]_vars
    /\ WF_vars(RecordStep /\ UNCHANGED replaying)
    /\ WF_vars(ReplayStep)

---------------------------------------------------------------------------
(* Properties.                                                             *)

Phases == {"record", "refused", "stored", "replay", "reported", "error"}
Statuses == {"passed", "failed", "skipped"}

IsSeq(s) == s \in Seq(ToSet(s))

\* The variables have the types the code gives them: the trace, the worklist and
\* the report are sequences, so are the bodies of the loops in the worklist, the
\* selected steps are steps of the trace and every entry of the report has a
\* status.
TypeOK ==
    /\ phase \in Phases /\ flow \in Flows /\ app \in Apps
    /\ {leaked, partial, ready, failed, passed} \subseteq BOOLEAN
    /\ guardIds \in Nat /\ loopIds \in Nat
    /\ IsSeq(trace) /\ selected \subseteq DOMAIN trace
    /\ IsSeq(work) /\ \A k \in DOMAIN work : work[k].kind = "loop" => IsSeq(work[k].body)
    /\ IsSeq(results) /\ \A k \in DOMAIN results : results[k].status \in Statuses

GuardIds(i) == {trace[i].guards[g].id : g \in DOMAIN trace[i].guards}

\* A when: block whose first step ran is run to its end, whatever its own
\* steps do to the state its condition read: no later step of it, in the same
\* pass of a loop or outside any, is skipped for that condition.  (The block
\* is read once; verdicts is what keeps the reading.)
BlockRunsToItsEnd ==
    \A j, k \in DOMAIN results :
        LET i == results[j].index
        IN  /\ j < k
            /\ results[j].status = "passed"
            /\ results[k].guard # 0
            /\ results[k].guard \in GuardIds(i)
            /\ trace[i].rep = NoLoop \/ results[j].pass = results[k].pass
            => FALSE

\* After a failure replay reads and does nothing more to the application,
\* remembers nothing more, and does not recover.
FailedIsFinal ==
    [][phase = "replay" /\ failed =>
          failed' /\ ~passed' /\ UNCHANGED <<done, captures, active, verdicts>>]_vars

\* What a flow hands to its successors comes from a run of the whole flow
\* that passed, leaked nothing, and is complete; a whole run that passes
\* hands over everything the flow promises.
ExportsFromPassOnly ==
    /\ exports # <<>> => passed /\ ~leaked
    /\ phase = "reported" /\ passed =>
          /\ IF partial THEN exports = <<>> ELSE DOMAIN exports = flow.exports
          /\ \A n \in DOMAIN exports : exports[n] = captures[n]

\* The report accounts for the trace: a step outside the loops has exactly
\* one entry, in the order of the trace; a pass of a loop is reported whole
\* and in order, and passes are not left out; and the verdict is a failure
\* exactly when an entry says so.
EveryStepReported ==
    phase = "reported" =>
        LET Of(i, p) == {k \in DOMAIN results : results[k].index = i /\ results[k].pass = p
                                                   /\ results[k].why # "bound"}
            looped(i) == trace[i].rep.id # 0 /\ i \in selected
            entries == {k \in DOMAIN results : results[k].index # 0 /\ results[k].why # "bound"}
            body == {results[k].index : k \in {l \in entries : looped(results[l].index)}}
        IN  /\ failed <=> \E k \in DOMAIN results : results[k].status = "failed"
            /\ \A i \in DOMAIN trace : ~looped(i) => Cardinality(Of(i, 1)) = 1
            /\ \A j, k \in entries :
                  j < k /\ ~(looped(results[j].index) /\ looped(results[k].index))
                    => results[j].index < results[k].index
            /\ \A k \in entries : \A i \in body :
                  looped(results[k].index) /\ SameLoop(i, results[k].index) =>
                    /\ Cardinality(Of(i, results[k].pass)) = 1
                    /\ results[k].pass > 1 => Of(i, results[k].pass - 1) # {}

\* Recording and replaying end, however long the page keeps changing: loops
\* are bounded and waits have timeouts.
RunEnds == <>(phase \in {"refused", "reported", "error"})
=============================================================================
