---------------------------- MODULE StepExecution ----------------------------
(***************************************************************************)
(* How replay carries out one recorded step after another (execute_step):  *)
(* it waits for the target, finds it on the selector ladder, waits until   *)
(* it can be acted on, acts, and accounts for the dialogs; or it polls a   *)
(* reading until an expectation holds or the recorded time is up.  One     *)
(* tick of the clock is one poll.                                          *)
(***************************************************************************)
EXTENDS WebInputs

CONSTANTS
    Flows,         \* the recorded flows: sequences of steps
    Budget,        \* the recorded waiting time of a step, in polls
    Patience,      \* OCCLUSION_PATIENCE_MS, in polls
    QuietRounds,   \* SCENE_SETTLE_ROUNDS
    BusyRounds     \* SCENE_SETTLE_BUSY_ROUNDS

ASSUME BudgetAssumption == Budget \in Nat /\ Patience \in Nat /\ Budget <= Patience
ASSUME RoundsAssumption == QuietRounds \in Nat \ {0} /\ BusyRounds \in Nat \ {0}

VARIABLES
    flow,          \* the flow that is replayed
    at,            \* the step it is at
    phase,         \* where in the step replay is
    run,           \* what replay knows of the step so far
    sent,          \* how often the step's request was sent
    opened,        \* the dialogs opened since the last step was accounted for
    captured       \* step -> the file its download step captured; 0 -> those of the launch

vars == <<driver, control, flow, at, phase, run, sent, opened, captured>>

step == flow[at]
kind == step.kind

---------------------------------------------------------------------------
(* The kinds of steps.                                                     *)

Gated == {"click", "click at", "right click", "double click", "hover", "drag", "check",
          "select", "type", "fill"}
Targeted == Gated \cup {"upload", "scroll", "remember"}
Untargeted == {"press", "type here", "navigate", "scroll page"}
Inputs == Targeted \cup Untargeted

\* A driver's error fails the step instead of ending the run.
Soft == {"check", "select", "drag", "scroll"}
SurfaceReadings == {"text", "url", "cookie", "title", "count"}
FrameReadings == {"frame shows", "frame gone"}
Presence == {"there", "gone"}
\* The text of an element; whether it is checked or enabled or has an attribute, or
\* the value of one; a number that is compared with a captured one, or a style.
TextReadings == {"element"}
StateReadings == {"state", "attribute"}
ComputedReadings == {"computed", "style"}
Contents == TextReadings \cup StateReadings \cup ComputedReadings
ElementReadings == Presence \cup Contents
Asserts == SurfaceReadings \cup FrameReadings \cup ElementReadings
Probes == {"sql", "get", "post"}
Kinds == Inputs \cup Asserts \cup Probes \cup {"download"}

\* A recorded flow has a step, and its steps are of these kinds.
ASSUME FlowsAssumption ==
    \A f \in Flows :
        /\ f # <<>> /\ f \in Seq({f[i] : i \in DOMAIN f})
        /\ \A i \in DOMAIN f : f[i].kind \in Kinds

\* Read after the page has settled: whatever is compared with an expected text.
Settled == {"text", "title", "element", "attribute", "style"}
Ends(k) == IF k = "drag" THEN 2 ELSE 1
\* A faulty variant: a request that writes is sent until it converges.
AlwaysRetryable(s) == TRUE

IsRetryable(s) == s.kind \in {"sql", "get"} \/ s.retry

FirstPhase(k) ==
    CASE k \in Targeted -> "resolve"
      [] k \in Untargeted -> "prepare"
      [] k \in Settled -> "settle"
      [] k \in Asserts \ Settled -> "ask"
      [] k \in Probes -> "send"
      [] k = "download" -> "await"

---------------------------------------------------------------------------

NewRun == [rung |-> 1, ends |-> 0, resolved |-> 0, ready |-> 0, lacks |-> FALSE, waited |-> 0,
           lastLook |-> FALSE, block |-> 1, call |-> 1, tries |-> 0, saw |-> FALSE,
           fault |-> FALSE, read |-> FALSE, missed |-> FALSE, seen |-> FALSE, clean |-> FALSE,
           rounds |-> 0, busy |-> FALSE, verdict |-> "none"]

Verdict(v) == phase' = "ended" /\ run' = [run EXCEPT !.verdict = v]
Continue(p) == phase' = p /\ run' = [run EXCEPT !.waited = 0, !.rung = 1]

\* An answer that ends the run: nothing that acts tolerates a lost call.
Breaks(answer) == answer # "answer" /\ Verdict("error")

StepUnchanged == UNCHANGED <<driver, control, flow, at, sent, opened, captured>>

Begin ==
    /\ phase = "begin"
    /\ phase' = IF step.waits THEN "pre" ELSE FirstPhase(kind)
    /\ run' = NewRun
    /\ control' \in Controls(kind)
    /\ sent' = 0
    /\ UNCHANGED <<driver, flow, at, opened, captured>>

\* The target is waited for; at the deadline it is revealed and looked for once
\* more.
WaitForElement ==
    /\ phase \in {"pre", "post"}
    /\ \E answer \in Answers : \E heard \in ExistsAnswers(step.locator, answer) :
          \/ Breaks(heard)
          \/ /\ heard = "answer"
             /\ LET found == \E r \in Ladder : ElementExists(step.locator, r, answer)
                IN  \/ /\ found
                       /\ IF phase = "pre" THEN Continue(FirstPhase(kind)) ELSE Verdict("pass")
                    \/ ~found /\ run.lastLook /\ Verdict("fail")
                    \/ /\ ~found /\ ~run.lastLook
                       /\ run' = IF run.waited >= Budget THEN [run EXCEPT !.lastLook = TRUE]
                                 ELSE [run EXCEPT !.waited = @ + 1]
                       /\ UNCHANGED phase
    /\ StepUnchanged

---------------------------------------------------------------------------
(* Acting.                                                                 *)

\* One end of the step is dealt with; the other one is asked before it fails.
NextEnd(counter, ok, again, after) ==
    LET r == [run EXCEPT ![counter] = IF ok THEN @ + 1 ELSE @, !.ends = @ + 1,
                         !.lacks = @ \/ ~ok, !.waited = 0]
    IN  IF r.ends < Ends(kind) THEN phase' = again /\ run' = [r EXCEPT !.rung = 1]
        ELSE IF r.lacks THEN phase' = "ended" /\ run' = [r EXCEPT !.verdict = "fail"]
        ELSE phase' = after /\ run' = [r EXCEPT !.ends = 0]

\* The rungs are tried in order, each in a call of its own.
ResolveTarget ==
    /\ phase = "resolve"
    /\ \E answer \in Answers : \E heard \in ExistsAnswers(step.locator, answer) :
          \/ Breaks(heard)
          \/ /\ heard = "answer"
             /\ LET exists == ElementExists(step.locator, run.rung, answer)
                IN  IF exists \/ run.rung + 1 \notin Ladder
                    THEN NextEnd("resolved", exists, "resolve",
                                 IF kind \in Gated THEN "gate" ELSE "prepare")
                    ELSE run' = [run EXCEPT !.rung = @ + 1] /\ UNCHANGED phase
    /\ StepUnchanged

GateDue(gate) == run.waited >= (IF gate = "obscured" THEN Patience ELSE Budget)

\* A faulty variant: an element that is disabled may be acted on.
WaitUncovered ==
    /\ phase = "gate"
    /\ LET gate == ActionabilityGate(run.rung)
       IN  IF gate # "obscured" \/ GateDue(gate)
           THEN phase' = "prepare" /\ UNCHANGED run
           ELSE run' = [run EXCEPT !.waited = @ + 1] /\ UNCHANGED phase
    /\ StepUnchanged

WaitActionable ==
    /\ phase = "gate"
    /\ \E answer \in Answers :
          \/ Breaks(answer)
          \/ /\ answer = "answer"
             /\ LET gate == ActionabilityGate(run.rung)
                IN  IF gate = "open" \/ GateDue(gate)
                    THEN NextEnd("ready", gate = "open", "gate", "prepare")
                    ELSE run' = [run EXCEPT !.waited = @ + 1] /\ UNCHANGED phase
    /\ StepUnchanged

\* References are resolved, and a dialog is armed, at the last moment.
Prepare ==
    /\ phase = "prepare"
    /\ \/ ~step.refs /\ Verdict("fail") /\ UNCHANGED dialogs
       \/ /\ step.refs
          /\ IF step.dialog THEN ArmDialog ELSE UNCHANGED dialogs
          /\ phase' = "input"
          /\ UNCHANGED run
    /\ UNCHANGED <<page, later, landed, claimed, control, flow, at, sent, opened, captured>>

---------------------------------------------------------------------------
(* The programme of calls of an input.                                     *)

program == Program(kind, step.locator)
block == program[run.block]
call == block.calls[run.call]

Fails == Verdict(IF kind \in Soft THEN "fail" ELSE "error")

\* A call is lost: its block starts over, or the input is given up.
Lost ==
    IF block.retried /\ run.tries < MaxRetries
    THEN run' = [run EXCEPT !.tries = @ + 1, !.call = 1] /\ UNCHANGED phase
    ELSE Fails

\* The control is as it was asked to be, so there is nothing to click.
AsAsked(saw) == kind = "check" /\ run.block = 1 /\ saw

\* What was read at the end is not what was asked for.
NotTaken(saw) == program[Len(program)].calls[Len(program[Len(program)].calls)] = "read" /\ ~saw

Answered(saw) ==
    LET next == IF AsAsked(saw) THEN 3 ELSE run.block + 1
        r == [run EXCEPT !.saw = saw]
    IN  IF run.call < Len(block.calls) THEN run' = [r EXCEPT !.call = @ + 1] /\ UNCHANGED phase
        ELSE IF next <= Len(program)
        THEN run' = [r EXCEPT !.block = next, !.call = 1, !.tries = 0] /\ UNCHANGED phase
        ELSE IF NotTaken(saw) THEN Fails
        ELSE phase' = "confirm" /\ run' = r

\* The page has the call: it answers, perhaps with a dialog as well, at once or
\* some time later; the answer may be lost.
CallArrives ==
    /\ phase = "input"
    /\ ~Refused(call, run.rung)
    /\ control' \in Effects(kind, call)
    /\ \E opens \in {"nothing"} \cup (IF call \in Opens THEN {"expected", "other", "later"} ELSE {}) :
          /\ later' = (later \/ opens = "later")
          /\ IF opens \in {"expected", "other"}
             THEN dialogs' = AfterDialog(dialogs, opens) /\ opened' = opened + 1
             ELSE UNCHANGED <<dialogs, opened>>
    /\ \/ \E saw \in (IF call = "read" THEN ReadsBack(kind, step.locator) ELSE {run.saw}) :
             Answered(saw)
       \/ Lost
    /\ UNCHANGED <<page, landed, claimed, flow, at, sent, captured>>

\* It does not: the call is lost on its way, or refused, for the element is gone
\* by now or the point is not its own.
CallFails ==
    /\ phase = "input"
    /\ Lost \/ Fails
    /\ StepUnchanged

\* The declared dialog must have opened.
Confirm ==
    /\ phase = "confirm"
    /\ IF step.dialog
       THEN /\ IF VerifyDialog THEN phase' = "net" /\ UNCHANGED run ELSE Verdict("fail")
            /\ dialogs' = DialogsTaken
       ELSE phase' = "net" /\ UNCHANGED <<run, dialogs>>
    /\ UNCHANGED <<page, later, landed, claimed, control, flow, at, sent, opened, captured>>

---------------------------------------------------------------------------
(* Downloads.                                                              *)

\* A faulty variant: the download that is taken is not marked as taken.
AwaitUnmarked ==
    /\ phase = "await"
    /\ \/ /\ \E f \in Fresh : Fresh = {f} /\ captured' = [captured EXCEPT ![at] = {f}]
          /\ phase' = "net"
          /\ UNCHANGED run
       \/ run.waited >= Budget /\ Verdict("fail") /\ UNCHANGED captured
       \/ /\ run.waited < Budget
          /\ run' = [run EXCEPT !.waited = @ + 1]
          /\ UNCHANGED <<phase, captured>>
    /\ UNCHANGED <<driver, control, flow, at, sent, opened>>

\* One more file than the ones known must land, and only one.
AwaitDownload ==
    /\ phase = "await"
    /\ \/ /\ \E f \in Fresh : Fresh = {f} /\ claimed' = claimed \cup {f}
                               /\ captured' = [captured EXCEPT ![at] = {f}]
          /\ phase' = "net"
          /\ UNCHANGED run
       \/ /\ Cardinality(Fresh) > 1 \/ run.waited >= Budget
          /\ Verdict("fail")
          /\ UNCHANGED <<claimed, captured>>
       \/ /\ Cardinality(Fresh) <= 1 /\ run.waited < Budget
          /\ run' = [run EXCEPT !.waited = @ + 1]
          /\ UNCHANGED <<phase, claimed, captured>>
    /\ UNCHANGED <<page, dialogs, later, landed, control, flow, at, sent, opened>>

---------------------------------------------------------------------------
(* Asserting.                                                              *)

\* A faulty variant: a page that keeps loading is waited for without a bound.
SettleUnbounded ==
    /\ phase = "settle"
    /\ \/ run' = [run EXCEPT !.busy = ~@] /\ UNCHANGED phase
       \/ Continue("ask")
    /\ StepUnchanged

\* Two readings that agree, on a page that is not loading, or the bound: the
\* longer one once a request was seen under way.  An error is ignored.
SettleScene ==
    /\ phase = "settle"
    /\ \/ \E busy \in BOOLEAN :
             LET everBusy == run.busy \/ busy
             IN  IF run.rounds + 1 >= (IF everBusy THEN BusyRounds ELSE QuietRounds)
                 THEN Continue("ask")
                 ELSE /\ run' = [run EXCEPT !.rounds = @ + 1, !.busy = everBusy]
                      /\ UNCHANGED phase
       \/ Continue("ask")
    /\ StepUnchanged

\* A faulty variant: a time that is up is a failed expectation, read or not.
NeverExhausted(r) == FALSE

\* The end of a poll that did not show what was expected.  Without a reading
\* there is no verdict on the application.
Exhausted(r) == IF kind \in Contents THEN ~r.read /\ r.fault ELSE ~r.read

Polled(r) == [r EXCEPT !.clean = @ \/ ~r.missed]

EndPoll(poll) ==
    LET r == Polled(poll) IN
    IF run.waited >= Budget
    THEN phase' = "ended" /\ run' = [r EXCEPT !.verdict = IF Exhausted(r) THEN "unread" ELSE "fail"]
    ELSE phase' = "ask" /\ run' = [r EXCEPT !.waited = @ + 1, !.rung = 1, !.missed = FALSE,
                                            !.fault = IF kind \in Contents THEN @ ELSE FALSE]

\* A call is tolerated when it is lost.
Missed == [run EXCEPT !.fault = TRUE, !.missed = TRUE]
\* The surface, or the element found, was read.
Heard == [run EXCEPT !.read = TRUE, !.seen = TRUE]
Satisfied(r) == phase' = "net" /\ run' = Polled(r)

\* What is expected refers to something unknown: a captured number that there is
\* not breaks the run, an unresolved reference fails the step.
AskRefs ==
    /\ phase = "ask"
    /\ ~step.refs
    /\ Verdict(IF kind = "computed" THEN "error" ELSE "fail")
    /\ StepUnchanged

\* One reading of the page; a cookie that is as expected has the address read too.
AskSurface ==
    /\ phase = "ask" /\ step.refs
    /\ kind \in SurfaceReadings
    /\ \E answer \in Answers :
          \/ answer = "refused" /\ Verdict("error")
          \/ answer = "lost" /\ EndPoll(Missed)
          \/ answer = "answer" /\ (IF page.value THEN Satisfied(Heard) ELSE EndPoll(Heard))
          \/ answer = "answer" /\ kind = "cookie" /\ page.value /\ Verdict("error")
    /\ StepUnchanged

\* A frame of another origin cannot be read; one that is not there may come.
AskFrame ==
    /\ phase = "ask" /\ step.refs
    /\ kind \in FrameReadings
    /\ \E answer \in Answers :
          \/ answer = "refused" /\ Verdict("error")
          \/ answer = "lost" /\ EndPoll(Missed)
          \/ /\ answer = "answer"
             /\ LET probe == ProbeFrame(1)
                IN  \/ probe.frame = "foreign" /\ Verdict("error")
                    \/ /\ probe.frame # "foreign"
                       /\ IF /\ probe.frame = "reached"
                             /\ IF kind = "frame gone" THEN ~probe.present
                                ELSE probe.present /\ page.value
                          THEN Satisfied(Heard) ELSE EndPoll(Heard)
    /\ StepUnchanged

\* A faulty variant: a poll that found nothing shows that the element is gone.
TrustsFaults(r, visible) ==
    IF (kind = "there" /\ visible) \/ (kind = "gone" /\ ~visible)
    THEN Satisfied(r) ELSE EndPoll(r)

\* A poll of a visibility check: it counts as a reading if no call of it is
\* known to be lost, and only then it can show that the element is gone.
CheckVisible(r, visible) ==
    LET q == [r EXCEPT !.read = @ \/ ~r.fault, !.seen = @ \/ visible]
    IN  IF (kind = "there" /\ visible) \/ (kind = "gone" /\ ~visible /\ ~r.fault)
        THEN Satisfied(q) ELSE EndPoll(q)

\* No rung has an element.
Absent(r) ==
    IF kind \in Contents THEN EndPoll(r) ELSE CheckVisible(r, FALSE)

\* The rungs are tried in order within a poll; a lost call is a miss.
AskRung ==
    /\ phase = "ask" /\ step.refs
    /\ kind \in ElementReadings
    /\ \E answer \in Answers : \E heard \in ExistsAnswers(step.locator, answer) :
          \/ heard = "refused" /\ Verdict("error")
          \/ LET r == [run EXCEPT !.fault = @ \/ heard = "lost", !.missed = @ \/ answer = "lost"]
             IN  /\ heard # "refused"
                 /\ IF heard = "answer" /\ ElementExists(step.locator, run.rung, answer)
                    THEN phase' = "read" /\ run' = r
                    ELSE IF run.rung + 1 \in Ladder
                    THEN run' = [r EXCEPT !.rung = @ + 1] /\ UNCHANGED phase
                    ELSE Absent(r)
    /\ StepUnchanged

\* The element found is read; it may be gone by now, and what is no number or no
\* colour cannot be compared at all.
ReadElement ==
    /\ phase = "read"
    /\ kind \in Contents
    /\ \E answer \in Answers :
          \/ answer = "refused" /\ Verdict("error")
          \/ answer = "lost" /\ EndPoll(Missed)
          \/ answer = "answer" /\ run.rung \notin page.rungs /\ Verdict("error")
          \/ /\ answer = "answer" /\ run.rung \in page.rungs
             /\ \/ IF page.value THEN Satisfied(Heard) ELSE EndPoll(Heard)
                \/ kind \in ComputedReadings /\ phase' = "ended"
                   /\ run' = [Heard EXCEPT !.verdict = "fail"]
    /\ StepUnchanged

\* Whether the element found is rendered.
SeeElement ==
    /\ phase = "read"
    /\ kind \in Presence
    /\ \E answer \in Answers :
          \/ answer = "refused" /\ Verdict("error")
          \/ answer = "lost" /\ EndPoll(Missed)
          \/ answer = "answer" /\ CheckVisible(run, ElementVisible(run.rung))
    /\ StepUnchanged

\* A request out of band.  One that writes is sent once, whatever comes of it.
SendProbe ==
    /\ phase = "send"
    /\ \/ ~step.refs /\ UNCHANGED sent
          /\ (Verdict("error") \/ (kind # "sql" /\ Verdict("fail")))
       \/ step.refs /\ sent' = sent + 1 /\ phase' = "answering" /\ UNCHANGED run
    /\ UNCHANGED <<driver, control, flow, at, opened, captured>>

\* An answer that is as expected still fails the step when it lacks a value that
\* is to be captured; one that is not is asked for again while there is time.
ProbeAnswers ==
    /\ phase = "answering"
    /\ \/ phase' = "net" /\ UNCHANGED run
       \/ Verdict("error")
       \/ kind # "sql" /\ Verdict("fail")
       \/ ~IsRetryable(step) /\ Verdict("fail")
       \/ IsRetryable(step) /\ run.waited >= Budget /\ Verdict("fail")
       \/ /\ IsRetryable(step) /\ run.waited < Budget
          /\ phase' = "send" /\ run' = [run EXCEPT !.waited = @ + 1]
    /\ StepUnchanged

---------------------------------------------------------------------------

\* A faulty variant: a dialog nobody declared is left for the next step.
AccountDeclared ==
    /\ phase = "net"
    /\ IF step.post THEN phase' = "post" /\ run' = [run EXCEPT !.waited = 0]
       ELSE Verdict("pass")
    /\ opened' = 0
    /\ UNCHANGED <<driver, control, flow, at, sent, captured>>

\* A step that went well is failed by a dialog it did not declare.
Account ==
    /\ phase = "net"
    /\ \/ dialogs.unexpected /\ Verdict("fail") /\ dialogs' = UnexpectedTaken
       \/ /\ ~dialogs.unexpected
          /\ IF step.post THEN phase' = "post" /\ run' = [run EXCEPT !.waited = 0]
             ELSE Verdict("pass")
          /\ UNCHANGED dialogs
    /\ opened' = 0
    /\ UNCHANGED <<page, later, landed, claimed, control, flow, at, sent, captured>>

NextStep ==
    /\ phase = "ended"
    /\ IF run.verdict = "pass" /\ at < Len(flow)
       THEN at' = at + 1 /\ phase' = "begin" /\ page' \in Pages(flow[at + 1].kind)
       ELSE phase' = "over" /\ UNCHANGED <<at, page>>
    /\ UNCHANGED <<dialogs, later, landed, claimed, control, flow, run, sent, opened, captured>>

Init ==
    /\ flow \in Flows
    /\ at = 1
    /\ DriverInit(flow[1].kind, flow[1].files)
    /\ phase = "begin"
    /\ run = NewRun
    /\ control \in Controls(flow[1].kind)
    /\ sent = 0 /\ opened = 0
    /\ captured = [i \in 0..Len(flow) |-> IF i = 0 THEN landed ELSE {}]

\* The page, at any moment while a step is carried out.
PageStep ==
    /\ phase # "over"
    /\ \/ PageMoves(kind) /\ UNCHANGED opened
       \/ \E what \in {"expected", "other"} : LateDialog(what) /\ opened' = opened + 1
       \/ DownloadLands(step.files) /\ UNCHANGED opened
    /\ UNCHANGED <<control, flow, at, phase, run, sent, captured>>

Replay ==
    \/ Begin \/ WaitForElement \/ ResolveTarget \/ WaitActionable \/ Prepare
    \/ CallArrives \/ CallFails \/ Confirm \/ AwaitDownload
    \/ SettleScene \/ AskRefs \/ AskSurface \/ AskFrame \/ AskRung \/ ReadElement \/ SeeElement
    \/ SendProbe \/ ProbeAnswers \/ Account \/ NextStep

Next == Replay \/ PageStep

Spec == Init /\ [][Next]_vars /\ WF_vars(Replay)

---------------------------------------------------------------------------
(* Properties.                                                             *)

Phases == {"begin", "pre", "resolve", "gate", "prepare", "input", "confirm", "await", "settle",
           "ask", "read", "send", "answering", "net", "post", "ended", "over"}

\* The state has its types: what replay knows of a step is always all of what it
\* notes (execute_step, claimed_downloads).
TypeOK ==
    /\ flow \in Flows /\ at \in DOMAIN flow /\ phase \in Phases
    /\ DOMAIN run = DOMAIN NewRun
    /\ run.ends \in Nat /\ run.resolved \in Nat /\ run.ready \in Nat /\ run.lacks \in BOOLEAN
    /\ run.waited \in Nat /\ run.lastLook \in BOOLEAN
    /\ DOMAIN captured = 0..Len(flow)
    /\ claimed \subseteq landed

\* Calls that act are sent only when every end of the input was found and then
\* seen ready, and everything it refers to is known (wait_actionable before the
\* dispatch).
ReadyBeforeInput ==
    [][control' # control /\ phase = "input" =>
          /\ step.refs
          /\ kind \in Targeted => run.resolved = Ends(kind)
          /\ kind \in Gated => run.ready = Ends(kind)]_vars

Clicks == [k \in {"click", "click at", "right click", "drag", "double click"} |-> IF k = "double click" THEN 2 ELSE 1]

\* A request that writes is sent once, whatever becomes of it (is_retryable). A
\* click that passes was made, and more often only for want of an answer, no
\* more often than the driver retries (retry_on_transport_fault); one at a point,
\* in a frame or of a drag is never repeated.
NothingRepeated ==
    phase # "begin" =>
        /\ kind = "post" /\ ~step.retry => sent <= 1
        /\ kind \in DOMAIN Clicks =>
              control.clicks <= Clicks[kind] * (IF \/ kind \in {"click at", "drag"}
                                                   \/ kind = "click" /\ step.locator = "framed"
                                                THEN 1 ELSE MaxRetries + 1)

\* A step passes only if the input took: the button is up, the click was made, a
\* check is in the state asked for, and a field holds what was typed and nothing
\* else, however often the keys were sent (set_checked, the fill contract of
\* type_text).
InputTook ==
    phase = "net" /\ kind \in Inputs =>
        /\ control.button = "up"
        /\ kind \in DOMAIN Clicks => control.clicks >= Clicks[kind]
        /\ kind = "check" => control.checked
        /\ kind \in {"type", "fill"} /\ step.locator # "framed" => control.field = Text

\* An assertion fails only on an answer of the application, and breaks for want
\* of a reading only when every poll in its time lost a call (tolerate,
\* exhausted).  Not claimed inside a container or a table: there the second of the
\* two calls of element_exists, lost, reads as an absent element.
FailedOnEvidence ==
    phase = "ended" /\ kind \in Asserts /\ step.refs /\ step.locator # "scoped" =>
        /\ run.verdict = "fail" => run.seen \/ run.clean
        /\ run.verdict = "unread" /\ kind \notin Contents => ~run.clean

\* "is gone" passes only on a poll in which no call was lost: proven by a reading
\* that happened (the presence expectation of check_assertion).  Not so inside a
\* container or a table, where the error of the second call of element_exists is
\* dropped and a lost call does read as gone.
GoneWasRead ==
    phase = "net" /\ kind \in {"gone", "frame gone"} /\ step.locator # "scoped" => ~run.missed

\* A step passes only if every dialog that opened by then, since the step before
\* it was accounted for, was the one it declared (the dialog listener,
\* verify_dialog, take_unexpected_dialog).
DialogsAccounted ==
    [][phase = "net" /\ phase' # "net" /\ run'.verdict # "fail"
            => opened = (IF step.dialog THEN 1 ELSE 0)]_vars

\* A download step captures one file, that was not there at launch and that no
\* other step captured (claimed_downloads).
DownloadsAreNew ==
    \A i, j \in DOMAIN captured : i # j =>
        captured[i] \cap captured[j] = {} /\ Cardinality(captured[j] \ captured[0]) <= 1

\* Every flow comes to an end: no wait is endless, as long as the services that
\* are asked answer.
FlowEnds == <>(phase = "over")
=============================================================================
