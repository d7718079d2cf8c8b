------------------------------ MODULE WebDriver ------------------------------
(***************************************************************************)
(* What replay asks of a browser (WebAppDriver).  The page changes by      *)
(* itself; a call may be lost in transport; dialogs are answered on        *)
(* another thread; downloads land in a directory whenever the browser is   *)
(* done with them.                                                         *)
(***************************************************************************)
EXTENDS Naturals, FiniteSets

CONSTANTS
    Rungs,        \* the length of a selector ladder; rung 1 is the primary
    Pages(_),     \* the states of the page that a kind of step may meet
    MaxRetries    \* TRANSPORT_FAULT_RETRIES

ASSUME RungsAssumption == Rungs \in Nat \ {0}
ASSUME RetriesAssumption == MaxRetries \in Nat

Ladder == 1..Rungs

VARIABLES
    page,       \* [rungs, shown, gate, value, frame]: what the page shows
    dialogs,    \* DialogState: [armed, fired, unexpected]
    later,      \* a dialog the page will open on its own
    landed,     \* the downloads finished so far
    claimed     \* the downloads that were there at launch or taken by a step

driver == <<page, dialogs, later, landed, claimed>>

---------------------------------------------------------------------------
(* Readings.  A call answers, is lost in transport, or is refused.         *)

Answers == {"answer", "lost", "refused"}

\* Whether the page has an element for a rung.  Inside a container or a table
\* the element is found in two calls, and the second one lost reads as absent.
ElementExists(locator, rung, answer) ==
    rung \in page.rungs /\ ~(answer = "lost" /\ locator = "scoped")

\* What becomes of that call.
ExistsAnswers(locator, answer) ==
    IF answer = "lost" /\ locator = "scoped" THEN {"answer", "lost"} ELSE {answer}

\* The element is rendered; an element that is no longer there is not.
ElementVisible(rung) == rung \in page.rungs /\ page.shown

\* The first reason why an element cannot be acted on, or "open".
ActionabilityGate(rung) ==
    IF rung \notin page.rungs THEN "missing" ELSE page.gate

ProbeFrame(rung) ==
    IF page.frame = "reached" THEN [frame |-> "reached", present |-> rung \in page.rungs]
    ELSE [frame |-> page.frame, present |-> FALSE]

---------------------------------------------------------------------------
(* Dialogs.  The listener of the browser's thread answers one as it opens.  *)

NoDialogs == [armed |-> FALSE, fired |-> "none", unexpected |-> FALSE]

ArmDialog == dialogs' = [dialogs EXCEPT !.armed = TRUE, !.fired = "none"]

AfterDialog(state, what) ==
    IF state.armed THEN [state EXCEPT !.armed = FALSE, !.fired = what]
                   ELSE [state EXCEPT !.unexpected = TRUE]

DialogsTaken == [dialogs EXCEPT !.armed = FALSE, !.fired = "none"]

VerifyDialog == dialogs.fired = "expected"

UnexpectedTaken == [dialogs EXCEPT !.unexpected = FALSE]

---------------------------------------------------------------------------
(* Downloads.                                                              *)

Fresh == landed \ claimed

---------------------------------------------------------------------------

DriverInit(kind, files) ==
    /\ page \in Pages(kind)
    /\ dialogs = NoDialogs
    /\ later = FALSE
    /\ landed \in SUBSET files
    /\ claimed = landed

\* The page rearranges itself.
PageMoves(kind) ==
    /\ page' \in Pages(kind) \ {page}
    /\ UNCHANGED <<dialogs, later, landed, claimed>>

\* A dialog that a page opens some time after the input that led to it.
LateDialog(what) ==
    /\ later
    /\ later' = FALSE
    /\ dialogs' = AfterDialog(dialogs, what)
    /\ UNCHANGED <<page, landed, claimed>>

DownloadLands(files) ==
    /\ \E f \in files \ landed : landed' = landed \cup {f}
    /\ UNCHANGED <<page, dialogs, later, claimed>>
=============================================================================
