--------------------------- MODULE MCStepExecution ---------------------------
(* StepExecution on a ladder of two rungs: flows of one step of every kind,  *)
(* and of two steps where one leaves something to the next.                  *)
EXTENDS StepExecution

MCText == <<"a", "b">>

S(k) == [kind |-> k, locator |-> "plain", waits |-> FALSE, post |-> FALSE, dialog |-> FALSE,
         refs |-> TRUE, retry |-> FALSE,
         files |-> IF k = "download" THEN {1, 2, 3} ELSE {}]

Shows(rungs, shown, gates, values, frames) ==
    [rungs : rungs, shown : shown, gate : gates, value : values, frame : frames]

\* What the readings of a kind of step can tell apart.
MCPages(k) ==
    CASE k \in Targeted -> Shows({{}, {1}, {2}}, {TRUE}, {"open", "obscured", "disabled"}, {TRUE},
                                 {"reached"})
      [] k \in FrameReadings -> Shows({{}, {1}}, {TRUE}, {"open"}, BOOLEAN,
                                      {"reached", "missing", "foreign"})
      [] k \in Contents -> Shows(SUBSET Ladder, {TRUE}, {"open"}, BOOLEAN, {"reached"})
      [] k \in Presence -> Shows(SUBSET Ladder, BOOLEAN, {"open"}, {TRUE}, {"reached"})
      [] k \in SurfaceReadings -> Shows({{}}, {TRUE}, {"open"}, BOOLEAN, {"reached"})
      [] OTHER -> Shows({{}}, {TRUE}, {"open"}, {TRUE}, {"reached"})

MCFlows ==
    {<<S(k)>> : k \in Kinds}
    \cup {<<[S(k) EXCEPT !.dialog = TRUE, !.waits = TRUE], S("text")>> : k \in {"click", "click at"}}
    \cup {<<[S("press") EXCEPT !.files = {1, 2}], S("download"), S("download")>>,
          <<[S("type") EXCEPT !.refs = FALSE]>>, <<[S("computed") EXCEPT !.refs = FALSE]>>,
          <<[S("style") EXCEPT !.refs = FALSE]>>,
          <<[S("post") EXCEPT !.retry = TRUE]>>, <<[S("get") EXCEPT !.refs = FALSE]>>,
          <<S("press"), [S("gone") EXCEPT !.post = TRUE]>>,
          <<[S("click") EXCEPT !.locator = "framed"]>>, <<[S("click") EXCEPT !.locator = "scoped"]>>,
          <<[S("type") EXCEPT !.locator = "sap"]>>}
    \cup {<<[S(k) EXCEPT !.locator = "scoped"]>> : k \in {"gone", "there", "element"}}

=============================================================================
