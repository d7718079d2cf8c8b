----------------------------- MODULE Authoring -----------------------------
(***************************************************************************)
(* One recording of a flow whose steps are authored while it runs          *)
(* (author_actions and the inner loop of record_steps).  A step is reused  *)
(* from earlier steps, read by the rules, or authored by a model against   *)
(* the page as it is.  A plan of the model is performed in a closed loop:  *)
(* when its next action is refused, or the model said the step goes on     *)
(* elsewhere, the rest is authored again.  Writes the page rejected and a  *)
(* later write replaced are dropped from what is kept.                     *)
(*                                                                         *)
(* The page is a form of some fields, on screen 0, and a button that moves *)
(* on and reads the whole form.  Something may cover the button.           *)
(***************************************************************************)
EXTENDS Naturals, Sequences, FiniteSets, SequencesExt

CONSTANTS
    Fields,      \* the fields of the form
    Tokens,      \* those whose target is a CSS selector or an id
    Positional,  \* those whose selector is a position (nth-of-type)
    Rejects,     \* the values the form does not accept
    LastScreen,  \* the screen that has no button
    MaxReplans,  \* MAX_STEP_REPLANS
    MaxActions   \* MAX_STEP_ACTIONS

ASSUME AuthoringAssumption ==
    /\ Positional \subseteq Tokens /\ Tokens \subseteq Fields
    /\ MaxReplans \in Nat /\ MaxActions \in Nat /\ LastScreen \in Nat

VARIABLES
    phase,       \* author, act, failed, recorded; the command has others
    spec,        \* the steps to record: [intent, by, acts]; by is model, rules
                 \* (marked so), plain (read by the rules) or check
    replies,     \* what the model may answer: [acts, more]
    page,
    covered,     \* something would receive a click meant for the button
    old,         \* the earlier steps on offer (ReuseCursor)
    next,        \* the first of them not passed over yet
    reused,      \* the numbers of the steps each group taken over was recorded for
    at,          \* the number of the step being recorded
    plan,        \* its actions still to do
    closed,      \* its plan may be authored again
    said,        \* the model's last answer: none, rest, more or complete
    replans,
    refused,     \* refusals this step was authored again for
    superseded,  \* fields the page rejected a value in
    steps,       \* every action performed: [act, intent, number]
    from,        \* how many of them earlier steps performed
    completed,   \* what is kept of the steps that passed
    boundary,    \* the page when the last of them passed
    failure      \* [kind, intent] of the error

stepping  == <<plan, closed, said, replans, refused, superseded, from>>
kept      == <<completed, boundary>>
reuse     == <<old, next, reused>>
recorder  == <<phase, spec, replies, page, covered, reuse, at, stepping, steps, kept, failure>>

NoFailure == [kind |-> "none", intent |-> "none"]

---------------------------------------------------------------------------
(* The page.                                                               *)

Blank == [screen |-> 0, values |-> [f \in Fields |-> "empty"], picked |-> FALSE,
          seen |-> <<>>]

OnScreen(act, p) ==
    IF act.kind = "press" THEN p.screen < LastScreen ELSE p.screen = 0

\* What an action finds out: the button reads the form, other looks one field.
Finds(act, p) ==
    IF act.kind = "press" THEN <<<<p.values, p.picked>>>>
    ELSE IF act.kind \in {"write", "pick"} THEN <<>>
    ELSE <<p.values[act.field]>>

\* What an action does, and what it finds out, noted in seen.
Do(act, p) ==
    [screen |-> IF act.kind = "press" THEN p.screen + 1 ELSE p.screen,
     values |-> IF act.kind = "write" THEN [p.values EXCEPT ![act.field] = act.value]
                ELSE p.values,
     picked |-> p.picked \/ act.kind = "pick",
     seen   |-> p.seen \o Finds(act, p)]

\* The page a step leads to; one that is not possible ends the replay.
Then(act, p) == IF OnScreen(act, p) THEN Do(act, p) ELSE [p EXCEPT !.screen = LastScreen + 1]

\* The page a sequence of steps leads to.
Redone(list) ==
    LET leads[n \in 0..Len(list)] == IF n = 0 THEN Blank ELSE Then(list[n].act, leads[n - 1])
    IN  leads[Len(list)]

\* rejected_fields: a form shows what it rejects only while it is on screen.
RejectedFields == {f \in Fields : page.screen = 0 /\ page.values[f] \in Rejects}

Cover ==
    /\ phase = "act"
    /\ covered' = ~covered
    /\ UNCHANGED <<phase, spec, replies, page, reuse, at, stepping, steps, kept, failure>>

---------------------------------------------------------------------------
(* Reuse.                                                                  *)

\* ReuseCursor::new: a run of equal intents is one group, known by its first step.
Groups == {i \in DOMAIN old : i = 1 \/ old[i].intent # old[i - 1].intent}

Group(g) == {i \in g..Len(old) : \A k \in g..i : old[k].intent = old[g].intent}

Offers(intent) == {g \in Groups : g >= next /\ old[g].intent = intent}
\* A faulty variant: every group is on offer, the ones passed over too.
OfferFromStart(intent) ==
    LET all == {g \in Groups : old[g].intent = intent}
    IN  CHOOSE g \in all : \A h \in all : g <= h

Offer(intent) == CHOOSE g \in Offers(intent) : \A h \in Offers(intent) : g <= h

\* take_matching: every target resolves, on the page as it is.  A check needs
\* no target.
Reusable(intent) ==
    /\ Offers(intent) # {}
    /\ \A i \in Group(Offer(intent)) : old[i].act.kind = "check" \/ OnScreen(old[i].act, page)

---------------------------------------------------------------------------
(* Authoring a step.                                                       *)

\* A model names elements of the scene it was shown.
Grounded(reply) == \A i \in DOMAIN reply.acts : OnScreen(reply.acts[i], page)

Recording(theSpec, theReplies, earlier) ==
    /\ phase' = "author"
    /\ spec' = theSpec /\ replies' = theReplies
    /\ page' = Blank /\ covered' = FALSE
    /\ old' = earlier /\ next' = 1 /\ reused' = <<>>
    /\ at' = 1 /\ plan' = <<>> /\ closed' = FALSE /\ said' = "none" /\ replans' = 0
    /\ refused' = {} /\ superseded' = {} /\ steps' = <<>> /\ from' = 0
    /\ completed' = <<>> /\ boundary' = Blank /\ failure' = NoFailure

Authors == phase = "author" /\ at <= Len(spec)

Opened(acts, loop, answer) ==
    /\ phase' = "act"
    /\ plan' = acts /\ closed' = loop /\ said' = answer
    /\ replans' = 0 /\ refused' = {} /\ superseded' = {}
    /\ from' = Len(steps)
    /\ UNCHANGED <<spec, replies, page, covered, at, steps, kept, failure>>

\* A rules: marker is honoured: such a step is never reused.
Offered == spec[at].by # "rules" /\ Reusable(spec[at].intent)

Reuse ==
    /\ Authors
    /\ Offered
    /\ LET g == Offer(spec[at].intent)
       IN  /\ next' = g + 1
           /\ reused' = Append(reused, {old[i].number : i \in Group(g)})
           /\ Opened([n \in 1..Cardinality(Group(g)) |-> old[g + n - 1].act], FALSE, "none")
    /\ UNCHANGED old

AuthorByRules ==
    /\ Authors
    /\ ~Offered
    /\ spec[at].by # "model"
    /\ Opened(spec[at].acts, FALSE, "none")
    /\ UNCHANGED reuse

AuthorByModel ==
    /\ Authors
    /\ ~Offered
    /\ spec[at].by = "model"
    /\ \E reply \in replies :
        /\ Grounded(reply)
        /\ Opened(reply.acts, TRUE, IF reply.more THEN "more" ELSE "rest")
    /\ UNCHANGED reuse

\* The recorder returns: what it knew is gone but for what it hands back.
Returned ==
    /\ page' = Blank /\ covered' = FALSE
    /\ old' = <<>> /\ next' = 1 /\ reused' = <<>>
    /\ plan' = <<>> /\ closed' = FALSE /\ said' = "none" /\ replans' = 0
    /\ refused' = {} /\ superseded' = {} /\ steps' = <<>> /\ from' = 0

Failed(kind, intent) ==
    /\ phase' = "failed"
    /\ failure' = [kind |-> kind, intent |-> intent]
    /\ Returned
    /\ UNCHANGED <<spec, replies, at, kept>>

\* The model's two answers do not ground, or it says that the step before has
\* not settled.
Ambiguous ==
    /\ Authors /\ ~Offered /\ spec[at].by = "model"
    /\ \E kind \in {"ambiguous-step", "page-not-ready-transient"} : Failed(kind, spec[at].intent)

\* The driver fails, at any moment, or a ${VAR} has no value: the error names no
\* step.
DriverFails ==
    /\ phase \in {"author", "act"}
    /\ \E kind \in {"page-not-ready", "setup"} : Failed(kind, "none")

---------------------------------------------------------------------------
(* Settling a step.                                                        *)

Own == (from + 1)..Len(steps)

Writes(field) ==
    {i \in Own : steps[i].act.kind = "write" /\ steps[i].act.field = field}

\* Actions that may have seen what a field held.
Observers ==
    {i \in Own : /\ steps[i].act.kind # "pick"
                 /\ ~(steps[i].act.kind = "write" /\ steps[i].act.field \in Tokens)}

\* A faulty variant: whatever looked between two writes.
DroppedUnseen(rejected) ==
    UNION {{i \in Writes(f) : \E j \in Writes(f) : i < j} :
           f \in rejected \cap (Tokens \ Positional)}

\* Writes to a rejected field but the last, unless something looked between.
Dropped(rejected) ==
    UNION {{i \in Writes(f) :
                /\ \E j \in Writes(f) : i < j
                /\ \A o \in Observers : i < o => \A j \in Writes(f) : j < o} :
           f \in rejected \cap (Tokens \ Positional)}

\* What is kept, with the step that is done.
Passed(rejected) ==
    LET list[i \in from..Len(steps)] ==
            IF i = from THEN completed
            ELSE IF i \in Dropped(rejected) THEN list[i - 1]
            ELSE Append(list[i - 1], steps[i])
    IN  list[Len(steps)]

\* keep_passed.
Closed(answer, rejected) ==
    /\ phase' = "author"
    /\ at' = at + 1
    /\ said' = answer
    /\ plan' = <<>> /\ closed' = FALSE /\ replans' = 0 /\ refused' = {} /\ superseded' = {}
    /\ from' = Len(steps)
    /\ completed' = Passed(rejected)
    /\ boundary' = page
    /\ UNCHANGED <<spec, replies, page, covered, reuse, steps, failure>>

\* The plan is done, and nothing says the step is not.
StepIsDone ==
    /\ phase = "act" /\ plan = <<>>
    /\ said # "more"
    /\ replans = 0 \/ replans >= MaxReplans

FinishStep == StepIsDone /\ Closed(said, superseded)

\* The model still promised more, and may not be asked again.
NeverFinishes ==
    /\ phase = "act" /\ plan = <<>> /\ ~StepIsDone
    /\ replans >= MaxReplans
    /\ Failed("wrong-wait-signal", spec[at].intent)

\* author_remainder: the rest of the step, for the page as it is.
Remainder ==
    \E reply \in replies :
        /\ Grounded(reply)
        /\ plan' = reply.acts
        /\ said' = IF reply.more THEN "more" ELSE "rest"

\* replan_remainder: the step is complete, or here is the rest of it, or the
\* answers do not ground, an error that names no step.
Replan(key, fields) ==
    /\ replans < MaxReplans
    /\ \/ Closed("complete", superseded \cup fields)
       \/ Failed("engine-gap", "none")
       \/ /\ Remainder
          /\ replans' = replans + 1
          /\ refused' = refused \cup key
          /\ superseded' = superseded \cup fields
          /\ UNCHANGED <<phase, spec, replies, page, covered, reuse, at, closed, steps,
                         from, kept, failure>>

AskForRest ==
    /\ phase = "act" /\ plan = <<>> /\ ~StepIsDone
    /\ Replan({}, {})

---------------------------------------------------------------------------
(* Performing the plan.                                                    *)

Acts == phase = "act" /\ plan # <<>>

Missing(act) == act.kind # "check" /\ ~OnScreen(act, page)

\* The form refused a value and the plan is about to leave it.
Rejected(act) == closed /\ act.kind = "press" /\ RejectedFields # {}

Occluded(act) == act.kind = "press" /\ covered

\* Refused for the first time for this reason, with answers left: the rest is
\* authored again.  Otherwise the step fails.
Refused(key, fields, kind) ==
    IF closed /\ replans < MaxReplans /\ key \notin refused
    THEN Replan({key}, fields)
    ELSE Failed(kind, spec[at].intent)

RefuseMissing ==
    /\ Acts /\ Missing(Head(plan))
    /\ Refused(<<"missing", Head(plan)>>, {}, "missing-target")

\* The values are part of the reason: another bad value is another try.
RefuseRejected ==
    /\ Acts /\ ~Missing(Head(plan)) /\ Rejected(Head(plan))
    /\ LET held == [f \in RejectedFields |-> page.values[f]]
       IN  Refused(<<"rejected", held>>, RejectedFields, "wrong-wait-signal")

RefuseOccluded ==
    /\ Acts /\ ~Missing(Head(plan)) /\ ~Rejected(Head(plan)) /\ Occluded(Head(plan))
    /\ Refused(<<"occluded", Head(plan)>>, {}, "wrong-wait-signal")

Holds(act) ==
    act.kind = "check" => page.screen = 0 /\ page.values[act.field] = act.value

CheckFails ==
    /\ Acts /\ ~Holds(Head(plan))
    /\ Failed("wrong-wait-signal", spec[at].intent)

\* The action is performed and written down; a plan without end is not.
Perform ==
    /\ Acts
    /\ ~Missing(Head(plan)) /\ ~Rejected(Head(plan)) /\ ~Occluded(Head(plan))
    /\ Holds(Head(plan))
    /\ IF Len(steps) + 1 - from > MaxActions
       THEN Failed("wrong-wait-signal", spec[at].intent)
       ELSE /\ page' = Do(Head(plan), page)
            /\ plan' = Tail(plan)
            /\ steps' = Append(steps, [act |-> Head(plan), intent |-> spec[at].intent,
                                       number |-> at])
            /\ UNCHANGED <<phase, spec, replies, covered, reuse, at, closed, said, replans,
                           refused, superseded, from, kept, failure>>

RecordStep ==
    \/ Reuse \/ AuthorByRules \/ AuthorByModel \/ Ambiguous
    \/ FinishStep \/ NeverFinishes \/ AskForRest
    \/ RefuseMissing \/ RefuseRejected \/ RefuseOccluded \/ CheckFails
    \/ Perform
    \/ DriverFails
=============================================================================
