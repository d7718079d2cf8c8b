--------------------------- MODULE FlowMeaning ---------------------------
(***************************************************************************)
(* What a flow means, read off its blocks rather than off a trace: the     *)
(* deeds an interpreter of the flow file would do to an application.       *)
(* Replay is compared with it, on the recorded application and on others.  *)
(***************************************************************************)
EXTENDS StepReplay

CONSTANT Limit   \* as many steps as a reading, or an interpreter, of a flow takes

---------------------------------------------------------------------------
(* Reading a flow from its first line to its last, entering every block    *)
(* once.                                                                   *)

\* A step or a block, and where it stands: in which when: blocks and in which
\* loop, each told by the place of the reading that entered it, and on which
\* surface.  A loop comes back behind its steps.
Line(node, under, loop, surface) ==
    [node |-> node, under |-> under, loop |-> loop, surface |-> surface, back |-> 0]

\* The lines a block makes way for when it is entered, at place k.
Entered(e, k) ==
    LET n == e.node
        steps == [i \in DOMAIN n.steps |->
                    Line(n.steps[i], IF n.kind = "when" THEN Append(e.under, k) ELSE e.under,
                         IF n.kind = "repeat" THEN k ELSE e.loop,
                         IF n.kind = "in" THEN n.surface ELSE e.surface)]
    IN  IF n.kind = "repeat" THEN Append(steps, [e EXCEPT !.back = k]) ELSE steps

\* The lines to come after those at place k.
Onwards(lines, k) ==
    IF lines = <<>> THEN <<>>
    ELSE IF Head(lines).node.kind = "step" \/ Head(lines).back # 0 THEN Tail(lines)
    ELSE Entered(Head(lines), k) \o Tail(lines)

\* The lines still to come, at each place.
Reading ==
    [f \in Flows |->
        LET lines[k \in 1..Limit] ==
                IF k = 1 THEN [i \in DOMAIN f.steps |-> Line(f.steps[i], <<>>, 0, Main)]
                ELSE Onwards(lines[k - 1], k - 1)
        IN  lines]

Places(f) == {k \in 1..Limit : Reading[f][k] # <<>>}
At(f, k) == Head(Reading[f][k])
StepPlaces(f) == {k \in Places(f) : At(f, k).node.kind = "step"}

\* A loop in a loop, or a comparison, either of which replay cannot re-decide.
Nested(f) ==
    \E k \in Places(f) :
        LET e == At(f, k)
        IN  \/ e.node.kind = "repeat" /\ (e.loop # 0 \/ e.node.until \in Compared)
            \/ e.node.kind = "when" /\ e.node.when \in Compared

---------------------------------------------------------------------------
(* An interpreter.                                                         *)

\* What is still to do, and the state so far.
Doing(todo, screens, on, kept, deeds, ok) ==
    [todo |-> todo, screen |-> screens, on |-> on, kept |-> kept, deeds |-> deeds, ok |-> ok]

\* A step or a block to do, and the passes of it that were made.
Todo(nodes) == [i \in DOMAIN nodes |-> [node |-> nodes[i], passes |-> 0]]

\* A step is done, unless its act is impossible or lacks a value.
Do(a, c) ==
    LET leaf == Head(c.todo).node
        now == c.screen[c.on]
        to == a.acts[leaf.act][now]
        deed == [name |-> leaf.name, on |-> c.on, with |-> [n \in leaf.uses |-> c.kept[n]]]
        kept == [n \in DOMAIN c.kept \cup leaf.makes |-> IF n \in leaf.makes THEN now ELSE c.kept[n]]
    IN  IF to # Stuck /\ leaf.uses \subseteq DOMAIN c.kept
        THEN Doing(Tail(c.todo), [c.screen EXCEPT ![c.on] = to], c.on, kept, Append(c.deeds, deed), TRUE)
        ELSE Doing(c.todo, c.screen, c.on, c.kept, c.deeds, FALSE)

\* A block gives way to its steps, and to itself after one more pass.
Open(a, c) ==
    LET e == Head(c.todo)
        n == e.node
        rest == Tail(c.todo)
        Holds(cond) == c.screen[c.on] \in a.shows[cond]
        Go(todo, on, ok) == Doing(todo, c.screen, on, c.kept, c.deeds, ok)
    IN  CASE n.kind = "when" -> Go(IF Holds(n.when) THEN Todo(n.steps) \o rest ELSE rest, c.on, TRUE)
          [] n.kind = "in" -> Go(Todo(n.steps) \o rest, n.surface, TRUE)
          [] OTHER ->
                IF Holds(n.until) THEN Go(rest, c.on, TRUE)
                ELSE IF e.passes >= n.max THEN Go(c.todo, c.on, FALSE)
                ELSE Go(Todo(n.steps) \o <<[node |-> n, passes |-> e.passes + 1]>> \o rest, c.on, TRUE)

\* Nothing is left to do, or something could not be done.
Over(c) == c.todo = <<>> \/ ~c.ok

\* One step of the interpreter on application a.
Advance(a, c) ==
    IF Over(c) THEN c ELSE IF Head(c.todo).node.kind = "step" THEN Do(a, c) ELSE Open(a, c)

\* What it makes of flow f in the end.
Interpreting(f, a) ==
    LET state[k \in 0..Limit] ==
            IF k = 0 THEN Doing(Todo(f.steps), a.start, Main, <<>>, <<>>, TRUE)
            ELSE Advance(a, state[k - 1])
    IN  state

Meaning == [f \in Flows |-> [a \in Apps |-> Interpreting(f, a)[Limit]]]

\* A flow file is finite and its loops are bounded: an interpreter of it ends.
ASSUME LimitAssumption ==
    /\ Limit \in Nat \ {0}
    /\ \A f \in Flows : Reading[f][Limit] = <<>>
    /\ \A f \in Flows, a \in Apps : Over(Meaning[f][a])

---------------------------------------------------------------------------

\* The trace tells the whole flow: every step of it is in the part of the
\* trace that replay keeps.  A branch that was not taken while recording, or
\* only in a pass that is not the body, leaves nothing to replay.
TellsAll ==
    LET first(i) == CHOOSE f \in DOMAIN trace :
                        SameLoop(f, i) /\ \A g \in DOMAIN trace : SameLoop(g, i) => f <= g
        kept == {i \in DOMAIN trace : trace[i].rep.id = 0 \/ i \in ToSet(Body(first(i)))}
    IN  /\ {trace[i].leaf.name : i \in kept} = {At(flow, k).node.name : k \in StepPlaces(flow)}
        /\ ~Nested(flow)

\* Replay does what the flow says, on the application as it is now: up to
\* where it has come its deeds are those of the interpreter, in order and
\* with the same captured values; a pass means all of them were done; and it
\* gives up on a step or on a loop only where the interpreter does.
\* (Applications that do not move by themselves; whole runs; flows whose
\* trace tells all of them.)
MeansTheFlow ==
    phase \in {"replay", "reported"} /\ ~partial /\ app.drift = {} /\ TellsAll =>
        LET meaning == Meaning[flow][app]
        IN  /\ IsPrefix(done, meaning.deeds)
            /\ phase = "reported" /\ passed => meaning.ok /\ done = meaning.deeds
            /\ (\E k \in DOMAIN results : results[k].why \in {"bound", "stuck"}) =>
                  ~meaning.ok /\ done = meaning.deeds
=============================================================================
