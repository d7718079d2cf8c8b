-------------------------- MODULE FlowRecording --------------------------
(***************************************************************************)
(* Recording a flow (record_steps).  A flow is a tree of steps, when:      *)
(* blocks, repeat: blocks and, in a flow of several surfaces, in: blocks.  *)
(* Recording performs it once, against the application as it is, and       *)
(* unrolls the blocks into a flat trace; the steps of a when: carry its    *)
(* condition as a guard, those of the outermost repeat: its condition, its *)
(* bound and the pass that recorded them.                                  *)
(*                                                                         *)
(* The module has the actions of the recorder and the page they act on;    *)
(* StepReplay completes it to a specification.                             *)
(***************************************************************************)
EXTENDS Naturals, Sequences

CONSTANTS
    Flows,       \* [steps, multi, scan, exports]: what a spec file says
    Nodes,       \* the steps and blocks its steps, and theirs, may be
    Apps,        \* [start, acts, shows, drift, secret]: how applications behave
    States,      \* what a surface may show
    Surfaces,    \* the surfaces of a flow that declares several
    Main,        \* the only surface of a flow that declares none
    NoSurface,   \* no surface is active, or a step names none
    Stuck,       \* the act cannot be done in this state
    Compared     \* conditions that compare two elements

VARIABLES
    phase,       \* record, refused, stored, replay, reported or error
    flow,        \* the flow, one of Flows
    app,         \* the application it is run against, one of Apps
    screen,      \* what each surface shows
    active,      \* the surface the driver is on
    captures,    \* name -> value, in memory only
    leaked,      \* a sampled surface showed the secret the flow scans for
    queue,       \* the recorder's queue of spec steps
    trace,       \* the steps written so far
    guardIds,    \* guards numbered so far
    loopIds      \* loops numbered so far

page      == <<flow, app, screen, active>>
recording == <<queue, trace, guardIds, loopIds>>

\* Blocks that switch surfaces stand at the top level only, and in a flow of
\* several surfaces nothing else does (validate_surfaces).
ASSUME SurfacesAssumption ==
    /\ \A f \in Flows :
          /\ f.steps # <<>>
          /\ \A i \in DOMAIN f.steps : (f.steps[i].kind = "in") <=> f.multi
    /\ \A n \in Nodes : n.kind # "step" =>
          \A i \in DOMAIN n.steps : n.steps[i].kind # "in"
    /\ \A n \in Nodes : n.kind = "in" => n.surface \in Surfaces
    /\ NoSurface \notin Surfaces \cup {Main}

\* The steps of a flow are a list, and so are those of a block; a bound is a number.
ASSUME NodesAssumption ==
    /\ \A n \in Nodes : n.kind \in {"step", "when", "repeat", "in"}
    /\ \A f \in Flows : f.steps \in Seq(Nodes)
    /\ \A n \in Nodes : n.kind # "step" => n.steps \in Seq(Nodes)
    /\ \A n \in Nodes : n.kind = "repeat" => n.max \in Nat

NoLoop == [id |-> 0, pass |-> 1, max |-> 0, until |-> "none"]

---------------------------------------------------------------------------
(* The page.                                                               *)

\* What the active surface would show after an act, or Stuck.
After(act) == app.acts[act][screen[active]]

\* condition_holds and reading_holds: a reading of the active surface, now.
Reads(cond) == screen[active] \in app.shows[cond]

\* A step can be done: its element is there and actionable, or its check
\* holds, and every capture it refers to has been made.
Possible(leaf) ==
    /\ active # NoSurface
    /\ After(leaf.act) # Stuck
    /\ leaf.uses \subseteq DOMAIN captures

\* captures after the step: a capture reads the surface when it runs.
Remembering(leaf) ==
    [n \in DOMAIN captures \cup leaf.makes |->
        IF n \in leaf.makes THEN screen[active] ELSE captures[n]]

\* The effect of a step on the page and on the captures.
Act(leaf) ==
    /\ screen' = [screen EXCEPT ![active] = After(leaf.act)]
    /\ captures' = Remembering(leaf)

\* The text of the surface is sampled after a step that went well.
Sample == leaked' = (leaked \/ (flow.scan /\ screen'[active] \in app.secret))

\* The page changes by itself: a response arrives, a timer fires.
Drift ==
    /\ phase \in {"record", "replay"}
    /\ \E s \in DOMAIN screen, to \in States :
        /\ <<screen[s], to>> \in app.drift
        /\ screen' = [screen EXCEPT ![s] = to]

---------------------------------------------------------------------------
(* The recorder's queue.                                                   *)

\* guard_for: a comparison has no form replay could read.
GuardFor(cond, id) == IF cond \in Compared THEN <<>> ELSE <<[id |-> id, cond |-> cond]>>

\* repeat_for: likewise.
RepeatFor(node, id, pass) ==
    IF node.until \in Compared THEN NoLoop
    ELSE [id |-> id, pass |-> pass, max |-> node.max, until |-> node.until]

Queued(node, guards, rep, number) ==
    [node |-> node, guards |-> guards, rep |-> rep, number |-> number,
     passes |-> 0, own |-> 0]

QueuedAll(nodes, guards, rep, number) ==
    [i \in DOMAIN nodes |-> Queued(nodes[i], guards, rep, number)]

\* The number a person reading the file gives each top-level step: the steps
\* of an in: block count one by one, any other block once.
SpecStepNumbers(steps) ==
    LET Width(i) == IF steps[i].kind = "in" THEN Len(steps[i].steps) ELSE 1
        number[i \in DOMAIN steps] == IF i = 1 THEN 1 ELSE number[i - 1] + Width(i - 1)
    IN  number

RecordingInit ==
    /\ phase = "record"
    /\ flow \in Flows
    /\ app \in Apps
    /\ screen = app.start
    /\ active = IF flow.multi THEN flow.steps[1].surface ELSE Main
    /\ captures = <<>>
    /\ leaked = FALSE
    /\ queue = [i \in DOMAIN flow.steps |->
                   Queued(flow.steps[i], <<>>, NoLoop, SpecStepNumbers(flow.steps)[i])]
    /\ trace = <<>>
    /\ guardIds = 0
    /\ loopIds = 0

\* The recorder pops an entry of this kind.
Pops(kind) ==
    /\ phase = "record"
    /\ queue # <<>>
    /\ Head(queue).node.kind = kind

\* A when: that holds queues its steps, each under the new guard.
TakeBranch ==
    /\ Pops("when")
    /\ LET e == Head(queue)
           guards == e.guards \o GuardFor(e.node.when, guardIds + 1)
       IN  /\ Reads(e.node.when)
           /\ queue' = QueuedAll(e.node.steps, guards, e.rep, e.number) \o Tail(queue)
    /\ guardIds' = guardIds + 1
    /\ UNCHANGED <<phase, page, captures, leaked, trace, loopIds>>

\* One that does not leaves nothing behind.
SkipBranch ==
    /\ Pops("when")
    /\ ~Reads(Head(queue).node.when)
    /\ queue' = Tail(queue)
    /\ UNCHANGED <<phase, page, captures, leaked, trace, guardIds, loopIds>>

\* until: is read before each pass.
LeaveLoop ==
    /\ Pops("repeat")
    /\ Reads(Head(queue).node.until)
    /\ queue' = Tail(queue)
    /\ UNCHANGED <<phase, page, captures, leaked, trace, guardIds, loopIds>>

\* One more pass: its steps, then the loop again with one more pass counted.
\* A nested loop writes into the pass of the loop around it.
TakePass ==
    /\ Pops("repeat")
    /\ LET e == Head(queue)
           own == IF e.own = 0 THEN loopIds + 1 ELSE e.own
           rep == IF e.rep # NoLoop THEN e.rep ELSE RepeatFor(e.node, own, e.passes + 1)
       IN  /\ ~Reads(e.node.until)
           /\ e.passes < e.node.max
           /\ queue' = QueuedAll(e.node.steps, e.guards, rep, e.number)
                         \o <<[e EXCEPT !.passes = @ + 1, !.own = own]>> \o Tail(queue)
           /\ loopIds' = IF e.own = 0 THEN loopIds + 1 ELSE loopIds
    /\ UNCHANGED <<phase, page, captures, leaked, trace, guardIds>>

\* The bound is reached: recording fails and writes no trace.
LoopNeverSettles ==
    /\ Pops("repeat")
    /\ ~Reads(Head(queue).node.until)
    /\ Head(queue).passes >= Head(queue).node.max
    /\ phase' = "refused"
    /\ UNCHANGED <<page, captures, leaked, recording>>

\* An in: block makes its surface the active one and queues its steps.
EnterSurface ==
    /\ Pops("in")
    /\ LET e == Head(queue)
       IN  /\ active' = e.node.surface
           /\ queue' = [i \in DOMAIN e.node.steps |->
                           Queued(e.node.steps[i], e.guards, e.rep, e.number + i - 1)]
                         \o Tail(queue)
    /\ UNCHANGED <<phase, flow, app, screen, captures, leaked, trace, guardIds, loopIds>>

\* A step is performed, then written down.
Perform ==
    /\ Pops("step")
    /\ LET e == Head(queue)
       IN  /\ Possible(e.node)
           /\ Act(e.node)
           /\ trace' = Append(trace,
                [leaf |-> e.node, guards |-> e.guards, rep |-> e.rep, number |-> e.number,
                 surface |-> IF flow.multi THEN active ELSE NoSurface])
    /\ Sample
    /\ queue' = Tail(queue)
    /\ UNCHANGED <<phase, flow, app, active, guardIds, loopIds>>

\* An element is missing, a check does not hold within its time, a capture
\* was never made: the error ends the recording, and nothing is written.
Abandon ==
    /\ Pops("step")
    /\ ~Possible(Head(queue).node)
    /\ phase' = "refused"
    /\ UNCHANGED <<page, captures, leaked, recording>>

\* So does a failure of the driver or the model, or the page refusing what was
\* typed, at any moment.
BreakRecording ==
    /\ phase = "record"
    /\ phase' = "refused"
    /\ UNCHANGED <<page, captures, leaked, recording>>

\* The store-guard, then the trace.
Store ==
    /\ phase = "record"
    /\ queue = <<>>
    /\ phase' = IF leaked THEN "refused" ELSE "stored"
    /\ UNCHANGED <<page, captures, leaked, recording>>

RecordStep ==
    \/ TakeBranch \/ SkipBranch
    \/ LeaveLoop \/ TakePass \/ LoopNeverSettles
    \/ EnterSurface
    \/ Perform \/ Abandon
    \/ Store
=============================================================================
