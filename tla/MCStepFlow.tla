---------------------------- MODULE MCStepFlow ----------------------------
(* An application with four screens: work leads to half and over, and now   *)
(* and then to a fault that has to be put right first.                      *)
EXTENDS FlowMeaning

MCStates == {"work", "half", "fault", "over"}
MCSurfaces == {"gui", "portal"}

Step(name, act) == [kind |-> "step", name |-> name, act |-> act, uses |-> {}, makes |-> {}]
Remember(name, n) == [Step(name, "look") EXCEPT !.makes = {n}]
Type(name, act, n) == [Step(name, act) EXCEPT !.uses = {n}]
When(cond, steps) == [kind |-> "when", when |-> cond, steps |-> steps]
Repeat(until, max, steps) == [kind |-> "repeat", until |-> until, max |-> max, steps |-> steps]
In(surface, steps) == [kind |-> "in", surface |-> surface, steps |-> steps]
Flow(steps, out) == [steps |-> steps, multi |-> FALSE, scan |-> FALSE, exports |-> out]

MCCompared == {"compared"}

\* A loop that recovers from faults, and a capture of what it arrived at.
Recovering == Flow(
    <<Repeat("over", 3, <<When("faulty", <<Step("fix", "fix"), Step("look", "look")>>),
                          Step("go", "go")>>),
      Step("check", "isOver"), Remember("keep", "n"), Type("use", "look", "n")>>, {"n"})

\* An optional block that remembers, used by what follows it.
Optional == Flow(
    <<Step("start", "go"), When("faulty", <<Step("fix", "fix"), Remember("keep", "n")>>),
      Step("go on", "go"), Type("use", "look", "n")>>, {"n"})

\* A loop that remembers in every pass, and an export nothing makes.
Counting(out) == Flow(
    <<Repeat("over", 2, <<Remember("keep", "n"), Type("go", "go", "n")>>),
      Type("use", "isOver", "n")>>, out)

Scanned == [Flow(<<Step("start", "go"), Step("go on", "go")>>, {"n"}) EXCEPT !.scan = TRUE]

\* Two surfaces, visited in turn.
Visiting == [Flow(
    <<In("gui", <<Step("open", "go"), Repeat("over", 2, <<Step("go", "go")>>), Remember("keep", "n")>>),
      In("portal", <<Type("use", "go", "n"), When("half", <<Step("go again", "go")>>)>>),
      In("gui", <<Step("check", "isOver")>>)>>, {"n"}) EXCEPT !.multi = TRUE]

\* Settled while recording: a loop in a loop, and a comparison.
Nesting == Flow(
    <<Repeat("over", 2, <<Repeat("half", 1, <<Step("go", "go")>>), Step("go on", "go")>>),
      When("compared", <<Step("look", "look")>>),
      Repeat("compared", 1, <<Step("fix", "fix")>>)>>, {})

\* A loop inside an optional block, whose first step does away with its reason.
Clearing == Flow(
    <<When("faulty", <<Step("fix", "fix"), Repeat("over", 3, <<Step("go", "go")>>)>>),
      Step("check", "isOver")>>, {})

MCGuarded == {Clearing}

MCFlows ==
    {Recovering, Optional, Counting({"n"}), Counting({"n", "m"}), Scanned, Visiting, Nesting}

\* The steps of a list and of the blocks in it.
RECURSIVE NodesOf(_)
NodesOf(steps) ==
    ToSet(steps) \cup UNION {NodesOf(n.steps) : n \in {m \in ToSet(steps) : m.kind # "step"}}

MCNodes == UNION {NodesOf(f.steps) : f \in MCFlows \cup MCGuarded}

Behaves(start, go, fix, drift, secret) ==
    [start |-> [s \in MCSurfaces \cup {"main"} |-> start],
     acts |-> [go |-> go, fix |-> fix,
               look |-> [s \in MCStates |-> s],
               isOver |-> [s \in MCStates |-> IF s = "over" THEN s ELSE "stuck"]],
     shows |-> [over |-> {"over"}, half |-> {"half"}, faulty |-> {"fault"},
                compared |-> {"half", "over"}],
     drift |-> drift, secret |-> secret]

Go(first, second) == [work |-> first, half |-> second, fault |-> "stuck", over |-> "over"]
Fix(to) == [work |-> "stuck", half |-> "stuck", over |-> "stuck", fault |-> to]

MCApps == {
    Behaves("work", Go("half", "over"), Fix("half"), {}, {}),
    Behaves("work", Go("fault", "over"), Fix("half"), {}, {"half"}),
    Behaves("work", Go("half", "half"), Fix("over"), {}, {"over"}),
    Behaves("over", Go("half", "over"), Fix("work"), {}, {}),
    Behaves("fault", Go("fault", "over"), Fix("work"), {}, {}),
    Behaves("work", Go("half", "over"), Fix("half"), {<<"work", "fault">>, <<"half", "over">>}, {"fault"})
}
=============================================================================
