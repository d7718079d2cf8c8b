-------------------------- MODULE MCRecordCommand --------------------------
EXTENDS RecordCommand

write(f, v) == [kind |-> "write", field |-> f, value |-> v]
see(f)      == [kind |-> "see", field |-> f, value |-> "any"]
check(f, v) == [kind |-> "check", field |-> f, value |-> v]
press       == [kind |-> "press", field |-> "none", value |-> "any"]
pick        == [kind |-> "pick", field |-> "none", value |-> "any"]

step(intent, by, acts) == [intent |-> intent, by |-> by, acts |-> acts]
one(s) == [form |-> "step", steps |-> <<s>>]

Reply(acts, more) == [acts |-> acts, more |-> more]

\* A step authored by a model that may answer anything, twice over.
Talkative ==
    LET acts == {write("f", "bad"), write("f", "good"), see("f"), press}
        pairs == {<<a, b>> : a \in acts, b \in acts}
    IN  [file    |-> <<one(step("Fill the form", "model", <<>>))>>,
         edits   |-> {},
         replies |-> {Reply(<<a>>, m) : a \in acts, m \in BOOLEAN}
                       \cup {Reply(<<a>>, FALSE) : a \in {write("g", "bad"), write("f", "worse")}}
                       \cup {Reply(p, FALSE) : p \in pairs},
         patches |-> <<>>, leaks |-> FALSE, model |-> FALSE, repair |-> FALSE,
         commands |-> 1]

\* A flow that says the same thing twice, but not in a row.
Again ==
    LET type == step("Type", "model", <<>>)
        look == step("Look", "rules", <<see("f")>>)
        go   == step("Go on", "plain", <<press>>)
    IN  [file    |-> <<one(type), one(look), one(type), one(go)>>,
         edits   |-> {<<one(type), one(type), one(go)>>, <<one(look), one(type), one(go)>>},
         replies |-> {Reply(<<write("f", "good")>>, FALSE), Reply(<<write("f", "bad"), pick>>, FALSE)},
         patches |-> <<>>, leaks |-> TRUE, model |-> FALSE, repair |-> FALSE,
         commands |-> 2]

\* A flow whose second step fails and may be patched.
Broken ==
    LET type  == step("Type", "plain", <<write("f", "good")>>)
        go    == step("Go on", "plain", <<press>>)
        late  == step("Type the rest", "plain", <<write("g", "good")>>)
        right == step("Check", "check", <<check("f", "bad")>>)
    IN  [file    |-> <<one(type), one(go), one(late), one(right)>>,
         edits   |-> {},
         replies |-> {},
         patches |-> [i \in {"Type", "Go on", "Type the rest", "Look", "Check"} |->
                        CASE i = "Type the rest" -> {one(step("Look", "plain", <<see("f")>>))}
                          [] i = "Look"  -> {one(step("Look", "plain", <<press>>))}
                          [] i = "Check" -> {one(right), one(step("Check", "check", <<check("f", "good")>>))}
                          [] i = "Type"  -> {one(type)}
                          [] OTHER       -> {one(go)}],
         leaks   |-> FALSE, model |-> TRUE, repair |-> TRUE, commands |-> 2]

\* A flow whose button may be covered for as long as the recorder waits.
Covered ==
    LET type == step("Type", "plain", <<write("f", "good")>>)
        go   == step("Go on", "plain", <<press>>)
        move == step("Move on", "plain", <<press>>)
    IN  [file    |-> <<one(type), one(go)>>, edits |-> {}, replies |-> {},
         patches |-> [i \in {"Type", "Go on", "Move on"} |->
                        IF i = "Go on" THEN {one(move)} ELSE {one(go)}],
         leaks   |-> FALSE, model |-> TRUE, repair |-> TRUE, commands |-> 1]

MCProjects == {Talkative, Again, Broken, Covered}

\* The failing step follows a foreach: entry.
Matrix ==
    LET type == step("Type", "plain", <<write("f", "good")>>)
        a    == step("Look a", "plain", <<see("f")>>)
        b    == step("Look b", "plain", <<see("f")>>)
        bad  == step("Check", "check", <<check("f", "bad")>>)
        go   == step("Go on", "plain", <<press>>)
        late == step("Type the rest", "plain", <<write("g", "good")>>)
    IN  [file    |-> <<[form |-> "foreach", steps |-> <<a, b>>], one(go), one(late), one(type), one(bad)>>,
         edits   |-> {}, replies |-> {},
         patches |-> [i \in {"Type the rest", "Type", "Check", "Look a", "Look b", "Go on"} |-> {one(type)}],
         leaks   |-> FALSE, model |-> TRUE, repair |-> TRUE, commands |-> 2]

MatrixOnly == {Matrix}
=============================================================================
