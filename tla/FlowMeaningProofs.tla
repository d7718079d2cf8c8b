------------------------- MODULE FlowMeaningProofs -------------------------
(***************************************************************************)
(* That replay does what the flow means.  A flow is read place by place    *)
(* (FlowMeaning, Reading); the recorder and replay each keep step with     *)
(* that reading, and so does the interpreter.  What the lines of a reading *)
(* are, and where the blocks it enters end, is the last part of            *)
(* StepReplayProofs, behind that the worklist of a whole run is in order.  *)
(*   - The interpreter is at a place of the reading, in a pass of a loop.  *)
(*   - Replay is where the interpreter is, as long as a trace tells the    *)
(*     flow (Told): one lemma for each step of replay.                     *)
(*   - The recorder is at a place of the reading too, and what it has      *)
(*     written are the steps of the places before it.                      *)
(*   - So a trace with every step of the flow in it (TellsAll) tells it.   *)
(***************************************************************************)
EXTENDS StepReplayProofs

(* The interpreter, on the places of a reading.                            *)

\* A line of a block is read before the block ends.
LEMMA LineRange ==
    ASSUME NEW f \in Flows, Simple(f), NEW b, BlockPlace(f, b), NEW k \in 1..Limit,
           NEW m \in DOMAIN Reading[f][k], In(b, Reading[f][k][m])
    PROVE  b < k /\ k < End(f, b)
<1>1. /\ End(f, b) \in 1..Limit /\ b \in Nat \ {0} /\ b + 1 < End(f, b)
      /\ \A i \in End(f, b)..Limit, w \in b..(End(f, b) - 1) :
                 \A n \in DOMAIN Reading[f][i] : ~In(w, Reading[f][i][n])
    BY EndFacts
<1>2. Laid(f, k, Reading[f][k][m]) /\ k \in Nat /\ Limit \in Nat
    BY ReadAll, LimitAssumption DEF ReadAt
<1>3. b < k
    BY <1>1, <1>2, InBefore
<1>4. k < End(f, b)
    <2> SUFFICES ASSUME ~(k < End(f, b)) PROVE FALSE
        OBVIOUS
    <2>1. k \in End(f, b)..Limit /\ b \in b..(End(f, b) - 1)
        BY <1>1, <1>2
    <2> QED
        BY <1>1, <2>1
<1> QED
    BY <1>3, <1>4

\* Nothing that is to come when a loop is entered is in a loop.
LEMMA LoopAlonePlace ==
    ASSUME NEW f \in Flows, Simple(f), NEW s, LoopPlace(f, s), NEW m \in DOMAIN Reading[f][s]
    PROVE  Reading[f][s][m].back = 0 /\ Reading[f][s][m].loop = 0
<1> SUFFICES ASSUME NEW b, b # 0, Reading[f][s][m].back = b \/ Reading[f][s][m].loop = b PROVE FALSE
    OBVIOUS
<1>1. s \in Places(f) /\ At(f, s).back = 0 /\ At(f, s).node.kind = "repeat" /\ s \in 1..Limit /\ ReadAt(f, s)
    BY LineKnown DEF LoopPlace, Fresh
<1>2. LoopPlace(f, b)
    BY <1>1 DEF ReadAt, Laid
<1>3. In(b, Reading[f][s][m]) /\ BlockPlace(f, b)
    BY <1>2 DEF In, BlockPlace
<1>4. b < s /\ s < End(f, b) /\ b \in Nat \ {0} /\ End(f, b) \in Nat
    BY <1>1, <1>3, LineRange, EndFacts
<1>5. At(f, s).loop = 0
    BY <1>1 DEF Simple, Nested
<1>6. CASE s = End(f, b) - 1
    <2>1. IsLine(At(f, b))
        BY <1>2, LineKnown DEF LoopPlace, Fresh, Laid
    <2> DEFINE c == End(f, b) - 1
    <2>4. At(f, c) = [At(f, b) EXCEPT !.back = b]
        BY <1>2, LoopEnds
    <2> HIDE DEF c
    <2>5. s = c
        BY <1>6 DEF c
    <2>2. At(f, s) = [At(f, b) EXCEPT !.back = b]
        BY <2>4, <2>5
    <2>3. At(f, s).back = b
        BY <2>1, <2>2, BackIs
    <2> QED
        BY <1>1, <2>3
<1>7. CASE s # End(f, b) - 1
    <2> DEFINE c == End(f, b) - 1
    <2>1. s \in (b + 1)..(c - 1)
        BY <1>1, <1>4, <1>7
    <2>3. \A k \in (b + 1)..(c - 1) : k \in Places(f) /\ At(f, k).loop = b /\ At(f, k).back = 0
        BY <1>2, LoopEnds
    <2> HIDE DEF c
    <2>2. At(f, s).loop = b
        BY <2>1, <2>3
    <2> QED
        BY <1>5, <2>2
<1> QED
    BY <1>6, <1>7

\* The surface stays the same, but for blocks that switch it.
LEMMA SurfaceNext ==
    ASSUME NEW f \in Flows, Simple(f), NEW k \in Places(f), NEW z \in Places(f), Reading[f][z] = Tail(Reading[f][k]),
           At(f, k).node.kind # "in", At(f, z).node.kind # "in"
    PROVE  At(f, z).surface = At(f, k).surface
<1>1. /\ ReadAt(f, k) /\ IsSeq(Reading[f][k]) /\ Reading[f][k] # <<>> /\ 1 \in DOMAIN Reading[f][k]
      /\ At(f, k) = Reading[f][k][1]
    BY LineKnown
<1>2. 1 \in DOMAIN Reading[f][z] /\ At(f, z) = Reading[f][z][1]
    BY LineKnown
<1>3. /\ DOMAIN Tail(Reading[f][k]) = 1..(Len(Reading[f][k]) - 1) /\ DOMAIN Reading[f][k] = 1..Len(Reading[f][k])
      /\ \A i \in DOMAIN Tail(Reading[f][k]) : Tail(Reading[f][k])[i] = Reading[f][k][i + 1]
      /\ Len(Reading[f][k]) \in Nat
    BY <1>1, TailIsSeq
<1>4. 1 + 1 \in DOMAIN Reading[f][k] /\ At(f, z) = Reading[f][k][1 + 1]
    BY <1>2, <1>3
<1> QED
    BY <1>1, <1>4 DEF ReadAt

\* What an interpreter has to do at a place, in pass p of the loop it is in.
Item(e, p) == [node |-> e.node, passes |-> IF e.back = 0 THEN 0 ELSE p]
Items(lines, p) == [m \in DOMAIN lines |-> Item(lines[m], p)]

\* As many things to do as there are lines.
LEMMA ItemsSeq ==
    ASSUME NEW L, IsSeq(L), NEW p
    PROVE  /\ IsSeq(Items(L, p)) /\ DOMAIN Items(L, p) = DOMAIN L /\ Len(Items(L, p)) = Len(L) /\ Len(L) \in Nat
           /\ DOMAIN L = 1..Len(L)
           /\ \A m \in DOMAIN L : Items(L, p)[m] = Item(L[m], p)
<1>1. Len(L) \in Nat /\ DOMAIN L = 1..Len(L)
    BY DEF IsSeq
<1> DEFINE s == Items(L, p)
<1>2. s = [m \in 1..Len(L) |-> s[m]] /\ DOMAIN s = DOMAIN L /\ \A m \in DOMAIN L : s[m] = Item(L[m], p)
    BY <1>1 DEF Items
<1> HIDE DEF s
<1>3. IsSeq(s) /\ Len(s) = Len(L)
    BY <1>1, <1>2, FunIsSeq
<1> QED
    BY <1>1, <1>2, <1>3 DEF s

\* What is to do behind the first line.
LEMMA ItemsTail ==
    ASSUME NEW L, IsSeq(L), L # <<>>, NEW p
    PROVE  /\ Items(L, p) # <<>> /\ Head(Items(L, p)) = Item(L[1], p)
           /\ Tail(Items(L, p)) = Items(Tail(L), p) /\ IsSeq(Tail(L))
<1> DEFINE s == Items(L, p)
           r == Tail(L)
           t == Tail(s)
           u == Items(r, p)
<1>1. /\ IsSeq(r) /\ Len(L) \in Nat \ {0} /\ DOMAIN L = 1..Len(L) /\ DOMAIN r = 1..(Len(L) - 1)
      /\ \A m \in DOMAIN r : r[m] = L[m + 1]
    BY TailIsSeq
<1>2. IsSeq(s) /\ DOMAIN s = DOMAIN L /\ Len(s) = Len(L) /\ \A m \in DOMAIN L : s[m] = Item(L[m], p)
    BY ItemsSeq
<1>3. s # <<>>
    <2>1. 1 \in DOMAIN s
        BY <1>1, <1>2
    <2> HIDE DEF s
    <2> QED
        BY <2>1, ShortIsSeq
<1>4. IsSeq(u) /\ DOMAIN u = DOMAIN r /\ \A m \in DOMAIN r : u[m] = Item(r[m], p)
    BY <1>1, ItemsSeq
<1> HIDE DEF s
<1>5. IsSeq(t) /\ DOMAIN t = 1..(Len(s) - 1) /\ Head(s) = s[1] /\ \A m \in DOMAIN t : t[m] = s[m + 1]
    BY <1>2, <1>3, TailIsSeq
<1> HIDE DEF t, u, r
<1>6. DOMAIN t = DOMAIN u /\ \A m \in DOMAIN t : m + 1 \in DOMAIN L
    BY <1>1, <1>2, <1>4, <1>5
<1>7. \A m \in DOMAIN t : t[m] = u[m]
    BY <1>1, <1>2, <1>4, <1>5, <1>6
<1>8. t = u
    BY <1>4, <1>5, <1>6, <1>7, SeqsEqual
<1>9. Head(s) = Item(L[1], p)
    BY <1>1, <1>2, <1>5
<1> QED
    BY <1>1, <1>3, <1>8, <1>9 DEF s, t, u, r

\* What is to do in lines that stand one behind the other.
LEMMA ItemsConcat ==
    ASSUME NEW L, IsSeq(L), NEW M, IsSeq(M), NEW p
    PROVE  Items(L \o M, p) = Items(L, p) \o Items(M, p)
<1> DEFINE c == L \o M
           s == Items(L, p)
           t == Items(M, p)
           u == Items(c, p)
           v == s \o t
<1>1. /\ IsSeq(c) /\ Len(L) \in Nat /\ Len(M) \in Nat /\ DOMAIN c = 1..(Len(L) + Len(M))
      /\ DOMAIN L = 1..Len(L) /\ DOMAIN M = 1..Len(M)
      /\ \A k \in DOMAIN c : c[k] = IF k <= Len(L) THEN L[k] ELSE M[k - Len(L)]
    BY ConcatIsSeq
<1>2. IsSeq(s) /\ DOMAIN s = DOMAIN L /\ Len(s) = Len(L) /\ \A m \in DOMAIN L : s[m] = Item(L[m], p)
    BY ItemsSeq
<1>3. IsSeq(t) /\ DOMAIN t = DOMAIN M /\ Len(t) = Len(M) /\ \A m \in DOMAIN M : t[m] = Item(M[m], p)
    BY ItemsSeq
<1> HIDE DEF s, t, c
<1>4. IsSeq(u) /\ DOMAIN u = DOMAIN c /\ \A m \in DOMAIN c : u[m] = Item(c[m], p)
    BY <1>1, ItemsSeq
<1>5. /\ IsSeq(v) /\ DOMAIN v = 1..(Len(s) + Len(t))
      /\ \A k \in DOMAIN v : v[k] = IF k <= Len(s) THEN s[k] ELSE t[k - Len(s)]
    BY <1>2, <1>3, ConcatIsSeq
<1> HIDE DEF u, v
<1>6. DOMAIN u = DOMAIN v
    BY <1>1, <1>2, <1>3, <1>4, <1>5
<1>7. ASSUME NEW k \in DOMAIN u PROVE u[k] = v[k]
    <2>1. k \in DOMAIN c /\ k \in DOMAIN v /\ (k <= Len(L) => k \in DOMAIN L) /\ (~(k <= Len(L)) => k - Len(L) \in DOMAIN M)
        BY <1>1, <1>4, <1>6, <1>7
    <2> QED
        BY <1>1, <1>2, <1>3, <1>4, <1>5, <2>1, Zenon
<1>8. u = v
    BY <1>4, <1>5, <1>6, <1>7, SeqsEqual
<1> QED
    BY <1>8 DEF u, v, s, t, c

\* What is to do is the same in every pass, but for a loop that comes back.
LEMMA ItemsSame ==
    ASSUME NEW L, \A m \in DOMAIN L : L[m].back = 0, NEW p, NEW q
    PROVE  Items(L, p) = Items(L, q)
<1>1. \A m \in DOMAIN L : Item(L[m], p) = Item(L[m], q)
    BY DEF Item
<1> QED
    BY <1>1 DEF Items

\* What a block makes way for.
LEMMA ItemsEntered ==
    ASSUME NEW e, IsLine(e), e.node \in Nodes, e.node.kind # "step", NEW k, k # 0, NEW p
    PROVE  /\ IsSeq(Entered(e, k)) /\ IsSeq(Todo(e.node.steps))
           /\ Items(Entered(e, k), p) =
                 IF e.node.kind = "repeat" THEN Todo(e.node.steps) \o <<[node |-> e.node, passes |-> p]>>
                 ELSE Todo(e.node.steps)
<1> DEFINE n == Len(e.node.steps)
           ins == Entered(e, k)
           s == Todo(e.node.steps)
           u == Items(ins, p)
           x == [node |-> e.node, passes |-> p]
           v == s \o <<x>>
<1>1. /\ n \in Nat /\ IsSeq(ins) /\ Len(ins) = IF e.node.kind = "repeat" THEN n + 1 ELSE n
      /\ DOMAIN e.node.steps = 1..n /\ DOMAIN ins = 1..Len(ins)
      /\ \A m \in 1..n : ins[m] = Line(e.node.steps[m], UnderIn(e, k), LoopIn(e, k), SurfaceIn(e))
      /\ e.node.kind = "repeat" => ins[n + 1] = [e EXCEPT !.back = k]
    BY EnteredLines
<1>2. s = [m \in 1..n |-> s[m]] /\ \A m \in 1..n : s[m] = [node |-> e.node.steps[m], passes |-> 0]
    BY <1>1 DEF Todo
<1>3. /\ e.node.kind = "repeat" => Item(ins[n + 1], p) = x
      /\ \A m \in 1..n : Item(ins[m], p) = [node |-> e.node.steps[m], passes |-> 0]
    <2>1. ASSUME e.node.kind = "repeat" PROVE Item(ins[n + 1], p) = x
        <3> DEFINE b == [e EXCEPT !.back = k]
        <3>1. b.back = k /\ b.node = e.node
            BY BackIs
        <3> HIDE DEF b
        <3>2. Item(b, p) = x
            BY <3>1 DEF Item
        <3>3. ins[n + 1] = b
            BY <1>1, <2>1 DEF b
        <3> HIDE DEF ins, x, n
        <3> QED
            BY <3>2, <3>3
    <2>2. ASSUME NEW m \in 1..n PROVE Item(ins[m], p) = [node |-> e.node.steps[m], passes |-> 0]
        <3> DEFINE d == Line(e.node.steps[m], UnderIn(e, k), LoopIn(e, k), SurfaceIn(e))
        <3>1. d.back = 0 /\ d.node = e.node.steps[m]
            BY LineIs
        <3>2. ins[m] = d
            BY <1>1, <2>2
        <3> HIDE DEF d, ins, n
        <3> QED
            BY <3>1, <3>2 DEF Item
    <2> QED
        BY <2>1, <2>2
<1> HIDE DEF s, n, ins, x
<1>4. IsSeq(s) /\ Len(s) = n /\ DOMAIN s = 1..n
    BY <1>1, <1>2, FunIsSeq
<1>5. IsSeq(u) /\ DOMAIN u = DOMAIN ins /\ \A m \in DOMAIN ins : u[m] = Item(ins[m], p)
    BY <1>1, ItemsSeq
<1>6. IsSeq(<<x>>) /\ Len(<<x>>) = 1 /\ <<x>>[1] = x
    BY ShortIsSeq
<1>7. /\ IsSeq(v) /\ DOMAIN v = 1..(n + 1) /\ \A m \in DOMAIN v : v[m] = IF m <= n THEN s[m] ELSE <<x>>[m - n]
    BY <1>4, <1>6, ConcatIsSeq
<1> HIDE DEF u, v
<1>8. CASE e.node.kind = "repeat"
    <2>1. DOMAIN u = DOMAIN v
        BY <1>1, <1>5, <1>7, <1>8
    <2>2. ASSUME NEW m \in DOMAIN u PROVE u[m] = v[m]
        <3>1. m \in 1..(n + 1) /\ m \in DOMAIN ins
            BY <1>1, <1>5, <1>8, <2>2
        <3>2. CASE m <= n
            <4>1. m \in 1..n
                BY <1>1, <3>1, <3>2
            <4> QED
                BY <1>2, <1>3, <1>5, <1>7, <2>1, <3>1, <3>2, <4>1, Zenon
        <3>3. CASE ~(m <= n)
            <4>1. m = n + 1 /\ m - n = 1
                BY <1>1, <3>1, <3>3
            <4>2. v[m] = x
                BY <1>6, <1>7, <2>1, <3>3, <4>1
            <4>3. u[m] = x
                BY <1>3, <1>5, <1>8, <3>1, <4>1
            <4> QED
                BY <4>2, <4>3
        <3> QED
            BY <3>2, <3>3
    <2>3. u = v
        BY <1>5, <1>7, <2>1, <2>2, SeqsEqual
    <2> QED
        BY <1>1, <1>4, <1>8, <2>3 DEF u, v, s, ins, x
<1>9. CASE e.node.kind # "repeat"
    <2>1. DOMAIN u = DOMAIN s /\ \A m \in DOMAIN u : u[m] = s[m]
        BY <1>1, <1>2, <1>3, <1>4, <1>5, <1>9
    <2>2. u = s
        BY <1>4, <1>5, <2>1, SeqsEqual
    <2> QED
        BY <1>1, <1>4, <1>9, <2>2 DEF u, s, ins
<1> QED
    BY <1>8, <1>9

---------------------------------------------------------------------------
(* The steps of an interpreter.                                            *)

IsRun(a, start, g) == g = [k \in 0..Limit |-> IF k = 0 THEN start ELSE Advance(a, g[k - 1])]

\* The recursive function Interpreting defines exists.
LEMMA RunExists ==
    ASSUME NEW a, NEW start
    PROVE  \E g : IsRun(a, start, g)
<1> DEFINE Has(m) == \E g : g = [k \in 0..m |-> IF k = 0 THEN start ELSE Advance(a, g[k - 1])]
           T == {m \in Nat : ~Has(m)}
<1>0. SUFFICES Has(Limit)
    BY DEF IsRun
<1> SUFFICES ASSUME T # {} PROVE FALSE
    BY LimitAssumption
<1>1. PICK m \in T : \A k \in T : m <= k
    BY Least
<1>2. Has(0)
    <2> DEFINE g == [k \in 0..0 |-> start]
    <2>1. g = [k \in 0..0 |-> IF k = 0 THEN start ELSE Advance(a, g[k - 1])]
        OBVIOUS
    <2> QED
        BY <2>1
<1>3. m \in Nat /\ m > 0 /\ m - 1 \in Nat /\ ~(m <= m - 1)
    <2>1. m \in Nat /\ ~Has(m)
        BY <1>1
    <2>2. m # 0
        BY <1>2, <2>1
    <2> HIDE DEF Has
    <2> QED
        BY <2>1, <2>2
<1>4. Has(m - 1)
    BY <1>1, <1>3
<1>5. PICK g : g = [k \in 0..(m - 1) |-> IF k = 0 THEN start ELSE Advance(a, g[k - 1])]
    BY <1>4
<1> DEFINE h == [k \in 0..m |-> IF k = m THEN Advance(a, g[m - 1]) ELSE g[k]]
           q == [k \in 0..m |-> IF k = 0 THEN start ELSE Advance(a, h[k - 1])]
<1>6. \A k \in 0..m : h[k] = q[k]
    <2> TAKE k \in 0..m
    <2>1. CASE k = m
        <3>1. h[m] = Advance(a, g[m - 1]) /\ h[m - 1] = g[m - 1]
            BY <1>3
        <3>2. q[m] = Advance(a, h[m - 1])
            BY <1>3
        <3> QED
            BY <2>1, <3>1, <3>2
    <2>2. CASE k # m
        <3>1. k \in 0..(m - 1) /\ (k # 0 => k - 1 \in 0..m /\ k - 1 # m)
            BY <1>3, <2>2
        <3>2. h[k] = g[k] /\ (k # 0 => h[k - 1] = g[k - 1])
            BY <2>2, <3>1
        <3>3. g[k] = IF k = 0 THEN start ELSE Advance(a, g[k - 1])
            BY <1>5, <3>1
        <3> QED
            BY <3>2, <3>3
    <2> QED
        BY <2>1, <2>2
<1>7. h = q
    BY <1>6
<1>8. Has(m)
    BY <1>7
<1> QED
    BY <1>1, <1>8

\* The interpreter starts with the steps of the flow, goes on step by step, and is over
\* at the end.
LEMMA InterpretingSteps ==
    ASSUME NEW f \in Flows, NEW a \in Apps
    PROVE  LET I == Interpreting(f, a)
           IN  /\ I[0] = Doing(Todo(f.steps), a.start, Main, <<>>, <<>>, TRUE)
               /\ \A j \in 0..(Limit - 1) : I[j + 1] = Advance(a, I[j])
               /\ Over(I[Limit]) /\ Meaning[f][a] = I[Limit] /\ Limit \in Nat \ {0}
<1> DEFINE I == Interpreting(f, a)
           start == Doing(Todo(f.steps), a.start, Main, <<>>, <<>>, TRUE)
           g == CHOOSE h : IsRun(a, start, h)
<1>2. I = g
    BY DEF Interpreting, IsRun
<1> HIDE DEF start
<1>7. IsRun(a, start, g)
    BY RunExists
<1>1. g = [k \in 0..Limit |-> IF k = 0 THEN start ELSE Advance(a, g[k - 1])]
    BY <1>7 DEF IsRun
<1>3. Limit \in Nat \ {0} /\ Over(Meaning[f][a])
    BY LimitAssumption
<1>4. Meaning[f][a] = I[Limit]
    BY DEF Meaning
<1> HIDE DEF g, I
<1>5. g[0] = start
    <2>1. 0 \in 0..Limit
        BY <1>3
    <2> QED
        BY <1>1, <2>1, Zenon
<1>6. ASSUME NEW j \in 0..(Limit - 1) PROVE g[j + 1] = Advance(a, g[j])
    <2>1. j + 1 \in 0..Limit /\ j + 1 # 0 /\ (j + 1) - 1 = j
        BY <1>3, <1>6
    <2> QED
        BY <1>1, <2>1
<1> QED
    BY <1>2, <1>3, <1>4, <1>5, <1>6 DEF I, start

\* The interpreter comes to state c.
Reached(f, a, c) == \E j \in 0..Limit : Interpreting(f, a)[j] = c

\* One step of the interpreter further.
LEMMA ReachedNext ==
    ASSUME NEW f \in Flows, NEW a \in Apps, NEW c, Reached(f, a, c), ~Over(c)
    PROVE  Reached(f, a, Advance(a, c))
<1> DEFINE I == Interpreting(f, a)
<1>1. /\ \A j \in 0..(Limit - 1) : I[j + 1] = Advance(a, I[j])
      /\ Over(I[Limit]) /\ Limit \in Nat \ {0}
    BY InterpretingSteps
<1>2. PICK j \in 0..Limit : I[j] = c
    BY DEF Reached
<1> HIDE DEF I
<1>3. j # Limit
    BY <1>1, <1>2
<1>4. j \in 0..(Limit - 1) /\ j + 1 \in 0..Limit
    BY <1>1, <1>3
<1>5. I[j + 1] = Advance(a, c)
    BY <1>1, <1>2, <1>4
<1> QED
    BY <1>4, <1>5 DEF Reached, I

\* What holds of the state reached and of every state that follows one of which it
\* holds, holds of the last.
LEMMA OverStays ==
    ASSUME NEW f \in Flows, NEW a \in Apps, NEW c, Reached(f, a, c), Over(c)
    PROVE  Meaning[f][a] = c
<1> DEFINE I == Interpreting(f, a)
<1>1. /\ \A j \in 0..(Limit - 1) : I[j + 1] = Advance(a, I[j])
      /\ Limit \in Nat \ {0} /\ Meaning[f][a] = I[Limit]
    BY InterpretingSteps
<1>2. PICK i \in 0..Limit : I[i] = c
    BY DEF Reached
<1> HIDE DEF I
<1> DEFINE T == {j \in i..Limit : I[j] # c}
<1> SUFFICES ASSUME T # {} PROVE FALSE
    BY <1>1, <1>2
<1>3. T \in SUBSET Nat
    BY <1>1
<1>4. PICK j \in T : \A k \in T : j <= k
    BY <1>3, Least
<1>5. j # i /\ j \in i..Limit /\ I[j] # c
    BY <1>2, <1>4
<1>6. j - 1 \in i..Limit /\ j - 1 \in 0..(Limit - 1) /\ (j - 1) + 1 = j /\ ~(j <= j - 1)
    BY <1>1, <1>5
<1>7. I[j - 1] = c
    BY <1>4, <1>6
<1>8. I[j] = Advance(a, c)
    <2> DEFINE l == j - 1
    <2>1. l \in 0..(Limit - 1) /\ I[l] = c /\ l + 1 = j
        BY <1>6, <1>7
    <2> HIDE DEF l
    <2> QED
        BY <1>1, <2>1
<1>9. Advance(a, c) = c
    BY DEF Advance
<1> QED
    BY <1>5, <1>8, <1>9

\* s is how t starts.
Starts(s, t) == IsSeq(s) /\ IsSeq(t) /\ Len(s) <= Len(t) /\ \A m \in DOMAIN s : s[m] = t[m]

\* What a sequence starts with is a prefix of it.
LEMMA StartsPrefix ==
    ASSUME NEW s, NEW t, Starts(s, t)
    PROVE  IsPrefix(s, t)
<1>1. IsSeq(s) /\ IsSeq(t) /\ Len(s) \in Nat /\ Len(t) \in Nat /\ DOMAIN s = 1..Len(s) /\ DOMAIN t = 1..Len(t)
      /\ Len(s) <= Len(t) /\ \A m \in DOMAIN s : s[m] = t[m]
    BY DEF Starts, IsSeq
<1>2. SubSeq(s, 1, Len(s)) = SubSeq(t, 1, Len(s))
    BY <1>1 DEF IsSeq
<1> QED
    BY <1>1, <1>2 DEF IsPrefix

\* One step of the interpreter leaves the deeds alone, or adds one.
LEMMA DeedsGrow ==
    ASSUME NEW a, NEW c, IsSeq(c.deeds)
    PROVE  Starts(c.deeds, Advance(a, c).deeds)
<1>1. Starts(c.deeds, c.deeds)
    BY DEF Starts, IsSeq
<1>2. ASSUME NEW d PROVE Starts(c.deeds, Append(c.deeds, d))
    <2>1. /\ IsSeq(Append(c.deeds, d)) /\ DOMAIN Append(c.deeds, d) = 1..(Len(c.deeds) + 1)
          /\ DOMAIN c.deeds = 1..Len(c.deeds) /\ Len(c.deeds) \in Nat
          /\ \A k \in DOMAIN Append(c.deeds, d) : Append(c.deeds, d)[k] = IF k = Len(c.deeds) + 1 THEN d ELSE c.deeds[k]
        BY AppendIsSeq
    <2>2. Len(Append(c.deeds, d)) = Len(c.deeds) + 1
        BY <2>1 DEF IsSeq
    <2> QED
        BY <2>1, <2>2 DEF Starts
<1>3. Advance(a, c).deeds = c.deeds \/ \E d : Advance(a, c).deeds = Append(c.deeds, d)
    <2>1. CASE Over(c)
        BY <2>1 DEF Advance
    <2>2. CASE ~Over(c) /\ Head(c.todo).node.kind = "step"
        <3>1. Advance(a, c) = Do(a, c)
            BY <2>2 DEF Advance
        <3>2. Do(a, c).deeds = c.deeds \/ \E d : Do(a, c).deeds = Append(c.deeds, d)
            BY Zenon DEF Do, Doing
        <3> QED
            BY <3>1, <3>2, Zenon
    <2>3. CASE ~Over(c) /\ Head(c.todo).node.kind # "step"
        <3>1. Advance(a, c) = Open(a, c)
            BY <2>3 DEF Advance
        <3>2. Open(a, c).deeds = c.deeds
            BY DEF Open, Doing
        <3> QED
            BY <3>1, <3>2
    <2> QED
        BY <2>1, <2>2, <2>3
<1> QED
    BY <1>1, <1>2, <1>3

\* The deeds of every state reached are how those of the last start.
LEMMA ReachedDeeds ==
    ASSUME NEW f \in Flows, NEW a \in Apps, NEW c, Reached(f, a, c)
    PROVE  Starts(c.deeds, Meaning[f][a].deeds)
<1> DEFINE I == Interpreting(f, a)
<1>0. /\ I[0] = Doing(Todo(f.steps), a.start, Main, <<>>, <<>>, TRUE)
      /\ \A j \in 0..(Limit - 1) : I[j + 1] = Advance(a, I[j])
      /\ Limit \in Nat \ {0} /\ Meaning[f][a] = I[Limit]
    BY InterpretingSteps
<1>1. /\ I[0].deeds = <<>>
      /\ \A j \in 0..(Limit - 1) : I[j + 1] = Advance(a, I[j])
      /\ Limit \in Nat \ {0} /\ Meaning[f][a] = I[Limit]
    BY <1>0 DEF Doing
<1>2. PICK i \in 0..Limit : I[i] = c
    BY DEF Reached
<1> HIDE DEF I
<1>3. \A j \in 0..Limit : IsSeq(I[j].deeds)
    <2> DEFINE T == {j \in 0..Limit : ~IsSeq(I[j].deeds)}
    <2> SUFFICES ASSUME T # {} PROVE FALSE
        OBVIOUS
    <2>1. T \in SUBSET Nat
        BY <1>1
    <2>2. PICK j \in T : \A k \in T : j <= k
        BY <2>1, Least
    <2>3. j # 0
        BY <1>1, <2>2, ShortIsSeq
    <2> DEFINE l == j - 1
    <2>4. l \in 0..Limit /\ l \in 0..(Limit - 1) /\ l + 1 = j /\ ~(j <= l)
        BY <1>1, <2>2, <2>3
    <2> HIDE DEF l
    <2>5. IsSeq(I[l].deeds)
        BY <2>2, <2>4
    <2>6. IsSeq(I[l + 1].deeds)
        BY <1>1, <2>4, <2>5, DeedsGrow DEF Starts
    <2> QED
        BY <2>2, <2>4, <2>6
<1>4. \A j \in i..Limit : Starts(c.deeds, I[j].deeds)
    <2> DEFINE T == {j \in i..Limit : ~Starts(c.deeds, I[j].deeds)}
    <2> SUFFICES ASSUME T # {} PROVE FALSE
        OBVIOUS
    <2>1. T \in SUBSET Nat
        BY <1>1
    <2>2. PICK j \in T : \A k \in T : j <= k
        BY <2>1, Least
    <2>3. j # i
        <3>1. Starts(c.deeds, c.deeds)
            BY <1>2, <1>3 DEF Starts, IsSeq
        <3> QED
            BY <1>2, <2>2, <3>1
    <2> DEFINE l == j - 1
    <2>4. l \in i..Limit /\ l \in 0..Limit /\ l \in 0..(Limit - 1) /\ l + 1 = j /\ ~(j <= l)
        BY <1>1, <2>2, <2>3
    <2> HIDE DEF l
    <2>5. Starts(c.deeds, I[l].deeds) /\ IsSeq(I[l].deeds)
        BY <1>3, <2>2, <2>4
    <2>6. Starts(I[l].deeds, I[j].deeds)
        BY <1>1, <2>4, <2>5, DeedsGrow
    <2>7. Starts(c.deeds, I[j].deeds)
        <3> DEFINE r == c.deeds
                   s == I[l].deeds
                   t == I[j].deeds
        <3>1. Starts(r, s) /\ Starts(s, t)
            BY <2>5, <2>6
        <3> HIDE DEF r, s, t
        <3>2. /\ Len(r) \in Nat /\ Len(s) \in Nat /\ Len(t) \in Nat /\ DOMAIN r = 1..Len(r) /\ DOMAIN s = 1..Len(s)
              /\ IsSeq(r) /\ IsSeq(t) /\ Len(r) <= Len(s) /\ Len(s) <= Len(t)
            BY <3>1 DEF Starts, IsSeq
        <3>3. Len(r) <= Len(t) /\ \A m \in DOMAIN r : m \in DOMAIN s
            BY <3>2
        <3>4. Starts(r, t)
            BY <3>1, <3>2, <3>3 DEF Starts
        <3> QED
            BY <3>4 DEF r, t
    <2> QED
        BY <2>2, <2>7
<1>5. Limit \in i..Limit
    BY <1>1, <1>2
<1> QED
    BY <1>1, <1>4, <1>5

\* The interpreter comes to place k of the flow.
Comes(f, a, k, p, screens, on, kept, deeds) ==
    Reached(f, a, Doing(Items(Reading[f][k], p), screens, on, kept, deeds, TRUE))

\* The interpreter starts at the first place.
LEMMA ComesFirst ==
    ASSUME NEW f \in Flows, NEW a \in Apps
    PROVE  Comes(f, a, 1, 0, a.start, Main, <<>>, <<>>)
<1>1. Items(Reading[f][1], 0) = Todo(f.steps)
    <2>1. Reading[f][1] = [i \in DOMAIN f.steps |-> Line(f.steps[i], <<>>, 0, Main)]
        BY ReadingSteps
    <2>2. \A i \in DOMAIN f.steps : Item(Reading[f][1][i], 0) = [node |-> f.steps[i], passes |-> 0]
        <3> TAKE i \in DOMAIN f.steps
        <3> DEFINE d == Line(f.steps[i], <<>>, 0, Main)
        <3>1. d.back = 0 /\ d.node = f.steps[i]
            BY LineIs
        <3>2. Reading[f][1][i] = d
            BY <2>1
        <3> HIDE DEF d
        <3> QED
            BY <3>1, <3>2 DEF Item
    <2> QED
        BY <2>1, <2>2 DEF Items, Todo
<1>2. 0 \in 0..Limit
    BY LimitAssumption
<1> QED
    BY <1>1, <1>2, InterpretingSteps DEF Comes, Reached

\* Nothing is left.
LEMMA ComesLast ==
    ASSUME NEW f \in Flows, NEW a \in Apps, NEW k, NEW p, NEW screens, NEW on, NEW kept, NEW deeds,
           Comes(f, a, k, p, screens, on, kept, deeds), Reading[f][k] = <<>>
    PROVE  Meaning[f][a].ok /\ Meaning[f][a].deeds = deeds
<1> DEFINE c == Doing(Items(Reading[f][k], p), screens, on, kept, deeds, TRUE)
<1>1. c.ok /\ c.deeds = deeds /\ c.todo = Items(Reading[f][k], p)
    BY DEF Doing
<1>2. Items(<<>>, p) = <<>>
    <2>1. IsSeq(<<>>) /\ DOMAIN <<>> = {} /\ Len(<<>>) = 0
        BY ShortIsSeq
    <2> DEFINE s == Items(<<>>, p)
               e == <<>>
    <2>2. IsSeq(s) /\ DOMAIN s = DOMAIN e
        BY <2>1, ItemsSeq
    <2>3. \A m \in DOMAIN s : s[m] = e[m]
        BY <2>1, <2>2
    <2> HIDE DEF s, e
    <2>4. s = e
        BY <2>1, <2>2, <2>3, SeqsEqual DEF e
    <2> QED
        BY <2>4 DEF s, e
<1>3. Over(c)
    BY <1>1, <1>2 DEF Over
<1>4. Reached(f, a, c)
    BY DEF Comes
<1> HIDE DEF c
<1> QED
    BY <1>1, <1>3, <1>4, OverStays

\* What the interpreter has done is a part of what it does.
LEMMA ComesDeeds ==
    ASSUME NEW f \in Flows, NEW a \in Apps, NEW k, NEW p, NEW screens, NEW on, NEW kept, NEW deeds,
           Comes(f, a, k, p, screens, on, kept, deeds)
    PROVE  IsPrefix(deeds, Meaning[f][a].deeds) /\ IsSeq(deeds)
<1> DEFINE c == Doing(Items(Reading[f][k], p), screens, on, kept, deeds, TRUE)
<1>1. c.deeds = deeds
    BY DEF Doing
<1>2. Reached(f, a, c)
    BY DEF Comes
<1> HIDE DEF c
<1>3. Starts(deeds, Meaning[f][a].deeds)
    BY <1>1, <1>2, ReachedDeeds
<1> QED
    BY <1>3, StartsPrefix DEF Starts

\* What the interpreter does next is at the head of what it has to do.
Facing(f, a, k, p, screens, on, kept, deeds, c) ==
    /\ c.todo = Items(Reading[f][k], p) /\ c.screen = screens /\ c.on = on /\ c.kept = kept
    /\ c.deeds = deeds /\ c.ok
    /\ Head(c.todo) = Item(At(f, k), p) /\ Head(c.todo).node = At(f, k).node
    /\ Tail(c.todo) = Items(Tail(Reading[f][k]), p)
    /\ Reached(f, a, IF At(f, k).node.kind = "step" THEN Do(a, c) ELSE Open(a, c))

\* What the interpreter faces at a place.
LEMMA ComesNext ==
    ASSUME NEW f \in Flows, NEW a \in Apps, Simple(f), NEW k \in Places(f), NEW p, NEW screens, NEW on, NEW kept, NEW deeds,
           Comes(f, a, k, p, screens, on, kept, deeds)
    PROVE  \E c : Facing(f, a, k, p, screens, on, kept, deeds, c)
<1> DEFINE c == Doing(Items(Reading[f][k], p), screens, on, kept, deeds, TRUE)
<1>1. /\ c.todo = Items(Reading[f][k], p) /\ c.screen = screens /\ c.on = on /\ c.kept = kept
      /\ c.deeds = deeds /\ c.ok
    BY DEF Doing
<1>2. IsSeq(Reading[f][k]) /\ Reading[f][k] # <<>> /\ At(f, k) = Reading[f][k][1]
    BY LineKnown
<1>3. /\ Items(Reading[f][k], p) # <<>> /\ Head(Items(Reading[f][k], p)) = Item(At(f, k), p)
      /\ Tail(Items(Reading[f][k], p)) = Items(Tail(Reading[f][k]), p)
    BY <1>2, ItemsTail
<1>4. Reached(f, a, c)
    BY DEF Comes
<1> HIDE DEF c
<1>5. ~Over(c)
    BY <1>1, <1>3 DEF Over
<1>6. Reached(f, a, Advance(a, c))
    BY <1>4, <1>5, ReachedNext
<1>7. Head(c.todo).node = At(f, k).node
    BY <1>1, <1>3 DEF Item
<1>8. Advance(a, c) = IF At(f, k).node.kind = "step" THEN Do(a, c) ELSE Open(a, c)
    BY <1>5, <1>7 DEF Advance
<1> QED
    BY <1>1, <1>3, <1>6, <1>7, <1>8 DEF c, Facing

\* What a step that is done makes of the surfaces, of the captures and of the deeds.
Moved(screens, on, to) == [screens EXCEPT ![on] = to]
KeptBy(leaf, kept, now) == [n \in DOMAIN kept \cup leaf.makes |-> IF n \in leaf.makes THEN now ELSE kept[n]]
DeedBy(leaf, on, kept) == [name |-> leaf.name, on |-> on, with |-> [n \in leaf.uses |-> kept[n]]]

\* A step that can be done is done.
LEMMA ComesStep ==
    ASSUME NEW f \in Flows, NEW a \in Apps, Simple(f), NEW k \in StepPlaces(f), NEW p, NEW screens, NEW on, NEW kept, NEW deeds,
           Comes(f, a, k, p, screens, on, kept, deeds),
           NEW leaf, leaf = At(f, k).node, NEW to, to = a.acts[leaf.act][screens[on]],
           to # Stuck, leaf.uses \subseteq DOMAIN kept
    PROVE  Comes(f, a, k + 1, p, Moved(screens, on, to), on, KeptBy(leaf, kept, screens[on]),
                 Append(deeds, DeedBy(leaf, on, kept)))
<1>1. k \in Places(f) /\ At(f, k).node.kind = "step"
    BY DEF StepPlaces
<1>2a. PICK c : Facing(f, a, k, p, screens, on, kept, deeds, c)
    BY <1>1, ComesNext
<1>2. /\ c.todo = Items(Reading[f][k], p) /\ c.screen = screens /\ c.on = on /\ c.kept = kept
      /\ c.deeds = deeds /\ Head(c.todo).node = At(f, k).node
      /\ Tail(c.todo) = Items(Tail(Reading[f][k]), p)
      /\ Reached(f, a, IF At(f, k).node.kind = "step" THEN Do(a, c) ELSE Open(a, c))
    BY <1>2a DEF Facing
<1>3. Reached(f, a, Do(a, c))
    BY <1>1, <1>2
<1>4. Tail(Reading[f][k]) = Reading[f][k + 1]
    BY <1>1, LineKnown, ReadingSteps, Zenon DEF Onwards, At
<1> DEFINE more == [n \in DOMAIN kept \cup leaf.makes |-> IF n \in leaf.makes THEN screens[on] ELSE kept[n]]
           deed == [name |-> leaf.name, on |-> on, with |-> [n \in leaf.uses |-> kept[n]]]
<1>5. Do(a, c) = Doing(Tail(c.todo), [screens EXCEPT ![on] = to], on, more, Append(deeds, deed), TRUE)
    BY <1>2, Zenon DEF Do
<1> HIDE DEF more, deed
<1>6. Comes(f, a, k + 1, p, [screens EXCEPT ![on] = to], on, more, Append(deeds, deed))
    BY <1>2, <1>3, <1>4, <1>5 DEF Comes
<1> QED
    BY <1>6 DEF more, deed, Moved, KeptBy, DeedBy

\* One that cannot is not, and the interpreter gives up.
LEMMA ComesStuck ==
    ASSUME NEW f \in Flows, NEW a \in Apps, Simple(f), NEW k \in StepPlaces(f), NEW p, NEW screens, NEW on, NEW kept, NEW deeds,
           Comes(f, a, k, p, screens, on, kept, deeds),
           NEW leaf, leaf = At(f, k).node,
           ~(a.acts[leaf.act][screens[on]] # Stuck /\ leaf.uses \subseteq DOMAIN kept)
    PROVE  ~Meaning[f][a].ok /\ Meaning[f][a].deeds = deeds
<1>1. k \in Places(f) /\ At(f, k).node.kind = "step"
    BY DEF StepPlaces
<1>2a. PICK c : Facing(f, a, k, p, screens, on, kept, deeds, c)
    BY <1>1, ComesNext
<1>2. /\ c.todo = Items(Reading[f][k], p) /\ c.screen = screens /\ c.on = on /\ c.kept = kept
      /\ c.deeds = deeds /\ Head(c.todo).node = At(f, k).node
      /\ Reached(f, a, IF At(f, k).node.kind = "step" THEN Do(a, c) ELSE Open(a, c))
    BY <1>2a DEF Facing
<1>3. Reached(f, a, Do(a, c))
    BY <1>1, <1>2
<1>4. Do(a, c) = Doing(c.todo, screens, on, kept, deeds, FALSE)
    BY <1>2, Zenon DEF Do
<1>5. Do(a, c).ok = FALSE /\ Do(a, c).deeds = deeds
    BY <1>4 DEF Doing
<1>6. Meaning[f][a] = Do(a, c)
    BY <1>3, <1>5, OverStays DEF Over
<1> QED
    BY <1>5, <1>6

\* The lines a block makes way for are what the interpreter has to do then.
LEMMA ItemsOnwards ==
    ASSUME NEW f \in Flows, Simple(f), NEW k, Fresh(f, k), At(f, k).node.kind # "step", NEW p
    PROVE  /\ At(f, k).node.kind # "repeat" =>
                 Items(Reading[f][k + 1], p) = Todo(At(f, k).node.steps) \o Items(Tail(Reading[f][k]), p)
           /\ At(f, k).node.kind = "repeat" =>
                 Items(Reading[f][k + 1], p) = Todo(At(f, k).node.steps) \o <<[node |-> At(f, k).node, passes |-> p]>>
                                                  \o Items(Tail(Reading[f][k]), p)
<1> DEFINE e == At(f, k)
           L == Reading[f][k]
           ins == Entered(e, k)
           todo == Todo(e.node.steps)
<1>1. /\ k \in Places(f) /\ IsSeq(L) /\ L # <<>> /\ e.node \in Nodes /\ Laid(f, k, e) /\ e.back = 0
      /\ k \in 1..Limit /\ k # Limit
    BY LineKnown DEF Fresh
<1>2. IsLine(e) /\ k # 0 /\ IsSeq(Tail(L))
    BY <1>1, TailIsSeq, ReadingSteps DEF Laid
<1>3. Reading[f][k + 1] = ins \o Tail(L)
    BY <1>1, ReadingSteps DEF Onwards, At
<1>4. /\ IsSeq(ins)
      /\ Items(ins, p) = IF e.node.kind = "repeat" THEN todo \o <<[node |-> e.node, passes |-> p]>> ELSE todo
    BY <1>1, <1>2, ItemsEntered
<1>5. Items(ins \o Tail(L), p) = Items(ins, p) \o Items(Tail(L), p)
    <2> DEFINE t == Tail(L)
    <2>1. IsSeq(ins) /\ IsSeq(t)
        BY <1>2, <1>4
    <2> HIDE DEF ins, t
    <2>2. Items(ins \o t, p) = Items(ins, p) \o Items(t, p)
        BY <2>1, ItemsConcat
    <2> QED
        BY <2>2 DEF t
<1> HIDE DEF ins, todo, L, e
<1> QED
    BY <1>3, <1>4, <1>5 DEF L, todo, e

\* A when: that holds is entered, another is left out.
LEMMA ComesWhen ==
    ASSUME NEW f \in Flows, NEW a \in Apps, Simple(f), NEW k, WhenPlace(f, k), NEW p, NEW screens, NEW on, NEW kept, NEW deeds,
           Comes(f, a, k, p, screens, on, kept, deeds)
    PROVE  IF screens[on] \in a.shows[At(f, k).node.when]
           THEN Comes(f, a, k + 1, p, screens, on, kept, deeds)
           ELSE Comes(f, a, End(f, k), p, screens, on, kept, deeds)
<1>1. k \in Places(f) /\ At(f, k).node.kind = "when" /\ Fresh(f, k) /\ BlockPlace(f, k)
    BY DEF WhenPlace, Fresh, BlockPlace
<1>2a. PICK c : Facing(f, a, k, p, screens, on, kept, deeds, c)
    BY <1>1, ComesNext
<1>2. /\ c.todo = Items(Reading[f][k], p) /\ c.screen = screens /\ c.on = on /\ c.kept = kept
      /\ c.deeds = deeds /\ Head(c.todo).node = At(f, k).node
      /\ Tail(c.todo) = Items(Tail(Reading[f][k]), p)
      /\ Reached(f, a, IF At(f, k).node.kind = "step" THEN Do(a, c) ELSE Open(a, c))
    BY <1>2a DEF Facing
<1>3. Reached(f, a, Open(a, c))
    BY <1>1, <1>2
<1>4. Items(Reading[f][k + 1], p) = Todo(At(f, k).node.steps) \o Items(Tail(Reading[f][k]), p)
    BY <1>1, ItemsOnwards, Zenon
<1>5. Reading[f][End(f, k)] = Tail(Reading[f][k])
    BY <1>1, EndFacts
<1>6. Open(a, c) = Doing(IF screens[on] \in a.shows[At(f, k).node.when]
                         THEN Todo(At(f, k).node.steps) \o Items(Tail(Reading[f][k]), p)
                         ELSE Items(Tail(Reading[f][k]), p), screens, on, kept, deeds, TRUE)
    BY <1>1, <1>2, Zenon DEF Open
<1> QED
    BY <1>3, <1>4, <1>5, <1>6 DEF Comes

\* An in: block is entered.
LEMMA ComesIn ==
    ASSUME NEW f \in Flows, NEW a \in Apps, Simple(f), NEW k, Fresh(f, k), At(f, k).node.kind = "in",
           NEW p, NEW screens, NEW on, NEW kept, NEW deeds,
           Comes(f, a, k, p, screens, on, kept, deeds)
    PROVE  Comes(f, a, k + 1, p, screens, At(f, k).node.surface, kept, deeds)
<1>1. k \in Places(f)
    BY DEF Fresh
<1>2a. PICK c : Facing(f, a, k, p, screens, on, kept, deeds, c)
    BY <1>1, ComesNext
<1>2. /\ c.todo = Items(Reading[f][k], p) /\ c.screen = screens /\ c.on = on /\ c.kept = kept
      /\ c.deeds = deeds /\ Head(c.todo).node = At(f, k).node
      /\ Tail(c.todo) = Items(Tail(Reading[f][k]), p)
      /\ Reached(f, a, IF At(f, k).node.kind = "step" THEN Do(a, c) ELSE Open(a, c))
    BY <1>2a DEF Facing
<1>3. Reached(f, a, Open(a, c))
    BY <1>2
<1>4. Items(Reading[f][k + 1], p) = Todo(At(f, k).node.steps) \o Items(Tail(Reading[f][k]), p)
    BY ItemsOnwards, Zenon
<1>5. Open(a, c) = Doing(Todo(At(f, k).node.steps) \o Items(Tail(Reading[f][k]), p), screens,
                         At(f, k).node.surface, kept, deeds, TRUE)
    BY <1>2, Zenon DEF Open
<1> QED
    BY <1>3, <1>4, <1>5 DEF Comes

\* The last place of a loop, where it comes back.
Return(f, s) == End(f, s) - 1

\* A loop whose condition holds is left; another takes a pass more, or is given up.
LEMMA ComesLoop ==
    ASSUME NEW f \in Flows, NEW a \in Apps, Simple(f), NEW s, LoopPlace(f, s), NEW p \in Nat, NEW screens, NEW on, NEW kept, NEW deeds,
           NEW k, (k = s /\ p = 0) \/ k = Return(f, s),
           Comes(f, a, k, p, screens, on, kept, deeds),
           NEW n, n = At(f, s).node
    PROVE  /\ screens[on] \in a.shows[n.until] => Comes(f, a, End(f, s), 0, screens, on, kept, deeds)
           /\ screens[on] \notin a.shows[n.until] /\ p < n.max => Comes(f, a, s + 1, p + 1, screens, on, kept, deeds)
           /\ screens[on] \notin a.shows[n.until] /\ p >= n.max => ~Meaning[f][a].ok /\ Meaning[f][a].deeds = deeds
<1>1. /\ s \in Places(f) /\ At(f, s).node.kind = "repeat" /\ Fresh(f, s) /\ BlockPlace(f, s) /\ At(f, s).back = 0
      /\ n \in Nodes /\ n.max \in Nat /\ IsLine(At(f, s)) /\ s # 0 /\ IsSeq(Reading[f][s]) /\ Reading[f][s] # <<>>
    <2>1. s \in Places(f) /\ At(f, s).node.kind = "repeat" /\ Fresh(f, s) /\ BlockPlace(f, s) /\ At(f, s).back = 0
        BY DEF LoopPlace, Fresh, BlockPlace
    <2>2. At(f, s).node \in Nodes /\ Laid(f, s, At(f, s)) /\ IsSeq(Reading[f][s]) /\ Reading[f][s] # <<>> /\ s \in 1..Limit
        BY <2>1, LineKnown
    <2> QED
        BY <2>1, <2>2, NodesAssumption DEF Laid
<1>2. /\ k \in Places(f) /\ At(f, k).node = n /\ Item(At(f, k), p) = [node |-> n, passes |-> p]
      /\ Tail(Reading[f][k]) = Tail(Reading[f][s])
    <2>1. CASE k = s /\ p = 0
        BY <1>1, <2>1 DEF Item
    <2>2. CASE k = Return(f, s)
        <3> DEFINE c == End(f, s) - 1
        <3>1. c \in Places(f) /\ At(f, c) = [At(f, s) EXCEPT !.back = s] /\ Tail(Reading[f][c]) = Tail(Reading[f][s])
            BY LoopEnds
        <3>2. k = c
            BY <2>2 DEF Return
        <3> HIDE DEF c
        <3> DEFINE b == [At(f, s) EXCEPT !.back = s]
        <3>3. b.node = n /\ b.back = s
            BY <1>1, BackIs
        <3>4. At(f, k) = b
            BY <3>1, <3>2
        <3> HIDE DEF b
        <3> QED
            BY <1>1, <3>1, <3>2, <3>3, <3>4 DEF Item
    <2> QED
        BY <2>1, <2>2
<1>3a. PICK c : Facing(f, a, k, p, screens, on, kept, deeds, c)
    BY <1>2, ComesNext
<1>3. /\ c.todo = Items(Reading[f][k], p) /\ c.screen = screens /\ c.on = on /\ c.kept = kept
      /\ c.deeds = deeds /\ Head(c.todo) = Item(At(f, k), p)
      /\ Tail(c.todo) = Items(Tail(Reading[f][k]), p)
      /\ Reached(f, a, IF At(f, k).node.kind = "step" THEN Do(a, c) ELSE Open(a, c))
    BY <1>3a DEF Facing
<1>4. Reached(f, a, Open(a, c)) /\ Head(c.todo).node = n /\ Head(c.todo).passes = p
      /\ Tail(c.todo) = Items(Tail(Reading[f][s]), p)
    BY <1>1, <1>2, <1>3
<1>5. \A q : Items(Tail(Reading[f][s]), p) = Items(Tail(Reading[f][s]), q)
    <2>1. \A m \in DOMAIN Reading[f][s] : Reading[f][s][m].back = 0
        BY LoopAlonePlace
    <2>2. /\ DOMAIN Tail(Reading[f][s]) = 1..(Len(Reading[f][s]) - 1) /\ DOMAIN Reading[f][s] = 1..Len(Reading[f][s])
          /\ Len(Reading[f][s]) \in Nat /\ \A m \in DOMAIN Tail(Reading[f][s]) : Tail(Reading[f][s])[m] = Reading[f][s][m + 1]
        BY <1>1, TailIsSeq
    <2>3. \A m \in DOMAIN Tail(Reading[f][s]) : Tail(Reading[f][s])[m].back = 0
        BY <2>1, <2>2
    <2> QED
        BY <2>3, ItemsSame
<1>6. /\ Reading[f][End(f, s)] = Tail(Reading[f][s])
      /\ Items(Reading[f][s + 1], p + 1) = Todo(n.steps) \o <<[node |-> n, passes |-> p + 1]>> \o Items(Tail(Reading[f][s]), p + 1)
    <2>1. \A q : Items(Reading[f][s + 1], q) = Todo(n.steps) \o <<[node |-> n, passes |-> q]>> \o Items(Tail(Reading[f][s]), q)
        BY <1>1, ItemsOnwards
    <2> QED
        BY <1>1, <2>1, EndFacts
<1>7. ASSUME screens[on] \in a.shows[n.until] PROVE Comes(f, a, End(f, s), 0, screens, on, kept, deeds)
    <2>1. Open(a, c) = Doing(Items(Tail(Reading[f][s]), p), screens, on, kept, deeds, TRUE)
        BY <1>1, <1>3, <1>4, <1>7, Zenon DEF Open
    <2>2. Items(Tail(Reading[f][s]), p) = Items(Reading[f][End(f, s)], 0)
        BY <1>5, <1>6
    <2> QED
        BY <1>4, <2>1, <2>2 DEF Comes
<1>8. ASSUME screens[on] \notin a.shows[n.until], p < n.max PROVE Comes(f, a, s + 1, p + 1, screens, on, kept, deeds)
    <2>1. ~(p >= n.max)
        BY <1>1, <1>8
    <2>2. Open(a, c) = Doing(Todo(n.steps) \o <<[node |-> n, passes |-> p + 1]>> \o Items(Tail(Reading[f][s]), p),
                             screens, on, kept, deeds, TRUE)
        BY <1>1, <1>3, <1>4, <1>8, <2>1, Zenon DEF Open
    <2>3. Items(Tail(Reading[f][s]), p) = Items(Tail(Reading[f][s]), p + 1)
        BY <1>5
    <2> QED
        BY <1>4, <1>6, <2>2, <2>3, Zenon DEF Comes
<1>9. ASSUME screens[on] \notin a.shows[n.until], p >= n.max PROVE ~Meaning[f][a].ok /\ Meaning[f][a].deeds = deeds
    <2>1. Open(a, c) = Doing(c.todo, screens, on, kept, deeds, FALSE)
        BY <1>1, <1>3, <1>4, <1>9, Zenon DEF Open
    <2>2. Open(a, c).ok = FALSE /\ Open(a, c).deeds = deeds
        BY <2>1 DEF Doing
    <2>3. Meaning[f][a] = Open(a, c)
        BY <1>4, <2>2, OverStays DEF Over
    <2> QED
        BY <2>2, <2>3
<1> QED
    BY <1>7, <1>8, <1>9

\* The interpreter goes down a chain of blocks as far as their conditions hold.
LEMMA ComesChain ==
    ASSUME NEW f \in Flows, NEW a \in Apps, Simple(f), NEW k \in Nat \ {0}, NEW y \in Places(f), k <= y, Chain(f, k, y),
           \A i \in k..(y - 1) : At(f, i).node.kind # "repeat",
           NEW p, NEW screens, NEW on, NEW kept, NEW deeds, Comes(f, a, k, p, screens, on, kept, deeds),
           NEW surface, surface = At(f, y).surface, At(f, k).node.kind # "in" => on = surface
    PROVE  \A z \in k..y :
              (\A i \in k..(z - 1) : At(f, i).node.kind = "when" => screens[surface] \in a.shows[At(f, i).node.when]) =>
              \E o : Comes(f, a, z, p, screens, o, kept, deeds) /\ (At(f, z).node.kind # "in" => o = surface)
<1> DEFINE Held(z) == \A i \in k..(z - 1) : At(f, i).node.kind = "when" => screens[surface] \in a.shows[At(f, i).node.when]
           There(z, o) == Comes(f, a, z, p, screens, o, kept, deeds) /\ (At(f, z).node.kind # "in" => o = surface)
           T == {z \in k..y : Held(z) /\ ~\E o : There(z, o)}
<1>0. y \in 1..Limit /\ Limit \in Nat
    BY LineKnown, LimitAssumption
<1> SUFFICES ASSUME T # {} PROVE FALSE
    OBVIOUS
<1>1. T \in SUBSET Nat
    BY <1>0
<1>2. PICK z \in T : \A j \in T : z <= j
    BY <1>1, Least
<1>3. There(k, on)
    OBVIOUS
<1>4. z # k
    BY <1>2, <1>3
<1> DEFINE i == z - 1
<1>5. i \in k..y /\ i \in k..(y - 1) /\ i + 1 = z /\ ~(z <= i) /\ i \in k..(z - 1)
    BY <1>0, <1>1, <1>2, <1>4
<1> HIDE DEF i
<1>6. Held(i)
    <2>1. \A j \in k..(i - 1) : j \in k..(z - 1)
        BY <1>0, <1>5
    <2> QED
        BY <1>2, <2>1
<1>7. PICK o : There(i, o)
    BY <1>2, <1>5, <1>6
<1>8. Fresh(f, i) /\ At(f, i).node.kind \in {"when", "in"} /\ i \in Places(f)
    <2>1. Fresh(f, i) /\ At(f, i).node.kind # "step" /\ At(f, i).node.kind # "repeat"
        BY <1>5 DEF Chain
    <2>2. At(f, i).node \in Nodes
        BY <2>1, LineKnown DEF Fresh
    <2> QED
        BY <2>1, <2>2, NodesAssumption DEF Fresh
<1>9. CASE At(f, i).node.kind = "when"
    <2>1. WhenPlace(f, i) /\ o = surface
        BY <1>7, <1>8, <1>9 DEF WhenPlace
    <2>2. screens[o] \in a.shows[At(f, i).node.when]
        BY <1>2, <1>5, <1>9, <2>1
    <2>3. Comes(f, a, i, p, screens, o, kept, deeds)
        BY <1>7
    <2>4. Comes(f, a, i + 1, p, screens, o, kept, deeds)
        BY <2>1, <2>2, <2>3, ComesWhen
    <2>5. There(z, o)
        BY <1>5, <2>1, <2>4
    <2> QED
        BY <1>2, <2>5
<1>10. CASE At(f, i).node.kind = "in"
    <2>1. Comes(f, a, i, p, screens, o, kept, deeds)
        BY <1>7
    <2>2. Comes(f, a, i + 1, p, screens, At(f, i).node.surface, kept, deeds)
        BY <1>8, <1>10, <2>1, ComesIn
    <2>3. /\ \A j \in k..y : j # k => At(f, j).node.kind \notin {"in", "repeat"}
          /\ \A j \in k..y : j # k \/ At(f, k).node.kind # "in" => At(f, j).surface = surface
        BY <1>0, ChainPlain
    <2>4. At(f, i + 1).surface = SurfaceIn(At(f, i))
        BY <1>8, <1>10, FirstChild
    <2>5. i = k /\ z \in k..y /\ z # k
        BY <1>2, <1>4, <1>5, <1>10, <2>3
    <2>6. At(f, i).node.surface = surface
        BY <1>5, <1>10, <2>3, <2>4, <2>5 DEF SurfaceIn
    <2>7. There(z, surface)
        BY <1>5, <2>2, <2>6
    <2> QED
        BY <1>2, <2>7
<1> QED
    BY <1>8, <1>9, <1>10

---------------------------------------------------------------------------
(* Places, loops and blocks.                                               *)

\* After the end there is no place.
LEMMA EmptyStays ==
    ASSUME NEW f \in Flows, NEW k \in 1..Limit, k \notin Places(f)
    PROVE  \A x \in Places(f) : x < k
<1> DEFINE T == {x \in k..Limit : Reading[f][x] # <<>>}
<1>1. Limit \in Nat /\ \A i \in 1..Limit : i # Limit => Reading[f][i + 1] = Onwards(Reading[f][i], i)
    BY ReadingSteps
<1>2. Reading[f][k] = <<>>
    BY DEF Places
<1>3. T = {}
    <2> SUFFICES ASSUME T # {} PROVE FALSE
        OBVIOUS
    <2>1. T \in SUBSET Nat
        BY <1>1
    <2>2. PICK x \in T : \A j \in T : x <= j
        BY <2>1, Least
    <2>3. x # k /\ x \in k..Limit /\ Reading[f][x] # <<>>
        BY <1>2, <2>2
    <2> DEFINE i == x - 1
    <2>4. i \in k..Limit /\ i \in 1..Limit /\ i # Limit /\ i + 1 = x /\ ~(x <= i)
        BY <1>1, <2>3
    <2> HIDE DEF i
    <2>5. Reading[f][i] = <<>>
        BY <2>2, <2>4
    <2> QED
        BY <1>1, <2>3, <2>4, <2>5 DEF Onwards
<1>4. ASSUME NEW x \in Places(f) PROVE x < k
    <2>1. x \in 1..Limit /\ Reading[f][x] # <<>>
        BY DEF Places
    <2> QED
        BY <1>1, <1>3, <2>1
<1> QED
    BY <1>4

\* A place of a loop is one of its steps and blocks, or where it comes back.
LEMMA LoopPlaces ==
    ASSUME NEW f \in Flows, Simple(f), NEW s, LoopPlace(f, s)
    PROVE  /\ s \in Places(f) /\ s \in Nat \ {0} /\ Return(f, s) \in Places(f) /\ Return(f, s) \in Nat
           /\ End(f, s) \in 1..Limit /\ s < Return(f, s) /\ End(f, s) = Return(f, s) + 1
           /\ At(f, s).back = 0 /\ At(f, s).loop = 0 /\ At(f, s).node.kind = "repeat"
           /\ At(f, Return(f, s)).back = s /\ At(f, Return(f, s)).loop = 0
           /\ At(f, Return(f, s)).surface = At(f, s).surface /\ At(f, Return(f, s)).node.kind = "repeat"
           /\ \A k \in (s + 1)..(Return(f, s) - 1) : k \in Places(f) /\ At(f, k).loop = s /\ At(f, k).back = 0
           /\ \A k \in Places(f) : At(f, k).loop = s => s < k /\ k < Return(f, s)
           /\ \A k \in Places(f) : At(f, k).back = s => k = Return(f, s)
<1>1. /\ s \in Places(f) /\ At(f, s).node.kind = "repeat" /\ Fresh(f, s) /\ BlockPlace(f, s) /\ At(f, s).back = 0
    BY DEF LoopPlace, Fresh, BlockPlace
<1>2. At(f, s).loop = 0
    BY <1>1 DEF Simple, Nested
<1>3. IsLine(At(f, s)) /\ s \in 1..Limit
    BY <1>1, LineKnown DEF Laid
<1>4. End(f, s) \in 1..Limit /\ s \in Nat \ {0} /\ Limit \in Nat
    BY <1>1, EndFacts, LimitAssumption
<1> DEFINE c == End(f, s) - 1
           b == [At(f, s) EXCEPT !.back = s]
<1>5. /\ c \in Places(f) /\ s < c /\ At(f, c) = b
      /\ \A k \in (s + 1)..(c - 1) : k \in Places(f) /\ At(f, k).loop = s /\ At(f, k).back = 0
    BY LoopEnds
<1>6. b.node = At(f, s).node /\ b.loop = At(f, s).loop /\ b.surface = At(f, s).surface /\ b.back = s
    BY <1>3, BackIs
<1>7. Return(f, s) = c /\ c \in Nat /\ End(f, s) = c + 1
    BY <1>4 DEF Return
<1> HIDE DEF b, c
<1>8. At(f, c).node = At(f, s).node /\ At(f, c).loop = 0 /\ At(f, c).surface = At(f, s).surface /\ At(f, c).back = s
    BY <1>2, <1>5, <1>6
<1>9. ASSUME NEW k \in Places(f), At(f, k).loop = s \/ At(f, k).back = s
      PROVE  k \in (s + 1)..c
    <2>1. In(s, At(f, k)) /\ k \in 1..Limit
        BY <1>9, LineKnown DEF In
    <2>2. s < k /\ k < End(f, s)
        BY <1>1, <2>1, InRange
    <2> QED
        BY <1>4, <1>7, <2>1, <2>2
<1>10. ASSUME NEW k \in Places(f), At(f, k).loop = s PROVE s < k /\ k < c
    <2>1. k \in (s + 1)..c
        BY <1>9, <1>10
    <2>2. k # c
        BY <1>4, <1>8, <1>10
    <2> QED
        BY <1>4, <1>7, <2>1, <2>2
<1>11. ASSUME NEW k \in Places(f), At(f, k).back = s PROVE k = c
    <2>1. k \in (s + 1)..c
        BY <1>9, <1>11
    <2>2. ~(k \in (s + 1)..(c - 1))
        BY <1>4, <1>5, <1>11
    <2> QED
        BY <1>4, <1>7, <2>1, <2>2
<1> QED
    BY <1>1, <1>2, <1>4, <1>5, <1>7, <1>8, <1>10, <1>11

\* Place k is in no loop (s = 0), or one of loop s behind its start.
InPass(f, k, s) ==
    IF s = 0 THEN k \in Places(f) => At(f, k).loop = 0 /\ At(f, k).back = 0
    ELSE LoopPlace(f, s) /\ k \in (s + 1)..Return(f, s)

\* Where a line of a pass is read.
LEMMA PassLine ==
    ASSUME NEW f \in Flows, Simple(f), NEW s, s # 0, LoopPlace(f, s), NEW k \in Places(f)
    PROVE  InPass(f, k, s) <=> At(f, k).loop = s \/ At(f, k).back = s
<1>1. /\ s \in Nat \ {0} /\ Return(f, s) \in Nat /\ s < Return(f, s) /\ At(f, Return(f, s)).back = s
      /\ \A i \in (s + 1)..(Return(f, s) - 1) : At(f, i).loop = s
      /\ At(f, k).loop = s => s < k /\ k < Return(f, s)
      /\ At(f, k).back = s => k = Return(f, s)
    BY LoopPlaces
<1>2. k \in Nat
    BY LineKnown
<1> DEFINE c == Return(f, s)
<1> HIDE DEF c
<1>3. k \in (s + 1)..c <=> k \in (s + 1)..(c - 1) \/ k = c
    BY <1>1, <1>2 DEF c
<1>4. At(f, k).loop = s \/ At(f, k).back = s => k \in (s + 1)..c
    BY <1>1, <1>2 DEF c
<1> QED
    BY <1>1, <1>3, <1>4 DEF InPass, c

\* No block but the loop itself comes back.
LEMMA PassFresh ==
    ASSUME NEW f \in Flows, Simple(f), NEW k \in Places(f), NEW s, InPass(f, k, s)
    PROVE  /\ At(f, k).back \in {0, s}
           /\ At(f, k).back = 0 => At(f, k).loop = s
           /\ s # 0 => (At(f, k).back = 0 <=> k # Return(f, s))
<1>1. CASE s = 0
    BY <1>1 DEF InPass
<1>2. CASE s # 0
    <2>1. LoopPlace(f, s)
        BY <1>2 DEF InPass
    <2>2. At(f, k).loop = s \/ At(f, k).back = s
        BY <1>2, <2>1, PassLine
    <2>3. Laid(f, k, At(f, k))
        BY LineKnown
    <2>4. At(f, k).back # 0 => At(f, k).loop = 0
        BY <2>3 DEF Laid
    <2>5. /\ At(f, Return(f, s)).back = s
          /\ At(f, k).back = s => k = Return(f, s)
        BY <2>1, LoopPlaces
    <2> QED
        BY <1>2, <2>2, <2>4, <2>5
<1> QED
    BY <1>1, <1>2

\* Behind a place outside the loops, its block included, comes another.
LEMMA FreeFollows ==
    ASSUME NEW f \in Flows, Simple(f), NEW k \in Places(f), At(f, k).loop = 0, At(f, k).back = 0,
           NEW z \in Places(f), Reading[f][z] = Tail(Reading[f][k])
    PROVE  At(f, z).loop = 0 /\ At(f, z).back = 0
<1> SUFFICES ASSUME NEW b, b # 0, At(f, z).loop = b \/ At(f, z).back = b PROVE FALSE
    OBVIOUS
<1>1. /\ k \in 1..Limit /\ ReadAt(f, k) /\ IsSeq(Reading[f][k]) /\ Reading[f][k] # <<>>
      /\ 1 \in DOMAIN Reading[f][z] /\ At(f, z) = Reading[f][z][1]
    BY LineKnown
<1>2. /\ DOMAIN Tail(Reading[f][k]) = 1..(Len(Reading[f][k]) - 1) /\ DOMAIN Reading[f][k] = 1..Len(Reading[f][k])
      /\ \A i \in DOMAIN Tail(Reading[f][k]) : Tail(Reading[f][k])[i] = Reading[f][k][i + 1]
      /\ Len(Reading[f][k]) \in Nat
    BY <1>1, TailIsSeq
<1>3. 2 \in DOMAIN Reading[f][k] /\ At(f, z) = Reading[f][k][2]
    BY <1>1, <1>2
<1>4. Laid(f, k, At(f, z))
    BY <1>1, <1>3 DEF ReadAt
<1>5. LoopPlace(f, b)
    BY <1>4 DEF Laid
<1>6. In(b, Reading[f][k][2]) /\ BlockPlace(f, b)
    BY <1>3, <1>5 DEF In, BlockPlace
<1>7. b < k /\ k < End(f, b)
    BY <1>1, <1>3, <1>6, LineRange
<1>8. b \in Nat \ {0} /\ Return(f, b) \in Nat /\ End(f, b) = Return(f, b) + 1
    BY <1>5, LoopPlaces
<1>9. k \in (b + 1)..Return(f, b)
    BY <1>1, <1>7, <1>8
<1>10. At(f, k).loop = b \/ At(f, k).back = b
    BY <1>5, <1>8, <1>9, PassLine DEF InPass
<1> QED
    BY <1>10

\* The places of a when: block are under it, and with it in its loop and on its surface.
LEMMA WhenPlaces ==
    ASSUME NEW f \in Flows, Simple(f), NEW w, WhenPlace(f, w)
    PROVE  /\ w \in Places(f) /\ w \in Nat \ {0} /\ End(f, w) \in 1..Limit /\ w + 1 < End(f, w) /\ At(f, w).back = 0
           /\ \A x \in Places(f) : w < x /\ x < End(f, w) =>
                 /\ At(f, x).loop = At(f, w).loop /\ At(f, x).surface = At(f, w).surface
                 /\ \E r \in DOMAIN At(f, x).under : At(f, x).under[r] = w
           /\ \A x \in Places(f) : \A r \in DOMAIN At(f, x).under :
                 At(f, x).under[r] = w => w < x /\ x < End(f, w)
<1>1. BlockPlace(f, w) /\ w \in Places(f) /\ At(f, w).back = 0
    BY DEF BlockPlace, WhenPlace, Fresh
<1>2. /\ w \in Nat \ {0} /\ End(f, w) \in 1..Limit /\ w + 1 < End(f, w) /\ Limit \in Nat
      /\ \A k \in (w + 1)..(End(f, w) - 1) : k \in Places(f) /\ In(w, At(f, k))
    BY <1>1, EndFacts, LimitAssumption
<1>3. ASSUME NEW x \in Places(f), w < x, x < End(f, w)
      PROVE  /\ At(f, x).loop = At(f, w).loop /\ At(f, x).surface = At(f, w).surface
             /\ \E r \in DOMAIN At(f, x).under : At(f, x).under[r] = w
    <2>1. x \in 1..Limit /\ Laid(f, x, At(f, x))
        BY LineKnown
    <2>2. x \in (w + 1)..(End(f, w) - 1)
        BY <1>2, <1>3, <2>1
    <2>3. In(w, At(f, x))
        BY <1>2, <2>2
    <2>4. PICK r \in DOMAIN At(f, x).under : At(f, x).under[r] = w
        BY <1>2, <2>1, <2>3, InWhen
    <2>5. Alongside(f, w, At(f, x))
        BY <2>1, <2>4 DEF Laid
    <2> QED
        BY <2>4, <2>5 DEF Alongside
<1>4. ASSUME NEW x \in Places(f), NEW r \in DOMAIN At(f, x).under, At(f, x).under[r] = w
      PROVE  w < x /\ x < End(f, w)
    <2>1. In(w, At(f, x))
        BY <1>4 DEF In
    <2> QED
        BY <1>1, <2>1, InRange
<1> QED
    BY <1>1, <1>2, <1>3, <1>4

\* A pass goes on behind a step, and behind a when: block.
LEMMA PassGoesOn ==
    ASSUME NEW f \in Flows, Simple(f), NEW k \in Places(f), NEW s, InPass(f, k, s), NEW z \in 1..Limit,
           \/ k \in StepPlaces(f) /\ z = k + 1
           \/ WhenPlace(f, k) /\ z = End(f, k)
    PROVE  InPass(f, z, s) /\ Reading[f][z] = Tail(Reading[f][k]) /\ At(f, k).back = 0 /\ k < z
<1>1. k \in 1..Limit /\ k # Limit /\ Laid(f, k, At(f, k)) /\ Reading[f][k] # <<>> /\ Limit \in Nat
    BY LineKnown, LimitAssumption
<1>2. At(f, k).back = 0
    <2>1. CASE k \in StepPlaces(f)
        <3>1. At(f, k).node.kind = "step"
            BY <2>1 DEF StepPlaces
        <3>2. At(f, k).back # 0 => At(f, k).node.kind = "repeat"
            BY <1>1 DEF Laid, LoopPlace
        <3> QED
            BY <3>1, <3>2
    <2>2. CASE WhenPlace(f, k)
        BY <2>2 DEF WhenPlace, Fresh
    <2> QED
        BY <2>1, <2>2
<1>3. Reading[f][z] = Tail(Reading[f][k]) /\ k < z
    <2>1. CASE k \in StepPlaces(f) /\ z = k + 1
        <3>1. At(f, k).node.kind = "step"
            BY <2>1 DEF StepPlaces
        <3>2. Reading[f][k + 1] = Onwards(Reading[f][k], k)
            BY <1>1, ReadingSteps
        <3>3. Reading[f][k + 1] = Tail(Reading[f][k])
            BY <1>1, <3>1, <3>2 DEF Onwards, At
        <3> QED
            BY <1>1, <2>1, <3>3
    <2>2. CASE WhenPlace(f, k) /\ z = End(f, k)
        <3>1. BlockPlace(f, k)
            BY <2>2 DEF BlockPlace
        <3> QED
            BY <1>1, <2>2, <3>1, EndFacts
    <2> QED
        BY <2>1, <2>2
<1>4. CASE s = 0
    <2>1. z \in Places(f) => At(f, z).loop = 0 /\ At(f, z).back = 0
        BY <1>3, <1>4, FreeFollows DEF InPass
    <2> QED
        BY <1>2, <1>3, <1>4, <2>1 DEF InPass
<1>5. CASE s # 0
    <2> DEFINE c == Return(f, s)
    <2>1. LoopPlace(f, s) /\ k \in (s + 1)..c
        BY <1>5 DEF InPass
    <2>2. /\ s \in Nat \ {0} /\ c \in Nat /\ c \in Places(f) /\ At(f, c).back = s /\ At(f, c).loop = 0
        BY <2>1, LoopPlaces
    <2>3. At(f, k).loop = s /\ k < c
        <3>1. At(f, k).loop = s
            BY <1>2, PassFresh
        <3> QED
            BY <2>1, <3>1, LoopPlaces
    <2>4. z <= c
        <3>1. CASE z = k + 1
            BY <1>1, <2>2, <2>3, <3>1
        <3>2. CASE WhenPlace(f, k) /\ z = End(f, k)
            <4>1. ~(c < End(f, k))
                <5> SUFFICES ASSUME c < End(f, k) PROVE FALSE
                    OBVIOUS
                <5>1. At(f, c).loop = At(f, k).loop
                    BY <2>2, <2>3, <3>2, WhenPlaces
                <5> QED
                    BY <1>5, <2>2, <2>3, <5>1
            <4> QED
                BY <2>2, <3>2, <4>1
        <3> QED
            BY <3>1, <3>2
    <2>5. z \in (s + 1)..c
        BY <1>1, <1>3, <2>1, <2>2, <2>4
    <2> HIDE DEF c
    <2>6. InPass(f, z, s)
        BY <1>5, <2>1, <2>5 DEF InPass, c
    <2> QED
        BY <1>2, <1>3, <2>6
<1> QED
    BY <1>4, <1>5

\* A pass goes on down a chain of blocks.
LEMMA PassGoesDown ==
    ASSUME NEW f \in Flows, Simple(f), NEW k \in Places(f), NEW y \in Places(f), k <= y, Chain(f, k, y),
           \A i \in k..(y - 1) : At(f, i).node.kind # "repeat",
           At(f, y).back = 0, NEW s, InPass(f, k, s), At(f, k).back = 0
    PROVE  InPass(f, y, s)
<1>1. k \in Nat \ {0} /\ y \in Nat /\ Laid(f, y, At(f, y)) /\ Laid(f, k, At(f, k))
    BY LineKnown
<1>2. CASE s = 0
    <2> SUFFICES ASSUME NEW b, b # 0, At(f, y).loop = b PROVE FALSE
        BY <1>2 DEF InPass
    <2>1. LoopPlace(f, b)
        BY <1>1 DEF Laid
    <2>2. b \in Nat \ {0} /\ b < y /\ y < Return(f, b) /\ At(f, b).node.kind = "repeat" /\ Return(f, b) \in Nat
        BY <2>1, LoopPlaces
    <2>3. ~(k <= b)
        <3> SUFFICES ASSUME k <= b PROVE FALSE
            OBVIOUS
        <3>1. b \in k..(y - 1)
            BY <1>1, <2>2
        <3> QED
            BY <2>2, <3>1
    <2>4. k \in (b + 1)..Return(f, b)
        BY <1>1, <2>2, <2>3
    <2>5. At(f, k).loop = b \/ At(f, k).back = b
        BY <2>1, <2>2, <2>4, PassLine DEF InPass
    <2> QED
        BY <1>2, <2>2, <2>5 DEF InPass
<1>3. CASE s # 0
    <2>1. LoopPlace(f, s) /\ s \in Nat \ {0}
        BY <1>3, LoopPlaces DEF InPass
    <2>2. In(s, At(f, k))
        BY PassFresh DEF In
    <2>3. \A i \in k..y : \A b \in Nat \ {0} : In(b, At(f, i)) => In(b, At(f, y))
        BY <1>1, ChainIn
    <2>4. In(s, At(f, y))
        BY <1>1, <2>1, <2>2, <2>3
    <2>5. At(f, y).loop = s \/ At(f, y).back = s
        BY <1>1, <2>1, <2>4, InLoop
    <2> QED
        BY <1>3, <2>1, <2>5, PassLine
<1> QED
    BY <1>2, <1>3

---------------------------------------------------------------------------
(* The trace, the worklist and the places of the flow.                     *)

\* The trace tells flow f: at says which step of it, of those replay keeps, each
\* step of the flow is.
Leaves1(f, at) ==
    \A x \in StepPlaces(f) :
        /\ at[x] \in DOMAIN trace
        /\ trace[at[x]].leaf = At(f, x).node
        /\ trace[at[x]].surface = IF f.multi THEN At(f, x).surface ELSE NoSurface
        /\ DOMAIN trace[at[x]].guards = DOMAIN At(f, x).under
        /\ \A r \in DOMAIN At(f, x).under : trace[at[x]].guards[r].cond = At(f, At(f, x).under[r]).node.when
        /\ trace[at[x]].rep.id = 0 <=> At(f, x).loop = 0
        /\ At(f, x).loop # 0 => \A i \in DOMAIN trace : SameLoop(at[x], i) =>
              /\ trace[i].rep.max = At(f, At(f, x).loop).node.max
              /\ trace[i].rep.until = At(f, At(f, x).loop).node.until

GuardAt(at, x, r) == trace[at[x]].guards[r].id

Pairs(f, at) ==
    \A x, y \in StepPlaces(f) :
        /\ x < y => at[x] < at[y]
        /\ SameLoop(at[x], at[y]) <=> At(f, x).loop = At(f, y).loop
        /\ \A r \in DOMAIN At(f, x).under, q \in DOMAIN At(f, y).under :
              GuardAt(at, x, r) = GuardAt(at, y, q) <=> At(f, x).under[r] = At(f, y).under[q]

Covered(f, at) ==
    \A i \in DOMAIN trace :
        /\ trace[i].rep.id = 0 => \E x \in StepPlaces(f) : at[x] = i
        /\ trace[i].rep.id # 0 => \E x \in StepPlaces(f) : SameLoop(at[x], i)
        /\ trace[i].rep.id # 0 /\ IsFirst(i) =>
              ToSet(Body(i)) = {at[x] : x \in {y \in StepPlaces(f) : SameLoop(at[y], i)}}

Told(f, at) == Leaves1(f, at) /\ Pairs(f, at) /\ Covered(f, at)

\* The step of place x is to come.
Due(at, x) == Comes1(at[x])

Known(at, x, r) == GuardAt(at, x, r) \in DOMAIN verdicts

\* The step of place x will be left out: a guard of it does not hold.
Off(f, at, x, s) ==
    /\ At(f, x).loop = s
    /\ f.multi => At(f, x).surface = active
    /\ \E r \in DOMAIN At(f, x).under :
          /\ Known(at, x, r) /\ ~verdicts[GuardAt(at, x, r)]
          /\ \A q \in DOMAIN At(f, x).under : q < r => Known(at, x, q)

\* The interpreter is at place k, where replay is.
There(f, a, k, p) ==
    /\ k \in 1..Limit /\ p \in Nat
    /\ ~f.multi => active = Main
    /\ \E on : /\ Comes(f, a, k, p, screen, on, captures, done)
               /\ k \in Places(f) /\ At(f, k).node.kind # "in" => on = At(f, k).surface /\ active = on

\* In pass p of loop s, or in none (s = 0).
Passing(f, at, k, p, s) ==
    IF s = 0 THEN p = 0 /\ InPass(f, k, 0) /\ \A b \in DOMAIN work : work[b].kind # "loop"
    ELSE /\ LoopPlace(f, s)
         /\ IF p = 0 THEN k = s ELSE InPass(f, k, s)
         /\ \E b \in DOMAIN work :
               /\ work[b].kind = "loop" /\ work[b].passes = p /\ (p = 0 => b = 1)
               /\ \E x \in StepPlaces(f) : At(f, x).loop = s /\ SameLoop(at[x], work[b].first)

\* What is to come is what stands behind place k.
Coming(f, at, k, p, s) ==
    \A x \in StepPlaces(f) :
        /\ x >= k /\ ~(s # 0 /\ p = 0 /\ At(f, x).loop = s) => Due(at, x)
        /\ Due(at, x) => x >= k \/ Off(f, at, x, s)

\* The guards read are those of the blocks entered, and they hold.
Guarding(f, at, k) ==
    \A x \in StepPlaces(f) : x >= k =>
        \A r \in DOMAIN At(f, x).under :
            /\ Known(at, x, r) <=> At(f, x).under[r] < k
            /\ Known(at, x, r) => verdicts[GuardAt(at, x, r)]

Facing1(f, at, k) == ready => k \in StepPlaces(f) /\ work # <<>> /\ Head(work).kind = "step" /\ Head(work).index = at[k]

Following(f, a, at, k, p, s) ==
    /\ There(f, a, k, p) /\ Passing(f, at, k, p, s) /\ Coming(f, at, k, p, s)
    /\ Guarding(f, at, k) /\ Facing1(f, at, k)

Playing(f, a, at) ==
    /\ f \in Flows /\ a \in Apps /\ f = flow /\ a = app /\ Simple(f) /\ Told(f, at)
    /\ IsSeq(trace) /\ LoopsTogether /\ WorkShape /\ WorkWhole

\* The step at the head of the worklist is of a place of the flow.
LEMMA HeadPlace ==
    ASSUME NEW f, NEW a, NEW at, Playing(f, a, at), NEW k, NEW p, NEW s, Following(f, a, at, k, p, s),
           work # <<>>, Head(work).kind = "step", ~FirstOfLoop(Head(work).index)
    PROVE  /\ \E x \in StepPlaces(f) : at[x] = Head(work).index
           /\ s # 0 => p # 0
           /\ s = 0 => trace[Head(work).index].rep.id = 0
<1> DEFINE i == Head(work).index
<1>1. Head(work) = work[1] /\ 1 \in DOMAIN work /\ DOMAIN work \subseteq Nat \ {0}
    <2>1. IsSeq(work)
        BY DEF Playing, WorkShape
    <2> QED
        BY <2>1, HeadOfWork DEF IsSeq
<1>2. i \in DOMAIN trace
    BY <1>1 DEF Playing, WorkShape, WorkEntry
<1>3. s # 0 => p # 0
    BY <1>1 DEF Following, Passing
<1>4. CASE trace[i].rep.id = 0
    BY <1>2, <1>3, <1>4 DEF Playing, Told, Covered
<1>5. CASE trace[i].rep.id # 0
    <2>1. PICK b \in DOMAIN work : work[b].kind = "loop" /\ SameLoop(work[b].first, i)
        BY <1>1, <1>5 DEF Playing, WorkWhole, SeenHasLoop
    <2>2. s # 0
        BY <2>1 DEF Following, Passing
    <2>3. 1 < b
        BY <1>1, <2>1
    <2>4. i \in ToSet(work[b].body) /\ work[b].body = Body(work[b].first) /\ IsFirst(work[b].first)
        BY <1>1, <2>1, <2>3 DEF Playing, WorkWhole, LoopsWhole
    <2>5. work[b].first \in DOMAIN trace /\ trace[work[b].first].rep.id # 0
        BY <1>5, <2>1 DEF Playing, WorkShape, WorkEntry, SameLoop
    <2>6. ToSet(Body(work[b].first)) = {at[x] : x \in {y \in StepPlaces(f) : SameLoop(at[y], work[b].first)}}
        BY <2>4, <2>5 DEF Playing, Told, Covered
    <2> QED
        BY <1>3, <2>2, <2>4, <2>6
<1> QED
    BY <1>4, <1>5

\* It is the first of those to come.
LEMMA HeadFirst ==
    ASSUME NEW f, NEW a, NEW at, Playing(f, a, at), work # <<>>, Head(work).kind = "step",
           NEW z \in StepPlaces(f), Due(at, z)
    PROVE  /\ Head(work).index <= at[z]
           /\ \A x \in StepPlaces(f) : at[x] = Head(work).index => x <= z
<1>1. Head(work) = work[1] /\ 1 \in DOMAIN work /\ DOMAIN work \subseteq Nat \ {0}
    <2>1. IsSeq(work)
        BY DEF Playing, WorkShape
    <2> QED
        BY <2>1, HeadOfWork DEF IsSeq
<1>2. PICK c \in DOMAIN work : work[c].kind = "step" /\ work[c].index = at[z]
    BY DEF Due, Comes1
<1>3. DOMAIN trace \subseteq Nat /\ at[z] \in DOMAIN trace
    BY DEF Playing, IsSeq, Told, Leaves1
<1>4. work[1].index <= at[z]
    <2>1. CASE c = 1
        BY <1>2, <1>3, <2>1
    <2>2. CASE c # 1
        <3>1. work[1].index < work[c].index
            BY <1>1, <1>2, <2>2 DEF Playing, WorkWhole, WorkInOrder
        <3>2. work[1].index \in DOMAIN trace
            BY <1>1 DEF Playing, WorkShape, WorkEntry
        <3> QED
            BY <1>2, <1>3, <3>1, <3>2
    <2> QED
        BY <2>1, <2>2
<1>5. ASSUME NEW x \in StepPlaces(f), at[x] = work[1].index PROVE x <= z
    <2>1. x \in Nat /\ z \in Nat
        BY DEF StepPlaces, Places
    <2>2. z < x => at[z] < at[x]
        BY DEF Playing, Told, Pairs
    <2>3. at[x] \in DOMAIN trace
        BY DEF Playing, Told, Leaves1
    <2> QED
        BY <1>3, <1>4, <1>5, <2>1, <2>2, <2>3
<1> QED
    BY <1>1, <1>4, <1>5

\* A step leaves the worklist.
LEMMA StepGone ==
    ASSUME NEW f, NEW a, NEW at, Playing(f, a, at), work # <<>>, Head(work).kind = "step", work' = Tail(work),
           UNCHANGED trace
    PROVE  /\ \A z \in StepPlaces(f) : Due(at, z)' <=> Due(at, z) /\ at[z] # Head(work).index
           /\ \A b \in DOMAIN work' : b + 1 \in DOMAIN work /\ work'[b] = work[b + 1]
           /\ \A b \in DOMAIN work : work[b].kind = "loop" => b - 1 \in DOMAIN work' /\ work'[b - 1] = work[b]
<1>1. /\ Head(work) = work[1] /\ Len(work) \in Nat \ {0} /\ DOMAIN work = 1..Len(work) /\ DOMAIN work' = 1..(Len(work) - 1)
      /\ \A k \in DOMAIN work' : work'[k] = work[k + 1]
    <2>1. IsSeq(work)
        BY DEF Playing, WorkShape
    <2> QED
        BY <2>1, TailIsSeq
<1>2. \A b \in DOMAIN work' : b + 1 \in DOMAIN work /\ work'[b] = work[b + 1] /\ 1 < b + 1
    BY <1>1
<1>3. ASSUME NEW b \in DOMAIN work, b # 1 PROVE b - 1 \in DOMAIN work' /\ work'[b - 1] = work[b] /\ 1 < b
    <2>1. b - 1 \in DOMAIN work' /\ (b - 1) + 1 = b /\ 1 < b
        BY <1>1, <1>3
    <2> QED
        BY <1>1, <2>1
<1>4. ASSUME NEW b \in DOMAIN work, b # 1, work[b].kind = "step" PROVE work[b].index # work[1].index
    <2>1. work[1].index < work[b].index /\ 1 \in DOMAIN work
        BY <1>1, <1>3, <1>4 DEF Playing, WorkWhole, WorkInOrder
    <2>2. work[b].index \in DOMAIN trace /\ DOMAIN trace \subseteq Nat
        BY <1>4 DEF Playing, WorkShape, WorkEntry, IsSeq
    <2> QED
        BY <2>1, <2>2
<1>5. ASSUME NEW z \in StepPlaces(f) PROVE Due(at, z)' <=> Due(at, z) /\ at[z] # Head(work).index
    <2>1. ASSUME Due(at, z)' PROVE Due(at, z) /\ at[z] # Head(work).index
        <3>1. PICK b \in DOMAIN work' : work'[b].kind = "step" /\ work'[b].index = at[z]
            BY <2>1 DEF Due, Comes1
        <3>2. b + 1 \in DOMAIN work /\ work'[b] = work[b + 1] /\ b + 1 # 1
            BY <1>1, <3>1
        <3> QED
            BY <1>1, <1>4, <3>1, <3>2 DEF Due, Comes1
    <2>2. ASSUME Due(at, z), at[z] # Head(work).index PROVE Due(at, z)'
        <3>1. PICK b \in DOMAIN work : work[b].kind = "step" /\ work[b].index = at[z]
            BY <2>2 DEF Due, Comes1
        <3>2. b # 1
            BY <1>1, <2>2, <3>1
        <3>3. b - 1 \in DOMAIN work' /\ work'[b - 1] = work[b]
            BY <1>3, <3>2
        <3>4. \E c \in DOMAIN work' : work'[c].kind = "step" /\ work'[c].index = at[z]
            BY <3>1, <3>3
        <3> QED
            BY <3>4 DEF Due, Comes1
    <2> QED
        BY <2>1, <2>2
<1>6. \A b \in DOMAIN work : work[b].kind = "loop" => b # 1
    BY <1>1
<1> QED
    BY <1>2, <1>3, <1>5, <1>6

\* The same pass goes on.
LEMMA PassingGoesOn ==
    ASSUME NEW f, NEW a, NEW at, Playing(f, a, at), work # <<>>, Head(work).kind = "step", work' = Tail(work),
           UNCHANGED trace, NEW k, NEW p, NEW s, Passing(f, at, k, p, s), s # 0 => p # 0,
           NEW z, InPass(f, z, s)
    PROVE  Passing(f, at, z, p, s)'
<1>1. /\ \A b \in DOMAIN work' : b + 1 \in DOMAIN work /\ work'[b] = work[b + 1]
      /\ \A b \in DOMAIN work : work[b].kind = "loop" => b - 1 \in DOMAIN work' /\ work'[b - 1] = work[b]
    BY StepGone
<1>2. CASE s = 0
    BY <1>1, <1>2 DEF Passing
<1>3. CASE s # 0
    <2>1. LoopPlace(f, s) /\ p # 0
        BY <1>3 DEF Passing
    <2>2. PICK b \in DOMAIN work : /\ work[b].kind = "loop" /\ work[b].passes = p
                                   /\ \E x \in StepPlaces(f) : At(f, x).loop = s /\ SameLoop(at[x], work[b].first)
        BY <1>3 DEF Passing
    <2>3. b - 1 \in DOMAIN work' /\ work'[b - 1] = work[b]
        BY <1>1, <2>2
    <2>4. \E x \in StepPlaces(f) : At(f, x).loop = s /\ SameLoop(at[x], work[b - 1].first)'
        BY <2>2, <2>3 DEF SameLoop
    <2>5. \E c \in DOMAIN work' : /\ work'[c].kind = "loop" /\ work'[c].passes = p
                                  /\ \E x \in StepPlaces(f) : At(f, x).loop = s /\ SameLoop(at[x], work[c].first)'
        BY <2>2, <2>3, <2>4
    <2> QED
        BY <1>3, <2>1, <2>5 DEF Passing
<1> QED
    BY <1>2, <1>3

\* A step of loop s before the loop on the worklist; so is a step of another loop only there.
LEMMA BeforeLoop ==
    ASSUME NEW f, NEW a, NEW at, Playing(f, a, at), NEW k, NEW p, NEW s, s # 0, Passing(f, at, k, p, s), p # 0,
           work # <<>>, Head(work).kind = "step", NEW x \in StepPlaces(f), at[x] = Head(work).index
    PROVE  At(f, x).loop = s
<1>1. Head(work) = work[1] /\ 1 \in DOMAIN work /\ DOMAIN work \subseteq Nat \ {0}
    <2>1. IsSeq(work)
        BY DEF Playing, WorkShape
    <2> QED
        BY <2>1, HeadOfWork DEF IsSeq
<1>2. PICK b \in DOMAIN work : /\ work[b].kind = "loop"
                               /\ \E z \in StepPlaces(f) : At(f, z).loop = s /\ SameLoop(at[z], work[b].first)
    BY DEF Passing
<1>3. PICK z \in StepPlaces(f) : At(f, z).loop = s /\ SameLoop(at[z], work[b].first)
    BY <1>2
<1>4. 1 < b
    BY <1>1, <1>2
<1>5. work[1].index \in ToSet(work[b].body)
    BY <1>1, <1>2, <1>4 DEF Playing, WorkWhole, LoopsWhole
<1>6. \A j \in DOMAIN work[b].body : SameLoop(work[b].first, work[b].body[j])
    BY <1>2 DEF Playing, WorkShape, WorkEntry
<1>7. SameLoop(at[z], at[x])
    BY <1>1, <1>3, <1>5, <1>6 DEF ToSet, SameLoop
<1> QED
    BY <1>3, <1>7 DEF Playing, Told, Pairs

\* From the place replay has come to only blocks lead to the next step.
LEMMA WayToStep ==
    ASSUME NEW f, NEW a, NEW at, Playing(f, a, at), NEW k, NEW p, NEW s, Following(f, a, at, k, p, s),
           work # <<>>, Head(work).kind = "step", ~FirstOfLoop(Head(work).index),
           NEW x \in StepPlaces(f), at[x] = Head(work).index, x >= k
    PROVE  /\ Fresh(f, k) /\ k \in Nat \ {0} /\ InPass(f, k, s) /\ (s # 0 => p # 0)
           /\ Chain(f, k, x)
           /\ \A i \in k..(x - 1) : At(f, i).node.kind # "repeat"
<1>1. f \in Flows /\ Simple(f) /\ k \in 1..Limit /\ Limit \in Nat \ {0} /\ x \in Places(f) /\ x \in Nat
    <2>1. f \in Flows /\ Simple(f) /\ k \in 1..Limit
        BY DEF Playing, Following, There
    <2>2. Limit \in Nat \ {0}
        BY LimitAssumption
    <2>3. x \in Places(f)
        BY DEF StepPlaces
    <2> QED
        BY <2>1, <2>2, <2>3 DEF Places
<1>2. /\ s # 0 => p # 0
      /\ s = 0 => trace[Head(work).index].rep.id = 0
    BY HeadPlace
<1>3. InPass(f, k, s)
    BY <1>2 DEF Following, Passing
<1>4. k \in Places(f)
    <2> SUFFICES ASSUME k \notin Places(f) PROVE FALSE
        OBVIOUS
    <2>1. x < k
        BY <1>1, EmptyStays
    <2> QED
        BY <1>1, <2>1
<1>5. At(f, x).node.kind = "step" /\ At(f, x).back = 0
    <2>1. At(f, x).node.kind = "step"
        BY DEF StepPlaces
    <2>2. Laid(f, x, At(f, x))
        BY <1>1, LineKnown
    <2> QED
        BY <2>1, <2>2 DEF Laid, LoopPlace
<1>6. At(f, k).back = 0
    <2> SUFFICES ASSUME At(f, k).back # 0 PROVE FALSE
        OBVIOUS
    <2>1. s # 0 /\ k = Return(f, s) /\ LoopPlace(f, s)
        BY <1>1, <1>3, <1>4, PassFresh DEF InPass
    <2>2. At(f, x).loop = s
        BY <1>2, <2>1, BeforeLoop DEF Following
    <2>3. x < Return(f, s)
        BY <1>1, <2>1, <2>2, LoopPlaces
    <2>4. Return(f, s) \in Nat
        BY <1>1, <2>1, LoopPlaces
    <2> QED
        BY <1>1, <2>1, <2>3, <2>4
<1>7. Fresh(f, k)
    BY <1>4, <1>6 DEF Fresh
<1>8. PICK y \in StepPlaces(f) : k <= y /\ Chain(f, k, y)
    BY <1>1, <1>7, Descends
<1>9. y \in Nat /\ k \in Nat \ {0}
    BY <1>1, <1>8 DEF StepPlaces, Places
<1>10. Due(at, y)
    BY <1>2, <1>8, <1>9 DEF Following, Coming
<1>11. x <= y
    BY <1>10, HeadFirst
<1>12. x = y
    <2> SUFFICES ASSUME x # y PROVE FALSE
        OBVIOUS
    <2>1. x \in k..(y - 1)
        BY <1>1, <1>9, <1>11
    <2> QED
        BY <1>5, <1>8, <2>1 DEF Chain
<1>13. ASSUME NEW i \in k..(x - 1), At(f, i).node.kind = "repeat" PROVE FALSE
    <2>1. i \in k..x /\ i # x
        BY <1>1, <1>9
    <2>2. i = k
        <3>1. \A j \in k..y : j # k => At(f, j).node.kind \notin {"in", "repeat"}
            BY <1>1, <1>8, <1>9, <1>12, ChainPlain
        <3> QED
            BY <1>12, <1>13, <2>1, <3>1
    <2>3. LoopPlace(f, k)
        BY <1>7, <1>13, <2>2 DEF LoopPlace
    <2>4. At(f, k).loop = 0
        BY <1>1, <2>3, LoopPlaces
    <2>5. s = 0
        BY <1>1, <1>3, <1>4, <1>6, <2>4, PassFresh
    <2>6. In(k, At(f, x))
        <3>1. BlockPlace(f, k)
            BY <2>3 DEF BlockPlace
        <3> QED
            BY <1>1, <1>8, <1>9, <1>12, <1>13, <2>2, <3>1, ChainIn
    <2>7. At(f, x).loop = k
        <3>1. Laid(f, x, At(f, x))
            BY <1>1, LineKnown
        <3> QED
            BY <1>5, <1>9, <2>3, <2>6, <3>1, InLoop
    <2>8. trace[at[x]].rep.id # 0
        BY <1>9, <2>7 DEF Playing, Told, Leaves1
    <2> QED
        BY <1>2, <2>5, <2>8
<1> QED
    BY <1>2, <1>3, <1>7, <1>8, <1>9, <1>12, <1>13

\* The surface of a step is the one its guards are read on.
LEMMA StepSurface ==
    ASSUME NEW f, NEW a, NEW at, Playing(f, a, at), ~f.multi => active = Main, NEW x \in StepPlaces(f)
    PROVE  /\ (IF trace[at[x]].surface = NoSurface THEN active ELSE trace[at[x]].surface) = At(f, x).surface
           /\ At(f, x).surface # NoSurface
           /\ IsSeq(At(f, x).under) /\ DOMAIN At(f, x).under \subseteq Nat \ {0}
           /\ \A q, r \in DOMAIN At(f, x).under : q < r => At(f, x).under[q] < At(f, x).under[r]
           /\ \A r \in DOMAIN At(f, x).under : At(f, x).under[r] \in 1..(x - 1) /\ WhenPlace(f, At(f, x).under[r])
           /\ x \in Nat \ {0} /\ At(f, x).back = 0
<1>1. f \in Flows /\ Simple(f) /\ x \in Places(f) /\ At(f, x).node.kind = "step"
    BY DEF Playing, StepPlaces
<1>2. Laid(f, x, At(f, x)) /\ x \in 1..Limit
    BY <1>1, LineKnown
<1>3. IF f.multi THEN At(f, x).surface \in Surfaces ELSE At(f, x).surface = Main
    BY <1>1, <1>2 DEF Laid
<1>4. trace[at[x]].surface = IF f.multi THEN At(f, x).surface ELSE NoSurface
    BY DEF Playing, Told, Leaves1
<1>5. NoSurface \notin Surfaces /\ NoSurface # Main
    BY SurfacesAssumption
<1>6. IsSeq(At(f, x).under) /\ At(f, x).back = 0
    BY <1>1, <1>2 DEF Laid, LoopPlace
<1>7. DOMAIN At(f, x).under \subseteq Nat \ {0}
    BY <1>6 DEF IsSeq
<1>8. x \in Nat \ {0}
    BY <1>2
<1> QED
    BY <1>2, <1>3, <1>4, <1>5, <1>6, <1>7, <1>8 DEF Laid

\* The guards of step i that do not hold on a surface, and those that are read.
Refuted(i, surface) == {g \in DOMAIN trace[i].guards : ~Verdict(trace[i].guards[g], surface)}
Consulted(i, surface) == {g \in DOMAIN trace[i].guards : \A q \in Refuted(i, surface) : g <= q}
ConsultedIds(i, surface) == {trace[i].guards[g].id : g \in Consulted(i, surface)}

\* The surface a step is done on (lib.rs, the switch before the guards).
LEMMA ApproachActive ==
    ASSUME Approach
    PROVE  active' = IF trace[Head(work).index].surface = NoSurface THEN active ELSE trace[Head(work).index].surface
    BY Zenon DEF Approach

\* The guards that are read say what they say from then on.
LEMMA ApproachVerdicts ==
    ASSUME Approach
    PROVE  LET i == Head(work).index
               surface == IF trace[i].surface = NoSurface THEN active ELSE trace[i].surface
           IN  verdicts' = [id \in DOMAIN verdicts \cup ConsultedIds(i, surface) |->
                IF id \in DOMAIN verdicts THEN verdicts[id]
                ELSE \E g \in Consulted(i, surface) \ Refuted(i, surface) : trace[i].guards[g].id = id]
    BY Zenon DEF Approach, ConsultedIds, Consulted, Refuted

\* A step runs when all of its guards hold, and is left out otherwise.
LEMMA ApproachStops ==
    ASSUME Approach
    PROVE  LET i == Head(work).index
               surface == IF trace[i].surface = NoSurface THEN active ELSE trace[i].surface
           IN  /\ Refuted(i, surface) = {} => ready' /\ UNCHANGED <<work, results>>
               /\ Refuted(i, surface) # {} => /\ \E id : Pop(Result(i, Head(work).pass, "skipped", "guard", id))
                                              /\ UNCHANGED ready
    BY Zenon DEF Approach, Refuted

\* What the guards of a step say is known from then on.
LEMMA ApproachKnows ==
    ASSUME Approach, NEW i, i = Head(work).index, NEW surface,
           surface = IF trace[i].surface = NoSurface THEN active ELSE trace[i].surface
    PROVE  /\ active' = surface
           /\ \A id : id \in DOMAIN verdicts' <=> id \in DOMAIN verdicts \/ id \in ConsultedIds(i, surface)
           /\ \A id \in DOMAIN verdicts : verdicts'[id] = verdicts[id]
           /\ \A id \in ConsultedIds(i, surface) : id \notin DOMAIN verdicts =>
                (verdicts'[id] <=> \E g \in Consulted(i, surface) \ Refuted(i, surface) : trace[i].guards[g].id = id)
           /\ Refuted(i, surface) = {} => ready' /\ UNCHANGED <<work, results>>
           /\ Refuted(i, surface) # {} => /\ \E id : Pop(Result(i, Head(work).pass, "skipped", "guard", id))
                                          /\ UNCHANGED ready
<1> DEFINE S == IF trace[Head(work).index].surface = NoSurface THEN active ELSE trace[Head(work).index].surface
<1>1. S = surface
    OBVIOUS
<1>2. active' = S
    BY ApproachActive
<1>3. verdicts' = [id \in DOMAIN verdicts \cup ConsultedIds(Head(work).index, S) |->
                IF id \in DOMAIN verdicts THEN verdicts[id]
                ELSE \E g \in Consulted(Head(work).index, S) \ Refuted(Head(work).index, S) : trace[Head(work).index].guards[g].id = id]
    BY ApproachVerdicts
<1>4. /\ Refuted(Head(work).index, S) = {} => ready' /\ UNCHANGED <<work, results>>
      /\ Refuted(Head(work).index, S) # {} => /\ \E id : Pop(Result(Head(work).index, Head(work).pass, "skipped", "guard", id))
                                              /\ UNCHANGED ready
    BY ApproachStops
<1> HIDE DEF S
<1>5. verdicts' = [id \in DOMAIN verdicts \cup ConsultedIds(i, surface) |->
                IF id \in DOMAIN verdicts THEN verdicts[id]
                ELSE \E g \in Consulted(i, surface) \ Refuted(i, surface) : trace[i].guards[g].id = id]
    BY <1>1, <1>3
<1>6. \A id : id \in DOMAIN verdicts' <=> id \in DOMAIN verdicts \/ id \in ConsultedIds(i, surface)
    BY <1>5
<1>7. \A id \in DOMAIN verdicts : verdicts'[id] = verdicts[id]
    BY <1>5
<1>8. \A id \in ConsultedIds(i, surface) : id \notin DOMAIN verdicts =>
                (verdicts'[id] <=> \E g \in Consulted(i, surface) \ Refuted(i, surface) : trace[i].guards[g].id = id)
    BY <1>5
<1> QED
    BY <1>1, <1>2, <1>4, <1>6, <1>7, <1>8

\* What a step of the worklist reads.
SameVerdicts == DOMAIN verdicts' = DOMAIN verdicts /\ \A g \in DOMAIN verdicts : verdicts'[g] = verdicts[g]

\* A step with a guard that is known not to hold is left out.
LEMMA ApproachOff ==
    ASSUME NEW f, NEW a, NEW at, Playing(f, a, at), NEW k, NEW p, NEW s, Following(f, a, at, k, p, s),
           Approach, NEW x \in StepPlaces(f), at[x] = Head(work).index, x < k
    PROVE  /\ Following(f, a, at, k, p, s)' /\ done' = done
           /\ \E r : r.why = "guard" /\ results' = Append(results, r)
<1>1. /\ work # <<>> /\ Head(work).kind = "step" /\ ~FirstOfLoop(Head(work).index) /\ ~ready
      /\ UNCHANGED <<app, flow, screen, captures, trace, done>>
    BY Zenon DEF Approach, AtStep, NextIsStep, Now, recording
<1>2. ~f.multi => active = Main
    BY DEF Following, There
<1> DEFINE guards == trace[at[x]].guards
           surface == IF trace[at[x]].surface = NoSurface THEN active ELSE trace[at[x]].surface
           false == Refuted(at[x], surface)
           read == Consulted(at[x], surface)
           ids == ConsultedIds(at[x], surface)
<1>3. /\ active' = surface
      /\ \A id : id \in DOMAIN verdicts' <=> id \in DOMAIN verdicts \/ id \in ids
      /\ \A id \in DOMAIN verdicts : verdicts'[id] = verdicts[id]
      /\ false # {} => /\ \E id : Pop(Result(at[x], Head(work).pass, "skipped", "guard", id))
                       /\ UNCHANGED ready
    BY ApproachKnows
<1>4. Due(at, x)
    <2>1. IsSeq(work)
        BY DEF Playing, WorkShape
    <2> QED
        BY <1>1, <2>1, HeadOfWork DEF Due, Comes1
<1>5. x \in Nat \ {0} /\ DOMAIN At(f, x).under \subseteq Nat \ {0} /\ surface = At(f, x).surface
    BY <1>2, StepSurface
<1>6. Off(f, at, x, s)
    <2>1. k \in Nat
        BY DEF Following, There
    <2>2. ~(x >= k)
        BY <1>5, <2>1
    <2> QED
        BY <1>4, <2>2 DEF Following, Coming
<1>7. surface = active
    <2>1. Simple(f) /\ f \in Flows /\ x \in Places(f) /\ At(f, x).node.kind = "step"
        BY DEF Playing, StepPlaces
    <2>2. Laid(f, x, At(f, x))
        BY <2>1, LineKnown
    <2> QED
        BY <1>2, <1>5, <1>6, <2>1, <2>2 DEF Off, Laid
<1>8. DOMAIN guards = DOMAIN At(f, x).under
    BY DEF Playing, Told, Leaves1
<1>9. PICK r \in DOMAIN guards : /\ guards[r].id \in DOMAIN verdicts /\ ~verdicts[guards[r].id]
                                 /\ \A q \in DOMAIN guards : q < r => guards[q].id \in DOMAIN verdicts
    BY <1>6, <1>8 DEF Off, Known, GuardAt
<1>10. r \in false
    BY <1>9 DEF Verdict, Refuted
<1>11. \A q \in read : guards[q].id \in DOMAIN verdicts
    <2> USE DEF Consulted
    <2> SUFFICES ASSUME NEW q \in read PROVE guards[q].id \in DOMAIN verdicts
        OBVIOUS
    <2>1. q <= r /\ q \in Nat /\ r \in Nat /\ q \in DOMAIN guards
        BY <1>5, <1>8, <1>9, <1>10
    <2> QED
        BY <1>9, <2>1
<1>12. SameVerdicts
    <2>1. \A id \in ids : id \in DOMAIN verdicts
        BY <1>11 DEF ConsultedIds
    <2>2. \A id : id \in DOMAIN verdicts' <=> id \in DOMAIN verdicts
        BY <1>3, <2>1
    <2> QED
        BY <1>3, <2>2 DEF SameVerdicts
<1>13. PICK id : Pop(Result(at[x], Head(work).pass, "skipped", "guard", id)) /\ UNCHANGED ready
    BY <1>3, <1>10, Zenon
<1>14. work' = Tail(work) /\ ~ready' /\ active' = active
       /\ results' = Append(results, Result(at[x], Head(work).pass, "skipped", "guard", id))
    BY <1>1, <1>3, <1>7, <1>13, Zenon DEF Pop
<1> HIDE DEF guards, surface, false, read, ids
<1>15. \A z \in StepPlaces(f) : Due(at, z)' <=> Due(at, z) /\ at[z] # Head(work).index
    BY <1>1, <1>14, StepGone
<1>16. There(f, a, k, p)'
    BY <1>1, <1>14 DEF Following, There
<1>17. Passing(f, at, k, p, s)'
    <2>1. s # 0 => p # 0
        BY <1>1, HeadPlace
    <2>2. InPass(f, k, s) /\ Passing(f, at, k, p, s)
        BY <2>1 DEF Following, Passing
    <2> QED
        BY <1>1, <1>14, <2>1, <2>2, PassingGoesOn
<1>18. \A z, q : /\ Known(at, z, q)' <=> Known(at, z, q)
                 /\ Known(at, z, q) => verdicts'[GuardAt(at, z, q)] = verdicts[GuardAt(at, z, q)]
                 /\ GuardAt(at, z, q)' = GuardAt(at, z, q)
    BY <1>1, <1>12 DEF Known, GuardAt, SameVerdicts
<1>19. Coming(f, at, k, p, s)'
    <2> SUFFICES ASSUME NEW z \in StepPlaces(f)
                 PROVE  /\ z >= k /\ ~(s # 0 /\ p = 0 /\ At(f, z).loop = s) => Due(at, z)'
                        /\ Due(at, z)' => z >= k \/ Off(f, at, z, s)'
        BY DEF Coming
    <2>1. ASSUME z >= k, ~(s # 0 /\ p = 0 /\ At(f, z).loop = s) PROVE Due(at, z)'
        <3>1. Due(at, z)
            BY <2>1 DEF Following, Coming
        <3>2. z # x
            <4>1. k \in Nat /\ z \in Nat
                BY DEF Following, There, StepPlaces, Places
            <4> QED
                BY <1>5, <2>1, <4>1
        <3>3. at[z] # at[x]
            <4>1. z \in Nat /\ at[z] \in Nat /\ at[x] \in Nat
                BY DEF StepPlaces, Places, Playing, Told, Leaves1, IsSeq
            <4>2. /\ z < x => at[z] < at[x]
                  /\ x < z => at[x] < at[z]
                BY DEF Playing, Told, Pairs
            <4> QED
                BY <1>5, <3>2, <4>1, <4>2
        <3> QED
            BY <1>15, <3>1, <3>3
    <2>2. ASSUME Due(at, z)', ~(z >= k) PROVE Off(f, at, z, s)'
        <3>1. Off(f, at, z, s)
            BY <1>15, <2>2 DEF Following, Coming
        <3> QED
            BY <1>14, <1>18, <3>1 DEF Off
    <2> QED
        BY <2>1, <2>2
<1>20. Guarding(f, at, k)'
    <2>1. Guarding(f, at, k)
        BY DEF Following
    <2> QED
        BY <1>18, <2>1 DEF Guarding
<1>21. Facing1(f, at, k)'
    BY <1>14 DEF Facing1
<1>22. Following(f, a, at, k, p, s)'
    BY <1>16, <1>17, <1>19, <1>20, <1>21 DEF Following
<1> QED
    BY <1>1, <1>14, <1>22 DEF Result

\* Different places have different steps.
LEMMA StepsApart ==
    ASSUME NEW f, NEW a, NEW at, Playing(f, a, at), NEW x \in StepPlaces(f), NEW z \in StepPlaces(f)
    PROVE  /\ x # z <=> at[x] # at[z]
           /\ x \in Nat /\ z \in Nat /\ at[x] \in DOMAIN trace /\ at[x] \in Nat
<1>1. x \in Nat /\ z \in Nat /\ at[z] \in Nat /\ at[x] \in Nat
    BY DEF StepPlaces, Places, Playing, Told, Leaves1, IsSeq
<1>2. /\ z < x => at[z] < at[x]
      /\ x < z => at[x] < at[z]
    BY DEF Playing, Told, Pairs
<1> QED
    BY <1>1, <1>2 DEF Playing, Told, Leaves1

\* A step is under every when: block on the way to it.
LEMMA ChainWhens ==
    ASSUME NEW f \in Flows, Simple(f), NEW k \in Nat \ {0}, NEW x \in StepPlaces(f), k <= x, Chain(f, k, x),
           NEW i \in k..(x - 1), At(f, i).node.kind = "when"
    PROVE  WhenPlace(f, i) /\ \E r \in DOMAIN At(f, x).under : At(f, x).under[r] = i
<1>1. x \in Places(f) /\ x \in Nat /\ i \in Nat \ {0} /\ i \in k..x
    BY DEF StepPlaces, Places
<1>2. WhenPlace(f, i)
    BY DEF WhenPlace, Chain
<1>3. In(i, At(f, x))
    BY <1>1, <1>2, ChainIn DEF BlockPlace
<1>4. Laid(f, x, At(f, x))
    BY <1>1, LineKnown
<1> QED
    BY <1>1, <1>2, <1>3, <1>4, InWhen

\* The guards of a step, as they are read when replay comes to it.
LEMMA GuardsSay ==
    ASSUME NEW f, NEW a, NEW at, Playing(f, a, at), NEW k, NEW p, NEW s, Following(f, a, at, k, p, s),
           NEW x \in StepPlaces(f), x >= k, NEW r \in DOMAIN At(f, x).under
    PROVE  Verdict(trace[at[x]].guards[r], At(f, x).surface) <=>
              (At(f, x).under[r] < k \/ screen[At(f, x).surface] \in a.shows[At(f, At(f, x).under[r]).node.when])
<1>1. /\ Known(at, x, r) <=> At(f, x).under[r] < k
      /\ Known(at, x, r) => verdicts[GuardAt(at, x, r)]
    BY DEF Following, Guarding
<1>2. trace[at[x]].guards[r].cond = At(f, At(f, x).under[r]).node.when
    BY DEF Playing, Told, Leaves1
<1>3. app = a
    BY DEF Playing
<1> QED
    BY <1>1, <1>2, <1>3 DEF Verdict, Known, GuardAt

\* A step all of whose guards hold is about to run.
LEMMA ApproachOn ==
    ASSUME NEW f, NEW a, NEW at, Playing(f, a, at), NEW k, NEW p, NEW s, Following(f, a, at, k, p, s),
           Approach, NEW x \in StepPlaces(f), at[x] = Head(work).index, x >= k,
           \A r \in DOMAIN At(f, x).under : Verdict(trace[at[x]].guards[r], At(f, x).surface)
    PROVE  Following(f, a, at, x, p, s)' /\ done' = done /\ results' = results
<1>1. /\ work # <<>> /\ Head(work).kind = "step" /\ ~FirstOfLoop(Head(work).index) /\ ~ready
      /\ UNCHANGED <<app, flow, screen, captures, trace, done>>
    BY Zenon DEF Approach, AtStep, NextIsStep, Now, recording
<1>2. ~f.multi => active = Main
    BY DEF Following, There
<1>3. /\ (IF trace[at[x]].surface = NoSurface THEN active ELSE trace[at[x]].surface) = At(f, x).surface
      /\ IsSeq(At(f, x).under) /\ DOMAIN At(f, x).under \subseteq Nat \ {0}
      /\ \A r \in DOMAIN At(f, x).under : At(f, x).under[r] \in 1..(x - 1) /\ WhenPlace(f, At(f, x).under[r])
      /\ x \in Nat \ {0} /\ At(f, x).back = 0
    BY <1>2, StepSurface
<1>4. /\ Fresh(f, k) /\ k \in Nat \ {0} /\ InPass(f, k, s) /\ (s # 0 => p # 0)
      /\ Chain(f, k, x)
      /\ \A i \in k..(x - 1) : At(f, i).node.kind # "repeat"
    BY <1>1, WayToStep
<1>5. DOMAIN trace[at[x]].guards = DOMAIN At(f, x).under
    BY DEF Playing, Told, Leaves1
<1> DEFINE ids == {trace[at[x]].guards[g].id : g \in DOMAIN At(f, x).under}
<1>6. /\ active' = At(f, x).surface /\ ready' /\ UNCHANGED <<work, results>>
      /\ \A id : id \in DOMAIN verdicts' <=> id \in DOMAIN verdicts \/ id \in ids
      /\ \A id \in DOMAIN verdicts : verdicts'[id] = verdicts[id]
      /\ \A id \in ids : id \notin DOMAIN verdicts => verdicts'[id]
    <2> DEFINE S == At(f, x).surface
    <2>1. S = IF trace[at[x]].surface = NoSurface THEN active ELSE trace[at[x]].surface
        BY <1>3
    <2>2. \A g \in DOMAIN trace[at[x]].guards : Verdict(trace[at[x]].guards[g], S)
        BY <1>5
    <2> HIDE DEF S
    <2>3. Refuted(at[x], S) = {} /\ Consulted(at[x], S) = DOMAIN trace[at[x]].guards
        BY <2>2 DEF Refuted, Consulted
    <2>4. ConsultedIds(at[x], S) = ids
        BY <1>5, <2>3 DEF ConsultedIds
    <2>5. /\ active' = S
          /\ \A id : id \in DOMAIN verdicts' <=> id \in DOMAIN verdicts \/ id \in ConsultedIds(at[x], S)
          /\ \A id \in DOMAIN verdicts : verdicts'[id] = verdicts[id]
          /\ \A id \in ConsultedIds(at[x], S) : id \notin DOMAIN verdicts =>
               (verdicts'[id] <=> \E g \in Consulted(at[x], S) \ Refuted(at[x], S) : trace[at[x]].guards[g].id = id)
          /\ Refuted(at[x], S) = {} => ready' /\ UNCHANGED <<work, results>>
        BY <2>1, ApproachKnows
    <2>6. \A id \in ids : \E g \in Consulted(at[x], S) \ Refuted(at[x], S) : trace[at[x]].guards[g].id = id
        BY <1>5, <2>3
    <2> HIDE DEF ids
    <2> QED
        BY <2>3, <2>4, <2>5, <2>6 DEF S
<1>7. f \in Flows /\ a \in Apps /\ Simple(f) /\ x \in Places(f) /\ At(f, x).node.kind = "step" /\ app = a /\ k <= x
      /\ x \in 1..Limit
    BY <1>3, <1>4 DEF Playing, StepPlaces, Places
<1>8. There(f, a, x, p)'
    <2>1. PICK on : /\ Comes(f, a, k, p, screen, on, captures, done)
                    /\ k \in Places(f) /\ At(f, k).node.kind # "in" => on = At(f, k).surface /\ active = on
        BY DEF Following, There
    <2> DEFINE S == At(f, x).surface
    <2>2. At(f, k).node.kind # "in" => on = S
        <3>1. \A i \in k..x : i # k \/ At(f, k).node.kind # "in" => At(f, i).surface = At(f, x).surface
            BY <1>3, <1>4, <1>7, ChainPlain
        <3>2. k \in k..x
            BY <1>3, <1>4, <1>7
        <3> QED
            BY <1>4, <2>1, <3>1, <3>2 DEF Fresh
    <2>3. \A z \in k..x :
              (\A i \in k..(z - 1) : At(f, i).node.kind = "when" => screen[S] \in a.shows[At(f, i).node.when]) =>
              \E o : Comes(f, a, z, p, screen, o, captures, done) /\ (At(f, z).node.kind # "in" => o = S)
        <3> HIDE DEF S
        <3>1. S = At(f, x).surface
            BY DEF S
        <3> QED
            BY <1>3, <1>4, <1>7, <2>1, <2>2, <3>1, ComesChain
    <2>4. ASSUME NEW i \in k..(x - 1), At(f, i).node.kind = "when" PROVE screen[S] \in a.shows[At(f, i).node.when]
        <3>1. PICK r \in DOMAIN At(f, x).under : At(f, x).under[r] = i
            BY <1>4, <1>7, <2>4, ChainWhens
        <3>2. Verdict(trace[at[x]].guards[r], At(f, x).surface)
            OBVIOUS
        <3>3. At(f, x).under[r] < k \/ screen[At(f, x).surface] \in a.shows[At(f, At(f, x).under[r]).node.when]
            BY <3>2, GuardsSay
        <3>4. ~(i < k)
            BY <1>3, <1>4
        <3> QED
            BY <3>1, <3>3, <3>4
    <2>5. x \in k..x
        BY <1>3, <1>4, <1>7
    <2>6. \E o : Comes(f, a, x, p, screen, o, captures, done) /\ (At(f, x).node.kind # "in" => o = S)
        BY <2>3, <2>4, <2>5
    <2>7. Comes(f, a, x, p, screen, S, captures, done)
        BY <1>7, <2>6
    <2>8. p \in Nat
        BY DEF Following, There
    <2>9. ~f.multi => active' = Main
        <3>1. Laid(f, x, At(f, x))
            BY <1>7, LineKnown
        <3> QED
            BY <1>6, <1>7, <3>1 DEF Laid
    <2>10. screen' = screen /\ captures' = captures /\ done' = done /\ active' = S
        BY <1>1, <1>6
    <2> HIDE DEF S
    <2>11. Comes(f, a, x, p, screen', S, captures', done')
        BY <2>7, <2>10
    <2>12. S = At(f, x).surface
        BY DEF S
    <2>13. \E on1 : /\ Comes(f, a, x, p, screen', on1, captures', done')
                    /\ x \in Places(f) /\ At(f, x).node.kind # "in" => on1 = At(f, x).surface /\ active' = on1
        BY <2>10, <2>11, <2>12
    <2> QED
        BY <1>7, <2>8, <2>9, <2>13 DEF There
<1>9. Passing(f, at, x, p, s)'
    <2>1. InPass(f, x, s)
        BY <1>3, <1>4, <1>7, PassGoesDown DEF Fresh
    <2>2. Passing(f, at, k, p, s)
        BY DEF Following
    <2> QED
        BY <1>1, <1>4, <1>6, <2>1, <2>2 DEF Passing, SameLoop
<1>10. Coming(f, at, x, p, s)'
    <2> SUFFICES ASSUME NEW z \in StepPlaces(f)
                 PROVE  /\ z >= x /\ ~(s # 0 /\ p = 0 /\ At(f, z).loop = s) => Due(at, z)'
                        /\ Due(at, z)' => z >= x \/ Off(f, at, z, s)'
        BY DEF Coming
    <2>1. Due(at, z)' <=> Due(at, z)
        BY <1>6 DEF Due, Comes1
    <2>2. Due(at, z) => x <= z
        BY <1>1, HeadFirst
    <2>3. z >= x => z >= k
        BY <1>3, <1>4, <1>7 DEF StepPlaces, Places
    <2>4. z \in Nat
        BY DEF StepPlaces, Places
    <2> QED
        BY <1>3, <2>1, <2>2, <2>3, <2>4 DEF Following, Coming
<1>11. Guarding(f, at, x)'
    <2> SUFFICES ASSUME NEW z \in StepPlaces(f), z >= x, NEW r \in DOMAIN At(f, z).under
                 PROVE  /\ Known(at, z, r)' <=> At(f, z).under[r] < x
                        /\ Known(at, z, r)' => verdicts'[GuardAt(at, z, r)']
        BY DEF Guarding
    <2> DEFINE w == At(f, z).under[r]
    <2>1. GuardAt(at, z, r)' = GuardAt(at, z, r)
        BY <1>1 DEF GuardAt
    <2>2. w \in 1..(z - 1) /\ WhenPlace(f, w) /\ z \in Nat /\ w \in Nat
        BY <1>2, StepSurface
    <2>3. z >= k
        BY <1>3, <1>4, <1>7, <2>2
    <2>4. /\ Known(at, z, r) <=> w < k
          /\ Known(at, z, r) => verdicts[GuardAt(at, z, r)]
        BY <2>3 DEF Following, Guarding
    <2>5. \A q \in DOMAIN At(f, x).under : GuardAt(at, x, q) = GuardAt(at, z, r) <=> At(f, x).under[q] = w
        BY DEF Playing, Told, Pairs
    <2>6. GuardAt(at, z, r) \in ids <=> \E q \in DOMAIN At(f, x).under : At(f, x).under[q] = w
        BY <2>5 DEF GuardAt
    <2>7. ASSUME w < x, ~(w < k) PROVE \E q \in DOMAIN At(f, x).under : At(f, x).under[q] = w
        <3>1. w \in k..(x - 1)
            BY <1>3, <1>4, <2>2, <2>7
        <3>2. At(f, w).node.kind = "when"
            BY <2>2 DEF WhenPlace
        <3> QED
            BY <1>4, <1>7, <3>1, <3>2, ChainWhens
    <2>8. (\E q \in DOMAIN At(f, x).under : At(f, x).under[q] = w) => w < x
        BY <1>3, <2>2
    <2>9. w < k => w < x
        BY <1>3, <1>4, <1>7, <2>2
    <2> HIDE DEF w, ids
    <2>10. Known(at, z, r)' <=> Known(at, z, r) \/ GuardAt(at, z, r) \in ids
        BY <1>6, <2>1 DEF Known
    <2>12. ASSUME Known(at, z, r)' PROVE verdicts'[GuardAt(at, z, r)]
        <3>1. CASE Known(at, z, r)
            BY <1>6, <2>4, <3>1 DEF Known
        <3>2. CASE ~Known(at, z, r)
            BY <1>6, <2>10, <2>12, <3>2 DEF Known
        <3> QED
            BY <3>1, <3>2
    <2>13. Known(at, z, r)' <=> w < x
        BY <2>4, <2>6, <2>7, <2>8, <2>9, <2>10
    <2> QED
        BY <2>1, <2>12, <2>13 DEF w
<1>12. Facing1(f, at, x)'
    BY <1>1, <1>6 DEF Facing1
<1> QED
    BY <1>1, <1>6, <1>8, <1>9, <1>10, <1>11, <1>12 DEF Following

\* The first guard of a step that does not hold, if there is one.
LEMMA FirstRefuted ==
    ASSUME NEW i, NEW surface, DOMAIN trace[i].guards \subseteq Nat, Refuted(i, surface) # {}
    PROVE  \E r \in Refuted(i, surface) :
              /\ \A g : g \in Consulted(i, surface) <=> g \in DOMAIN trace[i].guards /\ g <= r
              /\ \A g : g \in Consulted(i, surface) \ Refuted(i, surface) <=> g \in DOMAIN trace[i].guards /\ g < r
<1> DEFINE T == Refuted(i, surface)
<1>1. T \in SUBSET Nat /\ T # {} /\ T \subseteq DOMAIN trace[i].guards
    BY DEF Refuted
<1> HIDE DEF T
<1>2. PICK r \in T : \A y \in T : r <= y
    BY <1>1, Least
<1>3. r \in Nat /\ DOMAIN trace[i].guards \subseteq Nat
    BY <1>1
<1>4. ASSUME NEW g PROVE g \in Consulted(i, surface) <=> g \in DOMAIN trace[i].guards /\ g <= r
    <2>1. g \in Consulted(i, surface) <=> g \in DOMAIN trace[i].guards /\ \A q \in T : g <= q
        BY DEF Consulted, T
    <2>2. ASSUME g \in DOMAIN trace[i].guards, g <= r, NEW q \in T PROVE g <= q
        <3>1. g \in Nat /\ q \in Nat /\ r <= q
            BY <1>1, <1>2, <1>3, <2>2
        <3> QED
            BY <1>3, <2>2, <3>1
    <2> QED
        BY <1>2, <2>1, <2>2
<1>5. ASSUME NEW g PROVE g \in Consulted(i, surface) \ T <=> g \in DOMAIN trace[i].guards /\ g < r
    <2>1. ASSUME g \in Consulted(i, surface) \ T PROVE g \in DOMAIN trace[i].guards /\ g < r
        <3>1. g \in DOMAIN trace[i].guards /\ g <= r /\ g # r /\ g \in Nat
            BY <1>2, <1>3, <1>4, <2>1
        <3> QED
            BY <1>3, <3>1
    <2>2. ASSUME g \in DOMAIN trace[i].guards, g < r PROVE g \in Consulted(i, surface) \ T
        <3>1. g \in Nat /\ g <= r
            BY <1>3, <2>2
        <3>2. g \notin T
            BY <1>2, <1>3, <2>2, <3>1
        <3> QED
            BY <1>4, <2>2, <3>1, <3>2
    <2> QED
        BY <2>1, <2>2
<1> QED
    BY <1>2, <1>4, <1>5 DEF T

\* A step one of whose guards does not hold: the interpreter leaves out the block.
LEMMA ApproachOut ==
    ASSUME NEW f, NEW a, NEW at, Playing(f, a, at), NEW k, NEW p, NEW s, Following(f, a, at, k, p, s),
           Approach, NEW x \in StepPlaces(f), at[x] = Head(work).index, x >= k,
           ~\A r \in DOMAIN At(f, x).under : Verdict(trace[at[x]].guards[r], At(f, x).surface)
    PROVE  /\ \E w : Following(f, a, at, End(f, w), p, s)'
           /\ done' = done
           /\ \E r : r.why = "guard" /\ results' = Append(results, r)
<1>1. /\ work # <<>> /\ Head(work).kind = "step" /\ ~FirstOfLoop(Head(work).index) /\ ~ready
      /\ UNCHANGED <<app, flow, screen, captures, trace, done>>
    BY Zenon DEF Approach, AtStep, NextIsStep, Now, recording
<1>2. ~f.multi => active = Main
    BY DEF Following, There
<1>3. /\ (IF trace[at[x]].surface = NoSurface THEN active ELSE trace[at[x]].surface) = At(f, x).surface
      /\ IsSeq(At(f, x).under) /\ DOMAIN At(f, x).under \subseteq Nat \ {0}
      /\ \A q, r \in DOMAIN At(f, x).under : q < r => At(f, x).under[q] < At(f, x).under[r]
      /\ \A r \in DOMAIN At(f, x).under : At(f, x).under[r] \in 1..(x - 1) /\ WhenPlace(f, At(f, x).under[r])
      /\ x \in Nat \ {0} /\ At(f, x).back = 0
    BY <1>2, StepSurface
<1>4. /\ Fresh(f, k) /\ k \in Nat \ {0} /\ InPass(f, k, s) /\ (s # 0 => p # 0)
      /\ Chain(f, k, x)
      /\ \A i \in k..(x - 1) : At(f, i).node.kind # "repeat"
    BY <1>1, WayToStep
<1>5. DOMAIN trace[at[x]].guards = DOMAIN At(f, x).under
    BY DEF Playing, Told, Leaves1
<1>6. f \in Flows /\ a \in Apps /\ Simple(f) /\ x \in Places(f) /\ At(f, x).node.kind = "step" /\ app = a /\ k <= x
      /\ x \in 1..Limit /\ k \in Places(f)
    BY <1>3, <1>4 DEF Playing, StepPlaces, Places, Fresh
<1> DEFINE S == At(f, x).surface
<1>7. PICK r0 \in DOMAIN At(f, x).under :
          /\ ~Verdict(trace[at[x]].guards[r0], S)
          /\ \A q \in DOMAIN At(f, x).under : q < r0 => Verdict(trace[at[x]].guards[q], S)
          /\ active' = S /\ work' = Tail(work) /\ ~ready'
          /\ \E r : r.why = "guard" /\ results' = Append(results, r)
          /\ \A id \in DOMAIN verdicts : id \in DOMAIN verdicts' /\ verdicts'[id] = verdicts[id]
          /\ \A id : id \in DOMAIN verdicts' =>
                id \in DOMAIN verdicts \/ \E q \in DOMAIN At(f, x).under : q <= r0 /\ GuardAt(at, x, q) = id
          /\ \A q \in DOMAIN At(f, x).under : q <= r0 => GuardAt(at, x, q) \in DOMAIN verdicts'
          /\ \A q \in DOMAIN At(f, x).under : q <= r0 /\ GuardAt(at, x, q) \notin DOMAIN verdicts =>
                (verdicts'[GuardAt(at, x, q)] <=> \E g \in DOMAIN At(f, x).under : g < r0 /\ GuardAt(at, x, g) = GuardAt(at, x, q))
    <2>1. S = IF trace[at[x]].surface = NoSurface THEN active ELSE trace[at[x]].surface
        BY <1>3
    <2>2. \E g \in DOMAIN trace[at[x]].guards : ~Verdict(trace[at[x]].guards[g], S)
        BY <1>5
    <2> HIDE DEF S
    <2>3. Refuted(at[x], S) # {} /\ DOMAIN trace[at[x]].guards \subseteq Nat
        BY <1>3, <1>5, <2>2 DEF Refuted
    <2>4. PICK r0 \in Refuted(at[x], S) :
              /\ \A g : g \in Consulted(at[x], S) <=> g \in DOMAIN trace[at[x]].guards /\ g <= r0
              /\ \A g : g \in Consulted(at[x], S) \ Refuted(at[x], S) <=> g \in DOMAIN trace[at[x]].guards /\ g < r0
        BY <2>3, FirstRefuted
    <2>5. r0 \in DOMAIN At(f, x).under /\ ~Verdict(trace[at[x]].guards[r0], S)
        BY <1>5, <2>4 DEF Refuted
    <2>6. \A q \in DOMAIN At(f, x).under : q < r0 => Verdict(trace[at[x]].guards[q], S)
        BY <1>5, <2>4 DEF Refuted
    <2>7. /\ active' = S
          /\ \A id : id \in DOMAIN verdicts' <=> id \in DOMAIN verdicts \/ id \in ConsultedIds(at[x], S)
          /\ \A id \in DOMAIN verdicts : verdicts'[id] = verdicts[id]
          /\ \A id \in ConsultedIds(at[x], S) : id \notin DOMAIN verdicts =>
               (verdicts'[id] <=> \E g \in Consulted(at[x], S) \ Refuted(at[x], S) : trace[at[x]].guards[g].id = id)
          /\ \E id : Pop(Result(at[x], Head(work).pass, "skipped", "guard", id))
          /\ UNCHANGED ready
        BY <2>1, <2>3, ApproachKnows
    <2>8. \A id : id \in ConsultedIds(at[x], S) <=> \E q \in DOMAIN At(f, x).under : q <= r0 /\ GuardAt(at, x, q) = id
        BY <1>5, <2>4 DEF ConsultedIds, GuardAt
    <2>9. \A id : (\E g \in Consulted(at[x], S) \ Refuted(at[x], S) : trace[at[x]].guards[g].id = id)
                    <=> \E g \in DOMAIN At(f, x).under : g < r0 /\ GuardAt(at, x, g) = id
        BY <1>5, <2>4 DEF GuardAt
    <2>10. work' = Tail(work) /\ \E r : r.why = "guard" /\ results' = Append(results, r)
        BY <2>7 DEF Pop, Result
    <2>11. ~ready'
        BY <1>1, <2>7
    <2>12. /\ \A id \in DOMAIN verdicts : id \in DOMAIN verdicts' /\ verdicts'[id] = verdicts[id]
           /\ \A id : id \in DOMAIN verdicts' =>
                id \in DOMAIN verdicts \/ \E q \in DOMAIN At(f, x).under : q <= r0 /\ GuardAt(at, x, q) = id
        BY <2>7, <2>8
    <2>13. \A q \in DOMAIN At(f, x).under : q <= r0 => GuardAt(at, x, q) \in ConsultedIds(at[x], S)
        BY <2>8
    <2>14. \A q \in DOMAIN At(f, x).under : q <= r0 => GuardAt(at, x, q) \in DOMAIN verdicts'
        BY <2>7, <2>13
    <2>15. \A q \in DOMAIN At(f, x).under : q <= r0 /\ GuardAt(at, x, q) \notin DOMAIN verdicts =>
                (verdicts'[GuardAt(at, x, q)] <=> \E g \in DOMAIN At(f, x).under : g < r0 /\ GuardAt(at, x, g) = GuardAt(at, x, q))
        BY <2>7, <2>9, <2>13
    <2> QED
        BY <2>5, <2>6, <2>7, <2>10, <2>11, <2>12, <2>14, <2>15
<1>8. PICK w : w = At(f, x).under[r0]
    OBVIOUS
<1>9. w \in Nat \ {0} /\ w < x /\ WhenPlace(f, w)
    BY <1>3, <1>8
<1>10. ~(w < k) /\ screen[S] \notin a.shows[At(f, w).node.when] /\ k <= w
    <2>1. ~(w < k \/ screen[S] \in a.shows[At(f, w).node.when])
        BY <1>7, <1>8, GuardsSay
    <2> QED
        BY <1>4, <1>9, <2>1
<1>11. ASSUME NEW i \in k..(w - 1), At(f, i).node.kind = "when"
       PROVE  /\ screen[S] \in a.shows[At(f, i).node.when]
              /\ \E r \in DOMAIN At(f, x).under : At(f, x).under[r] = i /\ r < r0
    <2>1. i \in k..(x - 1) /\ i < w /\ ~(i < k) /\ i \in Nat
        BY <1>3, <1>4, <1>9, <1>11
    <2>2. PICK r \in DOMAIN At(f, x).under : At(f, x).under[r] = i
        BY <1>4, <1>6, <1>11, <2>1, ChainWhens
    <2>3. r < r0
        <3>1. r # r0
            BY <1>8, <1>9, <2>1, <2>2
        <3>2. ~(r0 < r)
            <4>1. r0 < r => w < i
                BY <1>3, <1>8, <2>2
            <4> QED
                BY <1>9, <2>1, <4>1
        <3>3. r \in Nat /\ r0 \in Nat
            BY <1>3
        <3> QED
            BY <3>1, <3>2, <3>3
    <2>4. Verdict(trace[at[x]].guards[r], S)
        BY <1>7, <2>3
    <2>5. At(f, x).under[r] < k \/ screen[S] \in a.shows[At(f, At(f, x).under[r]).node.when]
        BY <2>4, GuardsSay
    <2> QED
        BY <2>1, <2>2, <2>3, <2>5
<1>12. w \in Places(f) /\ Chain(f, k, w) /\ (\A i \in k..(w - 1) : At(f, i).node.kind # "repeat") /\ At(f, w).back = 0
       /\ At(f, w).node.kind = "when" /\ w \in k..x /\ w \in k..(x - 1)
    <2>1. k..(w - 1) \subseteq k..(x - 1)
        BY <1>3, <1>4, <1>9
    <2>2. w \in k..x /\ w \in k..(x - 1)
        BY <1>3, <1>4, <1>9, <1>10
    <2> QED
        BY <1>4, <1>9, <2>1, <2>2 DEF Chain, WhenPlace, Fresh
<1>13. /\ End(f, w) \in 1..Limit /\ w + 1 < End(f, w)
       /\ \A z \in Places(f) : w < z /\ z < End(f, w) =>
             /\ At(f, z).loop = At(f, w).loop /\ At(f, z).surface = At(f, w).surface
             /\ \E r \in DOMAIN At(f, z).under : At(f, z).under[r] = w
       /\ \A z \in Places(f) : \A r \in DOMAIN At(f, z).under : At(f, z).under[r] = w => w < z /\ z < End(f, w)
    BY <1>6, <1>9, WhenPlaces
<1>14. x < End(f, w) /\ End(f, w) \in Nat /\ Limit \in Nat
    <2>1. End(f, w) \in 1..Limit /\ Limit \in Nat
        BY <1>6, <1>13, ReadingSteps
    <2> QED
        BY <1>6, <1>8, <1>13, <2>1
<1>15. At(f, w).surface = S
    <2>1. \A i \in k..x : i # k \/ At(f, k).node.kind # "in" => At(f, i).surface = At(f, x).surface
        BY <1>3, <1>4, <1>6, ChainPlain
    <2> QED
        BY <1>12, <2>1
<1>16. Comes(f, a, End(f, w), p, screen, S, captures, done)
    <2>1. PICK on : /\ Comes(f, a, k, p, screen, on, captures, done)
                    /\ k \in Places(f) /\ At(f, k).node.kind # "in" => on = At(f, k).surface /\ active = on
        BY DEF Following, There
    <2>2. At(f, k).node.kind # "in" => on = S
        <3>1. \A i \in k..x : i # k \/ At(f, k).node.kind # "in" => At(f, i).surface = At(f, x).surface
            BY <1>3, <1>4, <1>6, ChainPlain
        <3>2. k \in k..x
            BY <1>3, <1>4, <1>6
        <3> QED
            BY <1>6, <2>1, <3>1, <3>2
    <2>3. \A z \in k..x :
              (\A i \in k..(z - 1) : At(f, i).node.kind = "when" => screen[S] \in a.shows[At(f, i).node.when]) =>
              \E o : Comes(f, a, z, p, screen, o, captures, done) /\ (At(f, z).node.kind # "in" => o = S)
        <3> HIDE DEF S
        <3>1. S = At(f, x).surface
            BY DEF S
        <3> QED
            <4>1. f \in Flows /\ a \in Apps /\ Simple(f) /\ k \in Nat \ {0} /\ x \in Places(f) /\ k <= x
                BY <1>4, <1>6
            <4>2. Chain(f, k, x) /\ \A i \in k..(x - 1) : At(f, i).node.kind # "repeat"
                BY <1>4
            <4>3. Comes(f, a, k, p, screen, on, captures, done)
                BY <2>1
            <4> QED
                BY <2>2, <3>1, <4>1, <4>2, <4>3, ComesChain
    <2> HIDE DEF S
    <2>4. \E o : Comes(f, a, w, p, screen, o, captures, done) /\ (At(f, w).node.kind # "in" => o = S)
        BY <1>11, <1>12, <2>3
    <2>5. Comes(f, a, w, p, screen, S, captures, done)
        BY <1>12, <2>4
    <2> QED
        BY <1>6, <1>9, <1>10, <2>5, ComesWhen
<1>17. InPass(f, w, s)
    BY <1>4, <1>6, <1>10, <1>12, PassGoesDown DEF Fresh
<1>18. /\ InPass(f, End(f, w), s) /\ Reading[f][End(f, w)] = Tail(Reading[f][w])
       /\ At(f, w).loop = s
    BY <1>6, <1>9, <1>12, <1>13, <1>17, PassGoesOn, PassFresh
<1>19. There(f, a, End(f, w), p)'
    <2>1. p \in Nat
        BY DEF Following, There
    <2>2. ~f.multi => S = Main
        <3>1. Laid(f, x, At(f, x))
            BY <1>6, LineKnown
        <3> QED
            BY <1>6, <3>1 DEF Laid
    <2>3. End(f, w) \in Places(f) /\ At(f, End(f, w)).node.kind # "in" => S = At(f, End(f, w)).surface
        BY <1>6, <1>12, <1>15, <1>18, SurfaceNext
    <2>4. screen' = screen /\ captures' = captures /\ done' = done /\ active' = S
        BY <1>1, <1>7
    <2> HIDE DEF S
    <2>5. Comes(f, a, End(f, w), p, screen', S, captures', done')
        BY <1>16, <2>4
    <2>6. \E on1 : /\ Comes(f, a, End(f, w), p, screen', on1, captures', done')
                   /\ End(f, w) \in Places(f) /\ At(f, End(f, w)).node.kind # "in" => on1 = At(f, End(f, w)).surface /\ active' = on1
        BY <2>3, <2>4, <2>5
    <2> QED
        BY <1>13, <2>1, <2>2, <2>4, <2>6 DEF There
<1>20. Passing(f, at, End(f, w), p, s)'
    <2>1. Passing(f, at, k, p, s)
        BY DEF Following
    <2> QED
        BY <1>1, <1>4, <1>7, <1>18, <2>1, PassingGoesOn
<1>21. \A z \in StepPlaces(f) : Due(at, z)' <=> Due(at, z) /\ at[z] # Head(work).index
    BY <1>1, <1>7, StepGone
<1>22. \A z, q : GuardAt(at, z, q)' = GuardAt(at, z, q)
    BY <1>1 DEF GuardAt
\* The guards of the steps behind this one.
<1>23. ASSUME NEW z \in StepPlaces(f), z > x, NEW q \in DOMAIN At(f, z).under
       PROVE  /\ Known(at, z, q)' <=> At(f, z).under[q] <= w
              /\ Known(at, z, q)' => (verdicts'[GuardAt(at, z, q)] <=> At(f, z).under[q] # w)
    <2> DEFINE v == At(f, z).under[q]
               g == GuardAt(at, z, q)
    <2>1. v \in Nat \ {0} /\ z \in Nat /\ WhenPlace(f, v) /\ v < z
        BY <1>2, StepSurface
    <2>2. /\ Known(at, z, q) <=> v < k
          /\ Known(at, z, q) => verdicts[g]
        <3>1. z >= k
            BY <1>3, <1>4, <1>6, <1>23, <2>1
        <3> QED
            BY <1>23, <3>1 DEF Following, Guarding
    <2>3. \A r \in DOMAIN At(f, x).under : GuardAt(at, x, r) = g <=> At(f, x).under[r] = v
        BY <1>23 DEF Playing, Told, Pairs
    <2>4. \A r \in DOMAIN At(f, x).under : r <= r0 => At(f, x).under[r] <= w
        <3> SUFFICES ASSUME NEW r \in DOMAIN At(f, x).under, r <= r0 PROVE At(f, x).under[r] <= w
            OBVIOUS
        <3>1. r \in Nat /\ r0 \in Nat /\ At(f, x).under[r] \in Nat
            BY <1>3
        <3>2. CASE r = r0
            BY <1>8, <1>9, <3>2
        <3>3. CASE r < r0
            BY <1>3, <1>8, <1>9, <3>1, <3>3
        <3> QED
            BY <3>1, <3>2, <3>3
    <2>5. ASSUME ~(v < k), v <= w PROVE \E r \in DOMAIN At(f, x).under : r <= r0 /\ At(f, x).under[r] = v /\ (v # w => r < r0)
        <3>1. CASE v = w
            BY <1>3, <1>8, <3>1
        <3>2. CASE v # w
            <4>1. v \in k..(w - 1) /\ At(f, v).node.kind = "when"
                BY <1>4, <1>9, <2>1, <2>5, <3>2 DEF WhenPlace
            <4>2. PICK r \in DOMAIN At(f, x).under : At(f, x).under[r] = v /\ r < r0
                BY <1>11, <4>1
            <4>3. r \in Nat /\ r0 \in Nat
                BY <1>3
            <4> QED
                BY <4>2, <4>3
        <3> QED
            BY <3>1, <3>2
    <2> HIDE DEF v, g
    <2>6. ASSUME g \in DOMAIN verdicts' PROVE v <= w
        <3>1. CASE g \in DOMAIN verdicts
            <4>1. v < k
                BY <2>2, <3>1 DEF Known, g
            <4> QED
                BY <1>4, <1>9, <1>10, <2>1, <4>1
        <3>2. CASE \E r \in DOMAIN At(f, x).under : r <= r0 /\ GuardAt(at, x, r) = g
            BY <2>3, <2>4, <3>2
        <3> QED
            BY <1>7, <2>6, <3>1, <3>2
    <2>7. ASSUME v <= w PROVE g \in DOMAIN verdicts' /\ (verdicts'[g] <=> v # w)
        <3>1. CASE v < k
            <4>1. g \in DOMAIN verdicts /\ verdicts[g]
                BY <2>2, <3>1 DEF Known, g
            <4>2. v # w
                BY <1>10, <3>1
            <4> QED
                BY <1>7, <4>1, <4>2
        <3>2. CASE ~(v < k)
            <4>1. PICK r \in DOMAIN At(f, x).under : r <= r0 /\ At(f, x).under[r] = v /\ (v # w => r < r0)
                BY <2>5, <2>7, <3>2
            <4>2. GuardAt(at, x, r) = g
                BY <2>3, <4>1
            <4>3. g \notin DOMAIN verdicts
                BY <2>2, <3>2 DEF Known, g
            <4>4. g \in DOMAIN verdicts' /\ (verdicts'[g] <=> \E h \in DOMAIN At(f, x).under : h < r0 /\ GuardAt(at, x, h) = g)
                BY <1>7, <4>1, <4>2, <4>3
            <4>5. v # w => \E h \in DOMAIN At(f, x).under : h < r0 /\ GuardAt(at, x, h) = g
                BY <4>1, <4>2
            <4>6. ASSUME v = w, NEW h \in DOMAIN At(f, x).under, h < r0, GuardAt(at, x, h) = g PROVE FALSE
                <5>1. At(f, x).under[h] = w
                    BY <2>3, <4>6
                <5>2. At(f, x).under[h] < At(f, x).under[r0]
                    BY <1>3, <4>6
                <5> QED
                    BY <1>8, <1>9, <5>1, <5>2
            <4> QED
                BY <4>4, <4>5, <4>6
        <3> QED
            BY <3>1, <3>2
    <2>8. Known(at, z, q)' <=> g \in DOMAIN verdicts'
        BY <1>22 DEF Known, g
    <2> QED
        BY <2>6, <2>7, <2>8 DEF v, g
<1>24. Coming(f, at, End(f, w), p, s)'
    <2> SUFFICES ASSUME NEW z \in StepPlaces(f)
                 PROVE  /\ z >= End(f, w) /\ ~(s # 0 /\ p = 0 /\ At(f, z).loop = s) => Due(at, z)'
                        /\ Due(at, z)' => z >= End(f, w) \/ Off(f, at, z, s)'
        BY DEF Coming
    <2>1. z \in Nat /\ z \in Places(f) /\ (x # z <=> at[x] # at[z])
        BY StepsApart DEF StepPlaces
    <2>2. ASSUME z >= End(f, w), ~(s # 0 /\ p = 0 /\ At(f, z).loop = s) PROVE Due(at, z)'
        <3>1. z >= k /\ z # x
            BY <1>3, <1>4, <1>6, <1>14, <2>1, <2>2
        <3>2. Due(at, z)
            BY <2>2, <3>1 DEF Following, Coming
        <3> QED
            BY <1>21, <2>1, <3>1, <3>2
    <2>3. ASSUME Due(at, z)', ~(z >= End(f, w)) PROVE Off(f, at, z, s)'
        <3>1. Due(at, z) /\ z # x
            BY <1>21, <2>1, <2>3
        <3>2. x <= z
            BY <1>1, <3>1, HeadFirst
        <3>3. x < z /\ z < End(f, w) /\ w < z
            BY <1>3, <1>9, <1>14, <2>1, <2>3, <3>1, <3>2
        <3>4. PICK r \in DOMAIN At(f, z).under : At(f, z).under[r] = w
            BY <1>13, <2>1, <3>3
        <3>5. At(f, z).loop = s /\ At(f, z).surface = active'
            BY <1>7, <1>13, <1>15, <1>18, <2>1, <3>3
        <3>6. \A q, o \in DOMAIN At(f, z).under : q < o => At(f, z).under[q] < At(f, z).under[o]
            BY <1>2, StepSurface
        <3>7. \A q \in DOMAIN At(f, z).under : At(f, z).under[q] \in Nat
            BY <1>2, StepSurface
        <3>8. z > x
            BY <1>3, <2>1, <3>3
        <3>9. \A q \in DOMAIN At(f, z).under : q < r => Known(at, z, q)'
            <4> SUFFICES ASSUME NEW q \in DOMAIN At(f, z).under, q < r PROVE Known(at, z, q)'
                OBVIOUS
            <4>1. At(f, z).under[q] < w /\ At(f, z).under[q] \in Nat
                BY <3>4, <3>6, <3>7
            <4>2. At(f, z).under[q] <= w
                BY <1>9, <4>1
            <4> QED
                BY <1>23, <3>8, <4>2
        <3>10. Known(at, z, r)' /\ ~verdicts'[GuardAt(at, z, r)]
            <4>1. At(f, z).under[r] <= w
                BY <1>9, <3>4
            <4> QED
                BY <1>23, <3>4, <3>8, <4>1
        <3> QED
            BY <1>22, <3>5, <3>9, <3>10 DEF Off
    <2> QED
        BY <2>2, <2>3
<1>25. Guarding(f, at, End(f, w))'
    <2> SUFFICES ASSUME NEW z \in StepPlaces(f), z >= End(f, w), NEW q \in DOMAIN At(f, z).under
                 PROVE  /\ Known(at, z, q)' <=> At(f, z).under[q] < End(f, w)
                        /\ Known(at, z, q)' => verdicts'[GuardAt(at, z, q)']
        BY DEF Guarding
    <2>1. z \in Nat /\ z \in Places(f) /\ z \in 1..Limit /\ At(f, z).under[q] \in Nat
        BY <1>2, StepSurface DEF StepPlaces, Places
    <2>2. z > x
        BY <1>3, <1>14, <2>1
    <2>3. At(f, z).under[q] < End(f, w) => At(f, z).under[q] < w
        <3> SUFFICES ASSUME At(f, z).under[q] < End(f, w), ~(At(f, z).under[q] < w) PROVE FALSE
            BY <1>9, <2>1
        <3>1. At(f, z).under[q] \in w..(End(f, w) - 1) /\ z \in End(f, w)..Limit
            BY <1>9, <1>14, <2>1
        <3>2. \A i \in End(f, w)..Limit, v \in w..(End(f, w) - 1) :
                 \A m \in DOMAIN Reading[f][i] : ~In(v, Reading[f][i][m])
            BY <1>6, <1>9, EndFacts DEF BlockPlace
        <3>3. 1 \in DOMAIN Reading[f][z] /\ At(f, z) = Reading[f][z][1]
            BY <1>6, <2>1, LineKnown
        <3>4. ~In(At(f, z).under[q], At(f, z))
            BY <3>1, <3>2, <3>3
        <3> QED
            BY <3>4 DEF In
    <2>4. /\ Known(at, z, q)' <=> At(f, z).under[q] <= w
          /\ Known(at, z, q)' => (verdicts'[GuardAt(at, z, q)] <=> At(f, z).under[q] # w)
        BY <1>23, <2>2
    <2>5. At(f, z).under[q] # w
        BY <1>13, <1>14, <2>1
    <2>6. Known(at, z, q)' <=> At(f, z).under[q] < End(f, w)
        BY <1>9, <1>13, <1>14, <2>1, <2>3, <2>4, <2>5
    <2> QED
        BY <1>22, <2>4, <2>5, <2>6
<1>26. Facing1(f, at, End(f, w))'
    BY <1>7 DEF Facing1
<1>27. Following(f, a, at, End(f, w), p, s)'
    BY <1>19, <1>20, <1>24, <1>25, <1>26 DEF Following
<1> QED
    BY <1>1, <1>7, <1>27

\* The step that is about to run is the one of the place replay has come to.
LEMMA ReadyPlace ==
    ASSUME NEW f, NEW a, NEW at, Playing(f, a, at), NEW k, NEW p, NEW s, Following(f, a, at, k, p, s), ready
    PROVE  /\ k \in StepPlaces(f) /\ work # <<>> /\ Head(work).kind = "step" /\ Head(work).index = at[k]
           /\ Current = At(f, k).node /\ active = At(f, k).surface /\ active # NoSurface
           /\ Comes(f, a, k, p, screen, active, captures, done)
           /\ k \in Places(f) /\ k \in 1..Limit /\ k \in Nat /\ At(f, k).node.kind = "step"
           /\ f \in Flows /\ a \in Apps /\ Simple(f) /\ app = a
<1>1. k \in StepPlaces(f) /\ work # <<>> /\ Head(work).kind = "step" /\ Head(work).index = at[k]
    BY DEF Following, Facing1
<1>2. k \in Places(f) /\ At(f, k).node.kind = "step" /\ k \in 1..Limit
    BY <1>1 DEF StepPlaces, Places
<1>3. Current = At(f, k).node
    BY <1>1 DEF Current, Playing, Told, Leaves1
<1>4. active = At(f, k).surface /\ Comes(f, a, k, p, screen, active, captures, done)
    BY <1>2 DEF Following, There
<1>5. active # NoSurface
    BY <1>1, <1>4, StepSurface DEF Following, There
<1> QED
    BY <1>1, <1>2, <1>3, <1>4, <1>5 DEF Playing

\* A step that is done: the interpreter does it too, with the same values.
LEMMA StepRuns ==
    ASSUME NEW f, NEW a, NEW at, Playing(f, a, at), NEW k, NEW p, NEW s, Following(f, a, at, k, p, s),
           RunStep, ~FirstOfLoop(Head(work).index)
    PROVE  Following(f, a, at, k + 1, p, s)'
<1>1. /\ k \in StepPlaces(f) /\ work # <<>> /\ Head(work).kind = "step" /\ Head(work).index = at[k]
      /\ Current = At(f, k).node /\ active = At(f, k).surface /\ active # NoSurface
      /\ Comes(f, a, k, p, screen, active, captures, done)
      /\ k \in Places(f) /\ k \in 1..Limit /\ k \in Nat /\ At(f, k).node.kind = "step"
      /\ f \in Flows /\ a \in Apps /\ Simple(f) /\ app = a
    BY ReadyPlace DEF RunStep, Running
<1>2. k + 1 \in 1..Limit /\ k + 1 \in Nat
    BY <1>1, LineKnown
<1> DEFINE leaf == At(f, k).node
           to == a.acts[leaf.act][screen[active]]
<1>3. /\ to # Stuck /\ leaf.uses \subseteq DOMAIN captures
      /\ screen' = Moved(screen, active, to)
      /\ captures' = KeptBy(leaf, captures, screen[active])
      /\ done' = Append(done, DeedBy(leaf, active, captures))
      /\ work' = Tail(work) /\ ~ready' /\ UNCHANGED <<trace, verdicts, active>>
    BY <1>1 DEF RunStep, Possible, After, Act, Remembering, Deed, Pop, recording, Moved, KeptBy, DeedBy
<1>4. Comes(f, a, k + 1, p, screen', active, captures', done')
    <2>1. leaf = At(f, k).node /\ to = a.acts[leaf.act][screen[active]] /\ to # Stuck /\ leaf.uses \subseteq DOMAIN captures
        BY <1>3
    <2> HIDE DEF leaf, to
    <2>3. Comes(f, a, k, p, screen, active, captures, done) /\ k \in StepPlaces(f) /\ f \in Flows /\ a \in Apps /\ Simple(f)
        BY <1>1
    <2>2. Comes(f, a, k + 1, p, Moved(screen, active, to), active, KeptBy(leaf, captures, screen[active]),
                Append(done, DeedBy(leaf, active, captures)))
        BY <2>1, <2>3, ComesStep
    <2> QED
        BY <1>3, <2>2
<1> HIDE DEF leaf, to
<1>5. s # 0 => p # 0
    BY <1>1, HeadPlace
<1>6. InPass(f, k, s)
    BY <1>5 DEF Following, Passing
<1>7. InPass(f, k + 1, s) /\ Reading[f][k + 1] = Tail(Reading[f][k])
    BY <1>1, <1>2, <1>6, PassGoesOn
<1>8. There(f, a, k + 1, p)'
    <2>1. k + 1 \in Places(f) /\ At(f, k + 1).node.kind # "in" => active = At(f, k + 1).surface
        BY <1>1, <1>7, SurfaceNext
    <2>2. p \in Nat /\ (~f.multi => active = Main)
        BY DEF Following, There
    <2> QED
        BY <1>2, <1>3, <1>4, <2>1, <2>2 DEF There
<1>9. Passing(f, at, k + 1, p, s)'
    <2>1. Passing(f, at, k, p, s)
        BY DEF Following
    <2> QED
        BY <1>1, <1>3, <1>5, <1>7, <2>1, PassingGoesOn
<1>10. Coming(f, at, k + 1, p, s)'
    <2>0. \A z \in StepPlaces(f) : Due(at, z)' <=> Due(at, z) /\ at[z] # Head(work).index
        BY <1>1, <1>3, StepGone
    <2> SUFFICES ASSUME NEW z \in StepPlaces(f)
                 PROVE  /\ z >= k + 1 /\ ~(s # 0 /\ p = 0 /\ At(f, z).loop = s) => Due(at, z)'
                        /\ Due(at, z)' => z >= k + 1 \/ Off(f, at, z, s)'
        BY DEF Coming
    <2>1. z \in Nat /\ (k # z <=> at[k] # at[z])
        BY <1>1, StepsApart
    <2>2. ASSUME z >= k + 1, ~(s # 0 /\ p = 0 /\ At(f, z).loop = s) PROVE Due(at, z)'
        <3>1. z >= k /\ z # k
            BY <1>1, <2>1, <2>2
        <3>2. Due(at, z)
            BY <2>2, <3>1 DEF Following, Coming
        <3> QED
            BY <1>1, <2>0, <2>1, <3>1, <3>2
    <2>3. ASSUME Due(at, z)' PROVE z >= k + 1
        <3>1. Due(at, z) /\ z # k
            BY <1>1, <2>0, <2>1, <2>3
        <3>2. k <= z
            BY <1>1, <3>1, HeadFirst
        <3> QED
            BY <1>1, <2>1, <3>1, <3>2
    <2> QED
        BY <2>2, <2>3
<1>11. Guarding(f, at, k + 1)'
    <2> SUFFICES ASSUME NEW z \in StepPlaces(f), z >= k + 1, NEW q \in DOMAIN At(f, z).under
                 PROVE  /\ Known(at, z, q)' <=> At(f, z).under[q] < k + 1
                        /\ Known(at, z, q)' => verdicts'[GuardAt(at, z, q)']
        BY DEF Guarding
    <2>1. z \in Nat /\ At(f, z).under[q] \in Nat /\ WhenPlace(f, At(f, z).under[q])
        BY StepSurface DEF Following, There
    <2>2. z >= k /\ At(f, z).under[q] # k
        BY <1>1, <2>1 DEF WhenPlace
    <2>3. /\ Known(at, z, q) <=> At(f, z).under[q] < k
          /\ Known(at, z, q) => verdicts[GuardAt(at, z, q)]
        BY <2>2 DEF Following, Guarding
    <2>4. (Known(at, z, q)' <=> Known(at, z, q)) /\ GuardAt(at, z, q)' = GuardAt(at, z, q)
        BY <1>3 DEF Known, GuardAt
    <2>5. At(f, z).under[q] < k + 1 <=> At(f, z).under[q] < k
        BY <1>1, <2>1, <2>2
    <2> QED
        BY <1>3, <2>3, <2>4, <2>5
<1>12. Facing1(f, at, k + 1)'
    BY <1>3 DEF Facing1
<1> QED
    BY <1>8, <1>9, <1>10, <1>11, <1>12 DEF Following

\* A step that cannot be done: the interpreter gives up on it too.
LEMMA StepFails ==
    ASSUME NEW f, NEW a, NEW at, Playing(f, a, at), NEW k, NEW p, NEW s, Following(f, a, at, k, p, s),
           ready, ~Possible(Current)
    PROVE  ~Meaning[f][a].ok /\ Meaning[f][a].deeds = done
<1>1. /\ k \in StepPlaces(f) /\ Current = At(f, k).node /\ active # NoSurface
      /\ Comes(f, a, k, p, screen, active, captures, done)
      /\ f \in Flows /\ a \in Apps /\ Simple(f) /\ app = a
    BY ReadyPlace
<1> DEFINE leaf == At(f, k).node
<1>2. ~(a.acts[leaf.act][screen[active]] # Stuck /\ leaf.uses \subseteq DOMAIN captures)
    BY <1>1 DEF Possible, After
<1>3. leaf = At(f, k).node
    OBVIOUS
<1> HIDE DEF leaf
<1> QED
    BY <1>1, <1>2, <1>3, ComesStuck

---------------------------------------------------------------------------
(* Loops, met and repeated.                                                *)

\* Meeting a loop, the interpreter is at it.
LEMMA MeetFollows ==
    ASSUME NEW f, NEW a, NEW at, Playing(f, a, at), NEW k, NEW p, NEW s, Following(f, a, at, k, p, s), MeetLoop
    PROVE  \E t : Following(f, a, at, t, 0, t)'
<1> DEFINE i == Head(work).index
<1>1. /\ work # <<>> /\ Head(work).kind = "step" /\ FirstOfLoop(i) /\ seen' = seen \cup {trace[i].rep.id}
      /\ work' = <<LoopAt(i, Body(i), 0)>> \o Beyond(i, Tail(work)) /\ ~ready
      /\ UNCHANGED <<trace, verdicts, screen, active, captures, done, ready>>
    BY DEF MeetLoop, NextIsStep, Now, page, recording
<1>2. IsSeq(work) /\ WorkShape /\ TraceShape /\ f \in Flows /\ Simple(f) /\ Told(f, at) /\ IsSeq(trace)
    BY DEF Playing, WorkShape, TraceShape
<1>3. Head(work) = work[1] /\ 1 \in DOMAIN work /\ DOMAIN work \subseteq Nat \ {0}
    BY <1>1, <1>2, HeadOfWork DEF IsSeq
<1>4. i \in DOMAIN trace /\ DOMAIN trace \subseteq Nat /\ trace[i].rep.id # 0
    BY <1>1, <1>2, <1>3 DEF WorkShape, WorkEntry, IsSeq, FirstOfLoop
<1>5. PICK m \in Nat : MeetPlaced(i, m)
    BY <1>1, <1>2, ShapeMeet
<1>6. /\ work'[1] = LoopAt(i, Body(i), 0) /\ 1 \in DOMAIN work'
      /\ \A c \in DOMAIN work : work[c].kind = "step" /\ (c <= m + 1 => SameLoop(i, work[c].index))
      /\ \A c \in DOMAIN work : c > m + 1 => c - m \in DOMAIN work' /\ c - m # 1
      /\ \A c \in DOMAIN work' : c # 1 => c + m \in DOMAIN work /\ work'[c] = work[c + m]
    BY <1>5 DEF MeetPlaced
<1>7. s = 0 /\ p = 0 /\ InPass(f, k, 0)
    BY <1>6 DEF Following, Passing
<1>8. PICK o \in StepPlaces(f) : SameLoop(at[o], i)
    BY <1>2, <1>4 DEF Told, Covered
<1>9. /\ \A x \in StepPlaces(f) : at[x] \in DOMAIN trace /\ (trace[at[x]].rep.id = 0 <=> At(f, x).loop = 0)
      /\ \A x, y \in StepPlaces(f) : (x < y => at[x] < at[y]) /\ (SameLoop(at[x], at[y]) <=> At(f, x).loop = At(f, y).loop)
    BY <1>2 DEF Told, Leaves1, Pairs
<1>10. PICK t : t = At(f, o).loop
    OBVIOUS
<1>11. t # 0 /\ LoopPlace(f, t) /\ o \in Places(f)
    <2>1. o \in Places(f) /\ Laid(f, o, At(f, o))
        BY <1>2, LineKnown DEF StepPlaces
    <2> QED
        BY <1>4, <1>8, <1>9, <1>10, <2>1 DEF SameLoop, Laid
<1>12. /\ t \in Nat \ {0} /\ t < o /\ o < Return(f, t) /\ At(f, t).node.kind = "repeat" /\ Return(f, t) \in Nat
       /\ \A x \in (t + 1)..(Return(f, t) - 1) : At(f, x).loop = t
       /\ \A x \in Places(f) : At(f, x).loop = t => t < x
    BY <1>2, <1>10, <1>11, LoopPlaces
<1>13. k \in 1..Limit /\ Limit \in Nat /\ k \in Nat \ {0} /\ StepPlaces(f) \subseteq Nat
    BY LimitAssumption DEF Following, There, StepPlaces, Places
\* Of the loop only, and of what is behind it, anything is to come.
<1>14. \A x \in StepPlaces(f) : SameLoop(i, at[x]) <=> At(f, x).loop = t
    BY <1>8, <1>9, <1>10 DEF SameLoop
<1>15. ASSUME NEW x \in StepPlaces(f), Due(at, x), x <= t PROVE FALSE
    <2>1. i <= at[x]
        BY <1>1, <1>15, HeadFirst
    <2>2. x < o
        BY <1>12, <1>13, <1>15
    <2>3. at[x] < at[o] /\ at[x] \in Nat /\ at[o] \in Nat /\ at[x] \in DOMAIN trace /\ at[o] \in DOMAIN trace
        BY <1>4, <1>9, <2>2
    <2>4. SameLoop(i, at[o])
        BY <1>8 DEF SameLoop
    <2>5. SameLoop(i, at[x])
        BY <1>4, <2>1, <2>3, <2>4 DEF Playing, LoopsTogether
    <2>6. At(f, x).loop = t /\ x \in Places(f)
        BY <1>14, <2>5 DEF StepPlaces
    <2> QED
        BY <1>12, <1>13, <1>15, <2>6
\* The interpreter is at the loop.
<1>16. k <= o
    <2>1. FirstOfLoop(at[o])
        BY <1>1, <1>8 DEF FirstOfLoop, SameLoop
    <2>2. Due(at, o)
        BY <1>9, <2>1 DEF Playing, WorkWhole, UnseenToCome, Due
    <2>3. o >= k \/ Off(f, at, o, s)
        BY <2>2 DEF Following, Coming
    <2> QED
        BY <1>7, <1>10, <1>11, <1>13, <2>3 DEF Off
<1>17. k \in Places(f)
    BY <1>2, <1>11, <1>13, <1>16, EmptyStays
<1>18. At(f, k).loop = 0 /\ At(f, k).back = 0 /\ Fresh(f, k)
    BY <1>7, <1>17 DEF InPass, Fresh
<1>19. k <= t
    <2> SUFFICES ASSUME ~(k <= t) PROVE FALSE
        OBVIOUS
    <2>1. k \in (t + 1)..(Return(f, t) - 1)
        BY <1>12, <1>13, <1>16
    <2> QED
        BY <1>11, <1>12, <1>18, <2>1
<1>20. k = t
    <2> SUFFICES ASSUME k < t PROVE FALSE
        BY <1>12, <1>13, <1>19
    <2>1. PICK y \in StepPlaces(f) : k <= y /\ Chain(f, k, y)
        BY <1>2, <1>18, Descends
    <2>2. y \in Places(f) /\ y \in Nat /\ At(f, y).node.kind = "step"
        BY <1>13 DEF StepPlaces
    <2>3. \A x \in k..y : x # k => At(f, x).node.kind \notin {"in", "repeat"}
        BY <1>2, <1>13, <2>1, <2>2, ChainPlain
    <2>4. ~(t <= y)
        BY <1>12, <1>13, <2>2, <2>3
    <2>5. Due(at, y)
        BY <1>7, <2>1 DEF Following, Coming
    <2> QED
        BY <1>12, <1>15, <2>2, <2>4, <2>5
<1>21. There(f, a, t, 0)'
    BY <1>1, <1>7, <1>20 DEF Following, There
<1>22. Passing(f, at, t, 0, t)'
    <2>1. /\ work'[1].kind = "loop" /\ work'[1].passes = 0 /\ work'[1].first = i
        BY <1>6 DEF LoopAt
    <2>2. SameLoop(at[o], work[1].first)'
        BY <1>1, <1>8, <2>1 DEF SameLoop
    <2>3. \E b \in DOMAIN work' :
               /\ work'[b].kind = "loop" /\ work'[b].passes = 0 /\ (0 = 0 => b = 1)
               /\ \E x \in StepPlaces(f) : At(f, x).loop = t /\ SameLoop(at[x], work[b].first)'
        BY <1>6, <1>10, <2>1, <2>2
    <2> QED
        BY <1>11, <2>3 DEF Passing
<1>23. Coming(f, at, t, 0, t)'
    <2> SUFFICES ASSUME NEW x \in StepPlaces(f)
                 PROVE  /\ x >= t /\ ~(t # 0 /\ 0 = 0 /\ At(f, x).loop = t) => Due(at, x)'
                        /\ Due(at, x)' => x >= t \/ Off(f, at, x, t)'
        BY DEF Coming
    <2>1. ASSUME x >= t, At(f, x).loop # t PROVE Due(at, x)'
        <3>1. Due(at, x)
            BY <1>7, <1>20, <2>1 DEF Following, Coming
        <3>2. PICK c \in DOMAIN work : work[c].kind = "step" /\ work[c].index = at[x]
            BY <3>1 DEF Due, Comes1
        <3>3. ~(c <= m + 1)
            BY <1>6, <1>14, <2>1, <3>2
        <3>4. c - m \in DOMAIN work' /\ c - m # 1 /\ (c - m) + m = c
            BY <1>3, <1>6, <3>3
        <3>5. work'[c - m] = work[c]
            BY <1>6, <3>4
        <3>6. \E b \in DOMAIN work' : work'[b].kind = "step" /\ work'[b].index = at[x]
            BY <3>2, <3>4, <3>5
        <3> QED
            BY <3>6 DEF Due, Comes1
    <2>2. ASSUME Due(at, x)' PROVE x >= t
        <3>1. PICK c \in DOMAIN work' : work'[c].kind = "step" /\ work'[c].index = at[x]
            BY <2>2 DEF Due, Comes1
        <3>2. c # 1
            BY <1>6, <3>1 DEF LoopAt
        <3>3. c + m \in DOMAIN work /\ work'[c] = work[c + m]
            BY <1>6, <3>2
        <3>4. Due(at, x)
            BY <3>1, <3>3 DEF Due, Comes1
        <3> QED
            BY <1>12, <1>13, <1>15, <3>4
    <2> QED
        BY <1>11, <2>1, <2>2
<1>24. Guarding(f, at, t)'
    BY <1>1, <1>20 DEF Following, Guarding, Known, GuardAt
<1>25. Facing1(f, at, t)'
    BY <1>1 DEF Facing1
<1> QED
    BY <1>21, <1>22, <1>23, <1>24, <1>25 DEF Following

\* The steps of a flow behind the start of a loop are in it, or behind its end.
LEMMA BehindLoop ==
    ASSUME NEW f \in Flows, Simple(f), NEW s, LoopPlace(f, s), NEW x \in StepPlaces(f)
    PROVE  /\ x \in Nat /\ s \in Nat \ {0} /\ Return(f, s) \in Nat /\ End(f, s) = Return(f, s) + 1 /\ s < Return(f, s)
           /\ At(f, x).loop = s => s < x /\ x < Return(f, s)
           /\ x >= s /\ At(f, x).loop # s => x >= End(f, s)
           /\ \A r \in DOMAIN At(f, x).under :
                 /\ At(f, x).under[r] \in Nat /\ WhenPlace(f, At(f, x).under[r])
                 /\ At(f, At(f, x).under[r]).loop = At(f, x).loop /\ At(f, x).loop < At(f, x).under[r]
                 /\ x >= End(f, s) => At(f, x).under[r] < s \/ At(f, x).under[r] >= End(f, s)
<1>1. x \in Places(f) /\ At(f, x).node.kind = "step" /\ x \in Nat
    BY DEF StepPlaces, Places
<1>2. /\ s \in Nat \ {0} /\ Return(f, s) \in Nat /\ End(f, s) = Return(f, s) + 1 /\ s < Return(f, s)
      /\ At(f, s).node.kind = "repeat" /\ At(f, Return(f, s)).node.kind = "repeat"
      /\ \A k \in (s + 1)..(Return(f, s) - 1) : At(f, k).loop = s
      /\ \A k \in Places(f) : At(f, k).loop = s => s < k /\ k < Return(f, s)
    BY LoopPlaces
<1>3. At(f, x).loop = s => s < x /\ x < Return(f, s)
    BY <1>1, <1>2
<1>4. ASSUME x >= s, At(f, x).loop # s PROVE x >= End(f, s)
    <2>1. x # s /\ x # Return(f, s)
        BY <1>1, <1>2
    <2>2. x \notin (s + 1)..(Return(f, s) - 1)
        BY <1>2, <1>4
    <2> QED
        BY <1>1, <1>2, <1>4, <2>1, <2>2
<1>5. ASSUME NEW r \in DOMAIN At(f, x).under
      PROVE  /\ At(f, x).under[r] \in Nat /\ WhenPlace(f, At(f, x).under[r])
             /\ At(f, At(f, x).under[r]).loop = At(f, x).loop /\ At(f, x).loop < At(f, x).under[r]
             /\ x >= End(f, s) => At(f, x).under[r] < s \/ At(f, x).under[r] >= End(f, s)
    <2>1. Laid(f, x, At(f, x)) /\ x \in 1..Limit /\ 1 \in DOMAIN Reading[f][x] /\ At(f, x) = Reading[f][x][1]
        BY <1>1, LineKnown
    <2>2. /\ At(f, x).under[r] \in 1..(x - 1) /\ WhenPlace(f, At(f, x).under[r]) /\ At(f, x).loop < At(f, x).under[r]
          /\ At(f, At(f, x).under[r]).loop = At(f, x).loop
        BY <2>1 DEF Laid, Alongside
    <2>3. ASSUME x >= End(f, s), ~(At(f, x).under[r] < s \/ At(f, x).under[r] >= End(f, s)) PROVE FALSE
        <3>1. \A k \in End(f, s)..Limit, w \in s..(End(f, s) - 1) :
                 \A m \in DOMAIN Reading[f][k] : ~In(w, Reading[f][k][m])
            BY EndFacts DEF BlockPlace
        <3>2. x \in End(f, s)..Limit /\ At(f, x).under[r] \in s..(End(f, s) - 1)
            BY <1>1, <1>2, <2>1, <2>2, <2>3
        <3>3. In(At(f, x).under[r], At(f, x))
            BY DEF In
        <3> QED
            BY <2>1, <3>1, <3>2, <3>3
    <2> QED
        BY <1>1, <2>2, <2>3
<1> QED
    BY <1>1, <1>2, <1>3, <1>4, <1>5

\* When a loop is next, the interpreter is at it.
LEMMA LoopHere ==
    ASSUME NEW f, NEW a, NEW at, Playing(f, a, at), NEW k, NEW p, NEW s, Following(f, a, at, k, p, s),
           work # <<>>, NEW w, w = Head(work), w.kind = "loop"
    PROVE  /\ f \in Flows /\ a \in Apps /\ Simple(f) /\ app = a /\ LoopPlace(f, s) /\ w.passes = p /\ p \in Nat
           /\ (k = s /\ p = 0) \/ k = Return(f, s)
           /\ w.first \in DOMAIN trace /\ trace[w.first].rep.id # 0 /\ IsFirst(w.first) /\ w.body = Body(w.first)
           /\ trace[w.first].rep.until = At(f, s).node.until /\ trace[w.first].rep.max = At(f, s).node.max
           /\ active = At(f, s).surface /\ (~f.multi => active = Main)
           /\ Comes(f, a, k, p, screen, active, captures, done)
           /\ \A x \in StepPlaces(f) : SameLoop(at[x], w.first) <=> At(f, x).loop = s
           /\ \A x \in StepPlaces(f) : Due(at, x) => At(f, x).loop # s /\ x >= End(f, s)
           /\ \A x \in StepPlaces(f) : x >= End(f, s) => Due(at, x)
<1>1. IsSeq(work) /\ f \in Flows /\ a \in Apps /\ Simple(f) /\ Told(f, at) /\ IsSeq(trace) /\ app = a
    BY DEF Playing, WorkShape
<1>2. Head(work) = work[1] /\ 1 \in DOMAIN work /\ DOMAIN work \subseteq Nat \ {0}
    BY <1>1, HeadOfWork DEF IsSeq
<1>3. s # 0
    BY <1>2 DEF Following, Passing
<1>4. LoopPlace(f, s) /\ (IF p = 0 THEN k = s ELSE InPass(f, k, s)) /\ p \in Nat
    BY <1>3 DEF Following, Passing, There
<1>5. PICK b \in DOMAIN work : /\ work[b].kind = "loop" /\ work[b].passes = p
                               /\ \E x \in StepPlaces(f) : At(f, x).loop = s /\ SameLoop(at[x], work[b].first)
    BY <1>3 DEF Following, Passing
<1>6. b = 1
    BY <1>2, <1>5 DEF Playing, WorkShape, LoopAlone
<1>7. PICK o \in StepPlaces(f) : At(f, o).loop = s /\ SameLoop(at[o], w.first)
    BY <1>2, <1>5, <1>6
<1>8. w.passes = p
    BY <1>2, <1>5, <1>6
<1>9. /\ w.first \in DOMAIN trace /\ IsFirst(w.first) /\ w.body = Body(w.first)
    BY <1>2 DEF Playing, WorkShape, WorkEntry, WorkWhole, LoopsWhole
<1>10. /\ trace[w.first].rep.until = At(f, s).node.until /\ trace[w.first].rep.max = At(f, s).node.max
       /\ trace[at[o]].rep.id # 0
    BY <1>1, <1>3, <1>7, <1>9 DEF Told, Leaves1
<1>11. trace[w.first].rep.id # 0
    BY <1>7, <1>10 DEF SameLoop
<1>12. \A x \in StepPlaces(f) : SameLoop(at[x], w.first) <=> At(f, x).loop = s
    <2>1. \A x \in StepPlaces(f) : SameLoop(at[x], at[o]) <=> At(f, x).loop = s
        BY <1>1, <1>7 DEF Told, Pairs
    <2> QED
        BY <1>7, <2>1 DEF SameLoop
<1>13. ASSUME NEW x \in StepPlaces(f), Due(at, x) PROVE At(f, x).loop # s
    <2>1. PICK c \in DOMAIN work : work[c].kind = "step" /\ work[c].index = at[x]
        BY <1>13 DEF Due, Comes1
    <2>2. c # 1 /\ c > 1
        BY <1>2, <2>1
    <2>3. LoopOf(work[c]) # LoopOf(work[1])
        BY <1>2, <2>2 DEF Playing, WorkShape, LoopAlone
    <2> QED
        BY <1>2, <1>12, <2>1, <2>3 DEF LoopOf, SameLoop
<1>14. (k = s /\ p = 0) \/ k = Return(f, s)
    <2> SUFFICES ASSUME p # 0, k # Return(f, s) PROVE FALSE
        BY <1>4
    <2>1. /\ s \in Nat \ {0} /\ Return(f, s) \in Nat
          /\ \A x \in (s + 1)..(Return(f, s) - 1) : x \in Places(f) /\ At(f, x).loop = s /\ At(f, x).back = 0
        BY <1>1, <1>4, LoopPlaces
    <2>2. k \in (s + 1)..(Return(f, s) - 1)
        BY <1>3, <1>4, <2>1 DEF InPass
    <2>3. Fresh(f, k) /\ At(f, k).loop = s /\ k \in Nat \ {0}
        BY <2>1, <2>2 DEF Fresh
    <2>4. PICK y \in StepPlaces(f) : k <= y /\ Chain(f, k, y)
        BY <1>1, <2>3, Descends
    <2>5. y \in Places(f) /\ y \in Nat /\ At(f, y).node.kind = "step"
        BY DEF StepPlaces, Places
    <2>6. In(s, At(f, k))
        BY <2>3 DEF In
    <2>7. In(s, At(f, y))
        BY <1>1, <2>1, <2>3, <2>4, <2>5, <2>6, ChainIn
    <2>8. At(f, y).loop = s
        <3>1. At(f, y).loop = s \/ At(f, y).back = s
            BY <1>1, <1>4, <2>5, <2>7, LineKnown, InLoop
        <3>2. At(f, y).back = s => y = Return(f, s) /\ At(f, Return(f, s)).node.kind = "repeat"
            BY <1>1, <1>4, <2>5, LoopPlaces
        <3> QED
            BY <2>5, <3>1, <3>2
    <2>9. Due(at, y)
        BY <2>4 DEF Following, Coming
    <2> QED
        BY <1>13, <2>8, <2>9
<1>15. /\ At(f, k).surface = At(f, s).surface /\ k \in Places(f) /\ At(f, k).node.kind # "in"
    BY <1>1, <1>4, <1>14, LoopPlaces
<1>16. active = At(f, s).surface /\ (~f.multi => active = Main) /\ Comes(f, a, k, p, screen, active, captures, done)
    BY <1>15 DEF Following, There
<1>17. ASSUME NEW x \in StepPlaces(f)
       PROVE  (Due(at, x) => x >= End(f, s)) /\ (x >= End(f, s) => Due(at, x))
    <2>1. /\ x \in Nat /\ s \in Nat \ {0} /\ Return(f, s) \in Nat /\ End(f, s) = Return(f, s) + 1 /\ s < Return(f, s)
          /\ At(f, x).loop = s => s < x /\ x < Return(f, s)
          /\ x >= s /\ At(f, x).loop # s => x >= End(f, s)
        BY <1>1, <1>4, BehindLoop
    <2>2. Due(at, x) => x >= k \/ Off(f, at, x, s)
        BY DEF Following, Coming
    <2>3. Due(at, x) => x >= End(f, s)
        BY <1>13, <1>14, <2>1, <2>2 DEF Off
    <2>4. ASSUME x >= End(f, s) PROVE Due(at, x)
        <3>1. x >= k /\ At(f, x).loop # s
            BY <1>14, <2>1, <2>4
        <3> QED
            BY <3>1 DEF Following, Coming
    <2> QED
        BY <2>3, <2>4
<1> QED
    BY <1>1, <1>4, <1>8, <1>9, <1>10, <1>11, <1>12, <1>13, <1>14, <1>16, <1>17

\* A loop that is over is over for the interpreter.
LEMMA SettleFollows ==
    ASSUME NEW f, NEW a, NEW at, Playing(f, a, at), NEW k, NEW p, NEW s, Following(f, a, at, k, p, s), SettleLoop
    PROVE  Following(f, a, at, End(f, s), 0, 0)'
<1>1. /\ work # <<>> /\ Head(work).kind = "loop" /\ work' = Tail(work) /\ ~ready
      /\ screen[active] \in app.shows[trace[Head(work).first].rep.until]
      /\ UNCHANGED <<trace, verdicts, screen, active, captures, done, ready>>
    BY DEF SettleLoop, ReadsLoop, NextIsLoop, Now, LoopHolds, Reads, page, recording
<1>2. /\ f \in Flows /\ a \in Apps /\ Simple(f) /\ app = a /\ LoopPlace(f, s) /\ p \in Nat
      /\ (k = s /\ p = 0) \/ k = Return(f, s)
      /\ trace[Head(work).first].rep.until = At(f, s).node.until
      /\ active = At(f, s).surface /\ (~f.multi => active = Main)
      /\ Comes(f, a, k, p, screen, active, captures, done)
      /\ \A x \in StepPlaces(f) : Due(at, x) => At(f, x).loop # s /\ x >= End(f, s)
      /\ \A x \in StepPlaces(f) : x >= End(f, s) => Due(at, x)
    BY <1>1, LoopHere
<1>3. /\ Len(work) \in Nat \ {0} /\ DOMAIN work = 1..Len(work) /\ DOMAIN work' = 1..(Len(work) - 1)
      /\ \A c \in DOMAIN work' : work'[c] = work[c + 1]
      /\ Head(work) = work[1]
    <2>1. IsSeq(work)
        BY DEF Playing, WorkShape
    <2> QED
        BY <1>1, <2>1, TailIsSeq
<1>4. /\ s \in Nat \ {0} /\ Return(f, s) \in Nat /\ End(f, s) = Return(f, s) + 1 /\ s < Return(f, s) /\ End(f, s) \in 1..Limit
      /\ s \in Places(f) /\ At(f, s).node.kind = "repeat" /\ At(f, s).loop = 0 /\ At(f, s).back = 0
    BY <1>2, LoopPlaces
<1>5. Reading[f][End(f, s)] = Tail(Reading[f][s])
    BY <1>2, EndFacts DEF BlockPlace
<1>6. Comes(f, a, End(f, s), 0, screen, active, captures, done)
    <2>1. screen[active] \in a.shows[At(f, s).node.until]
        BY <1>1, <1>2
    <2> QED
        BY <1>2, <2>1, ComesLoop
<1>7. There(f, a, End(f, s), 0)'
    <2>1. End(f, s) \in Places(f) /\ At(f, End(f, s)).node.kind # "in" => active = At(f, End(f, s)).surface
        BY <1>2, <1>4, <1>5, SurfaceNext
    <2> QED
        BY <1>1, <1>2, <1>4, <1>6, <2>1 DEF There
<1>8. Passing(f, at, End(f, s), 0, 0)'
    <2>1. End(f, s) \in Places(f) => At(f, End(f, s)).loop = 0 /\ At(f, End(f, s)).back = 0
        BY <1>2, <1>4, <1>5, FreeFollows
    <2>2. ASSUME NEW c \in DOMAIN work' PROVE work'[c].kind # "loop"
        <3>1. c + 1 \in DOMAIN work /\ c + 1 # 1 /\ 1 \in DOMAIN work /\ work'[c] = work[c + 1]
            BY <1>3
        <3> QED
            BY <1>1, <1>3, <3>1 DEF Playing, WorkShape, LoopAlone
    <2> QED
        BY <2>1, <2>2 DEF Passing, InPass
<1>9. Coming(f, at, End(f, s), 0, 0)'
    <2> SUFFICES ASSUME NEW x \in StepPlaces(f)
                 PROVE  /\ x >= End(f, s) => Due(at, x)'
                        /\ Due(at, x)' => x >= End(f, s)
        BY DEF Coming
    <2>1. ASSUME x >= End(f, s) PROVE Due(at, x)'
        <3>1. PICK c \in DOMAIN work : work[c].kind = "step" /\ work[c].index = at[x]
            BY <1>2, <2>1 DEF Due, Comes1
        <3>2. c # 1
            BY <1>1, <1>3, <3>1
        <3>3. c - 1 \in DOMAIN work' /\ (c - 1) + 1 = c
            BY <1>3, <3>2
        <3>4. \E b \in DOMAIN work' : work'[b].kind = "step" /\ work'[b].index = at[x]
            BY <1>3, <3>1, <3>3
        <3> QED
            BY <3>4 DEF Due, Comes1
    <2>2. ASSUME Due(at, x)' PROVE x >= End(f, s)
        <3>1. PICK c \in DOMAIN work' : work'[c].kind = "step" /\ work'[c].index = at[x]
            BY <2>2 DEF Due, Comes1
        <3>2. c + 1 \in DOMAIN work /\ work'[c] = work[c + 1]
            BY <1>3
        <3>3. Due(at, x)
            BY <3>1, <3>2 DEF Due, Comes1
        <3> QED
            BY <1>2, <3>3
    <2> QED
        BY <2>1, <2>2
<1>10. Guarding(f, at, End(f, s))'
    <2> SUFFICES ASSUME NEW x \in StepPlaces(f), x >= End(f, s), NEW r \in DOMAIN At(f, x).under
                 PROVE  /\ Known(at, x, r)' <=> At(f, x).under[r] < End(f, s)
                        /\ Known(at, x, r)' => verdicts'[GuardAt(at, x, r)']
        BY DEF Guarding
    <2>1. x \in Nat /\ At(f, x).under[r] \in Nat /\ (At(f, x).under[r] < s \/ At(f, x).under[r] >= End(f, s))
        BY <1>2, BehindLoop
    <2>2. x >= k
        BY <1>2, <1>4, <2>1
    <2>3. /\ Known(at, x, r) <=> At(f, x).under[r] < k
          /\ Known(at, x, r) => verdicts[GuardAt(at, x, r)]
        BY <2>2 DEF Following, Guarding
    <2>4. At(f, x).under[r] < k <=> At(f, x).under[r] < End(f, s)
        BY <1>2, <1>4, <2>1
    <2>5. (Known(at, x, r)' <=> Known(at, x, r)) /\ GuardAt(at, x, r)' = GuardAt(at, x, r)
        BY <1>1 DEF Known, GuardAt
    <2> QED
        BY <1>1, <2>3, <2>4, <2>5
<1>11. Facing1(f, at, End(f, s))'
    BY <1>1 DEF Facing1
<1> QED
    BY <1>7, <1>8, <1>9, <1>10, <1>11 DEF Following

\* A loop that is given up is given up by the interpreter.
LEMMA ExhaustFails ==
    ASSUME NEW f, NEW a, NEW at, Playing(f, a, at), NEW k, NEW p, NEW s, Following(f, a, at, k, p, s), ExhaustLoop
    PROVE  ~Meaning[f][a].ok /\ Meaning[f][a].deeds = done
<1>1. /\ work # <<>> /\ Head(work).kind = "loop"
      /\ screen[active] \notin app.shows[trace[Head(work).first].rep.until]
      /\ Head(work).passes >= trace[Head(work).first].rep.max
    BY DEF ExhaustLoop, ReadsLoop, NextIsLoop, Now, LoopHolds, Reads
<1>2. /\ f \in Flows /\ a \in Apps /\ Simple(f) /\ app = a /\ LoopPlace(f, s) /\ p \in Nat /\ Head(work).passes = p
      /\ (k = s /\ p = 0) \/ k = Return(f, s)
      /\ trace[Head(work).first].rep.until = At(f, s).node.until
      /\ trace[Head(work).first].rep.max = At(f, s).node.max
      /\ Comes(f, a, k, p, screen, active, captures, done)
    BY <1>1, LoopHere
<1>3. screen[active] \notin a.shows[At(f, s).node.until] /\ p >= At(f, s).node.max
    BY <1>1, <1>2
<1> QED
    BY <1>2, <1>3, ComesLoop

\* The guards of the body of a loop of the worklist.
BodyGuards(w) == UNION {{trace[w.body[j]].guards[g].id : g \in DOMAIN trace[w.body[j]].guards} : j \in DOMAIN w.body}

\* A loop that takes another pass takes one with the interpreter.
LEMMA RepeatFollows ==
    ASSUME NEW f, NEW a, NEW at, Playing(f, a, at), NEW k, NEW p, NEW s, Following(f, a, at, k, p, s), RepeatLoop
    PROVE  Following(f, a, at, s + 1, p + 1, s)'
<1>0. PICK w : w = Head(work)
    OBVIOUS
<1> DEFINE guards == BodyGuards(w)
<1>1a. verdicts' = [g \in DOMAIN verdicts \ BodyGuards(Head(work)) |-> verdicts[g]]
    BY Zenon DEF RepeatLoop, BodyGuards
<1>1b. work # <<>> /\ Head(work).kind = "loop"
    BY Zenon DEF RepeatLoop, ReadsLoop, NextIsLoop, Now
<1>1c. /\ ~ready /\ screen[active] \notin app.shows[trace[Head(work).first].rep.until]
       /\ Head(work).passes < trace[Head(work).first].rep.max
       /\ UNCHANGED <<trace, screen, active, captures, done, ready>>
    BY Zenon DEF RepeatLoop, ReadsLoop, NextIsLoop, Now, LoopHolds, Reads, page, recording
<1>1d. PassPlaced(Head(work))
    <2>1. work' = [j \in DOMAIN Head(work).body |-> StepAt(Head(work).body[j], Head(work).passes + 1)]
                        \o <<LoopAt(Head(work).first, Head(work).body, Head(work).passes + 1)>> \o Tail(work)
        BY Zenon DEF RepeatLoop
    <2> QED
        BY <1>1b, <2>1, RepeatPlaces, Zenon DEF Playing
<1>1. /\ work # <<>> /\ w.kind = "loop" /\ ~ready
      /\ screen[active] \notin app.shows[trace[w.first].rep.until]
      /\ w.passes < trace[w.first].rep.max
      /\ verdicts' = [g \in DOMAIN verdicts \ guards |-> verdicts[g]]
      /\ UNCHANGED <<trace, screen, active, captures, done, ready>>
    BY <1>0, <1>1a, <1>1b, <1>1c
<1>2. /\ f \in Flows /\ a \in Apps /\ Simple(f) /\ app = a /\ LoopPlace(f, s) /\ p \in Nat /\ w.passes = p
      /\ (k = s /\ p = 0) \/ k = Return(f, s)
      /\ w.first \in DOMAIN trace /\ trace[w.first].rep.id # 0 /\ IsFirst(w.first) /\ w.body = Body(w.first)
      /\ trace[w.first].rep.until = At(f, s).node.until
      /\ trace[w.first].rep.max = At(f, s).node.max
      /\ active = At(f, s).surface /\ (~f.multi => active = Main)
      /\ Comes(f, a, k, p, screen, active, captures, done)
      /\ \A x \in StepPlaces(f) : SameLoop(at[x], w.first) <=> At(f, x).loop = s
      /\ \A x \in StepPlaces(f) : Due(at, x) => At(f, x).loop # s /\ x >= End(f, s)
      /\ \A x \in StepPlaces(f) : x >= End(f, s) => Due(at, x)
    BY <1>0, <1>1b, LoopHere
<1>3. PassPlaced(w)
    BY <1>0, <1>1d
<1>4. /\ Len(work) \in Nat \ {0} /\ DOMAIN work = 1..Len(work)
      /\ Len(w.body) \in Nat /\ DOMAIN w.body = 1..Len(w.body)
      /\ DOMAIN work' = 1..(Len(w.body) + Len(work))
      /\ \A j \in 1..Len(w.body) : work'[j] = StepAt(w.body[j], w.passes + 1)
      /\ work'[Len(w.body) + 1] = LoopAt(w.first, w.body, w.passes + 1)
      /\ \A j \in 2..Len(work) : work'[j + Len(w.body)] = work[j]
      /\ w = work[1]
    BY <1>0, <1>1, <1>3, HeadOfWork DEF PassPlaced, Playing, WorkShape
<1>5. /\ s \in Nat \ {0} /\ Return(f, s) \in Nat /\ End(f, s) = Return(f, s) + 1 /\ s < Return(f, s) /\ End(f, s) \in 1..Limit
      /\ s \in Places(f) /\ At(f, s).node.kind = "repeat" /\ At(f, s).loop = 0 /\ At(f, s).back = 0
    BY <1>2, LoopPlaces
\* The body is the steps of the loop.
<1>6. ToSet(w.body) = {at[x] : x \in {y \in StepPlaces(f) : SameLoop(at[y], w.first)}}
    BY <1>2 DEF Playing, Told, Covered
<1>7. \A x \in StepPlaces(f) : at[x] \in ToSet(w.body) <=> At(f, x).loop = s
    <2>1. \A x, y \in StepPlaces(f) : at[x] = at[y] => x = y
        BY StepsApart
    <2> QED
        BY <1>2, <1>6, <2>1
<1>8. \A j \in DOMAIN w.body : \E y \in StepPlaces(f) : at[y] = w.body[j] /\ At(f, y).loop = s
    <2>1. \A j \in DOMAIN w.body : w.body[j] \in ToSet(w.body)
        BY DEF ToSet
    <2> QED
        BY <1>2, <1>6, <2>1
<1> HIDE DEF guards
<1>9. There(f, a, s + 1, p + 1)'
    <2>1. Comes(f, a, s + 1, p + 1, screen, active, captures, done)
        <3>1. screen[active] \notin a.shows[At(f, s).node.until] /\ p < At(f, s).node.max
            BY <1>1, <1>2
        <3> QED
            BY <1>2, <3>1, ComesLoop
    <2>2. At(f, s + 1).surface = At(f, s).surface
        BY <1>2, <1>5, FirstChild DEF LoopPlace, SurfaceIn
    <2>3. s + 1 \in 1..Limit /\ p + 1 \in Nat
        BY <1>2, <1>5, LineKnown
    <2> QED
        BY <1>1, <1>2, <2>1, <2>2, <2>3 DEF There
<1>10. Passing(f, at, s + 1, p + 1, s)'
    <2>1. InPass(f, s + 1, s) /\ p + 1 # 0 /\ s # 0
        BY <1>2, <1>5 DEF InPass
    <2>2. Len(w.body) + 1 \in DOMAIN work'
        BY <1>4
    <2>3. /\ work'[Len(w.body) + 1].kind = "loop" /\ work'[Len(w.body) + 1].passes = p + 1
          /\ work'[Len(w.body) + 1].first = w.first
        BY <1>2, <1>4 DEF LoopAt
    <2>4. PICK o \in StepPlaces(f) : At(f, o).loop = s /\ SameLoop(at[o], w.first)
        <3>1. PICK y \in StepPlaces(f) : SameLoop(at[y], w.first)
            BY <1>2 DEF Playing, Told, Covered
        <3> QED
            BY <1>2, <3>1
    <2>5. SameLoop(at[o], work[Len(w.body) + 1].first)'
        <3>1. SameLoop(at[o], w.first) /\ trace' = trace
            BY <1>1, <2>4
        <3> QED
            BY <2>3, <3>1 DEF SameLoop
    <2>6. \E b \in DOMAIN work' :
               /\ work'[b].kind = "loop" /\ work'[b].passes = p + 1 /\ (p + 1 = 0 => b = 1)
               /\ \E x \in StepPlaces(f) : At(f, x).loop = s /\ SameLoop(at[x], work[b].first)'
        BY <2>1, <2>2, <2>3, <2>4, <2>5
    <2> QED
        BY <1>2, <2>1, <2>6 DEF Passing
<1>11. Coming(f, at, s + 1, p + 1, s)'
    <2> SUFFICES ASSUME NEW x \in StepPlaces(f)
                 PROVE  /\ x >= s + 1 => Due(at, x)'
                        /\ Due(at, x)' => x >= s + 1
        BY DEF Coming
    <2>0. /\ x \in Nat
          /\ At(f, x).loop = s => s < x /\ x < Return(f, s)
          /\ x >= s /\ At(f, x).loop # s => x >= End(f, s)
        BY <1>2, BehindLoop
    <2>1. ASSUME At(f, x).loop = s PROVE Due(at, x)'
        <3>1. PICK j \in DOMAIN w.body : w.body[j] = at[x]
            BY <1>7, <2>1 DEF ToSet
        <3>2. j \in DOMAIN work' /\ work'[j] = StepAt(w.body[j], w.passes + 1)
            BY <1>4, <3>1
        <3>3. work'[j].kind = "step" /\ work'[j].index = at[x]
            BY <3>1, <3>2 DEF StepAt
        <3> QED
            BY <3>2, <3>3 DEF Due, Comes1
    <2>2. ASSUME x >= s + 1, At(f, x).loop # s PROVE Due(at, x)'
        <3>1. Due(at, x)
            BY <1>2, <1>5, <2>0, <2>2
        <3>2. PICK c \in DOMAIN work : work[c].kind = "step" /\ work[c].index = at[x]
            BY <3>1 DEF Due, Comes1
        <3>3. c \in 2..Len(work)
            <4>1. work[1].kind = "loop"
                BY <1>1, <1>4
            <4> QED
                BY <1>4, <3>2, <4>1
        <3>4. c + Len(w.body) \in DOMAIN work' /\ work'[c + Len(w.body)] = work[c]
            BY <1>4, <3>3
        <3>5. \E b \in DOMAIN work' : work'[b].kind = "step" /\ work'[b].index = at[x]
            BY <3>2, <3>4
        <3> QED
            BY <3>5 DEF Due, Comes1
    <2>3. ASSUME Due(at, x)' PROVE x >= s + 1
        <3>1. PICK c \in DOMAIN work' : work'[c].kind = "step" /\ work'[c].index = at[x]
            BY <2>3 DEF Due, Comes1
        <3>2. CASE c \in 1..Len(w.body)
            <4>0. work'[c] = StepAt(w.body[c], w.passes + 1) /\ c \in DOMAIN w.body
                BY <1>4, <3>2
            <4>1. w.body[c] = at[x] /\ c \in DOMAIN w.body
                BY <3>1, <4>0 DEF StepAt
            <4>2. at[x] \in ToSet(w.body)
                BY <4>1 DEF ToSet
            <4> QED
                BY <1>5, <1>7, <2>0, <4>2
        <3>3. CASE c = Len(w.body) + 1
            BY <1>4, <3>1, <3>3 DEF LoopAt
        <3>4. CASE c \notin 1..Len(w.body) /\ c # Len(w.body) + 1
            <4>1. c - Len(w.body) \in 2..Len(work) /\ (c - Len(w.body)) + Len(w.body) = c
                BY <1>4, <3>4
            <4>2. work'[c] = work[c - Len(w.body)] /\ c - Len(w.body) \in DOMAIN work
                BY <1>4, <4>1
            <4>3. Due(at, x)
                BY <3>1, <4>2 DEF Due, Comes1
            <4> QED
                BY <1>2, <1>5, <2>0, <4>3
        <3> QED
            BY <3>2, <3>3, <3>4
    <2> QED
        BY <2>1, <2>2, <2>3
<1>12. Guarding(f, at, s + 1)'
    <2> SUFFICES ASSUME NEW x \in StepPlaces(f), x >= s + 1, NEW r \in DOMAIN At(f, x).under
                 PROVE  /\ Known(at, x, r)' <=> At(f, x).under[r] < s + 1
                        /\ Known(at, x, r)' => verdicts'[GuardAt(at, x, r)']
        BY DEF Guarding
    <2>1. /\ x \in Nat /\ At(f, x).under[r] \in Nat
          /\ At(f, At(f, x).under[r]).loop = At(f, x).loop /\ At(f, x).loop < At(f, x).under[r]
          /\ x >= End(f, s) => At(f, x).under[r] < s \/ At(f, x).under[r] >= End(f, s)
          /\ At(f, x).loop = s => s < x /\ x < Return(f, s)
          /\ x >= s /\ At(f, x).loop # s => x >= End(f, s)
        BY <1>2, BehindLoop
    <2>2. GuardAt(at, x, r)' = GuardAt(at, x, r) /\ GuardAt(at, x, r) = trace[at[x]].guards[r].id
        BY <1>1 DEF GuardAt
    <2>3. Known(at, x, r)' <=> Known(at, x, r) /\ GuardAt(at, x, r) \notin guards
        BY <1>1, <2>2 DEF Known
    <2>4. DOMAIN trace[at[x]].guards = DOMAIN At(f, x).under
        BY DEF Playing, Told, Leaves1
    <2>5. CASE At(f, x).loop = s
        <3>1. PICK j \in DOMAIN w.body : w.body[j] = at[x]
            BY <1>7, <2>5 DEF ToSet
        <3>2. GuardAt(at, x, r) \in guards
            <4>1. r \in DOMAIN trace[w.body[j]].guards /\ GuardAt(at, x, r) = trace[w.body[j]].guards[r].id
                BY <2>2, <2>4, <3>1
            <4>2. GuardAt(at, x, r) \in {trace[w.body[j]].guards[g].id : g \in DOMAIN trace[w.body[j]].guards}
                BY <4>1
            <4> QED
                BY <3>1, <4>2 DEF guards, BodyGuards
        <3>3. ~(At(f, x).under[r] < s + 1)
            BY <1>5, <2>1, <2>5
        <3> QED
            BY <2>3, <3>2, <3>3
    <2>6. CASE At(f, x).loop # s
        <3>1. GuardAt(at, x, r) \notin guards
            <4> SUFFICES ASSUME GuardAt(at, x, r) \in guards PROVE FALSE
                OBVIOUS
            <4>1. PICK j \in DOMAIN w.body : \E g \in DOMAIN trace[w.body[j]].guards : GuardAt(at, x, r) = trace[w.body[j]].guards[g].id
                BY DEF guards, BodyGuards
            <4>2. PICK g \in DOMAIN trace[w.body[j]].guards : GuardAt(at, x, r) = trace[w.body[j]].guards[g].id
                BY <4>1
            <4>3. PICK y \in StepPlaces(f) : at[y] = w.body[j] /\ At(f, y).loop = s
                BY <1>8
            <4>4. g \in DOMAIN At(f, y).under
                BY <4>2, <4>3 DEF Playing, Told, Leaves1
            <4>5. GuardAt(at, x, r) = GuardAt(at, y, g)
                BY <4>2, <4>3 DEF GuardAt
            <4>6. At(f, x).under[r] = At(f, y).under[g]
                BY <4>4, <4>5 DEF Playing, Told, Pairs
            <4>7. At(f, At(f, y).under[g]).loop = At(f, y).loop
                BY <1>2, <4>4, BehindLoop
            <4> QED
                BY <2>1, <2>6, <4>3, <4>6, <4>7
        <3>2. x >= End(f, s) /\ x >= k
            BY <1>2, <1>5, <2>1, <2>6
        <3>3. /\ Known(at, x, r) <=> At(f, x).under[r] < k
              /\ Known(at, x, r) => verdicts[GuardAt(at, x, r)]
            BY <3>2 DEF Following, Guarding
        <3>4. At(f, x).under[r] < k <=> At(f, x).under[r] < s + 1
            BY <1>2, <1>5, <2>1, <3>2
        <3>5. Known(at, x, r) => verdicts'[GuardAt(at, x, r)] = verdicts[GuardAt(at, x, r)]
            BY <1>1, <3>1 DEF Known
        <3> QED
            BY <2>2, <2>3, <3>1, <3>3, <3>4, <3>5
    <2> QED
        BY <2>5, <2>6
<1>13. Facing1(f, at, s + 1)'
    BY <1>1 DEF Facing1
<1> QED
    BY <1>9, <1>10, <1>11, <1>12, <1>13 DEF Following

\* When replay has come to the end, so has the interpreter.
LEMMA EndFollows ==
    ASSUME NEW f, NEW a, NEW at, Playing(f, a, at), NEW k, NEW p, NEW s, Following(f, a, at, k, p, s), work = <<>>
    PROVE  Meaning[f][a].ok /\ Meaning[f][a].deeds = done
<1>1. f \in Flows /\ a \in Apps /\ Simple(f)
    BY DEF Playing
<1>2. DOMAIN work = {}
    BY ShortIsSeq
<1>3. s = 0 /\ p = 0 /\ InPass(f, k, 0)
    BY <1>2 DEF Following, Passing
<1>4. k \in 1..Limit /\ k \in Nat \ {0}
    BY LimitAssumption DEF Following, There
<1>5. k \notin Places(f)
    <2> SUFFICES ASSUME k \in Places(f) PROVE FALSE
        OBVIOUS
    <2>1. Fresh(f, k)
        BY <1>3 DEF InPass, Fresh
    <2>2. PICK y \in StepPlaces(f) : k <= y
        BY <1>1, <2>1, Descends
    <2>3. Due(at, y)
        BY <1>3, <2>2 DEF Following, Coming
    <2> QED
        BY <1>2, <2>3 DEF Due, Comes1
<1>6. Reading[f][k] = <<>>
    BY <1>4, <1>5 DEF Places
<1>7. PICK on : Comes(f, a, k, p, screen, on, captures, done)
    BY DEF Following, There
<1> QED
    BY <1>1, <1>6, <1>7, ComesLast

\* Replay starts where the interpreter does.
LEMMA StartFollows ==
    ASSUME NEW f \in Flows, f = flow, f = flow', NEW a \in Apps, a = app', Simple(f), NEW at, Told(f, at), IsSeq(trace),
           StartReplay, ~partial', verdicts = <<>>, done = <<>>, ~ready
    PROVE  Following(f, a, at, 1, 0, 0)'
<1>1. /\ screen' = a.start /\ active' = IF f.multi THEN NoSurface ELSE Main
      /\ captures' = <<>> /\ work' = [i \in DOMAIN trace |-> StepAt(i, 1)]
      /\ trace' = trace /\ verdicts' = <<>> /\ done' = <<>> /\ ~ready'
    BY DEF StartReplay, recording
<1>2. Limit \in Nat \ {0} /\ 1 \in 1..Limit
    BY LimitAssumption
<1>3. 1 \in Places(f) /\ At(f, 1).loop = 0 /\ At(f, 1).back = 0 /\ At(f, 1).surface = Main
      /\ (At(f, 1).node.kind # "in" => ~f.multi)
    <2>1. Reading[f][1] = [i \in DOMAIN f.steps |-> Line(f.steps[i], <<>>, 0, Main)]
        BY ReadingSteps
    <2>2. f.steps \in Seq(Nodes) /\ f.steps # <<>>
        BY NodesAssumption, SurfacesAssumption
    <2>3. 1 \in DOMAIN f.steps /\ DOMAIN f.steps = 1..Len(f.steps) /\ Len(f.steps) \in Nat \ {0}
        BY <2>2
    <2>4. Reading[f][1] # <<>> /\ At(f, 1) = Line(f.steps[1], <<>>, 0, Main)
        <3>1. IsSeq(Reading[f][1]) /\ Len(Reading[f][1]) = Len(f.steps)
            BY <2>1, <2>3, FunIsSeq
        <3>2. Reading[f][1] # <<>>
            BY <2>3, <3>1
        <3>3. Head(Reading[f][1]) = Reading[f][1][1]
            BY <3>1, <3>2, TailIsSeq
        <3> QED
            BY <2>1, <2>3, <3>2, <3>3 DEF At
    <2>5. f.steps[1].kind = "in" <=> f.multi
        BY <2>3, SurfacesAssumption
    <2> QED
        BY <1>2, <2>4, <2>5, LineIs DEF Places
<1>4. There(f, a, 1, 0)'
    <2>1. Comes(f, a, 1, 0, a.start, Main, <<>>, <<>>)
        BY ComesFirst
    <2> QED
        BY <1>1, <1>2, <1>3, <2>1 DEF There
<1>5. \A b \in DOMAIN work' : b \in DOMAIN trace /\ work'[b].kind = "step" /\ work'[b].index = b
    BY <1>1 DEF StepAt
<1>6. Passing(f, at, 1, 0, 0)'
    BY <1>3, <1>5 DEF Passing, InPass
<1>7. Coming(f, at, 1, 0, 0)'
    <2> SUFFICES ASSUME NEW x \in StepPlaces(f)
                 PROVE  Due(at, x)' /\ x >= 1
        BY DEF Coming
    <2>1. at[x] \in DOMAIN work'
        BY <1>1 DEF Told, Leaves1
    <2>2. x \in 1..Limit
        BY DEF StepPlaces, Places
    <2> QED
        BY <1>2, <1>5, <2>1, <2>2 DEF Due, Comes1
<1>8. Guarding(f, at, 1)'
    <2> SUFFICES ASSUME NEW x \in StepPlaces(f), NEW r \in DOMAIN At(f, x).under
                 PROVE  ~Known(at, x, r)' /\ ~(At(f, x).under[r] < 1)
        BY DEF Guarding
    <2>1. Laid(f, x, At(f, x)) /\ x \in Nat
        BY LineKnown DEF StepPlaces, Places
    <2>2. At(f, x).under[r] \in 1..(x - 1)
        BY <2>1 DEF Laid
    <2>3. DOMAIN verdicts' = {}
        BY <1>1, ShortIsSeq
    <2> QED
        BY <2>1, <2>2, <2>3 DEF Known
<1>9. Facing1(f, at, 1)'
    BY <1>1 DEF Facing1
<1> QED
    BY <1>4, <1>6, <1>7, <1>8, <1>9 DEF Following

---------------------------------------------------------------------------
(* Replay follows the interpreter.                                         *)

\* Replay gave up on a step or on a loop.
GaveUp == \E k \in DOMAIN results : results[k].why \in {"bound", "stuck"}

\* What is known of replay on application a while the trace tells flow f.
Matched(f, a, at) ==
    /\ IsPrefix(done, Meaning[f][a].deeds)
    /\ GaveUp => ~Meaning[f][a].ok /\ done = Meaning[f][a].deeds
    /\ phase = "reported" /\ passed => Meaning[f][a].ok /\ done = Meaning[f][a].deeds
    /\ phase = "replay" /\ ~failed => ~GaveUp /\ \E k, p, s : Following(f, a, at, k, p, s)

\* Entries of other kinds are added.
LEMMA OthersAdded ==
    ASSUME IsSeq(results), NEW t, IsSeq(t), results' = results \o t, \A k \in DOMAIN t : t[k].why \notin {"bound", "stuck"}
    PROVE  GaveUp' <=> GaveUp
<1>1. /\ Len(results) \in Nat /\ Len(t) \in Nat /\ DOMAIN results' = 1..(Len(results) + Len(t))
      /\ DOMAIN results = 1..Len(results) /\ DOMAIN t = 1..Len(t)
      /\ \A k \in DOMAIN results' : results'[k] = IF k <= Len(results) THEN results[k] ELSE t[k - Len(results)]
    BY ConcatIsSeq
<1>2. ASSUME GaveUp PROVE GaveUp'
    <2>1. PICK k \in DOMAIN results : results[k].why \in {"bound", "stuck"}
        BY <1>2 DEF GaveUp
    <2>2. k \in DOMAIN results' /\ results'[k] = results[k]
        BY <1>1
    <2> QED
        BY <2>1, <2>2 DEF GaveUp
<1>3. ASSUME GaveUp' PROVE GaveUp
    <2>1. PICK k \in DOMAIN results' : results'[k].why \in {"bound", "stuck"}
        BY <1>3 DEF GaveUp
    <2>2. CASE k <= Len(results)
        BY <1>1, <2>1, <2>2 DEF GaveUp
    <2>3. CASE ~(k <= Len(results))
        <3>1. k - Len(results) \in DOMAIN t /\ results'[k] = t[k - Len(results)]
            BY <1>1, <2>3
        <3> QED
            BY <2>1, <3>1
    <2> QED
        BY <2>2, <2>3
<1> QED
    BY <1>2, <1>3

\* An entry of another kind is added.
LEMMA OtherAdded ==
    ASSUME IsSeq(results), NEW r, results' = Append(results, r), r.why \notin {"bound", "stuck"}
    PROVE  GaveUp' <=> GaveUp
<1>1. /\ DOMAIN results' = 1..(Len(results) + 1) /\ DOMAIN results = 1..Len(results) /\ Len(results) \in Nat
      /\ \A k \in DOMAIN results' : results'[k] = IF k = Len(results) + 1 THEN r ELSE results[k]
    BY AppendIsSeq
<1>2. ASSUME GaveUp PROVE GaveUp'
    <2>1. PICK k \in DOMAIN results : results[k].why \in {"bound", "stuck"}
        BY <1>2 DEF GaveUp
    <2>2. k \in DOMAIN results' /\ results'[k] = results[k]
        BY <1>1
    <2> QED
        BY <2>1, <2>2 DEF GaveUp
<1>3. ASSUME GaveUp' PROVE GaveUp
    <2>1. PICK k \in DOMAIN results' : results'[k].why \in {"bound", "stuck"}
        BY <1>3 DEF GaveUp
    <2>2. k # Len(results) + 1
        BY <1>1, <2>1
    <2> QED
        BY <1>1, <2>1, <2>2 DEF GaveUp
<1> QED
    BY <1>2, <1>3

\* Following, replay has done what the interpreter did first.
LEMMA FollowsMatched ==
    ASSUME NEW f \in Flows, NEW a \in Apps, NEW at, NEW k, NEW p, NEW s, Following(f, a, at, k, p, s)',
           phase' = "replay", ~GaveUp'
    PROVE  Matched(f, a, at)'
<1>1. PICK on : Comes(f, a, k, p, screen', on, captures', done')
    BY DEF Following, There
<1>2. IsPrefix(done', Meaning[f][a].deeds)
    BY <1>1, ComesDeeds
<1> QED
    BY <1>2 DEF Matched

\* A failed replay that does nothing more.
LEMMA FailedMatched ==
    ASSUME NEW f, NEW a, NEW at, Matched(f, a, at), failed', phase' = "replay", done' = done, GaveUp' <=> GaveUp
    PROVE  Matched(f, a, at)'
    BY DEF Matched

\* The steps of replay in a run that has not failed.
LEMMA FollowApproach ==
    ASSUME NEW f, NEW a, NEW at, Playing(f, a, at), NEW k, NEW p, NEW s, Following(f, a, at, k, p, s),
           Approach, IsSeq(results), ~GaveUp
    PROVE  Matched(f, a, at)'
<1>1. /\ work # <<>> /\ Head(work).kind = "step" /\ ~FirstOfLoop(Head(work).index) /\ phase = "replay" /\ phase' = "replay"
      /\ f \in Flows /\ a \in Apps
    BY Zenon DEF Approach, AtStep, NextIsStep, Now, Playing
<1>2. PICK x \in StepPlaces(f) : at[x] = Head(work).index
    BY <1>1, HeadPlace
<1>3. x \in Nat /\ k \in Nat
    BY DEF StepPlaces, Places, Following, There
<1>4. CASE x < k
    <2>1. /\ Following(f, a, at, k, p, s)'
          /\ \E r : r.why = "guard" /\ results' = Append(results, r)
        BY <1>2, <1>4, ApproachOff
    <2>2. ~GaveUp'
        BY <2>1, OtherAdded
    <2> QED
        BY <1>1, <2>1, <2>2, FollowsMatched
<1>5. CASE x >= k /\ \A r \in DOMAIN At(f, x).under : Verdict(trace[at[x]].guards[r], At(f, x).surface)
    <2>1. Following(f, a, at, x, p, s)' /\ results' = results
        BY <1>2, <1>5, ApproachOn
    <2>2. ~GaveUp'
        BY <2>1 DEF GaveUp
    <2> QED
        BY <1>1, <2>1, <2>2, FollowsMatched
<1>6. CASE x >= k /\ ~\A r \in DOMAIN At(f, x).under : Verdict(trace[at[x]].guards[r], At(f, x).surface)
    <2>1. /\ \E w : Following(f, a, at, End(f, w), p, s)'
          /\ \E r : r.why = "guard" /\ results' = Append(results, r)
        BY <1>2, <1>6, ApproachOut
    <2>2. ~GaveUp'
        BY <2>1, OtherAdded
    <2> QED
        BY <1>1, <2>1, <2>2, FollowsMatched
<1> QED
    BY <1>3, <1>4, <1>5, <1>6

\* The moves of a loop.
LEMMA FollowLoops ==
    ASSUME NEW f, NEW a, NEW at, Playing(f, a, at), NEW k, NEW p, NEW s, Following(f, a, at, k, p, s),
           MeetLoop \/ SettleLoop \/ RepeatLoop, IsSeq(results), TypeOK, ~GaveUp
    PROVE  Matched(f, a, at)'
<1>1. f \in Flows /\ a \in Apps
    BY DEF Playing
<1>2. phase' = "replay"
    BY Zenon DEF MeetLoop, SettleLoop, RepeatLoop, ReadsLoop, NextIsStep, NextIsLoop, Now
<1>3. CASE MeetLoop
    <2>1. \E t : Following(f, a, at, t, 0, t)'
        BY <1>3, MeetFollows
    <2>2. ~GaveUp'
        BY <1>3 DEF MeetLoop, GaveUp
    <2> QED
        BY <1>1, <1>2, <2>1, <2>2, FollowsMatched
<1>4. CASE SettleLoop
    <2>1. Following(f, a, at, End(f, s), 0, 0)'
        BY <1>4, SettleFollows
    <2>2. ~GaveUp'
        <3> DEFINE body == Head(work).body
                   held == [j \in DOMAIN body |-> Skipped(body[j], 1, "held")]
        <3>1. results' = results \/ results' = results \o held
            BY <1>4 DEF SettleLoop
        <3>2. IsSeq(body)
            <4>1. work # <<>> /\ Head(work).kind = "loop"
                BY <1>4 DEF SettleLoop, ReadsLoop, NextIsLoop, Now
            <4> QED
                BY <4>1, HeadOfWork DEF TypeOK
        <3>3. DOMAIN body = 1..Len(body) /\ Len(body) \in Nat
            BY <3>2 DEF IsSeq
        <3> HIDE DEF body
        <3>4. held = [j \in 1..Len(body) |-> held[j]] /\ \A j \in DOMAIN held : held[j].why = "held"
            BY <3>3 DEF Skipped, Result
        <3> HIDE DEF held
        <3>5. IsSeq(held)
            BY <3>3, <3>4, FunIsSeq
        <3> QED
            BY <3>1, <3>4, <3>5, OthersAdded DEF GaveUp
    <2> QED
        BY <1>1, <1>2, <2>1, <2>2, FollowsMatched
<1>5. CASE RepeatLoop
    <2>1. Following(f, a, at, s + 1, p + 1, s)'
        BY <1>5, RepeatFollows
    <2>2. ~GaveUp'
        BY <1>5, Zenon DEF RepeatLoop, GaveUp
    <2> QED
        BY <1>1, <1>2, <2>1, <2>2, FollowsMatched
<1> QED
    BY <1>3, <1>4, <1>5

\* A step is done, or replay gives up.
LEMMA FollowSteps ==
    ASSUME NEW f, NEW a, NEW at, Playing(f, a, at), NEW k, NEW p, NEW s, Following(f, a, at, k, p, s),
           Matched(f, a, at), RunStep \/ FailStep \/ ExhaustLoop, IsSeq(results), ~GaveUp, ReadyPlanned
    PROVE  Matched(f, a, at)'
<1>1. f \in Flows /\ a \in Apps
    BY DEF Playing
<1>2. phase' = "replay"
    BY DEF RunStep, FailStep, ExhaustLoop, ReadsLoop, NextIsLoop, Now, Running
<1>3. CASE RunStep
    <2>1. Following(f, a, at, k + 1, p, s)'
        BY <1>3, StepRuns DEF ReadyPlanned, RunStep, Running
    <2>2. ~GaveUp'
        <3>1. \E r : r.why \notin {"bound", "stuck"} /\ results' = Append(results, r)
            BY <1>3 DEF RunStep, Pop, Result
        <3> QED
            BY <3>1, OtherAdded
    <2> QED
        BY <1>1, <1>2, <2>1, <2>2, FollowsMatched
<1>4. CASE FailStep
    <2>1. ~Meaning[f][a].ok /\ Meaning[f][a].deeds = done
        BY <1>4, StepFails DEF FailStep, Running
    <2>2. failed' /\ done' = done
        BY <1>4 DEF FailStep
    <2> QED
        BY <1>2, <2>1, <2>2 DEF Matched
<1>5. CASE ExhaustLoop
    <2>1. ~Meaning[f][a].ok /\ Meaning[f][a].deeds = done
        BY <1>5, ExhaustFails
    <2>2. failed' /\ done' = done
        BY <1>5 DEF ExhaustLoop
    <2> QED
        BY <1>2, <2>1, <2>2 DEF Matched
<1> QED
    BY <1>3, <1>4, <1>5

\* What the trace tells stays the same as long as the trace does.
LEMMA ToldSame ==
    ASSUME NEW f, NEW at, Told(f, at)', UNCHANGED trace
    PROVE  Told(f, at)
<1>1. Leaves1(f, at)
    BY DEF Told, Leaves1, SameLoop
<1>2. Pairs(f, at)
    BY DEF Told, Pairs, SameLoop, GuardAt
<1>3. Covered(f, at)
    <2>1. \A i : Body(i)' = Body(i) /\ (IsFirst(i)' <=> IsFirst(i))
        BY DEF Body, Pass, Longest, IsFirst, SameLoop
    <2>2. \A i : {at[x] : x \in {y \in StepPlaces(f) : SameLoop(at[y], i)'}} = {at[x] : x \in {y \in StepPlaces(f) : SameLoop(at[y], i)}}
        BY DEF SameLoop
    <2>3. \A i, j : SameLoop(i, j)' <=> SameLoop(i, j)
        BY DEF SameLoop
    <2> QED
        BY <2>1, <2>2, <2>3 DEF Told, Covered
<1> QED
    BY <1>1, <1>2, <1>3 DEF Told

\* The steps of replay, failed or not.
LEMMA FollowReplay ==
    ASSUME Typed, ReportKnown, Whole, Untroubled, NEW f, NEW a, NEW at, f = flow, a = app, Simple(f), Told(f, at),
           phase = "replay", ~partial, Matched(f, a, at),
           \/ LeaveOut \/ MeetLoop \/ DropLoop \/ SettleLoop \/ ExhaustLoop \/ RepeatLoop \/ SkipAfterFailure
           \/ Approach \/ RunStep \/ FailStep
    PROVE  Matched(f, a, at)'
<1>1. TypeOK /\ IsSeq(trace) /\ IsSeq(results) /\ Written /\ f \in Flows /\ a \in Apps
    BY DEF Typed, TypeOK, ReportKnown
<1>2. WorkShape /\ WorkWhole /\ ReadyPlanned /\ LoopsTogether
    BY <1>1 DEF ReportKnown, Replaying, Whole, Written
<1>3. Playing(f, a, at)
    BY <1>1, <1>2 DEF Playing
<1>4. CASE failed
    <2>1. DropLoop \/ SkipAfterFailure \/ MeetLoop \/ LeaveOut
        BY <1>4, Zenon DEF SettleLoop, ExhaustLoop, RepeatLoop, ReadsLoop, Approach, RunStep, FailStep, Running, Untroubled
    <2>2. phase' = "replay" /\ failed' /\ done' = done
        BY <1>4, <2>1 DEF DropLoop, SkipAfterFailure, MeetLoop, LeaveOut, NextIsStep, NextIsLoop, AtStep, Now
    <2>3. GaveUp' <=> GaveUp
        <3>1. results' = results \/ \E r : r.why \notin {"bound", "stuck"} /\ results' = Append(results, r)
            BY <2>1 DEF DropLoop, SkipAfterFailure, MeetLoop, LeaveOut, Pop, Skipped, Result
        <3> QED
            BY <1>1, <3>1, OtherAdded DEF GaveUp
    <2> QED
        BY <2>2, <2>3, FailedMatched
<1>5. CASE ~failed
    <2>1. ~GaveUp /\ \E k, p, s : Following(f, a, at, k, p, s)
        BY <1>5 DEF Matched
    <2>2. PICK k, p, s : Following(f, a, at, k, p, s)
        BY <2>1
    <2>3. ~DropLoop /\ ~SkipAfterFailure
        BY <1>5 DEF DropLoop, SkipAfterFailure
    <2>4. ~LeaveOut
        <3> SUFFICES ASSUME LeaveOut PROVE FALSE
            OBVIOUS
        <3>1. work # <<>> /\ Head(work).kind = "step" /\ Head(work).index \notin DOMAIN trace
            BY <1>2 DEF LeaveOut, NextIsStep, Now, WorkWhole
        <3>2. WorkEntry(Head(work))
            BY <1>2, <3>1, HeadOfWork DEF WorkShape
        <3> QED
            BY <3>1, <3>2 DEF WorkEntry
    <2>5. CASE Approach
        BY <1>1, <1>3, <2>1, <2>2, <2>5, FollowApproach
    <2>6. CASE MeetLoop \/ SettleLoop \/ RepeatLoop
        BY <1>1, <1>3, <2>1, <2>2, <2>6, FollowLoops
    <2>7. CASE RunStep \/ FailStep \/ ExhaustLoop
        BY <1>1, <1>2, <1>3, <2>1, <2>2, <2>7, FollowSteps
    <2> QED
        BY <2>3, <2>4, <2>5, <2>6, <2>7
<1> QED
    BY <1>4, <1>5

\* The report of a run that followed the interpreter.
LEMMA FollowReport ==
    ASSUME Typed, ReportKnown, Whole, NEW f, NEW a, NEW at, f = flow, a = app, Simple(f), Told(f, at),
           phase = "replay", ~partial, Matched(f, a, at), Report
    PROVE  Matched(f, a, at)'
<1>1. TypeOK /\ IsSeq(trace) /\ IsSeq(results) /\ Written /\ f \in Flows /\ a \in Apps
    BY DEF Typed, TypeOK, ReportKnown
<1>2. WorkShape /\ WorkWhole /\ LoopsTogether
    BY <1>1 DEF ReportKnown, Replaying, Whole, Written
<1>3. Playing(f, a, at)
    BY <1>1, <1>2 DEF Playing
<1>4. PICK t : /\ IsSeq(t) /\ results' = results \o t
               /\ \A k \in DOMAIN t : t[k].index = 0 /\ t[k].status = "failed" /\ t[k].why \in {"leak", "exports"}
    BY ReportTail
<1>5. GaveUp' <=> GaveUp
    BY <1>1, <1>4, OthersAdded
<1>6. phase' = "reported" /\ done' = done /\ work = <<>> /\ (passed' => ~failed)
    BY DEF Report
<1>7. ~failed => Meaning[f][a].ok /\ Meaning[f][a].deeds = done
    <2> SUFFICES ASSUME ~failed PROVE Meaning[f][a].ok /\ Meaning[f][a].deeds = done
        OBVIOUS
    <2>1. PICK k, p, s : Following(f, a, at, k, p, s)
        BY DEF Matched
    <2> QED
        BY <1>3, <1>6, <2>1, EndFollows
<1> QED
    BY <1>5, <1>6, <1>7 DEF Matched

\* Before replay it has done nothing.
NothingDone == phase \in {"record", "refused", "stored"} => verdicts = <<>> /\ done = <<>>

\* Replay follows the interpreter, whatever trace tells the flow.
Follows ==
    phase \in {"replay", "reported"} /\ ~partial /\ app.drift = {} /\ Simple(flow) =>
        \A f, a, at : f = flow /\ a = app /\ Told(f, at) => Matched(f, a, at)

\* Only replay does anything.
LEMMA NothingDoneNext ==
    ASSUME Typed, NothingDone, [Next]_vars
    PROVE  NothingDone'
<1>1. CASE UNCHANGED <<phase, verdicts, done>>
    BY <1>1 DEF NothingDone
<1>2. CASE RecordStep /\ UNCHANGED replaying
    <2>1. phase = "record"
        BY <1>2, Zenon DEF RecordStep, TakeBranch, SkipBranch, LeaveLoop, TakePass, LoopNeverSettles, EnterSurface, Perform,
                    Abandon, Store, Pops
    <2> QED
        BY <1>2, <2>1 DEF NothingDone, replaying
<1>3. CASE BreakRecording /\ UNCHANGED replaying
    BY <1>3 DEF NothingDone, replaying, BreakRecording
<1>4. CASE ReplayStep \/ Break
    <2>1. phase' \in {"replay", "reported", "error"}
        BY <1>4, Zenon DEF ReplayStep, StartReplay, LeaveOut, MeetLoop, DropLoop, SettleLoop, ExhaustLoop, RepeatLoop, NoActiveSurface,
                SkipAfterFailure, Approach, RunStep, FailStep, Report, AtStep, NextIsStep, NextIsLoop, ReadsLoop, Running, Now, Break
    <2> QED
        BY <2>1 DEF NothingDone
<1>5. CASE Drift /\ UNCHANGED <<phase, flow, app, active, captures, leaked, recording, replaying>>
    BY <1>1, <1>5 DEF replaying
<1>6. CASE UNCHANGED vars
    BY <1>1, <1>6 DEF vars, replaying
<1> QED
    BY <1>2, <1>3, <1>4, <1>5, <1>6 DEF Next

\* Every step keeps replay with the interpreter.
LEMMA FollowsNext ==
    ASSUME Typed, ReportKnown, Whole, Untroubled, NothingDone, Follows, [Next]_vars
    PROVE  Follows'
<1> SUFFICES ASSUME phase' \in {"replay", "reported"}, ~partial', app'.drift = {}, Simple(flow'),
                    NEW f, NEW a, NEW at, f = flow', a = app', Told(f, at)'
             PROVE  Matched(f, a, at)'
    BY DEF Follows
<1>1. TypeOK /\ IsSeq(trace) /\ Written
    BY DEF Typed, TypeOK, ReportKnown
<1>2. CASE StartReplay
    <2>1. /\ f = flow /\ f \in Flows /\ a \in Apps /\ UNCHANGED trace /\ phase' = "replay" /\ results' = results
          /\ phase = "stored" /\ results = <<>> /\ ~ready /\ verdicts = <<>> /\ done = <<>>
        BY <1>1, <1>2 DEF StartReplay, recording, TypeOK, ReportKnown, Unstarted, NothingDone
    <2>2. Told(f, at)
        BY <2>1, ToldSame
    <2>3. Following(f, a, at, 1, 0, 0)'
        BY <1>1, <1>2, <2>1, <2>2, StartFollows
    <2>4. ~GaveUp'
        BY <2>1, ShortIsSeq DEF GaveUp
    <2> QED
        BY <2>1, <2>3, <2>4, FollowsMatched
<1>3. CASE /\ phase = "replay" /\ ~partial /\ UNCHANGED <<flow, app, trace>>
    <2>1. Told(f, at) /\ Simple(f) /\ f = flow /\ a = app /\ Matched(f, a, at)
        BY <1>3, ToldSame DEF Follows
    <2>2. CASE \/ LeaveOut \/ MeetLoop \/ DropLoop \/ SettleLoop \/ ExhaustLoop \/ RepeatLoop \/ SkipAfterFailure
               \/ Approach \/ RunStep \/ FailStep
        BY <1>3, <2>1, <2>2, FollowReplay
    <2>3. CASE Report
        BY <1>3, <2>1, <2>3, FollowReport
    <2>4. CASE NoActiveSurface \/ Break \/ StartReplay
        BY <1>2, <2>4 DEF NoActiveSurface, Break
    <2>5. CASE (RecordStep \/ BreakRecording) /\ UNCHANGED replaying
        BY <1>3, <2>5 DEF RecordStep, BreakRecording, TakeBranch, SkipBranch, LeaveLoop, TakePass, LoopNeverSettles,
                          EnterSurface, Perform, Abandon, Store, Pops
    <2>6. CASE Drift /\ UNCHANGED <<phase, flow, app, active, captures, leaked, recording, replaying>>
        BY <1>3, <2>6 DEF Drift
    <2>7. CASE UNCHANGED vars
        <3>1. UNCHANGED <<phase, failed, passed, results, done>> /\ (GaveUp' <=> GaveUp)
            BY <2>7 DEF vars, replaying, GaveUp
        <3>2. \A k, p, s : Following(f, a, at, k, p, s) => Following(f, a, at, k, p, s)'
            BY <2>7 DEF vars, replaying, page, recording, Following, There, Passing, Coming, Guarding, Facing1, Due, Comes1,
                        Off, Known, GuardAt, SameLoop
        <3> QED
            BY <2>1, <3>1, <3>2 DEF Matched
    <2> QED
        BY <2>2, <2>3, <2>4, <2>5, <2>6, <2>7 DEF Next, ReplayStep
<1>4. CASE phase = "reported" /\ ~StartReplay
    <2>1. UNCHANGED vars
        <3>1. ~RecordStep /\ ~BreakRecording /\ ~Break /\ ~Drift
            BY <1>4 DEF RecordStep, BreakRecording, TakeBranch, SkipBranch, LeaveLoop, TakePass, LoopNeverSettles,
                          EnterSurface, Perform, Abandon, Store, Pops, Break, Drift
        <3>2. ~ReplayStep
            BY <1>4 DEF ReplayStep, LeaveOut, MeetLoop, DropLoop, SettleLoop, ExhaustLoop, RepeatLoop, NoActiveSurface,
                SkipAfterFailure, Approach, RunStep, FailStep, Report, AtStep, NextIsStep, NextIsLoop, ReadsLoop, Running, Now
        <3> QED
            BY <3>1, <3>2 DEF Next
    <2>2. UNCHANGED <<phase, flow, app, trace, partial, failed, passed, results, done>>
        BY <2>1 DEF vars, replaying, page, recording
    <2>3. Matched(f, a, at)
        BY <1>4, <2>2, ToldSame DEF Follows
    <2> QED
        BY <1>4, <2>2, <2>3 DEF Matched, GaveUp
<1>5. CASE phase \notin {"replay", "reported"} /\ ~StartReplay
    <2>1. phase' \notin {"replay", "reported"}
        <3>1. CASE RecordStep /\ UNCHANGED replaying
            BY <3>1, Zenon DEF RecordStep, TakeBranch, SkipBranch, LeaveLoop, TakePass, LoopNeverSettles,
                          EnterSurface, Perform, Abandon, Store, Pops
        <3>2. CASE BreakRecording \/ Break
            BY <3>2 DEF BreakRecording, Break
        <3>3. ~ReplayStep
            BY <1>5, Zenon DEF ReplayStep, LeaveOut, MeetLoop, DropLoop, SettleLoop, ExhaustLoop, RepeatLoop, NoActiveSurface,
                SkipAfterFailure, Approach, RunStep, FailStep, Report, AtStep, NextIsStep, NextIsLoop, ReadsLoop, Running, Now
        <3>4. CASE Drift /\ UNCHANGED <<phase, flow, app, active, captures, leaked, recording, replaying>>
            BY <1>5, <3>4
        <3>5. CASE UNCHANGED vars
            BY <1>5, <3>5 DEF vars
        <3> QED
            BY <3>1, <3>2, <3>3, <3>4, <3>5 DEF Next
    <2> QED
        BY <2>1
<1>6. CASE phase = "replay" /\ ~StartReplay /\ ~(~partial /\ UNCHANGED <<flow, app, trace>>)
    <2>1. UNCHANGED partial /\ UNCHANGED <<flow, app, trace>>
        <3>1. ~RecordStep /\ ~BreakRecording
            BY <1>6 DEF RecordStep, BreakRecording, TakeBranch, SkipBranch, LeaveLoop, TakePass, LoopNeverSettles,
                          EnterSurface, Perform, Abandon, Store, Pops
        <3>2. CASE ReplayStep
            BY <1>6, <3>2, Zenon DEF ReplayStep, LeaveOut, MeetLoop, DropLoop, SettleLoop, ExhaustLoop, RepeatLoop, NoActiveSurface,
                SkipAfterFailure, Approach, RunStep, FailStep, Report, page, recording, replaying
        <3>3. CASE Break
            BY <3>3 DEF Break, page, recording, replaying
        <3>4. CASE Drift /\ UNCHANGED <<phase, flow, app, active, captures, leaked, recording, replaying>>
            BY <3>4 DEF recording, replaying
        <3>5. CASE UNCHANGED vars
            BY <3>5 DEF vars, page, recording, replaying
        <3> QED
            BY <3>1, <3>2, <3>3, <3>4, <3>5 DEF Next
    <2> QED
        BY <1>6, <2>1
<1> QED
    BY <1>2, <1>3, <1>4, <1>5, <1>6

---------------------------------------------------------------------------
(* The recorder, on the places of the flow.  q is a queue and t a trace; k *)
(* is the place the recorder has come to, and u says of which place each   *)
(* step of the trace is.                                                   *)

\* What an entry of the queue or of the trace takes over from the blocks around it.
Mark(e, line) == [guards |-> e.guards, rep |-> e.rep, under |-> line.under, loop |-> line.loop]
MarkOf(q, t, f, k, u, d) ==
    \/ \E m \in DOMAIN q : d = Mark(q[m], Reading[f][k][m])
    \/ \E i \in DOMAIN t : d = Mark(t[i], At(f, u[i]))

\* It carries a guard for every when: block around it, and the loop around it.
MarkSound(f, d, guards, loops) ==
    /\ IsSeq(d.guards) /\ DOMAIN d.guards = DOMAIN d.under
    /\ \A r \in DOMAIN d.under : d.guards[r].cond = At(f, d.under[r]).node.when /\ d.guards[r].id \in 1..guards
    /\ d.rep.id \in 0..loops /\ d.rep.pass \in Nat
    /\ d.rep.id = 0 <=> d.loop = 0
    /\ d.loop = 0 => d.rep = NoLoop
    /\ d.loop # 0 => d.rep.max = At(f, d.loop).node.max /\ d.rep.until = At(f, d.loop).node.until

\* Blocks have the same numbers where they are the same, in the same pass.
MarksAgree(d, e) ==
    /\ d.rep.id = e.rep.id <=> d.loop = e.loop
    /\ \A r \in DOMAIN d.under, s \in DOMAIN e.under :
          /\ d.guards[r].id = e.guards[s].id => d.under[r] = e.under[s]
          /\ d.under[r] = e.under[s] /\ d.rep.pass = e.rep.pass => d.guards[r].id = e.guards[s].id

Marked(q, t, f, k, u, guards, loops) ==
    /\ guards \in Nat /\ loops \in Nat
    /\ \A d : MarkOf(q, t, f, k, u, d) => MarkSound(f, d, guards, loops)
    /\ \A d, e : MarkOf(q, t, f, k, u, d) /\ MarkOf(q, t, f, k, u, e) => MarksAgree(d, e)

\* The queue is what is to come at place k.
Fits(e, line, on) ==
    /\ e.node = line.node
    /\ line.back = 0 => e.own = 0 /\ e.passes = 0
    /\ line.back # 0 => e.own # 0 /\ e.passes \in Nat
    /\ line.node.kind # "in" => line.surface = on
Lined(q, f, k, on) ==
    LET L == Reading[f][k]
    IN  /\ k \in 1..Limit /\ DOMAIN q = DOMAIN L
        /\ \A m \in DOMAIN L : Fits(q[m], L[m], on)

\* A loop that comes back, and what is written into its pass.
Looping(q, t, f, k, u) ==
    LET L == Reading[f][k]
    IN  \A m \in DOMAIN L : L[m].back # 0 =>
            /\ \A d : MarkOf(q, t, f, k, u, d) => (d.rep.id = q[m].own <=> d.loop = L[m].back)
            /\ \A n \in DOMAIN L : L[n].loop = L[m].back => q[n].rep.pass = q[m].passes
            /\ \A i \in DOMAIN t : At(f, u[i]).loop = L[m].back => t[i].rep.pass <= q[m].passes

\* What is written stands before place k, or is of an earlier pass.
WrittenBefore(q, t, f, k, u) ==
    LET L == Reading[f][k]
    IN  \A i \in DOMAIN t :
            \/ u[i] < k
            \/ \E m \in DOMAIN L : L[m].back # 0 /\ At(f, u[i]).loop = L[m].back /\ t[i].rep.pass < q[m].passes

\* The steps of the trace are those of the flow, in its order, but for the passes of a loop.
InTurn(a, b) == a.rep.id # 0 /\ a.rep.id = b.rep.id /\ a.rep.pass # b.rep.pass
Stepped(t, f, u) ==
    /\ IsSeq(t)
    /\ \A i \in DOMAIN t :
          /\ u[i] \in StepPlaces(f)
          /\ t[i].leaf = At(f, u[i]).node
          /\ t[i].surface = IF f.multi THEN At(f, u[i]).surface ELSE NoSurface
    /\ \A i, j \in DOMAIN t : i < j /\ ~InTurn(t[i], t[j]) => u[i] < u[j]

Recording(q, t, f, k, u, on, guards, loops) ==
    /\ Lined(q, f, k, on) /\ Looping(q, t, f, k, u) /\ WrittenBefore(q, t, f, k, u)
    /\ Marked(q, t, f, k, u, guards, loops) /\ Stepped(t, f, u)

---------------------------------------------------------------------------

\* What Mark takes.
LEMMA MarkIs ==
    ASSUME NEW e, NEW line
    PROVE  /\ Mark(e, line).guards = e.guards /\ Mark(e, line).rep = e.rep
           /\ Mark(e, line).under = line.under /\ Mark(e, line).loop = line.loop
    BY DEF Mark

\* Nothing new is taken over.
LEMMA MarkedKept ==
    ASSUME NEW q, NEW t, NEW f, NEW k, NEW u, NEW guards, NEW loops, Marked(q, t, f, k, u, guards, loops),
           NEW q2, NEW t2, NEW k2, NEW u2,
           \A d : MarkOf(q2, t2, f, k2, u2, d) => MarkOf(q, t, f, k, u, d)
    PROVE  Marked(q2, t2, f, k2, u2, guards, loops)
    BY DEF Marked

\* A mark stays sound when numbers are given.
LEMMA MarkStays ==
    ASSUME NEW f, NEW d, NEW guards \in Nat, NEW loops \in Nat, MarkSound(f, d, guards, loops),
           NEW guards2 \in Nat, NEW loops2 \in Nat, guards <= guards2, loops <= loops2
    PROVE  MarkSound(f, d, guards2, loops2)
    BY DEF MarkSound

\* One new mark is taken over.
LEMMA MarkedGrows ==
    ASSUME NEW q, NEW t, NEW f, NEW k, NEW u, NEW guards, NEW loops, Marked(q, t, f, k, u, guards, loops),
           NEW q2, NEW t2, NEW k2, NEW u2, NEW new, NEW guards2 \in Nat, NEW loops2 \in Nat,
           guards <= guards2, loops <= loops2,
           \A d : MarkOf(q2, t2, f, k2, u2, d) => MarkOf(q, t, f, k, u, d) \/ d = new,
           MarkSound(f, new, guards2, loops2), MarksAgree(new, new),
           \A d : MarkOf(q, t, f, k, u, d) => MarksAgree(new, d)
    PROVE  Marked(q2, t2, f, k2, u2, guards2, loops2)
<1>1. \A d, e : MarksAgree(d, e) => MarksAgree(e, d)
    BY DEF MarksAgree
<1>2. guards \in Nat /\ loops \in Nat
    BY DEF Marked
<1>3. ASSUME NEW d, MarkOf(q2, t2, f, k2, u2, d) PROVE MarkSound(f, d, guards2, loops2)
    <2>1. CASE MarkOf(q, t, f, k, u, d)
        <3>1. MarkSound(f, d, guards, loops)
            BY <2>1 DEF Marked
        <3> QED
            BY <1>2, <3>1, MarkStays
    <2>2. CASE d = new
        BY <2>2
    <2> QED
        BY <1>3, <2>1, <2>2
<1>4. ASSUME NEW d, NEW e, MarkOf(q2, t2, f, k2, u2, d), MarkOf(q2, t2, f, k2, u2, e) PROVE MarksAgree(d, e)
    <2>1. CASE MarkOf(q, t, f, k, u, d) /\ MarkOf(q, t, f, k, u, e)
        BY <2>1 DEF Marked
    <2>2. CASE d = new /\ MarkOf(q, t, f, k, u, e)
        BY <2>2
    <2>3. CASE e = new /\ MarkOf(q, t, f, k, u, d)
        BY <1>1, <2>3
    <2>4. CASE d = new /\ e = new
        BY <2>4
    <2> QED
        BY <1>4, <2>1, <2>2, <2>3, <2>4
<1> QED
    BY <1>3, <1>4 DEF Marked

\* The head of queue q with lines L makes way for n entries of queue r with lines M.
Gives(q, L, r, M, n) ==
    /\ DOMAIN r = DOMAIN M
    /\ \A m \in DOMAIN M : m \notin 1..n =>
          \E j \in DOMAIN L : j # 1 /\ j \in DOMAIN q /\ r[m] = q[j] /\ M[m] = L[j]
    /\ \A j \in DOMAIN L : j # 1 =>
          \E m \in DOMAIN M : m \notin 1..n /\ r[m] = q[j] /\ M[m] = L[j]

\* A head that makes way for nothing.
LEMMA GivesTail ==
    ASSUME NEW q, IsSeq(q), q # <<>>, NEW L, IsSeq(L), DOMAIN q = DOMAIN L, NEW r, r = Tail(q), NEW M, M = Tail(L)
    PROVE  Gives(q, L, r, M, 0)
<1>1. /\ IsSeq(r) /\ Len(q) \in Nat \ {0} /\ DOMAIN q = 1..Len(q) /\ DOMAIN r = 1..(Len(q) - 1)
      /\ \A m \in DOMAIN r : r[m] = q[m + 1]
    BY TailIsSeq
<1>2. L # <<>>
    <2>1. 1 \in DOMAIN L
        BY <1>1
    <2> QED
        BY <2>1
<1>3. /\ Len(L) \in Nat \ {0} /\ DOMAIN L = 1..Len(L) /\ DOMAIN M = 1..(Len(L) - 1)
      /\ \A m \in DOMAIN M : M[m] = L[m + 1]
    BY <1>2, TailIsSeq
<1>4. Len(L) = Len(q)
    BY <1>1, <1>3, SameRange
<1>5. ASSUME NEW m \in DOMAIN M PROVE m + 1 \in DOMAIN L /\ m + 1 # 1 /\ r[m] = q[m + 1] /\ M[m] = L[m + 1]
    BY <1>1, <1>3, <1>4
<1>6. ASSUME NEW j \in DOMAIN L, j # 1 PROVE j - 1 \in DOMAIN M /\ r[j - 1] = q[j] /\ M[j - 1] = L[j]
    <2>1. j - 1 \in DOMAIN M /\ (j - 1) + 1 = j
        BY <1>3, <1>6
    <2> QED
        BY <1>1, <1>3, <1>4, <2>1
<1>7. 1..0 = {}
    OBVIOUS
<1> QED
    BY <1>1, <1>3, <1>4, <1>5, <1>6, <1>7 DEF Gives

Instead(c, q) == c \o Tail(q)
Placed(c, d, r, M) == \A m \in 1..Len(c) : m \in DOMAIN M /\ m \in DOMAIN c /\ r[m] = c[m] /\ M[m] = d[m]

\* A head that makes way for the lines of a block.
LEMMA GivesBlock ==
    ASSUME NEW q, IsSeq(q), q # <<>>, NEW L, IsSeq(L), DOMAIN q = DOMAIN L,
           NEW c, IsSeq(c), NEW r, r = Instead(c, q), NEW d, IsSeq(d), NEW M, M = Instead(d, L), Len(c) = Len(d)
    PROVE  /\ Gives(q, L, r, M, Len(c)) /\ Len(c) \in Nat
           /\ Placed(c, d, r, M)
<1> USE DEF Instead, Placed
<1>1. /\ IsSeq(Tail(q)) /\ Len(q) \in Nat \ {0} /\ DOMAIN q = 1..Len(q) /\ DOMAIN Tail(q) = 1..(Len(q) - 1)
      /\ \A m \in DOMAIN Tail(q) : Tail(q)[m] = q[m + 1]
    BY TailIsSeq
<1>2. L # <<>>
    <2>1. 1 \in DOMAIN L
        BY <1>1
    <2> QED
        BY <2>1
<1>3. /\ IsSeq(Tail(L)) /\ Len(L) \in Nat \ {0} /\ DOMAIN L = 1..Len(L) /\ DOMAIN Tail(L) = 1..(Len(L) - 1)
      /\ \A m \in DOMAIN Tail(L) : Tail(L)[m] = L[m + 1]
    BY <1>2, TailIsSeq
<1>4. Len(L) = Len(q)
    BY <1>1, <1>3, SameRange, Zenon
<1> DEFINE n == Len(c)
           tq == Tail(q)
           tl == Tail(L)
<1>5. Len(tq) = Len(q) - 1 /\ Len(tl) = Len(q) - 1
    <2>1. Len(tq) \in Nat /\ DOMAIN tq = 1..Len(tq) /\ Len(tl) \in Nat /\ DOMAIN tl = 1..Len(tl)
        BY <1>1, <1>3 DEF IsSeq
    <2>2. Len(q) - 1 \in Nat
        BY <1>1
    <2> QED
        BY <1>1, <1>3, <1>4, <2>1, <2>2, SameRange
<1>6. /\ n \in Nat /\ DOMAIN r = 1..(n + Len(tq)) /\ DOMAIN c = 1..n
      /\ \A m \in DOMAIN r : r[m] = IF m <= n THEN c[m] ELSE tq[m - n]
    <2>1. PICK w : w = tq
        OBVIOUS
    <2>2. r = c \o w /\ IsSeq(w)
        BY <1>1, <2>1
    <2>3. /\ Len(c) \in Nat /\ DOMAIN (c \o w) = 1..(Len(c) + Len(w))
          /\ \A m \in DOMAIN (c \o w) : (c \o w)[m] = IF m <= Len(c) THEN c[m] ELSE w[m - Len(c)]
        BY <2>2, ConcatIsSeq, Zenon
    <2>5. /\ DOMAIN r = 1..(Len(c) + Len(w))
          /\ \A m \in DOMAIN r : r[m] = IF m <= Len(c) THEN c[m] ELSE w[m - Len(c)]
        BY <2>2, <2>3, Zenon
    <2>4. DOMAIN c = 1..Len(c)
        BY DEF IsSeq
    <2> QED
        BY <2>1, <2>3, <2>4, <2>5
<1>7. /\ DOMAIN M = 1..(n + Len(tl)) /\ DOMAIN d = 1..n
      /\ \A m \in DOMAIN M : M[m] = IF m <= n THEN d[m] ELSE tl[m - n]
    <2>1. PICK w : w = tl
        OBVIOUS
    <2>2. M = d \o w /\ IsSeq(w)
        BY <1>3, <2>1
    <2>3. /\ DOMAIN (d \o w) = 1..(Len(d) + Len(w))
          /\ \A m \in DOMAIN (d \o w) : (d \o w)[m] = IF m <= Len(d) THEN d[m] ELSE w[m - Len(d)]
        BY <2>2, ConcatIsSeq, Zenon
    <2>5. /\ DOMAIN M = 1..(Len(d) + Len(w))
          /\ \A m \in DOMAIN M : M[m] = IF m <= Len(d) THEN d[m] ELSE w[m - Len(d)]
        BY <2>2, <2>3, Zenon
    <2>4. DOMAIN d = 1..Len(d)
        BY DEF IsSeq
    <2> QED
        BY <2>1, <2>3, <2>4, <2>5
<1>8. ASSUME NEW m \in DOMAIN M, m \notin 1..n
      PROVE  m - n + 1 \in DOMAIN L /\ m - n + 1 # 1 /\ r[m] = q[m - n + 1] /\ M[m] = L[m - n + 1]
    <2>1. m \in DOMAIN r /\ ~(m <= n) /\ m - n \in 1..(Len(q) - 1)
        BY <1>1, <1>5, <1>6, <1>7, <1>8
    <2>2. r[m] = Tail(q)[m - n] /\ M[m] = Tail(L)[m - n]
        BY <1>6, <1>7, <2>1
    <2>3. m - n + 1 \in DOMAIN L /\ m - n + 1 # 1
        BY <1>1, <1>3, <1>4, <1>6, <2>1
    <2> QED
        BY <1>1, <1>3, <1>4, <2>1, <2>2, <2>3
<1>9. ASSUME NEW j \in DOMAIN L, j # 1
      PROVE  j + n - 1 \in DOMAIN M /\ j + n - 1 \notin 1..n /\ r[j + n - 1] = q[j] /\ M[j + n - 1] = L[j]
    <2>1. j + n - 1 \in DOMAIN M /\ j + n - 1 \notin 1..n /\ (j + n - 1) - n + 1 = j
        BY <1>1, <1>3, <1>4, <1>5, <1>6, <1>7, <1>9
    <2> QED
        BY <1>8, <2>1
<1>10. DOMAIN r = DOMAIN M
    BY <1>5, <1>6, <1>7
<1>11. Gives(q, L, r, M, n)
    BY <1>8, <1>9, <1>10 DEF Gives
<1>12. ASSUME NEW m \in 1..n PROVE m \in DOMAIN M /\ m \in DOMAIN c /\ r[m] = c[m] /\ M[m] = d[m]
    BY <1>1, <1>5, <1>6, <1>7
<1> QED
    BY <1>6, <1>11, <1>12

\* What is in front of the new lines has to fit.
NewFits(r, M, n, on) == \A m \in DOMAIN M : m \in 1..n => Fits(r[m], M[m], on)
OthersSwitch(L) == \A j \in DOMAIN L : j # 1 => L[j].node.kind = "in"

\* The queue stays what is to come.
LEMMA GivesLined ==
    ASSUME NEW q, NEW f, NEW k, NEW on, Lined(q, f, k, on), NEW L, L = Reading[f][k],
           NEW k2 \in 1..Limit, NEW M, M = Reading[f][k2], NEW r, NEW n, Gives(q, L, r, M, n), NEW on2,
           NewFits(r, M, n, on2), on2 = on \/ OthersSwitch(L)
    PROVE  Lined(r, f, k2, on2)
<1> USE DEF NewFits, OthersSwitch
<1>1. ASSUME NEW j \in DOMAIN L, j # 1 PROVE Fits(q[j], L[j], on2)
    <2>1. Fits(q[j], L[j], on)
        BY DEF Lined
    <2> QED
        BY <1>1, <2>1 DEF Fits
<1>2. ASSUME NEW m \in DOMAIN M PROVE Fits(r[m], M[m], on2)
    <2>1. CASE m \in 1..n
        BY <1>2, <2>1
    <2>2. CASE m \notin 1..n
        <3>1. PICK j \in DOMAIN L : j # 1 /\ r[m] = q[j] /\ M[m] = L[j]
            BY <1>2, <2>2 DEF Gives
        <3> QED
            BY <1>1, <3>1
    <2> QED
        BY <2>1, <2>2
<1>3. DOMAIN r = DOMAIN M
    BY DEF Gives
<1> QED
    BY <1>2, <1>3 DEF Lined

\* The head of the queue, at place k, may be written down.
Wrote(q, t, k, u, t2, u2) ==
    \A i \in DOMAIN t2 :
        \/ i \in DOMAIN t /\ t2[i] = t[i] /\ u2[i] = u[i]
        \/ u2[i] = k /\ t2[i].guards = q[1].guards /\ t2[i].rep = q[1].rep

\* The marks that a queue and a trace carry.
LEMMA HeadMark ==
    ASSUME NEW q, NEW t, NEW f, NEW k, NEW u, 1 \in DOMAIN q
    PROVE  /\ MarkOf(q, t, f, k, u, Mark(q[1], Reading[f][k][1]))
           /\ \A i \in DOMAIN t : MarkOf(q, t, f, k, u, Mark(t[i], At(f, u[i])))
           /\ \A m \in DOMAIN q : MarkOf(q, t, f, k, u, Mark(q[m], Reading[f][k][m]))
BY DEF MarkOf

\* A mark is one of before, or of a line that is new.
NewMark(r, M, n, d) == \E m \in DOMAIN M : m \in 1..n /\ d = Mark(r[m], M[m])

\* Whose marks there are after a move.
LEMMA GivesMarks ==
    ASSUME NEW q, NEW t, NEW f, NEW k \in Places(f), NEW u, 1 \in DOMAIN q, NEW L, L = Reading[f][k], At(f, k) = L[1],
           NEW k2, NEW M, M = Reading[f][k2], NEW r, NEW n, Gives(q, L, r, M, n),
           NEW t2, NEW u2, Wrote(q, t, k, u, t2, u2), NEW d, MarkOf(r, t2, f, k2, u2, d)
    PROVE  MarkOf(q, t, f, k, u, d) \/ NewMark(r, M, n, d)
<1>1. ASSUME NEW m \in DOMAIN r, d = Mark(r[m], M[m])
      PROVE  MarkOf(q, t, f, k, u, d) \/ \E l \in DOMAIN M : l \in 1..n /\ d = Mark(r[l], M[l])
    <2>1. m \in DOMAIN M
        BY <1>1 DEF Gives
    <2>2. CASE m \notin 1..n
        <3>1. PICK j \in DOMAIN L : j \in DOMAIN q /\ r[m] = q[j] /\ M[m] = L[j]
            BY <2>1, <2>2 DEF Gives
        <3> QED
            BY <1>1, <3>1 DEF MarkOf
    <2> QED
        BY <1>1, <2>1, <2>2
<1>2. ASSUME NEW i \in DOMAIN t2, d = Mark(t2[i], At(f, u2[i]))
      PROVE  MarkOf(q, t, f, k, u, d)
    <2>1. CASE i \in DOMAIN t /\ t2[i] = t[i] /\ u2[i] = u[i]
        BY <1>2, <2>1 DEF MarkOf
    <2>2. CASE u2[i] = k /\ t2[i].guards = q[1].guards /\ t2[i].rep = q[1].rep
        <3>1. d = Mark(q[1], L[1])
            BY <1>2, <2>2 DEF Mark
        <3> QED
            BY <3>1, HeadMark
    <2> QED
        BY <1>2, <2>1, <2>2 DEF Wrote
<1> QED
    BY <1>1, <1>2 DEF MarkOf, NewMark

\* A move that is not one of a loop that comes back: it gives way to lines of its own
\* loop and its own pass, if to any.
SameBlock(q, L, r, M, n) ==
    \A m \in DOMAIN M : m \in 1..n => M[m].back = 0 /\ r[m].rep = q[1].rep /\ M[m].loop = L[1].loop
OnPlaces(t, u) == \A i \in DOMAIN t : u[i] \in Nat

\* A loop that comes back is not disturbed by what stands before it.
LEMMA GivesOn ==
    ASSUME NEW q, NEW t, NEW f, NEW k \in Places(f), k \in Nat, NEW u, NEW on, Lined(q, f, k, on),
           Looping(q, t, f, k, u), WrittenBefore(q, t, f, k, u),
           1 \in DOMAIN q, NEW L, L = Reading[f][k], At(f, k) = L[1], L[1].back = 0,
           NEW k2 \in Nat, k < k2, NEW M, M = Reading[f][k2], NEW r, NEW n, Gives(q, L, r, M, n),
           NEW t2, NEW u2, Wrote(q, t, k, u, t2, u2), OnPlaces(t, u),
           SameBlock(q, L, r, M, n)
    PROVE  Looping(r, t2, f, k2, u2) /\ WrittenBefore(r, t2, f, k2, u2)
<1> USE DEF SameBlock, OnPlaces
<1>0. DOMAIN q = DOMAIN L /\ DOMAIN r = DOMAIN M
    BY DEF Lined, Gives
<1>0a. ASSUME NEW d, MarkOf(r, t2, f, k2, u2, d)
       PROVE  MarkOf(q, t, f, k, u, d) \/ NewMark(r, M, n, d)
    <2>1. /\ k \in Places(f) /\ 1 \in DOMAIN q /\ L = Reading[f][k] /\ At(f, k) = L[1]
          /\ M = Reading[f][k2] /\ Gives(q, L, r, M, n) /\ Wrote(q, t, k, u, t2, u2)
        OBVIOUS
    <2> QED
        BY <1>0a, <2>1, GivesMarks
<1>1. ASSUME NEW m \in DOMAIN M, M[m].back # 0
      PROVE  /\ \A d : MarkOf(r, t2, f, k2, u2, d) => (d.rep.id = r[m].own <=> d.loop = M[m].back)
             /\ \A l \in DOMAIN M : M[l].loop = M[m].back => r[l].rep.pass = r[m].passes
             /\ \A i \in DOMAIN t2 : At(f, u2[i]).loop = M[m].back => t2[i].rep.pass <= r[m].passes
    <2>1. PICK j \in DOMAIN L : j # 1 /\ r[m] = q[j] /\ M[m] = L[j]
        BY <1>1 DEF Gives
    <2>2. /\ \A d : MarkOf(q, t, f, k, u, d) => (d.rep.id = q[j].own <=> d.loop = L[j].back)
          /\ \A l \in DOMAIN L : L[l].loop = L[j].back => q[l].rep.pass = q[j].passes
          /\ \A i \in DOMAIN t : At(f, u[i]).loop = L[j].back => t[i].rep.pass <= q[j].passes
        BY <1>1, <2>1 DEF Looping
    <2>3. Fits(q[j], L[j], on)
        BY DEF Lined
    <2>4. q[j].passes \in Nat
        BY <1>1, <2>1, <2>3 DEF Fits
    <2>5. Mark(q[1], L[1]).rep.id = q[j].own <=> Mark(q[1], L[1]).loop = L[j].back
        BY <2>2, HeadMark
    <2>6. ASSUME NEW d, MarkOf(r, t2, f, k2, u2, d) PROVE d.rep.id = r[m].own <=> d.loop = M[m].back
        <3>1. MarkOf(q, t, f, k, u, d) \/ \E l \in DOMAIN M : l \in 1..n /\ d = Mark(r[l], M[l])
            BY <1>0a, <2>6 DEF NewMark
        <3>2. ASSUME NEW l \in DOMAIN M, l \in 1..n, d = Mark(r[l], M[l]) PROVE d.rep = q[1].rep /\ d.loop = L[1].loop
            BY <3>2 DEF Mark
        <3> QED
            BY <2>1, <2>2, <2>5, <3>1, <3>2, MarkIs
    <2>7. ASSUME NEW l \in DOMAIN M, M[l].loop = M[m].back PROVE r[l].rep.pass = r[m].passes
        <3>1. CASE l \in 1..n
            <4>1. r[l].rep = q[1].rep /\ L[1].loop = L[j].back
                BY <2>1, <2>7, <3>1
            <4> QED
                BY <1>0, <2>1, <2>2, <4>1
        <3>2. CASE l \notin 1..n
            <4>1. PICK g \in DOMAIN L : r[l] = q[g] /\ M[l] = L[g]
                BY <2>7, <3>2 DEF Gives
            <4> QED
                BY <2>1, <2>2, <2>7, <4>1
        <3> QED
            BY <3>1, <3>2
    <2>8. ASSUME NEW i \in DOMAIN t2, At(f, u2[i]).loop = M[m].back PROVE t2[i].rep.pass <= r[m].passes
        <3>1. CASE i \in DOMAIN t /\ t2[i] = t[i] /\ u2[i] = u[i]
            BY <2>1, <2>2, <2>8, <3>1
        <3>2. CASE u2[i] = k /\ t2[i].guards = q[1].guards /\ t2[i].rep = q[1].rep
            <4>1. t2[i].rep.pass = q[j].passes
                BY <1>0, <2>1, <2>2, <2>8, <3>2
            <4> QED
                BY <2>1, <2>4, <4>1
        <3> QED
            BY <2>8, <3>1, <3>2 DEF Wrote
    <2> QED
        BY <2>6, <2>7, <2>8
<1>2. ASSUME NEW i \in DOMAIN t2
      PROVE  \/ u2[i] < k2
             \/ \E m \in DOMAIN M : M[m].back # 0 /\ At(f, u2[i]).loop = M[m].back /\ t2[i].rep.pass < r[m].passes
    <2>1. CASE i \in DOMAIN t /\ t2[i] = t[i] /\ u2[i] = u[i]
        <3>1. \/ u[i] < k
              \/ \E m \in DOMAIN L : L[m].back # 0 /\ At(f, u[i]).loop = L[m].back /\ t[i].rep.pass < q[m].passes
            BY <2>1 DEF WrittenBefore
        <3>2. CASE u[i] < k
            BY <2>1, <3>2
        <3>3. ASSUME NEW j \in DOMAIN L, L[j].back # 0, At(f, u[i]).loop = L[j].back, t[i].rep.pass < q[j].passes
              PROVE  \E m \in DOMAIN M : M[m].back # 0 /\ At(f, u2[i]).loop = M[m].back /\ t2[i].rep.pass < r[m].passes
            <4>1. PICK m \in DOMAIN M : r[m] = q[j] /\ M[m] = L[j]
                BY <3>3 DEF Gives
            <4> QED
                BY <2>1, <3>3, <4>1
        <3> QED
            BY <3>1, <3>2, <3>3
    <2>2. CASE u2[i] = k
        BY <2>2
    <2> QED
        BY <1>2, <2>1, <2>2 DEF Wrote
<1> QED
    BY <1>1, <1>2 DEF Looping, WrittenBefore

\* What is known of the head of the queue.
LEMMA HeadKnown ==
    ASSUME NEW f \in Flows, Simple(f), NEW q, NEW k, NEW on, Lined(q, f, k, on), IsSeq(q), q # <<>>
    PROVE  /\ k \in Places(f) /\ k \in 1..Limit /\ k + 1 \in 1..Limit /\ k \in Nat /\ k \in Nat \ {0}
           /\ IsSeq(Reading[f][k]) /\ Reading[f][k] # <<>> /\ 1 \in DOMAIN Reading[f][k] /\ DOMAIN q = DOMAIN Reading[f][k]
           /\ At(f, k) = Reading[f][k][1] /\ 1 \in DOMAIN q /\ Head(q) = q[1]
           /\ Fits(q[1], At(f, k), on) /\ Laid(f, k, At(f, k)) /\ ReadAt(f, k)
<1>1. Head(q) = q[1] /\ Len(q) \in Nat \ {0} /\ DOMAIN q = 1..Len(q)
    BY TailIsSeq
<1>2. 1 \in DOMAIN q /\ k \in 1..Limit /\ DOMAIN q = DOMAIN Reading[f][k]
    BY <1>1 DEF Lined
<1>3. Reading[f][k] # <<>>
    <2>1. 1 \in DOMAIN Reading[f][k]
        BY <1>2
    <2> QED
        BY <2>1
<1>4. k \in Places(f)
    BY <1>2, <1>3 DEF Places
<1>5. /\ k + 1 \in 1..Limit /\ ReadAt(f, k) /\ Laid(f, k, At(f, k))
      /\ IsSeq(Reading[f][k]) /\ At(f, k) = Reading[f][k][1]
    BY <1>4, LineKnown
<1>6. Fits(q[1], At(f, k), on)
    BY <1>2, <1>5 DEF Lined
<1>7. k \in Nat /\ k \in Nat \ {0}
    BY <1>2, ReadingSteps
<1> QED
    BY <1>1, <1>2, <1>3, <1>4, <1>5, <1>6, <1>7

\* Every step of the trace has a place.
LEMMA PlacesNat ==
    ASSUME NEW f \in Flows, Simple(f), NEW t, NEW u, Stepped(t, f, u)
    PROVE  \A i \in DOMAIN t : u[i] \in Nat /\ u[i] \in Places(f) /\ u[i] \in Nat \ {0} /\ u[i] \in StepPlaces(f)
                               /\ Laid(f, u[i], At(f, u[i]))
<1> SUFFICES ASSUME NEW i \in DOMAIN t
             PROVE  u[i] \in Nat /\ u[i] \in Places(f) /\ u[i] \in Nat \ {0} /\ u[i] \in StepPlaces(f)
                    /\ Laid(f, u[i], At(f, u[i]))
    OBVIOUS
<1>1. u[i] \in StepPlaces(f) /\ u[i] \in Places(f)
    BY DEF Stepped, StepPlaces
<1>2. Laid(f, u[i], At(f, u[i])) /\ u[i] \in 1..Limit
    BY <1>1, LineKnown
<1> QED
    BY <1>1, <1>2, ReadingSteps

\* The head of the queue leaves it: a block that is left out, or a loop that is over
\* before its first pass.
LEMMA MoveTail ==
    ASSUME NEW f \in Flows, Simple(f), NEW q, NEW t, NEW k, NEW u, NEW on, NEW guards, NEW loops,
           Recording(q, t, f, k, u, on, guards, loops), IsSeq(q), q # <<>>, At(f, k).back = 0,
           NEW k2 \in 1..Limit, k < k2, Reading[f][k2] = Tail(Reading[f][k])
    PROVE  Recording(Tail(q), t, f, k2, u, on, guards, loops)
<1> DEFINE L == Reading[f][k]
           M == Reading[f][k2]
           r == Tail(q)
<1>1. /\ Lined(q, f, k, on) /\ Looping(q, t, f, k, u) /\ WrittenBefore(q, t, f, k, u)
      /\ Marked(q, t, f, k, u, guards, loops) /\ Stepped(t, f, u)
    BY DEF Recording
<1>2. /\ k \in Places(f) /\ k \in Nat /\ IsSeq(L) /\ 1 \in DOMAIN q /\ DOMAIN q = DOMAIN L /\ At(f, k) = L[1]
    BY <1>1, HeadKnown
<1>3. Gives(q, L, r, M, 0)
    BY <1>2, GivesTail
<1>4. k2 \in Nat
    BY ReadingSteps
<1>5. \A m \in DOMAIN M : m \notin 1..0
    OBVIOUS
<1>6. Wrote(q, t, k, u, t, u) /\ OnPlaces(t, u) /\ SameBlock(q, L, r, M, 0)
    BY <1>1, <1>5, PlacesNat DEF Wrote, OnPlaces, SameBlock
<1> HIDE DEF L, M, r
<1>7. L = Reading[f][k] /\ M = Reading[f][k2] /\ r = Tail(q) /\ L[1].back = 0
    BY <1>2 DEF L, M, r
<1>8. Lined(r, f, k2, on)
    BY <1>1, <1>3, <1>5, <1>7, GivesLined DEF NewFits
<1>9. Looping(r, t, f, k2, u) /\ WrittenBefore(r, t, f, k2, u)
    BY <1>1, <1>2, <1>3, <1>4, <1>5, <1>6, <1>7, GivesOn
<1>10. ASSUME NEW d, MarkOf(r, t, f, k2, u, d) PROVE MarkOf(q, t, f, k, u, d)
    <2>1. MarkOf(q, t, f, k, u, d) \/ NewMark(r, M, 0, d)
        BY <1>2, <1>3, <1>6, <1>7, <1>10, GivesMarks
    <2> QED
        BY <1>5, <2>1 DEF NewMark
<1>11. Marked(r, t, f, k2, u, guards, loops)
    BY <1>1, <1>10, MarkedKept
<1> QED
    BY <1>1, <1>7, <1>8, <1>9, <1>11 DEF Recording

\* A loop that comes back is over.
LEMMA MoveReturn ==
    ASSUME NEW f \in Flows, Simple(f), NEW q, NEW t, NEW s, LoopPlace(f, s), NEW k, k = Return(f, s),
           NEW u, NEW on, NEW guards, NEW loops,
           Recording(q, t, f, k, u, on, guards, loops), IsSeq(q), q # <<>>
    PROVE  Recording(Tail(q), t, f, End(f, s), u, on, guards, loops)
<1> DEFINE L == Reading[f][k]
           k2 == End(f, s)
           M == Reading[f][k2]
           r == Tail(q)
<1>1. /\ Lined(q, f, k, on) /\ Looping(q, t, f, k, u) /\ WrittenBefore(q, t, f, k, u)
      /\ Marked(q, t, f, k, u, guards, loops) /\ Stepped(t, f, u)
    BY DEF Recording
<1>2. /\ k \in Places(f) /\ k \in Nat /\ IsSeq(L) /\ L # <<>> /\ 1 \in DOMAIN q /\ DOMAIN q = DOMAIN L /\ At(f, k) = L[1]
    BY <1>1, HeadKnown
<1>3. Tail(L) = Tail(Reading[f][s]) /\ M = Tail(Reading[f][s]) /\ k2 \in 1..Limit /\ k2 = k + 1
    <2>1. Tail(Reading[f][Return(f, s)]) = Tail(Reading[f][s])
        BY LoopEnds DEF Return
    <2>2. Reading[f][End(f, s)] = Tail(Reading[f][s])
        BY EndFacts DEF BlockPlace
    <2>3. End(f, s) \in 1..Limit /\ End(f, s) = Return(f, s) + 1
        BY LoopPlaces
    <2> QED
        BY <2>1, <2>2, <2>3
<1>4. Gives(q, L, r, M, 0)
    BY <1>2, <1>3, GivesTail
<1>5. \A m \in DOMAIN M : m \notin 1..0
    OBVIOUS
<1>6. Wrote(q, t, k, u, t, u) /\ \A i \in DOMAIN t : u[i] \in Nat /\ u[i] \in Places(f)
    BY <1>1, PlacesNat DEF Wrote
<1>7. \A m \in DOMAIN M : M[m].back = 0
    <2>1. s \in Places(f)
        BY LoopPlaces
    <2>2. IsSeq(Reading[f][s]) /\ Reading[f][s] # <<>>
        BY <2>1, LineKnown
    <2> DEFINE S == Reading[f][s]
    <2>3. \A j \in DOMAIN S : S[j].back = 0
        BY LoopAlonePlace
    <2>4. Len(S) \in Nat \ {0} /\ DOMAIN S = 1..Len(S) /\ DOMAIN Tail(S) = 1..(Len(S) - 1)
          /\ \A m \in DOMAIN Tail(S) : Tail(S)[m] = S[m + 1]
        BY <2>2, TailIsSeq
    <2>5. M = Tail(S)
        BY <1>3
    <2> HIDE DEF S, M
    <2> QED
        BY <2>3, <2>4, <2>5
<1>8. \A m \in DOMAIN L : m # 1 => L[m].back = 0
    <2> SUFFICES ASSUME NEW j \in DOMAIN L, j # 1 PROVE L[j].back = 0
        OBVIOUS
    <2>1. \E m \in DOMAIN M : M[m] = L[j]
        BY <1>4 DEF Gives
    <2> QED
        BY <1>7, <2>1
<1>9. At(f, k).back = s /\ s # 0 /\ \A x \in Places(f) : At(f, x).loop = s => x < k
    BY LoopPlaces
<1> HIDE DEF L, M, r, k2
<1>10. L = Reading[f][k] /\ M = Reading[f][k2] /\ r = Tail(q)
    BY DEF L, M, r
<1>11. Lined(r, f, k2, on)
    BY <1>1, <1>3, <1>4, <1>5, <1>10, GivesLined DEF NewFits
<1>12. Looping(r, t, f, k2, u)
    BY <1>7, <1>10 DEF Looping
<1>13. WrittenBefore(r, t, f, k2, u)
    <2> SUFFICES ASSUME NEW i \in DOMAIN t PROVE u[i] < k2
        BY DEF WrittenBefore
    <2>1. CASE u[i] < k
        BY <1>2, <1>3, <1>6, <2>1
    <2>2. ASSUME NEW m \in DOMAIN L, L[m].back # 0, At(f, u[i]).loop = L[m].back PROVE u[i] < k2
        <3>1. m = 1
            BY <1>8, <2>2
        <3>2. At(f, u[i]).loop = s
            BY <1>2, <1>9, <2>2, <3>1
        <3> QED
            BY <1>2, <1>3, <1>6, <1>9, <3>2
    <2> QED
        BY <1>1, <1>10, <2>1, <2>2 DEF WrittenBefore
<1>14. ASSUME NEW d, MarkOf(r, t, f, k2, u, d) PROVE MarkOf(q, t, f, k, u, d)
    <2>1. MarkOf(q, t, f, k, u, d) \/ NewMark(r, M, 0, d)
        BY <1>2, <1>4, <1>6, <1>10, <1>14, GivesMarks
    <2> QED
        BY <1>5, <2>1 DEF NewMark
<1>15. Marked(r, t, f, k2, u, guards, loops)
    BY <1>1, <1>14, MarkedKept
<1> QED
    BY <1>1, <1>10, <1>11, <1>12, <1>13, <1>15 DEF Recording, k2

\* The entries of a step are written down.
Written1(s, e, on, f) ==
    /\ s.leaf = e.node /\ s.guards = e.guards /\ s.rep = e.rep
    /\ s.surface = IF f.multi THEN on ELSE NoSurface
MovedPlaces(t, u, k) == [i \in 1..(Len(t) + 1) |-> IF i \in DOMAIN t THEN u[i] ELSE k]

\* A step that stands at place k, or behind it, was written in an earlier pass of the loop
\* place k is in.
LEMMA EarlierPass ==
    ASSUME NEW f \in Flows, Simple(f), NEW q, NEW t, NEW k, NEW u, NEW on, NEW guards, NEW loops,
           Recording(q, t, f, k, u, on, guards, loops), IsSeq(q), q # <<>>, At(f, k).back = 0,
           NEW i \in DOMAIN t, ~(u[i] < k)
    PROVE  /\ At(f, k).loop # 0 /\ At(f, u[i]).loop = At(f, k).loop
           /\ q[1].rep.id # 0 /\ t[i].rep.id = q[1].rep.id
           /\ t[i].rep.pass < q[1].rep.pass /\ t[i].rep.pass \in Nat /\ q[1].rep.pass \in Nat
<1> DEFINE L == Reading[f][k]
<1>1. /\ Lined(q, f, k, on) /\ Looping(q, t, f, k, u) /\ WrittenBefore(q, t, f, k, u)
      /\ Marked(q, t, f, k, u, guards, loops) /\ Stepped(t, f, u)
    BY DEF Recording
<1>2. /\ k \in Places(f) /\ k \in Nat /\ k \in 1..Limit /\ ReadAt(f, k)
      /\ 1 \in DOMAIN q /\ 1 \in DOMAIN L /\ DOMAIN q = DOMAIN L /\ At(f, k) = L[1]
    BY <1>1, HeadKnown
<1>3. PICK m \in DOMAIN L : L[m].back # 0 /\ At(f, u[i]).loop = L[m].back /\ t[i].rep.pass < q[m].passes
    BY <1>1 DEF WrittenBefore
<1> DEFINE s == L[m].back
<1>4. LoopPlace(f, s) /\ s # 0
    BY <1>2, <1>3 DEF ReadAt, Laid
<1>5. s < k /\ k < End(f, s)
    BY <1>2, <1>4, LineRange DEF In, BlockPlace
<1>6. At(f, k).loop = s
    <2>1. End(f, s) = Return(f, s) + 1 /\ Return(f, s) \in Nat /\ s \in Nat \ {0} /\ At(f, Return(f, s)).back = s
        BY <1>4, LoopPlaces
    <2>2. k # Return(f, s)
        BY <1>4, <2>1
    <2>3. k \in (s + 1)..(Return(f, s) - 1)
        BY <1>2, <1>5, <2>1, <2>2
    <2> QED
        BY <1>4, <2>3, LoopPlaces
<1>7. q[1].rep.pass = q[m].passes /\ \A d : MarkOf(q, t, f, k, u, d) => (d.rep.id = q[m].own <=> d.loop = s)
    BY <1>1, <1>2, <1>3, <1>6 DEF Looping
<1> DEFINE P == Mark(q[1], L[1])
           T == Mark(t[i], At(f, u[i]))
<1>8. MarkOf(q, t, f, k, u, P) /\ MarkOf(q, t, f, k, u, T)
    BY <1>2, HeadMark
<1>9. P.rep = q[1].rep /\ P.loop = s /\ T.rep = t[i].rep /\ T.loop = s
    BY <1>2, <1>3, <1>6, MarkIs
<1>10. P.rep.id = q[m].own /\ T.rep.id = q[m].own
    BY <1>7, <1>8, <1>9
<1>11. MarkSound(f, P, guards, loops) /\ MarkSound(f, T, guards, loops)
    BY <1>1, <1>8 DEF Marked
<1> HIDE DEF P, T
<1>12. P.rep.id # 0 /\ P.rep.pass \in Nat /\ T.rep.pass \in Nat
    BY <1>4, <1>9, <1>11 DEF MarkSound
<1> QED
    BY <1>3, <1>4, <1>6, <1>7, <1>9, <1>10, <1>12

\* A step is performed and written down.
LEMMA MovePerform ==
    ASSUME NEW f \in Flows, Simple(f), NEW q, NEW t, NEW k, NEW u, NEW on, NEW guards, NEW loops,
           Recording(q, t, f, k, u, on, guards, loops), IsSeq(q), q # <<>>, At(f, k).node.kind = "step",
           NEW x, Written1(x, q[1], on, f)
    PROVE  Recording(Tail(q), Append(t, x), f, k + 1, MovedPlaces(t, u, k), on, guards, loops)
<1> DEFINE L == Reading[f][k]
           k2 == k + 1
           M == Reading[f][k2]
           r == Tail(q)
           t2 == Append(t, x)
           u2 == MovedPlaces(t, u, k)
<1>1. /\ Lined(q, f, k, on) /\ Looping(q, t, f, k, u) /\ WrittenBefore(q, t, f, k, u)
      /\ Marked(q, t, f, k, u, guards, loops) /\ Stepped(t, f, u)
    BY DEF Recording
<1>2. /\ k \in Places(f) /\ k \in Nat /\ k \in 1..Limit /\ k2 \in 1..Limit /\ IsSeq(L) /\ L # <<>>
      /\ 1 \in DOMAIN q /\ DOMAIN q = DOMAIN L /\ At(f, k) = L[1] /\ Fits(q[1], At(f, k), on) /\ Laid(f, k, At(f, k))
    BY <1>1, HeadKnown
<1>3. k \in StepPlaces(f)
    BY <1>2 DEF StepPlaces
<1>4. L[1].back = 0
    <2>1. ~(L[1].back # 0)
        BY <1>2 DEF Laid, LoopPlace
    <2> QED
        BY <2>1
<1>5. M = Tail(L) /\ k2 \in Nat /\ k < k2
    <2>1. k # Limit
        BY <1>2, LineKnown
    <2>2. M = Onwards(L, k)
        BY <1>2, <2>1, ReadingSteps
    <2>3. Onwards(L, k) = Tail(L)
        <3>1. Head(L).node.kind = "step"
            BY DEF At
        <3> QED
            BY <1>2, <3>1 DEF Onwards
    <2> QED
        BY <1>2, <2>2, <2>3
<1>6. Gives(q, L, r, M, 0)
    BY <1>2, <1>5, GivesTail
<1>7. \A m \in DOMAIN M : m \notin 1..0
    OBVIOUS
<1>8. \A i \in DOMAIN t : u[i] \in Nat /\ u[i] \in Places(f)
    BY <1>1, PlacesNat
<1>9. /\ IsSeq(t) /\ IsSeq(t2) /\ Len(t) \in Nat /\ DOMAIN t = 1..Len(t) /\ DOMAIN t2 = 1..(Len(t) + 1)
      /\ \A i \in DOMAIN t2 : t2[i] = IF i = Len(t) + 1 THEN x ELSE t[i]
    <2>1. IsSeq(t)
        BY <1>1 DEF Stepped
    <2>2. Len(t) \in Nat /\ DOMAIN t = 1..Len(t)
        BY <2>1 DEF IsSeq
    <2> QED
        BY <2>1, <2>2, AppendIsSeq
<1>10. \A i \in DOMAIN t2 : u2[i] = IF i = Len(t) + 1 THEN k ELSE u[i]
    BY <1>9 DEF MovedPlaces
<1>11. \A i \in DOMAIN t2 : (i \in DOMAIN t /\ t2[i] = t[i] /\ u2[i] = u[i]) \/ (i = Len(t) + 1 /\ t2[i] = x /\ u2[i] = k)
    BY <1>9, <1>10
<1>12. Wrote(q, t, k, u, t2, u2)
    BY <1>11 DEF Wrote, Written1
<1> HIDE DEF L, M, r, k2, t2, u2
<1>13. L = Reading[f][k] /\ M = Reading[f][k2] /\ r = Tail(q) /\ k2 = k + 1
    BY DEF L, M, r, k2
<1>14. Lined(r, f, k2, on)
    BY <1>1, <1>2, <1>6, <1>7, <1>13, GivesLined DEF NewFits
<1>15. Looping(r, t2, f, k2, u2) /\ WrittenBefore(r, t2, f, k2, u2)
    <2>1. OnPlaces(t, u) /\ SameBlock(q, L, r, M, 0)
        BY <1>7, <1>8 DEF OnPlaces, SameBlock
    <2>2. /\ k \in Places(f) /\ k \in Nat /\ k2 \in Nat /\ k < k2
          /\ Lined(q, f, k, on) /\ Looping(q, t, f, k, u) /\ WrittenBefore(q, t, f, k, u)
          /\ 1 \in DOMAIN q /\ L = Reading[f][k] /\ At(f, k) = L[1] /\ L[1].back = 0
          /\ M = Reading[f][k2] /\ Gives(q, L, r, M, 0) /\ Wrote(q, t, k, u, t2, u2)
        BY <1>1, <1>2, <1>4, <1>5, <1>6, <1>12, <1>13
    <2> QED
        BY <2>1, <2>2, GivesOn
<1>16. ASSUME NEW d, MarkOf(r, t2, f, k2, u2, d) PROVE MarkOf(q, t, f, k, u, d)
    <2>1. MarkOf(q, t, f, k, u, d) \/ NewMark(r, M, 0, d)
        BY <1>2, <1>6, <1>12, <1>13, <1>16, GivesMarks
    <2> QED
        BY <1>7, <2>1 DEF NewMark
<1>17. Marked(r, t2, f, k2, u2, guards, loops)
    BY <1>1, <1>16, MarkedKept
<1>18. Stepped(t2, f, u2)
    <2>1. ASSUME NEW i \in DOMAIN t2
          PROVE  /\ u2[i] \in StepPlaces(f)
                 /\ t2[i].leaf = At(f, u2[i]).node
                 /\ t2[i].surface = IF f.multi THEN At(f, u2[i]).surface ELSE NoSurface
        <3>1. CASE i \in DOMAIN t /\ t2[i] = t[i] /\ u2[i] = u[i]
            BY <1>1, <3>1 DEF Stepped
        <3>2. CASE t2[i] = x /\ u2[i] = k
            <4>1. At(f, k).surface = on /\ q[1].node = At(f, k).node
                BY <1>2 DEF Fits
            <4> QED
                BY <1>3, <3>2, <4>1 DEF Written1
        <3> QED
            BY <1>11, <2>1, <3>1, <3>2
    <2>2. ASSUME NEW i \in DOMAIN t2, NEW j \in DOMAIN t2, i < j, ~InTurn(t2[i], t2[j]) PROVE u2[i] < u2[j]
        <3>1. i \in DOMAIN t /\ t2[i] = t[i] /\ u2[i] = u[i]
            BY <1>9, <1>11, <2>2
        <3>2. CASE j \in DOMAIN t /\ t2[j] = t[j] /\ u2[j] = u[j]
            BY <1>1, <2>2, <3>1, <3>2 DEF Stepped
        <3>3. CASE t2[j] = x /\ u2[j] = k
            <4>1. ~InTurn(t[i], x) /\ x.rep = q[1].rep
                BY <2>2, <3>1, <3>3 DEF Written1
            <4>2. ASSUME ~(u[i] < k) PROVE FALSE
                <5>1. /\ q[1].rep.id # 0 /\ t[i].rep.id = q[1].rep.id /\ t[i].rep.pass < q[1].rep.pass
                      /\ t[i].rep.pass \in Nat /\ q[1].rep.pass \in Nat
                    <6>1. At(f, k).back = 0
                        BY <1>2, <1>4
                    <6> QED
                        BY <3>1, <4>2, <6>1, EarlierPass
                <5> QED
                    BY <4>1, <5>1 DEF InTurn
            <4> QED
                BY <3>1, <3>3, <4>2
        <3> QED
            BY <1>11, <2>2, <3>2, <3>3
    <2> QED
        BY <1>9, <2>1, <2>2 DEF Stepped
<1> QED
    BY <1>13, <1>14, <1>15, <1>17, <1>18 DEF Recording, t2, u2

\* The steps of a block, as they are queued.
BlockOf(c, node, g, rep) ==
    /\ IsSeq(c) /\ DOMAIN c = 1..Len(node.steps) /\ Len(c) = Len(node.steps)
    /\ \A m \in DOMAIN c :
          c[m].node = node.steps[m] /\ c[m].guards = g /\ c[m].rep = rep /\ c[m].own = 0 /\ c[m].passes = 0
Taken(g, rep, under, loop) == [guards |-> g, rep |-> rep, under |-> under, loop |-> loop]

\* What Taken takes.
LEMMA TakenIs ==
    ASSUME NEW g, NEW rep, NEW under, NEW loop
    PROVE  /\ Taken(g, rep, under, loop).guards = g /\ Taken(g, rep, under, loop).rep = rep
           /\ Taken(g, rep, under, loop).under = under /\ Taken(g, rep, under, loop).loop = loop
BY DEF Taken

\* The head of the queue makes way for the steps of its block, on the surface the
\* recorder is on.
LEMMA MoveBlock ==
    ASSUME NEW f \in Flows, Simple(f), NEW q, NEW t, NEW k, NEW u, NEW on, NEW guards, NEW loops,
           Recording(q, t, f, k, u, on, guards, loops), IsSeq(q), q # <<>>,
           At(f, k).back = 0, NEW node, node = At(f, k).node, node.kind \in {"when", "in"},
           NEW g, NEW c, BlockOf(c, node, g, q[1].rep),
           NEW on2, on2 = IF node.kind = "in" THEN node.surface ELSE on
    PROVE  /\ Lined(c \o Tail(q), f, k + 1, on2)
           /\ Looping(c \o Tail(q), t, f, k + 1, u) /\ WrittenBefore(c \o Tail(q), t, f, k + 1, u)
           /\ \A d : MarkOf(c \o Tail(q), t, f, k + 1, u, d) =>
                 MarkOf(q, t, f, k, u, d) \/ d = Taken(g, q[1].rep, UnderIn(At(f, k), k), At(f, k).loop)
<1> DEFINE L == Reading[f][k]
           k2 == k + 1
           M == Reading[f][k2]
           r == c \o Tail(q)
           e == At(f, k)
           d == Entered(e, k)
           n == Len(c)
<1>1. /\ Lined(q, f, k, on) /\ Looping(q, t, f, k, u) /\ WrittenBefore(q, t, f, k, u)
      /\ Marked(q, t, f, k, u, guards, loops) /\ Stepped(t, f, u)
    BY DEF Recording
<1>2. /\ k \in Places(f) /\ k \in Nat /\ k \in 1..Limit /\ k2 \in 1..Limit /\ IsSeq(L) /\ L # <<>>
      /\ 1 \in DOMAIN q /\ DOMAIN q = DOMAIN L /\ e = L[1] /\ Fits(q[1], e, on) /\ Laid(f, k, e) /\ ReadAt(f, k)
    BY <1>1, HeadKnown
<1>3. k # Limit /\ e.node \in Nodes /\ e.node.kind # "step" /\ k2 \in Nat /\ k < k2
    BY <1>2, LineKnown
<1>4. M = d \o Tail(L)
    <2>1. M = Onwards(L, k)
        BY <1>2, <1>3, ReadingSteps
    <2>2. Head(L) = e
        BY DEF At
    <2> QED
        BY <1>2, <1>3, <2>1, <2>2, Zenon DEF Onwards
<1>5. /\ IsSeq(d) /\ Len(d) = Len(node.steps) /\ DOMAIN d = 1..Len(node.steps)
      /\ \A m \in DOMAIN d : d[m] = Line(node.steps[m], UnderIn(e, k), LoopIn(e, k), SurfaceIn(e))
    <2>1. e.node.kind # "repeat" /\ e.node \in Nodes /\ e.node.kind # "step" /\ node = e.node
        BY <1>3
    <2> HIDE DEF e
    <2>2. d = Entered(e, k)
        OBVIOUS
    <2> HIDE DEF d
    <2> QED
        BY <2>1, <2>2, EnteredBlock
<1>6. LoopIn(e, k) = e.loop /\ (e.node.kind = "in" \/ e.surface = on) /\ SurfaceIn(e) = on2
    BY <1>2 DEF LoopIn, SurfaceIn, Fits
<1>7. \A m \in DOMAIN d : /\ d[m].node = node.steps[m] /\ d[m].under = UnderIn(e, k) /\ d[m].loop = e.loop
                          /\ d[m].surface = on2 /\ d[m].back = 0
    BY <1>5, <1>6, LineIs
<1> HIDE DEF L, M, r, k2, e, d, n
<1>8. /\ L = Reading[f][k] /\ M = Reading[f][k2] /\ r = c \o Tail(q) /\ k2 = k + 1 /\ e = At(f, k) /\ n = Len(c)
      /\ e.back = 0 /\ e.node = node
    BY DEF L, M, r, k2, e, n
<1>9. IsSeq(c) /\ Len(c) = Len(d) /\ DOMAIN c = DOMAIN d
    BY <1>5 DEF BlockOf
<1>10. /\ Gives(q, L, r, M, n) /\ n \in Nat
       /\ \A m \in 1..n : m \in DOMAIN M /\ m \in DOMAIN c /\ r[m] = c[m] /\ M[m] = d[m]
    <2>1. IsSeq(q) /\ q # <<>> /\ IsSeq(L) /\ DOMAIN q = DOMAIN L /\ IsSeq(c) /\ IsSeq(d) /\ Len(c) = Len(d)
          /\ r = Instead(c, q) /\ M = Instead(d, L)
        BY <1>2, <1>4, <1>5, <1>8, <1>9 DEF Instead
    <2>2. Gives(q, L, r, M, Len(c)) /\ Len(c) \in Nat /\ Placed(c, d, r, M)
        BY <2>1, GivesBlock
    <2> QED
        BY <1>8, <2>2 DEF Placed
<1>11. ASSUME NEW m \in DOMAIN M, m \in 1..n
       PROVE  /\ r[m].node = M[m].node /\ r[m].guards = g /\ r[m].rep = q[1].rep /\ r[m].own = 0 /\ r[m].passes = 0
              /\ M[m].back = 0 /\ M[m].loop = e.loop /\ M[m].surface = on2 /\ M[m].under = UnderIn(e, k)
    <2>1. m \in DOMAIN c /\ m \in DOMAIN d /\ r[m] = c[m] /\ M[m] = d[m]
        BY <1>9, <1>10, <1>11
    <2> QED
        BY <1>7, <2>1 DEF BlockOf
<1>12. NewFits(r, M, n, on2)
    BY <1>11 DEF Fits, NewFits
<1>13. on2 = on \/ OthersSwitch(L)
    <2>1. CASE node.kind = "in"
        <3>1. ASSUME NEW j \in DOMAIN L, j # 1 PROVE L[j].node.kind = "in"
            <4>1. Len(L) \in Nat /\ DOMAIN L = 1..Len(L)
                BY <1>2 DEF IsSeq
            <4>2. 1 \in DOMAIN L /\ 1 < j
                BY <1>2, <3>1, <4>1
            <4>3. L[1].node.kind = "in"
                BY <1>2, <1>8, <2>1
            <4> QED
                BY <1>2, <1>8, <4>2, <4>3 DEF ReadAt
        <3> QED
            BY <3>1 DEF OthersSwitch
    <2> QED
        BY <2>1
<1>14. Lined(r, f, k2, on2)
    <2>1. /\ Lined(q, f, k, on) /\ L = Reading[f][k] /\ k2 \in 1..Limit /\ M = Reading[f][k2]
          /\ Gives(q, L, r, M, n)
        BY <1>1, <1>2, <1>8, <1>10
    <2> QED
        BY <1>12, <1>13, <2>1, GivesLined
<1>15. Looping(r, t, f, k2, u) /\ WrittenBefore(r, t, f, k2, u)
    <2>1. OnPlaces(t, u) /\ SameBlock(q, L, r, M, n) /\ Wrote(q, t, k, u, t, u)
        BY <1>1, <1>2, <1>11, PlacesNat DEF OnPlaces, SameBlock, Wrote
    <2>2. /\ k \in Places(f) /\ k \in Nat /\ k2 \in Nat /\ k < k2
          /\ Lined(q, f, k, on) /\ Looping(q, t, f, k, u) /\ WrittenBefore(q, t, f, k, u)
          /\ 1 \in DOMAIN q /\ L = Reading[f][k] /\ At(f, k) = L[1] /\ L[1].back = 0
          /\ M = Reading[f][k2] /\ Gives(q, L, r, M, n)
        BY <1>1, <1>2, <1>3, <1>8, <1>10
    <2> QED
        BY <2>1, <2>2, GivesOn
<1>16. ASSUME NEW b, MarkOf(r, t, f, k2, u, b)
       PROVE  MarkOf(q, t, f, k, u, b) \/ b = Taken(g, q[1].rep, UnderIn(e, k), e.loop)
    <2>0. Wrote(q, t, k, u, t, u) /\ At(f, k) = L[1]
        BY <1>2, <1>8 DEF Wrote
    <2>1. MarkOf(q, t, f, k, u, b) \/ NewMark(r, M, n, b)
        BY <1>2, <1>8, <1>10, <1>16, <2>0, GivesMarks
    <2>2. ASSUME NEW m \in DOMAIN M, m \in 1..n, b = Mark(r[m], M[m]) PROVE b = Taken(g, q[1].rep, UnderIn(e, k), e.loop)
        BY <1>11, <2>2 DEF Mark, Taken
    <2> QED
        BY <2>1, <2>2 DEF NewMark
<1> QED
    BY <1>8, <1>14, <1>15, <1>16

\* An in: block is entered.
LEMMA MoveIn ==
    ASSUME NEW f \in Flows, Simple(f), NEW q, NEW t, NEW k, NEW u, NEW on, NEW guards, NEW loops,
           Recording(q, t, f, k, u, on, guards, loops), IsSeq(q), q # <<>>,
           At(f, k).back = 0, NEW node, node = At(f, k).node, node.kind = "in",
           NEW c, BlockOf(c, node, q[1].guards, q[1].rep)
    PROVE  Recording(c \o Tail(q), t, f, k + 1, u, node.surface, guards, loops)
<1> DEFINE r == c \o Tail(q)
           k2 == k + 1
           on2 == node.surface
<1>1. /\ Lined(q, f, k, on) /\ Marked(q, t, f, k, u, guards, loops) /\ Stepped(t, f, u)
    BY DEF Recording
<1>2. 1 \in DOMAIN q /\ At(f, k) = Reading[f][k][1]
    BY <1>1, HeadKnown
<1>3. /\ Lined(r, f, k2, on2) /\ Looping(r, t, f, k2, u) /\ WrittenBefore(r, t, f, k2, u)
      /\ \A d : MarkOf(r, t, f, k2, u, d) =>
            MarkOf(q, t, f, k, u, d) \/ d = Taken(q[1].guards, q[1].rep, UnderIn(At(f, k), k), At(f, k).loop)
    BY MoveBlock, Zenon
<1>4. Taken(q[1].guards, q[1].rep, UnderIn(At(f, k), k), At(f, k).loop) = Mark(q[1], Reading[f][k][1])
    BY <1>2 DEF Taken, Mark, UnderIn
<1> HIDE DEF r, k2, on2
<1>5. \A d : MarkOf(r, t, f, k2, u, d) => MarkOf(q, t, f, k, u, d)
    BY <1>2, <1>3, <1>4, HeadMark
<1>6. Marked(r, t, f, k2, u, guards, loops)
    BY <1>1, <1>5, MarkedKept
<1>7. Recording(r, t, f, k2, u, on2, guards, loops)
    BY <1>1, <1>3, <1>6 DEF Recording
<1> QED
    BY <1>7 DEF r, k2, on2

\* A guard more.
OneMore(g, old, id, cond) ==
    /\ IsSeq(g) /\ IsSeq(old) /\ Len(old) \in Nat /\ DOMAIN old = 1..Len(old) /\ DOMAIN g = 1..(Len(old) + 1)
    /\ \A r \in DOMAIN old : g[r] = old[r]
    /\ g[Len(old) + 1].id = id /\ g[Len(old) + 1].cond = cond

\* No mark has the place of a block about to be entered in this pass.
LEMMA NotYetEntered ==
    ASSUME NEW f \in Flows, Simple(f), NEW q, NEW t, NEW k, NEW u, NEW on, NEW guards, NEW loops,
           Recording(q, t, f, k, u, on, guards, loops), IsSeq(q), q # <<>>, WhenPlace(f, k),
           NEW d, MarkOf(q, t, f, k, u, d), NEW s \in DOMAIN d.under, d.under[s] = k
    PROVE  d.rep.pass # q[1].rep.pass
<1>1. Lined(q, f, k, on) /\ Stepped(t, f, u)
    BY DEF Recording
<1>2. k \in Places(f) /\ k \in Nat /\ ReadAt(f, k) /\ DOMAIN q = DOMAIN Reading[f][k]
    BY <1>1, HeadKnown
<1>3. ASSUME NEW m \in DOMAIN q, d = Mark(q[m], Reading[f][k][m]) PROVE FALSE
    <2>1. Laid(f, k, Reading[f][k][m]) /\ d.under = Reading[f][k][m].under
        BY <1>2, <1>3, MarkIs DEF ReadAt
    <2> QED
        BY <1>2, <2>1 DEF Laid
<1>4. ASSUME NEW i \in DOMAIN t, d = Mark(t[i], At(f, u[i])) PROVE d.rep.pass # q[1].rep.pass
    <2>1. d.under = At(f, u[i]).under /\ d.rep = t[i].rep
        BY <1>4, MarkIs
    <2>2. u[i] \in Places(f) /\ u[i] \in Nat
        BY <1>1, PlacesNat
    <2>3. k < u[i]
        BY <2>1, <2>2, WhenPlaces
    <2>4. ~(u[i] < k) /\ At(f, k).back = 0
        BY <1>2, <2>2, <2>3 DEF WhenPlace, Fresh
    <2>5. t[i].rep.pass < q[1].rep.pass /\ t[i].rep.pass \in Nat /\ q[1].rep.pass \in Nat
        BY <2>4, EarlierPass
    <2> QED
        BY <2>1, <2>5
<1> QED
    BY <1>3, <1>4 DEF MarkOf

\* A when: block is entered.
LEMMA MoveWhen ==
    ASSUME NEW f \in Flows, Simple(f), NEW q, NEW t, NEW k, NEW u, NEW on, NEW guards, NEW loops,
           Recording(q, t, f, k, u, on, guards, loops), IsSeq(q), q # <<>>,
           WhenPlace(f, k), NEW node, node = At(f, k).node,
           NEW g, OneMore(g, q[1].guards, guards + 1, node.when),
           NEW c, BlockOf(c, node, g, q[1].rep)
    PROVE  Recording(c \o Tail(q), t, f, k + 1, u, on, guards + 1, loops)
<1> DEFINE r == c \o Tail(q)
           k2 == k + 1
           old == q[1].guards
           n == Len(old)
           e == At(f, k)
           P == Mark(q[1], e)
           N == Taken(g, q[1].rep, UnderIn(e, k), e.loop)
<1>1. /\ Lined(q, f, k, on) /\ Marked(q, t, f, k, u, guards, loops) /\ Stepped(t, f, u)
    BY DEF Recording
<1>2. 1 \in DOMAIN q /\ At(f, k) = Reading[f][k][1] /\ k \in Nat /\ Laid(f, k, e)
    BY <1>1, HeadKnown
<1>3. At(f, k).back = 0 /\ node.kind = "when"
    BY DEF WhenPlace, Fresh
<1>4. /\ Lined(r, f, k2, on) /\ Looping(r, t, f, k2, u) /\ WrittenBefore(r, t, f, k2, u)
      /\ \A d : MarkOf(r, t, f, k2, u, d) => MarkOf(q, t, f, k, u, d) \/ d = N
    <2>1. node.kind \in {"when", "in"} /\ on = IF node.kind = "in" THEN node.surface ELSE on
        BY <1>3
    <2> QED
        BY <1>3, <2>1, MoveBlock
<1>5. MarkOf(q, t, f, k, u, P)
    BY <1>2, HeadMark
<1>6. /\ MarkSound(f, P, guards, loops) /\ guards \in Nat /\ loops \in Nat
      /\ \A d : MarkOf(q, t, f, k, u, d) => MarksAgree(P, d) /\ MarkSound(f, d, guards, loops)
    BY <1>1, <1>5 DEF Marked
<1>7. P.guards = old /\ P.rep = q[1].rep /\ P.under = e.under /\ P.loop = e.loop
    BY MarkIs
<1>8. N.guards = g /\ N.rep = q[1].rep /\ N.under = Append(e.under, k) /\ N.loop = e.loop
    <2>1. UnderIn(e, k) = Append(e.under, k)
        BY <1>3 DEF UnderIn
    <2>2. /\ N.guards = g /\ N.rep = q[1].rep /\ N.under = UnderIn(e, k) /\ N.loop = e.loop
        BY TakenIs
    <2> QED
        BY <2>1, <2>2
<1>9. /\ IsSeq(e.under) /\ DOMAIN e.under = DOMAIN old /\ n \in Nat /\ DOMAIN old = 1..n
    BY <1>2, <1>6, <1>7, Zenon DEF Laid, MarkSound, OneMore
<1>10. Len(e.under) = n
    <2>1. Len(e.under) \in Nat /\ DOMAIN e.under = 1..Len(e.under)
        BY <1>9 DEF IsSeq
    <2> QED
        BY <1>9, <2>1, SameRange
<1>11. /\ DOMAIN N.under = 1..(n + 1)
       /\ \A x \in 1..(n + 1) : N.under[x] = IF x = n + 1 THEN k ELSE e.under[x]
    <2> DEFINE under == e.under
    <2>1. IsSeq(under) /\ Len(under) = n
        BY <1>9, <1>10
    <2>2. N.under = Append(under, k)
        BY <1>8
    <2> HIDE DEF N, under
    <2>3. /\ DOMAIN Append(under, k) = 1..(n + 1)
          /\ \A x \in 1..(n + 1) : Append(under, k)[x] = IF x = n + 1 THEN k ELSE under[x]
        BY <2>1, AppendIsSeq
    <2> QED
        BY <2>2, <2>3 DEF under
<1> HIDE DEF N, P
<1>12. \A x \in 1..(n + 1) :
           \/ x \in DOMAIN P.under /\ N.under[x] = P.under[x] /\ N.guards[x] = P.guards[x]
           \/ x = n + 1 /\ N.under[x] = k /\ N.guards[x].id = guards + 1 /\ N.guards[x].cond = node.when
    <2> SUFFICES ASSUME NEW x \in 1..(n + 1)
                 PROVE  \/ x \in DOMAIN P.under /\ N.under[x] = P.under[x] /\ N.guards[x] = P.guards[x]
                        \/ x = n + 1 /\ N.under[x] = k /\ N.guards[x].id = guards + 1 /\ N.guards[x].cond = node.when
        OBVIOUS
    <2>1. CASE x = n + 1
        BY <1>8, <1>11, <2>1 DEF OneMore
    <2>2. CASE x # n + 1
        <3>1. x \in 1..n
            BY <1>9, <2>2
        <3> QED
            BY <1>7, <1>8, <1>9, <1>11, <2>2, <3>1 DEF OneMore
    <2> QED
        BY <2>1, <2>2
<1>13. MarkSound(f, N, guards + 1, loops)
    <2>1. IsSeq(N.guards) /\ DOMAIN N.guards = DOMAIN N.under
        BY <1>8, <1>11 DEF OneMore
    <2>2. ASSUME NEW x \in DOMAIN N.under
          PROVE  N.guards[x].cond = At(f, N.under[x]).node.when /\ N.guards[x].id \in 1..(guards + 1)
        <3>1. CASE x \in DOMAIN P.under /\ N.under[x] = P.under[x] /\ N.guards[x] = P.guards[x]
            <4>1. P.guards[x].cond = At(f, P.under[x]).node.when /\ P.guards[x].id \in 1..guards
                BY <1>6, <3>1 DEF MarkSound
            <4> QED
                BY <1>6, <3>1, <4>1
        <3>2. CASE x = n + 1 /\ N.under[x] = k /\ N.guards[x].id = guards + 1 /\ N.guards[x].cond = node.when
            BY <1>6, <3>2
        <3> QED
            BY <1>11, <1>12, <2>2, <3>1, <3>2
    <2> QED
        BY <1>6, <1>7, <1>8, <2>1, <2>2 DEF MarkSound
<1>14. ASSUME NEW d, MarkOf(q, t, f, k, u, d) PROVE MarksAgree(N, d)
    <2>1. MarksAgree(P, d) /\ MarkSound(f, d, guards, loops)
        BY <1>6, <1>14
    <2>2. ASSUME NEW x \in DOMAIN N.under, NEW s \in DOMAIN d.under
          PROVE  /\ N.guards[x].id = d.guards[s].id => N.under[x] = d.under[s]
                 /\ N.under[x] = d.under[s] /\ N.rep.pass = d.rep.pass => N.guards[x].id = d.guards[s].id
        <3>1. CASE x \in DOMAIN P.under /\ N.under[x] = P.under[x] /\ N.guards[x] = P.guards[x]
            BY <1>7, <1>8, <2>1, <3>1 DEF MarksAgree
        <3>2. CASE N.under[x] = k /\ N.guards[x].id = guards + 1
            <4>1. d.guards[s].id \in 1..guards
                BY <2>1 DEF MarkSound
            <4>2. d.under[s] = k => d.rep.pass # q[1].rep.pass
                BY <1>14, NotYetEntered
            <4> QED
                BY <1>6, <1>8, <3>2, <4>1, <4>2
        <3> QED
            BY <1>11, <1>12, <2>2, <3>1, <3>2
    <2> QED
        BY <1>7, <1>8, <2>1, <2>2 DEF MarksAgree
<1>15. MarksAgree(N, N)
    <2>1. MarksAgree(P, P)
        BY <1>5, <1>6
    <2>2. ASSUME NEW x \in DOMAIN N.under, NEW s \in DOMAIN N.under
          PROVE  N.guards[x].id = N.guards[s].id <=> N.under[x] = N.under[s]
        <3>1. ASSUME NEW y \in DOMAIN P.under PROVE P.guards[y].id # guards + 1 /\ P.under[y] # k
            <4>1. P.guards[y].id \in 1..guards
                BY <1>6 DEF MarkSound
            <4>2. P.under[y] \in 1..(k - 1)
                BY <1>2, <1>7, <3>1 DEF Laid
            <4> QED
                BY <1>2, <1>6, <4>1, <4>2
        <3>2. \A y, z \in DOMAIN P.under : P.guards[y].id = P.guards[z].id <=> P.under[y] = P.under[z]
            BY <2>1 DEF MarksAgree
        <3> QED
            BY <1>11, <1>12, <2>2, <3>1, <3>2
    <2> QED
        BY <2>2 DEF MarksAgree
<1> HIDE DEF r, k2
<1>16. Marked(r, t, f, k2, u, guards + 1, loops)
    <2>1. guards + 1 \in Nat /\ guards <= guards + 1 /\ loops <= loops
        BY <1>6
    <2> QED
        BY <1>1, <1>4, <1>6, <1>13, <1>14, <1>15, <2>1, MarkedGrows
<1>17. Recording(r, t, f, k2, u, on, guards + 1, loops)
    BY <1>1, <1>4, <1>16 DEF Recording
<1> QED
    BY <1>17 DEF r, k2

\* The steps of a pass, as they are queued, and behind them the loop.
PassOf1(c, node, g, rep, last, own, passes) ==
    LET n == Len(node.steps)
    IN  /\ IsSeq(c) /\ DOMAIN c = 1..(n + 1) /\ Len(c) = n + 1
        /\ \A m \in 1..n :
              c[m].node = node.steps[m] /\ c[m].guards = g /\ c[m].rep = rep /\ c[m].own = 0 /\ c[m].passes = 0
        /\ c[n + 1].node = node /\ c[n + 1].guards = g /\ c[n + 1].rep = last
        /\ c[n + 1].own = own /\ c[n + 1].passes = passes

\* Where a pass of loop s begins.
PassPlace(f, s, k) == LoopPlace(f, s) /\ k \in {s, Return(f, s)}

\* Where a loop stands that may take a pass: at its start, or where it comes back.
LEMMA PassPlaces ==
    ASSUME NEW f \in Flows, Simple(f), NEW s, NEW k, PassPlace(f, s, k)
    PROVE  /\ k \in Places(f) /\ s \in Places(f) /\ s \in Nat \ {0} /\ At(f, k).loop = 0 /\ At(f, k).under = <<>>
           /\ At(f, k).node = At(f, s).node /\ At(f, k).surface = At(f, s).surface /\ At(f, s).back = 0
           /\ k = s => At(f, k).back = 0
           /\ k # s => k = Return(f, s) /\ At(f, k).back = s
           /\ At(f, s).loop = 0 /\ At(f, s).under = <<>> /\ At(f, s).node.kind = "repeat" /\ IsLine(At(f, s))
           /\ At(f, s).node \in Nodes
           /\ Tail(Reading[f][k]) = Tail(Reading[f][s])
           /\ \A j \in DOMAIN Reading[f][k] : j # 1 => Reading[f][k][j].back = 0 /\ Reading[f][k][j].loop = 0
<1>1. /\ s \in Places(f) /\ s \in Nat \ {0} /\ Return(f, s) \in Places(f)
      /\ At(f, s).back = 0 /\ At(f, s).loop = 0 /\ At(f, s).node.kind = "repeat"
      /\ At(f, Return(f, s)).back = s /\ At(f, Return(f, s)).loop = 0 /\ At(f, Return(f, s)).surface = At(f, s).surface
    BY LoopPlaces DEF PassPlace
<1>2. At(f, Return(f, s)) = [At(f, s) EXCEPT !.back = s] /\ Tail(Reading[f][Return(f, s)]) = Tail(Reading[f][s])
    BY LoopEnds DEF PassPlace, Return
<1>3. Laid(f, s, At(f, s)) /\ At(f, s).node \in Nodes
    BY <1>1, LineKnown
<1>4. IsLine(At(f, s)) /\ At(f, s).under = <<>>
    BY <1>1, <1>3 DEF Laid, Simple, Plain
<1>5. At(f, Return(f, s)).node = At(f, s).node /\ At(f, Return(f, s)).under = <<>>
    BY <1>2, <1>4, BackIs
<1> DEFINE S == Reading[f][s]
           L == Reading[f][k]
<1>6. k = s \/ k = Return(f, s)
    BY DEF PassPlace
<1>7. k \in Places(f) /\ Tail(L) = Tail(S)
    BY <1>1, <1>2, <1>6
<1>8. ASSUME NEW j \in DOMAIN L, j # 1 PROVE L[j].back = 0 /\ L[j].loop = 0
    <2>1. \A i \in DOMAIN S : S[i].back = 0 /\ S[i].loop = 0
        BY LoopAlonePlace DEF PassPlace
    <2>2. IsSeq(S) /\ S # <<>> /\ IsSeq(L) /\ L # <<>>
        BY <1>1, <1>7, LineKnown
    <2> HIDE DEF S, L
    <2>3. /\ Len(S) \in Nat \ {0} /\ DOMAIN S = 1..Len(S) /\ DOMAIN Tail(S) = 1..(Len(S) - 1)
          /\ \A m \in DOMAIN Tail(S) : Tail(S)[m] = S[m + 1]
        BY <2>2, TailIsSeq
    <2>4. /\ Len(L) \in Nat \ {0} /\ DOMAIN L = 1..Len(L) /\ DOMAIN Tail(L) = 1..(Len(L) - 1)
          /\ \A m \in DOMAIN Tail(L) : Tail(L)[m] = L[m + 1]
        BY <2>2, TailIsSeq
    <2>5. j - 1 \in DOMAIN Tail(L) /\ (j - 1) + 1 = j
        BY <1>8, <2>4
    <2> DEFINE T == Tail(S)
    <2>5a. PICK i : i = j - 1
        OBVIOUS
    <2>5b. i \in DOMAIN T /\ i + 1 = j /\ Tail(L) = T
        BY <1>7, <2>5, <2>5a, Zenon
    <2>5c. T[i] = L[i + 1] /\ T[i] = S[i + 1]
        BY <2>3, <2>4, <2>5b, Zenon
    <2>5d. i + 1 \in DOMAIN S
        BY <2>3, <2>5b
    <2>6. L[j] = S[j] /\ j \in DOMAIN S
        BY <2>5b, <2>5c, <2>5d
    <2> QED
        BY <2>1, <2>6
<1> QED
    BY <1>1, <1>3, <1>4, <1>5, <1>6, <1>7, <1>8

\* What was written of the loop before.
LEMMA PassBefore ==
    ASSUME NEW f \in Flows, Simple(f), NEW q, NEW t, NEW s, NEW k, PassPlace(f, s, k),
           NEW u, NEW on, NEW guards, NEW loops,
           Recording(q, t, f, k, u, on, guards, loops), IsSeq(q), q # <<>>, q[1].own \in 0..loops,
           NEW own, own = IF q[1].own = 0 THEN loops + 1 ELSE q[1].own
    PROVE  /\ q[1].passes \in Nat /\ own # 0 /\ loops \in Nat
           /\ q[1].own = 0 <=> k = s
           /\ \A d : MarkOf(q, t, f, k, u, d) => (d.rep.id = own <=> d.loop = s)
           /\ \A i \in DOMAIN t : At(f, u[i]).loop = s => t[i].rep.pass <= q[1].passes
           /\ \A i \in DOMAIN t : At(f, u[i]).loop = s \/ u[i] < s + 1
<1> DEFINE L == Reading[f][k]
<1>1. /\ Lined(q, f, k, on) /\ Looping(q, t, f, k, u) /\ WrittenBefore(q, t, f, k, u)
      /\ Marked(q, t, f, k, u, guards, loops) /\ Stepped(t, f, u)
    BY DEF Recording
<1>2. /\ 1 \in DOMAIN L /\ At(f, k) = L[1] /\ Fits(q[1], At(f, k), on) /\ k \in Nat /\ DOMAIN q = DOMAIN L
    BY <1>1, HeadKnown
<1>3. /\ s \in Nat \ {0} /\ At(f, k).loop = 0 /\ (k = s => At(f, k).back = 0) /\ (k # s => k = Return(f, s) /\ At(f, k).back = s)
      /\ \A j \in DOMAIN L : j # 1 => L[j].back = 0 /\ L[j].loop = 0
    BY PassPlaces
<1>4. \A i \in DOMAIN t : u[i] \in Nat /\ u[i] \in Places(f) /\ u[i] \in StepPlaces(f)
    BY <1>1, PlacesNat
<1>5. loops \in Nat /\ \A d : MarkOf(q, t, f, k, u, d) => d.rep.id \in 0..loops
    BY <1>1 DEF Marked, MarkSound
<1>6. \A x \in Places(f) : At(f, x).loop = s => s < x /\ x < Return(f, s)
    BY LoopPlaces DEF PassPlace
<1>7. CASE k = s
    <2>1. q[1].own = 0 /\ q[1].passes = 0 /\ own = loops + 1
        BY <1>2, <1>3, <1>7 DEF Fits
    <2>2. \A i \in DOMAIN t : u[i] < s
        <3> SUFFICES ASSUME NEW i \in DOMAIN t, ~(u[i] < s) PROVE FALSE
            OBVIOUS
        <3>1. At(f, k).back = 0 /\ ~(u[i] < k)
            BY <1>3, <1>7
        <3>2. At(f, k).loop # 0
            BY <3>1, EarlierPass
        <3> QED
            BY <1>3, <3>2
    <2>3. \A i \in DOMAIN t : At(f, u[i]).loop # s
        BY <1>3, <1>4, <1>6, <2>2
    <2>4. ASSUME NEW d, MarkOf(q, t, f, k, u, d) PROVE d.rep.id # own /\ d.loop # s
        <3>1. d.rep.id # own
            BY <1>5, <2>1, <2>4
        <3>2. ASSUME NEW m \in DOMAIN q, d = Mark(q[m], L[m]) PROVE d.loop # s
            <4>1. d.loop = L[m].loop /\ L[m].loop = 0
                BY <1>2, <1>3, <3>2, MarkIs
            <4> QED
                BY <1>3, <4>1
        <3>3. ASSUME NEW i \in DOMAIN t, d = Mark(t[i], At(f, u[i])) PROVE d.loop # s
            BY <2>3, <3>3, MarkIs
        <3> QED
            BY <2>4, <3>1, <3>2, <3>3 DEF MarkOf
    <2> QED
        BY <1>3, <1>4, <1>5, <1>7, <2>1, <2>2, <2>3, <2>4
<1>8. CASE k # s
    <2>1. L[1].back = s /\ s # 0 /\ k = Return(f, s)
        BY <1>2, <1>3, <1>8
    <2>2. q[1].own # 0 /\ q[1].passes \in Nat /\ own = q[1].own
        BY <1>2, <2>1 DEF Fits
    <2>3. /\ \A d : MarkOf(q, t, f, k, u, d) => (d.rep.id = own <=> d.loop = s)
          /\ \A i \in DOMAIN t : At(f, u[i]).loop = s => t[i].rep.pass <= q[1].passes
        BY <1>1, <1>2, <2>1, <2>2 DEF Looping
    <2>4. ASSUME NEW i \in DOMAIN t, At(f, u[i]).loop # s PROVE u[i] < s + 1
        <3>1. u[i] < k
            <4>1. ASSUME NEW m \in DOMAIN L, L[m].back # 0, At(f, u[i]).loop = L[m].back PROVE FALSE
                <5>1. m = 1
                    BY <1>3, <4>1
                <5> QED
                    BY <2>1, <2>4, <4>1, <5>1
            <4> QED
                BY <1>1, <4>1 DEF WrittenBefore
        <3>2. Return(f, s) \in Nat /\ \A x \in (s + 1)..(Return(f, s) - 1) : At(f, x).loop = s
            BY LoopPlaces DEF PassPlace
        <3>3. u[i] \notin (s + 1)..(Return(f, s) - 1)
            BY <2>4, <3>2
        <3> QED
            BY <1>3, <1>4, <2>1, <3>1, <3>2, <3>3
    <2> QED
        BY <1>5, <1>8, <2>2, <2>3, <2>4
<1> QED
    BY <1>7, <1>8

\* Another pass of a loop.
LEMMA MovePass ==
    ASSUME NEW f \in Flows, Simple(f), NEW q, NEW t, NEW s, NEW k, PassPlace(f, s, k),
           NEW u, NEW on, NEW guards, NEW loops,
           Recording(q, t, f, k, u, on, guards, loops), IsSeq(q), q # <<>>, q[1].own \in 0..loops,
           NEW own, own = IF q[1].own = 0 THEN loops + 1 ELSE q[1].own,
           NEW loops2, loops2 = IF q[1].own = 0 THEN loops + 1 ELSE loops,
           NEW node, node = At(f, s).node, NEW passes, passes = q[1].passes + 1,
           NEW rep, rep.id = own, rep.pass = passes, rep.max = node.max, rep.until = node.until,
           NEW c, PassOf1(c, node, q[1].guards, rep, q[1].rep, own, passes)
    PROVE  Recording(c \o Tail(q), t, f, s + 1, u, on, guards, loops2)
<1> DEFINE L == Reading[f][k]
           k2 == s + 1
           M == Reading[f][k2]
           r == c \o Tail(q)
           e == At(f, s)
           d == Entered(e, s)
           n == Len(node.steps)
           P == Mark(q[1], L[1])
           N == Taken(q[1].guards, rep, <<>>, s)
<1>1. /\ Lined(q, f, k, on) /\ Looping(q, t, f, k, u) /\ WrittenBefore(q, t, f, k, u)
      /\ Marked(q, t, f, k, u, guards, loops) /\ Stepped(t, f, u)
    BY DEF Recording
<1>2. /\ k \in Places(f) /\ k \in Nat /\ IsSeq(L) /\ L # <<>>
      /\ 1 \in DOMAIN q /\ DOMAIN q = DOMAIN L /\ At(f, k) = L[1] /\ Fits(q[1], At(f, k), on)
    BY <1>1, HeadKnown
<1>3. /\ s \in Places(f) /\ s \in Nat \ {0} /\ At(f, k).loop = 0 /\ At(f, k).under = <<>> /\ At(f, k).node = node
      /\ At(f, k).surface = e.surface /\ e.back = 0 /\ e.loop = 0 /\ e.under = <<>> /\ node.kind = "repeat" /\ IsLine(e)
      /\ Tail(L) = Tail(Reading[f][s])
      /\ \A j \in DOMAIN L : j # 1 => L[j].back = 0 /\ L[j].loop = 0
    BY PassPlaces
<1>4. /\ q[1].passes \in Nat /\ own # 0 /\ loops \in Nat
      /\ \A b : MarkOf(q, t, f, k, u, b) => (b.rep.id = own <=> b.loop = s)
      /\ \A i \in DOMAIN t : At(f, u[i]).loop = s => t[i].rep.pass <= q[1].passes
      /\ \A i \in DOMAIN t : At(f, u[i]).loop = s \/ u[i] < s + 1
    BY PassBefore
<1>5. s # Limit /\ e.node \in Nodes /\ k2 \in 1..Limit /\ k2 \in Nat /\ Reading[f][s] # <<>>
    BY <1>3, LineKnown
<1>6. M = d \o Tail(L)
    <2>1. M = Onwards(Reading[f][s], s)
        BY <1>3, <1>5, LineKnown, ReadingSteps
    <2>2. Head(Reading[f][s]) = e
        BY DEF At
    <2> QED
        BY <1>3, <1>5, <2>1, <2>2 DEF Onwards
<1>7. /\ IsSeq(d) /\ Len(d) = n + 1 /\ DOMAIN d = 1..(n + 1) /\ n \in Nat
      /\ \A m \in 1..n : d[m] = Line(node.steps[m], UnderIn(e, s), LoopIn(e, s), SurfaceIn(e))
      /\ d[n + 1] = [e EXCEPT !.back = s]
    BY <1>3, <1>5, EnteredLines
<1>8. UnderIn(e, s) = <<>> /\ LoopIn(e, s) = s /\ SurfaceIn(e) = on
    BY <1>2, <1>3 DEF UnderIn, LoopIn, SurfaceIn, Fits
<1>9. ASSUME NEW m \in 1..n
      PROVE  d[m].node = node.steps[m] /\ d[m].under = <<>> /\ d[m].loop = s /\ d[m].surface = on /\ d[m].back = 0
    BY <1>7, <1>8, LineIs
<1>10. /\ d[n + 1].node = node /\ d[n + 1].under = <<>> /\ d[n + 1].loop = 0 /\ d[n + 1].surface = on /\ d[n + 1].back = s
    <2>1. e.surface = on
        BY <1>2, <1>3 DEF Fits
    <2> QED
        BY <1>3, <1>7, <2>1, BackIs
<1>11. MarkSound(f, P, guards, loops) /\ MarkOf(q, t, f, k, u, P)
    BY <1>1, <1>2, HeadMark DEF Marked
<1>12. P.guards = q[1].guards /\ P.rep = q[1].rep /\ P.under = <<>> /\ P.loop = 0
    BY <1>2, <1>3, MarkIs
<1>13. N.guards = q[1].guards /\ N.rep = rep /\ N.under = <<>> /\ N.loop = s
    BY TakenIs
<1> HIDE DEF L, M, r, k2, e, d, n, P, N
<1>14. /\ L = Reading[f][k] /\ M = Reading[f][k2] /\ r = c \o Tail(q) /\ k2 = s + 1 /\ e = At(f, s) /\ n = Len(node.steps)
       /\ P = Mark(q[1], L[1]) /\ N = Taken(q[1].guards, rep, <<>>, s)
    BY DEF L, M, r, k2, e, n, P, N
<1>15. IsSeq(c) /\ Len(c) = Len(d) /\ DOMAIN c = DOMAIN d /\ Len(c) = n + 1
    BY <1>7, <1>14 DEF PassOf1
<1>16. /\ Gives(q, L, r, M, n + 1)
       /\ \A m \in 1..(n + 1) : m \in DOMAIN M /\ m \in DOMAIN c /\ r[m] = c[m] /\ M[m] = d[m]
    <2>1. IsSeq(q) /\ q # <<>> /\ IsSeq(L) /\ DOMAIN q = DOMAIN L /\ IsSeq(c) /\ IsSeq(d) /\ Len(c) = Len(d)
          /\ r = Instead(c, q) /\ M = Instead(d, L)
        BY <1>2, <1>6, <1>7, <1>14, <1>15 DEF Instead
    <2>2. Gives(q, L, r, M, Len(c)) /\ Len(c) \in Nat /\ Placed(c, d, r, M)
        BY <2>1, GivesBlock
    <2> QED
        BY <1>15, <2>2 DEF Placed
\* A line of the pass, the loop behind it, and a line behind that.
<1>17. ASSUME NEW m \in DOMAIN M, m \in 1..n
       PROVE  /\ r[m].node = M[m].node /\ r[m].guards = q[1].guards /\ r[m].rep = rep /\ r[m].own = 0 /\ r[m].passes = 0
              /\ M[m].back = 0 /\ M[m].loop = s /\ M[m].surface = on /\ M[m].under = <<>>
    <2>1. m \in 1..(n + 1)
        BY <1>7, <1>17
    <2>2. r[m] = c[m] /\ M[m] = d[m]
        BY <1>16, <2>1
    <2>3. /\ c[m].node = node.steps[m] /\ c[m].guards = q[1].guards /\ c[m].rep = rep
          /\ c[m].own = 0 /\ c[m].passes = 0
        BY <1>14, <1>17 DEF PassOf1
    <2> QED
        BY <1>9, <1>17, <2>2, <2>3
<1>18. /\ n + 1 \in DOMAIN M /\ r[n + 1].node = node /\ r[n + 1].guards = q[1].guards /\ r[n + 1].rep = q[1].rep
       /\ r[n + 1].own = own /\ r[n + 1].passes = passes
       /\ M[n + 1].node = node /\ M[n + 1].back = s /\ M[n + 1].loop = 0 /\ M[n + 1].surface = on /\ M[n + 1].under = <<>>
    <2>1. n + 1 \in 1..(n + 1)
        BY <1>7
    <2>2. n + 1 \in DOMAIN M /\ r[n + 1] = c[n + 1] /\ M[n + 1] = d[n + 1]
        BY <1>16, <2>1
    <2> QED
        BY <1>10, <1>14, <2>2 DEF PassOf1
<1>19. ASSUME NEW m \in DOMAIN M, m \notin 1..(n + 1)
       PROVE  M[m].back = 0 /\ M[m].loop = 0
    <2>1. PICK j \in DOMAIN L : j # 1 /\ M[m] = L[j]
        BY <1>16, <1>19 DEF Gives
    <2> QED
        BY <1>3, <2>1
<1>20. \A m \in DOMAIN M : m \in 1..(n + 1) => m = n + 1 \/ m \in 1..n
    BY <1>7
<1>21. NewFits(r, M, n + 1, on)
    <2> SUFFICES ASSUME NEW m \in DOMAIN M, m \in 1..(n + 1) PROVE Fits(r[m], M[m], on)
        BY DEF NewFits
    <2>1. CASE m \in 1..n
        BY <1>17, <2>1 DEF Fits
    <2>2. CASE m = n + 1
        BY <1>3, <1>4, <1>18, <2>2 DEF Fits
    <2> QED
        BY <1>20, <2>1, <2>2
<1>22. Lined(r, f, k2, on)
    <2>1. /\ Lined(q, f, k, on) /\ L = Reading[f][k] /\ k2 \in 1..Limit /\ M = Reading[f][k2]
          /\ Gives(q, L, r, M, n + 1)
        BY <1>1, <1>5, <1>14, <1>16
    <2> QED
        BY <1>21, <2>1, GivesLined
<1>23. ASSUME NEW b, MarkOf(r, t, f, k2, u, b) PROVE MarkOf(q, t, f, k, u, b) \/ b = N
    <2>0. Wrote(q, t, k, u, t, u)
        BY DEF Wrote
    <2>1. MarkOf(q, t, f, k, u, b) \/ NewMark(r, M, n + 1, b)
        BY <1>2, <1>14, <1>16, <1>23, <2>0, GivesMarks
    <2>2. ASSUME NEW m \in DOMAIN M, m \in 1..(n + 1), b = Mark(r[m], M[m]) PROVE b = N \/ b = P
        <3>1. CASE m \in 1..n
            BY <1>14, <1>17, <2>2, <3>1 DEF Mark, Taken
        <3>2. CASE m = n + 1
            <4>1. b = [guards |-> q[1].guards, rep |-> q[1].rep, under |-> <<>>, loop |-> 0]
                BY <1>18, <2>2, <3>2 DEF Mark
            <4>2. P = [guards |-> q[1].guards, rep |-> q[1].rep, under |-> <<>>, loop |-> 0]
                BY <1>2, <1>3, <1>14 DEF Mark
            <4> QED
                BY <4>1, <4>2
        <3> QED
            BY <1>20, <2>2, <3>1, <3>2
    <2> QED
        BY <1>11, <2>1, <2>2 DEF NewMark
<1>24. \A b : MarkOf(r, t, f, k2, u, b) => (b.rep.id = own <=> b.loop = s)
    BY <1>4, <1>13, <1>23
<1>25. Looping(r, t, f, k2, u)
    <2> SUFFICES ASSUME NEW m \in DOMAIN M, M[m].back # 0
                 PROVE  /\ \A b : MarkOf(r, t, f, k2, u, b) => (b.rep.id = r[m].own <=> b.loop = M[m].back)
                        /\ \A l \in DOMAIN M : M[l].loop = M[m].back => r[l].rep.pass = r[m].passes
                        /\ \A i \in DOMAIN t : At(f, u[i]).loop = M[m].back => t[i].rep.pass <= r[m].passes
        <3>1. M = Reading[f][k2]
            BY <1>14
        <3> QED
            BY <3>1, Zenon DEF Looping
    <2>1. m = n + 1
        BY <1>17, <1>19, <1>20
    <2>2. M[m].back = s /\ r[m].own = own /\ r[m].passes = passes
        BY <1>18, <2>1
    <2>3. ASSUME NEW l \in DOMAIN M, M[l].loop = s PROVE r[l].rep.pass = passes
        BY <1>3, <1>17, <1>18, <1>19, <1>20, <2>3
    <2>4. ASSUME NEW i \in DOMAIN t, At(f, u[i]).loop = s PROVE t[i].rep.pass <= passes
        <3>1. t[i].rep.pass <= q[1].passes
            BY <1>4, <2>4
        <3>2. t[i].rep.pass \in Nat
            <4>1. MarkSound(f, Mark(t[i], At(f, u[i])), guards, loops)
                BY <1>1, <1>2, HeadMark DEF Marked
            <4> QED
                BY <4>1, MarkIs DEF MarkSound
        <3> QED
            BY <1>4, <3>1, <3>2
    <2> QED
        BY <1>24, <2>2, <2>3, <2>4
<1>26. WrittenBefore(r, t, f, k2, u)
    <2> SUFFICES ASSUME NEW i \in DOMAIN t
                 PROVE  \/ u[i] < k2
                        \/ \E m \in DOMAIN M : M[m].back # 0 /\ At(f, u[i]).loop = M[m].back /\ t[i].rep.pass < r[m].passes
        BY <1>14 DEF WrittenBefore
    <2>1. CASE At(f, u[i]).loop = s
        <3>1. t[i].rep.pass <= q[1].passes
            BY <1>4, <2>1
        <3>2. t[i].rep.pass \in Nat
            <4>1. MarkSound(f, Mark(t[i], At(f, u[i])), guards, loops)
                BY <1>1, <1>2, HeadMark DEF Marked
            <4> QED
                BY <4>1, MarkIs DEF MarkSound
        <3>3. t[i].rep.pass < r[n + 1].passes
            BY <1>4, <1>18, <3>1, <3>2
        <3> QED
            BY <1>3, <1>18, <2>1, <3>3
    <2> QED
        BY <1>4, <1>14, <2>1
<1>27. loops2 \in Nat /\ loops <= loops2 /\ own \in 0..loops2 /\ guards \in Nat /\ guards <= guards
    BY <1>1, <1>4 DEF Marked
<1>28. MarkSound(f, N, guards, loops2)
    <2>1. IsSeq(N.guards) /\ DOMAIN N.guards = DOMAIN N.under /\ DOMAIN N.under = {}
        <3>1. DOMAIN <<>> = {}
            BY ShortIsSeq
        <3> QED
            BY <1>11, <1>12, <1>13, <3>1 DEF MarkSound
    <2>2. N.rep.id = own /\ N.rep.pass = passes /\ passes \in Nat /\ N.loop = s
        BY <1>4, <1>13
    <2> QED
        BY <1>3, <1>4, <1>13, <1>14, <1>27, <2>1, <2>2 DEF MarkSound
<1>29. DOMAIN N.under = {}
    BY <1>13, ShortIsSeq
<1>30. ASSUME NEW b, MarkOf(q, t, f, k, u, b) PROVE MarksAgree(N, b)
    BY <1>4, <1>13, <1>29, <1>30 DEF MarksAgree
<1>31. MarksAgree(N, N)
    BY <1>29 DEF MarksAgree
<1>32. Marked(r, t, f, k2, u, guards, loops2)
    BY <1>1, <1>23, <1>27, <1>28, <1>30, <1>31, MarkedGrows
<1>33. Recording(r, t, f, k2, u, on, guards, loops2)
    BY <1>1, <1>22, <1>25, <1>26, <1>32 DEF Recording
<1> QED
    BY <1>14, <1>33

\* The recorder is at place k.
At1(k, u) == Recording(queue, trace, flow, k, u, active, guardIds, loopIds)
Recorded1 == \E k, u : Recording(queue, trace, flow, k, u, active, guardIds, loopIds)

\* The recorder at the head of its queue.
LEMMA RecorderHead ==
    ASSUME Written, flow \in Flows, Simple(flow), NEW k, NEW u, At1(k, u), queue # <<>>
    PROVE  /\ k \in Places(flow) /\ k \in Nat /\ k \in 1..Limit /\ IsSeq(queue) /\ Head(queue) = queue[1] /\ 1 \in DOMAIN queue
           /\ queue[1].node = At(flow, k).node /\ EntryTyped(queue[1]) /\ At(flow, k).node \in Nodes
           /\ At(flow, k).node.kind # "repeat" => Fresh(flow, k)
           /\ At(flow, k).node.kind = "repeat" => \E s : PassPlace(flow, s, k) /\ At(flow, s).node = At(flow, k).node
                                                         /\ (k # s => k = Return(flow, s))
<1>1. IsSeq(queue) /\ \A m \in DOMAIN queue : EntryTyped(queue[m])
    BY DEF Written, QueueTyped
<1>2. Lined(queue, flow, k, active)
    BY DEF At1, Recording
<1>3. /\ k \in Places(flow) /\ k \in Nat /\ k \in 1..Limit /\ Head(queue) = queue[1] /\ 1 \in DOMAIN queue
      /\ Fits(queue[1], At(flow, k), active) /\ Laid(flow, k, At(flow, k)) /\ At(flow, k).node \in Nodes
    BY <1>1, <1>2, HeadKnown, LineKnown
<1> DEFINE e == At(flow, k)
<1>4. e.back # 0 => LoopPlace(flow, e.back) /\ e.node = At(flow, e.back).node /\ k = Return(flow, e.back)
    BY <1>3, LoopPlaces DEF Laid
<1>5. e.node.kind # "repeat" => Fresh(flow, k)
    BY <1>3, <1>4 DEF Fresh, LoopPlace
<1>6. ASSUME e.node.kind = "repeat"
      PROVE  \E s : PassPlace(flow, s, k) /\ At(flow, s).node = e.node /\ (k # s => k = Return(flow, s))
    <2>1. CASE e.back # 0
        BY <1>4, <2>1 DEF PassPlace
    <2>2. CASE e.back = 0
        <3>1. LoopPlace(flow, k)
            BY <1>3, <1>6, <2>2 DEF LoopPlace, Fresh
        <3> QED
            BY <3>1 DEF PassPlace
    <2> QED
        BY <2>1, <2>2
<1> QED
    BY <1>1, <1>3, <1>5, <1>6 DEF Fits

\* The steps of a block, as the recorder queues them.
LEMMA BlockIsQueued ==
    ASSUME NEW node \in Nodes, node.kind # "step", NEW g, NEW rep, NEW numbers,
           NEW c, c = [i \in DOMAIN node.steps |-> Queued(node.steps[i], g, rep, numbers[i])]
    PROVE  BlockOf(c, node, g, rep) /\ Len(node.steps) \in Nat
<1>1. node.steps \in Seq(Nodes)
    BY NodesAssumption
<1>2. Len(node.steps) \in Nat /\ DOMAIN node.steps = 1..Len(node.steps)
    BY <1>1
<1>3. c = [i \in 1..Len(node.steps) |-> c[i]]
    BY <1>2
<1>4. IsSeq(c) /\ Len(c) = Len(node.steps) /\ DOMAIN c = 1..Len(node.steps)
    BY <1>2, <1>3, FunIsSeq
<1>5. ASSUME NEW m \in DOMAIN c
      PROVE  c[m].node = node.steps[m] /\ c[m].guards = g /\ c[m].rep = rep /\ c[m].own = 0 /\ c[m].passes = 0
    <2>1. c[m] = Queued(node.steps[m], g, rep, numbers[m])
        BY <1>2, <1>4, <1>5
    <2> QED
        BY <2>1 DEF Queued
<1> QED
    BY <1>2, <1>4, <1>5 DEF BlockOf

\* One guard more.
LEMMA GuardAdded ==
    ASSUME NEW old, IsSeq(old), NEW id, NEW cond
    PROVE  OneMore(old \o <<[id |-> id, cond |-> cond]>>, old, id, cond)
<1> DEFINE x == [id |-> id, cond |-> cond]
           more == <<x>>
           g == old \o more
<1>1. x.id = id /\ x.cond = cond
    OBVIOUS
<1> HIDE DEF x
<1>2. IsSeq(more) /\ Len(more) = 1 /\ more[1] = x
    BY ShortIsSeq
<1> HIDE DEF more
<1>3. /\ IsSeq(g) /\ Len(old) \in Nat /\ DOMAIN g = 1..(Len(old) + 1) /\ DOMAIN old = 1..Len(old)
      /\ \A k \in DOMAIN g : g[k] = IF k <= Len(old) THEN old[k] ELSE more[k - Len(old)]
    <2>1. PICK w : w = more
        OBVIOUS
    <2>2. IsSeq(old) /\ IsSeq(w) /\ Len(w) = 1
        BY <1>2, <2>1
    <2>3. /\ IsSeq(old \o w) /\ Len(old) \in Nat /\ DOMAIN (old \o w) = 1..(Len(old) + Len(w)) /\ DOMAIN old = 1..Len(old)
          /\ \A k \in DOMAIN (old \o w) : (old \o w)[k] = IF k <= Len(old) THEN old[k] ELSE w[k - Len(old)]
        BY <2>2, ConcatIsSeq, Zenon
    <2> QED
        BY <2>1, <2>2, <2>3
<1> DEFINE n == Len(old)
<1> HIDE DEF g, n
<1>4. IsSeq(g) /\ n \in Nat /\ DOMAIN g = 1..(n + 1) /\ DOMAIN old = 1..n
      /\ \A k \in 1..(n + 1) : g[k] = IF k <= n THEN old[k] ELSE more[k - n]
    BY <1>3 DEF n
<1>5. g[n + 1] = more[1]
    <2>1. n + 1 \in 1..(n + 1) /\ ~(n + 1 <= n) /\ (n + 1) - n = 1
        BY <1>4
    <2> QED
        BY <1>4, <2>1
<1>6. \A k \in DOMAIN old : g[k] = old[k]
    BY <1>4
<1>7. OneMore(g, old, id, cond)
    BY <1>1, <1>2, <1>4, <1>5, <1>6 DEF OneMore, n
<1> QED
    BY <1>7 DEF g, more, x

\* A when: block is entered.
LEMMA TakesBranch ==
    ASSUME Written, flow \in Flows, Simple(flow), NEW k, NEW u, At1(k, u), TakeBranch
    PROVE  Recorded1'
<1>1. queue # <<>> /\ Head(queue).node.kind = "when"
    BY DEF TakeBranch, Pops
<1>2. /\ k \in Places(flow) /\ IsSeq(queue) /\ Head(queue) = queue[1] /\ queue[1].node = At(flow, k).node
      /\ EntryTyped(queue[1]) /\ At(flow, k).node \in Nodes /\ WhenPlace(flow, k)
    BY <1>1, RecorderHead DEF WhenPlace
<1>3. PICK f : f = flow
    OBVIOUS
<1>4. PICK q : q = queue
    OBVIOUS
<1>5. PICK node : node = q[1].node
    OBVIOUS
<1>6. PICK g : g = q[1].guards \o <<[id |-> guardIds + 1, cond |-> node.when]>>
    OBVIOUS
<1>7. PICK c : c = [i \in DOMAIN node.steps |-> Queued(node.steps[i], g, q[1].rep, q[1].number)]
    OBVIOUS
<1>8. node.when \notin Compared
    BY <1>1, <1>2, <1>4, <1>5 DEF Simple, Nested
<1>9. /\ queue' = c \o Tail(q) /\ guardIds' = guardIds + 1
      /\ UNCHANGED <<flow, active, trace, loopIds>>
    <2>1. GuardFor(node.when, guardIds + 1) = <<[id |-> guardIds + 1, cond |-> node.when]>>
        BY <1>8 DEF GuardFor
    <2> QED
        BY <1>2, <1>4, <1>5, <1>6, <1>7, <2>1, Zenon DEF TakeBranch, QueuedAll, page
<1>10. OneMore(g, q[1].guards, guardIds + 1, node.when)
    BY <1>2, <1>4, <1>6, GuardAdded DEF EntryTyped
<1>11. BlockOf(c, node, g, q[1].rep)
    <2>1. PICK n : n = [i \in DOMAIN node.steps |-> q[1].number]
        OBVIOUS
    <2>2. c = [i \in DOMAIN node.steps |-> Queued(node.steps[i], g, q[1].rep, n[i])]
        BY <1>7, <2>1
    <2> QED
        BY <1>1, <1>2, <1>4, <1>5, <2>2, BlockIsQueued
<1>12. Recording(c \o Tail(q), trace, f, k + 1, u, active, guardIds + 1, loopIds)
    <2>1. /\ Recording(q, trace, f, k, u, active, guardIds, loopIds) /\ IsSeq(q) /\ q # <<>> /\ f \in Flows /\ Simple(f)
          /\ WhenPlace(f, k) /\ node = At(f, k).node
        BY <1>1, <1>2, <1>3, <1>4, <1>5 DEF At1
    <2> QED
        BY <1>10, <1>11, <2>1, MoveWhen
<1> QED
    BY <1>3, <1>9, <1>12 DEF Recorded1

\* A when: block is left out, or a loop left.
LEMMA LeavesBlock ==
    ASSUME Written, flow \in Flows, Simple(flow), NEW k, NEW u, At1(k, u), SkipBranch \/ LeaveLoop
    PROVE  Recorded1'
<1>1. /\ queue # <<>> /\ Head(queue).node.kind \in {"when", "repeat"} /\ queue' = Tail(queue)
      /\ UNCHANGED <<flow, active, trace, guardIds, loopIds>>
    BY DEF SkipBranch, LeaveLoop, Pops, page
<1>2. /\ k \in Places(flow) /\ k \in Nat /\ IsSeq(queue) /\ Head(queue) = queue[1] /\ queue[1].node = At(flow, k).node
      /\ At(flow, k).node.kind # "repeat" => Fresh(flow, k)
      /\ At(flow, k).node.kind = "repeat" => \E s : PassPlace(flow, s, k) /\ (k # s => k = Return(flow, s))
    BY <1>1, RecorderHead
<1>3. CASE Fresh(flow, k)
    <2>1. BlockPlace(flow, k)
        BY <1>1, <1>2, <1>3 DEF BlockPlace, WhenPlace, LoopPlace
    <2>2. End(flow, k) \in 1..Limit /\ k + 1 < End(flow, k) /\ Reading[flow][End(flow, k)] = Tail(Reading[flow][k])
        BY <2>1, EndFacts
    <2>3. PICK z : z = End(flow, k)
        OBVIOUS
    <2>4. z \in 1..Limit /\ k < z /\ Reading[flow][z] = Tail(Reading[flow][k])
        BY <1>2, <2>2, <2>3, ReadingSteps
    <2>5. Recording(Tail(queue), trace, flow, z, u, active, guardIds, loopIds)
        BY <1>1, <1>2, <1>3, <2>4, MoveTail DEF At1, Fresh
    <2> QED
        BY <1>1, <2>5 DEF Recorded1
<1>4. CASE ~Fresh(flow, k)
    <2>1. PICK s : PassPlace(flow, s, k) /\ (k # s => k = Return(flow, s))
        BY <1>2, <1>4
    <2>2. LoopPlace(flow, s) /\ k # s
        BY <1>4, <2>1 DEF PassPlace, LoopPlace
    <2>3. PICK z : z = End(flow, s)
        OBVIOUS
    <2>4. Recording(Tail(queue), trace, flow, z, u, active, guardIds, loopIds)
        BY <1>1, <1>2, <2>1, <2>2, <2>3, MoveReturn DEF At1
    <2> QED
        BY <1>1, <2>4 DEF Recorded1
<1> QED
    BY <1>3, <1>4

\* An in: block is entered.
LEMMA EntersIn ==
    ASSUME Written, flow \in Flows, Simple(flow), NEW k, NEW u, At1(k, u), EnterSurface
    PROVE  Recorded1'
<1>1. queue # <<>> /\ Head(queue).node.kind = "in"
    BY DEF EnterSurface, Pops
<1>2. /\ k \in Places(flow) /\ IsSeq(queue) /\ Head(queue) = queue[1] /\ queue[1].node = At(flow, k).node
      /\ EntryTyped(queue[1]) /\ At(flow, k).node \in Nodes /\ At(flow, k).back = 0
    BY <1>1, RecorderHead DEF Fresh
<1>3. PICK f : f = flow
    OBVIOUS
<1>4. PICK q : q = queue
    OBVIOUS
<1>5. PICK node : node = q[1].node
    OBVIOUS
<1>6. PICK n : n = [i \in DOMAIN node.steps |-> q[1].number + i - 1]
    OBVIOUS
<1>7. PICK c : c = [i \in DOMAIN node.steps |-> Queued(node.steps[i], q[1].guards, q[1].rep, n[i])]
    OBVIOUS
<1>8. c = [i \in DOMAIN node.steps |-> Queued(node.steps[i], q[1].guards, q[1].rep, q[1].number + i - 1)]
    BY <1>6, <1>7
<1>9. /\ queue' = c \o Tail(q) /\ active' = node.surface
      /\ UNCHANGED <<flow, trace, guardIds, loopIds>>
    BY <1>2, <1>4, <1>5, <1>8, Zenon DEF EnterSurface
<1>10. BlockOf(c, node, q[1].guards, q[1].rep)
    BY <1>1, <1>2, <1>4, <1>5, <1>7, BlockIsQueued
<1>11. Recording(c \o Tail(q), trace, f, k + 1, u, node.surface, guardIds, loopIds)
    <2>1. /\ Recording(q, trace, f, k, u, active, guardIds, loopIds) /\ IsSeq(q) /\ q # <<>> /\ f \in Flows /\ Simple(f)
          /\ At(f, k).back = 0 /\ node = At(f, k).node /\ node.kind = "in"
        BY <1>1, <1>2, <1>3, <1>4, <1>5 DEF At1
    <2> QED
        BY <1>10, <2>1, MoveIn
<1> QED
    BY <1>3, <1>9, <1>11 DEF Recorded1

\* The steps of a pass, and the loop behind them.
LEMMA PassIsQueued ==
    ASSUME NEW node \in Nodes, node.kind = "repeat", NEW g, NEW rep, NEW e, DOMAIN e = Fields, e.node = node, e.guards = g,
           NEW own, NEW passes, NEW again, again = [e EXCEPT !.passes = passes, !.own = own], NEW number,
           NEW c, c = QueuedAll(node.steps, g, rep, number) \o <<again>>
    PROVE  PassOf1(c, node, g, rep, e.rep, own, passes)
<1>1. again.node = node /\ again.guards = g /\ again.rep = e.rep /\ again.own = own /\ again.passes = passes
    BY DEF Fields
<1>2. PICK b : b = QueuedAll(node.steps, g, rep, number)
    OBVIOUS
<1>3. PICK numbers : numbers = [i \in DOMAIN node.steps |-> number]
    OBVIOUS
<1>4. b = [i \in DOMAIN node.steps |-> Queued(node.steps[i], g, rep, numbers[i])]
    BY <1>2, <1>3 DEF QueuedAll
<1>5. BlockOf(b, node, g, rep) /\ Len(node.steps) \in Nat
    BY <1>4, BlockIsQueued
<1>6. PICK l : l = <<again>>
    OBVIOUS
<1>7. IsSeq(l) /\ Len(l) = 1 /\ l[1] = again
    BY <1>6, ShortIsSeq
<1> DEFINE n == Len(node.steps)
<1>8. IsSeq(b) /\ Len(b) = n /\ DOMAIN b = 1..n /\ n \in Nat
    BY <1>5 DEF BlockOf
<1>9. /\ IsSeq(b \o l) /\ Len(b \o l) = Len(b) + Len(l) /\ DOMAIN (b \o l) = 1..(Len(b) + Len(l))
      /\ \A k \in DOMAIN (b \o l) : (b \o l)[k] = IF k <= Len(b) THEN b[k] ELSE l[k - Len(b)]
    BY <1>7, <1>8, ConcatIsSeq, Zenon
<1>10. c = b \o l
    BY <1>2, <1>6
<1> HIDE DEF n
<1>11. /\ IsSeq(c) /\ Len(c) = n + 1 /\ DOMAIN c = 1..(n + 1)
       /\ \A k \in 1..(n + 1) : c[k] = IF k <= n THEN b[k] ELSE l[k - n]
    BY <1>7, <1>8, <1>9, <1>10
<1>12. c[n + 1] = again
    <2>1. n + 1 \in 1..(n + 1) /\ ~(n + 1 <= n) /\ (n + 1) - n = 1
        BY <1>8
    <2> QED
        BY <1>7, <1>11, <2>1
<1>13. ASSUME NEW m \in 1..n
       PROVE  c[m].node = node.steps[m] /\ c[m].guards = g /\ c[m].rep = rep /\ c[m].own = 0 /\ c[m].passes = 0
    <2>1. c[m] = b[m] /\ m \in DOMAIN b
        BY <1>8, <1>11, <1>13
    <2> QED
        BY <1>5, <2>1 DEF BlockOf
<1> QED
    BY <1>1, <1>11, <1>12, <1>13 DEF PassOf1, n

\* Another pass is taken.
LEMMA TakesPass ==
    ASSUME Written, flow \in Flows, Simple(flow), NEW k, NEW u, At1(k, u), TakePass
    PROVE  Recorded1'
<1>1. queue # <<>> /\ Head(queue).node.kind = "repeat"
    BY DEF TakePass, Pops
<1>2. /\ k \in Places(flow) /\ IsSeq(queue) /\ Head(queue) = queue[1] /\ 1 \in DOMAIN queue /\ queue[1].node = At(flow, k).node
      /\ EntryTyped(queue[1]) /\ At(flow, k).node \in Nodes
      /\ \E s : PassPlace(flow, s, k) /\ At(flow, s).node = At(flow, k).node
    BY <1>1, RecorderHead
<1>3. PICK s : PassPlace(flow, s, k) /\ At(flow, s).node = At(flow, k).node
    BY <1>2
<1>4. PICK f : f = flow
    OBVIOUS
<1>5. PICK q : q = queue
    OBVIOUS
<1>6. PICK node : node = q[1].node
    OBVIOUS
<1>7. PICK own : own = IF q[1].own = 0 THEN loopIds + 1 ELSE q[1].own
    OBVIOUS
<1>8. PICK passes : passes = q[1].passes + 1
    OBVIOUS
<1>9. PICK rep : rep = [id |-> own, pass |-> passes, max |-> node.max, until |-> node.until]
    OBVIOUS
<1>10. PICK again : again = [q[1] EXCEPT !.passes = passes, !.own = own]
    OBVIOUS
<1>11. PICK c : c = QueuedAll(node.steps, q[1].guards, rep, q[1].number) \o <<again>>
    OBVIOUS
<1>12. PICK loops : loops = IF q[1].own = 0 THEN loopIds + 1 ELSE loopIds
    OBVIOUS
<1>13. node.until \notin Compared
    BY <1>1, <1>2, <1>5, <1>6 DEF Simple, Nested
<1>14. q[1].rep = NoLoop
    <2>1. At(flow, k).loop = 0
        BY <1>3, PassPlaces
    <2>2. Marked(queue, trace, flow, k, u, guardIds, loopIds) /\ At(flow, k) = Reading[flow][k][1]
        BY <1>2, LineKnown DEF At1, Recording
    <2>3. MarkSound(flow, Mark(queue[1], At(flow, k)), guardIds, loopIds)
        BY <1>2, <2>2, HeadMark DEF Marked
    <2> QED
        BY <1>5, <2>1, <2>3, MarkIs DEF MarkSound
<1>15. /\ queue' = c \o Tail(q) /\ loopIds' = loops
       /\ UNCHANGED <<flow, active, trace, guardIds>>
    <2>1. queue[1].rep = NoLoop /\ queue[1].node.until \notin Compared
        BY <1>5, <1>6, <1>13, <1>14
    <2>2. PICK e : e = Head(queue)
        OBVIOUS
    <2>3. e = q[1] /\ e.rep = NoLoop /\ e.node = node /\ e.node.until \notin Compared
        BY <1>2, <1>5, <1>6, <2>1, <2>2
    <2>4. /\ queue' = QueuedAll(e.node.steps, e.guards, RepeatFor(e.node, own, e.passes + 1), e.number)
                         \o <<[e EXCEPT !.passes = @ + 1, !.own = own]>> \o Tail(queue)
          /\ loopIds' = IF e.own = 0 THEN loopIds + 1 ELSE loopIds
          /\ UNCHANGED <<flow, active, trace, guardIds>>
        BY <1>7, <2>2, <2>3, Zenon DEF TakePass, page
    <2>5. RepeatFor(e.node, own, e.passes + 1) = rep
        BY <1>8, <1>9, <2>3 DEF RepeatFor
    <2>6. [e EXCEPT !.passes = @ + 1, !.own = own] = again
        BY <1>8, <1>10, <2>3
    <2>7. queue' = c \o Tail(q)
        BY <1>5, <1>11, <2>3, <2>4, <2>5, <2>6, Zenon
    <2> QED
        BY <1>12, <2>3, <2>4, <2>7
<1>16. PassOf1(c, node, q[1].guards, rep, q[1].rep, own, passes)
    <2>1. node \in Nodes /\ node.kind = "repeat" /\ DOMAIN q[1] = Fields
        BY <1>1, <1>2, <1>5, <1>6 DEF EntryTyped
    <2>2. PICK e : e = q[1]
        OBVIOUS
    <2> QED
        BY <1>6, <1>10, <1>11, <2>1, <2>2, PassIsQueued
<1>17. Recording(c \o Tail(q), trace, f, s + 1, u, active, guardIds, loops)
    <2>1. /\ Recording(q, trace, f, k, u, active, guardIds, loopIds) /\ IsSeq(q) /\ q # <<>> /\ f \in Flows /\ Simple(f)
          /\ PassPlace(f, s, k) /\ node = At(f, s).node /\ q[1].own \in 0..loopIds
        BY <1>1, <1>2, <1>3, <1>4, <1>5, <1>6 DEF At1, EntryTyped
    <2>2. rep.id = own /\ rep.pass = passes /\ rep.max = node.max /\ rep.until = node.until
        BY <1>9
    <2> QED
        BY <1>7, <1>8, <1>12, <1>16, <2>1, <2>2, MovePass
<1> QED
    BY <1>4, <1>15, <1>17 DEF Recorded1

\* A step is performed.
LEMMA Performs ==
    ASSUME Written, flow \in Flows, Simple(flow), NEW k, NEW u, At1(k, u), Perform
    PROVE  Recorded1'
<1>1. queue # <<>> /\ Head(queue).node.kind = "step"
    BY DEF Perform, Pops
<1>2. /\ k \in Places(flow) /\ IsSeq(queue) /\ Head(queue) = queue[1] /\ queue[1].node = At(flow, k).node
    BY <1>1, RecorderHead
<1>3. PICK x : x = [leaf |-> queue[1].node, guards |-> queue[1].guards, rep |-> queue[1].rep, number |-> queue[1].number,
                    surface |-> IF flow.multi THEN active ELSE NoSurface]
    OBVIOUS
<1>4. trace' = Append(trace, x) /\ queue' = Tail(queue) /\ UNCHANGED <<flow, active, guardIds, loopIds>>
    BY <1>2, <1>3 DEF Perform
<1>5. Written1(x, queue[1], active, flow)
    BY <1>3 DEF Written1
<1>6. PICK v : v = MovedPlaces(trace, u, k)
    OBVIOUS
<1>7. Recording(Tail(queue), Append(trace, x), flow, k + 1, v, active, guardIds, loopIds)
    BY <1>1, <1>2, <1>5, <1>6, MovePerform DEF At1
<1> QED
    BY <1>4, <1>7 DEF Recorded1

\* The trace is made of steps of flow f.
Unrolled(t, f, u, guards, loops) == Stepped(t, f, u) /\ Marked(<<>>, t, f, 0, u, guards, loops)

\* The recorder reads the flow; what it has written tells it.
Recorder ==
    Simple(flow) =>
        /\ phase = "record" => Recorded1
        /\ phase \notin {"record", "refused"} => \E u : Unrolled(trace, flow, u, guardIds, loopIds)

\* A recorder that reads a flow has unrolled what it has come by.
LEMMA UnrolledAt ==
    ASSUME NEW t, NEW f, NEW u, NEW q, NEW k, NEW on, NEW guards, NEW loops, Recording(q, t, f, k, u, on, guards, loops)
    PROVE  Unrolled(t, f, u, guards, loops)
<1>1. Stepped(t, f, u) /\ Marked(q, t, f, k, u, guards, loops)
    BY DEF Recording
<1>2. ASSUME NEW d, MarkOf(<<>>, t, f, 0, u, d) PROVE MarkOf(q, t, f, k, u, d)
    <2>1. DOMAIN <<>> = {}
        BY ShortIsSeq
    <2> QED
        BY <1>2, <2>1 DEF MarkOf
<1>3. Marked(<<>>, t, f, 0, u, guards, loops)
    BY <1>1, <1>2, MarkedKept
<1> QED
    BY <1>1, <1>3 DEF Unrolled

\* The recorder starts at the first place.
LEMMA RecorderInit ==
    ASSUME Init
    PROVE  Recorder
<1> SUFFICES ASSUME Simple(flow) PROVE Recorded1
    BY DEF Recorder, Init, RecordingInit
<1>1. /\ flow \in Flows /\ trace = <<>> /\ guardIds = 0 /\ loopIds = 0
      /\ active = IF flow.multi THEN flow.steps[1].surface ELSE Main
    BY DEF Init, RecordingInit
<1>2. PICK f : f = flow
    OBVIOUS
<1>3. PICK numbers : numbers = SpecStepNumbers(f.steps)
    OBVIOUS
<1>4. PICK q : q = [i \in DOMAIN f.steps |-> Queued(f.steps[i], <<>>, NoLoop, numbers[i])]
    OBVIOUS
<1>5. queue = q
    BY <1>2, <1>3, <1>4 DEF Init, RecordingInit
<1>6. PICK L : L = Reading[f][1]
    OBVIOUS
<1>7. L = [i \in DOMAIN f.steps |-> Line(f.steps[i], <<>>, 0, Main)] /\ 1 \in 1..Limit
    BY <1>1, <1>2, <1>6, ReadingSteps
<1>8. DOMAIN q = DOMAIN f.steps /\ DOMAIN L = DOMAIN f.steps
    BY <1>4, <1>7
<1>9. ASSUME NEW m \in DOMAIN f.steps
      PROVE  /\ q[m].node = f.steps[m] /\ q[m].guards = <<>> /\ q[m].rep = NoLoop /\ q[m].own = 0 /\ q[m].passes = 0
             /\ L[m].node = f.steps[m] /\ L[m].under = <<>> /\ L[m].loop = 0 /\ L[m].surface = Main /\ L[m].back = 0
             /\ f.steps[m].kind # "in" => active = Main
    <2>1. q[m] = Queued(f.steps[m], <<>>, NoLoop, numbers[m]) /\ L[m] = Line(f.steps[m], <<>>, 0, Main)
        BY <1>4, <1>7, <1>9
    <2>2. q[m].node = f.steps[m] /\ q[m].guards = <<>> /\ q[m].rep = NoLoop /\ q[m].own = 0 /\ q[m].passes = 0
        BY <2>1 DEF Queued
    <2>3. L[m].node = f.steps[m] /\ L[m].under = <<>> /\ L[m].loop = 0 /\ L[m].surface = Main /\ L[m].back = 0
        BY <2>1, LineIs
    <2>4. f.steps[m].kind = "in" <=> f.multi
        BY <1>1, <1>2, <1>9, SurfacesAssumption
    <2> QED
        BY <1>1, <1>2, <2>2, <2>3, <2>4
<1>10. Lined(q, f, 1, active)
    <2>1. \A m \in DOMAIN L : Fits(q[m], L[m], active)
        BY <1>8, <1>9 DEF Fits
    <2> QED
        BY <1>6, <1>7, <1>8, <2>1 DEF Lined
<1>11. DOMAIN <<>> = {} /\ IsSeq(<<>>)
    BY ShortIsSeq
<1>12. PICK u : u = <<>>
    OBVIOUS
<1>13. Looping(q, <<>>, f, 1, u) /\ WrittenBefore(q, <<>>, f, 1, u) /\ Stepped(<<>>, f, u)
    BY <1>6, <1>8, <1>9, <1>11 DEF Looping, WrittenBefore, Stepped
<1>14. ASSUME NEW d, MarkOf(q, <<>>, f, 1, u, d) PROVE d.guards = <<>> /\ d.rep = NoLoop /\ d.under = <<>> /\ d.loop = 0
    <2>1. PICK m \in DOMAIN q : d = Mark(q[m], L[m])
        BY <1>6, <1>11, <1>14 DEF MarkOf
    <2> QED
        BY <1>8, <1>9, <2>1, MarkIs
<1>15. NoLoop.id = 0 /\ NoLoop.pass = 1
    BY DEF NoLoop
<1>16. \A d : MarkOf(q, <<>>, f, 1, u, d) => MarkSound(f, d, 0, 0)
    BY <1>11, <1>14, <1>15 DEF MarkSound
<1>17. \A d, e : MarkOf(q, <<>>, f, 1, u, d) /\ MarkOf(q, <<>>, f, 1, u, e) => MarksAgree(d, e)
    BY <1>11, <1>14 DEF MarksAgree
<1>18. Marked(q, <<>>, f, 1, u, 0, 0)
    BY <1>16, <1>17 DEF Marked
<1>19. Recording(q, <<>>, f, 1, u, active, 0, 0)
    BY <1>10, <1>13, <1>18 DEF Recording
<1> QED
    BY <1>1, <1>2, <1>5, <1>19 DEF Recorded1

\* Steps that do not record.
LEMMA RecorderKept ==
    ASSUME Recorder, UNCHANGED <<phase, flow, active, recording>>
    PROVE  Recorder'
<1>1. flow' = flow /\ phase' = phase /\ queue' = queue /\ trace' = trace /\ active' = active /\ guardIds' = guardIds /\ loopIds' = loopIds
    BY DEF recording
<1> QED
    BY <1>1 DEF Recorder, Recorded1

\* Every step keeps the recorder reading the flow.
LEMMA RecorderNext ==
    ASSUME Typed, Written, Recorder, [Next]_vars
    PROVE  Recorder'
<1>0. flow \in Flows
    BY DEF Typed, TypeOK
<1>1. CASE UNCHANGED <<phase, flow, active, recording>>
    BY <1>1, RecorderKept
<1>2. ASSUME phase # "record", phase' # "record", phase # "refused", UNCHANGED <<flow, recording>> PROVE Recorder'
    <2>1. flow' = flow /\ trace' = trace /\ guardIds' = guardIds /\ loopIds' = loopIds
        BY <1>2 DEF recording
    <2> QED
        BY <1>2, <2>1 DEF Recorder
<1>3. CASE phase' = "refused"
    BY <1>3 DEF Recorder
<1>4. CASE TakeBranch \/ SkipBranch \/ LeaveLoop \/ TakePass \/ EnterSurface \/ Perform
    <2>1. phase = "record" /\ phase' = "record" /\ flow' = flow
        BY <1>4, Zenon DEF TakeBranch, SkipBranch, LeaveLoop, TakePass, EnterSurface, Perform, Pops, page
    <2> SUFFICES ASSUME Simple(flow) PROVE Recorded1'
        BY <2>1 DEF Recorder
    <2>2. PICK k, u : At1(k, u)
        BY <2>1 DEF Recorder, Recorded1, At1
    <2> QED
        BY <1>0, <1>4, <2>2, TakesBranch, LeavesBlock, TakesPass, EntersIn, Performs
<1>5. CASE LoopNeverSettles \/ Abandon
    BY <1>3, <1>5 DEF LoopNeverSettles, Abandon
<1>6. CASE Store
    <2>1. phase = "record" /\ phase' \in {"refused", "stored"} /\ UNCHANGED <<flow, trace, guardIds, loopIds>>
        BY <1>6 DEF Store, page, recording
    <2>2. Simple(flow) => \E u : Unrolled(trace, flow, u, guardIds, loopIds)
        BY <2>1, UnrolledAt DEF Recorder, Recorded1
    <2> QED
        BY <2>1, <2>2 DEF Recorder
<1>7. CASE BreakRecording
    BY <1>3, <1>7 DEF BreakRecording
<1>8. CASE ReplayStep \/ Break
    <2>1. /\ phase \in {"stored", "replay"} /\ phase' \in {"replay", "reported", "error"} /\ UNCHANGED <<flow, recording>>
        BY <1>8, Zenon DEF ReplayStep, StartReplay, LeaveOut, MeetLoop, DropLoop, SettleLoop, ExhaustLoop, RepeatLoop, NoActiveSurface,
                SkipAfterFailure, Approach, RunStep, FailStep, Report, AtStep, NextIsStep, NextIsLoop, ReadsLoop, Running, Now, Break,
                page
    <2> QED
        BY <1>2, <2>1
<1>9. CASE Drift /\ UNCHANGED <<phase, flow, app, active, captures, leaked, recording, replaying>>
    BY <1>1, <1>9
<1>10. CASE UNCHANGED vars
    BY <1>1, <1>10 DEF vars, page
<1> QED
    BY <1>4, <1>5, <1>6, <1>7, <1>8, <1>9, <1>10 DEF Next, RecordStep

---------------------------------------------------------------------------
(* The steps of the trace that replay keeps, and the places they are of.   *)

\* The first step of a loop, by the loop's number.
FirstStep(id) == CHOOSE f \in DOMAIN trace : trace[f].rep.id = id /\ \A g \in DOMAIN trace : trace[g].rep.id = id => f <= g

\* Replay keeps step i: it is in no loop, or in the body of its loop.
Kept(i) == i \in DOMAIN trace /\ (trace[i].rep.id = 0 \/ i \in ToSet(Body(FirstStep(trace[i].rep.id))))

\* TellsAll says of the kept steps that their names are those of the flow's steps.
LEMMA TellsNames ==
    ASSUME TellsAll
    PROVE  {trace[i].leaf.name : i \in {j \in DOMAIN trace : Kept(j)}} = {At(flow, k).node.name : k \in StepPlaces(flow)}
<1> DEFINE first(i) == CHOOSE f \in DOMAIN trace :
                           SameLoop(f, i) /\ \A g \in DOMAIN trace : SameLoop(g, i) => f <= g
           kept == {i \in DOMAIN trace : trace[i].rep.id = 0 \/ i \in ToSet(Body(first(i)))}
<1>1. {trace[i].leaf.name : i \in kept} = {At(flow, k).node.name : k \in StepPlaces(flow)}
    BY DEF TellsAll
<1>2. \A i : first(i) = FirstStep(trace[i].rep.id)
    BY DEF SameLoop, FirstStep
<1>3. \A j : Kept(j) <=> j \in DOMAIN trace /\ (trace[j].rep.id = 0 \/ j \in ToSet(Body(first(j))))
    BY <1>2, Zenon DEF Kept
<1>4. \A j : Kept(j) <=> j \in kept
    BY <1>3
<1> HIDE DEF kept
<1>5. kept = {j \in DOMAIN trace : Kept(j)}
    BY <1>3, <1>4
<1> QED
    BY <1>1, <1>5

\* The first step of the loop of step i.
LEMMA FirstStepIs ==
    ASSUME IsSeq(trace), NEW i \in DOMAIN trace
    PROVE  LET f == FirstStep(trace[i].rep.id)
           IN  /\ f \in DOMAIN trace /\ SameLoop(f, i)
               /\ IsFirst(i) => f = i
<1>1. DOMAIN trace \in SUBSET Nat
    BY DEF IsSeq
<1> DEFINE id == trace[i].rep.id
           T == {g \in DOMAIN trace : trace[g].rep.id = id}
<1>2. T \in SUBSET Nat /\ T # {}
    BY <1>1
<1>3. \E x \in T : \A y \in T : x <= y
    BY <1>2, Least
<1>4. \E f \in DOMAIN trace : trace[f].rep.id = id /\ \A g \in DOMAIN trace : trace[g].rep.id = id => f <= g
    BY <1>3
<1>5. /\ FirstStep(id) \in DOMAIN trace /\ trace[FirstStep(id)].rep.id = id
      /\ \A g \in DOMAIN trace : trace[g].rep.id = id => FirstStep(id) <= g
    BY <1>4 DEF FirstStep
<1>6. ASSUME IsFirst(i) PROVE FirstStep(id) = i
    <2>1. i <= FirstStep(id) /\ FirstStep(id) <= i
        BY <1>5, <1>6 DEF IsFirst, SameLoop
    <2>2. i \in Nat /\ FirstStep(id) \in Nat
        BY <1>1, <1>5
    <2> QED
        BY <2>1, <2>2
<1> QED
    BY <1>5, <1>6 DEF SameLoop

\* The kept steps of a loop are of one pass.
LEMMA KeptPass ==
    ASSUME IsSeq(trace), NEW i, NEW j, Kept(i), Kept(j), SameLoop(i, j), trace[i].rep.id # 0
    PROVE  trace[i].rep.pass = trace[j].rep.pass
<1> DEFINE f == FirstStep(trace[i].rep.id)
<1>1. f \in DOMAIN trace /\ i \in ToSet(Body(f)) /\ j \in ToSet(Body(f))
    BY FirstStepIs DEF Kept, SameLoop
<1> HIDE DEF f
<1>2. \A k \in DOMAIN Body(f) : trace[Body(f)[k]].rep.pass = Longest(f)
    BY <1>1, BodyInOrder
<1> QED
    BY <1>1, <1>2 DEF ToSet

\* The body of a loop, from its first step.
LEMMA KeptBody ==
    ASSUME IsSeq(trace), NEW i \in DOMAIN trace, trace[i].rep.id # 0, IsFirst(i), NEW j
    PROVE  j \in ToSet(Body(i)) <=> Kept(j) /\ SameLoop(j, i)
<1>1. FirstStep(trace[i].rep.id) = i
    BY FirstStepIs
<1>2. ASSUME j \in ToSet(Body(i)) PROVE j \in DOMAIN trace /\ SameLoop(i, j)
    BY <1>2, BodyOfLoop DEF ToSet
<1> QED
    BY <1>1, <1>2 DEF Kept, SameLoop

\* What is known of a step of an unrolled trace.
LEMMA UnrolledStep ==
    ASSUME NEW f \in Flows, Simple(f), NEW t, NEW u, NEW guards, NEW loops, Unrolled(t, f, u, guards, loops),
           NEW i \in DOMAIN t
    PROVE  /\ u[i] \in StepPlaces(f) /\ u[i] \in Nat /\ Laid(f, u[i], At(f, u[i]))
           /\ t[i].leaf = At(f, u[i]).node
           /\ t[i].surface = IF f.multi THEN At(f, u[i]).surface ELSE NoSurface
           /\ DOMAIN t[i].guards = DOMAIN At(f, u[i]).under
           /\ \A r \in DOMAIN At(f, u[i]).under : t[i].guards[r].cond = At(f, At(f, u[i]).under[r]).node.when
           /\ t[i].rep.id = 0 <=> At(f, u[i]).loop = 0
           /\ t[i].rep.id = 0 => t[i].rep = NoLoop
           /\ At(f, u[i]).loop # 0 => /\ t[i].rep.max = At(f, At(f, u[i]).loop).node.max
                                      /\ t[i].rep.until = At(f, At(f, u[i]).loop).node.until
<1>1. Stepped(t, f, u) /\ Marked(<<>>, t, f, 0, u, guards, loops)
    BY DEF Unrolled
<1>2. u[i] \in StepPlaces(f) /\ u[i] \in Nat /\ Laid(f, u[i], At(f, u[i]))
    BY <1>1, PlacesNat
<1>3. PICK d : d = Mark(t[i], At(f, u[i]))
    OBVIOUS
<1>4. MarkSound(f, d, guards, loops)
    <2>1. MarkOf(<<>>, t, f, 0, u, d)
        BY <1>3 DEF MarkOf
    <2> QED
        BY <1>1, <2>1 DEF Marked
<1>5. d.guards = t[i].guards /\ d.rep = t[i].rep /\ d.under = At(f, u[i]).under /\ d.loop = At(f, u[i]).loop
    BY <1>3, MarkIs
<1>6. t[i].leaf = At(f, u[i]).node /\ t[i].surface = IF f.multi THEN At(f, u[i]).surface ELSE NoSurface
    BY <1>1 DEF Stepped
<1> QED
    BY <1>2, <1>4, <1>5, <1>6 DEF MarkSound

\* What is known of two of them.
LEMMA UnrolledSteps ==
    ASSUME NEW f \in Flows, Simple(f), NEW t, NEW u, NEW guards, NEW loops, Unrolled(t, f, u, guards, loops),
           NEW i \in DOMAIN t, NEW j \in DOMAIN t
    PROVE  /\ t[i].rep.id = t[j].rep.id <=> At(f, u[i]).loop = At(f, u[j]).loop
           /\ \A r \in DOMAIN At(f, u[i]).under, q \in DOMAIN At(f, u[j]).under :
                 /\ t[i].guards[r].id = t[j].guards[q].id => At(f, u[i]).under[r] = At(f, u[j]).under[q]
                 /\ At(f, u[i]).under[r] = At(f, u[j]).under[q] /\ t[i].rep.pass = t[j].rep.pass =>
                       t[i].guards[r].id = t[j].guards[q].id
<1>1. Marked(<<>>, t, f, 0, u, guards, loops)
    BY DEF Unrolled
<1>2. PICK d : d = Mark(t[i], At(f, u[i]))
    OBVIOUS
<1>3. PICK e : e = Mark(t[j], At(f, u[j]))
    OBVIOUS
<1>4. MarksAgree(d, e)
    <2>1. MarkOf(<<>>, t, f, 0, u, d) /\ MarkOf(<<>>, t, f, 0, u, e)
        BY <1>2, <1>3 DEF MarkOf
    <2> QED
        BY <1>1, <2>1 DEF Marked
<1>5. /\ d.guards = t[i].guards /\ d.rep = t[i].rep /\ d.under = At(f, u[i]).under /\ d.loop = At(f, u[i]).loop
      /\ e.guards = t[j].guards /\ e.rep = t[j].rep /\ e.under = At(f, u[j]).under /\ e.loop = At(f, u[j]).loop
    BY <1>2, <1>3, MarkIs
<1> QED
    BY <1>4, <1>5 DEF MarksAgree

\* The kept step of a place of the flow.
Place(u, at) ==
    /\ \A x \in StepPlaces(flow) : Kept(at[x]) /\ u[at[x]] = x
    /\ \A i : Kept(i) => at[u[i]] = i

\* Every step of the flow has one kept step of the trace.
LEMMA PlaceExists ==
    ASSUME IsSeq(trace), flow \in Flows, Simple(flow), TellsAll, NEW u, NEW guards, NEW loops,
           Unrolled(trace, flow, u, guards, loops)
    PROVE  \E at : Place(u, at)
<1> DEFINE at == [x \in StepPlaces(flow) |-> CHOOSE i : Kept(i) /\ u[i] = x]
<1>1. \A i, j \in DOMAIN trace : i < j /\ ~InTurn(trace[i], trace[j]) => u[i] < u[j]
    BY DEF Unrolled, Stepped
<1>2. \A i \in DOMAIN trace : u[i] \in StepPlaces(flow) /\ u[i] \in Nat /\ trace[i].leaf = At(flow, u[i]).node
    BY UnrolledStep
<1>3. \A i, j : Kept(i) /\ Kept(j) => i \in DOMAIN trace /\ j \in DOMAIN trace /\ ~InTurn(trace[i], trace[j])
    BY KeptPass DEF Kept, InTurn, SameLoop
<1>4. DOMAIN trace \in SUBSET Nat
    BY DEF IsSeq
<1>5. ASSUME NEW i, NEW j, Kept(i), Kept(j), u[i] = u[j] PROVE i = j
    <2>1. i \in DOMAIN trace /\ j \in DOMAIN trace /\ ~InTurn(trace[i], trace[j]) /\ ~InTurn(trace[j], trace[i])
        BY <1>3, <1>5
    <2>2. i \in Nat /\ j \in Nat /\ ~(u[i] < u[j]) /\ ~(u[j] < u[i])
        BY <1>2, <1>4, <1>5, <2>1
    <2>3. ~(i < j) /\ ~(j < i)
        BY <1>1, <2>1, <2>2
    <2> QED
        BY <2>2, <2>3
<1>6. ASSUME NEW x \in StepPlaces(flow) PROVE \E i : Kept(i) /\ u[i] = x
    <2>1. PICK i \in DOMAIN trace : Kept(i) /\ trace[i].leaf.name = At(flow, x).node.name
        BY TellsNames
    <2>2. u[i] \in StepPlaces(flow) /\ At(flow, u[i]).node.name = At(flow, x).node.name
        BY <1>2, <2>1
    <2>3. u[i] = x
        BY <2>2 DEF Simple, Plain
    <2> QED
        BY <2>1, <2>3
<1>7. \A x \in StepPlaces(flow) : Kept(at[x]) /\ u[at[x]] = x
    BY <1>6
<1> HIDE DEF at
<1>8. \A i : Kept(i) => at[u[i]] = i
    BY <1>2, <1>5, <1>7 DEF Kept
<1> QED
    BY <1>7, <1>8 DEF Place

\* The kept steps tell what each step of the flow is.
LEMMA PlaceLeaves ==
    ASSUME flow \in Flows, Simple(flow), NEW u, NEW guards, NEW loops,
           Unrolled(trace, flow, u, guards, loops), NEW at, Place(u, at)
    PROVE  Leaves1(flow, at)
<1> SUFFICES ASSUME NEW x \in StepPlaces(flow)
             PROVE  /\ at[x] \in DOMAIN trace
                    /\ trace[at[x]].leaf = At(flow, x).node
                    /\ trace[at[x]].surface = IF flow.multi THEN At(flow, x).surface ELSE NoSurface
                    /\ DOMAIN trace[at[x]].guards = DOMAIN At(flow, x).under
                    /\ \A r \in DOMAIN At(flow, x).under :
                          trace[at[x]].guards[r].cond = At(flow, At(flow, x).under[r]).node.when
                    /\ trace[at[x]].rep.id = 0 <=> At(flow, x).loop = 0
                    /\ At(flow, x).loop # 0 => \A i \in DOMAIN trace : SameLoop(at[x], i) =>
                          /\ trace[i].rep.max = At(flow, At(flow, x).loop).node.max
                          /\ trace[i].rep.until = At(flow, At(flow, x).loop).node.until
    BY DEF Leaves1
<1>1. PICK j : j = at[x]
    OBVIOUS
<1>2. j \in DOMAIN trace /\ u[j] = x
    BY <1>1 DEF Place, Kept
<1>3. /\ trace[j].leaf = At(flow, x).node
      /\ trace[j].surface = IF flow.multi THEN At(flow, x).surface ELSE NoSurface
      /\ DOMAIN trace[j].guards = DOMAIN At(flow, x).under
      /\ \A r \in DOMAIN At(flow, x).under : trace[j].guards[r].cond = At(flow, At(flow, x).under[r]).node.when
      /\ trace[j].rep.id = 0 <=> At(flow, x).loop = 0
    BY <1>2, UnrolledStep
<1>4. ASSUME At(flow, x).loop # 0, NEW i \in DOMAIN trace, SameLoop(j, i)
      PROVE  /\ trace[i].rep.max = At(flow, At(flow, x).loop).node.max
             /\ trace[i].rep.until = At(flow, At(flow, x).loop).node.until
    <2>1. At(flow, u[j]).loop = At(flow, u[i]).loop
        BY <1>2, <1>4, UnrolledSteps DEF SameLoop
    <2>2. At(flow, u[i]).loop = At(flow, x).loop
        BY <1>2, <2>1
    <2> QED
        BY <1>4, <2>2, UnrolledStep
<1> QED
    BY <1>1, <1>2, <1>3, <1>4

\* They are in the order of the flow, in its loops and under its guards.
LEMMA PlacePairs ==
    ASSUME IsSeq(trace), flow \in Flows, Simple(flow), NEW u, NEW guards, NEW loops,
           Unrolled(trace, flow, u, guards, loops), NEW at, Place(u, at)
    PROVE  Pairs(flow, at)
<1> SUFFICES ASSUME NEW x \in StepPlaces(flow), NEW y \in StepPlaces(flow)
             PROVE  /\ x < y => at[x] < at[y]
                    /\ SameLoop(at[x], at[y]) <=> At(flow, x).loop = At(flow, y).loop
                    /\ \A r \in DOMAIN At(flow, x).under, q \in DOMAIN At(flow, y).under :
                          trace[at[x]].guards[r].id = trace[at[y]].guards[q].id
                              <=> At(flow, x).under[r] = At(flow, y).under[q]
    BY DEF Pairs, GuardAt
<1>1. PICK i : i = at[x]
    OBVIOUS
<1>2. PICK j : j = at[y]
    OBVIOUS
<1>3. Kept(i) /\ Kept(j) /\ i \in DOMAIN trace /\ j \in DOMAIN trace /\ u[i] = x /\ u[j] = y
    BY <1>1, <1>2 DEF Place, Kept
<1>4. /\ x \in Nat /\ y \in Nat /\ Laid(flow, x, At(flow, x)) /\ Laid(flow, y, At(flow, y))
      /\ trace[i].rep.id = 0 => trace[i].rep = NoLoop
      /\ trace[j].rep.id = 0 => trace[j].rep = NoLoop
    BY <1>3, UnrolledStep
<1>5. i \in Nat /\ j \in Nat
    BY <1>3 DEF IsSeq
<1>6. /\ trace[i].rep.id = trace[j].rep.id <=> At(flow, x).loop = At(flow, y).loop
      /\ \A r \in DOMAIN At(flow, x).under, q \in DOMAIN At(flow, y).under :
            /\ trace[i].guards[r].id = trace[j].guards[q].id => At(flow, x).under[r] = At(flow, y).under[q]
            /\ At(flow, x).under[r] = At(flow, y).under[q] /\ trace[i].rep.pass = trace[j].rep.pass =>
                  trace[i].guards[r].id = trace[j].guards[q].id
    BY <1>3, UnrolledSteps
<1>7. trace[i].rep.id = trace[j].rep.id => trace[i].rep.pass = trace[j].rep.pass
    <2>1. CASE trace[i].rep.id = 0
        BY <1>4, <2>1
    <2>2. CASE trace[i].rep.id # 0
        BY <1>3, <2>2, KeptPass DEF SameLoop
    <2> QED
        BY <2>1, <2>2
<1>8. ASSUME x < y PROVE i < j
    <2>1. ~(j < i)
        <3> SUFFICES ASSUME j < i PROVE FALSE
            OBVIOUS
        <3>1. ~InTurn(trace[j], trace[i])
            BY <1>7 DEF InTurn
        <3>2. u[j] < u[i]
            BY <1>3, <3>1 DEF Unrolled, Stepped
        <3> QED
            BY <1>3, <1>4, <1>8, <3>2
    <2>2. i # j
        BY <1>3, <1>4, <1>8
    <2> QED
        BY <1>5, <2>1, <2>2
<1>9. ASSUME NEW r \in DOMAIN At(flow, x).under, NEW q \in DOMAIN At(flow, y).under,
             At(flow, x).under[r] = At(flow, y).under[q]
      PROVE  trace[i].guards[r].id = trace[j].guards[q].id
    <2>1. /\ At(flow, At(flow, x).under[r]).loop = At(flow, x).loop
          /\ At(flow, At(flow, y).under[q]).loop = At(flow, y).loop
        BY <1>4 DEF Laid, Alongside
    <2> QED
        BY <1>6, <1>7, <1>9, <2>1
<1> QED
    BY <1>1, <1>2, <1>6, <1>8, <1>9 DEF SameLoop

\* And no step of the trace is of another flow.
LEMMA PlaceCovers ==
    ASSUME IsSeq(trace), flow \in Flows, Simple(flow), NEW u, NEW guards, NEW loops,
           Unrolled(trace, flow, u, guards, loops), NEW at, Place(u, at)
    PROVE  Covered(flow, at)
<1> SUFFICES ASSUME NEW i \in DOMAIN trace
             PROVE  /\ trace[i].rep.id = 0 => \E x \in StepPlaces(flow) : at[x] = i
                    /\ trace[i].rep.id # 0 => \E x \in StepPlaces(flow) : SameLoop(at[x], i)
                    /\ trace[i].rep.id # 0 /\ IsFirst(i) =>
                          ToSet(Body(i)) = {at[x] : x \in {y \in StepPlaces(flow) : SameLoop(at[y], i)}}
    BY DEF Covered
<1>1. u[i] \in StepPlaces(flow)
    BY UnrolledStep
<1>2. trace[i].rep.id = 0 => \E x \in StepPlaces(flow) : at[x] = i
    BY <1>1 DEF Kept, Place
<1>3. SameLoop(at[u[i]], i)
    <2>1. PICK j : j = at[u[i]]
        OBVIOUS
    <2>2. j \in DOMAIN trace /\ u[j] = u[i]
        BY <1>1, <2>1 DEF Place, Kept
    <2>3. trace[j].rep.id = trace[i].rep.id
        BY <2>2, UnrolledSteps
    <2> QED
        BY <2>1, <2>3 DEF SameLoop
<1>4. ASSUME trace[i].rep.id # 0, IsFirst(i)
      PROVE  ToSet(Body(i)) = {at[x] : x \in {y \in StepPlaces(flow) : SameLoop(at[y], i)}}
    <2>1. \A j : j \in ToSet(Body(i)) <=> Kept(j) /\ SameLoop(j, i)
        BY <1>4, KeptBody
    <2>2. ASSUME NEW j, Kept(j), SameLoop(j, i) PROVE \E x \in StepPlaces(flow) : SameLoop(at[x], i) /\ j = at[x]
        <3>1. u[j] \in StepPlaces(flow) /\ at[u[j]] = j
            BY <2>2, UnrolledStep DEF Place, Kept
        <3> QED
            BY <2>2, <3>1
    <2>3. \A x \in StepPlaces(flow) : Kept(at[x])
        BY DEF Place
    <2> HIDE DEF SameLoop, Kept
    <2> QED
        BY <2>1, <2>2, <2>3
<1> QED
    BY <1>1, <1>2, <1>3, <1>4

\* A trace that tells the whole flow tells what each step of it is.
LEMMA TellsTold ==
    ASSUME IsSeq(trace), flow \in Flows, Simple(flow), TellsAll, NEW u, NEW guards, NEW loops,
           Unrolled(trace, flow, u, guards, loops)
    PROVE  \E at : Told(flow, at)
<1>1. PICK at : Place(u, at)
    BY PlaceExists
<1> QED
    BY <1>1, PlaceLeaves, PlacePairs, PlaceCovers DEF Told

---------------------------------------------------------------------------
(* What follows of the whole run.                                          *)

\* The inductive invariant: what is known of the recorder, which reads the flow place
\* by place (Recorder), of the worklist of a whole run (Whole), and of replay, which
\* follows the interpreter (Follows).
Faithful ==
    /\ Typed /\ ReportKnown /\ Untroubled /\ NothingDone
    /\ Whole /\ Follows /\ Recorder

\* It holds at the start.
LEMMA FaithfulInit == Init => Faithful
<1> SUFFICES ASSUME Init PROVE Faithful
    OBVIOUS
<1>1. phase = "record" /\ results = <<>> /\ work = <<>> /\ seen = {} /\ ~ready /\ ~failed /\ verdicts = <<>> /\ done = <<>>
    BY DEF Init, RecordingInit, ReplayInit
<1>2. Typed /\ ReportKnown
    BY <1>1, RecordedInit, TypedAlways DEF ReportKnown, Recorded, Unstarted
<1>3. NothingDone /\ Whole /\ Follows
    BY <1>1 DEF NothingDone, Whole, Follows
<1> QED
    BY <1>2, <1>3, UntroubledInit, RecorderInit DEF Faithful

\* Every step keeps it.
LEMMA FaithfulNext == Faithful /\ [Next]_vars => Faithful'
<1> SUFFICES ASSUME Faithful, [Next]_vars PROVE Faithful'
    OBVIOUS
<1>1. Typed /\ ReportKnown /\ Untroubled /\ NothingDone /\ Whole /\ Follows /\ Recorder
    BY DEF Faithful
<1>2. Typed' /\ ReportKnown' /\ Untroubled'
    BY <1>1, TypesNext, ReadyStep, ReportNext, UntroubledNext DEF Typed
<1>3. NothingDone' /\ Whole' /\ Follows'
    BY <1>1, NothingDoneNext, WholeNext, FollowsNext
<1>4. Recorder'
    BY <1>1, RecorderNext DEF ReportKnown
<1> QED
    BY <1>2, <1>3, <1>4 DEF Faithful

\* Of the flows replay can follow it says what MeansTheFlow says.
LEMMA FaithfulMeans == Faithful /\ Plain(flow) => MeansTheFlow
<1> SUFFICES ASSUME Faithful, Plain(flow), phase \in {"replay", "reported"}, ~partial, app.drift = {}, TellsAll
             PROVE  /\ IsPrefix(done, Meaning[flow][app].deeds)
                    /\ phase = "reported" /\ passed => Meaning[flow][app].ok /\ done = Meaning[flow][app].deeds
                    /\ GaveUp => ~Meaning[flow][app].ok /\ done = Meaning[flow][app].deeds
    BY DEF MeansTheFlow, GaveUp
<1>1. Simple(flow)
    BY DEF Simple, TellsAll
<1>2. IsSeq(trace) /\ flow \in Flows
    BY DEF Faithful, Typed, TypeOK, ReportKnown, Written, TraceKnown
<1>3. PICK u : Unrolled(trace, flow, u, guardIds, loopIds)
    BY <1>1 DEF Faithful, Recorder
<1>4. PICK at : Told(flow, at)
    BY <1>1, <1>2, <1>3, TellsTold
<1>5. Matched(flow, app, at)
    BY <1>1, <1>4 DEF Faithful, Follows
<1> QED
    BY <1>5 DEF Matched

\* Replay means the flow, for every flow it can follow (Plain), every application and
\* every Limit at which reading and interpreting are over: as long as the application
\* does not move by itself, and the trace tells the whole flow, a whole replay has done
\* at every moment what an interpreter of the flow file does first, with the same
\* captured values, on the same surfaces and in the same order; it passes only when
\* that is all the interpreter does; and it gives up on a step (FailStep) or on a loop
\* (ExhaustLoop) only where the interpreter gives up.
\* Recorder says how record_steps (recorder.rs:3544) unrolls the flow into the trace, and
\* Follows how run_trace_selected (lib.rs:2972) plays it.
THEOREM ReplayMeansTheFlow == Spec => [](Plain(flow) => MeansTheFlow)
<1> QED
    BY FaithfulInit, FaithfulNext, FaithfulMeans, PTL DEF Spec
=============================================================================
