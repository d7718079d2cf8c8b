------------------------ MODULE StepExecutionProofs ------------------------
(***************************************************************************)
(* What is proved of carrying out steps, for all flows, pages and drivers: *)
(* what is true of every step under way, and, in the second half, that     *)
(* what a step that has ended says is so: an assertion failed on evidence, *)
(* an input took and was not repeated.                                     *)
(***************************************************************************)
EXTENDS StepExecution, FiniteSetTheorems, SequenceTheorems, TLAPS

---------------------------------------------------------------------------
(* What replay notes of a step.                                            *)

Fields == DOMAIN NewRun

LEMMA FieldsAre ==
    Fields = {"rung", "ends", "resolved", "ready", "lacks", "waited", "lastLook", "block", "call",
              "tries", "saw", "fault", "read", "missed", "seen", "clean", "rounds", "busy",
              "verdict"}
BY DEF NewRun, Fields

\* Notes that say the same of the ends of the step.
Same(r) ==
    /\ DOMAIN r = Fields
    /\ r.ends = run.ends /\ r.resolved = run.resolved /\ r.ready = run.ready /\ r.lacks = run.lacks
    /\ r.waited \in Nat /\ r.lastLook \in BOOLEAN

LEMMA Unmoved == TypeOK => Same(run)
BY DEF TypeOK, Same, Fields

LEMMA Concluded == ASSUME TypeOK, NEW v, Verdict(v) PROVE Same(run') /\ phase' = "ended"
BY FieldsAre DEF TypeOK, Same, Fields, Verdict

LEMMA Continued == ASSUME TypeOK, NEW p, Continue(p) PROVE Same(run') /\ phase' = p
BY FieldsAre DEF TypeOK, Same, Fields, Continue

LEMMA Waited == ASSUME TypeOK, run' = [run EXCEPT !.waited = @ + 1] PROVE Same(run')
BY FieldsAre DEF TypeOK, Same, Fields

LEMMA EndStep ==
    ASSUME TypeOK, NEW counter \in {"resolved", "ready"}, NEW ok \in BOOLEAN, NEW again, NEW after,
           NextEnd(counter, ok, again, after)
    PROVE  /\ DOMAIN run' = Fields
           /\ run'.ends \in Nat /\ run'.waited = 0 /\ run'.lastLook = run.lastLook
           /\ run'.lacks = (run.lacks \/ ~ok)
           /\ run'[counter] = IF ok THEN run[counter] + 1 ELSE run[counter]
           /\ \A other \in {"resolved", "ready"} : other # counter => run'[other] = run[other]
           /\ \/ phase' = again /\ run'.ends = run.ends + 1 /\ run.ends + 1 < Ends(kind)
              \/ phase' = "ended"
              \/ phase' = after /\ ~run.lacks /\ ok /\ run'.ends = 0 /\ run.ends + 1 >= Ends(kind)
<1> DEFINE r == [run EXCEPT ![counter] = IF ok THEN @ + 1 ELSE @, !.ends = @ + 1,
                         !.lacks = @ \/ ~ok, !.waited = 0]
<1>1. DOMAIN run = Fields
    BY DEF TypeOK, Fields
<1>2. DOMAIN r = Fields
    BY <1>1
<1>3. r.ends = run.ends + 1
    BY <1>1, FieldsAre
<1>4. r.waited = 0
    BY <1>1, FieldsAre
<1>5. r.lacks = (run.lacks \/ ~ok)
    BY <1>1, FieldsAre
<1>6. r[counter] = IF ok THEN run[counter] + 1 ELSE run[counter]
    BY <1>1, FieldsAre
<1>7. \A other \in {"resolved", "ready"} : other # counter => r[other] = run[other]
    BY <1>1, FieldsAre
<1>8. r.lastLook = run.lastLook
    BY <1>1, FieldsAre
<1>9. \/ phase' = again /\ run' = [r EXCEPT !.rung = 1] /\ r.ends < Ends(kind)
      \/ phase' = "ended" /\ run' = [r EXCEPT !.verdict = "fail"]
      \/ phase' = after /\ run' = [r EXCEPT !.ends = 0] /\ ~(r.ends < Ends(kind)) /\ ~r.lacks
    BY DEF NextEnd
<1> HIDE DEF r
<1>10. CASE phase' = again /\ run' = [r EXCEPT !.rung = 1] /\ r.ends < Ends(kind)
    BY <1>10, <1>2, <1>3, <1>4, <1>5, <1>6, <1>7, <1>8, FieldsAre DEF TypeOK
<1>11. CASE phase' = "ended" /\ run' = [r EXCEPT !.verdict = "fail"]
    BY <1>11, <1>2, <1>3, <1>4, <1>5, <1>6, <1>7, <1>8, FieldsAre DEF TypeOK
<1>12. CASE phase' = after /\ run' = [r EXCEPT !.ends = 0] /\ ~(r.ends < Ends(kind)) /\ ~r.lacks
    <2>1. run.ends + 1 >= Ends(kind)
        BY <1>12, <1>3 DEF TypeOK, Ends
    <2> QED
        BY <2>1, <1>12, <1>2, <1>3, <1>4, <1>5, <1>6, <1>7, <1>8, FieldsAre DEF TypeOK
<1> QED
    BY <1>9, <1>10, <1>11, <1>12

---------------------------------------------------------------------------
(* Acting.                                                                 *)

LEMMA WaitSame ==
    ASSUME TypeOK, WaitForElement
    PROVE  /\ Same(run') /\ StepUnchanged
           /\ \/ phase' \in {phase, "ended"}
              \/ phase = "pre" /\ phase' = FirstPhase(kind)
<1>0. StepUnchanged
    BY DEF WaitForElement
<1>1. \/ \E v : Verdict(v)
      \/ phase = "pre" /\ Continue(FirstPhase(kind))
      \/ run' = [run EXCEPT !.lastLook = TRUE] /\ UNCHANGED phase
      \/ run' = [run EXCEPT !.waited = @ + 1] /\ UNCHANGED phase
    BY DEF WaitForElement, Breaks
<1>2. CASE \E v : Verdict(v)
    <2>1. PICK v : Verdict(v)
        BY <1>2
    <2> QED
        BY <1>0, <2>1, Concluded
<1>3. CASE phase = "pre" /\ Continue(FirstPhase(kind))
    BY <1>0, <1>3, Continued
<1>4. CASE run' = [run EXCEPT !.lastLook = TRUE] /\ UNCHANGED phase
    BY <1>0, <1>4, FieldsAre DEF TypeOK, Same, Fields
<1>5. CASE run' = [run EXCEPT !.waited = @ + 1] /\ UNCHANGED phase
    <2>1. Same(run')
        BY <1>5, Waited
    <2> QED
        BY <1>0, <1>5, <2>1
<1> QED
    BY <1>1, <1>2, <1>3, <1>4, <1>5

LEMMA LostSame == ASSUME TypeOK, Lost PROVE Same(run') /\ phase' \in {phase, "ended"}
<1>1. CASE Fails
    BY <1>1, Concluded DEF Fails
<1>2. CASE run' = [run EXCEPT !.tries = @ + 1, !.call = 1] /\ UNCHANGED phase
    BY <1>2, FieldsAre DEF TypeOK, Same, Fields
<1> QED
    BY <1>1, <1>2 DEF Lost

LEMMA AnsweredSame ==
    ASSUME TypeOK, NEW saw, Answered(saw)
    PROVE  Same(run') /\ phase' \in {phase, "confirm", "ended"}
<1> DEFINE r == [run EXCEPT !.saw = saw]
           next == IF AsAsked(saw) THEN 3 ELSE run.block + 1
<1>1. Same(r)
    BY FieldsAre DEF TypeOK, Same, Fields
<1>2. \/ run' = [r EXCEPT !.call = @ + 1] /\ UNCHANGED phase
      \/ run' = [r EXCEPT !.block = next, !.call = 1, !.tries = 0] /\ UNCHANGED phase
      \/ Fails
      \/ phase' = "confirm" /\ run' = r
    BY DEF Answered
<1>3. CASE Fails
    BY <1>3, Concluded DEF Fails
<1> HIDE DEF r, next
<1>4. CASE run' = [r EXCEPT !.call = @ + 1] /\ UNCHANGED phase
    BY <1>1, <1>4, FieldsAre DEF Same
<1>5. CASE run' = [r EXCEPT !.block = next, !.call = 1, !.tries = 0] /\ UNCHANGED phase
    BY <1>1, <1>5, FieldsAre DEF Same
<1> QED
    BY <1>1, <1>2, <1>3, <1>4, <1>5

LEMMA CallSame ==
    ASSUME TypeOK, CallArrives \/ CallFails
    PROVE  /\ Same(run') /\ phase = "input" /\ phase' \in {"input", "confirm", "ended"}
           /\ UNCHANGED <<landed, claimed, flow, at, captured>>
<1>1. CASE CallArrives
    <2>1. (\E saw : Answered(saw)) \/ Lost
        BY <1>1 DEF CallArrives
    <2>2. phase = "input" /\ UNCHANGED <<landed, claimed, flow, at, captured>>
        BY <1>1 DEF CallArrives
    <2> QED
        BY <2>1, <2>2, LostSame, AnsweredSame
<1>2. CASE CallFails
    BY <1>2, LostSame, Concluded DEF CallFails, Fails, StepUnchanged, driver
<1> QED
    BY <1>1, <1>2

---------------------------------------------------------------------------
(* Asserting.                                                              *)

LEMMA NotedSame ==
    TypeOK => /\ Same(Heard) /\ Heard.missed = run.missed /\ Heard.fault = run.fault
              /\ Same(Missed) /\ Missed.missed = TRUE /\ Missed.fault = TRUE
BY FieldsAre DEF TypeOK, Same, Fields, Heard, Missed

LEMMA SatisfiedSame ==
    ASSUME NEW r, Same(r), Satisfied(r)
    PROVE  Same(run') /\ phase' = "net" /\ run'.missed = r.missed
BY FieldsAre DEF Same, Satisfied, Polled

LEMMA PollSame ==
    ASSUME TypeOK, NEW r, Same(r), EndPoll(r)
    PROVE  /\ Same(run') /\ phase' \in {"ended", "ask"}
           /\ phase' = "ask" => ~run'.missed
<1> DEFINE q == Polled(r)
<1>1. Same(q) /\ q.fault = r.fault
    BY FieldsAre DEF Same, Polled
<1>2. \/ phase' = "ended" /\ run' = [q EXCEPT !.verdict = IF Exhausted(q) THEN "unread" ELSE "fail"]
      \/ phase' = "ask" /\ run' = [q EXCEPT !.waited = @ + 1, !.rung = 1, !.missed = FALSE,
                                           !.fault = IF kind \in Contents THEN @ ELSE FALSE]
    BY DEF EndPoll
<1> HIDE DEF q
<1>3. CASE phase' = "ended" /\ run' = [q EXCEPT !.verdict = IF Exhausted(q) THEN "unread" ELSE "fail"]
    BY <1>1, <1>3, FieldsAre DEF Same
<1>4. CASE phase' = "ask" /\ run' = [q EXCEPT !.waited = @ + 1, !.rung = 1, !.missed = FALSE,
                                             !.fault = IF kind \in Contents THEN @ ELSE FALSE]
    BY <1>1, <1>4, FieldsAre DEF Same
<1> QED
    BY <1>2, <1>3, <1>4

LEMMA VisibleSame ==
    ASSUME TypeOK, NEW r, Same(r), NEW visible, CheckVisible(r, visible)
    PROVE  /\ Same(run') /\ phase' \in {"ended", "ask", "net"}
           /\ phase' = "ask" => ~run'.missed
           /\ phase' = "net" /\ kind = "gone" /\ (r.missed => r.fault) => ~run'.missed
<1> DEFINE q == [r EXCEPT !.read = @ \/ ~r.fault, !.seen = @ \/ visible]
<1>1. Same(q) /\ q.missed = r.missed
    BY FieldsAre DEF Same
<1>2. \/ EndPoll(q)
      \/ Satisfied(q) /\ (kind = "there" \/ ~r.fault)
    BY DEF CheckVisible
<1> HIDE DEF q
<1>3. CASE EndPoll(q)
    BY <1>1, <1>3, PollSame
<1>4. CASE Satisfied(q) /\ (kind = "there" \/ ~r.fault)
    BY <1>1, <1>4, SatisfiedSame
<1> QED
    BY <1>2, <1>3, <1>4

\* What an action of an assertion leaves behind.
Asked ==
    /\ StepUnchanged /\ Same(run') /\ phase' \in {"ended", "ask", "read", "net"}

LEMMA SurfaceAsked == TypeOK /\ AskSurface => Asked
<1> SUFFICES ASSUME TypeOK, AskSurface PROVE Asked
    OBVIOUS
<1>1. (\E v : Verdict(v)) \/ (\E r \in {Missed, Heard} : EndPoll(r) \/ Satisfied(r))
    BY DEF AskSurface
<1>2. StepUnchanged
    BY DEF AskSurface
<1>3. CASE \E v : Verdict(v)
    <2>1. PICK v : Verdict(v)
        BY <1>3
    <2> QED
        BY <2>1, <1>2, Concluded DEF Asked
<1>4. CASE \E r \in {Missed, Heard} : EndPoll(r) \/ Satisfied(r)
    <2>1. PICK r \in {Missed, Heard} : EndPoll(r) \/ Satisfied(r)
        BY <1>4
    <2>2. Same(r)
        BY NotedSame
    <2> QED
        BY <2>1, <2>2, <1>2, PollSame, SatisfiedSame DEF Asked
<1> QED
    BY <1>1, <1>3, <1>4

LEMMA FrameAsked ==
    TypeOK /\ AskFrame =>
        /\ Asked /\ phase' # "read" /\ kind \in FrameReadings /\ phase = "ask"
        /\ ~run.missed /\ phase' \in {"ask", "net"} => ~run'.missed
<1> SUFFICES ASSUME TypeOK, AskFrame
             PROVE  /\ Asked /\ phase' # "read" /\ kind \in FrameReadings /\ phase = "ask"
                    /\ ~run.missed /\ phase' \in {"ask", "net"} => ~run'.missed
    OBVIOUS
<1>1. (\E v : Verdict(v)) \/ EndPoll(Missed) \/ EndPoll(Heard) \/ Satisfied(Heard)
    BY DEF AskFrame
<1>2. StepUnchanged /\ kind \in FrameReadings /\ phase = "ask"
    BY DEF AskFrame
<1>3. CASE \E v : Verdict(v)
    <2>1. PICK v : Verdict(v)
        BY <1>3
    <2> QED
        BY <2>1, <1>2, Concluded DEF Asked
<1>4. CASE EndPoll(Missed)
    BY <1>4, <1>2, NotedSame, PollSame DEF Asked
<1>5. CASE EndPoll(Heard)
    BY <1>5, <1>2, NotedSame, PollSame DEF Asked
<1>6. CASE Satisfied(Heard)
    BY <1>6, <1>2, NotedSame, SatisfiedSame DEF Asked
<1> QED
    BY <1>1, <1>3, <1>4, <1>5, <1>6

LEMMA ReadAsked == TypeOK /\ ReadElement => Asked /\ kind \in Contents /\ phase = "read"
<1> SUFFICES ASSUME TypeOK, ReadElement PROVE Asked /\ kind \in Contents /\ phase = "read"
    OBVIOUS
<1>1. \/ \E v : Verdict(v)
      \/ EndPoll(Missed) \/ EndPoll(Heard) \/ Satisfied(Heard)
      \/ phase' = "ended" /\ run' = [Heard EXCEPT !.verdict = "fail"]
    BY DEF ReadElement
<1>2. StepUnchanged /\ kind \in Contents /\ phase = "read"
    BY DEF ReadElement
<1>3. CASE \E v : Verdict(v)
    <2>1. PICK v : Verdict(v)
        BY <1>3
    <2> QED
        BY <2>1, <1>2, Concluded DEF Asked
<1>4. CASE EndPoll(Missed) \/ EndPoll(Heard)
    BY <1>4, <1>2, NotedSame, PollSame DEF Asked
<1>5. CASE Satisfied(Heard)
    BY <1>5, <1>2, NotedSame, SatisfiedSame DEF Asked
<1>6. CASE phase' = "ended" /\ run' = [Heard EXCEPT !.verdict = "fail"]
    <2>1. Same(run')
        BY <1>6, NotedSame, FieldsAre DEF Same
    <2> QED
        BY <1>6, <1>2, <2>1 DEF Asked
<1> QED
    BY <1>1, <1>3, <1>4, <1>5, <1>6

LEMMA SeeAsked ==
    TypeOK /\ SeeElement =>
        /\ Asked /\ phase' # "read" /\ kind \in Presence /\ phase = "read"
        /\ phase' = "ask" => ~run'.missed
        /\ phase' = "net" /\ kind = "gone" /\ (run.missed => run.fault) => ~run'.missed
<1> SUFFICES ASSUME TypeOK, SeeElement
             PROVE  /\ Asked /\ phase' # "read" /\ kind \in Presence /\ phase = "read"
                    /\ phase' = "ask" => ~run'.missed
                    /\ phase' = "net" /\ kind = "gone" /\ (run.missed => run.fault) => ~run'.missed
    OBVIOUS
<1>1. \/ \E v : Verdict(v)
      \/ EndPoll(Missed)
      \/ CheckVisible(run, ElementVisible(run.rung))
    BY DEF SeeElement
<1>2. StepUnchanged /\ kind \in Presence /\ phase = "read"
    BY DEF SeeElement
<1>3. CASE \E v : Verdict(v)
    <2>1. PICK v : Verdict(v)
        BY <1>3
    <2> QED
        BY <2>1, <1>2, Concluded DEF Asked
<1>4. CASE EndPoll(Missed)
    BY <1>4, <1>2, NotedSame, PollSame DEF Asked
<1>5. CASE CheckVisible(run, ElementVisible(run.rung))
    BY <1>5, <1>2, Unmoved, VisibleSame DEF Asked
<1> QED
    BY <1>1, <1>3, <1>4, <1>5

\* A lost call is known to be lost, except in the second call of a scoped
\* locator.
LEMMA RungAsked ==
    TypeOK /\ AskRung =>
        /\ Asked /\ kind \in ElementReadings /\ phase = "ask"
        /\ step.locator # "scoped" /\ kind = "gone" /\ (run.missed => run.fault) =>
              /\ phase' \in {"ask", "read"} => (run'.missed => run'.fault)
              /\ phase' = "net" => ~run'.missed
<1> SUFFICES ASSUME TypeOK, AskRung
             PROVE  /\ Asked /\ kind \in ElementReadings /\ phase = "ask"
                    /\ step.locator # "scoped" /\ kind = "gone" /\ (run.missed => run.fault) =>
                          /\ phase' \in {"ask", "read"} => (run'.missed => run'.fault)
                          /\ phase' = "net" => ~run'.missed
    OBVIOUS
<1> DEFINE r(heard, answer) ==
        [run EXCEPT !.fault = @ \/ heard = "lost", !.missed = @ \/ answer = "lost"]
<1>1. PICK answer \in Answers : \E heard \in ExistsAnswers(step.locator, answer) :
          \/ Verdict("error")
          \/ phase' = "read" /\ run' = r(heard, answer)
          \/ run' = [r(heard, answer) EXCEPT !.rung = @ + 1] /\ UNCHANGED phase
          \/ Absent(r(heard, answer))
    BY DEF AskRung
<1>2. PICK heard \in ExistsAnswers(step.locator, answer) :
          \/ Verdict("error")
          \/ phase' = "read" /\ run' = r(heard, answer)
          \/ run' = [r(heard, answer) EXCEPT !.rung = @ + 1] /\ UNCHANGED phase
          \/ Absent(r(heard, answer))
    BY <1>1
<1>3. StepUnchanged /\ kind \in ElementReadings /\ phase = "ask"
    BY DEF AskRung
<1>4. step.locator # "scoped" => heard = answer
    BY DEF ExistsAnswers
<1> DEFINE q == r(heard, answer)
<1>5. /\ Same(q)
      /\ q.fault = (run.fault \/ heard = "lost") /\ q.missed = (run.missed \/ answer = "lost")
    BY FieldsAre DEF TypeOK, Same, Fields
<1>6. step.locator # "scoped" /\ (run.missed => run.fault) => (q.missed => q.fault)
    BY <1>4, <1>5
<1>7. \/ Verdict("error")
      \/ phase' = "read" /\ run' = q
      \/ run' = [q EXCEPT !.rung = @ + 1] /\ UNCHANGED phase
      \/ Absent(q)
    BY <1>2
<1> HIDE DEF q
<1>8. CASE Verdict("error")
    BY <1>8, <1>3, Concluded DEF Asked
<1>9. CASE phase' = "read" /\ run' = q
    BY <1>9, <1>3, <1>5, <1>6 DEF Asked
<1>10. CASE run' = [q EXCEPT !.rung = @ + 1] /\ UNCHANGED phase
    <2>1. Same(run') /\ run'.missed = q.missed /\ run'.fault = q.fault
        BY <1>10, <1>5, FieldsAre DEF Same
    <2> QED
        BY <2>1, <1>10, <1>3, <1>6 DEF Asked
<1>11. CASE Absent(q)
    <2>1. CASE EndPoll(q) /\ kind \in Contents
        <3>1. kind # "gone"
            BY <2>1 DEF Contents, TextReadings, StateReadings, ComputedReadings
        <3> QED
            BY <3>1, <2>1, <1>3, <1>5, PollSame DEF Asked
    <2>2. CASE CheckVisible(q, FALSE)
        <3>1. Same(run') /\ phase' \in {"ended", "ask", "net"}
            BY <2>2, <1>5, VisibleSame
        <3>2. phase' = "ask" => ~run'.missed
            BY <2>2, <1>5, VisibleSame
        <3>3. phase' = "net" /\ kind = "gone" /\ (q.missed => q.fault) => ~run'.missed
            BY <2>2, <1>5, VisibleSame
        <3> QED
            BY <3>1, <3>2, <3>3, <1>3, <1>6 DEF Asked
    <2> QED
        BY <1>11, <2>1, <2>2 DEF Absent
<1> QED
    BY <1>7, <1>8, <1>9, <1>10, <1>11

LEMMA RefsAsked == TypeOK /\ AskRefs => Asked /\ phase' = "ended" /\ phase = "ask"
BY Concluded DEF AskRefs, Asked

LEMMA SettleAsked ==
    TypeOK /\ SettleScene =>
        StepUnchanged /\ Same(run') /\ phase = "settle" /\ phase' \in {"settle", "ask"}
<1> SUFFICES ASSUME TypeOK, SettleScene
             PROVE  StepUnchanged /\ Same(run') /\ phase = "settle" /\ phase' \in {"settle", "ask"}
    OBVIOUS
<1>1. StepUnchanged /\ phase = "settle"
    BY DEF SettleScene
<1>2. \/ Continue("ask")
      \/ \E everBusy : run' = [run EXCEPT !.rounds = @ + 1, !.busy = everBusy] /\ UNCHANGED phase
    BY DEF SettleScene
<1>3. CASE Continue("ask")
    BY <1>1, <1>3, Continued
<1>4. CASE \E everBusy : run' = [run EXCEPT !.rounds = @ + 1, !.busy = everBusy] /\ UNCHANGED phase
    <2>1. Same(run') /\ UNCHANGED phase
        BY <1>4, FieldsAre DEF TypeOK, Same, Fields
    <2> QED
        BY <2>1, <1>1
<1> QED
    BY <1>2, <1>3, <1>4

---------------------------------------------------------------------------
(* The state has its types.                                                *)

\* A step goes on: its notes say the same of its ends.
Goes(from, to) ==
    /\ phase = from /\ phase' \in to /\ Same(run')
    /\ UNCHANGED <<flow, at, landed, claimed, captured>>

LEMMA PrepareGoes == TypeOK /\ Prepare => Goes("prepare", {"input", "ended"}) /\ (phase' = "input" => step.refs)
<1> SUFFICES ASSUME TypeOK, Prepare
             PROVE  Goes("prepare", {"input", "ended"}) /\ (phase' = "input" => step.refs)
    OBVIOUS
<1>1. phase = "prepare" /\ UNCHANGED <<flow, at, landed, claimed, captured>>
    BY DEF Prepare
<1>2. CASE Verdict("fail")
    BY <1>1, <1>2, Concluded DEF Goes
<1>3. CASE step.refs /\ phase' = "input" /\ UNCHANGED run
    BY <1>1, <1>3, Unmoved DEF Goes
<1> QED
    BY <1>2, <1>3 DEF Prepare

LEMMA ConfirmGoes == TypeOK /\ Confirm => Goes("confirm", {"net", "ended"})
<1> SUFFICES ASSUME TypeOK, Confirm PROVE Goes("confirm", {"net", "ended"})
    OBVIOUS
<1>1. phase = "confirm" /\ UNCHANGED <<flow, at, landed, claimed, captured>>
    BY DEF Confirm
<1>2. CASE Verdict("fail")
    BY <1>1, <1>2, Concluded DEF Goes
<1>3. CASE phase' = "net" /\ UNCHANGED run
    BY <1>1, <1>3, Unmoved DEF Goes
<1> QED
    BY <1>2, <1>3 DEF Confirm

LEMMA ProbeGoes ==
    TypeOK /\ (SendProbe \/ ProbeAnswers) =>
        Goes("send", {"answering", "ended"}) \/ Goes("answering", {"send", "net", "ended"})
<1> SUFFICES ASSUME TypeOK, SendProbe \/ ProbeAnswers
             PROVE  Goes("send", {"answering", "ended"}) \/ Goes("answering", {"send", "net", "ended"})
    OBVIOUS
<1>1. UNCHANGED <<flow, at, landed, claimed, captured>>
    BY DEF SendProbe, ProbeAnswers, StepUnchanged, driver
<1>2. CASE SendProbe
    <2>1. CASE Verdict("error") \/ Verdict("fail")
        BY <1>1, <1>2, <2>1, Concluded DEF SendProbe, Goes
    <2>2. CASE phase' = "answering" /\ UNCHANGED run
        BY <1>1, <1>2, <2>2, Unmoved DEF SendProbe, Goes
    <2> QED
        BY <1>2, <2>1, <2>2 DEF SendProbe
<1>3. CASE ProbeAnswers
    <2>1. CASE Verdict("error") \/ Verdict("fail")
        BY <1>1, <1>3, <2>1, Concluded DEF ProbeAnswers, Goes
    <2>2. CASE phase' = "net" /\ UNCHANGED run
        BY <1>1, <1>3, <2>2, Unmoved DEF ProbeAnswers, Goes
    <2>3. CASE phase' = "send" /\ run' = [run EXCEPT !.waited = @ + 1]
        <3>1. Same(run')
            BY <2>3, Waited
        <3> QED
            BY <1>1, <1>3, <2>3, <3>1 DEF ProbeAnswers, Goes
    <2> QED
        BY <1>3, <2>1, <2>2, <2>3 DEF ProbeAnswers
<1> QED
    BY <1>2, <1>3

LEMMA AccountGoes == TypeOK /\ Account => Goes("net", {"post", "ended"})
<1> SUFFICES ASSUME TypeOK, Account PROVE Goes("net", {"post", "ended"})
    OBVIOUS
<1>1. phase = "net" /\ UNCHANGED <<flow, at, landed, claimed, captured>>
    BY DEF Account
<1>2. CASE Verdict("fail") \/ Verdict("pass")
    BY <1>1, <1>2, Concluded DEF Goes
<1>3. CASE phase' = "post" /\ run' = [run EXCEPT !.waited = 0]
    BY <1>1, <1>3, FieldsAre DEF TypeOK, Same, Fields, Goes
<1> QED
    BY <1>2, <1>3 DEF Account

\* The files a step takes are new: they had landed, and nobody had claimed them.
LEMMA AwaitTakes ==
    TypeOK /\ AwaitDownload =>
        /\ phase = "await" /\ phase' \in {"await", "net", "ended"} /\ Same(run')
        /\ UNCHANGED <<flow, at, landed>>
        /\ \/ UNCHANGED <<claimed, captured>>
           \/ \E f \in Fresh : /\ claimed' = claimed \cup {f}
                              /\ captured' = [captured EXCEPT ![at] = {f}]
<1> SUFFICES ASSUME TypeOK, AwaitDownload
             PROVE  /\ phase' \in {"await", "net", "ended"} /\ Same(run')
                    /\ \/ UNCHANGED <<claimed, captured>>
                       \/ \E f \in Fresh : /\ claimed' = claimed \cup {f}
                                          /\ captured' = [captured EXCEPT ![at] = {f}]
    BY DEF AwaitDownload
<1>1. CASE /\ \E f \in Fresh : claimed' = claimed \cup {f} /\ captured' = [captured EXCEPT ![at] = {f}]
           /\ phase' = "net" /\ UNCHANGED run
    BY <1>1, Unmoved
<1>2. CASE Verdict("fail") /\ UNCHANGED <<claimed, captured>>
    BY <1>2, Concluded
<1>3. CASE run' = [run EXCEPT !.waited = @ + 1] /\ UNCHANGED <<phase, claimed, captured>>
    <2>1. Same(run')
        BY <1>3, Waited
    <2> QED
        BY <1>3, <2>1 DEF AwaitDownload
<1> QED
    BY <1>1, <1>2, <1>3 DEF AwaitDownload

After == IF kind \in Gated THEN "gate" ELSE "prepare"

LEMMA ResolveGoes ==
    TypeOK /\ ResolveTarget =>
        /\ phase = "resolve" /\ StepUnchanged
        /\ \/ Same(run') /\ phase' \in {"resolve", "ended"}
           \/ \E ok \in BOOLEAN : NextEnd("resolved", ok, "resolve", After)
<1> SUFFICES ASSUME TypeOK, ResolveTarget
             PROVE  \/ Same(run') /\ phase' \in {"resolve", "ended"}
                    \/ \E ok \in BOOLEAN : NextEnd("resolved", ok, "resolve", After)
    BY DEF ResolveTarget
<1>1. \/ \E v : Verdict(v)
      \/ run' = [run EXCEPT !.rung = @ + 1] /\ phase' = "resolve"
      \/ \E answer \in Answers :
             NextEnd("resolved", ElementExists(step.locator, run.rung, answer), "resolve", After)
    BY DEF ResolveTarget, Breaks, After
<1>2. CASE \E v : Verdict(v)
    <2>1. PICK v : Verdict(v)
        BY <1>2
    <2> QED
        BY <2>1, Concluded
<1>3. CASE run' = [run EXCEPT !.rung = @ + 1] /\ phase' = "resolve"
    BY <1>3, FieldsAre DEF TypeOK, Same, Fields
<1>4. ASSUME NEW answer, NextEnd("resolved", ElementExists(step.locator, run.rung, answer), "resolve", After)
      PROVE  \E ok \in BOOLEAN : NextEnd("resolved", ok, "resolve", After)
    <2>1. ElementExists(step.locator, run.rung, answer) \in BOOLEAN
        BY DEF ElementExists
    <2> QED
        BY <2>1, <1>4
<1> QED
    BY <1>1, <1>2, <1>3, <1>4

LEMMA GateGoes ==
    TypeOK /\ WaitActionable =>
        /\ phase = "gate" /\ StepUnchanged
        /\ \/ Same(run') /\ phase' \in {"gate", "ended"}
           \/ \E ok \in BOOLEAN : NextEnd("ready", ok, "gate", "prepare")
<1> SUFFICES ASSUME TypeOK, WaitActionable
             PROVE  \/ Same(run') /\ phase' \in {"gate", "ended"}
                    \/ \E ok \in BOOLEAN : NextEnd("ready", ok, "gate", "prepare")
    BY DEF WaitActionable
<1>1. \/ \E v : Verdict(v)
      \/ run' = [run EXCEPT !.waited = @ + 1] /\ phase' = "gate"
      \/ NextEnd("ready", ActionabilityGate(run.rung) = "open", "gate", "prepare")
    BY DEF WaitActionable, Breaks
<1>2. CASE \E v : Verdict(v)
    <2>1. PICK v : Verdict(v)
        BY <1>2
    <2> QED
        BY <2>1, Concluded
<1>3. CASE run' = [run EXCEPT !.waited = @ + 1] /\ phase' = "gate"
    <2>1. Same(run')
        BY <1>3, Waited
    <2> QED
        BY <2>1, <1>3
<1>4. CASE NextEnd("ready", ActionabilityGate(run.rung) = "open", "gate", "prepare")
    <2>1. (ActionabilityGate(run.rung) = "open") \in BOOLEAN
        OBVIOUS
    <2> QED
        BY <2>1, <1>4
<1> QED
    BY <1>1, <1>2, <1>3, <1>4

---------------------------------------------------------------------------

LEMMA FlowHere ==
    TypeOK => /\ Len(flow) \in Nat /\ DOMAIN flow = 1..Len(flow) /\ at \in 1..Len(flow)
              /\ kind \in Kinds
BY FlowsAssumption DEF TypeOK, kind, step

LEMMA FirstPhaseIs ==
    ASSUME NEW k \in Kinds
    PROVE  \/ FirstPhase(k) = "resolve" /\ k \in Targeted
           \/ FirstPhase(k) = "prepare" /\ k \in Untargeted
           \/ FirstPhase(k) \in {"settle", "ask"} /\ k \in Asserts
           \/ FirstPhase(k) = "send" /\ k \in Probes
           \/ FirstPhase(k) = "await" /\ k = "download"
<1>1. CASE k \in Targeted
    BY <1>1 DEF FirstPhase, Targeted, Gated, Untargeted, Settled, Asserts, SurfaceReadings,
                FrameReadings, ElementReadings, Presence, Contents, TextReadings, StateReadings,
                ComputedReadings, Probes
<1>2. CASE k \in Untargeted
    BY <1>2 DEF FirstPhase, Targeted, Gated, Untargeted, Settled, Asserts, SurfaceReadings,
                FrameReadings, ElementReadings, Presence, Contents, TextReadings, StateReadings,
                ComputedReadings, Probes
<1>3. CASE k \in Asserts
    BY <1>3 DEF FirstPhase, Targeted, Gated, Untargeted, Settled, Asserts, SurfaceReadings,
                FrameReadings, ElementReadings, Presence, Contents, TextReadings, StateReadings,
                ComputedReadings, Probes
<1>4. CASE k \in Probes
    BY <1>4 DEF FirstPhase, Targeted, Gated, Untargeted, Settled, Asserts, SurfaceReadings,
                FrameReadings, ElementReadings, Presence, Contents, TextReadings, StateReadings,
                ComputedReadings, Probes
<1>5. CASE k = "download"
    BY <1>5 DEF FirstPhase, Targeted, Gated, Untargeted, Settled, Asserts, SurfaceReadings,
                FrameReadings, ElementReadings, Presence, Contents, TextReadings, StateReadings,
                ComputedReadings, Probes
<1> QED
    BY <1>1, <1>2, <1>3, <1>4, <1>5 DEF Kinds, Inputs

LEMMA NewRunTyped ==
    /\ DOMAIN NewRun = Fields /\ NewRun.ends = 0 /\ NewRun.resolved = 0 /\ NewRun.ready = 0
    /\ NewRun.lacks = FALSE /\ NewRun.waited = 0 /\ NewRun.lastLook = FALSE
    /\ NewRun.missed = FALSE /\ NewRun.fault = FALSE
BY DEF NewRun, Fields

LEMMA TypeInit == Init => TypeOK
<1> SUFFICES ASSUME Init PROVE TypeOK
    OBVIOUS
<1>1. 1 \in DOMAIN flow
    <2>1. flow \in Flows
        BY DEF Init
    <2> DEFINE S == {flow[i] : i \in DOMAIN flow}
    <2>2. flow # <<>> /\ flow \in Seq(S)
        BY <2>1, FlowsAssumption
    <2> HIDE DEF S
    <2>3. Len(flow) # 0
        BY <2>2, EmptySeq
    <2> QED
        BY <2>2, <2>3
<1>2. /\ flow \in Flows /\ at = 1 /\ phase = "begin" /\ run = NewRun /\ claimed = landed
      /\ DOMAIN captured = 0..Len(flow)
    BY DEF Init, DriverInit
<1> QED
    BY <1>1, <1>2, NewRunTyped DEF TypeOK, Phases, Fields

\* A step that goes on keeps the types.
LEMMA TypeKept ==
    ASSUME TypeOK, Same(run'), phase' \in Phases, UNCHANGED <<flow, at, captured, claimed>>,
           landed \subseteq landed'
    PROVE  TypeOK'
BY DEF TypeOK, Same, Fields

LEMMA TypeStep == TypeOK /\ [Next]_vars => TypeOK'
<1> SUFFICES ASSUME TypeOK, [Next]_vars PROVE TypeOK'
    OBVIOUS
<1> USE DEF Phases
<1>0. ASSUME StepUnchanged, Same(run'), phase' \in Phases PROVE TypeOK'
    BY <1>0, TypeKept DEF StepUnchanged, driver
<1>1. CASE Begin
    <2>1. phase' \in Phases
        BY <1>1, FlowHere, FirstPhaseIs DEF Begin
    <2>2. run' = NewRun /\ UNCHANGED <<flow, at, captured, claimed, landed>>
        BY <1>1 DEF Begin, driver
    <2>3. /\ DOMAIN run' = DOMAIN NewRun /\ run'.ends = 0 /\ run'.resolved = 0 /\ run'.ready = 0
          /\ run'.lacks = FALSE /\ run'.waited = 0 /\ run'.lastLook = FALSE
        BY <2>2, NewRunTyped DEF Fields
    <2> QED
        BY <2>1, <2>2, <2>3 DEF TypeOK
<1>2. CASE WaitForElement
    BY <1>0, <1>2, WaitSame, FlowHere, FirstPhaseIs DEF TypeOK
<1>3. ASSUME NEW counter \in {"resolved", "ready"}, NEW ok \in BOOLEAN, NEW again \in Phases,
             NEW after \in Phases, NextEnd(counter, ok, again, after), StepUnchanged
      PROVE  TypeOK'
    <2>1. /\ DOMAIN run' = Fields /\ run'.ends \in Nat /\ run'.waited = 0
          /\ run'.lastLook = run.lastLook /\ run'.lacks = (run.lacks \/ ~ok)
          /\ run'[counter] = IF ok THEN run[counter] + 1 ELSE run[counter]
          /\ \A other \in {"resolved", "ready"} : other # counter => run'[other] = run[other]
          /\ phase' \in {again, after, "ended"}
        BY <1>3, EndStep
    <2>2. run'.resolved \in Nat /\ run'.ready \in Nat
        BY <1>3, <2>1 DEF TypeOK
    <2> QED
        BY <2>1, <2>2, <1>3 DEF TypeOK, Fields, StepUnchanged, driver
<1>4. CASE ResolveTarget
    <2>1. After \in Phases
        BY DEF After
    <2> QED
        BY <1>0, <1>3, <1>4, <2>1, ResolveGoes
<1>5. CASE WaitActionable
    BY <1>0, <1>3, <1>5, GateGoes
<1>6. CASE Prepare
    BY <1>6, PrepareGoes, TypeKept DEF Goes
<1>7. CASE CallArrives \/ CallFails
    BY <1>7, CallSame, TypeKept
<1>8. CASE Confirm
    BY <1>8, ConfirmGoes, TypeKept DEF Goes
<1>9. CASE AwaitDownload
    <2>1. CASE UNCHANGED <<claimed, captured>>
        BY <2>1, <1>9, AwaitTakes, TypeKept
    <2>2. CASE \E f \in Fresh : /\ claimed' = claimed \cup {f}
                               /\ captured' = [captured EXCEPT ![at] = {f}]
        <3>1. claimed' \subseteq landed' /\ DOMAIN captured' = DOMAIN captured
            BY <2>2, <1>9, AwaitTakes DEF TypeOK, Fresh
        <3> QED
            BY <3>1, <1>9, AwaitTakes DEF TypeOK, Same, Fields
    <2> QED
        BY <1>9, <2>1, <2>2, AwaitTakes
<1>10. CASE SettleScene
    BY <1>0, <1>10, SettleAsked
<1>11. CASE AskRefs \/ AskSurface \/ AskFrame \/ AskRung \/ ReadElement \/ SeeElement
    BY <1>0, <1>11, RefsAsked, SurfaceAsked, FrameAsked, RungAsked, ReadAsked, SeeAsked DEF Asked
<1>12. CASE SendProbe \/ ProbeAnswers
    BY <1>12, ProbeGoes, TypeKept DEF Goes
<1>13. CASE Account
    BY <1>13, AccountGoes, TypeKept DEF Goes
<1>14. CASE NextStep
    <2>1. at' \in DOMAIN flow /\ phase' \in Phases /\ UNCHANGED <<flow, run, captured, claimed, landed>>
        BY <1>14, FlowHere DEF NextStep, TypeOK
    <2> QED
        BY <2>1 DEF TypeOK
<1>15. CASE PageStep
    <2>1. UNCHANGED <<flow, at, phase, run, captured, claimed>> /\ landed \subseteq landed'
        BY <1>15 DEF PageStep, PageMoves, LateDialog, DownloadLands
    <2> QED
        BY <2>1 DEF TypeOK
<1>16. CASE UNCHANGED vars
    BY <1>16 DEF TypeOK, vars, driver
<1> QED
    BY <1>1, <1>2, <1>4, <1>5, <1>6, <1>7, <1>8, <1>9, <1>10, <1>11, <1>12, <1>13, <1>14, <1>15, <1>16
    DEF Next, Replay

\* The state always has its types, and what replay notes of a step has them
\* too (execute_step).
THEOREM TypeCorrect == Spec => []TypeOK
<1> QED
    BY TypeInit, TypeStep, PTL DEF Spec

---------------------------------------------------------------------------
(* Calls that act are sent to what was found and seen ready.               *)

\* Each phase belongs to some kinds of steps.
PhaseKnown ==
    /\ phase = "resolve" => kind \in Targeted
    /\ phase = "gate" => kind \in Gated
    /\ phase \in {"prepare", "input", "confirm"} => kind \in Inputs
    /\ phase \in {"settle", "ask", "read"} => kind \in Asserts
    /\ phase \in {"send", "answering"} => kind \in Probes
    /\ phase = "await" => kind = "download"

\* How far the ends of the step are: before the input all were found, and those
\* that are gated are all ready.
EndsKnown ==
    /\ phase = "pre" => run.ends = 0 /\ run.resolved = 0 /\ run.ready = 0 /\ ~run.lacks
    /\ phase = "resolve" =>
          run.ends < Ends(kind) /\ run.ready = 0 /\ (~run.lacks => run.resolved = run.ends)
    /\ phase = "gate" =>
          /\ run.ends < Ends(kind) /\ run.resolved = Ends(kind)
          /\ ~run.lacks => run.ready = run.ends
    /\ phase \in {"prepare", "input"} =>
          /\ kind \in Targeted => run.resolved = Ends(kind)
          /\ kind \in Gated => run.ready = Ends(kind)
    /\ phase = "input" => step.refs

Ready == PhaseKnown /\ EndsKnown

LEMMA ReadyInit == Init => Ready
BY DEF Init, Ready, PhaseKnown, EndsKnown

\* The first phase of a step whose ends nobody has looked at.
LEMMA ReadyFirst ==
    ASSUME TypeOK, UNCHANGED <<flow, at>>, phase' = FirstPhase(kind),
           run'.ends = 0, run'.resolved = 0, run'.ready = 0, ~run'.lacks
    PROVE  Ready'
<1>1. kind \in Kinds /\ kind' = kind
    BY FlowHere DEF kind, step
<1>2. Ends(kind) \in {1, 2} /\ Ends(kind)' = Ends(kind)
    BY <1>1 DEF Ends
<1>3. kind \in Untargeted => kind \notin Targeted /\ kind \notin Gated
    BY DEF Untargeted, Targeted, Gated
<1>4. CASE phase' = "resolve" /\ kind \in Targeted
    BY <1>1, <1>2, <1>4 DEF Ready, PhaseKnown, EndsKnown
<1>5. CASE phase' = "prepare" /\ kind \in Untargeted
    BY <1>1, <1>2, <1>3, <1>5 DEF Ready, PhaseKnown, EndsKnown, Inputs
<1>6. CASE phase' \in {"settle", "ask"} /\ kind \in Asserts
    BY <1>1, <1>2, <1>6 DEF Ready, PhaseKnown, EndsKnown
<1>7. CASE phase' = "send" /\ kind \in Probes
    BY <1>1, <1>2, <1>7 DEF Ready, PhaseKnown, EndsKnown
<1>8. CASE phase' = "await" /\ kind = "download"
    BY <1>1, <1>2, <1>8 DEF Ready, PhaseKnown, EndsKnown
<1> QED
    BY <1>1, <1>4, <1>5, <1>6, <1>7, <1>8, FirstPhaseIs

\* A step whose notes say the same of its ends, and that stays in its phase or
\* goes on to one that does not act.
LEMMA ReadyKept ==
    ASSUME TypeOK, Ready, UNCHANGED <<flow, at>>, Same(run'),
           \/ phase' \in {phase, "net", "post", "ended"}
           \/ phase \in {"settle", "ask", "read"} /\ phase' \in {"settle", "ask", "read"}
           \/ phase \in {"send", "answering"} /\ phase' \in {"send", "answering"}
           \/ phase = "input" /\ phase' = "confirm"
           \/ phase = "prepare" /\ phase' = "input" /\ step.refs
    PROVE  Ready'
<1>1. kind' = kind /\ step' = step /\ Ends(kind)' = Ends(kind)
    BY DEF kind, step, Ends
<1>2. PhaseKnown'
    BY <1>1 DEF Ready, PhaseKnown
<1>3. EndsKnown'
    BY <1>1 DEF Ready, EndsKnown, Same
<1> QED
    BY <1>2, <1>3 DEF Ready

LEMMA ReadyStep == TypeOK /\ Ready /\ [Next]_vars => Ready'
<1> SUFFICES ASSUME TypeOK, Ready, [Next]_vars PROVE Ready'
    OBVIOUS
<1>1. CASE Begin
    <2>1. UNCHANGED <<flow, at>> /\ phase' \in {"pre", FirstPhase(kind)} /\ run' = NewRun
        BY <1>1 DEF Begin
    <2>2. CASE phase' = "pre"
        BY <2>1, <2>2, NewRunTyped DEF Ready, PhaseKnown, EndsKnown
    <2> QED
        BY <2>1, <2>2, NewRunTyped, ReadyFirst
<1>2. CASE WaitForElement
    <2>1. UNCHANGED <<flow, at>> /\ Same(run')
        BY <1>2, WaitSame DEF StepUnchanged
    <2>2. CASE phase = "pre" /\ phase' = FirstPhase(kind)
        BY <2>1, <2>2, ReadyFirst DEF Ready, EndsKnown, Same
    <2> QED
        BY <1>2, <2>1, <2>2, WaitSame, ReadyKept
<1>3. CASE ResolveTarget
    <2>1. phase = "resolve" /\ UNCHANGED <<flow, at>>
        BY <1>3, ResolveGoes DEF StepUnchanged
    <2>2. CASE Same(run') /\ phase' \in {"resolve", "ended"}
        BY <2>1, <2>2, ReadyKept
    <2>3. ASSUME NEW ok \in BOOLEAN, NextEnd("resolved", ok, "resolve", After) PROVE Ready'
        <3>1. /\ run'.lacks = (run.lacks \/ ~ok) /\ run'.ready = run.ready
              /\ run'.resolved = IF ok THEN run.resolved + 1 ELSE run.resolved
              /\ \/ phase' = "resolve" /\ run'.ends = run.ends + 1 /\ run.ends + 1 < Ends(kind)
                 \/ phase' = "ended"
                 \/ /\ phase' = After /\ ~run.lacks /\ ok /\ run'.ends = 0
                    /\ run.ends + 1 >= Ends(kind)
            BY <2>3, EndStep
        <3>2. /\ kind \in Targeted /\ run.ends < Ends(kind) /\ run.ready = 0
              /\ ~run.lacks => run.resolved = run.ends
            BY <2>1 DEF Ready, PhaseKnown, EndsKnown
        <3>3. kind' = kind /\ Ends(kind)' = Ends(kind) /\ Ends(kind) \in {1, 2}
              /\ run.ends \in Nat /\ run.resolved \in Nat
            BY <2>1 DEF kind, step, Ends, TypeOK
        <3>4. CASE phase' = "resolve" /\ run'.ends = run.ends + 1 /\ run.ends + 1 < Ends(kind)
            BY <3>1, <3>2, <3>3, <3>4 DEF Ready, PhaseKnown, EndsKnown
        <3>5. CASE phase' = "ended"
            BY <3>5 DEF Ready, PhaseKnown, EndsKnown
        <3>6. CASE /\ phase' = After /\ ~run.lacks /\ ok /\ run'.ends = 0
                   /\ run.ends + 1 >= Ends(kind)
            <4>1. run'.resolved = Ends(kind) /\ run'.ready = 0
                BY <3>1, <3>2, <3>3, <3>6
            <4>2. ~run'.lacks
                BY <3>1, <3>6
            <4> QED
                BY <4>1, <4>2, <3>2, <3>3, <3>6 DEF After, Ready, PhaseKnown, EndsKnown, Inputs
        <3> QED
            BY <3>1, <3>4, <3>5, <3>6
    <2> QED
        BY <1>3, <2>2, <2>3, ResolveGoes
<1>4. CASE WaitActionable
    <2>1. phase = "gate" /\ UNCHANGED <<flow, at>>
        BY <1>4, GateGoes DEF StepUnchanged
    <2>2. CASE Same(run') /\ phase' \in {"gate", "ended"}
        BY <2>1, <2>2, ReadyKept
    <2>3. ASSUME NEW ok \in BOOLEAN, NextEnd("ready", ok, "gate", "prepare") PROVE Ready'
        <3>1. /\ run'.lacks = (run.lacks \/ ~ok) /\ run'.resolved = run.resolved
              /\ run'.ready = IF ok THEN run.ready + 1 ELSE run.ready
              /\ \/ phase' = "gate" /\ run'.ends = run.ends + 1 /\ run.ends + 1 < Ends(kind)
                 \/ phase' = "ended"
                 \/ /\ phase' = "prepare" /\ ~run.lacks /\ ok /\ run'.ends = 0
                    /\ run.ends + 1 >= Ends(kind)
            BY <2>3, EndStep
        <3>2. /\ kind \in Gated /\ run.ends < Ends(kind) /\ run.resolved = Ends(kind)
              /\ ~run.lacks => run.ready = run.ends
            BY <2>1 DEF Ready, PhaseKnown, EndsKnown
        <3>3. kind' = kind /\ Ends(kind)' = Ends(kind) /\ Ends(kind) \in {1, 2}
              /\ run.ends \in Nat /\ run.ready \in Nat
            BY <2>1 DEF kind, step, Ends, TypeOK
        <3>4. CASE phase' = "gate" /\ run'.ends = run.ends + 1 /\ run.ends + 1 < Ends(kind)
            BY <3>1, <3>2, <3>3, <3>4 DEF Ready, PhaseKnown, EndsKnown
        <3>5. CASE phase' = "ended"
            BY <3>5 DEF Ready, PhaseKnown, EndsKnown
        <3>6. CASE /\ phase' = "prepare" /\ ~run.lacks /\ ok /\ run'.ends = 0
                   /\ run.ends + 1 >= Ends(kind)
            <4>1. run'.resolved = Ends(kind) /\ run'.ready = Ends(kind)
                BY <3>1, <3>2, <3>3, <3>6
            <4>2. kind \in Inputs
                BY <3>2 DEF Inputs, Targeted
            <4> QED
                BY <4>1, <4>2, <3>3, <3>6 DEF Ready, PhaseKnown, EndsKnown
        <3> QED
            BY <3>1, <3>4, <3>5, <3>6
    <2> QED
        BY <1>4, <2>2, <2>3, GateGoes
<1>5. CASE Prepare
    BY <1>5, PrepareGoes, ReadyKept DEF Goes
<1>6. CASE CallArrives \/ CallFails
    BY <1>6, CallSame, ReadyKept
<1>7. CASE Confirm
    BY <1>7, ConfirmGoes, ReadyKept DEF Goes
<1>8. CASE AwaitDownload
    BY <1>8, AwaitTakes, ReadyKept
<1>9. CASE SettleScene
    BY <1>9, SettleAsked, ReadyKept DEF StepUnchanged
<1>10. CASE AskRefs \/ AskSurface \/ AskFrame \/ AskRung
    <2>1. phase = "ask"
        BY <1>10 DEF AskRefs, AskSurface, AskFrame, AskRung
    <2> QED
        BY <1>10, <2>1, RefsAsked, SurfaceAsked, FrameAsked, RungAsked, ReadyKept DEF Asked, StepUnchanged
<1>11. CASE ReadElement \/ SeeElement
    BY <1>11, ReadAsked, SeeAsked, ReadyKept DEF Asked, StepUnchanged
<1>12. CASE SendProbe \/ ProbeAnswers
    BY <1>12, ProbeGoes, ReadyKept DEF Goes
<1>13. CASE Account
    BY <1>13, AccountGoes, ReadyKept DEF Goes
<1>14. CASE NextStep
    BY <1>14 DEF NextStep, Ready, PhaseKnown, EndsKnown
<1>15. CASE PageStep \/ UNCHANGED vars
    <2>1. UNCHANGED <<flow, at, phase, run>>
        BY <1>15 DEF PageStep, vars
    <2> QED
        BY <2>1, Unmoved, ReadyKept
<1> QED
    BY <1>1, <1>2, <1>3, <1>4, <1>5, <1>6, <1>7, <1>8, <1>9, <1>10, <1>11, <1>12, <1>13, <1>14, <1>15
    DEF Next, Replay

LEMMA ReadyActs ==
    TypeOK /\ Ready =>
        [control' # control /\ phase = "input" =>
              /\ step.refs
              /\ kind \in Targeted => run.resolved = Ends(kind)
              /\ kind \in Gated => run.ready = Ends(kind)]_vars
BY DEF Ready, EndsKnown

\* Whatever the page does in between, the calls of an input are sent only when
\* each of its ends was found and seen ready to be acted on (wait_actionable).
THEOREM ActsWhenReady == Spec => ReadyBeforeInput
<1>1. TypeOK /\ Ready /\ [Next]_vars => (TypeOK /\ Ready)'
    BY TypeStep, ReadyStep
<1> QED
    BY <1>1, TypeInit, ReadyInit, ReadyActs, PTL DEF Spec, ReadyBeforeInput

---------------------------------------------------------------------------
(* An element is gone only when it was looked for.                         *)

\* A poll of a visibility check in which a call was lost knows that it was; and
\* a frame's readings begin without a loss.
Heeded ==
    /\ phase = "pre" => ~run.missed /\ ~run.fault
    /\ phase \in {"settle", "ask", "read"} /\ kind = "gone" => (run.missed => run.fault)
    /\ phase \in {"settle", "ask", "read"} /\ kind = "frame gone" => ~run.missed
    /\ phase = "net" /\ kind \in {"gone", "frame gone"} => ~run.missed

LEMMA KindsDiffer ==
    /\ "gone" \notin Inputs \cup Probes \cup Contents \cup FrameReadings \cup SurfaceReadings
    /\ "frame gone" \notin Inputs \cup Probes \cup ElementReadings \cup SurfaceReadings
    /\ Presence \subseteq ElementReadings /\ Contents \subseteq ElementReadings
BY DEF Inputs, Targeted, Untargeted, Gated, Probes, Contents, TextReadings, StateReadings,
       ComputedReadings, FrameReadings, SurfaceReadings, ElementReadings, Presence

LEMMA HeededInit == Init => Heeded
BY DEF Init, Heeded

\* A phase that is left for one that reads nothing, or not at all.
LEMMA HeededAway ==
    ASSUME phase' \notin {"pre", "settle", "ask", "read", "net"} PROVE Heeded'
BY DEF Heeded

LEMMA HeededOther ==
    ASSUME UNCHANGED <<flow, at>>, kind \notin {"gone", "frame gone"}, phase' # "pre" PROVE Heeded'
BY DEF Heeded, kind, step

LEMMA HeededStep ==
    ASSUME step.locator # "scoped", TypeOK, PhaseKnown, Heeded, [Next]_vars PROVE Heeded'
<1>1. CASE Begin
    <2>1. run'.missed = FALSE /\ run'.fault = FALSE /\ phase' # "net"
        BY <1>1, NewRunTyped, FlowHere, FirstPhaseIs DEF Begin
    <2> QED
        BY <2>1 DEF Heeded
<1>2. CASE WaitForElement
    <2>1. UNCHANGED <<flow, at>> /\ phase \in {"pre", "post"}
        BY <1>2 DEF WaitForElement, StepUnchanged
    <2>2. \/ phase' = "ended"
          \/ run'.missed = run.missed /\ run'.fault = run.fault
        <3>1. \/ \E v : Verdict(v)
              \/ Continue(FirstPhase(kind))
              \/ run' = [run EXCEPT !.lastLook = TRUE]
              \/ run' = [run EXCEPT !.waited = @ + 1]
            BY <1>2 DEF WaitForElement, Breaks
        <3> QED
            BY <3>1, FieldsAre DEF Verdict, Continue, TypeOK, Fields
    <2>3. phase' # "net"
        <3>1. FirstPhase(kind) # "net"
            BY FlowHere, FirstPhaseIs
        <3>2. phase' \in {phase, "ended"} \/ phase' = FirstPhase(kind)
            BY <1>2, WaitSame
        <3> QED
            BY <2>1, <3>1, <3>2
    <2>4. kind' = kind
        BY <2>1 DEF kind, step
    <2>5. CASE phase = "post"
        BY <2>1, <2>5, <1>2, WaitSame, HeededAway
    <2>6. CASE phase = "pre"
        BY <2>2, <2>3, <2>4, <2>6 DEF Heeded
    <2> QED
        BY <2>1, <2>5, <2>6
<1>3. CASE ResolveTarget \/ WaitActionable
    <2>1. kind \in Inputs /\ UNCHANGED <<flow, at>>
        BY <1>3 DEF ResolveTarget, WaitActionable, PhaseKnown, Inputs, Targeted, StepUnchanged
    <2>2. phase' # "pre"
        <3>1. CASE Same(run') /\ phase' \in {"resolve", "gate", "ended"}
            BY <3>1
        <3>2. ASSUME NEW counter \in {"resolved", "ready"}, NEW ok \in BOOLEAN,
                     NEW again \in {"resolve", "gate"}, NEW after \in {"gate", "prepare"},
                     NextEnd(counter, ok, again, after)
              PROVE  phase' # "pre"
            BY <3>2, EndStep
        <3> QED
            BY <1>3, <3>1, <3>2, ResolveGoes, GateGoes DEF After
    <2> QED
        BY <2>1, <2>2, HeededOther, KindsDiffer
<1>4. CASE Prepare
    BY <1>4, PrepareGoes, HeededAway DEF Goes
<1>5. CASE CallArrives \/ CallFails
    BY <1>5, CallSame, HeededAway
<1>6. CASE Confirm
    BY <1>6, ConfirmGoes, HeededOther, KindsDiffer DEF Goes, PhaseKnown
<1>7. CASE AwaitDownload
    BY <1>7, AwaitTakes, HeededOther DEF PhaseKnown
<1>8. CASE SettleScene
    <2>1. UNCHANGED <<flow, at>> /\ phase = "settle" /\ phase' \in {"settle", "ask"}
        BY <1>8, SettleAsked DEF StepUnchanged
    <2>2. run'.missed = run.missed /\ run'.fault = run.fault
        <3>1. \/ Continue("ask")
              \/ \E everBusy : run' = [run EXCEPT !.rounds = @ + 1, !.busy = everBusy]
            BY <1>8 DEF SettleScene
        <3> QED
            BY <3>1, FieldsAre DEF Continue, TypeOK, Fields
    <2> QED
        BY <2>1, <2>2 DEF Heeded, kind, step
<1>9. CASE AskRefs
    BY <1>9, RefsAsked, HeededAway
<1>10. CASE AskSurface \/ ReadElement
    <2>1. kind \notin {"gone", "frame gone"}
        BY <1>10, KindsDiffer DEF AskSurface, ReadElement
    <2> QED
        BY <1>10, <2>1, SurfaceAsked, ReadAsked, HeededOther DEF Asked, StepUnchanged
<1>11. CASE AskFrame
    <2>1. kind' = kind /\ kind # "gone"
        BY <1>11, FrameAsked, KindsDiffer DEF Asked, StepUnchanged, kind, step
    <2> QED
        BY <1>11, <2>1, FrameAsked DEF Heeded, Asked
<1>12. CASE AskRung
    <2>1. kind' = kind /\ kind # "frame gone"
        BY <1>12, RungAsked, KindsDiffer DEF Asked, StepUnchanged, kind, step
    <2> QED
        BY <1>12, <2>1, RungAsked DEF Heeded, Asked
<1>13. CASE SeeElement
    <2>1. kind' = kind /\ kind # "frame gone"
        BY <1>13, SeeAsked, KindsDiffer DEF Asked, StepUnchanged, kind, step
    <2> QED
        BY <1>13, <2>1, SeeAsked DEF Heeded, Asked
<1>14. CASE SendProbe \/ ProbeAnswers
    BY <1>14, ProbeGoes, HeededOther, KindsDiffer DEF Goes, PhaseKnown
<1>15. CASE Account
    BY <1>15, AccountGoes, HeededAway DEF Goes
<1>16. CASE NextStep
    BY <1>16, HeededAway DEF NextStep
<1>17. CASE PageStep \/ UNCHANGED vars
    <2>1. UNCHANGED <<flow, at, phase, run>>
        BY <1>17 DEF PageStep, vars
    <2> QED
        BY <2>1 DEF Heeded, kind, step
<1> QED
    BY <1>1, <1>2, <1>3, <1>4, <1>5, <1>6, <1>7, <1>8, <1>9, <1>10, <1>11, <1>12, <1>13, <1>14, <1>15,
       <1>16, <1>17
    DEF Next, Replay

\* Replay goes on to another step in NextStep only, which leaves it at a step that
\* is begun or the flow at its end.
LEMMA StaysOrMoves ==
    ASSUME [Next]_vars PROVE UNCHANGED <<flow, at>> \/ phase' \in {"begin", "over"}
<1>1. CASE NextStep
    BY <1>1 DEF NextStep
<1>2. CASE PageStep \/ UNCHANGED vars
    BY <1>2 DEF PageStep, vars
<1>3. CASE Begin \/ WaitForElement \/ ResolveTarget \/ WaitActionable \/ Prepare \/ CallArrives \/ CallFails
    BY <1>3 DEF Begin, WaitForElement, ResolveTarget, WaitActionable, Prepare, CallArrives, CallFails,
                StepUnchanged
<1>4. CASE Confirm \/ AwaitDownload \/ SettleScene \/ AskRefs \/ AskSurface \/ AskFrame \/ AskRung
    BY <1>4 DEF Confirm, AwaitDownload, SettleScene, AskRefs, AskSurface, AskFrame, AskRung,
                StepUnchanged
<1>5. CASE ReadElement \/ SeeElement \/ SendProbe \/ ProbeAnswers \/ Account
    BY <1>5 DEF ReadElement, SeeElement, SendProbe, ProbeAnswers, Account, StepUnchanged
<1> QED
    BY <1>1, <1>2, <1>3, <1>4, <1>5 DEF Next, Replay

\* Of a step that looks inside a container nothing is known: the second of its two
\* calls may be lost unnoticed.
HeededOutside == step.locator # "scoped" => Heeded

LEMMA OutsideStep ==
    ASSUME TypeOK, PhaseKnown, HeededOutside, [Next]_vars PROVE HeededOutside'
<1>1. CASE step.locator # "scoped"
    BY <1>1, HeededStep DEF HeededOutside
<1>2. CASE phase' \in {"begin", "over"}
    BY <1>2, HeededAway DEF HeededOutside
<1>3. CASE step.locator = "scoped" /\ UNCHANGED <<flow, at>>
    BY <1>3 DEF HeededOutside, step
<1> QED
    BY <1>1, <1>2, <1>3, StaysOrMoves

LEMMA HeededTells == HeededOutside => GoneWasRead
BY DEF HeededOutside, Heeded, GoneWasRead

\* Outside containers and tables "is gone" passes only on a poll that heard every
\* one of its calls, whatever else the flow does: a connection that drops is never
\* taken for an element that went away (the presence expectation of
\* check_assertion).
THEOREM GoneIsHeard == Spec => []GoneWasRead
<1>1. TypeOK /\ Ready /\ HeededOutside /\ [Next]_vars => (TypeOK /\ Ready /\ HeededOutside)'
    BY TypeStep, ReadyStep, OutsideStep DEF Ready
<1>2. Init => HeededOutside
    BY HeededInit DEF HeededOutside
<1> QED
    BY <1>1, <1>2, TypeInit, ReadyInit, HeededTells, PTL DEF Spec

---------------------------------------------------------------------------
(* A download is captured by one step.                                     *)

\* Whatever is captured is claimed, and a step holds at most one file.
Taken ==
    /\ \A i \in DOMAIN captured : captured[i] \subseteq claimed
    /\ \A i, j \in DOMAIN captured : i # j => captured[i] \cap captured[j] = {}
    /\ \A i \in DOMAIN captured \ {0} : captured[i] = {} \/ \E f : captured[i] = {f}

LEMMA TakenInit == Init => Taken
<1> SUFFICES ASSUME Init PROVE Taken
    OBVIOUS
<1>1. captured = [i \in 0..Len(flow) |-> IF i = 0 THEN landed ELSE {}] /\ claimed = landed
    BY DEF Init, DriverInit
<1> QED
    BY <1>1 DEF Taken

LEMMA TakenStep == TypeOK /\ Taken /\ [Next]_vars => Taken'
<1> SUFFICES ASSUME TypeOK, Taken, [Next]_vars PROVE Taken'
    OBVIOUS
<1>1. CASE UNCHANGED <<claimed, captured>>
    BY <1>1 DEF Taken
<1>2. CASE AwaitDownload
    <2>1. CASE \E f \in Fresh : /\ claimed' = claimed \cup {f}
                               /\ captured' = [captured EXCEPT ![at] = {f}]
        <3>1. PICK f \in Fresh : claimed' = claimed \cup {f} /\ captured' = [captured EXCEPT ![at] = {f}]
            BY <2>1
        <3>2. f \notin claimed
            BY DEF Fresh
        <3>3. /\ DOMAIN captured' = DOMAIN captured
              /\ \A i \in DOMAIN captured : captured'[i] = IF i = at THEN {f} ELSE captured[i]
            BY <3>1
        <3>4. \A i \in DOMAIN captured' : captured'[i] \subseteq claimed'
            BY <3>1, <3>3 DEF Taken
        <3>5. \A i, j \in DOMAIN captured' : i # j => captured'[i] \cap captured'[j] = {}
            BY <3>2, <3>3 DEF Taken
        <3>6. \A i \in DOMAIN captured' \ {0} : captured'[i] = {} \/ \E g : captured'[i] = {g}
            BY <3>3 DEF Taken
        <3> QED
            BY <3>4, <3>5, <3>6 DEF Taken
    <2> QED
        BY <1>1, <1>2, <2>1, AwaitTakes
<1>3. CASE \/ Begin \/ WaitForElement \/ ResolveTarget \/ WaitActionable \/ Prepare \/ Confirm
            \/ CallArrives \/ CallFails
    BY <1>1, <1>3 DEF Begin, WaitForElement, ResolveTarget, WaitActionable, Prepare, Confirm,
                      CallArrives, CallFails, StepUnchanged, driver
<1>4. CASE \/ SettleScene \/ AskRefs \/ AskSurface \/ AskFrame \/ AskRung \/ ReadElement \/ SeeElement
    BY <1>1, <1>4 DEF SettleScene, AskRefs, AskSurface, AskFrame, AskRung, ReadElement, SeeElement,
                      StepUnchanged, driver
<1>5. CASE SendProbe \/ ProbeAnswers \/ Account \/ NextStep
    BY <1>1, <1>5 DEF SendProbe, ProbeAnswers, Account, NextStep, StepUnchanged, driver
<1>6. CASE PageStep \/ UNCHANGED vars
    BY <1>1, <1>6 DEF PageStep, PageMoves, LateDialog, DownloadLands, vars, driver
<1> QED
    BY <1>2, <1>3, <1>4, <1>5, <1>6 DEF Next, Replay

LEMMA TakenIsNew == Taken => DownloadsAreNew
<1> SUFFICES ASSUME Taken, NEW i \in DOMAIN captured, NEW j \in DOMAIN captured, i # j
             PROVE  captured[i] \cap captured[j] = {} /\ Cardinality(captured[j] \ captured[0]) <= 1
    BY DEF DownloadsAreNew
<1>1. captured[i] \cap captured[j] = {}
    BY DEF Taken
<1>2. CASE captured[j] \ captured[0] = {}
    BY <1>1, <1>2, FS_EmptySet
<1>3. CASE \E f : captured[j] \ captured[0] = {f}
    <2>1. PICK f : captured[j] \ captured[0] = {f}
        BY <1>3
    <2>2. Cardinality({f}) = 1
        BY FS_Singleton
    <2> QED
        BY <1>1, <2>1, <2>2
<1>4. captured[j] \ captured[0] = {} \/ \E f : captured[j] \ captured[0] = {f}
    <2>1. CASE j = 0
        BY <2>1
    <2>2. CASE j # 0
        <3>1. captured[j] = {} \/ \E f : captured[j] = {f}
            BY <2>2 DEF Taken
        <3> QED
            BY <3>1
    <2> QED
        BY <2>1, <2>2
<1> QED
    BY <1>2, <1>3, <1>4

\* However the files land, each download step captures a file of its own, that
\* was not there when the application was launched (claimed_downloads).
THEOREM DownloadsDiffer == Spec => []DownloadsAreNew
<1>1. TypeOK /\ Taken /\ [Next]_vars => (TypeOK /\ Taken)'
    BY TypeStep, TakenStep
<1> QED
    BY <1>1, TypeInit, TakenInit, TakenIsNew, PTL DEF Spec

---------------------------------------------------------------------------
(* A dialog is accounted for.                                              *)

\* A dialog is declared by an input only: it is read from what an action that
\* acts was recorded with.
DialogsOfInputs ==
    \A f \in Flows : \A i \in DOMAIN f :
        f[i].dialog \in BOOLEAN /\ (f[i].dialog => f[i].kind \in Inputs)

DialogsTyped ==
    /\ dialogs \in [armed : BOOLEAN, fired : {"none", "expected", "other"}, unexpected : BOOLEAN]
    /\ opened \in Nat

\* Nothing opened since the last step was accounted for.
Silent == ~dialogs.armed /\ opened = 0

\* The declared dialog did, and nothing else.
AsDeclared == ~dialogs.armed /\ opened = 1

\* While the listener has met nothing unexpected it has met what was declared.
Told ==
    ~dialogs.unexpected =>
        /\ phase \notin {"input", "confirm", "net", "ended", "over"} => Silent
        /\ phase \in {"input", "confirm"} =>
              IF step.dialog
              THEN AsDeclared \/ (dialogs.armed /\ opened = 0 /\ dialogs.fired = "none")
              ELSE Silent
        /\ phase = "net" => IF step.dialog THEN AsDeclared ELSE Silent
        /\ phase = "ended" /\ run.verdict = "pass" => Silent

Accounted == DialogsTyped /\ Told

LEMMA AccountedInit == Init => Accounted
BY DEF Init, DriverInit, NoDialogs, Accounted, DialogsTyped, Told, Silent

\* A dialog opens: one that is armed for is answered as declared.
LEMMA DialogOpens ==
    ASSUME DialogsTyped, NEW what \in {"expected", "other"}, dialogs' = AfterDialog(dialogs, what),
           opened' = opened + 1
    PROVE  /\ DialogsTyped'
           /\ IF dialogs.armed
              THEN ~dialogs'.armed /\ dialogs'.fired = what /\ dialogs'.unexpected = dialogs.unexpected
              ELSE dialogs'.unexpected
<1>0. opened' \in Nat
    BY DEF DialogsTyped
<1>1. CASE dialogs.armed
    <2>1. dialogs' = [dialogs EXCEPT !.armed = FALSE, !.fired = what]
        BY <1>1 DEF AfterDialog
    <2>2. /\ dialogs' \in [armed : BOOLEAN, fired : {"none", "expected", "other"}, unexpected : BOOLEAN]
          /\ dialogs'.armed = FALSE /\ dialogs'.fired = what
          /\ dialogs'.unexpected = dialogs.unexpected
        BY <2>1 DEF DialogsTyped
    <2> QED
        BY <1>0, <1>1, <2>2 DEF DialogsTyped
<1>2. CASE ~dialogs.armed
    <2>1. dialogs' = [dialogs EXCEPT !.unexpected = TRUE]
        BY <1>2 DEF AfterDialog
    <2>2. /\ dialogs' \in [armed : BOOLEAN, fired : {"none", "expected", "other"}, unexpected : BOOLEAN]
          /\ dialogs'.unexpected = TRUE
        BY <2>1 DEF DialogsTyped
    <2> QED
        BY <1>0, <1>2, <2>2 DEF DialogsTyped
<1> QED
    BY <1>1, <1>2

\* A step in which no dialog opens and that stays before its input, or fails.
LEMMA AccountedQuiet ==
    ASSUME Accounted, UNCHANGED <<dialogs, opened, flow, at>>,
           \/ /\ phase \notin {"input", "confirm", "net", "ended", "over"}
              /\ phase' \notin {"input", "confirm", "net", "over"}
           \/ phase' = "ended" /\ run'.verdict # "pass"
           \/ phase' = "over"
    PROVE  Accounted'
BY DEF Accounted, DialogsTyped, Told, Silent

\* A step that declares no dialog goes to the account of dialogs directly.
LEMMA AccountedNet ==
    ASSUME DialogsOfInputs, TypeOK, Accounted, UNCHANGED <<dialogs, opened, flow, at>>,
           phase \notin {"input", "confirm", "net", "ended", "over"}, phase' = "net", kind \notin Inputs
    PROVE  Accounted'
<1>1. ~step.dialog /\ step' = step
    BY DEF DialogsOfInputs, TypeOK, kind, step
<1> QED
    BY <1>1 DEF Accounted, DialogsTyped, Told, Silent

LEMMA VerdictIs ==
    ASSUME TypeOK, NEW v, Verdict(v) PROVE phase' = "ended" /\ run'.verdict = v
BY FieldsAre DEF TypeOK, Fields, Verdict

LEMMA KindsApart ==
    Asserts \cap Inputs = {} /\ Probes \cap Inputs = {} /\ "download" \notin Inputs
BY DEF Inputs, Targeted, Untargeted, Gated, Asserts, SurfaceReadings, FrameReadings, ElementReadings,
       Presence, Contents, TextReadings, StateReadings, ComputedReadings, Probes

\* An input that is given up does not pass.
LEMMA CallEnds ==
    TypeOK /\ (CallArrives \/ CallFails) /\ phase' = "ended" => run'.verdict # "pass"
<1> SUFFICES ASSUME TypeOK, CallArrives \/ CallFails, phase' = "ended" PROVE run'.verdict # "pass"
    OBVIOUS
<1>1. phase = "input"
    BY DEF CallArrives, CallFails
<1>2. CASE Fails
    <2>1. PICK v \in {"fail", "error"} : Verdict(v)
        BY <1>2 DEF Fails
    <2> QED
        BY <2>1, VerdictIs
<1>3. CASE Lost
    BY <1>1, <1>2, <1>3 DEF Lost
<1>4. CASE \E saw : Answered(saw)
    BY <1>1, <1>2, <1>4 DEF Answered
<1>5. CASE CallFails
    BY <1>2, <1>3, <1>5 DEF CallFails
<1>6. CASE CallArrives
    BY <1>3, <1>4, <1>6 DEF CallArrives
<1> QED
    BY <1>5, <1>6

\* What a call or the page does to the dialogs.
DialogMaybe ==
    \/ UNCHANGED <<dialogs, opened>>
    \/ \E what \in {"expected", "other"} : dialogs' = AfterDialog(dialogs, what) /\ opened' = opened + 1

\* A dialog may open while the step stays where it is, gives its input up, or
\* has it done.
LEMMA AccountedOpens ==
    ASSUME Accounted, DialogMaybe, UNCHANGED <<flow, at>>,
           \/ phase' = phase /\ run' = run
           \/ phase = "input" /\ phase' \in {"input", "confirm"}
           \/ phase' = "ended" /\ run'.verdict # "pass"
    PROVE  Accounted'
<1>0. step' = step
    BY DEF step
<1>1. CASE UNCHANGED <<dialogs, opened>>
    BY <1>0, <1>1 DEF Accounted, DialogsTyped, Told, Silent, AsDeclared
<1>2. CASE \E what \in {"expected", "other"} :
              dialogs' = AfterDialog(dialogs, what) /\ opened' = opened + 1
    <2>1. PICK what \in {"expected", "other"} :
              dialogs' = AfterDialog(dialogs, what) /\ opened' = opened + 1
        BY <1>2
    <2>2. DialogsTyped' /\ opened \in Nat
        BY <2>1, DialogOpens DEF Accounted, DialogsTyped
    <2>3. CASE ~dialogs.armed
        <3>1. dialogs'.unexpected
            BY <2>1, <2>3, DialogOpens DEF Accounted
        <3> QED
            BY <3>1, <2>2 DEF Accounted, Told
    <2>4. CASE dialogs.armed
        <3>1. ~dialogs'.armed /\ dialogs'.unexpected = dialogs.unexpected
            BY <2>1, <2>4, DialogOpens DEF Accounted
        <3>2. CASE phase \in {"input", "confirm"} /\ step.dialog /\ opened = 0
            <4>1. AsDeclared'
                BY <2>1, <3>1, <3>2 DEF AsDeclared
            <4> QED
                BY <1>0, <2>2, <3>2, <4>1 DEF Accounted, Told
        <3>3. CASE ~(phase \in {"input", "confirm"} /\ step.dialog /\ opened = 0)
            BY <1>0, <2>2, <2>4, <3>1, <3>3 DEF Accounted, Told, Silent, AsDeclared
        <3> QED
            BY <3>2, <3>3
    <2> QED
        BY <2>3, <2>4
<1> QED
    BY <1>1, <1>2 DEF DialogMaybe

LEMMA AccountedPrepare == TypeOK /\ Accounted /\ Prepare => Accounted'
<1> SUFFICES ASSUME TypeOK, Accounted, Prepare PROVE Accounted'
    OBVIOUS
<1>1. phase = "prepare" /\ step' = step /\ UNCHANGED <<opened, flow, at>>
    BY DEF Prepare, step
<1>2. CASE Verdict("fail") /\ UNCHANGED dialogs
    BY <1>1, <1>2, AccountedQuiet DEF Verdict
<1>3. CASE phase' = "input" /\ step.dialog /\ ArmDialog
    <2>1. dialogs' = [dialogs EXCEPT !.armed = TRUE, !.fired = "none"]
        BY <1>3 DEF ArmDialog
    <2>2. /\ dialogs' \in [armed : BOOLEAN, fired : {"none", "expected", "other"}, unexpected : BOOLEAN]
          /\ dialogs'.armed = TRUE /\ dialogs'.fired = "none"
          /\ dialogs'.unexpected = dialogs.unexpected
        BY <2>1 DEF Accounted, DialogsTyped
    <2> QED
        BY <1>1, <1>3, <2>2 DEF Accounted, DialogsTyped, Told, Silent
<1>4. CASE phase' = "input" /\ ~step.dialog /\ UNCHANGED dialogs
    BY <1>1, <1>4 DEF Accounted, DialogsTyped, Told, Silent
<1> QED
    BY <1>2, <1>3, <1>4 DEF Prepare

LEMMA AccountedConfirm == TypeOK /\ Accounted /\ Confirm => Accounted'
<1> SUFFICES ASSUME TypeOK, Accounted, Confirm PROVE Accounted'
    OBVIOUS
<1>1. phase = "confirm" /\ step' = step /\ UNCHANGED <<opened, flow, at>>
    BY DEF Confirm, step
<1>2. CASE ~step.dialog
    BY <1>1, <1>2 DEF Confirm, Accounted, DialogsTyped, Told, Silent
<1>3. CASE step.dialog
    <2>1. dialogs' = [dialogs EXCEPT !.armed = FALSE, !.fired = "none"]
        BY <1>3 DEF Confirm, DialogsTaken
    <2>2. /\ dialogs' \in [armed : BOOLEAN, fired : {"none", "expected", "other"}, unexpected : BOOLEAN]
          /\ dialogs'.armed = FALSE /\ dialogs'.unexpected = dialogs.unexpected
        BY <2>1 DEF Accounted, DialogsTyped
    <2>3. DialogsTyped'
        BY <1>1, <2>2 DEF Accounted, DialogsTyped
    <2>4. CASE VerifyDialog /\ phase' = "net"
        BY <1>1, <1>3, <2>2, <2>3, <2>4 DEF Accounted, Told, AsDeclared, VerifyDialog
    <2>5. CASE Verdict("fail")
        <3>1. phase' = "ended" /\ run'.verdict = "fail"
            BY <2>5, VerdictIs
        <3> QED
            BY <3>1, <2>3 DEF Accounted, Told
    <2> QED
        BY <1>3, <2>4, <2>5 DEF Confirm
<1> QED
    BY <1>2, <1>3

LEMMA AccountedAccount == TypeOK /\ Accounted /\ Account => Accounted'
<1> SUFFICES ASSUME TypeOK, Accounted, Account PROVE Accounted'
    OBVIOUS
<1>1. phase = "net" /\ step' = step /\ opened' = 0
    BY DEF Account, step
<1>2. CASE dialogs.unexpected /\ Verdict("fail") /\ dialogs' = UnexpectedTaken
    <2>1. dialogs' = [dialogs EXCEPT !.unexpected = FALSE]
        BY <1>2 DEF UnexpectedTaken
    <2>2. DialogsTyped'
        BY <1>1, <2>1 DEF Accounted, DialogsTyped
    <2>3. phase' = "ended" /\ run'.verdict = "fail"
        BY <1>2, VerdictIs
    <2> QED
        BY <2>2, <2>3 DEF Accounted, Told
<1>3. CASE ~dialogs.unexpected /\ UNCHANGED dialogs /\ phase' \in {"post", "ended"}
    <2>1. ~dialogs.armed
        BY <1>1, <1>3 DEF Accounted, Told, AsDeclared, Silent
    <2> QED
        BY <1>1, <1>3, <2>1 DEF Accounted, DialogsTyped, Told, Silent
<1> QED
    BY <1>2, <1>3 DEF Account, Verdict

LEMMA AccountedStep ==
    ASSUME DialogsOfInputs, TypeOK, PhaseKnown, Accounted, [Next]_vars PROVE Accounted'
<1>1. CASE Begin
    <2>1. FirstPhase(kind) \notin {"input", "confirm", "net", "over"}
        BY FlowHere, FirstPhaseIs
    <2>2. /\ UNCHANGED <<dialogs, opened, flow, at>> /\ phase = "begin"
          /\ phase' \in {"pre", FirstPhase(kind)}
        BY <1>1 DEF Begin, driver
    <2> QED
        BY <2>1, <2>2, AccountedQuiet
<1>2. CASE WaitForElement
    <2>1. UNCHANGED <<dialogs, opened, flow, at>> /\ phase \in {"pre", "post"}
        BY <1>2 DEF WaitForElement, StepUnchanged, driver
    <2>2. FirstPhase(kind) \notin {"input", "confirm", "net", "over"}
        BY FlowHere, FirstPhaseIs
    <2>3. phase' \in {phase, "ended", FirstPhase(kind)}
        BY <1>2, WaitSame
    <2> QED
        BY <2>1, <2>2, <2>3, AccountedQuiet
<1>3. CASE ResolveTarget \/ WaitActionable
    <2>1. UNCHANGED <<dialogs, opened, flow, at>> /\ phase \in {"resolve", "gate"}
        BY <1>3, ResolveGoes, GateGoes DEF StepUnchanged, driver
    <2>2. phase' \in {"resolve", "gate", "prepare", "ended"}
        <3>1. ASSUME NEW counter \in {"resolved", "ready"}, NEW ok \in BOOLEAN,
                     NEW again \in {"resolve", "gate"}, NEW after \in {"gate", "prepare"},
                     NextEnd(counter, ok, again, after)
              PROVE  phase' \in {"resolve", "gate", "prepare", "ended"}
            BY <3>1, EndStep
        <3> QED
            BY <1>3, <3>1, ResolveGoes, GateGoes DEF After
    <2> QED
        BY <2>1, <2>2, AccountedQuiet
<1>4. CASE Prepare
    BY <1>4, AccountedPrepare
<1>5. CASE CallArrives \/ CallFails
    <2>1. DialogMaybe
        <3>1. CASE CallArrives
            <4>1. PICK opens \in {"nothing", "expected", "other", "later"} :
                      IF opens \in {"expected", "other"}
                      THEN dialogs' = AfterDialog(dialogs, opens) /\ opened' = opened + 1
                      ELSE UNCHANGED <<dialogs, opened>>
                BY <3>1 DEF CallArrives
            <4> QED
                BY <4>1 DEF DialogMaybe
        <3>2. CASE CallFails
            BY <3>2 DEF CallFails, StepUnchanged, driver, DialogMaybe
        <3> QED
            BY <1>5, <3>1, <3>2
    <2> QED
        BY <1>5, <2>1, CallSame, CallEnds, AccountedOpens
<1>6. CASE Confirm
    BY <1>6, AccountedConfirm
<1>7. CASE AwaitDownload
    <2>1. UNCHANGED <<dialogs, opened, flow, at>> /\ phase = "await" /\ phase' \in {"await", "net", "ended"}
        BY <1>7, AwaitTakes DEF AwaitDownload
    <2>2. kind \notin Inputs
        BY <2>1, KindsApart DEF PhaseKnown
    <2> QED
        BY <2>1, <2>2, AccountedQuiet, AccountedNet
<1>8. CASE SettleScene
    BY <1>8, SettleAsked, AccountedQuiet DEF StepUnchanged, driver
<1>9. CASE AskRefs \/ AskSurface \/ AskFrame \/ AskRung \/ ReadElement \/ SeeElement
    <2>1. /\ UNCHANGED <<dialogs, opened, flow, at>> /\ phase \in {"ask", "read"}
          /\ phase' \in {"ended", "ask", "read", "net"}
        <3>1. StepUnchanged /\ phase' \in {"ended", "ask", "read", "net"}
            BY <1>9, RefsAsked, SurfaceAsked, FrameAsked, RungAsked, ReadAsked, SeeAsked DEF Asked
        <3>2. phase \in {"ask", "read"}
            BY <1>9 DEF AskRefs, AskSurface, AskFrame, AskRung, ReadElement, SeeElement
        <3> QED
            BY <3>1, <3>2 DEF StepUnchanged, driver
    <2>2. kind \notin Inputs
        BY <2>1, KindsApart DEF PhaseKnown
    <2> QED
        BY <2>1, <2>2, AccountedQuiet, AccountedNet
<1>10. CASE SendProbe \/ ProbeAnswers
    <2>1. /\ UNCHANGED <<dialogs, opened, flow, at>> /\ phase \in {"send", "answering"}
          /\ phase' \in {"send", "answering", "net", "ended"}
        BY <1>10, ProbeGoes DEF Goes, SendProbe, ProbeAnswers, StepUnchanged, driver
    <2>2. kind \notin Inputs
        BY <2>1, KindsApart DEF PhaseKnown
    <2> QED
        BY <2>1, <2>2, AccountedQuiet, AccountedNet
<1>11. CASE Account
    BY <1>11, AccountedAccount
<1>12. CASE NextStep
    <2>1. CASE phase' = "over" /\ UNCHANGED at
        BY <1>12, <2>1, AccountedQuiet DEF NextStep
    <2>2. CASE run.verdict = "pass" /\ phase' = "begin"
        BY <1>12, <2>2 DEF NextStep, Accounted, DialogsTyped, Told, Silent
    <2> QED
        BY <1>12, <2>1, <2>2 DEF NextStep
<1>13. CASE PageStep
    <2>1. DialogMaybe
        BY <1>13 DEF PageStep, PageMoves, LateDialog, DownloadLands, DialogMaybe
    <2>2. UNCHANGED <<flow, at, phase, run>>
        BY <1>13 DEF PageStep
    <2> QED
        BY <2>1, <2>2, AccountedOpens
<1>14. CASE UNCHANGED vars
    BY <1>14 DEF vars, driver, Accounted, DialogsTyped, Told, Silent, AsDeclared, step
<1> QED
    BY <1>1, <1>2, <1>3, <1>4, <1>5, <1>6, <1>7, <1>8, <1>9, <1>10, <1>11, <1>12, <1>13, <1>14
    DEF Next, Replay

LEMMA AccountedLeaves ==
    TypeOK /\ Accounted /\ [Next]_vars =>
        [phase = "net" /\ phase' # "net" /\ run'.verdict # "fail"
            => opened = (IF step.dialog THEN 1 ELSE 0)]_vars
<1> SUFFICES ASSUME TypeOK, Accounted, Next, phase = "net", phase' # "net", run'.verdict # "fail"
             PROVE  opened = (IF step.dialog THEN 1 ELSE 0)
    OBVIOUS
<1>1. Account
    <2>1. ~Begin /\ ~WaitForElement /\ ~ResolveTarget /\ ~WaitActionable /\ ~Prepare
        BY DEF Begin, WaitForElement, ResolveTarget, WaitActionable, Prepare
    <2>2. ~CallArrives /\ ~CallFails /\ ~Confirm /\ ~AwaitDownload /\ ~SettleScene
        BY DEF CallArrives, CallFails, Confirm, AwaitDownload, SettleScene
    <2>3. ~AskRefs /\ ~AskSurface /\ ~AskFrame /\ ~AskRung /\ ~ReadElement /\ ~SeeElement
        BY DEF AskRefs, AskSurface, AskFrame, AskRung, ReadElement, SeeElement
    <2>4. ~SendProbe /\ ~ProbeAnswers /\ ~NextStep /\ ~PageStep
        BY DEF SendProbe, ProbeAnswers, NextStep, PageStep
    <2> QED
        BY <2>1, <2>2, <2>3, <2>4 DEF Next, Replay
<1>2. ~dialogs.unexpected
    BY <1>1, VerdictIs DEF Account
<1> QED
    BY <1>2 DEF Accounted, Told, AsDeclared, Silent

\* However dialogs open, at once, late, or on another step's time, a step gets
\* past its account only if the one it declared opened and no other did (the
\* dialog listener, verify_dialog, take_unexpected_dialog).
THEOREM DialogsAreTold == ASSUME DialogsOfInputs PROVE Spec => DialogsAccounted
<1>1. TypeOK /\ Ready /\ Accounted /\ [Next]_vars => (TypeOK /\ Ready /\ Accounted)'
    BY TypeStep, ReadyStep, AccountedStep DEF Ready
<1> QED
    BY <1>1, TypeInit, ReadyInit, AccountedInit, AccountedLeaves, PTL DEF Spec, DialogsAccounted

---------------------------------------------------------------------------
(* An assertion fails on what the application answered.                    *)

\* Assertions do their own waiting (recorder.rs:1167-1170).
AssertsDoNotWait ==
    \A f \in Flows : \A i \in DOMAIN f : f[i].kind \in Asserts => ~f[i].waits

\* Kinds that are read in one call a poll.
OneCall == SurfaceReadings \cup FrameReadings

LEMMA AssertsSplit ==
    /\ Asserts = OneCall \cup Presence \cup Contents
    /\ OneCall \cap Presence = {} /\ OneCall \cap Contents = {} /\ Presence \cap Contents = {}
    /\ Asserts \cap (Inputs \cup Probes \cup {"download"}) = {}
    /\ ElementReadings = Presence \cup Contents
BY DEF Asserts, OneCall, Presence, Contents, SurfaceReadings, FrameReadings, TextReadings,
       StateReadings, ComputedReadings, ElementReadings, Inputs, Targeted, Untargeted, Gated, Probes

Flags(r) ==
    /\ DOMAIN r = Fields
    /\ r.fault \in BOOLEAN /\ r.read \in BOOLEAN /\ r.missed \in BOOLEAN
    /\ r.seen \in BOOLEAN /\ r.clean \in BOOLEAN

\* What the notes are worth between two calls of a poll: a reading was seen or
\* was a whole poll without a loss, and a loss in this poll is known.
Noted(r) ==
    /\ kind \in OneCall => ~r.missed /\ (r.read => r.seen) /\ (r.clean => r.read)
    /\ kind \in Presence => (r.missed <=> r.fault) /\ (r.clean <=> r.read)
    /\ kind \in Contents => (r.missed => r.fault) /\ (r.read => r.seen)

\* The same at the end of a poll, which counts if it lost no call.
Ending(r) ==
    /\ kind \in OneCall => (r.read => r.seen) /\ (r.clean \/ ~r.missed => r.read)
    /\ kind \in Presence => (r.clean \/ ~r.missed <=> r.read)
    /\ kind \in Contents => (r.missed => r.fault) /\ (r.read => r.seen)

\* A verdict rests on evidence.
Founded(r) ==
    /\ r.verdict = "fail" => r.seen \/ r.clean
    /\ r.verdict = "unread" /\ kind \notin Contents => ~r.clean

Evident ==
    /\ phase = "pre" => kind \notin Asserts
    /\ phase \in {"settle", "ask", "read"} => Flags(run) /\ Noted(run)
    /\ phase \in {"net", "post"} /\ kind \in Asserts => run.seen \/ run.clean
    /\ phase = "ended" /\ kind \in Asserts /\ step.refs => Founded(run)

\* What an action of an assertion may leave behind.
Leaves ==
    \/ phase' \in {"settle", "ask", "read"} /\ Flags(run') /\ Noted(run')
    \/ phase' = "net" /\ (run'.seen \/ run'.clean)
    \/ phase' = "ended" /\ Founded(run')

LEMMA LeavesEvident == ASSUME Leaves, UNCHANGED <<flow, at>> PROVE Evident'
<1>1. kind' = kind /\ step' = step
    BY DEF kind, step
<1> QED
    BY <1>1 DEF Leaves, Evident, Noted, Founded

LEMMA ErrorLeaves == ASSUME TypeOK, Verdict("error") PROVE Leaves
BY FieldsAre DEF TypeOK, Fields, Verdict, Leaves, Founded

LEMMA SatisfiedLeaves ==
    ASSUME NEW r, Flags(r), r.seen \/ ~r.missed, Satisfied(r) PROVE Leaves
BY FieldsAre DEF Flags, Satisfied, Polled, Leaves

LEMMA PollLeaves ==
    ASSUME NEW r, Flags(r), kind \in Asserts, Ending(r), EndPoll(r) PROVE Leaves
<1> DEFINE q == Polled(r)
<1>1. /\ Flags(q) /\ q.fault = r.fault /\ q.read = r.read /\ q.missed = r.missed
      /\ q.seen = r.seen /\ q.clean = (r.clean \/ ~r.missed)
    BY FieldsAre DEF Flags, Polled
<1>2. \/ phase' = "ended" /\ run' = [q EXCEPT !.verdict = IF Exhausted(q) THEN "unread" ELSE "fail"]
      \/ phase' = "ask" /\ run' = [q EXCEPT !.waited = @ + 1, !.rung = 1, !.missed = FALSE,
                                           !.fault = IF kind \in Contents THEN @ ELSE FALSE]
    BY DEF EndPoll
<1> HIDE DEF q
<1>3. CASE phase' = "ended" /\ run' = [q EXCEPT !.verdict = IF Exhausted(q) THEN "unread" ELSE "fail"]
    <2>1. /\ run'.verdict = IF Exhausted(q) THEN "unread" ELSE "fail"
          /\ run'.seen = q.seen /\ run'.clean = q.clean
        BY <1>1, <1>3, FieldsAre DEF Flags
    <2>2. Exhausted(q) <=> IF kind \in Contents THEN ~r.read /\ r.fault ELSE ~r.read
        BY <1>1 DEF Exhausted
    <2>3. CASE Exhausted(q)
        BY <1>1, <1>3, <2>1, <2>2, <2>3, AssertsSplit DEF Leaves, Founded, Ending, Flags
    <2>4. CASE ~Exhausted(q)
        <3>1. run'.verdict = "fail"
            BY <2>1, <2>4
        <3>2. r.read \/ (kind \in Contents /\ ~r.fault)
            BY <1>1, <2>2, <2>4 DEF Flags
        <3>3. kind \in OneCall \/ kind \in Presence \/ kind \in Contents
            BY AssertsSplit
        <3>4. r.seen \/ r.clean \/ ~r.missed
            BY <3>2, <3>3 DEF Ending
        <3>5. run'.seen \/ run'.clean
            BY <1>1, <2>1, <3>4
        <3> QED
            BY <1>3, <3>1, <3>5 DEF Leaves, Founded
    <2> QED
        BY <2>3, <2>4
<1>4. CASE phase' = "ask" /\ run' = [q EXCEPT !.waited = @ + 1, !.rung = 1, !.missed = FALSE,
                                             !.fault = IF kind \in Contents THEN @ ELSE FALSE]
    <2>1. /\ DOMAIN run' = Fields /\ run'.missed = FALSE
          /\ run'.fault = (IF kind \in Contents THEN q.fault ELSE FALSE)
          /\ run'.read = q.read /\ run'.seen = q.seen /\ run'.clean = q.clean
        BY <1>1, <1>4, FieldsAre DEF Flags
    <2>2. Flags(run')
        BY <1>1, <2>1 DEF Flags
    <2>3. Noted(run')
        BY <1>1, <2>1, AssertsSplit DEF Noted, Ending, Flags
    <2> QED
        BY <1>4, <2>2, <2>3 DEF Leaves
<1> QED
    BY <1>2, <1>3, <1>4

LEMMA VisibleLeaves ==
    ASSUME NEW r, Flags(r), kind \in Presence, Noted(r), NEW visible \in BOOLEAN,
           CheckVisible(r, visible)
    PROVE  Leaves
<1> DEFINE q == [r EXCEPT !.read = @ \/ ~r.fault, !.seen = @ \/ visible]
<1>1. /\ Flags(q) /\ q.fault = r.fault /\ q.missed = r.missed /\ q.clean = r.clean
      /\ q.read = (r.read \/ ~r.fault) /\ q.seen = (r.seen \/ visible)
    BY FieldsAre DEF Flags
<1>2. \/ Satisfied(q) /\ ((kind = "there" /\ visible) \/ ~r.fault)
      \/ EndPoll(q)
    BY DEF CheckVisible
<1> HIDE DEF q
<1>3. CASE Satisfied(q) /\ ((kind = "there" /\ visible) \/ ~r.fault)
    <2>1. q.seen \/ ~q.missed
        BY <1>1, <1>3 DEF Noted
    <2> QED
        BY <1>1, <1>3, <2>1, SatisfiedLeaves
<1>4. CASE EndPoll(q)
    <2>1. Ending(q)
        BY <1>1, AssertsSplit DEF Noted, Ending, Flags
    <2> QED
        BY <1>1, <1>4, <2>1, AssertsSplit, PollLeaves
<1> QED
    BY <1>2, <1>3, <1>4

LEMMA ReadingsNoted ==
    ASSUME Flags(run), Noted(run)
    PROVE  /\ Flags(Heard) /\ Heard.seen /\ (kind \notin Presence => Ending(Heard))
           /\ Flags(Missed) /\ Ending(Missed)
<1>1. /\ Flags(Heard) /\ Heard.seen = TRUE /\ Heard.read = TRUE
      /\ Heard.missed = run.missed /\ Heard.fault = run.fault /\ Heard.clean = run.clean
    BY FieldsAre DEF Flags, Heard
<1>2. /\ Flags(Missed) /\ Missed.missed = TRUE /\ Missed.fault = TRUE
      /\ Missed.seen = run.seen /\ Missed.read = run.read /\ Missed.clean = run.clean
    BY FieldsAre DEF Flags, Missed
<1>3. kind \notin Presence => Ending(Heard)
    BY <1>1 DEF Noted, Ending
<1>4. Ending(Missed)
    BY <1>2 DEF Noted, Ending
<1> QED
    BY <1>1, <1>2, <1>3, <1>4

LEMMA OneCallLeaves ==
    ASSUME TypeOK, Evident, AskSurface \/ AskFrame PROVE Leaves
<1>1. kind \in OneCall /\ phase = "ask"
    BY DEF AskSurface, AskFrame, OneCall
<1>2. kind \in Asserts /\ kind \notin Presence /\ Flags(run) /\ Noted(run)
    BY <1>1, AssertsSplit DEF Evident
<1>3. Verdict("error") \/ EndPoll(Missed) \/ EndPoll(Heard) \/ Satisfied(Heard)
    BY DEF AskSurface, AskFrame
<1> QED
    BY <1>2, <1>3, ReadingsNoted, ErrorLeaves, PollLeaves, SatisfiedLeaves

LEMMA RungLeaves ==
    ASSUME TypeOK, Evident, AskRung, step.locator # "scoped" PROVE Leaves
<1>1. kind \in Presence \cup Contents /\ phase = "ask"
    BY AssertsSplit DEF AskRung
<1>2. kind \in Asserts /\ Flags(run) /\ Noted(run)
    BY <1>1, AssertsSplit DEF Evident
<1> DEFINE r(answer) == [run EXCEPT !.fault = @ \/ answer = "lost", !.missed = @ \/ answer = "lost"]
<1>3. PICK answer \in Answers :
          \/ Verdict("error")
          \/ phase' = "read" /\ run' = r(answer)
          \/ run' = [r(answer) EXCEPT !.rung = @ + 1] /\ UNCHANGED phase
          \/ Absent(r(answer))
    BY DEF AskRung, ExistsAnswers
<1> DEFINE q == r(answer)
<1>4. /\ Flags(q) /\ Noted(q)
      /\ q.fault = (run.fault \/ answer = "lost") /\ q.missed = (run.missed \/ answer = "lost")
    <2>1. /\ DOMAIN q = Fields
          /\ q.fault = (run.fault \/ answer = "lost") /\ q.missed = (run.missed \/ answer = "lost")
          /\ q.read = run.read /\ q.seen = run.seen /\ q.clean = run.clean
        BY <1>2, FieldsAre DEF Flags
    <2> HIDE DEF q
    <2>2. Flags(q)
        BY <1>2, <2>1 DEF Flags
    <2>3. Noted(q)
        BY <1>1, <1>2, <2>1, AssertsSplit DEF Noted, Flags
    <2> QED
        BY <2>1, <2>2, <2>3
<1>5. \/ Verdict("error")
      \/ phase' = "read" /\ run' = q
      \/ run' = [q EXCEPT !.rung = @ + 1] /\ UNCHANGED phase
      \/ Absent(q)
    BY <1>3
<1> HIDE DEF q
<1>6. CASE Verdict("error")
    BY <1>6, ErrorLeaves
<1>7. CASE phase' = "read" /\ run' = q
    BY <1>7, <1>4 DEF Leaves
<1>8. CASE run' = [q EXCEPT !.rung = @ + 1] /\ UNCHANGED phase
    <2>1. /\ DOMAIN run' = Fields /\ run'.fault = q.fault /\ run'.read = q.read
          /\ run'.missed = q.missed /\ run'.seen = q.seen /\ run'.clean = q.clean
        BY <1>4, <1>8, FieldsAre DEF Flags
    <2> QED
        BY <1>1, <1>4, <1>8, <2>1 DEF Flags, Noted, Leaves
<1>9. CASE Absent(q)
    <2>1. CASE kind \in Contents /\ EndPoll(q)
        <3>1. Ending(q)
            BY <1>4, <2>1, AssertsSplit DEF Noted, Ending
        <3> QED
            BY <1>2, <1>4, <2>1, <3>1, PollLeaves
    <2>2. CASE kind \in Presence /\ CheckVisible(q, FALSE)
        BY <1>4, <2>2, VisibleLeaves
    <2> QED
        BY <1>1, <1>9, <2>1, <2>2 DEF Absent
<1> QED
    BY <1>5, <1>6, <1>7, <1>8, <1>9

LEMMA ReadLeaves ==
    ASSUME TypeOK, Evident, ReadElement \/ SeeElement PROVE Leaves
<1>1. kind \in Asserts /\ phase = "read" /\ Flags(run) /\ Noted(run)
    BY AssertsSplit DEF ReadElement, SeeElement, Evident
<1>2. CASE ReadElement
    <2>1. kind \notin Presence
        BY <1>2, AssertsSplit DEF ReadElement
    <2>2. \/ Verdict("error") \/ EndPoll(Missed) \/ EndPoll(Heard) \/ Satisfied(Heard)
          \/ phase' = "ended" /\ run' = [Heard EXCEPT !.verdict = "fail"]
        BY <1>2 DEF ReadElement
    <2>3. CASE phase' = "ended" /\ run' = [Heard EXCEPT !.verdict = "fail"]
        <3>1. run'.verdict = "fail" /\ run'.seen = Heard.seen
            BY <1>1, <2>3, ReadingsNoted, FieldsAre DEF Flags
        <3> QED
            BY <1>1, <2>3, <3>1, ReadingsNoted DEF Leaves, Founded
    <2> QED
        BY <1>1, <2>1, <2>2, <2>3, ReadingsNoted, ErrorLeaves, PollLeaves, SatisfiedLeaves
<1>3. CASE SeeElement
    <2>1. kind \in Presence
        BY <1>3 DEF SeeElement
    <2>2. \/ Verdict("error") \/ EndPoll(Missed) \/ CheckVisible(run, ElementVisible(run.rung))
        BY <1>3 DEF SeeElement
    <2>3. ElementVisible(run.rung) \in BOOLEAN
        BY DEF ElementVisible
    <2> QED
        BY <1>1, <2>1, <2>2, <2>3, ReadingsNoted, ErrorLeaves, PollLeaves, VisibleLeaves
<1> QED
    BY <1>2, <1>3

LEMMA EvidentInit == Init => Evident
BY DEF Init, Evident

\* A step that is no assertion.
LEMMA EvidentOther ==
    ASSUME UNCHANGED <<flow, at>>, kind \notin Asserts, phase' \notin {"settle", "ask", "read"}
    PROVE  Evident'
BY DEF Evident, kind, step

LEMMA EvidentStep ==
    ASSUME AssertsDoNotWait, step.locator # "scoped", TypeOK, PhaseKnown, Evident, [Next]_vars
    PROVE  Evident'
<1>0. kind \in Asserts => ~step.waits
    BY DEF AssertsDoNotWait, TypeOK, kind, step
<1>1. CASE Begin
    <2>1. /\ run'.verdict = "none" /\ Flags(run') /\ UNCHANGED <<flow, at>>
          /\ run'.missed = FALSE /\ run'.fault = FALSE /\ run'.read = FALSE /\ run'.clean = FALSE
        BY <1>1 DEF Begin, NewRun, Flags, Fields
    <2>2. phase' = IF step.waits THEN "pre" ELSE FirstPhase(kind)
        BY <1>1 DEF Begin
    <2>3. Noted(run')
        BY <2>1 DEF Noted
    <2>4. kind' = kind
        BY <2>1 DEF kind, step
    <2> QED
        BY <1>0, <2>1, <2>2, <2>3, <2>4, FlowHere, FirstPhaseIs DEF Evident, Noted
<1>2. CASE WaitForElement
    <2>1. UNCHANGED <<flow, at>> /\ phase \in {"pre", "post"}
        BY <1>2 DEF WaitForElement, StepUnchanged
    <2>2. CASE kind \notin Asserts
        BY <1>2, <2>1, <2>2, WaitSame, FlowHere, FirstPhaseIs, EvidentOther
    <2>3. CASE kind \in Asserts
        <3>1. phase = "post" /\ (run.seen \/ run.clean)
            BY <2>1, <2>3 DEF Evident
        <3>2. phase' \in {"post", "ended"}
            BY <1>2, <3>1, WaitSame
        <3>3. run'.seen = run.seen /\ run'.clean = run.clean
            <4>1. \/ \E v : Verdict(v)
                  \/ run' = [run EXCEPT !.lastLook = TRUE]
                  \/ run' = [run EXCEPT !.waited = @ + 1]
                BY <1>2, <3>1 DEF WaitForElement, Breaks
            <4> QED
                BY <4>1, FieldsAre DEF Verdict, TypeOK, Fields
        <3>4. CASE phase' = "post"
            BY <3>1, <3>3, <3>4 DEF Evident
        <3>5. CASE phase' = "ended"
            <4>1. \E v \in {"error", "pass", "fail"} : Verdict(v)
                BY <1>2, <3>1, <3>5 DEF WaitForElement, Breaks
            <4>2. run'.verdict \in {"error", "pass", "fail"}
                BY <4>1, FieldsAre DEF Verdict, TypeOK, Fields
            <4> QED
                BY <3>1, <3>3, <3>5, <4>2 DEF Evident, Founded
        <3> QED
            BY <3>2, <3>4, <3>5
    <2> QED
        BY <2>2, <2>3
<1>3. CASE ResolveTarget \/ WaitActionable
    <2>1. kind \notin Asserts /\ UNCHANGED <<flow, at>>
        BY <1>3, AssertsSplit DEF ResolveTarget, WaitActionable, PhaseKnown, Inputs, Targeted, StepUnchanged
    <2>2. phase' \notin {"settle", "ask", "read"}
        <3>1. CASE Same(run') /\ phase' \in {"resolve", "gate", "ended"}
            BY <3>1
        <3>2. ASSUME NEW counter \in {"resolved", "ready"}, NEW ok \in BOOLEAN,
                     NEW again \in {"resolve", "gate"}, NEW after \in {"gate", "prepare"},
                     NextEnd(counter, ok, again, after)
              PROVE  phase' \notin {"settle", "ask", "read"}
            BY <3>2, EndStep
        <3> QED
            BY <1>3, <3>1, <3>2, ResolveGoes, GateGoes DEF After
    <2> QED
        BY <2>1, <2>2, EvidentOther
<1>4. CASE Prepare \/ Confirm
    BY <1>4, PrepareGoes, ConfirmGoes, AssertsSplit, EvidentOther DEF Goes, PhaseKnown
<1>5. CASE CallArrives \/ CallFails
    BY <1>5, CallSame, AssertsSplit, EvidentOther DEF PhaseKnown
<1>6. CASE AwaitDownload
    BY <1>6, AwaitTakes, AssertsSplit, EvidentOther DEF PhaseKnown
<1>7. CASE SendProbe \/ ProbeAnswers
    BY <1>7, ProbeGoes, AssertsSplit, EvidentOther DEF Goes, PhaseKnown
<1>8. CASE SettleScene
    <2>1. UNCHANGED <<flow, at>> /\ phase = "settle" /\ phase' \in {"settle", "ask"}
        BY <1>8, SettleAsked DEF StepUnchanged
    <2>2. /\ DOMAIN run' = Fields /\ run'.missed = run.missed /\ run'.fault = run.fault
          /\ run'.read = run.read /\ run'.seen = run.seen /\ run'.clean = run.clean
        <3>1. \/ Continue("ask")
              \/ \E everBusy : run' = [run EXCEPT !.rounds = @ + 1, !.busy = everBusy]
            BY <1>8 DEF SettleScene
        <3> QED
            BY <3>1, FieldsAre DEF Continue, TypeOK, Fields
    <2>3. Flags(run') /\ Noted(run')
        BY <2>1, <2>2 DEF Evident, Flags, Noted
    <2> QED
        BY <2>1, <2>3, LeavesEvident DEF Leaves
<1>9. CASE AskRefs
    <2>1. phase' = "ended" /\ ~step.refs /\ UNCHANGED <<flow, at>>
        BY <1>9, RefsAsked DEF AskRefs, StepUnchanged
    <2> QED
        BY <2>1 DEF Evident, step
<1>10. CASE AskSurface \/ AskFrame
    BY <1>10, OneCallLeaves, LeavesEvident DEF AskSurface, AskFrame, StepUnchanged
<1>11. CASE AskRung
    <2>1. kind \in Asserts
        BY <1>11, AssertsSplit DEF AskRung
    <2> QED
        BY <1>11, <2>1, RungLeaves, LeavesEvident DEF AskRung, StepUnchanged
<1>12. CASE ReadElement \/ SeeElement
    BY <1>12, ReadLeaves, LeavesEvident DEF ReadElement, SeeElement, StepUnchanged
<1>13. CASE Account
    <2>1. phase = "net" /\ phase' \in {"post", "ended"} /\ UNCHANGED <<flow, at>>
        BY <1>13, AccountGoes DEF Goes
    <2>2. /\ run'.seen = run.seen /\ run'.clean = run.clean
          /\ phase' = "ended" => run'.verdict \in {"fail", "pass"}
        BY <1>13, FieldsAre DEF Account, Verdict, TypeOK, Fields
    <2> QED
        BY <2>1, <2>2 DEF Evident, Founded, kind, step
<1>14. CASE NextStep
    BY <1>14 DEF NextStep, Evident
<1>15. CASE PageStep \/ UNCHANGED vars
    <2>1. UNCHANGED <<flow, at, phase, run>>
        BY <1>15 DEF PageStep, vars
    <2> QED
        BY <2>1 DEF Evident, Flags, Noted, Founded, kind, step
<1> QED
    BY <1>1, <1>2, <1>3, <1>4, <1>5, <1>6, <1>7, <1>8, <1>9, <1>10, <1>11, <1>12, <1>13, <1>14, <1>15
    DEF Next, Replay

\* Of a step that looks inside a container nothing is known.
EvidentOutside == step.locator # "scoped" => Evident

LEMMA EvidentOutsideStep ==
    ASSUME AssertsDoNotWait, TypeOK, PhaseKnown, EvidentOutside, [Next]_vars PROVE EvidentOutside'
<1>1. CASE step.locator # "scoped"
    BY <1>1, EvidentStep DEF EvidentOutside
<1>2. CASE phase' \in {"begin", "over"}
    BY <1>2 DEF EvidentOutside, Evident
<1>3. CASE step.locator = "scoped" /\ UNCHANGED <<flow, at>>
    BY <1>3 DEF EvidentOutside, step
<1> QED
    BY <1>1, <1>2, <1>3, StaysOrMoves

LEMMA EvidentTells == EvidentOutside => FailedOnEvidence
BY DEF EvidentOutside, Evident, Founded, FailedOnEvidence

\* Outside containers and tables an assertion fails only on what the application
\* answered, and is given up as unread only when every poll lost a call: a
\* connection that drops is never a verdict on the application (tolerate,
\* exhausted).
THEOREM FailsOnEvidence == ASSUME AssertsDoNotWait PROVE Spec => []FailedOnEvidence
<1>1. TypeOK /\ Ready /\ EvidentOutside /\ [Next]_vars => (TypeOK /\ Ready /\ EvidentOutside)'
    BY TypeStep, ReadyStep, EvidentOutsideStep DEF Ready
<1>2. Init => EvidentOutside
    BY EvidentInit DEF EvidentOutside
<1> QED
    BY <1>1, <1>2, TypeInit, ReadyInit, EvidentTells, PTL DEF Spec

---------------------------------------------------------------------------
(* The programmes of the inputs.                                           *)

LEMMA TextTyped ==
    /\ Text \in Seq({Text[i] : i \in DOMAIN Text}) /\ Len(Text) \in Nat \ {0}
    /\ DOMAIN Text = 1..Len(Text)
    /\ \A i \in 1..Len(Text) : Text[i] \notin Calls
<1> DEFINE S == {Text[i] : i \in DOMAIN Text}
<1>1. Text \in Seq(S) /\ Text # <<>> /\ \A i \in DOMAIN Text : Text[i] \notin Calls
    BY TextAssumption
<1> HIDE DEF S
<1>2. Len(Text) # 0
    BY <1>1, EmptySeq
<1>3. Len(Text) \in Nat /\ DOMAIN Text = 1..Len(Text)
    BY <1>1
<1> QED
    BY <1>1, <1>2, <1>3 DEF S

LEMMA BlockIs ==
    ASSUME NEW calls
    PROVE  /\ Retried(calls).calls = calls /\ Retried(calls).retried
           /\ Once(calls).calls = calls /\ ~Once(calls).retried
BY DEF Retried, Once

LEMMA Concatenated ==
    ASSUME NEW S, NEW s \in Seq(S), NEW t \in Seq(S)
    PROVE  /\ s \o t \in Seq(S) /\ Len(s \o t) = Len(s) + Len(t)
           /\ \A i \in 1..Len(s) : (s \o t)[i] = s[i]
           /\ \A i \in 1..Len(t) : (s \o t)[Len(s) + i] = t[i]
OBVIOUS

LEMMA ClickElementIs ==
    /\ Len(ClickElement) = 4 /\ ClickElement \in Seq(Calls)
    /\ ClickElement[1] = "find" /\ ClickElement[2] = "move"
    /\ ClickElement[3] = "press" /\ ClickElement[4] = "release"
<1> DEFINE find == <<"find">>
<1>1. find \in Seq(Calls) /\ ClickPoint \in Seq(Calls)
    BY DEF Calls, ClickPoint
<1>2. Len(find) = 1 /\ find[1] = "find" /\ Len(ClickPoint) = 3
      /\ ClickPoint[1] = "move" /\ ClickPoint[2] = "press" /\ ClickPoint[3] = "release"
    BY DEF ClickPoint
<1>3. ClickElement = find \o ClickPoint
    BY DEF ClickElement
<1> HIDE DEF find
<1>4. /\ find \o ClickPoint \in Seq(Calls) /\ Len(find \o ClickPoint) = Len(find) + Len(ClickPoint)
      /\ \A i \in 1..Len(find) : (find \o ClickPoint)[i] = find[i]
      /\ \A i \in 1..Len(ClickPoint) : (find \o ClickPoint)[Len(find) + i] = ClickPoint[i]
    BY <1>1, Concatenated
<1>5. 1 \in 1..1 /\ 1 \in 1..3 /\ 2 \in 1..3 /\ 3 \in 1..3 /\ 1 + 1 = 2 /\ 1 + 2 = 3 /\ 1 + 3 = 4
    OBVIOUS
<1> QED
    BY <1>2, <1>3, <1>4, <1>5

LEMMA DoubleClickIs ==
    LET calls == ClickElement \o <<"press", "release">>
    IN  /\ Len(calls) = 6
        /\ calls[1] = "find" /\ calls[2] = "move" /\ calls[3] = "press" /\ calls[4] = "release"
        /\ calls[5] = "press" /\ calls[6] = "release"
<1> DEFINE again == <<"press", "release">>
<1>1. again \in Seq(Calls) /\ Len(again) = 2 /\ again[1] = "press" /\ again[2] = "release"
    BY DEF Calls
<1> HIDE DEF again
<1>2. /\ ClickElement \o again \in Seq(Calls) /\ Len(ClickElement \o again) = Len(ClickElement) + Len(again)
      /\ \A i \in 1..Len(ClickElement) : (ClickElement \o again)[i] = ClickElement[i]
      /\ \A i \in 1..Len(again) : (ClickElement \o again)[Len(ClickElement) + i] = again[i]
    <2>1. ClickElement \in Seq(Calls) /\ again \in Seq(Calls)
        BY <1>1, ClickElementIs
    <2> QED
        BY <2>1, Concatenated
<1>3. /\ 1 \in 1..4 /\ 2 \in 1..4 /\ 3 \in 1..4 /\ 4 \in 1..4 /\ 1 \in 1..2 /\ 2 \in 1..2
      /\ 4 + 1 = 5 /\ 4 + 2 = 6
    OBVIOUS
<1>4. /\ Len(ClickElement \o again) = 6
      /\ (ClickElement \o again)[1] = "find" /\ (ClickElement \o again)[2] = "move"
      /\ (ClickElement \o again)[3] = "press" /\ (ClickElement \o again)[4] = "release"
      /\ (ClickElement \o again)[5] = "press" /\ (ClickElement \o again)[6] = "release"
    BY <1>1, <1>2, <1>3, ClickElementIs
<1> QED
    BY <1>4 DEF again

\* Whether a click of this kind is never made again.
Single == kind \in {"click at", "drag"} \/ (kind = "click" /\ step.locator = "framed")

\* A click ends with a release, the only one but for the first of a double click;
\* what is not retried has its click in a block that is not.
LEMMA ClickShape ==
    ASSUME kind \in DOMAIN Clicks
    PROVE  /\ Len(program) \in Nat \ {0}
           /\ \A b \in 1..Len(program) : Len(program[b].calls) \in Nat \ {0}
           /\ program[Len(program)].calls[Len(program[Len(program)].calls)] = "release"
           /\ \A b \in 1..Len(program) : \A c \in 1..Len(program[b].calls) :
                 program[b].calls[c] = "release" =>
                     /\ b = Len(program)
                     /\ c = Len(program[b].calls) \/ (kind = "double click" /\ c = 4)
           /\ Single => ~program[Len(program)].retried
           /\ ~Single => /\ Len(program) = 1
                         /\ kind # "double click" => Len(program[1].calls) <= 4
                         /\ kind = "double click" => program[1].calls[4] = "release"
                                                     /\ Len(program[1].calls) = 6
           /\ Clicks[kind] = IF kind = "double click" THEN 2 ELSE 1
           /\ Single => kind # "double click"
<1>1. kind \in {"click", "click at", "right click", "drag", "double click"}
      /\ Clicks[kind] = IF kind = "double click" THEN 2 ELSE 1
    BY DEF Clicks
<1>2. CASE kind = "click" /\ step.locator = "framed"
    <2>1. program = <<Retried(<<"probe">>), Once(ClickPoint)>>
        BY <1>2 DEF program, Program, InvokeFramed
    <2>2. Len(program) = 2 /\ program[1] = Retried(<<"probe">>)
          /\ program[2] = Once(ClickPoint)
        BY <2>1
    <2>3. program[1].calls = <<"probe">> /\ program[1].retried
          /\ program[2].calls = ClickPoint /\ ~program[2].retried
        BY <2>2, BlockIs
    <2>4. Len(program[1].calls) = 1 /\ program[1].calls[1] = "probe"
          /\ Len(program[2].calls) = 3 /\ program[2].calls[1] = "move" /\ program[2].calls[2] = "press" /\ program[2].calls[3] = "release"
        BY <2>3, ClickElementIs, DoubleClickIs DEF ClickPoint
    <2>5. \A b \in 1..2 : b = 1 \/ b = 2
        OBVIOUS
    <2>6. \A c \in 1..1 : c = 1
        OBVIOUS
    <2>7. \A c \in 1..3 : c = 1 \/ c = 2 \/ c = 3
        OBVIOUS
    <2>8. \A b \in 1..Len(program) : Len(program[b].calls) \in Nat \ {0}
        BY <2>2, <2>4, <2>5
    <2>9. \A b \in 1..Len(program) : \A c \in 1..Len(program[b].calls) :
              program[b].calls[c] = "release" =>
                  /\ b = Len(program)
                  /\ c = Len(program[b].calls) \/ (kind = "double click" /\ c = 4)
        BY <1>2, <2>2, <2>4, <2>5, <2>6, <2>7
    <2>10. Single
        BY <1>2 DEF Single
    <2> QED
        BY <1>1, <1>2, <2>2, <2>3, <2>4, <2>8, <2>9, <2>10
<1>3. CASE kind = "click" /\ step.locator # "framed"
    <2>1. program = <<Retried(ClickElement)>>
        BY <1>3 DEF program, Program, Invoke
    <2>2. Len(program) = 1 /\ program[1] = Retried(ClickElement)
        BY <2>1
    <2>3. program[1].calls = ClickElement /\ program[1].retried
        BY <2>2, BlockIs
    <2>4. Len(program[1].calls) = 4 /\ program[1].calls[1] = "find" /\ program[1].calls[2] = "move" /\ program[1].calls[3] = "press" /\ program[1].calls[4] = "release"
        BY <2>3, ClickElementIs, DoubleClickIs DEF ClickPoint
    <2>5. \A b \in 1..1 : b = 1
        OBVIOUS
    <2>6. \A c \in 1..4 : c = 1 \/ c = 2 \/ c = 3 \/ c = 4
        OBVIOUS
    <2>7. \A b \in 1..Len(program) : Len(program[b].calls) \in Nat \ {0}
        BY <2>2, <2>4, <2>5
    <2>8. \A b \in 1..Len(program) : \A c \in 1..Len(program[b].calls) :
              program[b].calls[c] = "release" =>
                  /\ b = Len(program)
                  /\ c = Len(program[b].calls) \/ (kind = "double click" /\ c = 4)
        BY <1>3, <2>2, <2>4, <2>5, <2>6
    <2>9. ~Single
        BY <1>3 DEF Single
    <2> QED
        BY <1>1, <1>3, <2>2, <2>3, <2>4, <2>7, <2>8, <2>9
<1>4. CASE kind = "click at"
    <2>1. program = <<Retried(<<"find", "uncovered">>), Once(ClickPoint)>>
        BY <1>4 DEF program, Program, ClickAt
    <2>2. Len(program) = 2 /\ program[1] = Retried(<<"find", "uncovered">>)
          /\ program[2] = Once(ClickPoint)
        BY <2>1
    <2>3. program[1].calls = <<"find", "uncovered">> /\ program[1].retried
          /\ program[2].calls = ClickPoint /\ ~program[2].retried
        BY <2>2, BlockIs
    <2>4. Len(program[1].calls) = 2 /\ program[1].calls[1] = "find" /\ program[1].calls[2] = "uncovered"
          /\ Len(program[2].calls) = 3 /\ program[2].calls[1] = "move" /\ program[2].calls[2] = "press" /\ program[2].calls[3] = "release"
        BY <2>3, ClickElementIs, DoubleClickIs DEF ClickPoint
    <2>5. \A b \in 1..2 : b = 1 \/ b = 2
        OBVIOUS
    <2>6. \A c \in 1..2 : c = 1 \/ c = 2
        OBVIOUS
    <2>7. \A c \in 1..3 : c = 1 \/ c = 2 \/ c = 3
        OBVIOUS
    <2>8. \A b \in 1..Len(program) : Len(program[b].calls) \in Nat \ {0}
        BY <2>2, <2>4, <2>5
    <2>9. \A b \in 1..Len(program) : \A c \in 1..Len(program[b].calls) :
              program[b].calls[c] = "release" =>
                  /\ b = Len(program)
                  /\ c = Len(program[b].calls) \/ (kind = "double click" /\ c = 4)
        BY <1>4, <2>2, <2>4, <2>5, <2>6, <2>7
    <2>10. Single
        BY <1>4 DEF Single
    <2>11. /\ Len(program) \in Nat \ {0}
          /\ program[Len(program)].calls[Len(program[Len(program)].calls)] = "release"
        BY <2>2, <2>4
    <2>12. /\ Single => ~program[Len(program)].retried /\ kind # "double click"
           /\ ~Single => /\ Len(program) = 1
                         /\ kind # "double click" => Len(program[1].calls) <= 4
                         /\ kind = "double click" => program[1].calls[4] = "release"
                                                     /\ Len(program[1].calls) = 6
        BY <1>4, <2>2, <2>3, <2>4, <2>10
    <2> QED
        BY <1>1, <2>8, <2>9, <2>11, <2>12, ZenonT(30)
<1>5. CASE kind = "right click"
    <2>1. program = <<Retried(<<"find", "press", "release">>)>>
        BY <1>5 DEF program, Program, ContextClick
    <2>2. Len(program) = 1 /\ program[1] = Retried(<<"find", "press", "release">>)
        BY <2>1
    <2>3. program[1].calls = <<"find", "press", "release">> /\ program[1].retried
        BY <2>2, BlockIs
    <2>4. Len(program[1].calls) = 3 /\ program[1].calls[1] = "find" /\ program[1].calls[2] = "press" /\ program[1].calls[3] = "release"
        BY <2>3, ClickElementIs, DoubleClickIs DEF ClickPoint
    <2>5. \A b \in 1..1 : b = 1
        OBVIOUS
    <2>6. \A c \in 1..3 : c = 1 \/ c = 2 \/ c = 3
        OBVIOUS
    <2>7. \A b \in 1..Len(program) : Len(program[b].calls) \in Nat \ {0}
        BY <2>2, <2>4, <2>5
    <2>8. \A b \in 1..Len(program) : \A c \in 1..Len(program[b].calls) :
              program[b].calls[c] = "release" =>
                  /\ b = Len(program)
                  /\ c = Len(program[b].calls) \/ (kind = "double click" /\ c = 4)
        BY <1>5, <2>2, <2>4, <2>5, <2>6
    <2>9. ~Single
        BY <1>5 DEF Single
    <2>10. /\ Len(program) \in Nat \ {0}
          /\ program[Len(program)].calls[Len(program[Len(program)].calls)] = "release"
        BY <2>2, <2>4
    <2>11. /\ Single => ~program[Len(program)].retried /\ kind # "double click"
           /\ ~Single => /\ Len(program) = 1
                         /\ kind # "double click" => Len(program[1].calls) <= 4
                         /\ kind = "double click" => program[1].calls[4] = "release"
                                                     /\ Len(program[1].calls) = 6
        <3>1. Len(program[1].calls) <= 4
            BY <2>4
        <3>2. kind # "double click"
            BY <1>5
        <3> QED
            BY <2>2, <2>9, <3>1, <3>2
    <2> QED
        BY <1>1, <2>7, <2>8, <2>10, <2>11, ZenonT(30)
<1>6. CASE kind = "drag"
    <2>1. program = <<Retried(<<"find">>), Retried(<<"find">>), Once(<<"move", "press", "move", "release">>)>>
        BY <1>6 DEF program, Program, DragMouse
    <2>2. Len(program) = 3 /\ program[1] = Retried(<<"find">>)
          /\ program[2] = Retried(<<"find">>)
          /\ program[3] = Once(<<"move", "press", "move", "release">>)
        BY <2>1
    <2>3. program[1].calls = <<"find">> /\ program[1].retried
          /\ program[2].calls = <<"find">> /\ program[2].retried
          /\ program[3].calls = <<"move", "press", "move", "release">> /\ ~program[3].retried
        BY <2>2, BlockIs
    <2>4. Len(program[1].calls) = 1 /\ program[1].calls[1] = "find"
          /\ Len(program[2].calls) = 1 /\ program[2].calls[1] = "find"
          /\ Len(program[3].calls) = 4 /\ program[3].calls[1] = "move" /\ program[3].calls[2] = "press" /\ program[3].calls[3] = "move" /\ program[3].calls[4] = "release"
        BY <2>3, ClickElementIs, DoubleClickIs DEF ClickPoint
    <2>5. \A b \in 1..3 : b = 1 \/ b = 2 \/ b = 3
        OBVIOUS
    <2>6. \A c \in 1..1 : c = 1
        OBVIOUS
    <2>7. \A c \in 1..1 : c = 1
        OBVIOUS
    <2>8. \A c \in 1..4 : c = 1 \/ c = 2 \/ c = 3 \/ c = 4
        OBVIOUS
    <2>9. \A b \in 1..Len(program) : Len(program[b].calls) \in Nat \ {0}
        BY <2>2, <2>4, <2>5
    <2>10. \A b \in 1..Len(program) : \A c \in 1..Len(program[b].calls) :
              program[b].calls[c] = "release" =>
                  /\ b = Len(program)
                  /\ c = Len(program[b].calls) \/ (kind = "double click" /\ c = 4)
        BY <1>6, <2>2, <2>4, <2>5, <2>6, <2>7, <2>8
    <2>11. Single
        BY <1>6 DEF Single
    <2> QED
        BY <1>1, <1>6, <2>2, <2>3, <2>4, <2>9, <2>10, <2>11
<1>7. CASE kind = "double click"
    <2>1. program = <<Retried(ClickElement \o <<"press", "release">>)>>
        BY <1>7 DEF program, Program, DoubleClick
    <2>2. Len(program) = 1 /\ program[1] = Retried(ClickElement \o <<"press", "release">>)
        BY <2>1
    <2>3. program[1].calls = ClickElement \o <<"press", "release">> /\ program[1].retried
        BY <2>2, BlockIs
    <2>4. Len(program[1].calls) = 6 /\ program[1].calls[1] = "find" /\ program[1].calls[2] = "move" /\ program[1].calls[3] = "press" /\ program[1].calls[4] = "release" /\ program[1].calls[5] = "press" /\ program[1].calls[6] = "release"
        BY <2>3, ClickElementIs, DoubleClickIs DEF ClickPoint
    <2>5. \A b \in 1..1 : b = 1
        OBVIOUS
    <2>6. \A c \in 1..6 : c = 1 \/ c = 2 \/ c = 3 \/ c = 4 \/ c = 5 \/ c = 6
        OBVIOUS
    <2>7. \A b \in 1..Len(program) : Len(program[b].calls) \in Nat \ {0}
        BY <2>2, <2>4, <2>5
    <2>8. \A b \in 1..Len(program) : \A c \in 1..Len(program[b].calls) :
              program[b].calls[c] = "release" =>
                  /\ b = Len(program)
                  /\ c = Len(program[b].calls) \/ (kind = "double click" /\ c = 4)
        BY <1>7, <2>2, <2>4, <2>5, <2>6
    <2>9. ~Single
        BY <1>7 DEF Single
    <2>10. /\ Len(program) \in Nat \ {0}
          /\ program[Len(program)].calls[Len(program[Len(program)].calls)] = "release"
        BY <2>2, <2>4
    <2>11. /\ Single => ~program[Len(program)].retried /\ kind # "double click"
           /\ ~Single => /\ Len(program) = 1
                         /\ kind # "double click" => Len(program[1].calls) <= 4
                         /\ kind = "double click" => program[1].calls[4] = "release"
                                                     /\ Len(program[1].calls) = 6
        BY <1>7, <2>2, <2>3, <2>4, <2>9
    <2> QED
        BY <1>1, <2>7, <2>8, <2>10, <2>11, ZenonT(30)
<1> QED
    BY <1>1, <1>2, <1>3, <1>4, <1>5, <1>6, <1>7

\* A check reads, clicks, and reads again.
LEMMA CheckShape ==
    ASSUME kind = "check"
    PROVE  /\ Len(program) = 3
           /\ program[1].calls = <<"find", "read">> /\ program[3].calls = <<"find", "read">>
           /\ program[2].calls = ClickElement
<1>1. program = <<Retried(<<"find", "read">>), Retried(ClickElement), Retried(<<"find", "read">>)>>
    BY DEF program, Program, SetChecked
<1>2. Len(program) = 3 /\ program[1] = Retried(<<"find", "read">>)
      /\ program[2] = Retried(ClickElement) /\ program[3] = Retried(<<"find", "read">>)
    BY <1>1
<1> QED
    BY <1>2, BlockIs

\* Typing in a frame clicks in its second block; for SAP it reads back at the end.
Framed == kind = "type" /\ step.locator \in {"framed", "sap"}

LEMMA FramedShape ==
    ASSUME Framed
    PROVE  /\ Len(program) = IF step.locator = "sap" THEN 8 ELSE 5
           /\ program[2].calls = <<"move", "press", "release">>
           /\ step.locator = "sap" => program[8].calls = <<"read">>
           /\ \A b \in 1..Len(program) :
                 /\ Len(program[b].calls) \in Nat \ {0}
                 /\ b # 2 => \A c \in 1..Len(program[b].calls) :
                                 program[b].calls[c] \notin {"press", "release"}
<1>1. CASE step.locator = "framed"
    <2>1. program = <<Retried(<<"probe">>), Once(ClickPoint), Retried(<<"probe">>),
                      Retried(<<"select">>), Retried(Text)>>
        BY <1>1 DEF program, Program, TypeFramed, Framed
    <2>2. /\ Len(program) = 5
          /\ program[1] = Retried(<<"probe">>) /\ program[2] = Once(ClickPoint)
          /\ program[3] = Retried(<<"probe">>) /\ program[4] = Retried(<<"select">>)
          /\ program[5] = Retried(Text)
        BY <2>1
    <2>3. /\ program[1].calls = <<"probe">> /\ program[2].calls = ClickPoint
          /\ program[3].calls = <<"probe">> /\ program[4].calls = <<"select">>
          /\ program[5].calls = Text
        BY <2>2, BlockIs
    <2>4. /\ Len(<<"probe">>) = 1 /\ <<"probe">>[1] = "probe"
          /\ Len(<<"select">>) = 1 /\ <<"select">>[1] = "select"
        OBVIOUS
    <2>5. Len(program[2].calls) = 3
        BY <2>3 DEF ClickPoint
    <2>6. /\ Len(program[5].calls) \in Nat \ {0}
          /\ \A c \in 1..Len(program[5].calls) : program[5].calls[c] \notin {"press", "release"}
        BY <2>3, TextTyped DEF Calls
    <2>7. ASSUME NEW b \in 1..5
          PROVE  /\ Len(program[b].calls) \in Nat \ {0}
                 /\ b # 2 => \A c \in 1..Len(program[b].calls) :
                                 program[b].calls[c] \notin {"press", "release"}
        <3>1. CASE b = 2
            BY <2>5, <3>1
        <3>2. CASE b = 5
            BY <2>6, <3>2
        <3>3. CASE b \in {1, 3, 4}
            BY <2>3, <2>4, <3>3
        <3> QED
            BY <3>1, <3>2, <3>3
    <2> QED
        BY <1>1, <2>2, <2>3, <2>7 DEF ClickPoint
<1>2. CASE step.locator = "sap"
    <2>1. program = <<Retried(<<"probe">>), Once(ClickPoint), Retried(<<"probe">>),
                      Retried(<<"select">>), Retried(<<"clear">>), Retried(Text),
                      Retried(<<"commit">>), Retried(<<"read">>)>>
        BY <1>2 DEF program, Program, TypeFramedSap, Framed
    <2>2. /\ Len(program) = 8
          /\ program[1] = Retried(<<"probe">>) /\ program[2] = Once(ClickPoint)
          /\ program[3] = Retried(<<"probe">>) /\ program[4] = Retried(<<"select">>)
          /\ program[5] = Retried(<<"clear">>) /\ program[6] = Retried(Text)
          /\ program[7] = Retried(<<"commit">>) /\ program[8] = Retried(<<"read">>)
        BY <2>1
    <2>3. /\ program[1].calls = <<"probe">> /\ program[2].calls = ClickPoint
          /\ program[3].calls = <<"probe">> /\ program[4].calls = <<"select">>
          /\ program[5].calls = <<"clear">> /\ program[6].calls = Text
          /\ program[7].calls = <<"commit">> /\ program[8].calls = <<"read">>
        BY <2>2, BlockIs
    <2>4. ASSUME NEW x PROVE Len(<<x>>) = 1 /\ <<x>>[1] = x
        OBVIOUS
    <2>5. \A b \in 1..8 : \/ b = 1 \/ b = 2 \/ b = 3 \/ b = 4
                           \/ b = 5 \/ b = 6 \/ b = 7 \/ b = 8
        OBVIOUS
    <2>6. ASSUME NEW b \in 1..8, b # 2, b # 6
          PROVE  /\ Len(program[b].calls) = 1
                 /\ program[b].calls[1] \notin {"press", "release"}
        <3>1. \E x \in {"probe", "select", "clear", "commit", "read"} : program[b].calls = <<x>>
            BY <2>3, <2>5, <2>6
        <3> QED
            BY <2>4, <3>1
    <2>7. Len(program[2].calls) = 3
        BY <2>3 DEF ClickPoint
    <2>8. /\ Len(program[6].calls) \in Nat \ {0}
          /\ \A c \in 1..Len(program[6].calls) : program[6].calls[c] \notin {"press", "release"}
        BY <2>3, TextTyped DEF Calls
    <2>9. ASSUME NEW b \in 1..8
          PROVE  /\ Len(program[b].calls) \in Nat \ {0}
                 /\ b # 2 => \A c \in 1..Len(program[b].calls) :
                                 program[b].calls[c] \notin {"press", "release"}
        <3>1. CASE b = 2
            BY <2>7, <3>1
        <3>2. CASE b = 6
            BY <2>8, <3>2
        <3>3. CASE b # 2 /\ b # 6
            <4>1. Len(program[b].calls) = 1 /\ program[b].calls[1] \notin {"press", "release"}
                BY <2>6, <3>3
            <4>2. \A c \in 1..1 : c = 1
                OBVIOUS
            <4> QED
                BY <4>1, <4>2
        <3> QED
            BY <3>1, <3>2, <3>3
    <2>10. program[2].calls = <<"move", "press", "release">>
        BY <2>3 DEF ClickPoint
    <2> QED
        BY <1>2, <2>2, <2>3, <2>9, <2>10
<1> QED
    BY <1>1, <1>2 DEF Framed

\* Other typing ends with a block that clicks, selects, and sends the keys.
Plain == kind = "fill" \/ (kind = "type" /\ step.locator \notin {"framed", "sap"})
TypingBlock == IF kind = "fill" THEN 3 ELSE 2

LEMMA TypingCalls ==
    LET calls == ClickElement \o <<"select">> \o Text
    IN  /\ Len(calls) = 5 + Len(Text)
        /\ calls[1] = "find" /\ calls[2] = "move" /\ calls[3] = "press" /\ calls[4] = "release"
        /\ calls[5] = "select"
        /\ \A i \in 1..Len(Text) : calls[5 + i] = Text[i]
<1> DEFINE S == {Text[i] : i \in DOMAIN Text} \cup Calls
           select == <<"select">>
           head == ClickElement \o select
<1>1. select \in Seq(Calls) /\ Len(select) = 1 /\ select[1] = "select"
    BY DEF Calls
<1> HIDE DEF select
<1>2. /\ head \in Seq(Calls) /\ Len(head) = 5
      /\ \A i \in 1..4 : head[i] = ClickElement[i]
      /\ head[4 + 1] = select[1]
    <2>1. /\ ClickElement \o select \in Seq(Calls) /\ Len(ClickElement \o select) = Len(ClickElement) + Len(select)
          /\ \A i \in 1..Len(ClickElement) : (ClickElement \o select)[i] = ClickElement[i]
          /\ \A i \in 1..Len(select) : (ClickElement \o select)[Len(ClickElement) + i] = select[i]
        <3>1. ClickElement \in Seq(Calls) /\ select \in Seq(Calls)
            BY <1>1, ClickElementIs
        <3> QED
            BY <3>1, Concatenated
    <2>2. 1 \in 1..1
        OBVIOUS
    <2> QED
        BY <1>1, <2>1, <2>2, ClickElementIs
<1> HIDE DEF head
<1>3. head[1] = "find" /\ head[2] = "move" /\ head[3] = "press" /\ head[4] = "release"
      /\ head[5] = "select"
    BY <1>1, <1>2, ClickElementIs
<1>4. Text \in Seq(S) /\ head \in Seq(S)
    <2>1. Text \in Seq({Text[i] : i \in DOMAIN Text})
        BY TextTyped
    <2>2. {Text[i] : i \in DOMAIN Text} \subseteq S /\ Calls \subseteq S
        OBVIOUS
    <2> HIDE DEF S
    <2> QED
        BY <1>2, <2>1, <2>2, SeqMonotonic
<1> HIDE DEF S
<1>5. /\ Len(head \o Text) = 5 + Len(Text)
      /\ \A i \in 1..5 : (head \o Text)[i] = head[i]
      /\ \A i \in 1..Len(Text) : (head \o Text)[5 + i] = Text[i]
    <2>1. /\ head \o Text \in Seq(S) /\ Len(head \o Text) = Len(head) + Len(Text)
          /\ \A i \in 1..Len(head) : (head \o Text)[i] = head[i]
          /\ \A i \in 1..Len(Text) : (head \o Text)[Len(head) + i] = Text[i]
        BY <1>4, Concatenated
    <2> QED
        BY <1>2, <2>1
<1> QED
    BY <1>3, <1>5 DEF head, select

LEMMA PlainShape ==
    ASSUME Plain
    PROVE  /\ Len(program) = TypingBlock
           /\ \A b \in 1..(TypingBlock - 1) :
                 /\ Len(program[b].calls) \in Nat \ {0}
                 /\ \A c \in 1..Len(program[b].calls) :
                        program[b].calls[c] \notin {"press", "release"}
           /\ program[TypingBlock].calls = ClickElement \o <<"select">> \o Text
<1> DEFINE keys == Retried(ClickElement \o <<"select">> \o Text)
<1>1. keys.calls = ClickElement \o <<"select">> \o Text
    BY BlockIs
<1> HIDE DEF keys
<1>2. /\ Len(<<"find", "clear">>) = 2 /\ <<"find", "clear">>[1] = "find"
      /\ <<"find", "clear">>[2] = "clear" /\ Len(<<"probe">>) = 1 /\ <<"probe">>[1] = "probe"
      /\ \A c \in 1..2 : c = 1 \/ c = 2
    OBVIOUS
<1>3. CASE kind = "fill"
    <2> DEFINE empty == Retried(<<"find", "clear">>)
               probe == Once(<<"probe">>)
    <2>1. program = ClearText \o <<probe, keys>> /\ ClearText = <<empty>>
        BY <1>3 DEF program, Program, ClearText, TypeText, keys
    <2>2. empty.calls = <<"find", "clear">> /\ probe.calls = <<"probe">>
        BY BlockIs
    <2> HIDE DEF empty, probe
    <2> DEFINE S == {empty, probe, keys}
               typing == <<probe, keys>>
    <2>3. ClearText \in Seq(S) /\ typing \in Seq(S)
          /\ Len(ClearText) = 1 /\ ClearText[1] = empty
          /\ Len(typing) = 2 /\ typing[1] = probe /\ typing[2] = keys
        BY <2>1
    <2> HIDE DEF S, typing
    <2>4. program = ClearText \o typing
        BY <2>1 DEF typing
    <2>5. /\ Len(program) = 3 /\ program[1] = empty
          /\ program[1 + 1] = probe /\ program[1 + 2] = keys
        <3>1. /\ ClearText \o typing \in Seq(S) /\ Len(ClearText \o typing) = Len(ClearText) + Len(typing)
              /\ \A i \in 1..Len(ClearText) : (ClearText \o typing)[i] = ClearText[i]
              /\ \A i \in 1..Len(typing) : (ClearText \o typing)[Len(ClearText) + i] = typing[i]
            BY <2>3, Concatenated
        <3>2. 1 \in 1..1 /\ 1 \in 1..2 /\ 2 \in 1..2
            OBVIOUS
        <3> QED
            BY <2>3, <2>4, <3>1, <3>2
    <2>6. \A b \in 1..2 : b = 1 \/ b = 2
        OBVIOUS
    <2>7. TypingBlock = 3
        BY <1>3 DEF TypingBlock
    <2>8. ASSUME NEW b \in 1..2
          PROVE  /\ Len(program[b].calls) \in Nat \ {0}
                 /\ \A c \in 1..Len(program[b].calls) :
                        program[b].calls[c] \notin {"press", "release"}
        BY <1>2, <2>2, <2>5, <2>6
    <2> QED
        BY <1>1, <2>5, <2>7, <2>8
<1>4. CASE kind = "type" /\ step.locator \notin {"framed", "sap"}
    <2> DEFINE probe == Once(<<"probe">>)
    <2>1. program = <<probe, keys>>
        BY <1>4 DEF program, Program, TypeText, keys
    <2>2. probe.calls = <<"probe">>
        BY BlockIs
    <2> HIDE DEF probe
    <2>3. Len(program) = 2 /\ program[1] = probe /\ program[2] = keys
        BY <2>1
    <2>4. TypingBlock = 2 /\ \A b \in 1..1 : b = 1
        BY <1>4 DEF TypingBlock
    <2> QED
        BY <1>1, <1>2, <2>2, <2>3, <2>4
<1> QED
    BY <1>3, <1>4 DEF Plain

\* The other inputs press nothing.
Pressless == Inputs \ (DOMAIN Clicks \cup {"check", "type", "fill"})

LEMMA PresslessShape ==
    ASSUME kind \in Pressless
    PROVE  /\ Len(program) \in Nat \ {0}
           /\ \A b \in 1..Len(program) :
                 /\ Len(program[b].calls) \in Nat \ {0}
                 /\ \A c \in 1..Len(program[b].calls) :
                        program[b].calls[c] \notin {"press", "release"}
<1>1. kind \in {"hover", "select", "upload", "scroll", "remember", "press", "type here", "navigate",
                "scroll page"}
    BY DEF Pressless, Inputs, Targeted, Untargeted, Gated, Clicks
<1> DEFINE quiet == {"find", "uncovered", "move", "read", "commit"}
<1>2. ASSUME NEW calls, NEW retried, Len(calls) \in 1..4,
             \A c \in 1..Len(calls) : calls[c] \in quiet,
             program = <<retried>>, retried.calls = calls
      PROVE  /\ Len(program) \in Nat \ {0}
             /\ \A b \in 1..Len(program) :
                   /\ Len(program[b].calls) \in Nat \ {0}
                   /\ \A c \in 1..Len(program[b].calls) :
                          program[b].calls[c] \notin {"press", "release"}
    <2>1. Len(program) = 1 /\ program[1] = retried /\ \A b \in 1..1 : b = 1
        BY <1>2
    <2> QED
        <3>1. 4 \in Nat /\ \A n \in 1..4 : n \in Nat \ {0}
            OBVIOUS
        <3>2. program[1].calls = calls /\ Len(calls) \in Nat \ {0}
            BY <1>2, <2>1, <3>1
        <3>3. \A c \in 1..Len(calls) : calls[c] \notin {"press", "release"}
            BY <1>2
        <3> QED
            BY <2>1, <3>2, <3>3
<1>3. CASE kind = "hover"
    <2> DEFINE calls == <<"find", "uncovered", "move", "read">>
    <2>1. program = <<Retried(calls)>> /\ Retried(calls).calls = calls
        BY <1>3, BlockIs DEF program, Program, Hover
    <2>2. Len(calls) = 4 /\ calls[1] = "find" /\ calls[2] = "uncovered" /\ calls[3] = "move" /\ calls[4] = "read"
        OBVIOUS
    <2> HIDE DEF calls
    <2>3. \A c \in 1..Len(calls) : calls[c] \in quiet
        <3>1. \A c \in 1..4 : c = 1 \/ c = 2 \/ c = 3 \/ c = 4
            OBVIOUS
        <3> QED
            BY <2>2, <3>1
    <2> QED
        BY <1>2, <2>1, <2>2, <2>3
<1>4. CASE kind = "select"
    <2> DEFINE calls == <<"find", "commit", "read">>
    <2>1. program = <<Retried(calls)>> /\ Retried(calls).calls = calls
        BY <1>4, BlockIs DEF program, Program, SelectOptions
    <2>2. Len(calls) = 3 /\ calls[1] = "find" /\ calls[2] = "commit" /\ calls[3] = "read"
        OBVIOUS
    <2> HIDE DEF calls
    <2>3. \A c \in 1..Len(calls) : calls[c] \in quiet
        <3>1. \A c \in 1..3 : c = 1 \/ c = 2 \/ c = 3
            OBVIOUS
        <3> QED
            BY <2>2, <3>1
    <2> QED
        BY <1>2, <2>1, <2>2, <2>3
<1>5. CASE kind = "upload"
    <2> DEFINE calls == <<"find", "commit">>
    <2>1. program = <<Retried(calls)>> /\ Retried(calls).calls = calls
        BY <1>5, BlockIs DEF program, Program, SetFiles
    <2>2. Len(calls) = 2 /\ calls[1] = "find" /\ calls[2] = "commit"
        OBVIOUS
    <2> HIDE DEF calls
    <2>3. \A c \in 1..Len(calls) : calls[c] \in quiet
        <3>1. \A c \in 1..2 : c = 1 \/ c = 2
            OBVIOUS
        <3> QED
            BY <2>2, <3>1
    <2> QED
        BY <1>2, <2>1, <2>2, <2>3
<1>6. CASE kind = "scroll"
    <2> DEFINE calls == <<"find", "commit", "read">>
    <2>1. program = <<Retried(calls)>> /\ Retried(calls).calls = calls
        BY <1>6, BlockIs DEF program, Program, ScrollTo
    <2>2. Len(calls) = 3 /\ calls[1] = "find" /\ calls[2] = "commit" /\ calls[3] = "read"
        OBVIOUS
    <2> HIDE DEF calls
    <2>3. \A c \in 1..Len(calls) : calls[c] \in quiet
        <3>1. \A c \in 1..3 : c = 1 \/ c = 2 \/ c = 3
            OBVIOUS
        <3> QED
            BY <2>2, <3>1
    <2> QED
        BY <1>2, <2>1, <2>2, <2>3
<1>7. CASE kind = "remember"
    <2> DEFINE calls == <<"find">>
    <2>1. program = <<Retried(calls)>> /\ Retried(calls).calls = calls
        BY <1>7, BlockIs DEF program, Program, ReadText
    <2>2. Len(calls) = 1 /\ calls[1] = "find"
        OBVIOUS
    <2> HIDE DEF calls
    <2>3. \A c \in 1..Len(calls) : calls[c] \in quiet
        <3>1. \A c \in 1..1 : c = 1
            OBVIOUS
        <3> QED
            BY <2>2, <3>1
    <2> QED
        BY <1>2, <2>1, <2>2, <2>3
<1>8. CASE kind = "press"
    <2> DEFINE calls == <<"commit">>
    <2>1. program = <<Retried(calls)>> /\ Retried(calls).calls = calls
        BY <1>8, BlockIs DEF program, Program, PressKey
    <2>2. Len(calls) = 1 /\ calls[1] = "commit"
        OBVIOUS
    <2> HIDE DEF calls
    <2>3. \A c \in 1..Len(calls) : calls[c] \in quiet
        <3>1. \A c \in 1..1 : c = 1
            OBVIOUS
        <3> QED
            BY <2>2, <3>1
    <2> QED
        BY <1>2, <2>1, <2>2, <2>3
<1>9. CASE kind = "navigate"
    <2> DEFINE calls == <<"commit">>
    <2>1. program = <<Once(calls)>> /\ Once(calls).calls = calls
        BY <1>9, BlockIs DEF program, Program, Navigate
    <2>2. Len(calls) = 1 /\ calls[1] = "commit"
        OBVIOUS
    <2> HIDE DEF calls
    <2>3. \A c \in 1..Len(calls) : calls[c] \in quiet
        <3>1. \A c \in 1..1 : c = 1
            OBVIOUS
        <3> QED
            BY <2>2, <3>1
    <2> QED
        BY <1>2, <2>1, <2>2, <2>3
<1>10. CASE kind = "scroll page"
    <2> DEFINE calls == <<"commit", "read">>
    <2>1. program = <<Once(calls)>> /\ Once(calls).calls = calls
        BY <1>10, BlockIs DEF program, Program, ScrollPage
    <2>2. Len(calls) = 2 /\ calls[1] = "commit" /\ calls[2] = "read"
        OBVIOUS
    <2> HIDE DEF calls
    <2>3. \A c \in 1..Len(calls) : calls[c] \in quiet
        <3>1. \A c \in 1..2 : c = 1 \/ c = 2
            OBVIOUS
        <3> QED
            BY <2>2, <3>1
    <2> QED
        BY <1>2, <2>1, <2>2, <2>3
<1>11. CASE kind = "type here"
    <2>1. program = <<Once(Text)>> /\ Once(Text).calls = Text
        BY <1>11, BlockIs DEF program, Program, TypeFocused
    <2>2. Len(program) = 1 /\ program[1].calls = Text /\ \A b \in 1..1 : b = 1
        BY <2>1
    <2>3. \A c \in 1..Len(Text) : Text[c] \notin {"press", "release"}
        BY TextTyped DEF Calls
    <2> QED
        BY <2>2, <2>3, TextTyped
<1> QED
    BY <1>1, <1>3, <1>4, <1>5, <1>6, <1>7, <1>8, <1>9, <1>10, <1>11

LEMMA InputsSplit ==
    /\ kind \in Inputs => kind \in DOMAIN Clicks \/ kind = "check" \/ Framed \/ Plain \/ kind \in Pressless
    /\ kind \in DOMAIN Clicks =>
          kind # "check" /\ ~Framed /\ ~Plain /\ kind \notin Pressless /\ kind \in Inputs
    /\ kind \in Pressless => kind \notin {"check", "type", "fill"} \cup DOMAIN Clicks /\ ~Framed /\ ~Plain
    /\ kind = "check" => ~Framed /\ ~Plain /\ kind \notin DOMAIN Clicks
    /\ Framed => ~Plain /\ kind \notin DOMAIN Clicks
    /\ Plain => kind \notin DOMAIN Clicks
BY DEF Framed, Plain, Pressless, Clicks, Inputs, Targeted, Untargeted, Gated

\* Where replay is in a programme is a place in it.
LEMMA Placeable ==
    ASSUME kind \in Inputs
    PROVE  /\ Len(program) \in Nat \ {0}
           /\ \A b \in 1..Len(program) : Len(program[b].calls) \in Nat \ {0}
           /\ kind = "check" => Len(program) = 3
<1>1. CASE kind \in DOMAIN Clicks
    BY <1>1, ClickShape, InputsSplit
<1>2. CASE kind = "check"
    <2>1. Len(<<"find", "read">>) = 2 /\ \A b \in 1..3 : b = 1 \/ b = 2 \/ b = 3
        OBVIOUS
    <2>2. Len(program[1].calls) = 2 /\ Len(program[2].calls) = 4 /\ Len(program[3].calls) = 2
        BY <1>2, <2>1, CheckShape, ClickElementIs
    <2> QED
        <3>1. ASSUME NEW b \in 1..3 PROVE Len(program[b].calls) \in Nat \ {0}
            <4>1. Len(program[b].calls) = 2 \/ Len(program[b].calls) = 4
                BY <2>1, <2>2
            <4> QED
                BY <4>1
        <3>2. Len(program) = 3
            BY <1>2, CheckShape
        <3> QED
            BY <3>1, <3>2
<1>3. CASE Framed
    BY <1>3, FramedShape DEF Framed
<1>4. CASE Plain
    <2>1. Len(program[TypingBlock].calls) = 5 + Len(Text)
        BY <1>4, PlainShape, TypingCalls
    <2>2. TypingBlock \in {2, 3}
        BY DEF TypingBlock
    <2>3. \A b \in 1..TypingBlock : b \in 1..(TypingBlock - 1) \/ b = TypingBlock
        BY <2>2
    <2> QED
        BY <1>4, <2>1, <2>2, <2>3, PlainShape, TextTyped DEF Plain
<1>5. CASE kind \in Pressless
    BY <1>5, PresslessShape DEF Pressless
<1> QED
    BY <1>1, <1>2, <1>3, <1>4, <1>5, InputsSplit

---------------------------------------------------------------------------
(* A programme under way.                                                  *)

\* Before the first call nothing was made of the control.
Before == {"pre", "resolve", "gate", "prepare"}
Pristine == /\ run.block = 1 /\ run.call = 1 /\ run.tries = 0
            /\ control \in Controls(kind)

AtCall == /\ run.block \in 1..Len(program) /\ run.call \in 1..Len(block.calls)
          /\ run.tries \in 0..MaxRetries

\* How many clicks there are by the call that is next.
ClicksHere ==
    kind \in DOMAIN Clicks =>
        /\ Single => control.clicks = 0
        /\ ~Single =>
              /\ control.clicks <= Clicks[kind] * run.tries + (IF run.call > 4 THEN 1 ELSE 0)
              /\ run.call > 4 => control.clicks >= 1

\* Where the button may be down.
Pressing ==
    \/ kind \in DOMAIN Clicks
    \/ kind = "check" /\ run.block = 2
    \/ Framed /\ run.block = 2
    \/ Plain /\ run.block = TypingBlock /\ run.call <= 4

ButtonHere == ~Pressing => control.button = "up"

\* What the field holds by the call that is next.
FieldHere ==
    Plain /\ run.block = TypingBlock =>
        /\ run.call = 6 => control.selected
        /\ run.call > 6 => ~control.selected /\ control.field = SubSeq(Text, 1, run.call - 6)

ClickBound == Clicks[kind] * (IF Single THEN 1 ELSE MaxRetries + 1)
ClicksBounded == kind \in DOMAIN Clicks => control.clicks <= ClickBound

\* The input took.
Took ==
    /\ control.button = "up"
    /\ kind \in DOMAIN Clicks => control.clicks >= Clicks[kind]
    /\ kind = "check" => control.checked
    /\ kind \in {"type", "fill"} /\ step.locator # "framed" => control.field = Text

ControlTyped == /\ DOMAIN control = {"field", "selected", "button", "clicks", "checked"}
                /\ control.clicks \in Nat

\* What was made of the control so far, wherever replay is in the step.
Under ==
    /\ phase \in Before => Pristine
    /\ phase = "input" => AtCall /\ ClicksHere /\ ButtonHere /\ FieldHere
    /\ phase # "begin" => ClicksBounded
    /\ phase \in {"confirm", "net"} /\ kind \in Inputs => Took
    /\ ControlTyped

---------------------------------------------------------------------------
(* What a call that arrives does, and where it leaves the programme.       *)

Characters == {Text[i] : i \in DOMAIN Text}

LEMMA EffectsAre ==
    ASSUME ControlTyped, NEW c \in Effects(kind, call)
    PROVE  /\ DOMAIN c = DOMAIN control
           /\ c.clicks = IF call = "release" THEN control.clicks + 1 ELSE control.clicks
           /\ call = "release" => c.button = "up"
           /\ call # "press" => c.button = "up" \/ c.button = control.button
           /\ call = "select" => c.selected
           /\ call \in Characters =>
                 /\ ~c.selected
                 /\ c.field = IF control.selected THEN <<call>> ELSE Append(control.field, call)
           /\ call = "read" => c = control
<1>1. call \in Characters => call \notin Calls
    BY TextTyped DEF Characters
<1>2. CASE call = "press"
    <2>1. call \notin Characters
        BY <1>1, <1>2 DEF Calls
    <2>2. c = [control EXCEPT !.button = "down", !.selected = FALSE]
        BY <1>2, <2>1 DEF Effects, Characters
    <2> QED
        BY <1>2, <2>1, <2>2 DEF ControlTyped
<1>3. CASE call = "release"
    <2>1. call \notin Characters
        BY <1>1, <1>3 DEF Calls
    <2>2. PICK checked : c = [control EXCEPT !.button = "up", !.checked = checked, !.clicks = @ + 1]
        BY <1>3, <2>1 DEF Effects, Characters
    <2> QED
        BY <1>3, <2>1, <2>2 DEF ControlTyped
<1>4. CASE call = "select"
    <2>1. call \notin Characters
        BY <1>1, <1>4 DEF Calls
    <2>2. c = [control EXCEPT !.selected = TRUE]
        BY <1>4, <2>1 DEF Effects, Characters
    <2> QED
        BY <1>4, <2>1, <2>2 DEF ControlTyped
<1>5. CASE call = "clear"
    <2>1. call \notin Characters
        BY <1>1, <1>5 DEF Calls
    <2>2. c = [control EXCEPT !.field = <<>>, !.selected = FALSE]
        BY <1>5, <2>1 DEF Effects, Characters
    <2> QED
        BY <1>5, <2>1, <2>2 DEF ControlTyped
<1>6. CASE call \in Characters
    <2>1. call \notin {"press", "release", "select", "clear", "read"}
        BY <1>1, <1>6 DEF Calls
    <2>2. c = Typed(call)
        BY <1>6, <2>1 DEF Effects, Characters
    <2> QED
        BY <1>6, <2>1, <2>2 DEF ControlTyped, Typed
<1>7. CASE call \notin {"press", "release", "select", "clear"} \cup Characters
    <2>1. c = control
        BY <1>7 DEF Effects, Characters
    <2> QED
        BY <1>7, <2>1
<1> QED
    BY <1>2, <1>3, <1>4, <1>5, <1>6, <1>7

Following(saw) == IF AsAsked(saw) THEN 3 ELSE run.block + 1

\* The block starts over; or the next call, the next block, the end.
Restarts == /\ phase' = phase /\ block.retried /\ run.tries < MaxRetries
            /\ run'.block = run.block /\ run'.call = 1 /\ run'.tries = run.tries + 1
NextCall == /\ phase' = phase /\ run.call < Len(block.calls)
            /\ run'.block = run.block /\ run'.call = run.call + 1 /\ run'.tries = run.tries
NextBlock(saw) == /\ phase' = phase /\ ~(run.call < Len(block.calls)) /\ Following(saw) <= Len(program)
                  /\ run'.block = Following(saw) /\ run'.call = 1 /\ run'.tries = 0
Finishes(saw) == /\ phase' = "confirm" /\ ~(run.call < Len(block.calls))
                 /\ ~(Following(saw) <= Len(program)) /\ ~NotTaken(saw)

Arrives == control' \in Effects(kind, call)
Moves ==
    \/ (Arrives \/ control' = control) /\ (Restarts \/ phase' = "ended")
    \/ /\ Arrives
       /\ \/ NextCall
          \/ \E saw \in (IF call = "read" THEN ReadsBack(kind, step.locator) ELSE {run.saw}) :
                NextBlock(saw) \/ Finishes(saw)

LEMMA LostMoves == ASSUME TypeOK, Lost PROVE Restarts \/ phase' = "ended"
<1>1. CASE Fails
    BY <1>1, Concluded DEF Fails
<1>2. CASE /\ block.retried /\ run.tries < MaxRetries
           /\ run' = [run EXCEPT !.tries = @ + 1, !.call = 1] /\ UNCHANGED phase
    BY <1>2, FieldsAre DEF TypeOK, Restarts, Fields
<1> QED
    BY <1>1, <1>2 DEF Lost

LEMMA AnsweredMoves ==
    ASSUME TypeOK, NEW saw, Answered(saw)
    PROVE  NextCall \/ NextBlock(saw) \/ Finishes(saw) \/ phase' = "ended"
<1> DEFINE r == [run EXCEPT !.saw = saw]
<1>1. DOMAIN r = Fields /\ r.block = run.block /\ r.call = run.call /\ r.tries = run.tries
    BY FieldsAre DEF TypeOK, Fields
<1>2. \/ run.call < Len(block.calls) /\ run' = [r EXCEPT !.call = @ + 1] /\ UNCHANGED phase
      \/ /\ ~(run.call < Len(block.calls)) /\ Following(saw) <= Len(program)
         /\ run' = [r EXCEPT !.block = Following(saw), !.call = 1, !.tries = 0] /\ UNCHANGED phase
      \/ Fails
      \/ /\ ~(run.call < Len(block.calls)) /\ ~(Following(saw) <= Len(program)) /\ ~NotTaken(saw)
         /\ phase' = "confirm" /\ run' = r
    BY DEF Answered, Following
<1>3. CASE Fails
    BY <1>3, Concluded DEF Fails
<1> HIDE DEF r
<1>4. CASE run.call < Len(block.calls) /\ run' = [r EXCEPT !.call = @ + 1] /\ UNCHANGED phase
    BY <1>1, <1>4, FieldsAre DEF NextCall
<1>5. CASE /\ ~(run.call < Len(block.calls)) /\ Following(saw) <= Len(program)
           /\ run' = [r EXCEPT !.block = Following(saw), !.call = 1, !.tries = 0] /\ UNCHANGED phase
    BY <1>1, <1>5, FieldsAre DEF NextBlock
<1> QED
    BY <1>2, <1>3, <1>4, <1>5 DEF Finishes

LEMMA CallMoves ==
    ASSUME TypeOK, CallArrives \/ CallFails
    PROVE  Moves /\ UNCHANGED <<flow, at, sent>> /\ phase = "input"
<1>1. CASE CallFails
    <2>1. Lost \/ Fails
        BY <1>1 DEF CallFails
    <2>2. Restarts \/ phase' = "ended"
        BY <2>1, LostMoves, Concluded DEF Fails
    <2> QED
        BY <1>1, <2>2 DEF CallFails, StepUnchanged, Moves
<1>2. CASE CallArrives
    <2>1. Arrives /\ UNCHANGED <<flow, at, sent>> /\ phase = "input"
        BY <1>2 DEF CallArrives, Arrives
    <2>2. \/ Lost
          \/ \E saw \in (IF call = "read" THEN ReadsBack(kind, step.locator) ELSE {run.saw}) :
                Answered(saw)
        BY <1>2 DEF CallArrives
    <2>3. CASE Lost
        BY <2>1, <2>3, LostMoves DEF Moves
    <2>4. CASE \E saw \in (IF call = "read" THEN ReadsBack(kind, step.locator) ELSE {run.saw}) :
                  Answered(saw)
        <3>1. PICK saw \in (IF call = "read" THEN ReadsBack(kind, step.locator) ELSE {run.saw}) :
                  Answered(saw)
            BY <2>4
        <3>2. NextCall \/ NextBlock(saw) \/ Finishes(saw) \/ phase' = "ended"
            BY <3>1, AnsweredMoves
        <3> QED
            BY <2>1, <3>2 DEF Moves
    <2> QED
        BY <2>2, <2>3, <2>4
<1> QED
    BY <1>1, <1>2

LEMMA StepKept ==
    ASSUME UNCHANGED <<flow, at>>
    PROVE  /\ step' = step /\ kind' = kind /\ program' = program
           /\ (Single <=> Single') /\ (Framed <=> Framed') /\ (Plain <=> Plain')
           /\ TypingBlock' = TypingBlock
BY DEF step, kind, program, Single, Framed, Plain, TypingBlock

LEMMA FollowingIs ==
    ASSUME kind \in Inputs, AtCall, NEW saw
    PROVE  /\ Following(saw) \in Nat \ {0}
           /\ Following(saw) = run.block + 1 \/ (kind = "check" /\ run.block = 1)
           /\ ~(Following(saw) <= Len(program)) => run.block = Len(program)
<1>1. Len(program) \in Nat /\ run.block \in 1..Len(program) /\ (kind = "check" => Len(program) = 3)
    BY Placeable DEF AtCall
<1> QED
    BY <1>1 DEF Following, AsAsked

\* The place of the call that is next is a place in the programme.
LEMMA AtCallKept ==
    ASSUME kind \in Inputs, AtCall, Moves, UNCHANGED <<flow, at>>, phase = "input", phase' = "input"
    PROVE  AtCall'
<1>1. /\ Len(program) \in Nat /\ \A b \in 1..Len(program) : Len(program[b].calls) \in Nat \ {0}
      /\ run.block \in 1..Len(program) /\ run.call \in 1..Len(program[run.block].calls)
      /\ run.tries \in 0..MaxRetries /\ MaxRetries \in Nat
    BY Placeable, RetriesAssumption DEF AtCall, block
<1>2. SUFFICES /\ run'.block \in 1..Len(program)
               /\ run'.call \in 1..Len(program[run'.block].calls) /\ run'.tries \in 0..MaxRetries
    BY StepKept DEF AtCall, block
<1>3. CASE Restarts
    BY <1>1, <1>3 DEF Restarts
<1>4. CASE NextCall
    BY <1>1, <1>4 DEF NextCall, block
<1>5. ASSUME NEW saw, NextBlock(saw)
      PROVE  /\ run'.block \in 1..Len(program)
             /\ run'.call \in 1..Len(program[run'.block].calls) /\ run'.tries \in 0..MaxRetries
    BY <1>1, <1>5, FollowingIs DEF NextBlock
<1> QED
    BY <1>3, <1>4, <1>5 DEF Moves, Finishes

\* A click is counted when it is released, and is made again only in a block that
\* starts over.
LEMMA ClicksKept ==
    ASSUME kind \in DOMAIN Clicks, AtCall, ClicksHere, ControlTyped, Moves, UNCHANGED <<flow, at>>,
           phase = "input"
    PROVE  /\ control'.clicks <= ClickBound
           /\ phase' = "input" => ClicksHere'
           /\ phase' = "confirm" => control'.clicks >= Clicks[kind] /\ control'.button = "up"
<1> DEFINE n == control.clicks
           m == control'.clicks
           K == Clicks[kind]
           t == run.tries
           c == run.call
<1>1. /\ n \in Nat /\ t \in 0..MaxRetries /\ MaxRetries \in Nat
      /\ run.block \in 1..Len(program) /\ c \in 1..Len(block.calls)
    BY RetriesAssumption DEF ControlTyped, AtCall
<1>2. /\ (Arrives /\ call = "release") => m = n + 1 /\ control'.button = "up"
      /\ m = n \/ (m = n + 1 /\ Arrives /\ call = "release")
    <2>1. Arrives => m = IF call = "release" THEN n + 1 ELSE n
        BY EffectsAre DEF Arrives
    <2>2. Arrives /\ call = "release" => control'.button = "up"
        BY EffectsAre DEF Arrives
    <2>3. Arrives \/ control' = control
        BY DEF Moves
    <2> QED
        BY <2>1, <2>2, <2>3
<1>3. call = program[run.block].calls[c] /\ block = program[run.block]
    BY DEF call, block
<1>4. /\ K \in {1, 2} /\ (kind = "double click" => K = 2) /\ (kind # "double click" => K = 1)
      /\ (K = 2 => kind = "double click") /\ (K = 1 => kind # "double click")
    <2>1. K = IF kind = "double click" THEN 2 ELSE 1
        BY ClickShape
    <2> HIDE DEF K
    <2>2. 1 # 2
        OBVIOUS
    <2>3. (kind = "double click" => K = 2) /\ (kind # "double click" => K = 1)
        BY <2>1
    <2> QED
        BY <2>2, <2>3, Zenon
<1>5. call = "release" => run.block = Len(program) /\ (c = Len(block.calls) \/ (K = 2 /\ c = 4))
    <2>1. call = "release" =>
              /\ run.block = Len(program)
              /\ c = Len(block.calls) \/ (kind = "double click" /\ c = 4)
        BY <1>1, <1>3, ClickShape
    <2> QED
        BY <2>1, <1>4
<1>6. kind \in Inputs
    BY InputsSplit
<1>7. \/ phase' = "ended"
      \/ Restarts /\ block.retried /\ run'.call = 1 /\ run'.tries = t + 1 /\ t < MaxRetries
      \/ Arrives /\ NextCall /\ c < Len(block.calls) /\ run'.call = c + 1 /\ run'.tries = t
      \/ /\ Arrives /\ c = Len(block.calls) /\ \E saw : NextBlock(saw)
         /\ run.block < Len(program) /\ run'.call = 1 /\ run'.tries = 0
      \/ /\ Arrives /\ c = Len(block.calls) /\ run.block = Len(program) /\ call = "release"
         /\ phase' = "confirm"
    <2>1. ASSUME NEW saw, NextBlock(saw) PROVE run.block < Len(program)
        <3>1. Following(saw) = run.block + 1
            BY <1>6, FollowingIs, InputsSplit
        <3> QED
            BY <1>1, <1>6, <2>1, <3>1, Placeable DEF NextBlock
    <2>2. ASSUME NEW saw, Finishes(saw) PROVE run.block = Len(program) /\ c = Len(block.calls)
        BY <1>1, <1>6, <2>2, FollowingIs, Placeable DEF Finishes, AtCall, block
    <2>3. run.block = Len(program) /\ c = Len(block.calls) => call = "release"
        BY <1>3, ClickShape
    <2>4. ASSUME NEW saw, NextBlock(saw) PROVE c = Len(block.calls) /\ run'.call = 1 /\ run'.tries = 0
        BY <1>1, <1>6, <2>4, Placeable DEF NextBlock, AtCall, block
    <2> QED
        BY <2>1, <2>2, <2>3, <2>4 DEF Moves, Restarts, NextCall, Finishes
<1> HIDE DEF n, m, K, t, c
<1>8. CASE Single
    <2>1. n = 0 /\ ClickBound = 1 /\ K = 1
        <3>1. kind # "double click"
            BY <1>8, ClickShape
        <3>2. K = 1
            BY <1>4, <3>1
        <3> QED
            BY <1>8, <3>2 DEF ClicksHere, ClickBound, n, K
    <2>2. ~program[Len(program)].retried
        BY <1>8, ClickShape
    <2>3. m = 0 \/ (m = 1 /\ call = "release" /\ Arrives)
        BY <1>2, <2>1
    <2>4. ASSUME phase' = "input" PROVE m = 0
        <3>1. CASE call = "release"
            <4>1. run.block = Len(program) /\ c = Len(block.calls)
                BY <1>5, <2>1, <3>1
            <4>2. ~block.retried
                BY <1>3, <2>2, <4>1
            <4> QED
                BY <1>1, <1>7, <2>4, <4>1, <4>2
        <3> QED
            BY <2>3, <3>1
    <2>5. phase' = "input" => ClicksHere'
        BY <1>8, <2>4, StepKept DEF ClicksHere, m
    <2>6. phase' = "confirm" => m >= K /\ control'.button = "up"
        <3>1. phase' = "confirm" => Arrives /\ call = "release"
            BY <1>7 DEF Restarts, NextCall, NextBlock
        <3> QED
            BY <1>2, <2>1, <3>1
    <2>7. m <= ClickBound
        BY <2>1, <2>3
    <2> QED
        BY <2>5, <2>6, <2>7 DEF m, K
<1>9. CASE ~Single
    <2>1. n <= K * t + (IF c > 4 THEN 1 ELSE 0) /\ (c > 4 => n >= 1)
        BY <1>9 DEF ClicksHere, n, K, t, c
    <2>2. ClickBound = K * (MaxRetries + 1)
        BY <1>9 DEF ClickBound, K
    <2>3. Len(program) = 1 /\ run.block = 1
        <3>1. Len(program) = 1
            BY <1>9, ClickShape
        <3> QED
            BY <1>1, <3>1
    <2>4. /\ kind # "double click" => Len(program[1].calls) <= 4
          /\ kind = "double click" => Len(program[1].calls) = 6 /\ program[1].calls[4] = "release"
        BY <1>9, ClickShape
    <2>5. /\ K = 1 => Len(block.calls) <= 4
          /\ K = 2 => Len(block.calls) = 6 /\ block.calls[4] = "release"
        BY <1>3, <1>4, <2>3, <2>4
    <2>6. ASSUME NEW more, more = (IF run'.call > 4 THEN 1 ELSE 0), m <= K * run'.tries + more,
                 run'.call > 4 => m >= 1
          PROVE  ClicksHere'
        BY <1>9, <2>6, StepKept DEF ClicksHere, m, K
    <2>7. call = block.calls[c]
        BY <1>3
    <2>8. CASE K = 1
        <3>1. n <= t /\ m <= t + 1 /\ m <= MaxRetries + 1 /\ c <= 4
            BY <1>1, <1>2, <2>1, <2>5, <2>8
        <3>2. ASSUME Restarts, run'.call = 1, run'.tries = t + 1
              PROVE  ClicksHere'
            <4>1. ~(run'.call > 4) /\ m <= K * run'.tries + 0
                BY <1>1, <2>8, <3>1, <3>2
            <4> QED
                BY <2>6, <4>1, Zenon
        <3>3. ASSUME NextCall, c < Len(block.calls), run'.call = c + 1, run'.tries = t
              PROVE  ClicksHere'
            <4>1. call # "release"
                BY <1>1, <1>5, <2>8, <3>3
            <4>2. m = n
                BY <1>2, <4>1
            <4>3. c + 1 <= 4
                BY <1>1, <2>5, <2>8, <3>3
            <4>4. ~(run'.call > 4) /\ m <= K * run'.tries + 0
                BY <1>1, <2>8, <3>1, <3>3, <4>2, <4>3
            <4> QED
                BY <2>6, <4>4
        <3>4. ASSUME Arrives, call = "release"
              PROVE  m >= K /\ control'.button = "up"
            <4>1. m = n + 1 /\ control'.button = "up"
                BY <1>2, <3>4
            <4>2. m >= K
                BY <1>1, <2>8, <4>1
            <4> QED
                BY <4>1, <4>2
        <3>5. m <= ClickBound
            BY <1>1, <2>2, <2>8, <3>1
        <3>6. ~(run.block < Len(program))
            BY <2>3
        <3>7. phase' = "input" => ClicksHere'
            BY <1>7, <3>2, <3>3, <3>6, Zenon
        <3>8. phase' = "confirm" => m >= K /\ control'.button = "up"
            <4>1. phase' = "confirm" => Arrives /\ call = "release"
                BY <1>7, <3>6 DEF Restarts, NextCall
            <4> QED
                BY <3>4, <4>1
        <3> QED
            BY <3>5, <3>7, <3>8 DEF m, K
    <2>9. CASE K = 2
        <3>1. call = "release" => c \in {4, 6}
            BY <1>1, <1>5, <2>5, <2>9
        <3>2. m <= 2 * t + 2 /\ m <= 2 * (MaxRetries + 1)
            <4>1. c > 4 => n <= 2 * t + 1
                BY <1>1, <2>1, <2>9
            <4>2. c <= 4 => n <= 2 * t
                BY <1>1, <2>1, <2>9
            <4>3. n <= 2 * t + 1 /\ (c > 4 \/ c <= 4)
                BY <1>1, <4>1, <4>2
            <4>4. m <= n + 1
                BY <1>1, <1>2
            <4> QED
                BY <1>1, <1>2, <4>3, <4>4
        <3>3. ASSUME Restarts, run'.call = 1, run'.tries = t + 1
              PROVE  ClicksHere'
            <4>1. ~(run'.call > 4) /\ m <= K * run'.tries + 0
                BY <1>1, <2>9, <3>2, <3>3
            <4> QED
                BY <2>6, <4>1, Zenon
        <3>4. ASSUME Arrives, NextCall, c < Len(block.calls), run'.call = c + 1, run'.tries = t
              PROVE  ClicksHere'
            <4>1. CASE c = 4
                <5>1. call = "release"
                    BY <2>5, <2>7, <2>9, <4>1
                <5>2. m = n + 1
                    BY <1>2, <3>4, <5>1
                <5>3. n <= 2 * t
                    BY <1>1, <2>1, <2>9, <4>1
                <5>4. run'.call > 4 /\ m >= 1 /\ m <= K * run'.tries + 1
                    BY <1>1, <2>9, <3>4, <4>1, <5>2, <5>3
                <5> QED
                    BY <2>6, <5>4
            <4>2. CASE c # 4
                <5>0. c # 6
                    <6>1. Len(block.calls) = 6 /\ c < Len(block.calls) /\ c \in Nat
                        BY <1>1, <2>5, <2>9, <3>4
                    <6> QED
                        BY <6>1
                <5>1. call # "release"
                    BY <3>1, <4>2, <5>0
                <5>2. m = n
                    BY <1>2, <5>1
                <5>3. CASE c > 4
                    <6>1. run'.call > 4 /\ m >= 1 /\ m <= K * run'.tries + 1
                        BY <1>1, <2>1, <2>9, <3>4, <5>2, <5>3
                    <6> QED
                        BY <2>6, <6>1
                <5>4. CASE ~(c > 4)
                    <6>1. ~(run'.call > 4) /\ m <= K * run'.tries + 0
                        BY <1>1, <2>1, <2>9, <3>4, <4>2, <5>2, <5>4
                    <6> QED
                        BY <2>6, <6>1
                <5> QED
                    BY <5>3, <5>4
            <4> QED
                BY <4>1, <4>2
        <3>5. ASSUME Arrives, c = Len(block.calls), call = "release"
              PROVE  m >= K /\ control'.button = "up"
            <4>1. c = 6
                BY <2>5, <2>9, <3>5
            <4>2. n >= 1
                BY <1>1, <2>1, <4>1
            <4>3. m = n + 1 /\ control'.button = "up"
                BY <1>2, <3>5
            <4>4. m >= K
                BY <1>1, <2>9, <4>2, <4>3
            <4> QED
                BY <4>3, <4>4
        <3>6. m <= ClickBound
            BY <1>1, <2>2, <2>9, <3>2
        <3>7. ~(run.block < Len(program))
            BY <2>3
        <3>8. phase' = "input" => ClicksHere'
            BY <1>7, <3>3, <3>4, <3>7, Zenon
        <3>9. phase' = "confirm" => m >= K /\ control'.button = "up"
            <4>1. phase' = "confirm" => Arrives /\ c = Len(block.calls) /\ call = "release"
                BY <1>7, <3>7 DEF Restarts, NextCall
            <4> QED
                BY <3>5, <4>1
        <3> QED
            BY <3>6, <3>8, <3>9 DEF m, K
    <2> QED
        BY <1>4, <2>8, <2>9
<1> QED
    BY <1>8, <1>9

\* A call that does not press leaves the button as it is or lets it go.
LEMMA ButtonStays ==
    ASSUME ControlTyped, Moves, call # "press", control.button = "up"
    PROVE  control'.button = "up"
BY EffectsAre DEF Moves, Arrives

\* A block of a programme is left after its last call has arrived.
LEMMA LastCall ==
    ASSUME kind \in Inputs, AtCall, NEW saw, NextBlock(saw) \/ Finishes(saw)
    PROVE  run.call = Len(block.calls)
BY Placeable DEF NextBlock, Finishes, AtCall, block

LEMMA ButtonOfCheck ==
    ASSUME kind = "check", AtCall, ButtonHere, ControlTyped, Moves, UNCHANGED <<flow, at>>,
           phase = "input"
    PROVE  /\ phase' = "input" => ButtonHere'
           /\ phase' = "confirm" => control'.button = "up"
<1>1. /\ kind \in Inputs /\ ~Framed /\ ~Plain /\ kind \notin DOMAIN Clicks
      /\ kind' = kind /\ ~Framed' /\ ~Plain'
    BY InputsSplit, StepKept DEF Inputs, Targeted, Gated
<1>2. run.block \in 1..3 /\ call = program[run.block].calls[run.call] /\ block = program[run.block]
      /\ run.call \in 1..Len(block.calls)
    BY CheckShape DEF AtCall, call, block
<1>3. CASE run.block = 2
    <2>1. phase' # "confirm"
        <3>1. ASSUME NEW saw, Finishes(saw) PROVE FALSE
            BY <1>1, <1>3, <3>1, FollowingIs, CheckShape DEF Finishes
        <3> QED
            BY <3>1 DEF Moves, Restarts, NextCall, NextBlock
    <2>2. ASSUME NEW saw, NextBlock(saw), Arrives PROVE control'.button = "up"
        <3>1. run.call = 4
            BY <1>1, <1>2, <1>3, <2>2, LastCall, CheckShape, ClickElementIs
        <3>2. call = "release"
            BY <1>2, <1>3, <3>1, CheckShape, ClickElementIs
        <3> QED
            BY <2>2, <3>2, EffectsAre DEF Arrives
    <2>3. Restarts \/ NextCall => run'.block = 2
        BY <1>3 DEF Restarts, NextCall
    <2>4. run'.block = 2 => Pressing'
        BY <1>1 DEF Pressing
    <2>5. phase' = "input" => ButtonHere'
        BY <2>2, <2>3, <2>4 DEF Moves, ButtonHere, Finishes
    <2> QED
        BY <2>1, <2>5
<1>4. CASE run.block # 2
    <2>1. control.button = "up"
        BY <1>1, <1>4 DEF ButtonHere, Pressing
    <2>2. call # "press"
        <3>1. program[run.block].calls = <<"find", "read">>
            BY <1>2, <1>4, CheckShape
        <3> QED
            BY <1>2, <3>1
    <2>3. control'.button = "up"
        BY <2>1, <2>2, ButtonStays
    <2> QED
        BY <2>3 DEF ButtonHere
<1> QED
    BY <1>3, <1>4

LEMMA ButtonOfFramed ==
    ASSUME Framed, AtCall, ButtonHere, ControlTyped, Moves, UNCHANGED <<flow, at>>, phase = "input"
    PROVE  /\ phase' = "input" => ButtonHere'
           /\ phase' = "confirm" => control'.button = "up"
<1>1. /\ kind \in Inputs /\ ~Plain /\ kind \notin DOMAIN Clicks /\ kind # "check"
      /\ kind' = kind /\ Framed' /\ ~Plain'
    BY InputsSplit, StepKept DEF Framed, Inputs, Targeted, Gated
<1>2. /\ run.block \in 1..Len(program) /\ call = program[run.block].calls[run.call]
      /\ block = program[run.block] /\ run.call \in 1..Len(block.calls) /\ Len(program) \in {5, 8}
    BY FramedShape DEF AtCall, call, block, Framed
<1>3. CASE run.block = 2
    <2>1. phase' # "confirm"
        <3>1. ASSUME NEW saw, Finishes(saw) PROVE FALSE
            <4>1. run.block = Len(program)
                BY <1>1, <3>1, FollowingIs DEF Finishes
            <4>2. Len(program) \in {5, 8}
                BY <1>2
            <4>3. 2 \in {5, 8}
                BY <1>3, <4>1, <4>2, Zenon
            <4> QED
                BY <4>3
        <3> QED
            BY <3>1 DEF Moves, Restarts, NextCall, NextBlock
    <2>2. ASSUME NEW saw, NextBlock(saw), Arrives PROVE control'.button = "up"
        <3>1. /\ Len(program[2].calls) = 3 /\ program[2].calls[3] = "release"
            <4>1. program[2].calls = <<"move", "press", "release">>
                BY FramedShape
            <4> QED
                BY <4>1
        <3>2. run.call = 3
            BY <1>1, <1>2, <1>3, <2>2, <3>1, LastCall
        <3>3. call = "release"
            BY <1>2, <1>3, <3>1, <3>2
        <3> QED
            BY <2>2, <3>3, EffectsAre DEF Arrives
    <2>3. Restarts \/ NextCall => run'.block = 2
        BY <1>3 DEF Restarts, NextCall
    <2>4. run'.block = 2 => Pressing'
        BY <1>1 DEF Pressing
    <2>5. phase' = "input" => ButtonHere'
        BY <2>2, <2>3, <2>4 DEF Moves, ButtonHere, Finishes
    <2> QED
        BY <2>1, <2>5
<1>4. CASE run.block # 2
    <2>1. control.button = "up"
        BY <1>1, <1>4 DEF ButtonHere, Pressing
    <2>2. call # "press"
        BY <1>2, <1>4, FramedShape
    <2>3. control'.button = "up"
        BY <2>1, <2>2, ButtonStays
    <2> QED
        BY <2>3 DEF ButtonHere
<1> QED
    BY <1>3, <1>4

\* What the typing block calls from its fourth call on.
LEMMA TypingTail ==
    ASSUME Plain, AtCall, run.block = TypingBlock
    PROVE  /\ Len(block.calls) = 5 + Len(Text) /\ run.call \in 1..(5 + Len(Text))
           /\ run.call = 4 => call = "release"
           /\ run.call = 5 => call = "select"
           /\ run.call > 5 => call = Text[run.call - 5] /\ run.call - 5 \in 1..Len(Text)
           /\ run.call > 4 => call # "press"
<1>1. /\ block = program[TypingBlock] /\ call = block.calls[run.call]
      /\ run.call \in 1..Len(block.calls)
    BY DEF AtCall, call, block
<1>2. block.calls = ClickElement \o <<"select">> \o Text
    BY <1>1, PlainShape
<1> DEFINE calls == ClickElement \o <<"select">> \o Text
<1>3. /\ Len(calls) = 5 + Len(Text) /\ calls[4] = "release" /\ calls[5] = "select"
      /\ \A i \in 1..Len(Text) : calls[5 + i] = Text[i]
    BY TypingCalls
<1> HIDE DEF calls
<1>4. block.calls = calls /\ Len(Text) \in Nat
    BY <1>2, TextTyped DEF calls
<1>5. run.call > 5 => call = Text[run.call - 5] /\ run.call - 5 \in 1..Len(Text)
    <2> SUFFICES ASSUME run.call > 5 PROVE call = Text[run.call - 5] /\ run.call - 5 \in 1..Len(Text)
        OBVIOUS
    <2>1. run.call - 5 \in 1..Len(Text) /\ 5 + (run.call - 5) = run.call
        BY <1>1, <1>3, <1>4
    <2> QED
        BY <1>1, <1>3, <1>4, <2>1
<1>6. run.call > 4 => call # "press"
    <2>1. CASE run.call = 5
        BY <1>1, <1>3, <1>4, <2>1
    <2>2. CASE run.call > 5
        BY <1>5, <2>2, TextTyped DEF Calls
    <2> QED
        BY <1>1, <1>3, <1>4, <2>1, <2>2
<1> QED
    BY <1>1, <1>3, <1>4, <1>5, <1>6

LEMMA PlainBlocks ==
    ASSUME Plain, AtCall
    PROVE  /\ kind \in Inputs /\ kind \notin DOMAIN Clicks /\ ~Framed /\ kind # "check"
           /\ TypingBlock \in {2, 3} /\ Len(program) = TypingBlock
           /\ run.block \in 1..TypingBlock
           /\ run.block # TypingBlock => call \notin {"press", "release"}
<1>1. /\ kind \in Inputs /\ kind \notin DOMAIN Clicks /\ ~Framed /\ kind # "check"
      /\ TypingBlock \in {2, 3} /\ Len(program) = TypingBlock
    BY InputsSplit, PlainShape DEF Plain, TypingBlock, Inputs, Targeted, Gated
<1>2. run.block \in 1..TypingBlock /\ run.call \in 1..Len(program[run.block].calls)
      /\ call = program[run.block].calls[run.call]
    BY <1>1 DEF AtCall, call, block
<1>3. run.block # TypingBlock => run.block \in 1..(TypingBlock - 1)
    BY <1>1, <1>2
<1> QED
    BY <1>1, <1>2, <1>3, PlainShape

LEMMA ButtonOfPlain ==
    ASSUME Plain, AtCall, ButtonHere, ControlTyped, Moves, UNCHANGED <<flow, at>>, phase = "input"
    PROVE  /\ phase' = "input" => ButtonHere'
           /\ phase' = "confirm" => control'.button = "up"
<1>1. /\ kind \in Inputs /\ kind \notin DOMAIN Clicks /\ ~Framed /\ kind # "check"
      /\ TypingBlock \in {2, 3} /\ Len(program) = TypingBlock /\ run.block \in 1..TypingBlock
      /\ kind' = kind /\ Plain' /\ TypingBlock' = TypingBlock
    BY PlainBlocks, StepKept
<1>2. CASE run.block # TypingBlock
    <2>1. control.button = "up" /\ call # "press"
        BY <1>1, <1>2, PlainBlocks DEF ButtonHere, Pressing
    <2>2. control'.button = "up"
        BY <2>1, ButtonStays
    <2> QED
        BY <2>2 DEF ButtonHere
<1>3. CASE run.block = TypingBlock
    <2>1. /\ Len(block.calls) = 5 + Len(Text) /\ run.call \in 1..(5 + Len(Text))
          /\ run.call = 4 => call = "release"
          /\ run.call > 4 => call # "press"
        BY <1>3, TypingTail
    <2>2. Len(Text) \in Nat \ {0}
        BY TextTyped
    <2>3. Arrives /\ run.call >= 4 => control'.button = "up"
        <3>1. CASE run.call = 4
            BY <2>1, <3>1, EffectsAre DEF Arrives
        <3>2. CASE run.call > 4
            <4>1. control.button = "up"
                BY <1>1, <2>1, <3>2 DEF ButtonHere, Pressing
            <4> QED
                BY <2>1, <3>2, <4>1, ButtonStays
        <3> QED
            BY <2>1, <2>2, <3>1, <3>2
    <2>4. ASSUME NEW saw, NextBlock(saw) \/ Finishes(saw), Arrives PROVE control'.button = "up"
        <3>1. run.call = 5 + Len(Text)
            BY <1>1, <2>1, <2>4, LastCall
        <3> QED
            BY <2>2, <2>3, <2>4, <3>1
    <2>5. Restarts => Pressing'
        BY <1>1, <1>3 DEF Restarts, Pressing
    <2>6. Arrives /\ NextCall => ButtonHere'
        <3>1. CASE run.call >= 4
            BY <2>3, <3>1 DEF ButtonHere
        <3>2. CASE ~(run.call >= 4)
            <4>1. NextCall => Pressing'
                BY <1>1, <1>3, <2>1, <2>2, <3>2 DEF NextCall, Pressing
            <4> QED
                BY <4>1 DEF ButtonHere
        <3> QED
            BY <3>1, <3>2
    <2>7. phase' = "input" => ButtonHere'
        BY <2>4, <2>5, <2>6 DEF Moves, ButtonHere
    <2>8. phase' = "confirm" => control'.button = "up"
        BY <2>4 DEF Moves, Restarts, NextCall
    <2> QED
        BY <2>7, <2>8
<1> QED
    BY <1>2, <1>3

\* The button is up wherever the programme is not about to let it go.
LEMMA ButtonKept ==
    ASSUME kind \in Inputs, AtCall, ClicksHere, ButtonHere, ControlTyped, Moves,
           UNCHANGED <<flow, at>>, phase = "input"
    PROVE  /\ phase' = "input" => ButtonHere'
           /\ phase' = "confirm" => control'.button = "up"
<1>1. CASE kind \in DOMAIN Clicks
    <2>1. Pressing'
        BY <1>1, StepKept DEF Pressing
    <2> QED
        BY <1>1, <2>1, ClicksKept DEF ButtonHere
<1>2. CASE kind \in Pressless
    <2>1. kind \notin DOMAIN Clicks /\ kind # "check" /\ ~Framed /\ ~Plain
        BY <1>2, InputsSplit
    <2>2. control.button = "up"
        BY <2>1 DEF ButtonHere, Pressing
    <2>3. call # "press"
        BY <1>2, PresslessShape DEF AtCall, call, block
    <2>4. control'.button = "up"
        BY <2>2, <2>3, ButtonStays
    <2> QED
        BY <2>4 DEF ButtonHere
<1> QED
    BY <1>1, <1>2, InputsSplit, ButtonOfCheck, ButtonOfFramed, ButtonOfPlain

LEMMA TextGrows ==
    /\ SubSeq(Text, 1, 1) = <<Text[1]>> /\ SubSeq(Text, 1, Len(Text)) = Text
    /\ \A i \in 1..(Len(Text) - 1) :
          Append(SubSeq(Text, 1, i), Text[i + 1]) = SubSeq(Text, 1, i + 1)
<1> DEFINE S == {Text[i] : i \in DOMAIN Text}
<1>1. Text \in Seq(S) /\ Len(Text) \in Nat \ {0} /\ \A i \in 1..Len(Text) : Text[i] \in S
    BY TextTyped
<1> HIDE DEF S
<1>2. ASSUME NEW i \in 1..Len(Text)
      PROVE  /\ SubSeq(Text, 1, i) \in Seq(S) /\ Len(SubSeq(Text, 1, i)) = i
             /\ \A j \in 1..i : SubSeq(Text, 1, i)[j] = Text[j]
    BY <1>1
<1>3. SubSeq(Text, 1, 1) = <<Text[1]>>
    <2>1. <<Text[1]>> \in Seq(S) /\ Len(<<Text[1]>>) = 1 /\ <<Text[1]>>[1] = Text[1]
        BY <1>1
    <2>2. 1 \in 1..Len(Text) /\ \A j \in 1..1 : j = 1
        BY <1>1
    <2> DEFINE one == <<Text[1]>>
               first == SubSeq(Text, 1, 1)
    <2>3. one \in Seq(S) /\ first \in Seq(S) /\ Len(one) = Len(first)
          /\ \A j \in 1..Len(first) : first[j] = one[j]
        BY <1>2, <2>1, <2>2
    <2> HIDE DEF one, first
    <2>4. first = one
        BY <2>3, SeqEqual
    <2> QED
        BY <2>4 DEF one, first
<1>4. SubSeq(Text, 1, Len(Text)) = Text
    <2> DEFINE whole == SubSeq(Text, 1, Len(Text))
    <2>1. whole \in Seq(S) /\ Len(whole) = Len(Text) /\ \A j \in 1..Len(whole) : whole[j] = Text[j]
        BY <1>1, <1>2
    <2> HIDE DEF whole
    <2>2. whole = Text
        BY <1>1, <2>1, SeqEqual
    <2> QED
        BY <2>2 DEF whole
<1>5. ASSUME NEW i \in 1..(Len(Text) - 1)
      PROVE  Append(SubSeq(Text, 1, i), Text[i + 1]) = SubSeq(Text, 1, i + 1)
    <2> DEFINE s == SubSeq(Text, 1, i)
               t == SubSeq(Text, 1, i + 1)
    <2>1. i \in 1..Len(Text) /\ i + 1 \in 1..Len(Text) /\ Text[i + 1] \in S /\ i \in Nat
        BY <1>1
    <2>2. /\ s \in Seq(S) /\ Len(s) = i /\ \A j \in 1..i : s[j] = Text[j]
          /\ t \in Seq(S) /\ Len(t) = i + 1 /\ \A j \in 1..(i + 1) : t[j] = Text[j]
        BY <1>2, <2>1
    <2> HIDE DEF s, t
    <2>3. /\ Append(s, Text[i + 1]) \in Seq(S) /\ Len(Append(s, Text[i + 1])) = i + 1
          /\ \A j \in 1..(i + 1) : Append(s, Text[i + 1])[j] = Text[j]
        BY <2>1, <2>2
    <2>4. Append(s, Text[i + 1]) = t
        BY <2>2, <2>3, SeqEqual
    <2> QED
        BY <2>4 DEF s, t
<1> QED
    BY <1>3, <1>4, <1>5

\* However often the block starts over, the keys replace what the field held: the
\* first one types over the selection, and the others follow it.
LEMMA FieldKept ==
    ASSUME Plain, AtCall, FieldHere, ControlTyped, Moves, UNCHANGED <<flow, at>>, phase = "input"
    PROVE  /\ phase' = "input" => FieldHere'
           /\ phase' = "confirm" => control'.field = Text
<1>1. /\ kind \in Inputs /\ kind # "check" /\ TypingBlock \in {2, 3} /\ Len(program) = TypingBlock
      /\ run.block \in 1..TypingBlock /\ (Plain <=> Plain') /\ TypingBlock' = TypingBlock
    BY PlainBlocks, StepKept
<1>2. ASSUME run'.call = 1 PROVE FieldHere'
    BY <1>2 DEF FieldHere
<1>3. ASSUME Arrives, run.block = TypingBlock, run.call > 5
      PROVE  ~control'.selected /\ control'.field = SubSeq(Text, 1, run.call - 5)
    <2>1. call = Text[run.call - 5] /\ run.call - 5 \in 1..Len(Text) /\ run.call \in Nat
        BY <1>3, TypingTail, TextTyped
    <2>2. call \in Characters
        BY <2>1, TextTyped DEF Characters
    <2>3. /\ ~control'.selected
          /\ control'.field = IF control.selected THEN <<call>> ELSE Append(control.field, call)
        BY <1>3, <2>2, EffectsAre DEF Arrives
    <2>4. CASE run.call = 6
        <3>1. control.selected /\ run.call - 5 = 1
            BY <1>3, <2>4 DEF FieldHere
        <3> QED
            BY <2>1, <2>3, <3>1, TextGrows
    <2>5. CASE run.call > 6
        <3>1. ~control.selected /\ control.field = SubSeq(Text, 1, run.call - 6)
            BY <1>3, <2>5 DEF FieldHere
        <3>2. run.call - 6 \in 1..(Len(Text) - 1) /\ (run.call - 6) + 1 = run.call - 5
            BY <2>1, <2>5, TextTyped
        <3>3. Append(SubSeq(Text, 1, run.call - 6), Text[run.call - 5]) = SubSeq(Text, 1, run.call - 5)
            BY <3>2, TextGrows
        <3> QED
            BY <2>1, <2>3, <3>1, <3>3
    <2> QED
        BY <1>3, <2>1, <2>4, <2>5
<1>4. ASSUME Arrives, NextCall PROVE FieldHere'
    <2>1. run'.block = run.block /\ run'.call = run.call + 1
        BY <1>4 DEF NextCall
    <2>2. SUFFICES ASSUME run.block = TypingBlock
                   PROVE  /\ run'.call = 6 => control'.selected
                          /\ run'.call > 6 => ~control'.selected
                                              /\ control'.field = SubSeq(Text, 1, run'.call - 6)
        BY <1>1, <2>1 DEF FieldHere
    <2>3. run.call \in Nat /\ (run.call = 5 => call = "select")
        BY <2>2, TypingTail, TextTyped
    <2>4. run'.call = 6 => control'.selected
        <3>1. run'.call = 6 => run.call = 5
            BY <2>1, <2>3
        <3> QED
            BY <1>4, <2>3, <3>1, EffectsAre DEF Arrives
    <2>5. run'.call > 6 => run.call > 5 /\ run'.call - 6 = run.call - 5
        BY <2>1, <2>3
    <2> QED
        BY <1>3, <1>4, <2>2, <2>4, <2>5
<1>5. ASSUME NEW saw, Finishes(saw), Arrives PROVE control'.field = Text
    <2>1. run.block = TypingBlock
        BY <1>1, <1>5, FollowingIs DEF Finishes
    <2>2. run.call = 5 + Len(Text)
        BY <1>1, <1>5, <2>1, LastCall, TypingTail
    <2>3. run.call > 5 /\ run.call - 5 = Len(Text)
        BY <2>2, TextTyped
    <2> QED
        BY <1>3, <1>5, <2>1, <2>3, TextGrows
<1>6. phase' = "input" => FieldHere'
    BY <1>2, <1>4 DEF Moves, Restarts, NextBlock, Finishes
<1>7. phase' = "confirm" => control'.field = Text
    BY <1>5 DEF Moves, Restarts, NextCall, NextBlock
<1> QED
    BY <1>6, <1>7

\* What is read back at the end is what was asked for.
LEMMA ReadBackTells ==
    ASSUME kind = "check" \/ (kind = "type" /\ step.locator = "sap"), AtCall, ControlTyped, Moves,
           phase' = "confirm", phase = "input"
    PROVE  IF kind = "check" THEN control'.checked ELSE control'.field = Text
<1>1. PICK saw \in (IF call = "read" THEN ReadsBack(kind, step.locator) ELSE {run.saw}) :
          Finishes(saw) /\ Arrives
    BY DEF Moves, Restarts, NextCall, NextBlock
<1>2. kind \in Inputs /\ (kind # "check" => Framed)
    BY DEF Inputs, Targeted, Gated, Framed
<1>3. run.block = Len(program) /\ run.call = Len(block.calls) /\ block = program[run.block]
      /\ call = block.calls[run.call]
    BY <1>1, <1>2, FollowingIs, LastCall DEF Finishes, block, call
<1>4. call = "read"
    <2>1. CASE kind = "check"
        <3>1. block.calls = <<"find", "read">>
            BY <1>3, <2>1, CheckShape
        <3>2. Len(<<"find", "read">>) = 2 /\ <<"find", "read">>[2] = "read"
            OBVIOUS
        <3> QED
            BY <1>3, <3>1, <3>2, Zenon
    <2>2. CASE kind = "type" /\ step.locator = "sap"
        <3>1. block.calls = <<"read">>
            BY <1>2, <1>3, <2>2, FramedShape
        <3>2. Len(<<"read">>) = 1 /\ <<"read">>[1] = "read"
            OBVIOUS
        <3> QED
            BY <1>3, <3>1, <3>2, Zenon
    <2> QED
        BY <2>1, <2>2
<1>5. program[Len(program)].calls[Len(program[Len(program)].calls)] = call
    BY <1>3
<1>6. saw
    BY <1>1, <1>4, <1>5 DEF Finishes, NotTaken
<1>7. saw \in ReadsBack(kind, step.locator) /\ control' = control
    BY <1>1, <1>4, EffectsAre DEF Arrives
<1>8. CASE kind = "check"
    BY <1>6, <1>7, <1>8 DEF ReadsBack
<1>9. CASE kind = "type" /\ step.locator = "sap"
    BY <1>6, <1>7, <1>9 DEF ReadsBack
<1> QED
    BY <1>8, <1>9

---------------------------------------------------------------------------
(* Every step.                                                             *)

\* What is noted of where replay is in the programme.
SamePlace(r) == r.block = run.block /\ r.call = run.call /\ r.tries = run.tries

LEMMA EndPlace ==
    ASSUME TypeOK, NEW counter \in {"resolved", "ready"}, NEW ok \in BOOLEAN, NEW again, NEW after,
           NextEnd(counter, ok, again, after)
    PROVE  SamePlace(run')
<1> DEFINE r == [run EXCEPT ![counter] = IF ok THEN @ + 1 ELSE @, !.ends = @ + 1,
                         !.lacks = @ \/ ~ok, !.waited = 0]
<1>1. DOMAIN r = Fields /\ r.block = run.block /\ r.call = run.call /\ r.tries = run.tries
    BY FieldsAre DEF TypeOK, Fields
<1>2. \/ run' = [r EXCEPT !.rung = 1]
      \/ run' = [r EXCEPT !.verdict = "fail"]
      \/ run' = [r EXCEPT !.ends = 0]
    BY DEF NextEnd
<1> HIDE DEF r
<1> QED
    BY <1>1, <1>2, FieldsAre DEF SamePlace

LEMMA WaitPlace ==
    ASSUME TypeOK, WaitForElement
    PROVE  SamePlace(run')
<1>1. \/ \E v : run' = [run EXCEPT !.verdict = v]
      \/ run' = [run EXCEPT !.waited = 0, !.rung = 1]
      \/ run' = [run EXCEPT !.lastLook = TRUE]
      \/ run' = [run EXCEPT !.waited = @ + 1]
    BY DEF WaitForElement, Breaks, Verdict, Continue
<1> QED
    BY <1>1, FieldsAre DEF TypeOK, Fields, SamePlace

LEMMA ResolvePlace == ASSUME TypeOK, ResolveTarget PROVE SamePlace(run')
<1>1. \/ \E v : run' = [run EXCEPT !.verdict = v]
      \/ run' = [run EXCEPT !.rung = @ + 1]
      \/ \E answer \in Answers :
             NextEnd("resolved", ElementExists(step.locator, run.rung, answer), "resolve", After)
    BY DEF ResolveTarget, Breaks, Verdict, After
<1>2. ASSUME NEW answer,
             NextEnd("resolved", ElementExists(step.locator, run.rung, answer), "resolve", After)
      PROVE  SamePlace(run')
    <2>1. ElementExists(step.locator, run.rung, answer) \in BOOLEAN
        BY DEF ElementExists
    <2> QED
        BY <1>2, <2>1, EndPlace
<1>3. CASE (\E v : run' = [run EXCEPT !.verdict = v]) \/ run' = [run EXCEPT !.rung = @ + 1]
    BY <1>3, FieldsAre DEF TypeOK, Fields, SamePlace
<1> QED
    BY <1>1, <1>2, <1>3

LEMMA GatePlace == ASSUME TypeOK, WaitActionable PROVE SamePlace(run')
<1>1. \/ \E v : run' = [run EXCEPT !.verdict = v]
      \/ run' = [run EXCEPT !.waited = @ + 1]
      \/ NextEnd("ready", ActionabilityGate(run.rung) = "open", "gate", "prepare")
    BY DEF WaitActionable, Breaks, Verdict
<1>2. CASE NextEnd("ready", ActionabilityGate(run.rung) = "open", "gate", "prepare")
    <2>1. (ActionabilityGate(run.rung) = "open") \in BOOLEAN
        OBVIOUS
    <2> QED
        BY <1>2, <2>1, EndPlace
<1>3. CASE (\E v : run' = [run EXCEPT !.verdict = v]) \/ run' = [run EXCEPT !.waited = @ + 1]
    BY <1>3, FieldsAre DEF TypeOK, Fields, SamePlace
<1> QED
    BY <1>1, <1>2, <1>3

LEMMA ControlFresh ==
    ASSUME NEW c \in Controls(kind)
    PROVE  /\ DOMAIN c = {"field", "selected", "button", "clicks", "checked"}
           /\ c.clicks = 0 /\ c.button = "up"
BY DEF Controls

\* A pristine control is what the programme expects at its first call.
LEMMA Starts ==
    ASSUME Pristine, kind \in Inputs
    PROVE  AtCall /\ ClicksHere /\ ButtonHere /\ FieldHere
<1>1. /\ run.block = 1 /\ run.call = 1 /\ run.tries = 0 /\ control.clicks = 0 /\ control.button = "up"
    BY ControlFresh DEF Pristine
<1>2. AtCall
    <2>1. 1 \in 1..Len(program) /\ 1 \in 1..Len(program[1].calls) /\ 0 \in 0..MaxRetries
        BY Placeable, RetriesAssumption
    <2> QED
        BY <1>1, <2>1 DEF AtCall, block
<1>3. ClicksHere
    <2>1. kind \in DOMAIN Clicks => Clicks[kind] \in {1, 2}
        BY DEF Clicks
    <2>2. ASSUME kind \in DOMAIN Clicks PROVE control.clicks <= Clicks[kind] * run.tries + 0
        BY <1>1, <2>1, <2>2
    <2>3. ~(run.call > 4)
        BY <1>1
    <2> QED
        BY <1>1, <2>2, <2>3 DEF ClicksHere
<1>4. FieldHere
    <2>1. TypingBlock # 1
        BY DEF TypingBlock
    <2> QED
        BY <1>1, <2>1 DEF FieldHere
<1> QED
    BY <1>1, <1>2, <1>3, <1>4 DEF ButtonHere

LEMMA BoundIs == kind \in DOMAIN Clicks => ClickBound \in Nat
<1>1. kind \in DOMAIN Clicks => Clicks[kind] \in {1, 2}
    BY DEF Clicks
<1> QED
    BY <1>1, RetriesAssumption DEF ClickBound

\* Steps that leave the control alone.
LEMMA UnderKept ==
    ASSUME TypeOK, Ready, Under, UNCHANGED <<control, flow, at>>, phase # "begin",
           phase' \in Before => phase \in Before /\ SamePlace(run'),
           phase' = "input" => phase \in {"prepare", "input"} /\ UNCHANGED run,
           phase' \in {"confirm", "net"} => phase \in {"confirm", "net"} \/ kind \notin Inputs
    PROVE  Under'
<1>1. /\ step' = step /\ kind' = kind /\ program' = program /\ (Single <=> Single')
      /\ (Framed <=> Framed') /\ (Plain <=> Plain') /\ TypingBlock' = TypingBlock
    BY StepKept
<1>2. phase' \in Before => Pristine'
    BY <1>1 DEF Under, Pristine, SamePlace
<1>3. phase' = "input" => (AtCall /\ ClicksHere /\ ButtonHere /\ FieldHere)'
    <2> SUFFICES ASSUME phase' = "input" PROVE (AtCall /\ ClicksHere /\ ButtonHere /\ FieldHere)'
        OBVIOUS
    <2>1. AtCall /\ ClicksHere /\ ButtonHere /\ FieldHere
        BY Starts DEF Under, Before, Ready, PhaseKnown
    <2>2. UNCHANGED run
        OBVIOUS
    <2>3. AtCall'
        BY <1>1, <2>1, <2>2 DEF AtCall, block
    <2>4. ClicksHere'
        BY <1>1, <2>1, <2>2 DEF ClicksHere
    <2>5. ButtonHere' /\ FieldHere'
        BY <1>1, <2>1, <2>2 DEF ButtonHere, Pressing, FieldHere
    <2> QED
        BY <2>3, <2>4, <2>5
<1>4. ClicksBounded'
    BY <1>1 DEF Under, ClicksBounded, ClickBound
<1>5. phase' \in {"confirm", "net"} /\ kind' \in Inputs => Took'
    BY <1>1 DEF Under, Took
<1>6. ControlTyped'
    BY DEF Under, ControlTyped
<1> QED
    BY <1>2, <1>3, <1>4, <1>5, <1>6 DEF Under

\* Steps that send a call.
LEMMA UnderCall == ASSUME TypeOK, Ready, Under, CallArrives \/ CallFails PROVE Under'
<1>1. Moves /\ UNCHANGED <<flow, at>> /\ phase = "input"
    BY CallMoves
<1>2. /\ AtCall /\ ClicksHere /\ ButtonHere /\ FieldHere /\ ControlTyped /\ ClicksBounded
      /\ kind \in Inputs
    BY <1>1 DEF Under, Ready, PhaseKnown
<1>3. /\ step' = step /\ kind' = kind /\ program' = program /\ (Single <=> Single')
      /\ (Framed <=> Framed') /\ (Plain <=> Plain') /\ TypingBlock' = TypingBlock
    BY <1>1, StepKept
<1>4. phase' \in {"input", "confirm", "ended"}
    BY <1>1 DEF Moves, Restarts, NextCall, NextBlock, Finishes
<1>5. phase' = "input" => AtCall'
    BY <1>1, <1>2, AtCallKept
<1>6. ASSUME kind \in DOMAIN Clicks
      PROVE  /\ control'.clicks <= ClickBound
             /\ phase' = "input" => ClicksHere'
             /\ phase' = "confirm" => control'.clicks >= Clicks[kind]
    BY <1>1, <1>2, <1>6, ClicksKept
<1>7. (phase' = "input" => ClicksHere') /\ ClicksBounded'
    <2>1. kind \notin DOMAIN Clicks => ClicksHere'
        BY <1>3 DEF ClicksHere
    <2>2. ClickBound' = ClickBound
        BY <1>3 DEF ClickBound
    <2> QED
        BY <1>3, <1>6, <2>1, <2>2 DEF ClicksBounded
<1>8. /\ phase' = "input" => ButtonHere'
      /\ phase' = "confirm" => control'.button = "up"
    BY <1>1, <1>2, ButtonKept
<1>9. phase' = "input" => FieldHere'
    BY <1>1, <1>2, <1>3, FieldKept DEF FieldHere
<1>10. phase' = "confirm" => Took'
    <2> SUFFICES ASSUME phase' = "confirm" PROVE Took'
        OBVIOUS
    <2>1. kind = "check" => control'.checked
        BY <1>1, <1>2, ReadBackTells
    <2>2. kind \in {"type", "fill"} /\ step.locator # "framed" => control'.field = Text
        <3>1. CASE kind = "type" /\ step.locator = "sap"
            BY <1>1, <1>2, <3>1, ReadBackTells
        <3>2. CASE Plain
            BY <1>1, <1>2, <3>2, FieldKept
        <3> QED
            BY <3>1, <3>2 DEF Plain
    <2> QED
        BY <1>3, <1>6, <1>8, <2>1, <2>2 DEF Took
<1>11. ControlTyped'
    <2>1. CASE control' = control
        BY <1>2, <2>1 DEF ControlTyped
    <2>2. CASE Arrives
        BY <1>2, <2>2, EffectsAre DEF Arrives, ControlTyped
    <2> QED
        BY <1>1, <2>1, <2>2 DEF Moves
<1> QED
    BY <1>3, <1>4, <1>5, <1>7, <1>8, <1>9, <1>10, <1>11 DEF Under, Before

LEMMA UnderInit == Init => Under
<1> SUFFICES ASSUME Init PROVE Under
    OBVIOUS
<1>1. phase = "begin" /\ control \in Controls(kind)
    BY DEF Init, kind, step
<1>2. ControlTyped
    BY <1>1, ControlFresh DEF ControlTyped
<1> QED
    BY <1>1, <1>2 DEF Under, Before

LEMMA UnderStep == ASSUME TypeOK, Ready, Under, [Next]_vars PROVE Under'
<1>1. CASE Begin
    <2>1. FirstPhase(kind) \notin {"input", "confirm", "net"}
        BY FlowHere, FirstPhaseIs
    <2>2. /\ phase' \in {"pre", FirstPhase(kind)} /\ run' = NewRun /\ control' \in Controls(kind)
          /\ UNCHANGED <<flow, at>>
        BY <1>1 DEF Begin
    <2>3. kind' = kind /\ (Single <=> Single') /\ control'.clicks = 0 /\ ControlTyped'
        BY <2>2, StepKept, ControlFresh DEF ControlTyped
    <2>4. Pristine'
        BY <2>2, <2>3 DEF Pristine, NewRun
    <2>5. ClicksBounded'
        <3>1. ClickBound' = ClickBound
            BY <2>3 DEF ClickBound
        <3> QED
            BY <2>3, <3>1, BoundIs DEF ClicksBounded
    <2> QED
        BY <2>1, <2>2, <2>3, <2>4, <2>5 DEF Under
<1>2. CASE WaitForElement
    <2>1. UNCHANGED <<control, flow, at>> /\ phase \in {"pre", "post"}
        BY <1>2 DEF WaitForElement, StepUnchanged
    <2>2. FirstPhase(kind) \notin {"input", "confirm", "net"}
        BY FlowHere, FirstPhaseIs
    <2>3. \/ phase' \in {phase, "ended"}
          \/ phase = "pre" /\ phase' = FirstPhase(kind)
        BY <1>2, WaitSame
    <2>4. SamePlace(run')
        BY <1>2, WaitPlace
    <2> QED
        BY <2>1, <2>2, <2>3, <2>4, UnderKept DEF Before
<1>3. CASE ResolveTarget \/ WaitActionable
    <2>1. UNCHANGED <<control, flow, at>> /\ phase \in {"resolve", "gate"}
        BY <1>3, ResolveGoes, GateGoes DEF StepUnchanged
    <2>2. phase' \in {"resolve", "gate", "prepare", "ended"}
        <3>1. ASSUME NEW counter \in {"resolved", "ready"}, NEW ok \in BOOLEAN,
                     NEW again \in {"resolve", "gate"}, NEW after \in {"gate", "prepare"},
                     NextEnd(counter, ok, again, after)
              PROVE  phase' \in {"resolve", "gate", "prepare", "ended"}
            BY <3>1, EndStep
        <3> QED
            BY <1>3, <3>1, ResolveGoes, GateGoes DEF After
    <2>3. SamePlace(run')
        BY <1>3, ResolvePlace, GatePlace
    <2> QED
        BY <2>1, <2>2, <2>3, UnderKept DEF Before
<1>4. CASE Prepare
    <2>1. phase = "prepare" /\ phase' \in {"input", "ended"} /\ UNCHANGED <<control, flow, at>>
        BY <1>4, PrepareGoes DEF Goes, Prepare
    <2>2. phase' = "input" => UNCHANGED run
        BY <1>4 DEF Prepare, Verdict
    <2> QED
        BY <2>1, <2>2, UnderKept DEF Before
<1>5. CASE CallArrives \/ CallFails
    BY <1>5, UnderCall
<1>6. CASE Confirm
    <2>1. phase = "confirm" /\ phase' \in {"net", "ended"} /\ UNCHANGED <<control, flow, at>>
        BY <1>6, ConfirmGoes DEF Goes, Confirm
    <2> QED
        BY <2>1, UnderKept DEF Before
<1>7. CASE AwaitDownload
    <2>1. UNCHANGED <<control, flow, at>> /\ phase = "await" /\ phase' \in {"await", "net", "ended"}
        BY <1>7, AwaitTakes DEF AwaitDownload
    <2>2. kind \notin Inputs
        BY <2>1, KindsApart DEF Ready, PhaseKnown
    <2> QED
        BY <2>1, <2>2, UnderKept DEF Before
<1>8. CASE SettleScene
    BY <1>8, SettleAsked, UnderKept DEF StepUnchanged, Before
<1>9. CASE AskRefs \/ AskSurface \/ AskFrame \/ AskRung \/ ReadElement \/ SeeElement
    <2>1. /\ UNCHANGED <<control, flow, at>> /\ phase \in {"ask", "read"}
          /\ phase' \in {"ended", "ask", "read", "net"}
        <3>1. StepUnchanged /\ phase' \in {"ended", "ask", "read", "net"}
            BY <1>9, RefsAsked, SurfaceAsked, FrameAsked, RungAsked, ReadAsked, SeeAsked DEF Asked
        <3>2. phase \in {"ask", "read"}
            BY <1>9 DEF AskRefs, AskSurface, AskFrame, AskRung, ReadElement, SeeElement
        <3> QED
            BY <3>1, <3>2 DEF StepUnchanged
    <2>2. kind \notin Inputs
        BY <2>1, KindsApart DEF Ready, PhaseKnown
    <2> QED
        BY <2>1, <2>2, UnderKept DEF Before
<1>10. CASE SendProbe \/ ProbeAnswers
    <2>1. /\ UNCHANGED <<control, flow, at>> /\ phase \in {"send", "answering"}
          /\ phase' \in {"send", "answering", "net", "ended"}
        BY <1>10, ProbeGoes DEF Goes, SendProbe, ProbeAnswers, StepUnchanged
    <2>2. kind \notin Inputs
        BY <2>1, KindsApart DEF Ready, PhaseKnown
    <2> QED
        BY <2>1, <2>2, UnderKept DEF Before
<1>11. CASE Account
    <2>1. phase = "net" /\ phase' \in {"post", "ended"} /\ UNCHANGED <<control, flow, at>>
        BY <1>11, AccountGoes DEF Goes, Account
    <2> QED
        BY <2>1, UnderKept DEF Before
<1>12. CASE NextStep
    <2>1. CASE phase' = "over" /\ UNCHANGED at
        BY <1>12, <2>1, UnderKept DEF NextStep, Before
    <2>2. CASE phase' = "begin"
        BY <1>12, <2>2 DEF NextStep, Under, Before, ControlTyped
    <2> QED
        BY <1>12, <2>1, <2>2 DEF NextStep
<1>13. CASE PageStep \/ UNCHANGED vars
    <2>1. UNCHANGED <<control, flow, at, phase, run>>
        BY <1>13 DEF PageStep, vars
    <2>2. CASE phase = "begin"
        BY <2>1, <2>2 DEF Under, Before, ControlTyped
    <2>3. CASE phase # "begin"
        BY <2>1, <2>3, UnderKept DEF SamePlace
    <2> QED
        BY <2>2, <2>3
<1> QED
    BY <1>1, <1>2, <1>3, <1>4, <1>5, <1>6, <1>7, <1>8, <1>9, <1>10, <1>11, <1>12, <1>13
    DEF Next, Replay

\* A step passes only if its input took: however many calls were lost and sent
\* again, the button is up, the click was made, the check is as asked for, and the
\* field holds the text and nothing else (set_checked, type_text).
THEOREM InputTakes == Spec => []InputTook
<1>1. TypeOK /\ Ready /\ Under /\ [Next]_vars => (TypeOK /\ Ready /\ Under)'
    BY TypeStep, ReadyStep, UnderStep
<1>2. Under => InputTook
    BY DEF Under, InputTook, Took
<1> QED
    BY <1>1, <1>2, TypeInit, ReadyInit, UnderInit, PTL DEF Spec

---------------------------------------------------------------------------
(* What is sent once.                                                      *)

\* A request that writes was not sent before its phase, and at most once after.
SentOnce ==
    kind = "post" /\ ~step.retry =>
        /\ phase \in {"pre", "send"} => sent = 0
        /\ phase # "begin" => sent \in {0, 1}

LEMMA SentKept ==
    ASSUME SentOnce, UNCHANGED <<flow, at, sent>>, phase # "begin",
           phase' \in {"pre", "send"} => phase \in {"pre", "send"} \/ kind # "post" \/ step.retry
    PROVE  SentOnce'
BY StepKept DEF SentOnce

LEMMA PostIsProbe == kind = "post" => kind \notin Inputs /\ kind \notin Asserts /\ kind # "download"
BY DEF Inputs, Targeted, Untargeted, Gated, Asserts, SurfaceReadings, FrameReadings,
       ElementReadings, Presence, Contents, TextReadings, StateReadings, ComputedReadings

LEMMA SentStep == ASSUME TypeOK, Ready, SentOnce, [Next]_vars PROVE SentOnce'
<1>1. CASE Begin
    BY <1>1 DEF Begin, SentOnce
<1>2. CASE WaitForElement
    <2>1. UNCHANGED <<flow, at, sent>> /\ phase \in {"pre", "post"}
        BY <1>2 DEF WaitForElement, StepUnchanged
    <2>2. phase' \in {phase, "ended"} \/ phase = "pre"
        BY <1>2, WaitSame
    <2> QED
        BY <2>1, <2>2, SentKept
<1>3. CASE ResolveTarget \/ WaitActionable
    <2>1. UNCHANGED <<flow, at, sent>> /\ phase \in {"resolve", "gate"}
        BY <1>3, ResolveGoes, GateGoes DEF StepUnchanged
    <2>2. kind # "post"
        BY <2>1, PostIsProbe DEF Ready, PhaseKnown, Inputs, Targeted
    <2> QED
        BY <2>1, <2>2, SentKept
<1>4. CASE Prepare \/ CallArrives \/ CallFails \/ Confirm
    <2>1. UNCHANGED <<flow, at, sent>> /\ phase \in {"prepare", "input", "confirm"}
        BY <1>4 DEF Prepare, CallArrives, CallFails, Confirm, StepUnchanged
    <2>2. kind # "post"
        BY <2>1, PostIsProbe DEF Ready, PhaseKnown
    <2> QED
        BY <2>1, <2>2, SentKept
<1>5. CASE AwaitDownload
    BY <1>5, SentKept, AwaitTakes DEF AwaitDownload
<1>6. CASE SettleScene
    BY <1>6, SettleAsked, SentKept DEF StepUnchanged
<1>7. CASE AskRefs \/ AskSurface \/ AskFrame \/ AskRung \/ ReadElement \/ SeeElement
    <2>1. UNCHANGED <<flow, at, sent>> /\ phase \in {"ask", "read"}
        BY <1>7 DEF AskRefs, AskSurface, AskFrame, AskRung, ReadElement, SeeElement, StepUnchanged
    <2>2. kind # "post"
        BY <2>1, PostIsProbe DEF Ready, PhaseKnown
    <2> QED
        BY <2>1, <2>2, SentKept
<1>8. CASE SendProbe
    <2>1. phase = "send" /\ UNCHANGED <<flow, at>> /\ phase' \in {"answering", "ended"}
        BY <1>8 DEF SendProbe, Verdict
    <2>2. sent' = sent \/ sent' = sent + 1
        BY <1>8 DEF SendProbe
    <2>3. kind = "post" /\ ~step.retry => sent' \in {0, 1}
        BY <2>1, <2>2 DEF SentOnce
    <2> QED
        BY <2>1, <2>3, StepKept DEF SentOnce
<1>9. CASE ProbeAnswers
    <2>1. UNCHANGED <<flow, at, sent>> /\ phase = "answering"
        BY <1>9 DEF ProbeAnswers, StepUnchanged
    <2>2. phase' = "send" => IsRetryable(step)
        BY <1>9 DEF ProbeAnswers, Verdict
    <2>3. phase' # "pre"
        BY <1>9 DEF ProbeAnswers, Verdict
    <2> QED
        BY <2>1, <2>2, <2>3, SentKept DEF IsRetryable, kind
<1>10. CASE Account
    <2>1. UNCHANGED <<flow, at, sent>> /\ phase = "net" /\ phase' \in {"post", "ended"}
        BY <1>10, AccountGoes DEF Goes, Account
    <2> QED
        BY <2>1, SentKept
<1>11. CASE NextStep
    <2>1. CASE phase' = "over" /\ UNCHANGED at
        BY <1>11, <2>1, SentKept DEF NextStep
    <2>2. CASE phase' = "begin"
        BY <2>2 DEF SentOnce
    <2> QED
        BY <1>11, <2>1, <2>2 DEF NextStep
<1>12. CASE PageStep \/ UNCHANGED vars
    <2>1. UNCHANGED <<flow, at, phase, sent>>
        BY <1>12 DEF PageStep, vars
    <2> QED
        BY <2>1, StepKept DEF SentOnce
<1> QED
    BY <1>1, <1>2, <1>3, <1>4, <1>5, <1>6, <1>7, <1>8, <1>9, <1>10, <1>11, <1>12 DEF Next, Replay

LEMMA OnceTells == Under /\ SentOnce => NothingRepeated
<1> SUFFICES ASSUME Under, SentOnce, phase # "begin"
             PROVE  /\ kind = "post" /\ ~step.retry => sent <= 1
                    /\ kind \in DOMAIN Clicks =>
                          control.clicks <= Clicks[kind] * (IF \/ kind \in {"click at", "drag"}
                                                               \/ kind = "click" /\ step.locator = "framed"
                                                            THEN 1 ELSE MaxRetries + 1)
    BY DEF NothingRepeated
<1>1. kind = "post" /\ ~step.retry => sent <= 1
    BY DEF SentOnce
<1>2. kind \in DOMAIN Clicks => control.clicks <= ClickBound
    BY DEF Under, ClicksBounded
<1> QED
    BY <1>1, <1>2 DEF ClickBound, Single

\* A request that writes is sent once, and a click is made no more often than its
\* block may start over; one at a point, in a frame or of a drag is made once,
\* whatever calls are lost (is_retryable, retry_on_transport_fault).
THEOREM NotRepeated == Spec => []NothingRepeated
<1>1. TypeOK /\ Ready /\ Under /\ SentOnce /\ [Next]_vars => (TypeOK /\ Ready /\ Under /\ SentOnce)'
    BY TypeStep, ReadyStep, UnderStep, SentStep
<1>2. Init => SentOnce
    BY DEF Init, SentOnce
<1> QED
    BY <1>1, <1>2, OnceTells, TypeInit, ReadyInit, UnderInit, PTL DEF Spec
=============================================================================
