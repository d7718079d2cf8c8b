----------------------------- MODULE McpBoundary -----------------------------
(***************************************************************************)
(* What both MCP transports share: the agent that calls tools, the real    *)
(* server behind the boundary, what is captured of their traffic and how a *)
(* call is matched at replay (flowproof-adapters/src/mcp_core.rs).         *)
(*                                                                         *)
(* An agent makes its calls in an order of its own; a call is known by its *)
(* place in that order, which is also its JSON-RPC id.  What it asks for,  *)
(* as far as matching looks at it, is the call's body.                     *)
(***************************************************************************)
EXTENDS Naturals, Sequences, SequencesExt, FiniteSets

CONSTANT
  Scripts  \* the flows considered: their transport, the calls the agent makes
           \* ("real" or "mock"), how many of them it has under way at a time,
           \* the call before which it waits for a notification (0: none),
           \* whether the server may send requests and things may fail, and
           \* whether the agent is a service, which stays when its drive is over

ASSUME McpAssumption ==
  /\ Scripts # {}
  /\ \A s \in Scripts :
       /\ s.transport \in {"stdio", "http"} /\ s.calls \in Seq({"real", "mock"}) \ {<<>>}
       /\ s.ahead \in Nat \ {0} /\ s.heeds \in 0..Len(s.calls)
       /\ s.demands \in BOOLEAN /\ s.faulty \in BOOLEAN
       /\ s.service => s.transport = "http"

VARIABLES
  script,    \* the flow
  mode,      \* "record" or "replay"
  edit,      \* how the agent differs from the one recorded
  sent,      \* the number of calls the agent has made
  got,       \* the answer it has for each of them
  heard,     \* the server's notification was sent to it
  left,      \* it is "here", has "closed" its side, or has "killed" the stand-in
  asked,     \* the calls the real server has and has not answered
  serverUp,  \* the real server is there
  noted,     \* it has sent its notification
  demanded,  \* it has sent a request of its own
  calls,     \* the calls captured, in the order of their answers
  events,    \* the notifications captured: the calls before each of them
  trouble,   \* record_error is set
  served,    \* replay: the entries of the lane served
  diverged,  \* replay: a call did not match
  trace,     \* the minted lane and its notifications
  spoilt,    \* history: the run was cut short, by the agent, a failure or a deadline
  recorded   \* history: the recording was made without trouble

agentVars == <<sent, got, heard, left>>
serverVars == <<asked, serverUp, noted, demanded>>
captureVars == <<calls, events, trouble, served, diverged>>
setVars == <<script, mode, edit, trace, recorded>>
boundaryVars == <<agentVars, serverVars, captureVars, setVars, spoilt>>
-----------------------------------------------------------------------------
N == Len(script.calls)
NoTrace == [lane |-> <<>>, events |-> <<>>]

\* A later agent may ask for something else last, make one call more or one less.
Count == CASE edit = "extra" -> N + 1 [] edit = "fewer" -> N - 1 [] OTHER -> N
Body(i) == IF edit = "changed" /\ i = N THEN 0 ELSE i
Mocked(i) == i <= N /\ script.calls[i] = "mock"

Waiting(i) == i <= sent /\ got[i] = "none"
UnderWay == {i \in 1..sent : got[i] = "none"}

\* What is recorded of an answer: its result, which an error does not have.
Captured(answer) == IF answer = "fault" THEN "null" ELSE answer

BoundaryStarts ==
  /\ sent = 0 /\ got = [i \in 1..(N + 1) |-> "none"] /\ heard = FALSE /\ left = "here"
  /\ asked = {} /\ serverUp = TRUE /\ noted = FALSE /\ demanded = FALSE
  /\ calls = <<>> /\ events = <<>> /\ trouble = FALSE /\ served = 0 /\ diverged = FALSE
  /\ spoilt = FALSE

BoundaryInit ==
  /\ script \in Scripts /\ mode = "record" /\ edit = "same"
  /\ trace = NoTrace /\ recorded = FALSE
  /\ BoundaryStarts

\* The agent is handed an answer, if it is still there.
Give(i, answer) == got' = IF left = "here" THEN [got EXCEPT ![i] = answer] ELSE got
Hear == heard' = TRUE

\* (A faulty variant: the anchor is taken for the call before which it came.)
DueLater(n) == \E k \in DOMAIN trace.events : trace.events[k] < n

\* A notification is due once the calls before it have been served.
Due(n) == \E k \in DOMAIN trace.events : trace.events[k] <= n

\* The recorded notification is due, and was not sent yet.
Owes == ~heard /\ Due(served)
-----------------------------------------------------------------------------
(* The agent. *)

AgentCalls ==
  /\ left = "here" /\ sent < Count
  /\ Cardinality(UnderWay) < script.ahead
  /\ script.heeds = sent + 1 => heard
  /\ sent' = sent + 1
  /\ UNCHANGED <<got, heard, left, serverVars, captureVars, setVars, spoilt>>

\* It has calls to make, or to be answered.
Busy == sent < Count \/ UnderWay # {}

\* It does not wait for the notification that a replay sends it in its pipe.
Unheeded == mode = "replay" /\ script.transport = "stdio" /\ Owes

\* It leaves when it is done, or before that; it closes its side or kills the
\* stand-in.
AgentLeaves(how) ==
  /\ left = "here" /\ left' = how
  /\ spoilt' = (spoilt \/ how = "killed" \/ Busy \/ Unheeded)
  /\ UNCHANGED <<sent, got, heard, serverVars, captureVars, setVars>>
-----------------------------------------------------------------------------
(* Matching at replay. *)

\* (A faulty variant: only the kind of request is compared.)
MatchAnything(entry, body) == TRUE

\* match_call: the method, the tool and its arguments are those recorded.
Match(entry, body) == entry.body = body

Serves(body) == /\ ~diverged /\ served < Len(trace.lane)
                /\ Match(trace.lane[served + 1], body)

\* The recorded result, or an error.
Reply(i) == IF Serves(Body(i)) THEN trace.lane[served + 1].result ELSE "error"

\* After a divergence nothing is matched any more.
ServeLane(i) ==
  /\ IF Serves(Body(i)) THEN served' = served + 1 /\ UNCHANGED diverged
     ELSE diverged' = TRUE /\ UNCHANGED served
  /\ UNCHANGED <<calls, events, trouble>>
=============================================================================
