-------------------------------- MODULE McpHttp --------------------------------
(***************************************************************************)
(* The streamable-HTTP listener (flowproof-adapters/src/mcp_http.rs), in   *)
(* flowproof's own process: a thread for each connection of the agent, the *)
(* POSTs one at a time under a lock, and beside them the GET stream on     *)
(* which the server may push.                                              *)
(***************************************************************************)
EXTENDS McpBoundary

VARIABLES
  handled, \* the POSTs whose thread has had the lock
  lock,    \* the POST that has it now (0: none)
  stage,   \* how far that POST is
  reply,   \* what it is about to be answered
  stream   \* the GET stream: "none", "open", "pumped" between a frame that has
           \* been passed on and its capture, or "closed"

httpVars == <<handled, lock, stage, reply, stream>>

HttpStarts == handled = {} /\ lock = 0 /\ stage = "idle" /\ reply = "none" /\ stream = "none"

Listening(m) == script.transport = "http" /\ mode = m

\* The connections are served in any order.
TakeLock(i) ==
  /\ i \in 1..sent \ handled /\ lock = 0
  /\ lock' = i /\ handled' = handled \cup {i}

Answer(answer) == reply' = answer /\ stage' = "respond"
-----------------------------------------------------------------------------
(* Recording. *)

PostMock(i) ==
  /\ Listening("record") /\ TakeLock(i) /\ Mocked(i)
  /\ calls' = Append(calls, [n |-> i, result |-> "mock"])
  /\ Answer("mock")
  /\ UNCHANGED <<agentVars, serverVars, events, trouble, served, diverged, stream, spoilt>>

PostForward(i) ==
  /\ Listening("record") /\ TakeLock(i) /\ ~Mocked(i)
  /\ stage' = "forward"
  /\ asked' = {i}
  /\ UNCHANGED <<agentVars, serverUp, noted, demanded, captureVars, reply, stream, spoilt>>

Forwarding == Listening("record") /\ stage = "forward"

\* The real server answers, possibly with an error of its own.
ForwardOk ==
  /\ Forwarding
  /\ \E r \in {"real"} \cup (IF script.faulty THEN {"fault"} ELSE {}) :
       /\ calls' = Append(calls, [n |-> lock, result |-> Captured(r)])
       /\ Answer(r)
  /\ asked' = {}
  /\ UNCHANGED <<agentVars, serverUp, noted, demanded, events, trouble, served, diverged,
                 handled, lock, stream, spoilt>>

\* A notification in the answer's stream is captured, and not passed on.
ForwardNote ==
  /\ Forwarding /\ ~noted /\ noted' = TRUE
  /\ events' = Append(events, Len(calls))
  /\ UNCHANGED <<agentVars, asked, serverUp, demanded, calls, trouble, served, diverged,
                 httpVars, spoilt>>

\* The server asks instead of answering: the call is not captured.
ForwardDemand ==
  /\ Forwarding /\ script.demands /\ ~demanded
  /\ demanded' = TRUE /\ trouble' = TRUE
  /\ Answer("error") /\ asked' = {}
  /\ UNCHANGED <<agentVars, serverUp, noted, calls, events, served, diverged, handled, lock, stream, spoilt>>

\* The server cannot be reached, or takes too long.
ForwardFails ==
  /\ Forwarding /\ script.faulty
  /\ Answer("error") /\ asked' = {} /\ spoilt' = TRUE
  /\ UNCHANGED <<agentVars, serverUp, noted, demanded, captureVars, handled, lock, stream>>

\* The answer is sent, and the lock released when the agent has taken it.
Respond ==
  /\ script.transport = "http" /\ stage = "respond"
  /\ Give(lock, reply)
  /\ lock' = 0 /\ stage' = "idle" /\ reply' = "none"
  /\ UNCHANGED <<sent, heard, left, serverVars, captureVars, handled, stream, spoilt>>
-----------------------------------------------------------------------------
(* The GET stream. *)

OpenStream ==
  /\ script.transport = "http" /\ left = "here" /\ stream = "none"
  /\ stream' = "open"
  /\ UNCHANGED <<agentVars, serverVars, captureVars, handled, lock, stage, reply, spoilt>>

\* A frame is passed on while it is read, and captured after that.
Pump ==
  /\ Listening("record") /\ stream = "open" /\ ~noted
  /\ noted' = TRUE /\ Hear /\ stream' = "pumped"
  /\ UNCHANGED <<sent, got, left, asked, serverUp, demanded, captureVars,
                 handled, lock, stage, reply, spoilt>>

CapturePushed ==
  /\ Listening("record") /\ stream = "pumped"
  /\ events' = Append(events, Len(calls)) /\ stream' = "open"
  /\ UNCHANGED <<agentVars, serverVars, calls, trouble, served, diverged,
                 handled, lock, stage, reply, spoilt>>

PumpDemand ==
  /\ Listening("record") /\ stream = "open" /\ script.demands /\ ~demanded
  /\ demanded' = TRUE /\ trouble' = TRUE /\ stream' = "closed"
  /\ UNCHANGED <<agentVars, asked, serverUp, noted, calls, events, served, diverged,
                 handled, lock, stage, reply, spoilt>>

\* At replay a notification is sent once the calls before it are served.
Emit ==
  /\ Listening("replay") /\ stream = "open" /\ Owes
  /\ Hear
  /\ UNCHANGED <<sent, got, left, serverVars, captureVars, httpVars, spoilt>>
-----------------------------------------------------------------------------
(* Replaying. *)

\* (A faulty variant: mocked tools are answered without the lane.)
PostReplayMocks(i) ==
  /\ Listening("replay") /\ TakeLock(i)
  /\ IF Mocked(i) THEN Answer("mock") /\ UNCHANGED captureVars ELSE ServeLane(i) /\ Answer(Reply(i))
  /\ UNCHANGED <<agentVars, serverVars, stream, spoilt>>

\* Mocked tools are served from the lane like the others.
PostReplay(i) ==
  /\ Listening("replay") /\ TakeLock(i)
  /\ ServeLane(i) /\ Answer(Reply(i))
  /\ UNCHANGED <<agentVars, serverVars, stream, spoilt>>

Posts == \E i \in 1..sent : PostMock(i) \/ PostForward(i) \/ PostReplay(i)

\* What flowproof's threads do, and what waits for the real server.
Listener == Posts \/ Respond \/ CapturePushed \/ Emit
Upstream == ForwardOk \/ ForwardNote \/ ForwardDemand \/ ForwardFails \/ Pump \/ PumpDemand
=============================================================================
