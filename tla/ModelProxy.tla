----------------------------- MODULE ModelProxy -----------------------------
(***************************************************************************)
(* The model boundary proxy (flowproof-adapters/src/agent_proxy.rs): one   *)
(* thread that accepts connections one at a time and answers each from a   *)
(* cassette (flowproof-trace/src/cassette.rs) or from the real model.      *)
(*                                                                         *)
(* A request is a record: who makes it, its kind, the body replay compares *)
(* and whether the model answers it with a tool call.  A turn is a body    *)
(* with that answer.  The thread's steps are as fine as what the runner    *)
(* can see between them.                                                   *)
(***************************************************************************)
EXTENDS Naturals, Sequences

VARIABLES
  mode,      \* "replay" serves the cassette, "record" forwards
  cassette,  \* the recorded turns
  queue,     \* the connections waiting to be accepted
  step,      \* where the proxy thread is
  serving,   \* the request it serves, meaningful while it is not idle
  activity,  \* the counter bumped when a request starts and when it finishes
  inFlight,  \* the requests started and not finished
  log,       \* what the proxy observed
  captured,  \* the turns captured in record mode
  consumed,  \* the turns of the cassette already served
  answers,   \* what the clients were answered
  stop       \* the proxy was dropped

counterVars == <<activity, inFlight>>
recordVars == <<mode, cassette>>
proxyVars == <<recordVars, queue, step, serving, counterVars, log, captured, consumed, answers, stop>>
-----------------------------------------------------------------------------
Kind == {"model",    \* a chat-completions or messages request
         "probe",    \* one the proxy does not serve, or cannot read
         "silent"}   \* a connection on which nothing is sent

Steps == {"idle", "started", "serving", "forwarding", "captured",
          "logged", "failed", "answered", "finishing"}

NoLog == [served |-> 0, divergence |-> FALSE, upstreamError |-> FALSE, lastTool |-> FALSE]

NoRequest == [who |-> <<>>, kind |-> "probe", body |-> <<>>, tool |-> FALSE]

ProxyInit ==
  /\ mode = "record" /\ cassette = <<>>
  /\ queue = <<>> /\ step = "idle" /\ serving = NoRequest
  /\ activity = 0 /\ inFlight = 0
  /\ log = NoLog /\ captured = <<>> /\ consumed = {}
  /\ answers = {} /\ stop = FALSE

\* The proxy of the next phase.
Rebind(m, turns) ==
  /\ mode' = m /\ cassette' = turns
  /\ queue' = <<>> /\ step' = "idle" /\ serving' = NoRequest
  /\ activity' = 0 /\ inFlight' = 0
  /\ log' = NoLog /\ captured' = <<>> /\ consumed' = {}
  /\ answers' = {} /\ stop' = FALSE

Turn(request) == [body |-> request.body, tool |-> request.tool]
TypeProxy(Who, Body) ==
  LET Turns == Seq([body: Body, tool: BOOLEAN])
      Requests == [who: Who, kind: Kind, body: Body, tool: BOOLEAN]
  IN  /\ mode \in {"record", "replay"} /\ cassette \in Turns
      /\ queue \in Seq(Requests) /\ step \in Steps
      /\ serving \in Requests \cup {NoRequest}
      /\ activity \in Nat /\ inFlight \in {0, 1}
      /\ log \in [served: Nat, divergence: BOOLEAN, upstreamError: BOOLEAN, lastTool: BOOLEAN]
      /\ captured \in Turns /\ consumed \subseteq DOMAIN cassette
      /\ answers \subseteq [who: Who, ok: BOOLEAN] /\ stop \in BOOLEAN
-----------------------------------------------------------------------------
\* A client connects; the kernel holds the connection until it is accepted.
Connect(request) ==
  /\ queue' = Append(queue, request)
  /\ UNCHANGED <<recordVars, step, serving, counterVars, log, captured, consumed, answers, stop>>

\* The accept loop takes the next connection unless it was told to stop, and
\* marks the request in flight before serving it.
Accept ==
  /\ step = "idle" /\ ~stop /\ queue # <<>>
  /\ serving' = Head(queue) /\ queue' = Tail(queue)
  /\ inFlight' = inFlight + 1
  /\ step' = "started"
  /\ UNCHANGED <<recordVars, activity, log, captured, consumed, answers, stop>>

Start ==
  /\ step = "started"
  /\ activity' = activity + 1
  /\ step' = "serving"
  /\ UNCHANGED <<recordVars, queue, serving, inFlight, log, captured, consumed, answers, stop>>

\* A request that is not for the model, or cannot be read, is refused and leaves
\* nothing in the log; one that is never sent ends when its client goes away.
Refuse(gone) ==
  /\ step = "serving" /\ serving.kind # "model"
  /\ serving.kind = "silent" => gone
  /\ step' = "failed"
  /\ UNCHANGED <<recordVars, queue, serving, counterVars, log, captured, consumed, answers, stop>>

\* (mutant) The turn at the position of the call, whatever was served before.
MatchesInOrder(body) ==
  {i \in DOMAIN cassette : i = log.served + 1 /\ cassette[i].body = body}

\* (mutant) A turn may be served again.
MatchesAgain(body) == {i \in DOMAIN cassette : cassette[i].body = body}

\* The recorded turns that are this call and were not served yet.
Matches(body) == {i \in DOMAIN cassette \ consumed : cassette[i].body = body}

\* Replay: the earliest of them is served and consumed; if there is none the
\* call diverged, and the first divergence is kept.
ServeReplay ==
  /\ step = "serving" /\ serving.kind = "model" /\ mode = "replay"
  /\ \/ \E i \in Matches(serving.body) :
          /\ \A j \in Matches(serving.body) : i <= j
          /\ consumed' = consumed \cup {i}
          /\ log' = [log EXCEPT !.served = @ + 1, !.lastTool = cassette[i].tool]
          /\ step' = "logged"
     \/ /\ Matches(serving.body) = {}
        /\ log' = [log EXCEPT !.divergence = TRUE]
        /\ step' = "failed"
        /\ UNCHANGED consumed
  /\ UNCHANGED <<recordVars, queue, serving, counterVars, captured, answers, stop>>

\* Record: the request goes to the real model.
Forward ==
  /\ step = "serving" /\ serving.kind = "model" /\ mode = "record"
  /\ step' = "forwarding"
  /\ UNCHANGED <<recordVars, queue, serving, counterVars, log, captured, consumed, answers, stop>>

\* The model answers: the turn is captured, and then counted.
Capture ==
  /\ step = "forwarding"
  /\ captured' = Append(captured, Turn(serving))
  /\ step' = "captured"
  /\ UNCHANGED <<recordVars, queue, serving, counterVars, log, consumed, answers, stop>>

Count ==
  /\ step = "captured"
  /\ log' = [log EXCEPT !.served = @ + 1, !.lastTool = serving.tool]
  /\ step' = "logged"
  /\ UNCHANGED <<recordVars, queue, serving, counterVars, captured, consumed, answers, stop>>

\* The call to the model fails: nothing is captured, the error is kept.
UpstreamFails ==
  /\ step = "forwarding"
  /\ log' = [log EXCEPT !.upstreamError = TRUE]
  /\ step' = "failed"
  /\ UNCHANGED <<recordVars, queue, serving, counterVars, captured, consumed, answers, stop>>

\* The client gets its answer: the model's, or an error.
Respond ==
  /\ step \in {"logged", "failed"}
  /\ answers' = answers \cup {[who |-> serving.who, ok |-> step = "logged"]}
  /\ step' = "answered"
  /\ UNCHANGED <<recordVars, queue, serving, counterVars, log, captured, consumed, stop>>

\* The request is no longer in flight, and then its end is counted.
Unmark ==
  /\ step = "answered"
  /\ inFlight' = inFlight - 1
  /\ step' = "finishing"
  /\ UNCHANGED <<recordVars, queue, serving, activity, log, captured, consumed, answers, stop>>

Finish ==
  /\ step = "finishing"
  /\ activity' = activity + 1
  /\ step' = "idle" /\ serving' = NoRequest
  /\ UNCHANGED <<recordVars, queue, inFlight, log, captured, consumed, answers, stop>>
=============================================================================
