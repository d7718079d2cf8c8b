---------------------------- MODULE MCAgentFlow ----------------------------
(* AgentFlow on small instances. *)
EXTENDS AgentFlow

Flow(d, t, s) == [driver |-> d, turns |-> t, sides |-> s]

\* A tool call is followed up in the first delivery of a conversation, so that a
\* delivery takes several turns; a call on the side is made where the conversation
\* is short, or by a service.  A connection may be left open on which
\* nothing is said, by a process and by a service.
MCFlows == {Flow("plain", <<2>>, {"title"}), Flow("plain", <<1>>, {"silent"}),
            Flow("scripted", <<2, 1>>, {}), Flow("scripted", <<1>>, {"title"}),
            Flow("scripted", <<1, 1>>, {"silent"}),
            Flow("interactive", <<2, 1>>, {}),
            Flow("http", <<2, 1>>, {"title"}), Flow("http", <<1>>, {"silent"})}
=============================================================================
