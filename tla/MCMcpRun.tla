------------------------------ MODULE MCMcpRun ------------------------------
(* McpRun on small instances. *)
EXTENDS McpRun

Flow(t, c, a, h, d, f) ==
  [transport |-> t, calls |-> c, ahead |-> a, heeds |-> h, demands |-> d, faulty |-> f, service |-> FALSE]

Service(c) == [Flow("http", c, 1, 0, FALSE, FALSE) EXCEPT !.service = TRUE]

\* A mocked call between real ones, with an agent that waits for a notification
\* before it goes on; calls under way together; servers that ask, die and
\* answer with errors, and files that cannot be written; a service that may go on
\* calling when its drive is over.
MCScripts == {Flow("stdio", <<"real", "mock", "real">>, 1, 3, FALSE, FALSE),
              Flow("stdio", <<"real", "real", "real">>, 2, 0, FALSE, FALSE),
              Flow("stdio", <<"real", "mock">>, 1, 0, TRUE, TRUE),
              Flow("http", <<"real", "mock", "real">>, 1, 0, FALSE, FALSE),
              Flow("http", <<"real", "mock">>, 2, 0, FALSE, FALSE),
              Flow("http", <<"real", "mock">>, 1, 0, TRUE, TRUE),
              Service(<<"real", "mock">>)}

\* A mocked call while a real one is under way.
MCOverlap == {Flow("stdio", <<"real", "mock">>, 2, 0, FALSE, FALSE)}

\* Calls one at a time, of a server that may notify after the last of them.
MCOutFile == {Flow("stdio", <<"real", "real">>, 1, 0, FALSE, FALSE)}
=============================================================================
