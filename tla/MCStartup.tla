------------------------------ MODULE MCStartup ------------------------------
(* Two replicas; the images of a release line: a first one, one whose branch reserved *)
(* version 2, one that has it, as a no-transaction file, and one with an edited file.  *)
EXTENDS Startup

File(v, sum, plain) == [v |-> v, sum |-> sum, plain |-> plain]
MCImages == {{File(1, 1, TRUE)},
             {File(1, 1, TRUE), File(3, 1, TRUE)},
             {File(1, 1, TRUE), File(2, 1, FALSE), File(3, 1, TRUE)},
             {File(1, 2, TRUE)}}

Server(there, ok, flag, may) == [db |-> there, supported |-> ok, createDb |-> flag, mayCreate |-> may]
MCServers == {Server(TRUE, TRUE, TRUE, TRUE), Server(FALSE, TRUE, TRUE, TRUE),
              Server(TRUE, FALSE, TRUE, TRUE), Server(FALSE, TRUE, FALSE, TRUE),
              Server(FALSE, TRUE, TRUE, FALSE)}
=============================================================================
