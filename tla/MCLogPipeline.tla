---------------------------- MODULE MCLogPipeline ----------------------------
(* One client that reads three lines of an HTML log and may be killed, or   *)
(* of a text log; or two clients that read one line each, beside each other *)
(* or the second as the restart of the first, while statements fail too.    *)
EXTENDS LogPipeline

CONSTANTS c1, c2

MCClients == {c1, c2}

Alone == [c \in MCClients |-> IF c = c1 THEN 3 ELSE 0]
Both == [c \in MCClients |-> 1]

MCEnvironments ==
  {[format |-> "html", reads |-> Alone, faults |-> {"kill"}],
   [format |-> "text", reads |-> Alone, faults |-> {}],
   [format |-> "html", reads |-> Both, faults |-> {"db", "kill"}]}

TextOnly == {[format |-> "text", reads |-> Both, faults |-> {}]}
==============================================================================
