---------------------------- MODULE MCEpollServer ----------------------------
(* EpollServer with two connections, one that says more than the other. *)
EXTENDS EpollServer

CONSTANTS talker, other

MCConns == {talker, other}
MCMaxSent == [c \in MCConns |-> IF c = talker THEN 3 ELSE 1]
=============================================================================
