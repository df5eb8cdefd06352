------------------------------ MODULE LogStore ------------------------------
(***************************************************************************)
(* What the path of a log line promises, whatever the file, the stream,    *)
(* the threads and the pool do: a server takes the lines of one client in  *)
(* their order and each at most once, and what it took is stored or given  *)
(* up, once and for ever.                                                  *)
(***************************************************************************)
EXTENDS Naturals

CONSTANTS Sources,  \* the client processes
          Last      \* the greatest number of a line

VARIABLES
  status,   \* of each line of each source
  top       \* the last line taken from each source

Init ==
  /\ status = [s \in Sources |-> [n \in 1..Last |-> "untaken"]]
  /\ top = [s \in Sources |-> 0]

Take(s, n) ==
  /\ n > top[s]
  /\ status[s][n] = "untaken"
  /\ status' = [status EXCEPT ![s][n] = "taken"]
  /\ top' = [top EXCEPT ![s] = n]

Settle(s, n, outcome) ==
  /\ status[s][n] = "taken"
  /\ status' = [status EXCEPT ![s][n] = outcome]
  /\ UNCHANGED top

Next == \E s \in Sources, n \in 1..Last :
  \/ Take(s, n)
  \/ \E outcome \in {"stored", "dropped"} : Settle(s, n, outcome)

Spec == Init /\ [][Next]_<<status, top>>

=============================================================================
