--------------------------- MODULE AppendOnlyLog ---------------------------
(***************************************************************************)
(* What an asynchronous log file promises: a line is in the file only      *)
(* after it was logged, at most once, and after every older line that gets *)
(* into the file.  Lines are numbered in the order they were logged.  A    *)
(* line may be missing (a failed write, a crash), never out of place.      *)
(***************************************************************************)
EXTENDS Integers, Sequences

VARIABLES accepted,  \* how many lines have been logged
          file       \* the lines in the file

vars == <<accepted, file>>

Init == accepted = 0 /\ file = <<>>

Accept == accepted' = accepted + 1 /\ UNCHANGED file

Write(n) ==
  /\ \A i \in 1..Len(file) : file[i] < n
  /\ file' = Append(file, n)
  /\ UNCHANGED accepted

Next == Accept \/ \E n \in 1..accepted : Write(n)

Spec == Init /\ [][Next]_vars
=============================================================================
