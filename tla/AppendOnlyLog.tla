--------------------------- MODULE AppendOnlyLog ---------------------------
(***************************************************************************)
(* What the scrollback history promises within one run of the daemon: a    *)
(* log that only grows, by a prefix of each batch handed to it; a restart  *)
(* of the daemon starts an empty one.                                      *)
(***************************************************************************)
EXTENDS Naturals, Sequences

CONSTANT Batches   \* the batches of rows that may be appended
VARIABLES log, epoch

Init == log = <<>> /\ epoch = 0

Grow    == /\ \E batch \in Batches : \E n \in 0..Len(batch) : log' = log \o SubSeq(batch, 1, n)
           /\ UNCHANGED epoch
Restart == log' = <<>> /\ epoch' = epoch + 1

Next == Grow \/ Restart

Spec == Init /\ [][Next]_<<log, epoch>>
=============================================================================
