--------------------------- MODULE MessageChannel ---------------------------
(***************************************************************************)
(* What a session expects of the framing: a channel that passes the pool's *)
(* messages on one by one, in the order sent.  A message for which there   *)
(* is an excuse may be lost when its turn comes.                           *)
(***************************************************************************)
EXTENDS Integers, Sequences

VARIABLES
  passed,      \* the messages whose turn has come: the first passed of them
  delivered,   \* those of them that were delivered
  excused      \* the messages that may be lost: a matter of the surroundings

Init == passed = 0 /\ delivered = <<>>

Deliver == delivered' = Append(delivered, passed + 1)

Lose == passed + 1 \in excused' /\ UNCHANGED delivered

Next == passed' = passed + 1 /\ (Deliver \/ Lose)

Spec == Init /\ [][Next]_<<passed, delivered>>

=============================================================================
