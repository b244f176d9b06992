---------------------------- MODULE ShareMailbox ----------------------------
(***************************************************************************)
(* What a miner expects of the share hand-off: a mailbox for one share.    *)
(* Shares are numbered in the order they are found; the miner puts one     *)
(* when the mailbox is empty, and the submit thread takes it and sends it. *)
(***************************************************************************)
EXTENDS Integers, Sequences

CONSTANT Empty

VARIABLES
  slot,       \* the share waiting to be sent, or Empty
  delivered   \* the shares sent so far

Init == slot = Empty /\ delivered = <<>>

\* A new share: found after those already sent.
Put(share) ==
  /\ slot = Empty
  /\ \A i \in DOMAIN delivered : delivered[i] < share
  /\ slot' = share
  /\ UNCHANGED delivered

Take ==
  /\ slot # Empty
  /\ delivered' = Append(delivered, slot)
  /\ slot' = Empty

Next == Take \/ (slot' \in Nat \ {Empty} /\ Put(slot'))

Spec == Init /\ [][Next]_<<slot, delivered>>

=============================================================================
