---------------------------- MODULE SubmitPermits ----------------------------
(***************************************************************************)
(* What is left of the share hand-off with any number of miners, on both   *)
(* sides, through tear-downs: a permit for one submission per side.  Each  *)
(* share that a miner hands over may grant it, or find it granted; it may  *)
(* be lost; and a submission uses it up.                                   *)
(***************************************************************************)
EXTENDS Integers

CONSTANT Sides

VARIABLES
  permits,    \* the sides that may submit
  granted,    \* per side: times a miner granted it
  submitted   \* per side: submissions

Init ==
  /\ permits = {}
  /\ granted = [s \in Sides |-> 0]
  /\ submitted = [s \in Sides |-> 0]

\* Two miners may grant the same permit, and a grant may come to nothing.
Grant(s) ==
  /\ granted' = [granted EXCEPT ![s] = @ + 1]
  /\ permits' \in {permits, permits \cup {s}}
  /\ UNCHANGED submitted

Lose(s) ==
  /\ permits' = permits \ {s}
  /\ UNCHANGED <<granted, submitted>>

Submit(s) ==
  /\ s \in permits
  /\ permits' = permits \ {s}
  /\ submitted' = [submitted EXCEPT ![s] = @ + 1]
  /\ UNCHANGED granted

Next == \E s \in Sides : Grant(s) \/ Lose(s) \/ Submit(s)

Spec == Init /\ [][Next]_<<permits, granted, submitted>>

=============================================================================
