--------------------------- MODULE HashRateProofs ---------------------------
(***************************************************************************)
(* For any window and any number of hashes: none is counted twice, and the *)
(* window stays within its room.                                           *)
(***************************************************************************)
EXTENDS HashRate, FiniteSetTheorems, TLAPS

-----------------------------------------------------------------------------
(* The hashes in a window. *)

\* There are finitely many.
LEMMA TotalType ==
  ASSUME NEW s \in Seq(0..MaxHashes)
  PROVE  IsFiniteSet(Entries(s)) /\ Total(s) \in Nat
<1> USE HashRateAssumption
<1>1. IsFiniteSet(1..Len(s)) /\ IsFiniteSet(1..MaxHashes)
  BY FS_Interval
<1>2. IsFiniteSet((1..Len(s)) \X (1..MaxHashes))
  BY <1>1, FS_Product
<1>3. Entries(s) \in SUBSET ((1..Len(s)) \X (1..MaxHashes))
  BY DEF Entries
<1> QED
  BY <1>2, <1>3, FS_Subset, FS_CardinalityType DEF Total

\* None in an empty one.
LEMMA TotalEmpty == Total(<<>>) = 0
<1>1. Entries(<<>>) = {}
  BY DEF Entries
<1> QED
  BY <1>1, FS_EmptySet DEF Total

\* An entry adds what it counts.
LEMMA TotalAppend ==
  ASSUME NEW s \in Seq(0..MaxHashes), NEW x \in 0..MaxHashes
  PROVE  Total(Append(s, x)) = Total(s) + x
<1> USE HashRateAssumption
<1> DEFINE n == Len(s) + 1
           new == {n} \X (1..x)
           t == Append(s, x)
<1>1. t \in Seq(0..MaxHashes) /\ Len(t) = n /\ t[n] = x /\ \A i \in 1..Len(s) : t[i] = s[i]
  OBVIOUS
<1>2. Len(s) \in Nat /\ \A i \in 1..Len(s) : s[i] \in 0..MaxHashes
  OBVIOUS
<1>3. Entries(t) = Entries(s) \cup new
  <2> HIDE DEF t
  <2>1. ASSUME NEW i \in Int, NEW k \in Int
        PROVE  <<i, k>> \in Entries(t) <=> <<i, k>> \in Entries(s) \cup new
    BY <1>1, <1>2 DEF Entries
  <2>2. \A p \in Entries(t) : p = <<p[1], p[2]>> /\ p[1] \in Int /\ p[2] \in Int
    BY DEF Entries
  <2>3. \A p \in Entries(s) \cup new : p = <<p[1], p[2]>> /\ p[1] \in Int /\ p[2] \in Int
    BY <1>2 DEF Entries
  <2> QED
    BY <2>1, <2>2, <2>3
<1>4. Entries(s) \cap new = {}
  BY <1>2 DEF Entries
<1>5. IsFiniteSet(new) /\ Cardinality(new) = x
  <2>1. IsFiniteSet({n}) /\ Cardinality({n}) = 1
    BY FS_Singleton
  <2>2. IsFiniteSet(1..x) /\ Cardinality(1..x) = x
    <3>1. x \in Int /\ 1 \in Int /\ (IF 1 > x THEN 0 ELSE x - 1 + 1) = x
      OBVIOUS
    <3> QED
      BY <3>1, FS_Interval
  <2>3. IsFiniteSet(new) /\ Cardinality(new) = Cardinality({n}) * Cardinality(1..x)
    BY <2>1, <2>2, FS_Product
  <2> QED
    BY <2>1, <2>2, <2>3
<1>6. Cardinality(Entries(s) \cap new) = 0
  BY <1>4, FS_EmptySet
<1>7. IsFiniteSet(Entries(s)) /\ Cardinality(Entries(s)) \in Nat
  BY TotalType DEF Total
<1> HIDE DEF new, t
<1>8. Cardinality(Entries(s) \cup new) = Cardinality(Entries(s)) + x - 0
  BY <1>5, <1>6, <1>7, FS_Union
<1> QED
  BY <1>3, <1>7, <1>8 DEF Total, t

\* To erase the first entry adds nothing.
LEMMA TotalTail ==
  ASSUME NEW s \in Seq(0..MaxHashes), s # <<>>
  PROVE  Total(Tail(s)) <= Total(s)
<1> USE HashRateAssumption
<1> DEFINE t == Tail(s)
           f == [p \in Entries(t) |-> <<p[1] + 1, p[2]>>]
<1>1. t \in Seq(0..MaxHashes) /\ Len(t) = Len(s) - 1 /\ \A i \in 1..Len(t) : t[i] = s[i + 1]
  OBVIOUS
<1>2. Len(s) \in Nat /\ Len(t) \in Nat
  OBVIOUS
<1> HIDE DEF t
<1>3. ASSUME NEW p \in Entries(t)
      PROVE  /\ p[1] \in 1..Len(t) /\ p[2] \in 1..MaxHashes /\ p = <<p[1], p[2]>>
             /\ p[1] \in Int /\ <<p[1] + 1, p[2]>> \in Entries(s)
  <2> DEFINE i == p[1]
  <2>1. /\ i \in 1..Len(t) /\ p[2] \in 1..MaxHashes /\ p = <<p[1], p[2]>>
        /\ p[2] <= t[i]
    BY DEF Entries
  <2>2. i \in Int /\ i + 1 \in 1..Len(s)
    <3>1. Len(t) = Len(s) - 1 /\ Len(s) \in Nat /\ i \in 1..Len(t)
      BY <1>1, <1>2, <2>1
    <3> HIDE DEF i
    <3> QED
      BY <3>1
  <2>3. t[i] = s[i + 1]
    BY <1>1, <2>1
  <2> QED
    BY <2>1, <2>2, <2>3 DEF Entries
<1>4. f \in [Entries(t) -> Entries(s)]
  BY <1>3
<1>5. ASSUME NEW p \in Entries(t), NEW q \in Entries(t), f[p] = f[q]
      PROVE  p = q
  <2>1. <<p[1] + 1, p[2]>> = <<q[1] + 1, q[2]>>
    BY <1>5
  <2>2. p[1] \in Int /\ q[1] \in Int
    BY <1>3
  <2>3. p[1] = q[1]
    BY <2>1, <2>2
  <2> QED
    BY <1>3, <2>1, <2>3
<1>6. f \in Injection(Entries(t), Entries(s))
  BY <1>4, <1>5 DEF Injection, IsInjective
<1>7. IsFiniteSet(Entries(s))
  BY TotalType
<1> HIDE DEF f
<1> QED
  BY <1>6, <1>7, FS_Injection DEF Total, t

-----------------------------------------------------------------------------
(* The invariant. *)

\* What the timer has in hand, besides the counter and the window.
Taken == IF pc \in {"room", "erase", "push"} THEN loaded ELSE 0

\* Between the load and the store, the timer's number is still in the counter: what is
\* counted meanwhile is lost with the store.  An entry is erased before one is pushed.
Counted ==
  /\ Total(rate) + Taken + counter <= hashed
  /\ pc = "reset" => loaded <= counter
  /\ pc = "push" => Len(rate) <= Window

Inv == TypeOK /\ Counted

LEMMA InvInit == Init => Inv
<1> SUFFICES ASSUME Init PROVE Inv
  OBVIOUS
<1>1. TypeOK
  <2>1. <<>> \in Seq(0..MaxHashes) /\ Len(<<>>) = 0
    OBVIOUS
  <2>2. mining \in BOOLEAN /\ short \in BOOLEAN /\ alive \in BOOLEAN
    BY DEF Init
  <2> QED
    BY <2>1, <2>2, HashRateAssumption DEF Init, TypeOK, Points
<1>2. Counted
  <2>1. rate = <<>> /\ Total(rate) = 0
    BY TotalEmpty DEF Init
  <2> QED
    BY <2>1, HashRateAssumption DEF Init, Counted, Taken
<1> QED
  BY <1>1, <1>2 DEF Inv

\* Connections, miners and the server leave the timer alone; the window may be
\* cleared at any time.
LEMMA InvOthers ==
  ASSUME Inv, \/ Connect \/ Lose \/ ClearWindow \/ StartMining \/ StopMining \/ Hash
              \/ StatsOfNothing
  PROVE  Inv'
<1> USE HashRateAssumption DEF Inv, TypeOK, Counted, Taken, Points
<1>1. Total(rate) \in Nat
  BY TotalType
<1>2. CASE Connect \/ Lose \/ StartMining \/ StopMining \/ StatsOfNothing
  BY <1>1, <1>2 DEF Connect, Lose, StartMining, StopMining, StatsOfNothing
<1>3. CASE ClearWindow
  <2>1. rate' = <<>>
    BY <1>3 DEF ClearWindow
  <2>2. Total(rate') = 0 /\ Len(rate') = 0 /\ rate' \in Seq(0..MaxHashes)
    BY <2>1, TotalEmpty
  <2>3. net' = "login" /\ short' \in BOOLEAN /\ UNCHANGED <<mining, counter, pc, loaded, alive, hashed>>
    BY <1>3 DEF ClearWindow
  <2>4. TypeOK'
    BY <2>2, <2>3
  <2>5. Counted'
    BY <1>1, <2>2, <2>3
  <2> QED
    BY <2>4, <2>5
<1>4. CASE Hash
  BY <1>1, <1>4 DEF Hash
<1> QED
  BY <1>2, <1>3, <1>4

LEMMA InvTimer == ASSUME Inv, Timer PROVE Inv'
<1> USE HashRateAssumption DEF Inv, TypeOK, Counted, Taken, Points
<1>1. Total(rate) \in Nat
  BY TotalType
<1>2. CASE Arm \/ Expire
  BY <1>1, <1>2 DEF Arm, Expire
<1>3. CASE Take
  BY <1>1, <1>3 DEF Take
<1>4. CASE ResetCounter
  BY <1>1, <1>4 DEF ResetCounter
<1>5. CASE LookForRoom
  BY <1>1, <1>5 DEF LookForRoom
<1>6. CASE Erase
  <2>1. CASE rate # <<>>
    <3>1. rate' = Tail(rate) /\ pc' = "push" /\ UNCHANGED <<short, alive, net, mining, counter, loaded, hashed>>
      BY <1>6, <2>1 DEF Erase
    <3>2. Tail(rate) \in Seq(0..MaxHashes) /\ Len(Tail(rate)) = Len(rate) - 1
      BY <2>1
    <3>3. Total(Tail(rate)) <= Total(rate) /\ Total(Tail(rate)) \in Nat
      BY <2>1, <3>2, TotalTail, TotalType
    <3>4. pc = "erase" /\ Len(rate) \in Nat
      BY <1>6 DEF Erase
    <3> QED
      BY <1>1, <3>1, <3>2, <3>3, <3>4
  <2>2. CASE rate = <<>>
    <3>1. UNCHANGED <<rate, net, mining, counter, loaded, hashed>> /\ short' \in BOOLEAN /\ alive' \in BOOLEAN
          /\ pc = "erase" /\ pc' \in {"erase", "push"}
      BY <1>6, <2>2 DEF Erase
    <3>2. Len(rate) = 0
      BY <2>2
    <3> QED
      BY <1>1, <3>1, <3>2
  <2> QED
    BY <2>1, <2>2
<1>7. CASE Push
  <2>1. /\ pc = "push" /\ pc' = "armed" /\ loaded' = 0 /\ short' \in BOOLEAN
        /\ rate' = IF short THEN rate ELSE Append(rate, loaded)
        /\ UNCHANGED <<net, mining, counter, alive, hashed>>
    BY <1>7 DEF Push
  <2>2. CASE short
    <3>1. rate' = rate
      BY <2>1, <2>2
    <3>2. TypeOK'
      BY <2>1, <3>1
    <3>3. Counted'
      BY <1>1, <2>1, <3>1
    <3> QED
      BY <3>2, <3>3
  <2>3. CASE ~short
    <3>1. rate' \in Seq(0..MaxHashes) /\ Len(rate') = Len(rate) + 1 /\ Len(rate) \in Nat
      BY <2>1, <2>3
    <3>2. Total(rate') = Total(rate) + loaded
      BY <2>1, <2>3, TotalAppend
    <3>3. TypeOK'
      BY <2>1, <3>1
    <3>4. Counted'
      BY <1>1, <2>1, <3>1, <3>2
    <3> QED
      BY <3>3, <3>4
  <2> QED
    BY <2>2, <2>3
<1> QED
  BY <1>2, <1>3, <1>4, <1>5, <1>6, <1>7 DEF Timer

LEMMA InvNext == Inv /\ [Next]_vars => Inv'
<1> SUFFICES ASSUME Inv, [Next]_vars PROVE Inv'
  OBVIOUS
<1>1. CASE UNCHANGED vars
  BY <1>1 DEF vars, Inv, TypeOK, Counted, Taken
<1> QED
  BY <1>1, InvOthers, InvTimer DEF Next

LEMMA Invariant == Spec => []Inv
  BY InvInit, InvNext, PTL DEF Spec

-----------------------------------------------------------------------------
(* The theorems. *)

\* Every variable keeps its type: the window does not grow beyond its room, nor the
\* counter beyond the hashes made.
THEOREM TypeCorrect == Spec => []TypeOK
  BY Invariant, PTL DEF Inv

\* No hash is counted twice.
THEOREM HashesCountedOnce == Spec => []CountedOnce
<1>1. Inv => CountedOnce
  BY DEF Inv, Counted, Taken, CountedOnce
<1> QED
  BY <1>1, Invariant, PTL

=============================================================================
