-------------------------- MODULE NonceSpaceProofs --------------------------
(***************************************************************************)
(* For any threads and any widths: two threads never try the same nonce,   *)
(* and a thread with a counter of its own tries none twice.                *)
(* All that a thread tries leaves the same remainder by TidSize, whatever  *)
(* the counters do, and no two threads have the same.  What is left when   *)
(* the remainder is taken off is the counter, up to its room.              *)
(***************************************************************************)
EXTENDS NonceSpace, FiniteSetTheorems, TLAPS

\* The field that holds the thread's number.
Residue(m) == IF protocol \in {"dero", "rx0"} THEN m ELSE m - 1

\* What a thread has tried bears its number.
BearsNumber ==
  \A m \in Threads, s \in Sides : \A n \in hashed[m][s] : n % TidSize = Residue(m)

Inv == TypeOK /\ BearsNumber

-----------------------------------------------------------------------------
(* Arithmetic. *)

\* Division with remainder.
LEMMA Division ==
  ASSUME NEW a \in Int, NEW D \in Nat \ {0}
  PROVE  a \div D \in Int /\ a % D \in 0..(D - 1) /\ a = D * (a \div D) + (a % D)
BY Z3

\* A multiple of T plus a small r leaves r.
LEMMA Remainder ==
  ASSUME NEW T \in Nat \ {0}, NEW x \in Int, NEW r \in 0..(T - 1)
  PROVE  (T * x + r) % T = r
<1> DEFINE a == T * x + r
           q == a \div T
           y == a % T
<1>1. a \in Int /\ q \in Int /\ y \in 0..(T - 1) /\ a = T * q + y
  BY Z3
<1>2. T * (x - q) = y - r
  BY <1>1, Z3
<1>3. x - q = 0
  <2>1. CASE x - q >= 1
    <3>1. T * (x - q) >= T
      BY <1>1, <2>1, Z3
    <3> QED
      BY <1>1, <1>2, <3>1, Z3
  <2>2. CASE x - q <= -1
    <3>1. T * (x - q) <= -T
      BY <1>1, <2>2, Z3
    <3> QED
      BY <1>1, <1>2, <3>1, Z3
  <2> QED
    BY <1>1, <2>1, <2>2, Z3
<1> HIDE DEF q, y
<1>4. y = r
  BY <1>1, <1>2, <1>3, Z3
<1> QED
  BY <1>4 DEF y, a

\* Cutting off what is above a multiple of T does not change the remainder by T.
LEMMA RemainderOfCut ==
  ASSUME NEW T \in Nat \ {0}, NEW C \in Nat \ {0}, NEW x \in Nat, NEW r \in 0..(T - 1)
  PROVE  ((T * x + r) % (C * T)) % T = r /\ (T * x + r) % (C * T) \in Nat
<1> DEFINE a == T * x + r
           D == C * T
           q == a \div D
           z == a % D
<1>1. D \in Nat \ {0} /\ a \in Int
  BY Z3
<1> HIDE DEF a, D
<1>2. q \in Int /\ z \in 0..(D - 1) /\ a = D * q + z
  BY <1>1, Division
<1> HIDE DEF q, z
<1>3. z = T * (x - C * q) + r
  BY <1>2, Z3 DEF a, D
<1>4. x - C * q \in Int
  BY <1>2, Z3
<1>5. z % T = r
  BY <1>3, <1>4, Remainder
<1>6. z \in Nat
  BY <1>1, <1>2, Z3
<1> QED
  BY <1>5, <1>6 DEF z, a, D

\* A nonce bears its thread's number.
LEMMA NonceBears ==
  ASSUME TypeOK, NEW m \in Threads, NEW c \in Nat, NEW k \in Nat
  PROVE  Nonce(m, c, k) \in Nat /\ Nonce(m, c, k) % TidSize = Residue(m)
<1> USE NonceAssumption
<1>1. m \in 1..(TidSize - 1) /\ TidSize \in Nat \ {0} /\ CounterSize \in Nat \ {0}
  BY Z3
<1>2. m % TidSize = m /\ (m - 1) % TidSize = m - 1
  BY <1>1, Z3
<1>3. CASE protocol = "dero"
  <2>1. (c + k) % CounterSize \in Nat
    BY <1>1, Z3
  <2> DEFINE x == (c + k) % CounterSize
  <2> HIDE DEF x
  <2>2. Nonce(m, c, k) = TidSize * x + m
    BY <1>2, <1>3 DEF Nonce, x
  <2>3. x \in Int /\ m \in 0..(TidSize - 1) /\ TidSize * x + m \in Nat
    BY <1>1, <2>1, Z3 DEF x
  <2> QED
    BY <1>1, <1>3, <2>2, <2>3, Remainder DEF Residue
<1>4. CASE protocol = "rx0"
  <2>1. Nonce(m, c, k) = (TidSize * c + m) % (CounterSize * TidSize)
    BY <1>4 DEF Nonce
  <2>2. m \in 0..(TidSize - 1)
    BY <1>1, Z3
  <2>3. ((TidSize * c + m) % (CounterSize * TidSize)) % TidSize = m
        /\ (TidSize * c + m) % (CounterSize * TidSize) \in Nat
    BY <1>1, <2>2, RemainderOfCut
  <2>4. Residue(m) = m
    BY <1>4 DEF Residue
  <2> QED
    BY <2>1, <2>3, <2>4, Zenon
<1>5. CASE protocol \notin {"dero", "rx0"}
  <2>1. c % CounterSize \in Nat
    BY <1>1, Z3
  <2> DEFINE x == c % CounterSize
  <2> HIDE DEF x
  <2>2. Nonce(m, c, k) = TidSize * x + (m - 1)
    BY <1>2, <1>5 DEF Nonce, x
  <2>3. x \in Int /\ m - 1 \in 0..(TidSize - 1) /\ TidSize * x + (m - 1) \in Nat
    BY <1>1, <2>1, Z3 DEF x
  <2> QED
    BY <1>1, <1>5, <2>2, <2>3, Remainder DEF Residue
<1> QED
  BY <1>3, <1>4, <1>5

-----------------------------------------------------------------------------
(* The invariant. *)

\* What Tries adds are numbers that bear m's number.
LEMMA TriesOwn ==
  ASSUME Inv, UNCHANGED protocol,
         NEW m \in Threads, NEW s \in Sides, NEW c \in Nat, Tries(m, s, c)
  PROVE  /\ hashed' \in [Threads -> [Sides -> SUBSET Nat]]
         /\ BearsNumber'
<1> USE NonceAssumption DEF Inv
<1> DEFINE batch == IF protocol = "dero" THEN Batch ELSE 1
           added == {Nonce(m, c, k) : k \in 0..(batch - 1)}
<1>1. \A n \in added : n \in Nat /\ n % TidSize = Residue(m)
  BY NonceBears, Z3
<1>2. Counter(s) \in Sides
  BY DEF Counter, Sides
<1>3. hashed' = [hashed EXCEPT ![m][Counter(s)] = @ \cup added]
  BY DEF Tries
<1> HIDE DEF added
<1>4. hashed' \in [Threads -> [Sides -> SUBSET Nat]]
  BY <1>1, <1>2, <1>3 DEF TypeOK
<1>5. ASSUME NEW n \in Threads, NEW t \in Sides, NEW h \in hashed'[n][t]
      PROVE  h % TidSize = Residue(n)
  <2>1. h \in hashed[n][t] \/ (n = m /\ h \in added)
    BY <1>2, <1>3 DEF TypeOK
  <2> QED
    BY <1>1, <2>1 DEF BearsNumber
<1>6. \A n \in Threads : Residue(n)' = Residue(n)
  BY DEF Residue
<1> QED
  BY <1>4, <1>5, <1>6 DEF BearsNumber

LEMMA InvInit == Init => Inv
  BY NonceAssumption DEF Init, Inv, TypeOK, BearsNumber, Sides

LEMMA InvNext == Inv /\ [Next]_vars => Inv'
<1> SUFFICES ASSUME Inv, [Next]_vars
             PROVE  Inv'
  OBVIOUS
<1> USE NonceAssumption DEF Inv
<1>0. ASSUME UNCHANGED <<protocol, hashed>> PROVE BearsNumber'
  BY <1>0 DEF BearsNumber, Residue
<1>1. ASSUME NEW m \in Threads, NEW s \in Sides, Count(m, s) PROVE Inv'
  <2>1. Step \in Nat
    BY DEF Step
  <2>2. Counter(s) \in Sides
    BY DEF Counter, Sides
  <2>3. own[m][Counter(s)] + Step \in Nat
    BY <2>1, <2>2 DEF TypeOK
  <2>4. own' \in [Threads -> [Sides -> Nat]]
    BY <1>1, <2>2, <2>3 DEF Count, TypeOK
  <2>5. UNCHANGED <<protocol, shared, pc, loaded, side>> /\ Tries(m, s, own[m][Counter(s)] + Step)
    BY <1>1 DEF Count
  <2>6. hashed' \in [Threads -> [Sides -> SUBSET Nat]] /\ BearsNumber'
    BY <2>3, <2>5, TriesOwn
  <2> QED
    BY <2>4, <2>5, <2>6 DEF TypeOK
<1>2. ASSUME NEW m \in Threads, NEW s \in Sides, Load(m, s) PROVE Inv'
  BY <1>0, <1>2 DEF Load, TypeOK
<1>3. ASSUME NEW m \in Threads, NEW s \in Sides, ResetByMiner(m, s) PROVE Inv'
  BY <1>0, <1>3 DEF ResetByMiner, TypeOK
<1>4. ASSUME NEW m \in Threads, NewRound(m) PROVE Inv'
  <2>1. PICK R \in Resets :
          /\ own' = [own EXCEPT ![m] = [s \in Sides |-> IF s \in R THEN 0 ELSE @[s]]]
          /\ hashed' = [hashed EXCEPT ![m] = [s \in Sides |-> IF s \in R THEN {} ELSE @[s]]]
    BY <1>4 DEF NewRound
  <2>2. UNCHANGED <<protocol, shared, pc, loaded, side>>
    BY <1>4 DEF NewRound
  <2>3. TypeOK'
    BY <2>1, <2>2 DEF TypeOK
  <2>4. \A n \in Threads, s \in Sides : hashed'[n][s] \subseteq hashed[n][s]
    BY <2>1 DEF TypeOK
  <2> QED
    BY <2>2, <2>3, <2>4 DEF BearsNumber, Residue
<1>5. ASSUME NEW m \in Threads, Store(m) PROVE Inv'
  BY <1>0, <1>5 DEF Store, TypeOK
<1>6. ASSUME NEW m \in Threads, Draw(m) PROVE Inv'
  <2>1. PICK c \in {loaded[m] + 1, shared[side[m]]} : Tries(m, side[m], c)
    BY <1>6 DEF Draw
  <2>2. c \in Nat /\ side[m] \in Sides
    BY <2>1 DEF TypeOK
  <2>3. UNCHANGED protocol
    BY <1>6 DEF Draw
  <2>4. hashed' \in [Threads -> [Sides -> SUBSET Nat]] /\ BearsNumber'
    BY <2>1, <2>2, <2>3, TriesOwn
  <2> QED
    BY <1>6, <2>4 DEF Draw, TypeOK, Sides
<1>7. ASSUME NEW s \in Sides, ResetByHandler(s) PROVE Inv'
  BY <1>0, <1>7 DEF ResetByHandler, TypeOK
<1>8. CASE UNCHANGED vars
  BY <1>0, <1>8 DEF vars, TypeOK
<1> QED
  BY <1>1, <1>2, <1>3, <1>4, <1>5, <1>6, <1>7, <1>8 DEF Next

LEMMA Invariant == Spec => []Inv
  BY InvInit, InvNext, PTL DEF Spec

-----------------------------------------------------------------------------
(* A counter of one's own: each nonce is new until the counter's room is used up. *)

\* The steps of the shared counter are not taken.
Unshared == ~Shares => \A m \in Threads : pc[m] = "load"

\* What a thread has tried is what the values of its counter stand for, from the
\* first one it took: with Dero the counter is at the batch's end.
Tried ==
  ~Shares => \A m \in Threads, s \in Sides :
               hashed[m][s] = {Nonce(m, x, 0) : x \in Step..(own[m][s] + Step - 1)}

\* The remainder by a multiple of T, of a number that has a small remainder by T.
LEMMA CutIsRemainder ==
  ASSUME NEW T \in Nat \ {0}, NEW C \in Nat \ {0}, NEW x \in Nat, NEW r \in 0..(T - 1)
  PROVE  (T * x + r) % (C * T) = T * (x % C) + r
<1> DEFINE q == x \div C
           z == x % C
           D == C * T
           w == T * z + r
<1>1. q \in Int /\ z \in 0..(C - 1) /\ x = C * q + z
  BY Division, Z3
<1> HIDE DEF q, z
<1>2. D \in Nat \ {0}
  BY Z3
<1>3. w \in 0..(D - 1)
  <2>1. T * z >= 0 /\ T * (C - 1 - z) >= 0
    BY <1>1, Z3
  <2>2. T * (C - 1 - z) = C * T - T - T * z
    BY <1>1, Z3
  <2>3. T * z \in Int /\ C * T \in Int
    BY <1>1, Z3
  <2> QED
    BY <2>1, <2>2, <2>3, Z3
<1>4. T * x + r = D * q + w
  BY <1>1, Z3
<1> HIDE DEF D, w
<1>5. (D * q + w) % D = w
  BY <1>1, <1>2, <1>3, Remainder
<1> QED
  BY <1>4, <1>5 DEF D, w, z

\* Two numbers less than C apart with the same remainder by C are the same.
LEMMA SameRemainder ==
  ASSUME NEW C \in Nat \ {0}, NEW x \in Nat, NEW y \in Nat,
         x - y < C, y - x < C, x % C = y % C
  PROVE  x = y
<1> DEFINE p == x \div C
           q == y \div C
           z == x % C
<1>1. p \in Int /\ q \in Int /\ z \in Int /\ x = C * p + z /\ y = C * q + z
  BY Division, Z3
<1> HIDE DEF p, q, z
<1>2. x - y = C * (p - q)
  BY <1>1, Z3
<1>3. CASE p - q >= 1
  <2>1. C * (p - q) >= C
    BY <1>1, <1>3, Z3
  <2> QED
    BY <1>1, <1>2, <2>1, Z3
<1>4. CASE p - q <= -1
  <2>1. C * (p - q) <= -C
    BY <1>1, <1>4, Z3
  <2> QED
    BY <1>1, <1>2, <2>1, Z3
<1>5. CASE p = q
  BY <1>1, <1>5, Z3
<1> QED
  BY <1>1, <1>3, <1>4, <1>5, Z3

\* Twice the same T times a plus r.
LEMMA SameMultiple ==
  ASSUME NEW T \in Nat \ {0}, NEW a \in Int, NEW b \in Int, NEW r \in Int,
         T * a + r = T * b + r
  PROVE  a = b
<1>1. T * (a - b) = 0
  BY Z3
<1>2. CASE a - b >= 1
  <2>1. T * (a - b) >= T
    BY <1>2, Z3
  <2> QED
    BY <1>1, <2>1, Z3
<1>3. CASE a - b <= -1
  <2>1. T * (a - b) <= -T
    BY <1>3, Z3
  <2> QED
    BY <1>1, <2>1, Z3
<1> QED
  BY <1>2, <1>3, Z3

\* A nonce of a thread's own counter, in one form for all protocols.
LEMMA NonceForm ==
  ASSUME NEW m \in Threads, NEW x \in Nat
  PROVE  Nonce(m, x, 0) = TidSize * (x % CounterSize) + Residue(m)
<1> USE NonceAssumption
<1>1. m \in 1..(TidSize - 1) /\ TidSize \in Nat \ {0} /\ CounterSize \in Nat \ {0}
  BY Z3
<1>2. m % TidSize = m /\ (m - 1) % TidSize = m - 1 /\ x + 0 = x
  BY <1>1, Z3
<1>3. CASE protocol = "dero"
  BY <1>2, <1>3 DEF Nonce, Residue
<1>4. CASE protocol = "rx0"
  <2>1. m \in 0..(TidSize - 1)
    BY <1>1, Z3
  <2>2. (TidSize * x + m) % (CounterSize * TidSize) = TidSize * (x % CounterSize) + m
    BY <1>1, <2>1, CutIsRemainder
  <2> QED
    BY <1>4, <2>2 DEF Nonce, Residue
<1>5. CASE protocol \notin {"dero", "rx0"}
  BY <1>2, <1>5 DEF Nonce, Residue
<1> QED
  BY <1>3, <1>4, <1>5

\* Values of the counter that are less than its room apart make different nonces.
LEMMA NoncesDiffer ==
  ASSUME NEW m \in Threads, NEW x \in Nat, NEW y \in Nat,
         x - y < CounterSize, y - x < CounterSize, Nonce(m, x, 0) = Nonce(m, y, 0)
  PROVE  x = y
<1> USE NonceAssumption
<1>1. x % CounterSize \in Int /\ y % CounterSize \in Int
  BY Z3
<1>2. Residue(m) \in Int
  BY Z3 DEF Residue
<1>3. x % CounterSize = y % CounterSize
  <2>1. TidSize * (x % CounterSize) + Residue(m) = TidSize * (y % CounterSize) + Residue(m)
    BY NonceForm
  <2> QED
    BY <1>1, <1>2, <2>1, SameMultiple
<1> QED
  BY <1>3, SameRemainder

\* What Dero tries of a batch are the next values of the counter.
LEMMA NonceOfBatch ==
  ASSUME NEW m \in Threads, NEW c \in Nat, NEW k \in Nat, protocol = "dero" \/ k = 0
  PROVE  Nonce(m, c, k) = Nonce(m, c + k, 0)
<1>1. CASE protocol = "dero"
  BY <1>1, Z3 DEF Nonce
<1>2. CASE k = 0
  BY <1>2, Z3 DEF Nonce
<1> QED
  BY <1>1, <1>2

LEMMA TriedInit == Init => Tried
<1> SUFFICES ASSUME Init, NEW m \in Threads, NEW s \in Sides
             PROVE  hashed[m][s] = {Nonce(m, x, 0) : x \in Step..(own[m][s] + Step - 1)}
  BY DEF Tried
<1>1. hashed[m][s] = {} /\ own[m][s] = 0
  BY DEF Init
<1>2. Step..(0 + Step - 1) = {}
  BY NonceAssumption, Z3 DEF Step
<1> QED
  BY <1>1, <1>2

\* Counting adds the next values.
LEMMA TriedCount ==
  ASSUME TypeOK, Tried, NEW m \in Threads, NEW s \in Sides, Count(m, s)
  PROVE  Tried'
<1> USE NonceAssumption
<1> DEFINE t == Counter(s)
           c == own[m][t]
           Values(n) == Step..(n + Step - 1)
           added == {Nonce(m, c + Step, k) : k \in 0..(Step - 1)}
<1>1. /\ ~Shares
      /\ own' = [own EXCEPT ![m][t] = @ + Step]
      /\ hashed' = [hashed EXCEPT ![m][t] = @ \cup added]
      /\ UNCHANGED protocol
  BY DEF Count, Tries, Step
<1>2. t \in Sides /\ c \in Nat /\ Step \in Nat \ {0} /\ (protocol = "dero" \/ Step = 1)
  BY DEF Counter, Sides, TypeOK, Step
<1>3. \A n \in Threads, u \in Sides : hashed[n][u] = {Nonce(n, x, 0) : x \in Values(own[n][u])}
  BY <1>1 DEF Tried
<1>4. added = {Nonce(m, x, 0) : x \in (c + Step)..(c + Step + Step - 1)}
  <2>1. ASSUME NEW k \in 0..(Step - 1)
        PROVE  /\ c + Step + k \in (c + Step)..(c + Step + Step - 1)
               /\ Nonce(m, c + Step, k) = Nonce(m, c + Step + k, 0)
    <3>1. k \in Nat /\ c + Step \in Nat /\ (protocol = "dero" \/ k = 0)
      BY <1>2, Z3
    <3>2. c + Step + k \in (c + Step)..(c + Step + Step - 1)
      BY <1>2, Z3
    <3> QED
      BY <3>1, <3>2, NonceOfBatch
  <2>2. ASSUME NEW x \in (c + Step)..(c + Step + Step - 1)
        PROVE  \E k \in 0..(Step - 1) : Nonce(m, c + Step, k) = Nonce(m, x, 0)
    <3>1. x - (c + Step) \in 0..(Step - 1) /\ c + Step + (x - (c + Step)) = x
      BY <1>2, Z3
    <3> QED
      BY <2>1, <3>1
  <2> QED
    BY <2>1, <2>2
<1>5. Values(c + Step) = Values(c) \cup (c + Step)..(c + Step + Step - 1)
  BY <1>2, Z3
<1>6. own' [m][t] = c + Step /\ hashed'[m][t] = hashed[m][t] \cup added
  BY <1>1, <1>2 DEF TypeOK
<1>7. hashed'[m][t] = {Nonce(m, x, 0) : x \in Values(own'[m][t])}
  <2> HIDE DEF t, c, Values, added
  <2>1. hashed[m][t] = {Nonce(m, x, 0) : x \in Values(c)}
    BY <1>2, <1>3 DEF c
  <2> QED
    BY <1>4, <1>5, <1>6, <2>1
<1>8. ASSUME NEW n \in Threads, NEW u \in Sides
      PROVE  hashed'[n][u] = {Nonce(n, x, 0) : x \in Values(own'[n][u])}
  <2>1. CASE n = m /\ u = t
    BY <1>7, <2>1
  <2>2. CASE ~(n = m /\ u = t)
    <3>1. own'[n][u] = own[n][u] /\ hashed'[n][u] = hashed[n][u]
      BY <1>1, <1>2, <2>2 DEF TypeOK
    <3> QED
      BY <1>3, <3>1
  <2> QED
    BY <2>1, <2>2
<1>9. Step' = Step /\ \A n \in Threads, x \in Nat : Nonce(n, x, 0)' = Nonce(n, x, 0)
  BY <1>1 DEF Step, Nonce
<1> QED
  <2>1. ASSUME NEW n \in Threads, NEW u \in Sides
        PROVE  hashed'[n][u] = {Nonce(n, x, 0)' : x \in Step'..(own'[n][u] + Step' - 1)}
    <3>1. Values(own'[n][u]) \subseteq Nat
      BY <1>2, Z3
    <3> QED
      BY <1>8, <1>9, <3>1
  <2> QED
    BY <2>1 DEF Tried

\* A new round forgets the values and what was made of them together.
LEMMA TriedNewRound ==
  ASSUME TypeOK, Tried, NEW m \in Threads, NewRound(m)
  PROVE  Tried'
<1> USE NonceAssumption
<1>1. PICK R \in Resets :
        /\ own' = [own EXCEPT ![m] = [s \in Sides |-> IF s \in R THEN 0 ELSE @[s]]]
        /\ hashed' = [hashed EXCEPT ![m] = [s \in Sides |-> IF s \in R THEN {} ELSE @[s]]]
  BY DEF NewRound
<1>2. ~Shares /\ UNCHANGED protocol
  BY DEF NewRound
<1>3. Step..(0 + Step - 1) = {}
  BY Z3 DEF Step
<1>4. ASSUME NEW n \in Threads, NEW s \in Sides
      PROVE  \/ own'[n][s] = own[n][s] /\ hashed'[n][s] = hashed[n][s]
             \/ own'[n][s] = 0 /\ hashed'[n][s] = {}
  BY <1>1 DEF TypeOK
<1>5. ASSUME NEW n \in Threads, NEW s \in Sides
      PROVE  hashed'[n][s] = {Nonce(n, x, 0) : x \in Step..(own'[n][s] + Step - 1)}
  BY <1>2, <1>3, <1>4 DEF Tried
<1> QED
  BY <1>2, <1>5 DEF Tried, Step, Nonce

LEMMA UnsharedNext == TypeOK /\ Unshared /\ [Next]_vars => Unshared'
<1> SUFFICES ASSUME TypeOK, Unshared, [Next]_vars
             PROVE  Unshared'
  OBVIOUS
<1> USE DEF TypeOK, Unshared, Shares
<1>1. ASSUME NEW m \in Threads, NEW s \in Sides, Count(m, s) \/ Load(m, s) \/ ResetByMiner(m, s)
      PROVE  Unshared'
  BY <1>1 DEF Count, Load, ResetByMiner
<1>2. ASSUME NEW m \in Threads, NewRound(m) \/ Store(m) \/ Draw(m) PROVE Unshared'
  BY <1>2 DEF NewRound, Store, Draw
<1>3. ASSUME NEW s \in Sides, ResetByHandler(s) PROVE Unshared'
  BY <1>3 DEF ResetByHandler
<1>4. CASE UNCHANGED vars
  BY <1>4 DEF vars
<1> QED
  BY <1>1, <1>2, <1>3, <1>4 DEF Next

LEMMA TriedNext == TypeOK /\ Unshared /\ Tried /\ [Next]_vars => Tried'
<1> SUFFICES ASSUME TypeOK, Unshared, Tried, [Next]_vars
             PROVE  Tried'
  OBVIOUS
<1>1. ASSUME UNCHANGED <<protocol, own, hashed>> PROVE Tried'
  BY <1>1 DEF Tried, Shares, Step, Nonce
<1>2. ASSUME NEW m \in Threads, NEW s \in Sides, Load(m, s) \/ ResetByMiner(m, s) PROVE Tried'
  BY <1>1, <1>2 DEF Load, ResetByMiner
<1>3. ASSUME NEW m \in Threads, Store(m) PROVE Tried'
  BY <1>1, <1>3 DEF Store
<1>4. ASSUME NEW m \in Threads, Draw(m) PROVE Tried'
  BY <1>4 DEF Draw, Unshared, Tried, Shares
<1>5. ASSUME NEW s \in Sides, ResetByHandler(s) PROVE Tried'
  BY <1>1, <1>5 DEF ResetByHandler
<1> QED
  BY <1>1, <1>2, <1>3, <1>4, <1>5, TriedCount, TriedNewRound DEF Next, vars

LEMMA TriedInvariant == Spec => [](TypeOK /\ Unshared /\ Tried)
<1>1. Init => Unshared
  BY DEF Init, Unshared
<1>2. Inv => TypeOK
  BY DEF Inv
<1> QED
  BY <1>1, <1>2, TriedInit, UnsharedNext, TriedNext, Invariant, PTL DEF Spec

\* As long as they all differ, there are as many as the counter says.
LEMMA TriedOnce == TypeOK /\ Tried => NewNonceEachTime
<1> USE NonceAssumption
<1> SUFFICES ASSUME TypeOK, Tried, ~Shares, NEW m \in Threads, NEW s \in Sides,
                    own[m][s] <= CounterSize
             PROVE  Cardinality(hashed[m][s]) = own[m][s]
  BY DEF NewNonceEachTime
<1> DEFINE values == Step..(own[m][s] + Step - 1)
           f == [x \in values |-> Nonce(m, x, 0)]
<1>1. own[m][s] \in Nat /\ Step \in Nat \ {0}
  BY DEF TypeOK, Step
<1>2. IsFiniteSet(values) /\ Cardinality(values) = own[m][s]
  <2>1. Step \in Int /\ own[m][s] + Step - 1 \in Int
    BY <1>1, Z3
  <2>2. (IF Step > own[m][s] + Step - 1 THEN 0 ELSE (own[m][s] + Step - 1) - Step + 1) = own[m][s]
    BY <1>1, Z3
  <2> QED
    BY <2>1, <2>2, FS_Interval
<1>3. \A x, y \in values : f[x] = f[y] => x = y
  <2> SUFFICES ASSUME NEW x \in values, NEW y \in values, f[x] = f[y]
               PROVE  x = y
    OBVIOUS
  <2>1. x \in Nat /\ y \in Nat /\ x - y < CounterSize /\ y - x < CounterSize
    BY <1>1, Z3
  <2> QED
    BY <2>1, NoncesDiffer
<1>4. hashed[m][s] = {f[x] : x \in values}
  BY DEF Tried
<1> HIDE DEF values, f
<1>5. f \in [values -> hashed[m][s]]
  <2>1. f = [x \in values |-> f[x]]
    BY DEF f
  <2> QED
    BY <1>4, <2>1
<1>6. f \in Bijection(values, hashed[m][s])
  BY <1>3, <1>4, <1>5 DEF Bijection, Injection, Surjection, IsInjective
<1>7. ExistsBijection(values, hashed[m][s])
  BY <1>6, Zenon DEF ExistsBijection
<1> QED
  BY <1>2, <1>7, FS_Bijection, Zenon

-----------------------------------------------------------------------------
(* The theorems. *)

\* Every variable keeps its type.
THEOREM TypeCorrect == Spec => []TypeOK
  BY Invariant, PTL DEF Inv

\* Two threads never try the same nonce.
THEOREM NoncesApart == Spec => []NoSharedNonce
<1>1. Inv => NoSharedNonce
  <2> SUFFICES ASSUME Inv, NEW m \in Threads, NEW n \in Threads, NEW s \in Sides, m # n
               PROVE  hashed[m][s] \cap hashed[n][s] = {}
    BY DEF NoSharedNonce
  <2>1. m \in Int /\ n \in Int
    BY NonceAssumption
  <2>2. Residue(m) # Residue(n)
    BY <2>1 DEF Residue
  <2> QED
    BY <2>2 DEF Inv, BearsNumber
<1> QED
  BY <1>1, Invariant, PTL

\* A thread with a counter of its own tries no nonce twice until the counter's
\* room is used up.
THEOREM NoncesNew == Spec => []NewNonceEachTime
  BY TriedOnce, TriedInvariant, PTL

=============================================================================
