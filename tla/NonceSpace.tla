---------------------------- MODULE NonceSpace -----------------------------
(***************************************************************************)
(* Which nonces the mining threads try.                                    *)
(*                                                                         *)
(* A nonce holds the thread's number and a counter: the thread's own for   *)
(* Dero, RX0 and Xelis, reset in each round or with the work, one for all  *)
(* threads for Spectre and Astrix, counted up without synchronisation and  *)
(* reset by the job handler, and by each thread that decodes (Astrix).     *)
(* The fields' widths are parameters, and so is the number of hashes that  *)
(* Dero computes at once.  The random byte between the two in the nonces   *)
(* of Xelis, Spectre and Astrix is left out: it can only tell more apart.  *)
(* So is the pool's extra nonce, which leaves less room for their counter. *)
(***************************************************************************)
EXTENDS Integers, FiniteSets

CONSTANTS
  Protocols,    \* a subset of AllProtocols
  Threads,      \* the threads' numbers
  TidSize,      \* room for the thread (2^8, 2^11, 2^16)
  CounterSize,  \* room for the counter (2^32, 2^21, 2^40)
  Batch,        \* DERO_BATCH
  MaxOwn,       \* bound: a thread's own counter
  MaxShared     \* bound: a shared counter

AllProtocols == {"dero", "rx0", "xelis", "spectre", "astrix"}
Sides        == {"user", "dev"}

ASSUME NonceAssumption ==
  /\ Protocols \subseteq AllProtocols
  /\ TidSize \in Nat \ {0} /\ CounterSize \in Nat \ {0}
  /\ Threads \subseteq 1..(TidSize - 1)
  /\ Batch \in Nat \ {0}
  /\ MaxOwn \in Nat /\ MaxShared \in Nat

VARIABLES
  protocol,
  shared,    \* per side: nonce0, nonce0_dev
  own,       \* per thread and side: nonce; userNonce, devNonce; i, i_dev
  pc,        \* per thread, as it counts nonce0 up: "load", "store" or "draw"
  loaded,    \* per thread: the value read
  side,      \* per thread: whom it hashes for
  hashed     \* per thread and side: the nonces tried since its counter was reset

vars == <<protocol, shared, own, pc, loaded, side, hashed>>

Shares   == protocol \in {"spectre", "astrix"}

\* Dero counts for both sides at once.
Counter(s) == IF protocol = "dero" THEN "user" ELSE s

TypeOK ==
  /\ protocol \in Protocols
  /\ shared \in [Sides -> Nat]
  /\ own \in [Threads -> [Sides -> Nat]]
  /\ pc \in [Threads -> {"load", "store", "draw"}]
  /\ loaded \in [Threads -> Nat]
  /\ side \in [Threads -> Sides]
  /\ hashed \in [Threads -> [Sides -> SUBSET Nat]]

Init ==
  /\ protocol \in Protocols
  /\ shared = [s \in Sides |-> 0]
  /\ own = [m \in Threads |-> [s \in Sides |-> 0]]
  /\ pc = [m \in Threads |-> "load"]
  /\ loaded = [m \in Threads |-> 0]
  /\ side = [m \in Threads |-> "user"]
  /\ hashed = [m \in Threads |-> [s \in Sides |-> {}]]

-----------------------------------------------------------------------------
(* The nonce, from a counter's value. *)

\* Mutant: RX0's counter is shifted by a bit less.
NarrowNonce(m, c, k) ==
  CASE protocol = "dero" -> TidSize * ((c + k) % CounterSize) + (m % TidSize)
    [] protocol = "rx0"  -> ((TidSize \div 2) * c + m) % (CounterSize * TidSize)
    [] OTHER             -> TidSize * (c % CounterSize) + ((m - 1) % TidSize)

\* Dero: the k-th of a batch; RX0: nonce << 11 | tid; the others likewise, from 0.
Nonce(m, c, k) ==
  CASE protocol = "dero" -> TidSize * ((c + k) % CounterSize) + (m % TidSize)
    [] protocol = "rx0"  -> (TidSize * c + m) % (CounterSize * TidSize)
    [] OTHER             -> TidSize * (c % CounterSize) + ((m - 1) % TidSize)

Tries(m, s, c) ==
  LET batch == IF protocol = "dero" THEN Batch ELSE 1
  IN  hashed' = [hashed EXCEPT ![m][Counter(s)] =
                   @ \cup {Nonce(m, c, k) : k \in 0..(batch - 1)}]

-----------------------------------------------------------------------------
(* Dero, RX0, Xelis: a counter per thread. *)

\* Mutant: Dero's counter goes up by one hash.
SingleStep == 1

\* nonce += DERO_BATCH; nonce++
Step == IF protocol = "dero" THEN Batch ELSE 1

Count(m, s) ==
  /\ ~Shares
  /\ own[m][Counter(s)] + Step <= MaxOwn
  /\ own' = [own EXCEPT ![m][Counter(s)] = @ + Step]
  /\ Tries(m, s, own[m][Counter(s)] + Step)
  /\ UNCHANGED <<protocol, shared, pc, loaded, side>>

\* The sides whose counter a new round resets: RX0's and Dero's in any case,
\* Xelis' where the work was decoded.
Resets == IF protocol = "xelis" THEN SUBSET Sides ELSE {Sides}

\* Mutant: the counter restarts at -1.
RestartBelow(m) ==
  /\ ~Shares
  /\ \E R \in Resets :
       /\ own' = [own EXCEPT ![m] = [s \in Sides |-> IF s \in R THEN -1 ELSE @[s]]]
       /\ hashed' = [hashed EXCEPT ![m] = [s \in Sides |-> IF s \in R THEN {} ELSE @[s]]]
  /\ UNCHANGED <<protocol, shared, pc, loaded, side>>

NewRound(m) ==
  /\ ~Shares
  /\ \E R \in Resets :
       /\ own' = [own EXCEPT ![m] = [s \in Sides |-> IF s \in R THEN 0 ELSE @[s]]]
       /\ hashed' = [hashed EXCEPT ![m] = [s \in Sides |-> IF s \in R THEN {} ELSE @[s]]]
  /\ UNCHANGED <<protocol, shared, pc, loaded, side>>

-----------------------------------------------------------------------------
(* Spectre, Astrix: a counter for all. *)

\* (*nonce)++ is a load ...
Load(m, s) ==
  /\ Shares
  /\ pc[m] = "load" /\ pc' = [pc EXCEPT ![m] = "store"]
  /\ shared[s] < MaxShared
  /\ loaded' = [loaded EXCEPT ![m] = shared[s]]
  /\ side' = [side EXCEPT ![m] = s]
  /\ UNCHANGED <<protocol, shared, own, hashed>>

\* ... and a store.
Store(m) ==
  /\ pc[m] = "store" /\ pc' = [pc EXCEPT ![m] = "draw"]
  /\ shared' = [shared EXCEPT ![side[m]] = loaded[m] + 1]
  /\ UNCHANGED <<protocol, own, loaded, side, hashed>>

\* The nonce is made of the value stored or, read again, of what is there by now.
Draw(m) ==
  /\ pc[m] = "draw" /\ pc' = [pc EXCEPT ![m] = "load"]
  /\ \E c \in {loaded[m] + 1, shared[side[m]]} : Tries(m, side[m], c)
  /\ loaded' = [loaded EXCEPT ![m] = 0] /\ side' = [side EXCEPT ![m] = "user"]
  /\ UNCHANGED <<protocol, shared, own>>

\* The handler, when the header is another.
ResetByHandler(s) ==
  /\ Shares
  /\ shared' = [shared EXCEPT ![s] = 0]
  /\ UNCHANGED <<protocol, own, pc, loaded, side, hashed>>

\* Astrix: each thread as it decodes.
ResetByMiner(m, s) ==
  /\ protocol = "astrix"
  /\ pc[m] = "load"
  /\ shared' = [shared EXCEPT ![s] = 0]
  /\ UNCHANGED <<protocol, own, pc, loaded, side, hashed>>

-----------------------------------------------------------------------------
Next ==
  \/ \E m \in Threads, s \in Sides : Count(m, s) \/ Load(m, s) \/ ResetByMiner(m, s)
  \/ \E m \in Threads : NewRound(m) \/ Store(m) \/ Draw(m)
  \/ \E s \in Sides : ResetByHandler(s)

Spec == Init /\ [][Next]_vars

-----------------------------------------------------------------------------
(* Properties. *)

\* Two threads never try the same nonce: not with counters that run apart, nor with one
\* that they count up at once, that is reset under them or runs over.
NoSharedNonce ==
  \A m, n \in Threads, s \in Sides :
    m # n => hashed[m][s] \cap hashed[n][s] = {}

\* With a counter of its own a thread tries each nonce of its work once, until the
\* counter's room is used up.
NewNonceEachTime ==
  ~Shares => \A m \in Threads, s \in Sides :
               own[m][s] <= CounterSize => Cardinality(hashed[m][s]) = own[m][s]

=============================================================================
