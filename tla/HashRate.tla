----------------------------- MODULE HashRate ------------------------------
(***************************************************************************)
(* The hash rate: miners count hashes, a timer of the main thread takes    *)
(* the count once a second into the window rate30sec, the user's getWork   *)
(* clears the window when the connection is lost, and the broadcast server *)
(* divides by its length.  Nobody takes a mutex.                           *)
(*                                                                         *)
(* One miner stands for all: fetch_add is atomic.  An access to the        *)
(* window is one step; printing is left out.                               *)
(***************************************************************************)
EXTENDS Integers, Sequences, FiniteSets

CONSTANTS
  Broadcast,   \* --broadcast
  Window,      \* rate30sec grows while it has at most Window entries (30)
  MaxHashes    \* bound: hashes counted

ASSUME HashRateAssumption ==
  Broadcast \in BOOLEAN /\ Window \in Nat /\ MaxHashes \in Nat

VARIABLES
  net,       \* the user's connection: "login", "up" (isConnected), "lost"
  mining,    \* the miner is in its loop
  counter,
  pc,        \* the main thread and its timer
  loaded,    \* currentHashes
  rate,      \* rate30sec
  short,     \* an empty rate30sec was erased from: it ends before it begins
  alive,     \* the process runs
  hashed     \* history: all hashes so far

vars == <<net, mining, counter, pc, loaded, rate, short, alive, hashed>>

\* "idle": no timer is armed any more.
Points == {"off", "armed", "take", "reset", "room", "erase", "push", "idle"}

TypeOK ==
  /\ net \in {"login", "up", "lost"}
  /\ mining \in BOOLEAN
  /\ counter \in 0..MaxHashes
  /\ pc \in Points
  /\ loaded \in 0..MaxHashes
  /\ rate \in Seq(0..MaxHashes) /\ Len(rate) <= Window + 1
  /\ short \in BOOLEAN
  /\ alive \in BOOLEAN
  /\ hashed \in 0..MaxHashes

Init ==
  /\ net = "login" /\ mining = FALSE
  /\ counter = 0 /\ hashed = 0
  /\ pc = "off" /\ loaded = 0
  /\ rate = <<>> /\ short = FALSE
  /\ alive = TRUE

-----------------------------------------------------------------------------
(* Connection and miners. *)

Connect ==
  /\ alive /\ net = "login" /\ net' = "up"
  /\ UNCHANGED <<mining, counter, pc, loaded, rate, short, alive, hashed>>

Lose ==
  /\ alive /\ net = "up" /\ net' = "lost"
  /\ UNCHANGED <<mining, counter, pc, loaded, rate, short, alive, hashed>>

\* getWork, before it waits and connects again.
ClearWindow ==
  /\ alive /\ net = "lost" /\ net' = "login"
  /\ rate' = <<>> /\ short' = FALSE
  /\ UNCHANGED <<mining, counter, pc, loaded, alive, hashed>>

StartMining ==
  /\ alive /\ ~mining /\ net = "up" /\ mining' = TRUE
  /\ UNCHANGED <<net, counter, pc, loaded, rate, short, alive, hashed>>

StopMining ==
  /\ alive /\ mining /\ net # "up" /\ mining' = FALSE
  /\ UNCHANGED <<net, counter, pc, loaded, rate, short, alive, hashed>>

Hash ==
  /\ alive /\ mining /\ hashed < MaxHashes
  /\ hashed' = hashed + 1 /\ counter' = counter + 1
  /\ UNCHANGED <<net, mining, pc, loaded, rate, short, alive>>

-----------------------------------------------------------------------------
(* The timer. *)

\* main arms it for the first time.
Arm ==
  /\ alive /\ pc = "off" /\ net = "up" /\ pc' = "armed"
  /\ UNCHANGED <<net, mining, counter, loaded, rate, short, alive, hashed>>

\* Mutant: without a connection it returns before it has armed the timer again.
ExpireOnce ==
  /\ alive /\ pc = "armed"
  /\ pc' = IF net = "up" THEN "take" ELSE "idle"
  /\ UNCHANGED <<net, mining, counter, loaded, rate, short, alive, hashed>>

\* It arms the timer again, and returns where there is no connection.
Expire ==
  /\ alive /\ pc = "armed"
  /\ pc' = IF net = "up" THEN "take" ELSE "armed"
  /\ UNCHANGED <<net, mining, counter, loaded, rate, short, alive, hashed>>

Take ==
  /\ alive /\ pc = "take" /\ pc' = "reset"
  /\ loaded' = counter
  /\ UNCHANGED <<net, mining, counter, rate, short, alive, hashed>>

\* Mutant: the counter goes on.
KeepCounter ==
  /\ alive /\ pc = "reset" /\ pc' = "room"
  /\ UNCHANGED <<net, mining, counter, loaded, rate, short, alive, hashed>>

\* Whatever was counted since the load is lost.
ResetCounter ==
  /\ alive /\ pc = "reset" /\ pc' = "room"
  /\ counter' = 0
  /\ UNCHANGED <<net, mining, loaded, rate, short, alive, hashed>>

\* Mutant: the window never counts as full.
AlwaysRoom ==
  /\ alive /\ pc = "room"
  /\ pc' = "push"
  /\ UNCHANGED <<net, mining, counter, loaded, rate, short, alive, hashed>>

LookForRoom ==
  /\ alive /\ pc = "room"
  /\ pc' = IF Len(rate) <= Window THEN "push" ELSE "erase"
  /\ UNCHANGED <<net, mining, counter, loaded, rate, short, alive, hashed>>

\* getWork may have cleared the window since: to erase from an empty vector is undefined,
\* and either moves a negative number of entries, or leaves its end before its beginning.
Erase ==
  /\ alive /\ pc = "erase"
  /\ IF rate # <<>>
     THEN rate' = Tail(rate) /\ pc' = "push" /\ UNCHANGED <<short, alive>>
     ELSE /\ UNCHANGED rate
          /\ \/ alive' = FALSE /\ UNCHANGED <<pc, short>>
             \/ short' = TRUE /\ pc' = "push" /\ UNCHANGED alive
  /\ UNCHANGED <<net, mining, counter, loaded, hashed>>

Push ==
  /\ alive /\ pc = "push" /\ pc' = "armed"
  /\ rate' = IF short THEN rate ELSE Append(rate, loaded)
  /\ short' = FALSE
  /\ loaded' = 0
  /\ UNCHANGED <<net, mining, counter, alive, hashed>>

-----------------------------------------------------------------------------
\* /stats divides the integers: with no entry in the window the process ends.
StatsOfNothing ==
  /\ alive /\ Broadcast /\ rate = <<>>
  /\ alive' = FALSE
  /\ UNCHANGED <<net, mining, counter, pc, loaded, rate, short, hashed>>

Timer == Arm \/ Expire \/ Take \/ ResetCounter \/ LookForRoom \/ Erase \/ Push

Next ==
  \/ Connect \/ Lose \/ ClearWindow
  \/ StartMining \/ StopMining \/ Hash
  \/ Timer \/ StatsOfNothing

\* The operating system runs the main thread.
Spec == Init /\ [][Next]_vars /\ WF_vars(Timer)

-----------------------------------------------------------------------------
(* Properties. *)

\* The hashes that the entries of a window stand for: each is an entry's and has a
\* number in it.
Entries(s) == {p \in (1..Len(s)) \X (1..MaxHashes) : p[2] <= s[p[1]]}
Total(s)   == Cardinality(Entries(s))

\* No hash is in two entries of the window, or in the window and still to be taken, though
\* miners count while the timer takes the count by a load and a store, and the window is
\* cleared by another thread at any point.
CountedOnce ==
  LET taken == IF pc \in {"room", "erase", "push"} THEN loaded ELSE 0
  IN  pc # "reset" => Total(rate) + taken + counter <= hashed

\* Once the connection stays up and the process runs, the window gets entries again
\* however often the connection was lost before, and whatever the timer was at when the
\* window was cleared.
RateComesBack == <>[](net = "up" /\ alive) => <>[](rate # <<>>)

=============================================================================
