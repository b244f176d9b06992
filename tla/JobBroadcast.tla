---------------------------- MODULE JobBroadcast ----------------------------
(***************************************************************************)
(* How a job travels from the pools to the mining threads.                 *)
(*                                                                         *)
(* Each side's network thread replaces the global job (devJob) when a      *)
(* message of its pool arrives, then flags the side as connected, counts   *)
(* its height up and bumps jobCounter, the one variable a mining thread    *)
(* compares on every hash.  A thread that finds it changed copies both     *)
(* jobs and the counter under the mutex, decodes the copies into its own   *)
(* work buffers and mines until the counter changes again.                 *)
(*                                                                         *)
(* A job is named by its number.  Every step is one access to the shared   *)
(* state; jobCounter++ on a plain int is a load and a store.               *)
(***************************************************************************)
EXTENDS Integers

CONSTANTS
  Miners,       \* mining threads
  Pools,        \* the sides whose pool can be reached: "user", "dev" or both
  Protocols,    \* the protocols, with their handlers and miner loops, considered
  MaxJobs,      \* bound: jobs a pool sends
  MaxCounter    \* bound: a change of difficulty bumps jobCounter only below it

Sides        == {"user", "dev"}
AllProtocols == {"spectre", "xelis", "getwork", "rx0", "dero"}
None         == "none"
NoJob        == 0
Forgotten    == -1     \* localJobCounter and the local heights after an exception

ASSUME BroadcastAssumption ==
  /\ Miners \cap (Sides \cup {None}) = {}
  /\ Pools \subseteq Sides
  /\ Protocols \subseteq AllProtocols
  /\ {MaxJobs, MaxCounter} \subseteq Nat

VARIABLES
  protocol,    \* the one that runs, chosen at the start
  retargets,   \* the sides whose pool changes the difficulty, chosen at the start
  mutex,       \* the side or miner holding it, or None
  job,         \* per side: job, devJob
  connected,   \* per side: isConnected, devConnected
  height,      \* per side: ourHeight, devHeight
  jobCounter,
  netPc,       \* per side: which assignment of a handler comes next
  loaded,      \* per side: jobCounter as loaded by jobCounter++
  minerPc,     \* per miner: where it is
  seen,        \* per miner: localJobCounter
  myJob,       \* per miner and side: myJob, myJobDev
  work,        \* per miner and side: the job its work, devWork was decoded from
  myHeight,    \* per miner and side: localOurHeight, localDevHeight
  side,        \* per miner: whether it mines for the user or for dev
  buffer       \* per miner: whose work it hashes

\* The job handlers hold the mutex.
LocksJobs == protocol \in {"spectre", "rx0"}
\* The handlers of both sides hold wsMutex, which the miners do not take.
LocksSides == protocol = "xelis"
\* The handler takes the mutex after it has replaced the job.
LocksLate == protocol = "getwork"
\* The miners decode a job only when its side's height has changed.
DecodesByHeight == protocol \in {"spectre", "xelis", "getwork"}
\* The first message of a session is a login: it carries a job and flags the
\* side, and bumps nothing; the later ones do not flag.
FlagsAtLogin == protocol = "rx0"
\* set_difficulty bumps jobCounter, without the mutex.
DifficultyBumps == protocol = "spectre"
\* set_extranonce rewrites the job as a new one does, but does not flag.
ExtraNonceRewrites == protocol = "xelis"
\* The length of the dev job is read although the dev side is not connected.
NeedsDevJob == protocol = "rx0"

\* What is chosen at the start belongs to both tuples: no step changes it.
netVars   == <<protocol, retargets, job, connected, height, jobCounter, netPc, loaded>>
minerVars == <<protocol, retargets, minerPc, seen, myJob, work, myHeight, side, buffer>>
vars      == <<mutex, netVars, minerVars>>

NetPcs   == {"idle", "replace", "lock", "height", "flag", "load", "store"}
MinerPcs == {"wait", "copy", "copyDev", "copyCounter", "decode", "record",
             "decodeDev", "recordDev", "mine", "buffer", "hash", "check", "submit", "outer"}

TypeOK ==
  /\ protocol \in Protocols
  /\ retargets \in SUBSET Sides
  /\ mutex \in Sides \cup Miners \cup {None}
  /\ job \in [Sides -> Nat]
  /\ connected \in [Sides -> BOOLEAN]
  /\ height \in [Sides -> Nat]
  /\ jobCounter \in Nat
  /\ netPc \in [Sides -> NetPcs]
  /\ loaded \in [Sides -> Nat]
  /\ minerPc \in [Miners -> MinerPcs]
  /\ seen \in [Miners -> Int]
  /\ myJob \in [Miners -> [Sides -> Nat]]
  /\ work \in [Miners -> [Sides -> Nat]]
  /\ myHeight \in [Miners -> [Sides -> Int]]
  /\ side \in [Miners -> Sides]
  /\ buffer \in [Miners -> Sides]

Init ==
  /\ protocol \in Protocols
  /\ retargets \in SUBSET (IF DifficultyBumps THEN Pools ELSE {})
  /\ mutex = None
  /\ job = [s \in Sides |-> NoJob]
  /\ connected = [s \in Sides |-> FALSE]
  /\ height = [s \in Sides |-> 0]
  /\ jobCounter = 0
  /\ netPc = [s \in Sides |-> "idle"]
  /\ loaded = [s \in Sides |-> 0]
  /\ minerPc = [m \in Miners |-> "wait"]
  /\ seen = [m \in Miners |-> 0]
  /\ myJob = [m \in Miners |-> [s \in Sides |-> NoJob]]
  /\ work = [m \in Miners |-> [s \in Sides |-> NoJob]]
  /\ myHeight = [m \in Miners |-> [s \in Sides |-> 0]]
  /\ side = [m \in Miners |-> "user"]
  /\ buffer = [m \in Miners |-> "user"]

-----------------------------------------------------------------------------
(* The network thread of side s. *)

NetGoes(s, from, to) ==
  /\ netPc[s] = from
  /\ netPc' = [netPc EXCEPT ![s] = to]

\* Mutant: the handler does not take the mutex.
ReceiveUnlocked(s) ==
  /\ job[s] < MaxJobs
  /\ s = "user" /\ ~connected[s] => \A m \in Miners : minerPc[m] = "wait"
  /\ NetGoes(s, "idle", "replace")
  /\ UNCHANGED <<mutex, job, connected, height, jobCounter, loaded, minerVars>>

\* A message with a job arrives: its handler takes its lock.  A lost user
\* connection is made again only after 10 s, when every miner has noticed.
Receive(s) ==
  /\ job[s] < MaxJobs
  /\ s = "user" /\ ~connected[s] => \A m \in Miners : minerPc[m] = "wait"
  /\ IF LocksJobs THEN mutex = None /\ mutex' = s ELSE UNCHANGED mutex
  /\ LocksSides => \A t \in Sides : netPc[t] = "idle"
  /\ NetGoes(s, "idle", "replace")
  /\ UNCHANGED <<job, connected, height, jobCounter, loaded, minerVars>>

\* (*J) = the new job.
ReplaceJob(s) ==
  /\ \/ LocksLate /\ NetGoes(s, "replace", "lock")
     \/ ~LocksLate /\ ~(FlagsAtLogin /\ connected[s]) /\ NetGoes(s, "replace", "flag")
     \/ ((FlagsAtLogin /\ connected[s]) \/ ExtraNonceRewrites) /\ NetGoes(s, "replace", "height")
  /\ job' = [job EXCEPT ![s] = @ + 1]
  /\ UNCHANGED <<mutex, connected, height, jobCounter, loaded, minerVars>>

\* scoped_lock(mutex), once the job is there.
LockLate(s) ==
  /\ mutex = None
  /\ mutex' = s
  /\ NetGoes(s, "lock", "height")
  /\ UNCHANGED <<job, connected, height, jobCounter, loaded, minerVars>>

\* *C = true.  A login's handler ends here.
FlagConnected(s) ==
  /\ NetGoes(s, "flag", CASE FlagsAtLogin -> "idle"
                          [] DecodesByHeight /\ ~LocksLate -> "height"
                          [] OTHER -> "load")
  /\ connected' = [connected EXCEPT ![s] = TRUE]
  /\ mutex' = IF FlagsAtLogin THEN None ELSE mutex
  /\ UNCHANGED <<job, height, jobCounter, loaded, minerVars>>

\* (*h)++.  (Dero assigns the node's height, which its miners do not look at.)
CountHeight(s) ==
  /\ NetGoes(s, "height", IF LocksLate THEN "flag" ELSE "load")
  /\ height' = [height EXCEPT ![s] = @ + 1]
  /\ UNCHANGED <<mutex, job, connected, jobCounter, loaded, minerVars>>

\* set_difficulty: the target is replaced and jobCounter bumped.
SetDifficulty(s) ==
  /\ s \in retargets /\ jobCounter < MaxCounter
  /\ NetGoes(s, "idle", "load")
  /\ UNCHANGED <<mutex, job, connected, height, jobCounter, loaded, minerVars>>

\* jobCounter++: the load, and the store.  The lock's scope ends.
LoadCounter(s) ==
  /\ NetGoes(s, "load", "store")
  /\ loaded' = [loaded EXCEPT ![s] = jobCounter]
  /\ UNCHANGED <<mutex, job, connected, height, jobCounter, minerVars>>

\* Mutant: the counter runs downwards.
StoreDown(s) ==
  /\ NetGoes(s, "store", "idle")
  /\ jobCounter' = loaded[s] - 1
  /\ mutex' = IF mutex = s THEN None ELSE mutex
  /\ UNCHANGED <<job, connected, height, loaded, minerVars>>

StoreCounter(s) ==
  /\ NetGoes(s, "store", "idle")
  /\ jobCounter' = loaded[s] + 1
  /\ mutex' = IF mutex = s THEN None ELSE mutex
  /\ UNCHANGED <<job, connected, height, loaded, minerVars>>

\* The session ends: setForDisconnected.
Disconnect(s) ==
  /\ netPc[s] = "idle" /\ connected[s]
  /\ connected' = [connected EXCEPT ![s] = FALSE]
  /\ UNCHANGED <<mutex, job, height, jobCounter, netPc, loaded, minerVars>>

HandlerStep(s) ==
  \/ ReplaceJob(s) \/ LockLate(s) \/ FlagConnected(s) \/ CountHeight(s)
  \/ LoadCounter(s) \/ StoreCounter(s)

-----------------------------------------------------------------------------
(* Mining thread m: taking up the jobs. *)

MinerGoes(m, from, to) ==
  /\ minerPc[m] = from
  /\ minerPc' = [minerPc EXCEPT ![m] = to]

\* After the inner loop or an exception: start over, or wait.
Again == IF connected["user"] THEN "copy" ELSE "wait"

\* An exception in the mining loop (a job or an id that is not there is read).
Throw(m, from) ==
  /\ MinerGoes(m, from, Again)
  /\ seen' = [seen EXCEPT ![m] = Forgotten]
  /\ myHeight' = [myHeight EXCEPT ![m] = [s \in Sides |-> Forgotten]]
  /\ UNCHANGED <<mutex, netVars, myJob, work, side, buffer>>

WaitForJob(m) ==
  /\ connected["user"]
  /\ MinerGoes(m, "wait", "copy")
  /\ UNCHANGED <<mutex, netVars, seen, myJob, work, myHeight, side, buffer>>

\* lockGuard(mutex); myJob = job
CopyJob(m) ==
  /\ mutex = None
  /\ mutex' = m
  /\ MinerGoes(m, "copy", "copyDev")
  /\ myJob' = [myJob EXCEPT ![m]["user"] = job["user"]]
  /\ UNCHANGED <<netVars, seen, work, myHeight, side, buffer>>

\* myJobDev = devJob
CopyDevJob(m) ==
  /\ MinerGoes(m, "copyDev", "copyCounter")
  /\ myJob' = [myJob EXCEPT ![m]["dev"] = job["dev"]]
  /\ UNCHANGED <<mutex, netVars, seen, work, myHeight, side, buffer>>

\* localJobCounter = jobCounter; the lock's scope ends.
CopyCounter(m) ==
  /\ MinerGoes(m, "copyCounter", "decode")
  /\ seen' = [seen EXCEPT ![m] = jobCounter]
  /\ mutex' = None
  /\ UNCHANGED <<netVars, myJob, work, myHeight, side, buffer>>

\* Whether the copy of s's job is to be decoded.
NewHeight(m, s) == height[s] = 0 \/ myHeight[m][s] # height[s]

\* Mutant: both sides' heights are asked for.
NoHeightOfSome == \E s \in Sides : height[s] = 0

\* ourHeight == 0 && devHeight == 0
NoHeightYet == \A s \in Sides : height[s] = 0

\* Mutant: a job is decoded into an empty buffer only.
DecodeOnce(m) ==
  \/ /\ work[m]["user"] = NoJob
     /\ MinerGoes(m, "decode", "decodeDev")
     /\ work' = [work EXCEPT ![m]["user"] = myJob[m]["user"]]
     /\ UNCHANGED <<mutex, netVars, seen, myJob, myHeight, side, buffer>>
  \/ /\ work[m]["user"] # NoJob
     /\ MinerGoes(m, "decode", "decodeDev")
     /\ UNCHANGED <<mutex, netVars, seen, myJob, work, myHeight, side, buffer>>

\* Decode the user's job, which is there once its side is connected.  Before
\* the first height, copy it again.
Decode(m) ==
  \/ /\ DecodesByHeight /\ NoHeightYet
     /\ MinerGoes(m, "decode", "copy")
     /\ UNCHANGED <<mutex, netVars, seen, myJob, work, myHeight, side, buffer>>
  \/ /\ DecodesByHeight => ~NoHeightYet /\ NewHeight(m, "user")
     /\ MinerGoes(m, "decode", IF DecodesByHeight THEN "record" ELSE "decodeDev")
     /\ work' = [work EXCEPT ![m]["user"] = myJob[m]["user"]]
     /\ UNCHANGED <<mutex, netVars, seen, myJob, myHeight, side, buffer>>
  \/ /\ DecodesByHeight /\ ~NoHeightYet /\ ~NewHeight(m, "user")
     /\ MinerGoes(m, "decode", "decodeDev")
     /\ UNCHANGED <<mutex, netVars, seen, myJob, work, myHeight, side, buffer>>

\* localOurHeight = ourHeight, localDevHeight = devHeight: read anew.
RecordHeight(m) ==
  /\ \/ /\ MinerGoes(m, "record", "decodeDev")
        /\ myHeight' = [myHeight EXCEPT ![m]["user"] = height["user"]]
     \/ /\ MinerGoes(m, "recordDev", "mine")
        /\ myHeight' = [myHeight EXCEPT ![m]["dev"] = height["dev"]]
  /\ UNCHANGED <<mutex, netVars, seen, myJob, work, side, buffer>>

\* Decode the dev job, if the dev side is connected.  Where a missing one is
\* not looked for, reading it throws.
DecodeDev(m) ==
  LET there == myJob[m]["dev"] # NoJob
      throws == ~there /\ ~DecodesByHeight /\ (connected["dev"] \/ NeedsDevJob)
      decodes == there /\ connected["dev"] /\ (DecodesByHeight => NewHeight(m, "dev"))
  IN
  \/ /\ throws
     /\ Throw(m, "decodeDev")
  \/ /\ decodes
     /\ MinerGoes(m, "decodeDev", IF DecodesByHeight THEN "recordDev" ELSE "mine")
     /\ work' = [work EXCEPT ![m]["dev"] = myJob[m]["dev"]]
     /\ UNCHANGED <<mutex, netVars, seen, myJob, myHeight, side, buffer>>
  \/ /\ ~throws /\ ~decodes
     /\ MinerGoes(m, "decodeDev", "mine")
     /\ UNCHANGED <<mutex, netVars, seen, myJob, work, myHeight, side, buffer>>

-----------------------------------------------------------------------------
(* Mining thread m: the inner loop. *)

Stale(m) == seen[m] # jobCounter

\* Whether the miners may mine for the dev: RX0's do so, whatever the dev
\* side's state, while a new dataset for the user's job is computed.
MayMineForDev ==
  \/ connected["dev"] /\ (DecodesByHeight => height["dev"] > 0)
  \/ protocol = "rx0" /\ netPc["user"] = "replace" /\ job["dev"] # NoJob

\* while (localJobCounter == jobCounter), and the choice of whom to mine for.
\* (Before the first difficulty of the side chosen, the loop begins anew, which
\* is to stay here.)
Pick(m) ==
  /\ ~Stale(m)
  /\ MinerGoes(m, "mine", "buffer")
  /\ \E s \in Sides : /\ s = "dev" => MayMineForDev
                      /\ side' = [side EXCEPT ![m] = s]
  /\ UNCHANGED <<mutex, netVars, seen, myJob, work, myHeight, buffer>>

\* WORK = (devMine && devConnected) ? devWork : work.  Where devConnected is read
\* anew, a share for the dev may be made of the user's work.
ChooseBuffer(m) ==
  /\ MinerGoes(m, "buffer", "hash")
  /\ buffer' = [buffer EXCEPT ![m] =
                  IF DecodesByHeight /\ ~connected["dev"] THEN "user" ELSE side[m]]
  /\ UNCHANGED <<mutex, netVars, seen, myJob, work, myHeight, side>>

\* The loop ends: the job is stale, or the user's connection is lost.
LeaveInner(m) ==
  /\ Stale(m) \/ ~connected["user"]
  /\ MinerGoes(m, "mine", "outer")
  /\ UNCHANGED <<mutex, netVars, seen, myJob, work, myHeight, side, buffer>>

\* One hash: nothing found, or a share, or the job has become stale meanwhile
\* (Spectre and Xelis look at the user's height too).
Hash(m) ==
  /\ IF DecodesByHeight /\ (Stale(m) \/ myHeight[m]["user"] # height["user"])
     THEN MinerGoes(m, "hash", "outer")
     ELSE MinerGoes(m, "hash", "mine") \/ MinerGoes(m, "hash", "check")
  /\ UNCHANGED <<mutex, netVars, seen, myJob, work, myHeight, side, buffer>>

\* Mutant: the heights are not compared once more.
CheckCounter(m) ==
  /\ MinerGoes(m, "check", IF Stale(m) THEN "outer" ELSE "submit")
  /\ UNCHANGED <<mutex, netVars, seen, myJob, work, myHeight, side, buffer>>

\* The last look before a share is handed over.
Check(m) ==
  /\ MinerGoes(m, "check",
       IF Stale(m) \/ (DecodesByHeight /\ myHeight[m][side[m]] # height[side[m]])
       THEN "outer" ELSE "submit")
  /\ UNCHANGED <<mutex, netVars, seen, myJob, work, myHeight, side, buffer>>

\* A share is filled in: the nonce found on work, the job id of myJob (reading
\* one that is not there throws).  How it is sent is ShareHandoff's concern.
Submit(m) ==
  \/ /\ myJob[m][side[m]] = NoJob
     /\ Throw(m, "submit")
  \/ /\ myJob[m][side[m]] # NoJob
     /\ MinerGoes(m, "submit", "mine")
     /\ UNCHANGED <<mutex, netVars, seen, myJob, work, myHeight, side, buffer>>

Outer(m) ==
  /\ MinerGoes(m, "outer", Again)
  /\ UNCHANGED <<mutex, netVars, seen, myJob, work, myHeight, side, buffer>>

MinerStep(m) ==
  \/ WaitForJob(m) \/ CopyJob(m) \/ CopyDevJob(m) \/ CopyCounter(m)
  \/ Decode(m) \/ RecordHeight(m) \/ DecodeDev(m)
  \/ Pick(m) \/ ChooseBuffer(m) \/ LeaveInner(m)
  \/ Hash(m) \/ Check(m) \/ Submit(m) \/ Outer(m)

-----------------------------------------------------------------------------
Next ==
  \/ \E s \in Pools : Receive(s) \/ SetDifficulty(s) \/ Disconnect(s) \/ HandlerStep(s)
  \/ \E m \in Miners : MinerStep(m)

Spec == Init /\ [][Next]_vars

\* Every thread runs on; the mutex is not withheld from a miner for ever.  The
\* pools owe nothing.
Fairness ==
  /\ \A s \in Sides : WF_vars(HandlerStep(s))
  /\ \A m \in Miners : WF_vars(MinerStep(m)) /\ SF_vars(CopyJob(m))

FairSpec == Spec /\ Fairness

-----------------------------------------------------------------------------
(* Properties. *)

\* The job a miner's share was found on.
FoundOn(m) == work[m][buffer[m]]

\* The job id a user's share is submitted under is that of the job the share
\* was found on.
UserShareNamesItsJob ==
  \A m \in Miners :
    minerPc[m] = "submit" /\ side[m] = "user" => FoundOn(m) = myJob[m]["user"]

\* So it is where every copied job is decoded (RX0 and Dero).
DecodedShareNamesItsJob == ~DecodesByHeight => UserShareNamesItsJob

\* A miner that sees no change has the latest job of either side, unless the
\* handler of the next one is at work: no job is overlooked, where the handlers
\* hold the mutex and no change of difficulty bumps the counter without it.  The
\* dev's only where a login bumps the counter too.
Unaware(m) ==
  /\ minerPc[m] \in {"mine", "buffer", "hash", "check", "submit"}
  /\ ~Stale(m)

CounterIsLocked == LocksJobs /\ retargets = {}

Announced == IF FlagsAtLogin THEN {"user"} ELSE Sides

NoMissedJob ==
  CounterIsLocked =>
    \A m \in Miners, s \in Announced :
      Unaware(m) /\ netPc[s] \in {"idle", "replace"} => myJob[m][s] = job[s]

\* A side may be flagged as connected before a miner has decoded a job of it:
\* where the heights are compared, no share is made of a buffer that was never
\* filled.
DecodedBeforeShare ==
  DecodesByHeight =>
    \A m \in Miners : minerPc[m] = "submit" => FoundOn(m) # NoJob

\* While the user's pool is connected the miners hash for it ("lost connection
\* to dev node (mining will continue)").  RX0's do not without a dev job.
MiningContinues ==
  \A m \in Miners :
    connected["user"] /\ protocol # "rx0" ~> (minerPc[m] = "mine" \/ ~connected["user"])

=============================================================================
