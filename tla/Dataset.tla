------------------------------ MODULE Dataset ------------------------------
(***************************************************************************)
(* RandomX's datasets, one per side, which the mining threads hash over    *)
(* and the network threads recompute when a job has a new seed.            *)
(*                                                                         *)
(* A stratum session recomputes inside its job handler, under the mutex    *)
(* under which the miners copy the jobs.  The solo session polls a daemon  *)
(* for templates without the mutex; its submit thread, which holds it,     *)
(* asks for one more whenever a block was accepted.  The dev side is a     *)
(* stratum session always.                                                 *)
(*                                                                         *)
(* A job is named by its seed.  Every step is one access to the shared     *)
(* state; jobCounter is bumped under the mutex only, in one step.          *)
(***************************************************************************)
EXTENDS Integers

CONSTANTS
  Miners,       \* mining threads
  Modes,        \* how the user mines: "stratum", "solo" or both
  UserSeeds,    \* the seeds of the jobs the user's side receives
  DevSeeds,     \* and the dev's
  MaxCounter    \* bound: jobs that bump jobCounter

Sides   == {"user", "dev"}
Threads == {"user", "submit", "dev"}   \* sessions, and the solo submit thread
None    == "none"
NoSeed  == 0    \* no job, or randomx_cacheKey before the first one
Torn    == -1   \* a dataset that is being written, or was by two threads at once

ASSUME DatasetAssumption ==
  /\ Miners \cap (Threads \cup {None}) = {}
  /\ Modes \subseteq {"stratum", "solo"}
  /\ UserSeeds \cup DevSeeds \subseteq Nat \ {NoSeed}
  /\ MaxCounter \in Nat

SideOf(t)  == IF t = "dev" THEN "dev" ELSE "user"
SeedsOf(t) == IF t = "dev" THEN DevSeeds ELSE UserSeeds

VARIABLES
  mode,        \* how the user mines, chosen at the start
  mutex,       \* the thread or miner that holds it, or None
  session,     \* whether a session of the user is running
  connected,   \* per side: isConnected, devConnected
  job,         \* per side: the seed of job, devJob
  jobCounter,
  cacheKey,    \* per side: randomx_cacheKey, randomx_cacheKey_dev
  ready,       \* per side: randomx_ready, randomx_ready_dev
  dataset,     \* per side: the seed rxDataset, rxDataset_dev was computed from
  mixed,       \* two threads have been writing the user's dataset at once
  pc,          \* per thread: the next step of its handler
  new,         \* per thread: the seed of the job it handles
  block,       \* a user share waits to be sent (solo)
  minerPc,     \* per miner: where it is
  seen,        \* per miner: localJobCounter
  myJob,       \* per miner: myJob, from which its work is decoded
  side         \* per miner: whom it hashes for

dataVars  == <<cacheKey, ready, dataset, mixed>>
netVars   == <<mode, session, connected, job, jobCounter, dataVars, pc, new>>
minerVars == <<mode, minerPc, seen, myJob, side>>
vars      == <<mutex, block, netVars, minerVars>>

ThreadPcs == {"idle", "replace", "compare", "begin", "build", "key",
              "raise", "replaceLate", "count", "flag"}
MinerPcs  == {"wait", "ready", "copy", "mine", "hash", "check", "outer"}

TypeOK ==
  /\ mode \in Modes
  /\ mutex \in Threads \cup Miners \cup {None}
  /\ session \in BOOLEAN
  /\ connected \in [Sides -> BOOLEAN]
  /\ job \in [Sides -> Nat]
  /\ jobCounter \in Nat
  /\ cacheKey \in [Sides -> Nat]
  /\ ready \in [Sides -> BOOLEAN]
  /\ dataset \in [Sides -> Int]
  /\ mixed \in BOOLEAN
  /\ pc \in [Threads -> ThreadPcs]
  /\ new \in [Threads -> Nat]
  /\ block \in BOOLEAN
  /\ minerPc \in [Miners -> MinerPcs]
  /\ seen \in [Miners -> Int]
  /\ myJob \in [Miners -> Nat]
  /\ side \in [Miners -> Sides]

Init ==
  /\ mode \in Modes
  /\ mutex = None
  /\ session = TRUE
  /\ connected = [s \in Sides |-> FALSE]
  /\ job = [s \in Sides |-> NoSeed]
  /\ jobCounter = 0
  /\ cacheKey = [s \in Sides |-> NoSeed]
  /\ ready = [s \in Sides |-> FALSE]
  /\ dataset = [s \in Sides |-> Torn]
  /\ mixed = FALSE
  /\ pc = [t \in Threads |-> "idle"]
  /\ new = [t \in Threads |-> NoSeed]
  /\ block = FALSE
  /\ minerPc = [m \in Miners |-> "wait"]
  /\ seen = [m \in Miners |-> 0]
  /\ myJob = [m \in Miners |-> NoSeed]
  /\ side = [m \in Miners |-> "user"]

-----------------------------------------------------------------------------
(* What the sessions receive. *)

\* Thread t is of the solo session.
Solo(t) == mode = "solo" /\ t # "dev"

Goes(t, from, to) ==
  /\ pc[t] = from
  /\ pc' = [pc EXCEPT ![t] = to]

\* The handler ends.
Returns(t, from) ==
  /\ Goes(t, from, "idle")
  /\ new' = [new EXCEPT ![t] = NoSeed]

\* Mutant: the handler does not take the mutex.
TakeUnlocked(t, to) ==
  /\ Goes(t, "idle", to)
  /\ \E n \in SeedsOf(t) : new' = [new EXCEPT ![t] = n]
  /\ UNCHANGED <<mode, mutex, session, connected, job, jobCounter, dataVars, block, minerVars>>

\* A handler takes the mutex and goes on at step to with a job.
TakeLocked(t, to) ==
  /\ mutex = None /\ mutex' = t
  /\ Goes(t, "idle", to)
  /\ \E n \in SeedsOf(t) : new' = [new EXCEPT ![t] = n]
  /\ UNCHANGED <<mode, session, connected, job, jobCounter, dataVars, block, minerVars>>

\* Stratum: a job message.
ReceiveJob(t) ==
  /\ t # "submit" /\ ~Solo(t)
  /\ SideOf(t) = "user" => session
  /\ connected[SideOf(t)]
  /\ jobCounter < MaxCounter
  /\ TakeLocked(t, "compare")

\* Stratum: the answer to the login, with a job.
ReceiveLogin(t) ==
  /\ t # "submit" /\ ~Solo(t)
  /\ SideOf(t) = "user" => session
  /\ ~connected[SideOf(t)]
  /\ TakeLocked(t, "replace")

\* Solo: every 5 s the session asks the daemon for a template.
PollTemplate ==
  /\ Solo("user") /\ session
  /\ Goes("user", "idle", "replace")
  /\ \E n \in UserSeeds : new' = [new EXCEPT !["user"] = n]
  /\ UNCHANGED <<mode, mutex, session, connected, job, jobCounter, dataVars, block, minerVars>>

\* Solo: the submit thread's block was accepted; it asks for a template while
\* it holds the mutex.
BlockAccepted ==
  /\ Solo("submit") /\ block
  /\ TakeLocked("submit", "replace")

\* The block was rejected, or the session is torn down: the flag is cleared.
BlockDropped ==
  /\ block /\ pc["submit"] = "idle" /\ mutex = None
  /\ block' = FALSE
  /\ UNCHANGED <<mutex, netVars, minerVars>>

\* setForDisconnected
Disconnect(s) ==
  /\ connected[s] /\ pc[s] = "idle"
  /\ s = "user" => session
  /\ session' = (session /\ s # "user")
  /\ connected' = [connected EXCEPT ![s] = FALSE]
  /\ UNCHANGED <<mode, mutex, job, jobCounter, dataVars, pc, new, block, minerVars>>

\* The user's submit thread has ended, getWork finds the flag down and opens
\* another session 10 s later: every miner has noticed the loss.  (The dev's
\* next session begins with its login.)
Reopen ==
  /\ ~session /\ ~connected["user"]
  /\ pc["submit"] = "idle" /\ \A m \in Miners : minerPc[m] = "wait"
  /\ session' = TRUE
  /\ UNCHANGED <<mode, mutex, connected, job, jobCounter, dataVars, pc, new, block, minerVars>>

-----------------------------------------------------------------------------
(* updateVM, and what the handlers do before and after it. *)

\* The login and the polled template replace the job first.
ReplaceJob(t) ==
  /\ Goes(t, "replace", "compare")
  /\ job' = [job EXCEPT ![SideOf(t)] = new[t]]
  /\ UNCHANGED <<mode, mutex, session, connected, jobCounter, dataVars, new, block, minerVars>>

\* A handler that is not a job message's flags its side in the end.
Login(t) == ~connected[SideOf(t)] \/ Solo(t)

\* Mutant: status is lowered before the seeds are compared.
LowerAndCompare(t) ==
  /\ \/ new[t] # cacheKey[SideOf(t)] /\ Goes(t, "compare", "begin")
     \/ /\ new[t] = cacheKey[SideOf(t)]
        /\ Goes(t, "compare", IF Login(t) THEN "flag" ELSE "replaceLate")
  /\ ready' = [ready EXCEPT ![SideOf(t)] = FALSE]
  /\ UNCHANGED <<mode, mutex, session, connected, job, jobCounter,
                 cacheKey, dataset, mixed, new, block, minerVars>>

\* Whether the job's seed is a new one.
CompareSeed(t) ==
  /\ \/ new[t] # cacheKey[SideOf(t)] /\ Goes(t, "compare", "begin")
     \/ /\ new[t] = cacheKey[SideOf(t)]
        /\ Goes(t, "compare", IF Login(t) THEN "flag" ELSE "replaceLate")
  /\ UNCHANGED <<mode, mutex, session, connected, job, jobCounter, dataVars, new, block, minerVars>>

OtherBuilds(t) ==
  \E u \in Threads \ {t} : SideOf(u) = SideOf(t) /\ pc[u] = "build"

\* status = false; randomx_update_data: from the first write to the dataset ...
BeginBuild(t) ==
  /\ Goes(t, "begin", "build")
  /\ ready' = [ready EXCEPT ![SideOf(t)] = FALSE]
  /\ dataset' = [dataset EXCEPT ![SideOf(t)] = Torn]
  /\ mixed' = (mixed \/ OtherBuilds(t))
  /\ UNCHANGED <<mode, mutex, session, connected, job, jobCounter,
                 cacheKey, new, block, minerVars>>

\* ... to the last.  What two threads leave behind may be of use or not.
EndBuild(t) ==
  LET s == SideOf(t) IN
  /\ Goes(t, "build", "key")
  /\ IF OtherBuilds(t) THEN UNCHANGED <<dataset, mixed>>
     ELSE /\ \E d \in {new[t]} \cup (IF mixed /\ s = "user" THEN {Torn} ELSE {}) :
               dataset' = [dataset EXCEPT ![s] = d]
          /\ mixed' = IF s = "user" THEN FALSE ELSE mixed
  /\ UNCHANGED <<mode, mutex, session, connected, job, jobCounter,
                 cacheKey, ready, new, block, minerVars>>

\* refKey = the seed
SetKey(t) ==
  /\ Goes(t, "key", "raise")
  /\ cacheKey' = [cacheKey EXCEPT ![SideOf(t)] = new[t]]
  /\ UNCHANGED <<mode, mutex, session, connected, job, jobCounter,
                 ready, dataset, mixed, new, block, minerVars>>

\* status = true
RaiseReady(t) ==
  /\ Goes(t, "raise", IF Login(t) THEN "flag" ELSE "replaceLate")
  /\ ready' = [ready EXCEPT ![SideOf(t)] = TRUE]
  /\ UNCHANGED <<mode, mutex, session, connected, job, jobCounter,
                 cacheKey, dataset, mixed, new, block, minerVars>>

\* A job message's job is replaced last, and counted.
ReplaceLate(t) ==
  /\ Goes(t, "replaceLate", "count")
  /\ job' = [job EXCEPT ![SideOf(t)] = new[t]]
  /\ UNCHANGED <<mode, mutex, session, connected, jobCounter, dataVars, new, block, minerVars>>

\* Mutant: the counter is left alone.
CountNothing(t) ==
  /\ Returns(t, "count")
  /\ mutex' = None
  /\ UNCHANGED <<mode, session, connected, job, jobCounter, dataVars, block, minerVars>>

\* Mutant: the counter runs the other way.
CountDown(t) ==
  /\ Returns(t, "count")
  /\ jobCounter' = jobCounter - 1
  /\ mutex' = None
  /\ UNCHANGED <<mode, session, connected, job, dataVars, block, minerVars>>

CountJob(t) ==
  /\ Returns(t, "count")
  /\ jobCounter' = jobCounter + 1
  /\ mutex' = None
  /\ UNCHANGED <<mode, session, connected, job, dataVars, block, minerVars>>

\* *C = true.  The submit thread clears its flag too, and lets go of the mutex.
FlagConnected(t) ==
  /\ Returns(t, "flag")
  /\ connected' = [connected EXCEPT ![SideOf(t)] = TRUE]
  /\ mutex' = IF mutex = t THEN None ELSE mutex
  /\ block' = (block /\ t # "submit")
  /\ UNCHANGED <<mode, session, job, jobCounter, dataVars, minerVars>>

HandlerStep(t) ==
  \/ ReplaceJob(t) \/ CompareSeed(t) \/ BeginBuild(t) \/ EndBuild(t)
  \/ SetKey(t) \/ RaiseReady(t) \/ ReplaceLate(t) \/ CountJob(t) \/ FlagConnected(t)

-----------------------------------------------------------------------------
(* Mining thread m. *)

MinerGoes(m, from, to) ==
  /\ minerPc[m] = from
  /\ minerPc' = [minerPc EXCEPT ![m] = to]

Again == IF connected["user"] THEN "ready" ELSE "wait"

Stale(m) == seen[m] # jobCounter

WaitForJob(m) ==
  /\ connected["user"]
  /\ MinerGoes(m, "wait", "ready")
  /\ UNCHANGED <<mutex, block, netVars, seen, myJob, side>>

\* while (!randomx_ready && !randomx_ready_dev)
WaitReady(m) ==
  /\ \E s \in Sides : ready[s]
  /\ MinerGoes(m, "ready", "copy")
  /\ UNCHANGED <<mutex, block, netVars, seen, myJob, side>>

\* Mutant: the copy throws while the dev's pool is not connected.
CopyIfConnected(m) ==
  /\ mutex = None
  /\ myJob' = [myJob EXCEPT ![m] = job["user"]]
  /\ \/ /\ connected["dev"]
        /\ MinerGoes(m, "copy", "mine")
        /\ seen' = [seen EXCEPT ![m] = jobCounter]
     \/ /\ ~connected["dev"]
        /\ MinerGoes(m, "copy", Again)
        /\ seen' = [seen EXCEPT ![m] = -1]
  /\ UNCHANGED <<mutex, block, netVars, side>>

\* Under the mutex: both jobs and the counter are copied.  The length of the
\* dev's job is read then, and throws where there is none.
CopyJobs(m) ==
  /\ mutex = None
  /\ myJob' = [myJob EXCEPT ![m] = job["user"]]
  /\ \/ /\ job["dev"] # NoSeed
        /\ MinerGoes(m, "copy", "mine")
        /\ seen' = [seen EXCEPT ![m] = jobCounter]
     \/ /\ job["dev"] = NoSeed
        /\ MinerGoes(m, "copy", Again)
        /\ seen' = [seen EXCEPT ![m] = -1]
  /\ UNCHANGED <<mutex, block, netVars, side>>

\* devMine: the fee's share of the hashes, or all while only the dev's dataset
\* is ready.
MayHash(s) ==
  IF ready["dev"] /\ ~ready["user"] THEN s = "dev"
  ELSE s = "user" \/ (connected["dev"] /\ ready["dev"])

\* A hash takes its time.
BeginHash(m) ==
  /\ ~Stale(m)
  /\ MinerGoes(m, "mine", "hash")
  /\ \E s \in Sides : /\ MayHash(s)
                      /\ side' = [side EXCEPT ![m] = s]
  /\ UNCHANGED <<mutex, block, netVars, seen, myJob>>

\* Nothing found, or a share.
EndHash(m) ==
  /\ MinerGoes(m, "hash", "mine") \/ MinerGoes(m, "hash", "check")
  /\ UNCHANGED <<mutex, block, netVars, seen, myJob, side>>

\* The last check for a new job; the share is handed over.
HandOver(m) ==
  /\ \/ /\ Stale(m)
        /\ MinerGoes(m, "check", "outer")
        /\ UNCHANGED block
     \/ /\ ~Stale(m)
        /\ MinerGoes(m, "check", "mine")
        /\ block' = (block \/ (side[m] = "user" /\ mode = "solo"))
  /\ UNCHANGED <<mutex, netVars, seen, myJob, side>>

LeaveInner(m) ==
  /\ Stale(m) \/ ~connected["user"]
  /\ MinerGoes(m, "mine", "outer")
  /\ UNCHANGED <<mutex, block, netVars, seen, myJob, side>>

Outer(m) ==
  /\ MinerGoes(m, "outer", Again)
  /\ UNCHANGED <<mutex, block, netVars, seen, myJob, side>>

MinerStep(m) ==
  \/ WaitForJob(m) \/ WaitReady(m) \/ CopyJobs(m) \/ BeginHash(m) \/ EndHash(m)
  \/ HandOver(m) \/ LeaveInner(m) \/ Outer(m)

-----------------------------------------------------------------------------
Next ==
  \/ PollTemplate \/ BlockAccepted \/ BlockDropped \/ Reopen
  \/ \E s \in Sides : ReceiveJob(s) \/ ReceiveLogin(s) \/ Disconnect(s)
  \/ \E t \in Threads : HandlerStep(t)
  \/ \E m \in Miners : MinerStep(m)

Spec == Init /\ [][Next]_vars

\* A dataset is computed in the end, every thread runs on, and the mutex is not
\* withheld from a miner for ever.
Fairness ==
  /\ \A t \in Threads : WF_vars(HandlerStep(t))
  /\ \A m \in Miners : WF_vars(MinerStep(m)) /\ SF_vars(CopyJobs(m))

FairSpec == Spec /\ Fairness

-----------------------------------------------------------------------------
(* Properties. *)

\* A side whose session is a stratum session.
Stratum(s) == s = "dev" \/ mode = "stratum"

\* Once a handler lets go of the mutex, the dataset is that of the job it leaves
\* behind: a miner never copies a job whose dataset is another's or unfinished.
JobHasDataset ==
  \A s \in Sides :
    Stratum(s) /\ job[s] # NoSeed /\ mutex # s => ready[s] /\ dataset[s] = job[s]

\* A miner never waits for a dataset that nobody computes, also where the two
\* threads of a solo session do so at once: a side with a job has its dataset, or
\* a thread is in updateVM for it.
DatasetIsComing ==
  \A s \in Sides :
    job[s] # NoSeed /\ ~ready[s] =>
      \E t \in Threads :
        SideOf(t) = s /\ pc[t] \in {"compare", "begin", "build", "key", "raise"}

\* A miner that hashes for the user and sees no change hashes over the dataset
\* of its own job, unless the handler of the next one is at work.
WorkFitsDataset ==
  \A m \in Miners :
    minerPc[m] = "hash" /\ side[m] = "user" /\ Stratum("user")
      /\ ~Stale(m) /\ mutex # "user" => dataset["user"] = myJob[m]

\* The miners come to hash while the user's pool is connected, though datasets
\* are recomputed meanwhile, once there is a dev job.
HashingGoesOn ==
  \A m \in Miners :
    connected["user"] /\ job["dev"] # NoSeed ~> (minerPc[m] = "mine" \/ ~connected["user"])

=============================================================================
