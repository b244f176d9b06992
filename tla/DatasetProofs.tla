--------------------------- MODULE DatasetProofs ---------------------------
(***************************************************************************)
(* Proofs about Dataset, for any miners, seeds and bounds.                 *)
(***************************************************************************)
EXTENDS Dataset, TLAPS

(* Types. *)

\* Initially every variable has its type.
LEMMA TypeInit == Init => TypeOK
<1> SUFFICES ASSUME Init PROVE TypeOK
  OBVIOUS
<1> USE DEF Init, NoSeed, Torn
<1>1. /\ mode \in Modes /\ mutex \in Threads \cup Miners \cup {None}
      /\ session \in BOOLEAN /\ mixed \in BOOLEAN /\ block \in BOOLEAN
      /\ jobCounter \in Nat
  OBVIOUS
<1>2. /\ connected \in [Sides -> BOOLEAN] /\ ready \in [Sides -> BOOLEAN]
      /\ job \in [Sides -> Nat] /\ cacheKey \in [Sides -> Nat]
      /\ dataset \in [Sides -> Int]
  OBVIOUS
<1>3. pc \in [Threads -> ThreadPcs] /\ new \in [Threads -> Nat]
  BY DEF ThreadPcs
<1>4. /\ minerPc \in [Miners -> MinerPcs] /\ seen \in [Miners -> Int]
      /\ myJob \in [Miners -> Nat] /\ side \in [Miners -> Sides]
  BY DEF MinerPcs, Sides
<1>5. QED BY <1>1, <1>2, <1>3, <1>4 DEF TypeOK

\* What a session receives has the type of a job.
LEMMA TypeReceive ==
  ASSUME TypeOK, NEW s \in Sides,
         \/ PollTemplate \/ BlockAccepted \/ BlockDropped \/ Reopen
         \/ ReceiveJob(s) \/ ReceiveLogin(s) \/ Disconnect(s)
  PROVE  TypeOK'
<1> USE DatasetAssumption
    DEF TypeOK, ThreadPcs, Goes, dataVars, minerVars, netVars, Sides, Threads
<1>1. ASSUME NEW t \in Threads, NEW to \in {"compare", "replace"}, TakeLocked(t, to)
      PROVE  TypeOK'
  <2>1. PICK n \in SeedsOf(t) : new' = [new EXCEPT ![t] = n]
    BY <1>1 DEF TakeLocked
  <2>2. n \in Nat
    BY DEF SeedsOf
  <2>3. QED BY <1>1, <2>1, <2>2 DEF TakeLocked
<1>2. CASE PollTemplate
  <2>1. PICK n \in UserSeeds : new' = [new EXCEPT !["user"] = n]
    BY <1>2 DEF PollTemplate
  <2>2. QED BY <1>2, <2>1 DEF PollTemplate
<1>3. CASE BlockDropped BY <1>3 DEF BlockDropped
<1>4. CASE Reopen BY <1>4 DEF Reopen
<1>5. CASE Disconnect(s) BY <1>5 DEF Disconnect
<1>6. QED
  BY <1>1, <1>2, <1>3, <1>4, <1>5 DEF BlockAccepted, ReceiveJob, ReceiveLogin

\* The handlers keep the types.
LEMMA TypeHandler ==
  ASSUME TypeOK, NEW t \in Threads, HandlerStep(t)
  PROVE  TypeOK'
<1> USE DEF TypeOK, ThreadPcs, Goes, Returns, dataVars, minerVars
<1>0. SideOf(t) \in Sides
  BY DEF SideOf, Sides
<1>1. CASE ReplaceJob(t) BY <1>0, <1>1 DEF ReplaceJob
<1>2. CASE CompareSeed(t) BY <1>2 DEF CompareSeed
<1>3. CASE BeginBuild(t)
  <2>1. mixed' \in BOOLEAN
    BY <1>3 DEF BeginBuild, OtherBuilds
  <2>2. QED BY <1>0, <1>3, <2>1 DEF BeginBuild, Torn
<1>4. CASE EndBuild(t)
  <2>1. mixed' \in BOOLEAN
    BY <1>4 DEF EndBuild
  <2>2. dataset' \in [Sides -> Int]
    <3>1. CASE UNCHANGED dataset
      BY <3>1
    <3>2. ASSUME NEW d \in {new[t], Torn}, dataset' = [dataset EXCEPT ![SideOf(t)] = d]
          PROVE  dataset' \in [Sides -> Int]
      BY <1>0, <3>2 DEF Torn
    <3>3. QED BY <1>4, <3>1, <3>2 DEF EndBuild
  <2>3. /\ pc' = [pc EXCEPT ![t] = "key"]
        /\ UNCHANGED <<mode, mutex, session, connected, job, jobCounter,
                       cacheKey, ready, new, block, minerVars>>
    BY <1>4 DEF EndBuild
  <2>4. QED BY <2>1, <2>2, <2>3
<1>5. CASE SetKey(t) BY <1>0, <1>5 DEF SetKey
<1>6. CASE RaiseReady(t)
  <2>1. pc' \in [Threads -> ThreadPcs]
    BY <1>6 DEF RaiseReady
  <2>2. QED BY <1>0, <1>6, <2>1 DEF RaiseReady
<1>7. CASE ReplaceLate(t) BY <1>0, <1>7 DEF ReplaceLate
<1>8. CASE CountJob(t) BY <1>8 DEF CountJob, NoSeed
<1>9. CASE FlagConnected(t)
  <2>1. block' \in BOOLEAN /\ mutex' \in {None, mutex}
    BY <1>9 DEF FlagConnected
  <2>2. QED BY <1>0, <1>9, <2>1 DEF FlagConnected, NoSeed
<1>10. QED
  BY <1>1, <1>2, <1>3, <1>4, <1>5, <1>6, <1>7, <1>8, <1>9 DEF HandlerStep

\* The miners keep the types.
LEMMA TypeMiner ==
  ASSUME TypeOK, NEW m \in Miners, MinerStep(m)
  PROVE  TypeOK'
<1> USE DEF TypeOK, MinerPcs, MinerGoes, Again, netVars, dataVars
<1>1. CASE WaitForJob(m) BY <1>1 DEF WaitForJob
<1>2. CASE WaitReady(m) BY <1>2 DEF WaitReady
<1>3. CASE CopyJobs(m) BY <1>3 DEF CopyJobs, Sides
<1>4. CASE BeginHash(m) BY <1>4 DEF BeginHash
<1>5. CASE EndHash(m) BY <1>5 DEF EndHash
<1>6. CASE HandOver(m)
  <2>1. block' \in BOOLEAN
    BY <1>6 DEF HandOver
  <2>2. QED BY <1>6, <2>1 DEF HandOver
<1>7. CASE LeaveInner(m) BY <1>7 DEF LeaveInner
<1>8. CASE Outer(m) BY <1>8 DEF Outer
<1>9. QED
  BY <1>1, <1>2, <1>3, <1>4, <1>5, <1>6, <1>7, <1>8 DEF MinerStep

LEMMA TypeStep == TypeOK /\ [Next]_vars => TypeOK'
<1> SUFFICES ASSUME TypeOK, [Next]_vars PROVE TypeOK'
  OBVIOUS
<1>1. CASE UNCHANGED vars
  BY <1>1 DEF vars, netVars, dataVars, minerVars, TypeOK
<1>2. QED BY <1>1, TypeReceive, TypeHandler, TypeMiner DEF Next, Sides

\* Every variable keeps its type.
THEOREM TypeCorrect == Spec => []TypeOK
BY TypeInit, TypeStep, PTL DEF Spec

-----------------------------------------------------------------------------
(* The job left behind has its dataset. *)

\* The handler of side s owns the mutex from its first step to its last.
HandlerLocks(s) == pc[s] # "idle" => mutex = s /\ new[s] # NoSeed

\* Outside updateVM the dataset is that of the key, once there is one.
KeyHasDataset(s) ==
  /\ pc[s] \notin {"build", "key", "raise"} /\ cacheKey[s] # NoSeed
       => ready[s] /\ dataset[s] = cacheKey[s]
  /\ pc[s] \in {"key", "raise"} => dataset[s] = new[s]
  /\ pc[s] \in {"raise", "replaceLate", "count", "flag"} => cacheKey[s] = new[s]

\* Where the job is the one that the handler works on.
JobOfHandler(s) ==
  /\ pc[s] = "idle" /\ job[s] # NoSeed => cacheKey[s] = job[s]
  /\ pc[s] = "replace" => ~connected[s]
  /\ pc[s] \in {"compare", "begin", "build", "key", "raise"} /\ ~connected[s]
       => job[s] = new[s]
  /\ pc[s] \in {"count", "flag"} => job[s] = new[s]

\* By stratum nobody else computes the user's dataset.
BuildsAlone == mode = "stratum" => pc["submit"] = "idle" /\ ~mixed

\* By solo, a job is flagged, never counted.
SoloNeverCounts ==
  mode = "solo" => \A t \in Threads \ {"dev"} : pc[t] \notin {"replaceLate", "count"}

DataInv ==
  /\ BuildsAlone /\ SoloNeverCounts
  /\ \A s \in Sides : Stratum(s) => HandlerLocks(s) /\ KeyHasDataset(s) /\ JobOfHandler(s)

LEMMA DataInit == Init => DataInv
<1> SUFFICES ASSUME Init, NEW s \in Sides
             PROVE  /\ BuildsAlone /\ SoloNeverCounts
                    /\ HandlerLocks(s) /\ KeyHasDataset(s) /\ JobOfHandler(s)
  BY DEF DataInv, Sides
<1> QED
  BY DEF Init, Sides, Threads, BuildsAlone, SoloNeverCounts, HandlerLocks, KeyHasDataset,
         JobOfHandler

\* What a session receives: a handler begins with the mutex and a seed, a
\* connection is lost while no handler runs.
LEMMA DataReceive ==
  ASSUME TypeOK, DataInv, NEW c \in Sides,
         \/ PollTemplate \/ BlockAccepted \/ BlockDropped \/ Reopen
         \/ ReceiveJob(c) \/ ReceiveLogin(c) \/ Disconnect(c)
  PROVE  DataInv'
<1> USE DatasetAssumption DEF Goes, dataVars, minerVars, netVars, Stratum, Solo
<1>0. /\ pc \in [Threads -> ThreadPcs] /\ new \in [Threads -> Nat]
      /\ Sides \subseteq Threads /\ "submit" \in Threads /\ "submit" \notin Sides
      /\ connected \in [Sides -> BOOLEAN] /\ mode \in {"stratum", "solo"}
      /\ None \notin Threads
  BY DEF TypeOK, Sides, Threads, None
<1>1. BuildsAlone' /\ SoloNeverCounts'
  BY <1>0 DEF DataInv, BuildsAlone, SoloNeverCounts, PollTemplate, BlockAccepted, BlockDropped, Reopen,
              ReceiveJob, ReceiveLogin, Disconnect, TakeLocked, Sides
<1>2. ASSUME NEW s \in Sides, Stratum(s)'
      PROVE  HandlerLocks(s)' /\ KeyHasDataset(s)' /\ JobOfHandler(s)'
  <2>0. /\ Stratum(s) /\ HandlerLocks(s) /\ KeyHasDataset(s) /\ JobOfHandler(s)
        /\ UNCHANGED <<mode, job, cacheKey, ready, dataset>>
    BY <1>2 DEF DataInv, PollTemplate, BlockAccepted, BlockDropped, Reopen,
              ReceiveJob, ReceiveLogin, Disconnect, TakeLocked
  <2> USE <2>0 DEF HandlerLocks, KeyHasDataset, JobOfHandler
  <2>1. ASSUME NEW t \in Threads, NEW to \in {"compare", "replace"}, TakeLocked(t, to),
               t = s => (to = "compare" <=> connected[s])
        PROVE  HandlerLocks(s)' /\ KeyHasDataset(s)' /\ JobOfHandler(s)'
    <3>1. PICK n \in SeedsOf(t) : new' = [new EXCEPT ![t] = n]
      BY <2>1 DEF TakeLocked
    <3>2. n # NoSeed
      BY DEF SeedsOf
    <3>3. CASE t # s BY <1>0, <2>1, <3>1, <3>3 DEF TakeLocked
    <3>4. CASE t = s BY <1>0, <2>1, <3>1, <3>2, <3>4 DEF TakeLocked
    <3>5. QED BY <3>3, <3>4
  <2>2. CASE PollTemplate
    <3>1. s # "user" BY <2>2 DEF PollTemplate
    <3>2. PICK n \in UserSeeds : new' = [new EXCEPT !["user"] = n]
      BY <2>2 DEF PollTemplate
    <3>3. QED BY <1>0, <2>2, <3>1, <3>2 DEF PollTemplate
  <2>3. CASE BlockAccepted BY <1>0, <2>1, <2>3 DEF BlockAccepted, Sides
  <2>4. CASE BlockDropped BY <2>4 DEF BlockDropped
  <2>5. CASE Reopen BY <2>5 DEF Reopen
  <2>6. CASE ReceiveJob(c) BY <1>0, <2>1, <2>6 DEF ReceiveJob, SideOf, Sides
  <2>7. CASE ReceiveLogin(c) BY <1>0, <2>1, <2>7 DEF ReceiveLogin, SideOf, Sides
  <2>8. CASE Disconnect(c) BY <1>0, <2>8 DEF Disconnect
  <2>9. QED BY <2>2, <2>3, <2>4, <2>5, <2>6, <2>7, <2>8
<1>3. QED BY <1>1, <1>2 DEF DataInv

\* Another side's handler, and the miners, leave a side's dataset alone.
LEMMA DataHandler ==
  ASSUME TypeOK, DataInv, NEW t \in Threads, HandlerStep(t)
  PROVE  DataInv'
<1> USE DEF Goes, Returns, dataVars, minerVars, Stratum
<1>0. /\ pc \in [Threads -> ThreadPcs] /\ new \in [Threads -> Nat]
      /\ Sides = {"user", "dev"} /\ Threads = {"user", "submit", "dev"}
      /\ connected \in [Sides -> BOOLEAN] /\ ready \in [Sides -> BOOLEAN]
      /\ job \in [Sides -> Nat] /\ cacheKey \in [Sides -> Nat]
      /\ dataset \in [Sides -> Int] /\ mode \in {"stratum", "solo"}
  BY DatasetAssumption DEF TypeOK, Sides, Threads
<1>1. UNCHANGED mode /\ SideOf(t) \in Sides
  BY <1>0 DEF HandlerStep, ReplaceJob, CompareSeed, BeginBuild, EndBuild, SetKey,
              RaiseReady, ReplaceLate, CountJob, FlagConnected, SideOf
<1>2. BuildsAlone'
  <2>1. SUFFICES ASSUME mode = "stratum" PROVE pc'["submit"] = "idle" /\ ~mixed'
    BY <1>1 DEF BuildsAlone
  <2>2. pc["submit"] = "idle" /\ ~mixed
    BY <2>1 DEF DataInv, BuildsAlone
  <2>3. t # "submit" /\ ~OtherBuilds(t)
    BY <1>0, <2>2 DEF HandlerStep, ReplaceJob, CompareSeed, BeginBuild, EndBuild, SetKey,
         RaiseReady, ReplaceLate, CountJob, FlagConnected, OtherBuilds, SideOf
  <2>4. pc'["submit"] = "idle"
    BY <1>0, <2>2, <2>3 DEF HandlerStep, ReplaceJob, CompareSeed, BeginBuild, EndBuild, SetKey,
         RaiseReady, ReplaceLate, CountJob, FlagConnected
  <2>5. ~mixed'
    BY <2>2, <2>3 DEF HandlerStep, ReplaceJob, CompareSeed, BeginBuild, EndBuild, SetKey,
         RaiseReady, ReplaceLate, CountJob, FlagConnected
  <2>6. QED BY <2>4, <2>5
<1>3. SoloNeverCounts'
  <2>1. SUFFICES ASSUME mode = "solo", NEW u \in Threads \ {"dev"}
                 PROVE  pc'[u] \notin {"replaceLate", "count"}
    BY <1>1 DEF SoloNeverCounts
  <2>2. pc[u] \notin {"replaceLate", "count"} /\ Login(u)
    BY <2>1 DEF DataInv, SoloNeverCounts, Login, Solo
  <2>3. QED
    BY <1>0, <2>2 DEF HandlerStep, ReplaceJob, CompareSeed, BeginBuild, EndBuild, SetKey,
         RaiseReady, ReplaceLate, CountJob, FlagConnected
<1>4. ASSUME NEW s \in Sides, Stratum(s)
      PROVE  HandlerLocks(s)' /\ KeyHasDataset(s)' /\ JobOfHandler(s)'
  <2>0. HandlerLocks(s) /\ KeyHasDataset(s) /\ JobOfHandler(s)
    BY <1>4 DEF DataInv
  <2> USE <2>0 DEF HandlerLocks, KeyHasDataset, JobOfHandler
  <2>1. CASE t # s
    <3>1. SideOf(t) # s
      <4>1. CASE s = "dev" BY <1>0, <2>1, <4>1 DEF SideOf
      <4>2. CASE s = "user"
        <5>1. pc["submit"] = "idle"
          BY <1>4, <4>2 DEF DataInv, BuildsAlone
        <5>2. t # "submit"
          BY <5>1 DEF HandlerStep, ReplaceJob, CompareSeed, BeginBuild, EndBuild, SetKey,
               RaiseReady, ReplaceLate, CountJob, FlagConnected
        <5>3. QED BY <1>0, <2>1, <4>2, <5>2 DEF SideOf
      <4>3. QED BY <1>0, <4>1, <4>2
    <3>2. /\ pc'[s] = pc[s] /\ new'[s] = new[s] /\ job'[s] = job[s]
          /\ cacheKey'[s] = cacheKey[s] /\ ready'[s] = ready[s]
          /\ connected'[s] = connected[s]
      BY <1>0, <2>1, <3>1 DEF HandlerStep, ReplaceJob, CompareSeed, BeginBuild, EndBuild,
           SetKey, RaiseReady, ReplaceLate, CountJob, FlagConnected
    <3>3. dataset'[s] = dataset[s]
      <4>1. CASE EndBuild(t)
        <5>1. \/ UNCHANGED dataset
              \/ \E d : dataset' = [dataset EXCEPT ![SideOf(t)] = d]
          BY <4>1 DEF EndBuild
        <5>2. QED BY <1>0, <3>1, <5>1
      <4>2. CASE ~EndBuild(t)
        BY <1>0, <3>1, <4>2 DEF HandlerStep, ReplaceJob, CompareSeed, BeginBuild,
             SetKey, RaiseReady, ReplaceLate, CountJob, FlagConnected
      <4>3. QED BY <4>1, <4>2
    <3>4. pc[s] # "idle" => mutex' = s
      <4>1. SUFFICES ASSUME mutex = s, pc[s] # "idle" PROVE mutex' = s
        BY <2>1
      <4>2. CASE CountJob(t)
        <5>1. Stratum(t) /\ t \in Sides
          BY <1>0, <4>2 DEF CountJob, DataInv, SoloNeverCounts, BuildsAlone
        <5>2. mutex = t
          BY <4>2, <5>1 DEF CountJob, DataInv
        <5>3. QED BY <2>1, <4>1, <5>2
      <4>3. QED
       BY <1>0, <2>1, <4>1, <4>2 DEF HandlerStep, ReplaceJob, CompareSeed, BeginBuild, EndBuild,
           SetKey, RaiseReady, ReplaceLate, CountJob, FlagConnected
    <3>5. QED BY <3>2, <3>3, <3>4
  <2>2. CASE t = s
    <3>1. SideOf(s) = s
      BY <1>0 DEF SideOf
    <3>2. Login(s) <=> ~connected[s]
      BY <1>0, <1>4, <3>1 DEF Login, Solo
    <3> USE <1>0, <2>2, <3>1, <3>2
    <3>3. CASE ReplaceJob(t) BY <3>3 DEF ReplaceJob
    <3>4. CASE CompareSeed(t) BY <3>4 DEF CompareSeed
    <3>5. CASE BeginBuild(t) BY <3>5 DEF BeginBuild
    <3>6. CASE EndBuild(t)
      <4>1. ~OtherBuilds(t)
        BY <1>4 DEF OtherBuilds, SideOf, DataInv, BuildsAlone
      <4>2. ~(mixed /\ s = "user")
        BY <1>4 DEF DataInv, BuildsAlone
      <4>3. dataset' = [dataset EXCEPT ![s] = new[s]]
        BY <3>6, <4>1, <4>2 DEF EndBuild
      <4>4. QED BY <3>6, <4>3 DEF EndBuild
    <3>7. CASE SetKey(t) BY <3>7 DEF SetKey
    <3>8. CASE RaiseReady(t) BY <3>8 DEF RaiseReady
    <3>9. CASE ReplaceLate(t) BY <3>9 DEF ReplaceLate
    <3>10. CASE CountJob(t) BY <3>10 DEF CountJob
    <3>11. CASE FlagConnected(t) BY <3>11 DEF FlagConnected
    <3>12. QED BY <3>3, <3>4, <3>5, <3>6, <3>7, <3>8, <3>9, <3>10, <3>11 DEF HandlerStep
  <2>3. QED BY <2>1, <2>2
<1>5. QED BY <1>1, <1>2, <1>3, <1>4 DEF DataInv

LEMMA DataStep == TypeOK /\ DataInv /\ [Next]_vars => DataInv'
<1> SUFFICES ASSUME TypeOK, DataInv, [Next]_vars PROVE DataInv'
  OBVIOUS
<1> USE DEF vars, netVars, dataVars, minerVars
<1>1. CASE UNCHANGED <<mutex, netVars>>
  BY <1>1 DEF DataInv, BuildsAlone, SoloNeverCounts, HandlerLocks, KeyHasDataset, JobOfHandler, Stratum
<1>2. ASSUME NEW m \in Miners, MinerStep(m) PROVE DataInv'
  BY <1>1, <1>2 DEF MinerStep, WaitForJob, WaitReady, CopyJobs, BeginHash, EndHash,
                    HandOver, LeaveInner, Outer
<1>3. QED BY <1>1, <1>2, DataReceive, DataHandler DEF Next, Sides

\* The handler of a stratum session, which recomputes the dataset under the mutex,
\* lets go of it only when the dataset is that of the job it leaves behind.
THEOREM JobsHaveDatasets == Spec => []JobHasDataset
<1>1. TypeOK /\ DataInv => JobHasDataset
  BY DEF TypeOK, DataInv, JobHasDataset, HandlerLocks, KeyHasDataset, JobOfHandler
<1>2. QED
  BY <1>1, TypeInit, TypeStep, DataInit, DataStep, PTL DEF Spec

-----------------------------------------------------------------------------
(* The dataset a miner hashes over is its job's. *)

\* By stratum: the miners wait while the user's next session logs in, and only
\* a session handles a job.
MinersWaitForLogin ==
  /\ session /\ ~connected["user"] => \A m \in Miners : minerPc[m] = "wait"
  /\ pc["user"] # "idle" => session

\* The miners leave their wait with a job.
JobBeforeWork ==
  (connected["user"] \/ \E m \in Miners : minerPc[m] # "wait") => job["user"] # NoSeed

\* The miner's job is the current one while its counter is, but for the moment
\* between the job's replacement and the count of it.
MinesItsJob(m) ==
  /\ seen[m] <= jobCounter
  /\ minerPc[m] \in {"mine", "hash", "check"} /\ seen[m] = jobCounter
       => myJob[m] = job["user"] \/ pc["user"] = "count"

WorkInv ==
  mode = "stratum" =>
    /\ MinersWaitForLogin
    /\ JobBeforeWork
    /\ \A m \in Miners : MinesItsJob(m)

LEMMA WorkInit == Init => WorkInv
BY DEF Init, WorkInv, MinersWaitForLogin, JobBeforeWork, MinesItsJob, Sides, Threads

\* The network threads.
LEMMA WorkNet ==
  ASSUME TypeOK, DataInv, WorkInv,
         \/ PollTemplate \/ BlockAccepted \/ BlockDropped \/ Reopen
         \/ \E s \in Sides : ReceiveJob(s) \/ ReceiveLogin(s) \/ Disconnect(s)
         \/ \E t \in Threads : HandlerStep(t)
  PROVE  WorkInv'
<1> USE DEF Goes, Returns, dataVars, minerVars, netVars
<1>0. /\ pc \in [Threads -> ThreadPcs] /\ new \in [Threads -> Nat]
      /\ Sides = {"user", "dev"} /\ Threads = {"user", "submit", "dev"}
      /\ connected \in [Sides -> BOOLEAN] /\ session \in BOOLEAN
      /\ job \in [Sides -> Nat] /\ jobCounter \in Nat
      /\ seen \in [Miners -> Int]
  BY DEF TypeOK, Sides, Threads
<1>1. UNCHANGED <<mode, minerPc, seen, myJob>>
  BY DEF PollTemplate, BlockAccepted, BlockDropped, Reopen, ReceiveJob, ReceiveLogin,
         Disconnect, TakeLocked, HandlerStep, ReplaceJob, CompareSeed, BeginBuild,
         EndBuild, SetKey, RaiseReady, ReplaceLate, CountJob, FlagConnected
<1>2. SUFFICES ASSUME mode = "stratum"
               PROVE  /\ MinersWaitForLogin' /\ JobBeforeWork'
                      /\ \A m \in Miners : MinesItsJob(m)'
  BY <1>1 DEF WorkInv
<1>3. /\ MinersWaitForLogin /\ JobBeforeWork /\ \A m \in Miners : MinesItsJob(m)
      /\ HandlerLocks("user") /\ KeyHasDataset("user") /\ JobOfHandler("user")
      /\ pc["submit"] = "idle"
  BY <1>0, <1>2 DEF WorkInv, DataInv, Stratum, BuildsAlone
<1> USE <1>0, <1>1, <1>2, <1>3
    DEF MinersWaitForLogin, JobBeforeWork, MinesItsJob, HandlerLocks, JobOfHandler
<1>4. CASE \/ PollTemplate \/ BlockAccepted \/ BlockDropped \/ Reopen
           \/ \E s \in Sides : ReceiveJob(s) \/ ReceiveLogin(s) \/ Disconnect(s)
  <2>1. CASE \E t \in Sides, to \in {"compare", "replace"} :
               TakeLocked(t, to) /\ (SideOf(t) = "user" => session)
    BY <2>1 DEF TakeLocked, SideOf
  <2>2. CASE BlockDropped BY <2>2 DEF BlockDropped
  <2>3. CASE Reopen BY <2>3 DEF Reopen
  <2>4. CASE \E s \in Sides : Disconnect(s)
    <3>1. CASE Disconnect("user")
      <4>1. ~session' /\ ~connected'["user"] /\ UNCHANGED <<job, jobCounter, pc>>
        BY <3>1 DEF Disconnect
      <4>2. pc["user"] = "idle"
        BY <3>1 DEF Disconnect
      <4>3. QED BY <4>1, <4>2
    <3>2. CASE Disconnect("dev")
      <4>1. session' <=> session
        BY <3>2 DEF Disconnect
      <4>2. connected'["user"] = connected["user"] /\ UNCHANGED <<job, jobCounter, pc>>
        BY <3>2 DEF Disconnect
      <4>3. QED BY <4>1, <4>2
    <3>3. QED BY <2>4, <3>1, <3>2
  <2>5. QED
    BY <1>4, <2>1, <2>2, <2>3, <2>4
       DEF PollTemplate, BlockAccepted, Solo, ReceiveJob, ReceiveLogin
<1>5. ASSUME NEW t \in Threads, HandlerStep(t)
      PROVE  /\ MinersWaitForLogin' /\ JobBeforeWork'
             /\ \A m \in Miners : MinesItsJob(m)'
  <2>0. t \in Sides /\ SideOf(t) = t
    BY <1>5 DEF SideOf, HandlerStep, ReplaceJob, CompareSeed, BeginBuild, EndBuild,
         SetKey, RaiseReady, ReplaceLate, CountJob, FlagConnected
  <2> USE <2>0
  <2>1. CASE ReplaceJob(t) BY <2>1 DEF ReplaceJob
  <2>2. CASE CompareSeed(t) BY <2>2 DEF CompareSeed
  <2>3. CASE BeginBuild(t) BY <2>3 DEF BeginBuild
  <2>4. CASE EndBuild(t) BY <2>4 DEF EndBuild
  <2>5. CASE SetKey(t) BY <2>5 DEF SetKey
  <2>6. CASE RaiseReady(t) BY <2>6 DEF RaiseReady
  <2>7. CASE ReplaceLate(t) BY <2>7 DEF ReplaceLate
  <2>8. CASE CountJob(t) BY <2>8 DEF CountJob
  <2>9. CASE FlagConnected(t) BY <2>9 DEF FlagConnected
  <2>10. QED
    BY <1>5, <2>1, <2>2, <2>3, <2>4, <2>5, <2>6, <2>7, <2>8, <2>9 DEF HandlerStep
<1>6. QED BY <1>4, <1>5

\* The miners.
LEMMA WorkMiner ==
  ASSUME TypeOK, DataInv, WorkInv, NEW m \in Miners, MinerStep(m)
  PROVE  WorkInv'
<1> USE DEF MinerGoes, Again, netVars, Stale
<1>0. /\ minerPc \in [Miners -> MinerPcs] /\ seen \in [Miners -> Int]
      /\ myJob \in [Miners -> Nat] /\ jobCounter \in Nat
      /\ job \in [Sides -> Nat] /\ None \notin Threads
  BY DEF TypeOK, None, Threads
<1>1. UNCHANGED <<mode, session, connected, job, jobCounter, pc, new>>
  BY DEF MinerStep, WaitForJob, WaitReady, CopyJobs, BeginHash, EndHash, HandOver,
         LeaveInner, Outer
<1>2. SUFFICES ASSUME mode = "stratum"
               PROVE  /\ MinersWaitForLogin' /\ JobBeforeWork'
                      /\ \A n \in Miners : MinesItsJob(n)'
  BY <1>1 DEF WorkInv
<1>3. MinersWaitForLogin /\ JobBeforeWork /\ \A n \in Miners : MinesItsJob(n)
  BY <1>2 DEF WorkInv
<1> USE <1>0, <1>1, <1>3 DEF MinersWaitForLogin, JobBeforeWork, MinesItsJob
<1>4. CASE WaitForJob(m) BY <1>4 DEF WaitForJob
<1>5. CASE WaitReady(m) BY <1>5 DEF WaitReady
<1>6. CASE CopyJobs(m) BY <1>6 DEF CopyJobs
<1>7. CASE BeginHash(m) BY <1>7 DEF BeginHash
<1>8. CASE EndHash(m) BY <1>8 DEF EndHash
<1>9. CASE HandOver(m) BY <1>9 DEF HandOver
<1>10. CASE LeaveInner(m) BY <1>10 DEF LeaveInner
<1>11. CASE Outer(m) BY <1>11 DEF Outer
<1>12. QED
  BY <1>4, <1>5, <1>6, <1>7, <1>8, <1>9, <1>10, <1>11 DEF MinerStep

LEMMA WorkStep == TypeOK /\ DataInv /\ WorkInv /\ [Next]_vars => WorkInv'
<1> SUFFICES ASSUME TypeOK, DataInv, WorkInv, [Next]_vars PROVE WorkInv'
  OBVIOUS
<1>1. CASE UNCHANGED vars
  BY <1>1 DEF vars, netVars, dataVars, minerVars, WorkInv, MinersWaitForLogin,
              JobBeforeWork, MinesItsJob
<1>2. QED BY <1>1, WorkNet, WorkMiner DEF Next

\* A miner that sees no change hashes over the dataset of its own job, unless the
\* handler of the next job is at work.
THEOREM WorkFits == Spec => []WorkFitsDataset
<1>1. TypeOK /\ DataInv /\ WorkInv => WorkFitsDataset
  <2>1. SUFFICES ASSUME TypeOK, DataInv, WorkInv, NEW m \in Miners,
                        minerPc[m] = "hash", Stratum("user"), ~Stale(m), mutex # "user"
                 PROVE  dataset["user"] = myJob[m]
    BY DEF WorkFitsDataset
  <2>2. mode = "stratum" /\ "user" \in Sides
    BY <2>1 DEF Stratum, Sides
  <2>3. pc["user"] = "idle" /\ job["user"] # NoSeed /\ myJob[m] = job["user"]
    BY <2>1, <2>2 DEF DataInv, WorkInv, HandlerLocks, JobBeforeWork, MinesItsJob, Stale
  <2>4. dataset["user"] = job["user"]
    BY <2>1, <2>2, <2>3 DEF DataInv, KeyHasDataset, JobOfHandler
  <2>5. QED BY <2>3, <2>4
<1>2. QED
  BY <1>1, TypeInit, TypeStep, DataInit, DataStep, WorkInit, WorkStep, PTL DEF Spec


-----------------------------------------------------------------------------
(* A dataset that is waited for is being computed, by stratum and by solo.  *)

\* A handler has a seed, and past the setting of the key there is a key.
HandlerHasSeed(t) ==
  /\ pc[t] # "idle" => new[t] # NoSeed
  /\ pc[t] \in {"raise", "replaceLate", "count", "flag"} => cacheKey[SideOf(t)] # NoSeed

\* A lowered status will be raised; a first job will have a key.
Coming(s) ==
  /\ ~ready[s] /\ cacheKey[s] # NoSeed =>
       \E t \in Threads : SideOf(t) = s /\ pc[t] \in {"build", "key", "raise"}
  /\ job[s] # NoSeed /\ cacheKey[s] = NoSeed =>
       \E t \in Threads : SideOf(t) = s /\ pc[t] \in {"compare", "begin", "build", "key"}

ComingInv == (\A t \in Threads : HandlerHasSeed(t)) /\ (\A s \in Sides : Coming(s))

LEMMA ComingInit == Init => ComingInv
BY DEF Init, ComingInv, HandlerHasSeed, Coming

\* Whoever receives a job was idle, and gets a seed.
LEMMA ComingReceive ==
  ASSUME TypeOK, ComingInv, NEW c \in Sides,
         \/ PollTemplate \/ BlockAccepted \/ BlockDropped \/ Reopen
         \/ ReceiveJob(c) \/ ReceiveLogin(c) \/ Disconnect(c)
  PROVE  ComingInv'
<1> USE DEF Goes, netVars, dataVars
<1>0. /\ pc \in [Threads -> ThreadPcs] /\ new \in [Threads -> Nat]
      /\ Sides = {"user", "dev"} /\ Threads = {"user", "submit", "dev"}
  BY DEF TypeOK, Sides, Threads
<1>1. UNCHANGED <<job, cacheKey, ready>>
  BY DEF PollTemplate, BlockAccepted, BlockDropped, Reopen, ReceiveJob, ReceiveLogin,
         Disconnect, TakeLocked
<1>2. \/ UNCHANGED <<pc, new>>
      \/ \E t \in Threads, to \in {"compare", "replace"}, n \in Nat \ {NoSeed} :
           /\ pc[t] = "idle"
           /\ pc' = [pc EXCEPT ![t] = to]
           /\ new' = [new EXCEPT ![t] = n]
  <2>1. ASSUME NEW t \in Threads, NEW to \in {"compare", "replace"}, TakeLocked(t, to)
        PROVE  \E n \in Nat \ {NoSeed} : /\ pc[t] = "idle"
                                         /\ pc' = [pc EXCEPT ![t] = to]
                                         /\ new' = [new EXCEPT ![t] = n]
    BY <2>1, DatasetAssumption DEF TakeLocked, SeedsOf
  <2>2. CASE PollTemplate BY <1>0, <2>2, DatasetAssumption DEF PollTemplate
  <2>3. CASE BlockAccepted BY <1>0, <2>1, <2>3 DEF BlockAccepted
  <2>4. CASE ReceiveJob(c) BY <1>0, <2>1, <2>4 DEF ReceiveJob
  <2>5. CASE ReceiveLogin(c) BY <1>0, <2>1, <2>5 DEF ReceiveLogin
  <2>6. CASE BlockDropped \/ Reopen \/ Disconnect(c)
    BY <2>6 DEF BlockDropped, Reopen, Disconnect
  <2>7. QED BY <2>2, <2>3, <2>4, <2>5, <2>6
<1>3. CASE UNCHANGED <<pc, new>>
  BY <1>1, <1>3 DEF ComingInv, HandlerHasSeed, Coming
<1>4. ASSUME NEW t \in Threads, NEW to \in {"compare", "replace"}, NEW n \in Nat \ {NoSeed},
             pc[t] = "idle", pc' = [pc EXCEPT ![t] = to], new' = [new EXCEPT ![t] = n]
      PROVE  ComingInv'
  <2>1. \A u \in Threads \ {t} : pc'[u] = pc[u] /\ new'[u] = new[u]
    BY <1>0, <1>4
  <2>2. pc'[t] = to /\ new'[t] = n
    BY <1>0, <1>4
  <2>3. \A u \in Threads : HandlerHasSeed(u)'
    BY <1>1, <2>1, <2>2 DEF ComingInv, HandlerHasSeed
  <2>4. \A s \in Sides : Coming(s)'
    BY <1>1, <1>4, <2>1 DEF ComingInv, Coming
  <2>5. QED BY <2>3, <2>4 DEF ComingInv
<1>5. QED BY <1>2, <1>3, <1>4

\* A handler's step concerns its own side, and hands what is to come on to itself.
LEMMA ComingHandler ==
  ASSUME TypeOK, ComingInv, NEW t \in Threads, HandlerStep(t)
  PROVE  ComingInv'
<1> DEFINE s == SideOf(t)
<1>0. /\ pc \in [Threads -> ThreadPcs] /\ new \in [Threads -> Nat] /\ s \in Sides
      /\ ready \in [Sides -> BOOLEAN] /\ job \in [Sides -> Nat] /\ cacheKey \in [Sides -> Nat]
  BY DEF TypeOK, SideOf, Sides
<1>1. HandlerHasSeed(t) /\ Coming(s)
  BY <1>0 DEF ComingInv
<1>2. /\ \A u \in Threads \ {t} : pc'[u] = pc[u] /\ new'[u] = new[u]
      /\ \A c \in Sides \ {s} : /\ job'[c] = job[c] /\ cacheKey'[c] = cacheKey[c]
                                /\ ready'[c] = ready[c]
      /\ cacheKey[s] # NoSeed => cacheKey'[s] # NoSeed
  BY <1>0, <1>1
     DEF HandlerStep, ReplaceJob, CompareSeed, BeginBuild, EndBuild, SetKey, RaiseReady,
         ReplaceLate, CountJob, FlagConnected, Goes, Returns, dataVars, HandlerHasSeed
<1>3. HandlerHasSeed(t)'
  BY <1>0, <1>1
     DEF HandlerStep, ReplaceJob, CompareSeed, BeginBuild, EndBuild, SetKey, RaiseReady,
         ReplaceLate, CountJob, FlagConnected, Goes, Returns, dataVars, HandlerHasSeed
<1>4. \A u \in Threads \ {t} : HandlerHasSeed(u)'
  BY <1>2 DEF ComingInv, HandlerHasSeed, SideOf, Sides
<1>5. \A c \in Sides \ {s} : Coming(c)'
  <2>1. SUFFICES ASSUME NEW c \in Sides \ {s} PROVE Coming(c)'
    OBVIOUS
  <2>2. \A u \in Threads : SideOf(u) = c => pc'[u] = pc[u]
    BY <1>2
  <2>3. QED BY <1>2, <2>2 DEF ComingInv, Coming
<1>6. Coming(s)'
  <2>1. ASSUME ~ready'[s], cacheKey'[s] # NoSeed
        PROVE  \E u \in Threads : SideOf(u) = s /\ pc'[u] \in {"build", "key", "raise"}
    <3>1. CASE BeginBuild(t) BY <1>0, <3>1 DEF BeginBuild, Goes
    <3>2. CASE EndBuild(t) BY <1>0, <3>2 DEF EndBuild, Goes
    <3>3. CASE SetKey(t) BY <1>0, <3>3 DEF SetKey, Goes
    <3>4. CASE RaiseReady(t) BY <1>0, <2>1, <3>4 DEF RaiseReady
    <3>5. CASE \/ ReplaceJob(t) \/ CompareSeed(t) \/ ReplaceLate(t) \/ CountJob(t)
               \/ FlagConnected(t)
      <4>1. /\ UNCHANGED <<ready, cacheKey>> /\ pc[t] \notin {"build", "key", "raise"}
        BY <3>5 DEF ReplaceJob, CompareSeed, ReplaceLate, CountJob, FlagConnected, Goes,
             Returns, dataVars
      <4>2. QED BY <1>1, <1>2, <2>1, <4>1 DEF Coming
    <3>6. QED BY <3>1, <3>2, <3>3, <3>4, <3>5 DEF HandlerStep
  <2>2. ASSUME job'[s] # NoSeed, cacheKey'[s] = NoSeed
        PROVE  \E u \in Threads :
                 SideOf(u) = s /\ pc'[u] \in {"compare", "begin", "build", "key"}
    <3>0. cacheKey[s] = NoSeed
      BY <1>2, <2>2
    <3>1. CASE ReplaceJob(t) BY <1>0, <3>1 DEF ReplaceJob, Goes
    <3>2. CASE CompareSeed(t)
      BY <1>0, <1>1, <3>0, <3>2 DEF CompareSeed, Goes, HandlerHasSeed
    <3>3. CASE BeginBuild(t) BY <1>0, <3>3 DEF BeginBuild, Goes
    <3>4. CASE EndBuild(t) BY <1>0, <3>4 DEF EndBuild, Goes
    <3>5. CASE SetKey(t)
      BY <1>0, <1>1, <2>2, <3>5 DEF SetKey, Goes, HandlerHasSeed
    <3>6. CASE RaiseReady(t) \/ ReplaceLate(t) \/ CountJob(t) \/ FlagConnected(t)
      BY <1>1, <3>0, <3>6
         DEF RaiseReady, ReplaceLate, CountJob, FlagConnected, Goes, Returns, HandlerHasSeed
    <3>7. QED BY <3>1, <3>2, <3>3, <3>4, <3>5, <3>6 DEF HandlerStep
  <2>3. QED BY <2>1, <2>2 DEF Coming
<1>7. QED BY <1>3, <1>4, <1>5, <1>6 DEF ComingInv

LEMMA ComingStep == TypeOK /\ ComingInv /\ [Next]_vars => ComingInv'
<1> SUFFICES ASSUME TypeOK, ComingInv, [Next]_vars PROVE ComingInv'
  OBVIOUS
<1>1. CASE UNCHANGED netVars
  BY <1>1 DEF netVars, dataVars, ComingInv, HandlerHasSeed, Coming
<1>2. ASSUME NEW m \in Miners, MinerStep(m) PROVE ComingInv'
  BY <1>1, <1>2 DEF MinerStep, WaitForJob, WaitReady, CopyJobs, BeginHash, EndHash,
                    HandOver, LeaveInner, Outer
<1>3. QED BY <1>1, <1>2, ComingReceive, ComingHandler DEF Next, Sides, vars

\* A side with a job has its dataset, or a thread that computes it: also where a solo
\* session's two threads do so at once.
THEOREM DatasetsCome == Spec => []DatasetIsComing
<1>1. TypeOK /\ ComingInv => DatasetIsComing
  <2>1. SUFFICES ASSUME TypeOK, ComingInv, NEW s \in Sides, job[s] # NoSeed, ~ready[s]
                 PROVE  \E t \in Threads :
                          SideOf(t) = s /\ pc[t] \in {"compare", "begin", "build", "key", "raise"}
    BY DEF DatasetIsComing
  <2>2. Coming(s)
    BY <2>1 DEF ComingInv
  <2>3. CASE cacheKey[s] # NoSeed BY <2>1, <2>2, <2>3 DEF Coming
  <2>4. CASE cacheKey[s] = NoSeed BY <2>1, <2>2, <2>4 DEF Coming
  <2>5. QED BY <2>3, <2>4
<1>2. QED
  BY <1>1, TypeInit, TypeStep, ComingInit, ComingStep, PTL DEF Spec

=============================================================================
