------------------------- MODULE JobBroadcastProofs -------------------------
(***************************************************************************)
(* Proofs about JobBroadcast, for any number of miners and jobs.           *)
(***************************************************************************)
EXTENDS JobBroadcast, TLAPS

(* Types. *)

\* Initially every variable has its type.
LEMMA TypeInit == Init => TypeOK
BY BroadcastAssumption DEF Init, TypeOK, Sides, NetPcs, MinerPcs, NoJob, None

\* The network threads keep the types.
LEMMA TypeNet ==
  ASSUME TypeOK, NEW s \in Pools,
         Receive(s) \/ SetDifficulty(s) \/ Disconnect(s) \/ HandlerStep(s)
  PROVE  TypeOK'
<1> USE DEF TypeOK, NetPcs, minerVars, NetGoes
<1>0. s \in Sides BY BroadcastAssumption
<1>1. CASE Receive(s) BY <1>0, <1>1 DEF Receive
<1>2. CASE SetDifficulty(s) BY <1>0, <1>2 DEF SetDifficulty
<1>3. CASE Disconnect(s) BY <1>0, <1>3 DEF Disconnect
<1>4. CASE ReplaceJob(s)
  <2>1. netPc' \in [Sides -> NetPcs]
    BY <1>0, <1>4 DEF ReplaceJob
  <2>2. /\ job' = [job EXCEPT ![s] = @ + 1]
        /\ UNCHANGED <<mutex, connected, height, jobCounter, loaded, minerVars>>
    BY <1>4 DEF ReplaceJob
  <2>3. QED BY <1>0, <2>1, <2>2
<1>5. CASE FlagConnected(s)
  <2>1. netPc' \in [Sides -> NetPcs]
    BY <1>0, <1>5 DEF FlagConnected
  <2>2. /\ connected' = [connected EXCEPT ![s] = TRUE]
        /\ mutex' \in {None, mutex}
        /\ UNCHANGED <<job, height, jobCounter, loaded, minerVars>>
    BY <1>5 DEF FlagConnected
  <2>3. QED BY <1>0, <2>1, <2>2
<1>6. CASE CountHeight(s) BY <1>0, <1>6 DEF CountHeight
<1>7. CASE LoadCounter(s) BY <1>0, <1>7 DEF LoadCounter
<1>8. CASE StoreCounter(s) BY <1>0, <1>8 DEF StoreCounter
<1>9. CASE LockLate(s) BY <1>0, <1>9 DEF LockLate
<1>10. QED
  BY <1>1, <1>2, <1>3, <1>4, <1>5, <1>6, <1>7, <1>8, <1>9 DEF HandlerStep

\* Writing one cell of a table keeps its type.
LEMMA CellType ==
  ASSUME NEW table \in [Miners -> [Sides -> Nat]], NEW m \in Miners,
         NEW s \in Sides, NEW n \in Nat
  PROVE  [table EXCEPT ![m][s] = n] \in [Miners -> [Sides -> Nat]]
OBVIOUS

\* The miners keep the types.
LEMMA TypeMiner ==
  ASSUME TypeOK, NEW m \in Miners, MinerStep(m)
  PROVE  TypeOK'
<1> USE DEF TypeOK, MinerPcs, netVars, MinerGoes, Again
<1>0. ASSUME NEW from, Throw(m, from) PROVE TypeOK'
  BY <1>0 DEF Throw, Forgotten
<1>1. CASE WaitForJob(m) BY <1>1 DEF WaitForJob
<1>2. CASE CopyJob(m) BY <1>2 DEF CopyJob, Sides
<1>3. CASE CopyDevJob(m) BY <1>3 DEF CopyDevJob, Sides
<1>4. CASE CopyCounter(m) BY <1>4 DEF CopyCounter
<1>5. CASE Decode(m)
  <2>1. minerPc' \in [Miners -> MinerPcs]
    BY <1>5 DEF Decode
  <2>2. /\ work' \in {work, [work EXCEPT ![m]["user"] = myJob[m]["user"]]}
        /\ UNCHANGED <<mutex, netVars, seen, myJob, myHeight, side, buffer>>
    BY <1>5 DEF Decode
  <2>3. work' \in [Miners -> [Sides -> Nat]]
    <3>1. "user" \in Sides /\ myJob[m]["user"] \in Nat
      BY DEF Sides
    <3>2. [work EXCEPT ![m]["user"] = myJob[m]["user"]] \in [Miners -> [Sides -> Nat]]
      BY <3>1, CellType
    <3>3. QED BY <2>2, <3>2
  <2>4. QED BY <2>1, <2>2, <2>3
<1>6. CASE RecordHeight(m)
  <2>1. minerPc' \in [Miners -> MinerPcs]
    BY <1>6 DEF RecordHeight
  <2>2. UNCHANGED <<mutex, netVars, seen, myJob, work, side, buffer>>
    BY <1>6 DEF RecordHeight
  <2>3. myHeight' \in [Miners -> [Sides -> Int]]
    <3>1. CASE myHeight' = [myHeight EXCEPT ![m]["user"] = height["user"]]
      BY <3>1 DEF Sides
    <3>2. CASE myHeight' = [myHeight EXCEPT ![m]["dev"] = height["dev"]]
      BY <3>2 DEF Sides
    <3>3. QED BY <1>6, <3>1, <3>2 DEF RecordHeight
  <2>4. QED BY <2>1, <2>2, <2>3
<1>7. CASE DecodeDev(m) /\ ~Throw(m, "decodeDev")
  <2>1. minerPc' \in [Miners -> MinerPcs]
    BY <1>7 DEF DecodeDev
  <2>2. /\ work' \in {work, [work EXCEPT ![m]["dev"] = myJob[m]["dev"]]}
        /\ UNCHANGED <<mutex, netVars, seen, myJob, myHeight, side, buffer>>
    BY <1>7 DEF DecodeDev
  <2>3. work' \in [Miners -> [Sides -> Nat]]
    <3>1. "dev" \in Sides /\ myJob[m]["dev"] \in Nat
      BY DEF Sides
    <3>2. [work EXCEPT ![m]["dev"] = myJob[m]["dev"]] \in [Miners -> [Sides -> Nat]]
      BY <3>1, CellType
    <3>3. QED BY <2>2, <3>2
  <2>4. QED BY <2>1, <2>2, <2>3
<1>8. CASE Pick(m) BY <1>8 DEF Pick
<1>9. CASE LeaveInner(m) BY <1>9 DEF LeaveInner
<1>10. CASE Hash(m) BY <1>10 DEF Hash
<1>11. CASE Check(m) BY <1>11 DEF Check
<1>12. CASE Submit(m) /\ ~Throw(m, "submit") BY <1>12 DEF Submit
<1>13. CASE Outer(m) BY <1>13 DEF Outer
<1>14. CASE ChooseBuffer(m) BY <1>14 DEF ChooseBuffer, Sides
<1>15. QED
  BY <1>0, <1>1, <1>2, <1>3, <1>4, <1>5, <1>6, <1>7, <1>8, <1>9, <1>10, <1>11,
     <1>12, <1>13, <1>14 DEF MinerStep

LEMMA TypeStep == TypeOK /\ [Next]_vars => TypeOK'
<1> SUFFICES ASSUME TypeOK, [Next]_vars PROVE TypeOK'
  OBVIOUS
<1>1. CASE UNCHANGED vars
  BY <1>1 DEF vars, netVars, minerVars, TypeOK
<1>2. QED BY <1>1, TypeNet, TypeMiner DEF Next

\* Every variable keeps its type.
THEOREM TypeCorrect == Spec => []TypeOK
BY TypeInit, TypeStep, PTL DEF Spec

\* The network threads change nothing that belongs to a miner.
LEMMA NetKeepsMiners ==
  ASSUME NEW s, Receive(s) \/ SetDifficulty(s) \/ Disconnect(s) \/ HandlerStep(s)
  PROVE  UNCHANGED minerVars
BY DEF Receive, SetDifficulty, Disconnect, HandlerStep, ReplaceJob, FlagConnected,
       LockLate, CountHeight, LoadCounter, StoreCounter

\* What was chosen at the start is never changed.
LEMMA ChoiceStays == [Next]_vars => UNCHANGED <<protocol, retargets>>
<1> SUFFICES ASSUME [Next]_vars PROVE UNCHANGED <<protocol, retargets>>
  OBVIOUS
<1>1. ASSUME NEW s, Receive(s) \/ SetDifficulty(s) \/ Disconnect(s) \/ HandlerStep(s)
      PROVE  UNCHANGED <<protocol, retargets>>
  BY <1>1, NetKeepsMiners DEF minerVars
<1>2. ASSUME NEW m, MinerStep(m) PROVE UNCHANGED <<protocol, retargets>>
  BY <1>2 DEF MinerStep, WaitForJob, CopyJob, CopyDevJob, CopyCounter, Decode,
       RecordHeight, DecodeDev, Pick, ChooseBuffer, LeaveInner, Hash, Check, Submit, Outer, Throw, netVars
<1>3. CASE UNCHANGED vars BY <1>3 DEF vars, netVars
<1>4. QED BY <1>1, <1>2, <1>3 DEF Next

-----------------------------------------------------------------------------
(* The user's shares and their job, where every copied job is decoded. *)

\* From the decoding on, the work is that of the copied job, which stays.
WorkIsCopy ==
  \A m \in Miners :
    /\ minerPc[m] \notin {"record", "recordDev"}
    /\ minerPc[m] \in {"decodeDev", "mine", "buffer", "hash", "check", "submit"} =>
         work[m]["user"] = myJob[m]["user"]
    /\ minerPc[m] \in {"hash", "check", "submit"} => buffer[m] = side[m]

WorkInv == TypeOK /\ (~DecodesByHeight => WorkIsCopy)

LEMMA WorkInit == Init => WorkInv
BY TypeInit DEF Init, WorkInv, WorkIsCopy

\* A miner decodes the user's copy before it goes on, and copies a job only at
\* the beginning of a round.
LEMMA WorkMiner ==
  ASSUME ~DecodesByHeight, TypeOK, WorkIsCopy, NEW m \in Miners, MinerStep(m)
  PROVE  WorkIsCopy'
<1> USE DEF WorkIsCopy, TypeOK, MinerPcs, MinerGoes, Again
<1>0. ASSUME NEW from, Throw(m, from) PROVE WorkIsCopy'
  BY <1>0 DEF Throw
<1>1. CASE WaitForJob(m) BY <1>1 DEF WaitForJob
<1>2. CASE CopyJob(m) BY <1>2 DEF CopyJob
<1>3. CASE CopyDevJob(m) BY <1>3 DEF CopyDevJob
<1>4. CASE CopyCounter(m) BY <1>4 DEF CopyCounter
<1>5. CASE Decode(m)
  <2>1. /\ minerPc' = [minerPc EXCEPT ![m] = "decodeDev"]
        /\ work' = [work EXCEPT ![m]["user"] = myJob[m]["user"]]
        /\ UNCHANGED <<myJob, side, buffer>>
    BY <1>5 DEF Decode
  <2>2. QED BY <2>1 DEF Sides
<1>6. CASE RecordHeight(m) BY <1>6 DEF RecordHeight
<1>7. CASE DecodeDev(m) /\ ~Throw(m, "decodeDev")
  <2>1. minerPc[m] = "decodeDev" /\ UNCHANGED <<myJob, side, buffer>>
    BY <1>7 DEF DecodeDev
  <2>2. \E to \in {"mine", "copy", "wait"} : minerPc' = [minerPc EXCEPT ![m] = to]
    BY <1>7 DEF DecodeDev
  <2>3. CASE work' = [work EXCEPT ![m]["dev"] = myJob[m]["dev"]]
    <3>1. work'[m]["user"] = work[m]["user"]
      BY <2>3 DEF Sides
    <3>2. \A n \in Miners \ {m} : work'[n] = work[n]
      BY <2>3
    <3>3. QED BY <2>1, <2>2, <3>1, <3>2
  <2>4. CASE UNCHANGED work
    BY <2>1, <2>2, <2>4
  <2>5. QED BY <1>7, <2>3, <2>4 DEF DecodeDev
<1>8. CASE Pick(m) BY <1>8 DEF Pick
<1>9. CASE LeaveInner(m) BY <1>9 DEF LeaveInner
<1>10. CASE Hash(m) BY <1>10 DEF Hash
<1>11. CASE Check(m) BY <1>11 DEF Check
<1>12. CASE Submit(m) /\ ~Throw(m, "submit") BY <1>12 DEF Submit
<1>13. CASE Outer(m) BY <1>13 DEF Outer
<1>14. CASE ChooseBuffer(m) BY <1>14 DEF ChooseBuffer, Sides
<1>15. QED
  BY <1>0, <1>1, <1>2, <1>3, <1>4, <1>5, <1>6, <1>7, <1>8, <1>9, <1>10, <1>11,
     <1>12, <1>13, <1>14 DEF MinerStep

LEMMA WorkStep == WorkInv /\ [Next]_vars => WorkInv'
<1> SUFFICES ASSUME WorkInv, [Next]_vars PROVE WorkInv'
  OBVIOUS
<1>1. TypeOK'
  BY TypeStep DEF WorkInv
<1>2. SUFFICES ASSUME ~DecodesByHeight' PROVE WorkIsCopy'
  BY <1>1 DEF WorkInv
<1>3. ~DecodesByHeight /\ WorkIsCopy
  BY <1>2, ChoiceStays DEF DecodesByHeight, WorkInv
<1>4. CASE UNCHANGED minerVars
  BY <1>3, <1>4 DEF WorkIsCopy, minerVars
<1>5. QED BY <1>3, <1>4, NetKeepsMiners, WorkMiner DEF Next, vars, WorkInv

\* Where every copied job is decoded (RX0 and Dero), a user's share is submitted
\* under the id of the job it was found on.
THEOREM UserShareNamed == Spec => []DecodedShareNamesItsJob
<1>1. WorkInv => DecodedShareNamesItsJob
  BY DEF WorkInv, WorkIsCopy, DecodedShareNamesItsJob, UserShareNamesItsJob, FoundOn
<1>2. QED BY <1>1, WorkInit, WorkStep, PTL DEF Spec

-----------------------------------------------------------------------------
(* No job is overlooked, where the handlers hold the mutex and nothing else *)
(* touches jobCounter.                                                      *)

\* The handlers and the copying exclude one another.
Locking ==
  /\ \A s \in Sides : netPc[s] # "idle" => mutex = s
  /\ \A m \in Miners : minerPc[m] \in {"copyDev", "copyCounter"} => mutex = m
  /\ \A s \in Sides : netPc[s] = "store" => loaded[s] = jobCounter
  /\ \A m \in Miners : seen[m] <= jobCounter

\* A lost connection is made again while every miner waits for it.
Waiting ==
  /\ netPc["user"] \in {"replace", "flag"} /\ ~connected["user"] =>
       \A m \in Miners : minerPc[m] = "wait"
  /\ netPc["user"] = "flag" /\ FlagsAtLogin => ~connected["user"]

\* A copy is the latest job while the copying goes on, and later as long as the
\* counter has not changed, unless a handler is about to change it.
Copied(m, s) ==
  /\ minerPc[m] \in (IF s = "user" THEN {"copyDev", "copyCounter"} ELSE {"copyCounter"}) =>
       myJob[m][s] = job[s]
  /\ minerPc[m] \in {"decode", "record", "decodeDev", "recordDev",
                     "mine", "buffer", "hash", "check", "submit"} /\ ~Stale(m) =>
       \/ myJob[m][s] = job[s]
       \/ netPc[s] \in {"flag", "height", "load", "store"}

Latest == Locking /\ Waiting /\ \A m \in Miners, s \in Announced : Copied(m, s)

LatestInv == TypeOK /\ (CounterIsLocked => Latest)

LEMMA LatestInit == Init => LatestInv
BY TypeInit DEF Init, LatestInv, Latest, Locking, Waiting, Copied, Announced, Sides

\* The handlers: the counter moves past what every miner has seen, and only
\* RX0's login, with all miners waiting, leaves it alone.
LEMMA LatestNet ==
  ASSUME CounterIsLocked, TypeOK, Latest, TypeOK',
         NEW s \in Sides, s \in Pools,
         Receive(s) \/ SetDifficulty(s) \/ Disconnect(s) \/ HandlerStep(s)
  PROVE  Latest'
<1> USE BroadcastAssumption
    DEF Latest, TypeOK, Locking, Waiting, Copied, Stale, NetGoes, NetPcs, minerVars,
        Sides, None, FlagsAtLogin, Announced
<1>0. ~LocksLate /\ LocksJobs
  BY DEF CounterIsLocked, LocksJobs, LocksLate
<1>1. CASE Receive(s) BY <1>0, <1>1 DEF Receive
<1>2. CASE SetDifficulty(s) BY <1>2 DEF SetDifficulty, CounterIsLocked
<1>3. CASE Disconnect(s) BY <1>3 DEF Disconnect
<1>4. CASE ReplaceJob(s) BY <1>0, <1>4 DEF ReplaceJob
<1>5. CASE FlagConnected(s)
  <2>1. /\ netPc[s] = "flag"
        /\ connected' = [connected EXCEPT ![s] = TRUE]
        /\ UNCHANGED <<job, height, jobCounter, loaded, minerVars>>
    BY <1>5 DEF FlagConnected
  <2>2. CASE FlagsAtLogin
    <3>1. netPc' = [netPc EXCEPT ![s] = "idle"] /\ mutex' = None
      BY <1>5, <2>2 DEF FlagConnected, DecodesByHeight
    <3>2. QED BY <2>1, <2>2, <3>1
  <2>3. CASE ~FlagsAtLogin
    <3>1. /\ \E to \in {"height", "load"} : netPc' = [netPc EXCEPT ![s] = to]
          /\ UNCHANGED mutex
      BY <1>0, <1>5, <2>3 DEF FlagConnected
    <3>2. QED BY <2>1, <2>3, <3>1
  <2>4. QED BY <2>2, <2>3
<1>6. CASE CountHeight(s) BY <1>0, <1>6 DEF CountHeight
<1>7. CASE LoadCounter(s) BY <1>7 DEF LoadCounter
<1>8. CASE StoreCounter(s) BY <1>8 DEF StoreCounter
<1>9. CASE LockLate(s) BY <1>9 DEF LockLate
<1>10. QED
  BY <1>1, <1>2, <1>3, <1>4, <1>5, <1>6, <1>7, <1>8, <1>9 DEF HandlerStep

\* Where a miner works on what it has copied.
AtWork == {"decode", "record", "decodeDev", "recordDev",
           "mine", "buffer", "hash", "check", "submit"}

\* A miner that copies nothing keeps what it knows of the jobs, or forgets it.
LEMMA LatestFrame ==
  ASSUME TypeOK, Latest, NEW m \in Miners, NEW to \in MinerPcs \ {"copyDev", "copyCounter"},
         minerPc[m] \notin {"copyDev", "copyCounter"},
         minerPc[m] = "wait" => connected["user"],
         minerPc' = [minerPc EXCEPT ![m] = to],
         \/ UNCHANGED seen /\ (to \in AtWork => minerPc[m] \in AtWork)
         \/ to \notin AtWork /\ seen' = [seen EXCEPT ![m] = Forgotten],
         UNCHANGED <<mutex, netVars, myJob>>
  PROVE  Latest'
<1>1. /\ minerPc'[m] = to /\ \A n \in Miners \ {m} : minerPc'[n] = minerPc[n]
      /\ \A n \in Miners \ {m} : seen'[n] = seen[n]
      /\ seen'[m] = seen[m] \/ (to \notin AtWork /\ seen'[m] = -1)
      /\ seen[m] \in Int /\ jobCounter \in Nat
      /\ UNCHANGED <<protocol, job, connected, jobCounter, netPc, loaded>>
  BY DEF TypeOK, Forgotten, netVars
<1>2. Locking'
  BY <1>1 DEF Latest, Locking
<1>3. Waiting'
  BY <1>1 DEF Latest, Waiting, FlagsAtLogin
<1>4. ASSUME NEW n \in Miners, NEW s \in Announced' PROVE Copied(n, s)'
  <2>1. Copied(n, s)
    BY <1>1, <1>4 DEF Latest, Announced, FlagsAtLogin
  <2>2. CASE n = m
    BY <1>1, <2>1, <2>2 DEF Copied, Stale, AtWork
  <2>3. CASE n # m
    BY <1>1, <2>1, <2>3 DEF Copied, Stale
  <2>4. QED BY <2>2, <2>3
<1>5. QED BY <1>2, <1>3, <1>4 DEF Latest

\* The miners: a round begins by copying under the mutex.
LEMMA LatestMiner ==
  ASSUME TypeOK, Latest, TypeOK', NEW m \in Miners, MinerStep(m)
  PROVE  Latest'
<1>1. CASE CopyJob(m) \/ CopyDevJob(m) \/ CopyCounter(m)
  <2> USE BroadcastAssumption
      DEF Latest, TypeOK, Locking, Waiting, Copied, Stale, MinerGoes, MinerPcs, netVars,
          None, FlagsAtLogin, Announced
  <2>1. CASE CopyJob(m) BY <2>1 DEF CopyJob, Sides
  <2>2. CASE CopyDevJob(m) BY <2>2 DEF CopyDevJob, Sides
  <2>3. CASE CopyCounter(m) BY <2>3 DEF CopyCounter, Sides
  <2>4. QED BY <1>1, <2>1, <2>2, <2>3
<1>2. CASE ~(CopyJob(m) \/ CopyDevJob(m) \/ CopyCounter(m))
  <2> USE DEF MinerGoes, Again, AtWork
  <2> DEFINE Framed == \E to \in MinerPcs \ {"copyDev", "copyCounter"} :
        /\ minerPc[m] \notin {"copyDev", "copyCounter"}
        /\ minerPc[m] = "wait" => connected["user"]
        /\ minerPc' = [minerPc EXCEPT ![m] = to]
        /\ \/ UNCHANGED seen /\ (to \in AtWork => minerPc[m] \in AtWork)
           \/ to \notin AtWork /\ seen' = [seen EXCEPT ![m] = Forgotten]
        /\ UNCHANGED <<mutex, netVars, myJob>>
  <2>1. Framed
    <3>1. ASSUME NEW from \in {"decodeDev", "submit"}, Throw(m, from) PROVE Framed
      <4>1. Again \in MinerPcs \ {"copyDev", "copyCounter"} /\ Again \notin AtWork
        BY DEF MinerPcs
      <4>2. /\ minerPc[m] = from /\ from \notin {"copyDev", "copyCounter", "wait"}
            /\ minerPc' = [minerPc EXCEPT ![m] = Again]
            /\ seen' = [seen EXCEPT ![m] = Forgotten]
            /\ UNCHANGED <<mutex, netVars, myJob>>
        BY <3>1 DEF Throw
      <4>3. QED
        <5> HIDE DEF Again, AtWork
        <5> QED BY <4>1, <4>2
    <3>2. CASE WaitForJob(m) BY <3>2 DEF WaitForJob, MinerPcs
    <3>3. CASE Decode(m) BY <3>3 DEF Decode, MinerPcs
    <3>4. CASE RecordHeight(m) BY <3>4 DEF RecordHeight, MinerPcs
    <3>5. CASE DecodeDev(m) BY <3>1, <3>5 DEF DecodeDev, MinerPcs
    <3>6. CASE Pick(m) BY <3>6 DEF Pick, MinerPcs
    <3>7. CASE LeaveInner(m) BY <3>7 DEF LeaveInner, MinerPcs
    <3>8. CASE Hash(m) BY <3>8 DEF Hash, MinerPcs
    <3>9. CASE Check(m) BY <3>9 DEF Check, MinerPcs
    <3>10. CASE Submit(m) BY <3>1, <3>10 DEF Submit, MinerPcs
    <3>11. CASE Outer(m) BY <3>11 DEF Outer, MinerPcs
    <3>12. CASE ChooseBuffer(m) BY <3>12 DEF ChooseBuffer, MinerPcs
    <3>13. QED
      BY <1>2, <3>2, <3>3, <3>4, <3>5, <3>6, <3>7, <3>8, <3>9, <3>10, <3>11, <3>12
         DEF MinerStep
  <2>2. QED BY <2>1, LatestFrame
<1>3. QED BY <1>1, <1>2

LEMMA LatestStep == LatestInv /\ [Next]_vars => LatestInv'
<1> SUFFICES ASSUME LatestInv, [Next]_vars PROVE LatestInv'
  OBVIOUS
<1>1. TypeOK'
  BY TypeStep DEF LatestInv
<1>2. SUFFICES ASSUME CounterIsLocked' PROVE Latest'
  BY <1>1 DEF LatestInv
<1>3. CounterIsLocked /\ TypeOK /\ Latest
  BY <1>2, ChoiceStays DEF CounterIsLocked, LocksJobs, LatestInv
<1>4. CASE UNCHANGED vars
  BY <1>3, <1>4
     DEF Latest, Locking, Waiting, Copied, Stale, FlagsAtLogin, Announced, vars, netVars,
         minerVars
<1>5. QED BY <1>1, <1>3, <1>4, LatestNet, LatestMiner, BroadcastAssumption DEF Next

\* Where the handlers hold the mutex and changes of difficulty do not touch the
\* counter (RX0; Spectre in between), a miner that sees no change has the user's
\* latest job, and with Spectre the dev's.
THEOREM NoJobMissed == Spec => []NoMissedJob
<1>1. LatestInv => NoMissedJob
  BY DEF LatestInv, Latest, TypeOK, Copied, NoMissedJob, Unaware, Announced
<1>2. QED BY <1>1, LatestInit, LatestStep, PTL DEF Spec

-----------------------------------------------------------------------------
(* No share of a buffer that was never filled, where the heights are        *)
(* compared.                                                                *)

\* A flagged side has had a job, and so has the user's while a miner is at work.
SidesHaveJobs ==
  \A s \in Sides :
    connected[s] \/ netPc[s] \in {"lock", "flag", "height"} => job[s] # NoJob

\* What a miner has copied and decoded: a height it has recorded belongs to a
\* decoded job, and it mines for the dev only once there is a height.
Filled(m) ==
  /\ minerPc[m] # "wait" => job["user"] # NoJob
  /\ minerPc[m] \notin {"wait", "copy"} => myJob[m]["user"] # NoJob
  /\ minerPc[m] \notin {"wait", "copy", "copyDev", "copyCounter", "decode", "outer"} =>
       work[m]["user"] # NoJob
  /\ \A s \in Sides : myHeight[m][s] > 0 => work[m][s] # NoJob
  /\ minerPc[m] = "recordDev" => work[m]["dev"] # NoJob
  /\ side[m] = "dev" =>
       /\ minerPc[m] \in {"buffer", "hash", "check"} => height["dev"] > 0
       /\ minerPc[m] = "submit" => work[m]["dev"] # NoJob
  /\ minerPc[m] \in {"hash", "check", "submit"} /\ buffer[m] = "dev" => side[m] = "dev"

FilledAll == SidesHaveJobs /\ \A m \in Miners : Filled(m)

FilledInv == TypeOK /\ (DecodesByHeight => FilledAll)

LEMMA FilledInit == Init => FilledInv
BY TypeInit DEF Init, FilledInv, FilledAll, SidesHaveJobs, Filled, Sides, NoJob

\* The handlers: jobs and heights only grow.
LEMMA FilledNet ==
  ASSUME DecodesByHeight, TypeOK, FilledAll, NEW s \in Sides,
         Receive(s) \/ SetDifficulty(s) \/ Disconnect(s) \/ HandlerStep(s)
  PROVE  FilledAll'
<1> USE DEF TypeOK, FilledAll, SidesHaveJobs, NetGoes, NetPcs
<1>0. UNCHANGED minerVars
  BY NetKeepsMiners
<1>1. /\ \A t \in Sides : job'[t] >= job[t] /\ job'[t] \in Nat
      /\ \A t \in Sides : height'[t] >= height[t] /\ height'[t] \in Nat
  <2>1. CASE ReplaceJob(s) BY <2>1 DEF ReplaceJob
  <2>2. CASE CountHeight(s) BY <2>2 DEF CountHeight
  <2>3. CASE UNCHANGED <<job, height>> BY <2>3
  <2>4. QED
    BY <2>1, <2>2, <2>3 DEF Receive, SetDifficulty, Disconnect, HandlerStep, FlagConnected,
       LockLate, LoadCounter, StoreCounter
<1>2. \A m \in Miners : Filled(m)'
  BY <1>0, <1>1 DEF Filled, minerVars, Sides, NoJob
<1>3. SidesHaveJobs'
  <2>1. CASE ReplaceJob(s) BY <2>1 DEF ReplaceJob, NoJob
  <2>2. CASE Receive(s) BY <2>2 DEF Receive
  <2>3. CASE SetDifficulty(s) BY <2>3 DEF SetDifficulty
  <2>4. CASE Disconnect(s) BY <2>4 DEF Disconnect
  <2>5. CASE FlagConnected(s) BY <2>5 DEF FlagConnected
  <2>6. CASE CountHeight(s) BY <2>6 DEF CountHeight
  <2>7. CASE LockLate(s) BY <2>7 DEF LockLate
  <2>8. CASE LoadCounter(s) BY <2>8 DEF LoadCounter
  <2>9. CASE StoreCounter(s) BY <2>9 DEF StoreCounter
  <2>10. QED
    BY <2>1, <2>2, <2>3, <2>4, <2>5, <2>6, <2>7, <2>8, <2>9 DEF HandlerStep
<1>4. QED BY <1>2, <1>3

\* Writing one cell of a table leaves the other cells alone.
LEMMA CellWrite ==
  ASSUME NEW table \in [Miners -> [Sides -> Int]], NEW m \in Miners, NEW s \in Sides, NEW n
  PROVE  /\ [table EXCEPT ![m][s] = n][m][s] = n
         /\ \A t \in Sides \ {s} : [table EXCEPT ![m][s] = n][m][t] = table[m][t]
OBVIOUS

\* The miners: a share is handed over after the heights were compared once more.
LEMMA FilledMiner ==
  ASSUME DecodesByHeight, TypeOK, FilledAll, NEW m \in Miners, MinerStep(m), TypeOK'
  PROVE  FilledAll'
<1> USE DEF FilledAll, Filled, MinerPcs, MinerGoes, Again, Sides, NoJob
<1>t. /\ job \in [Sides -> Nat] /\ height \in [Sides -> Nat]
      /\ connected \in [Sides -> BOOLEAN]
      /\ minerPc \in [Miners -> MinerPcs] /\ side \in [Miners -> Sides]
      /\ buffer \in [Miners -> Sides]
      /\ myJob \in [Miners -> [Sides -> Nat]] /\ work \in [Miners -> [Sides -> Nat]]
      /\ myHeight \in [Miners -> [Sides -> Int]]
  BY DEF TypeOK
<1>0. /\ UNCHANGED <<job, connected, netPc, height>>
      /\ \A n \in Miners \ {m} :
           /\ UNCHANGED <<minerPc[n], work[n], myHeight[n], side[n], buffer[n]>>
           /\ UNCHANGED myJob[n]
  BY <1>t DEF MinerStep, WaitForJob, CopyJob, CopyDevJob, CopyCounter, Decode,
     RecordHeight, DecodeDev, Pick, ChooseBuffer, LeaveInner, Hash, Check, Submit, Outer, Throw, netVars
<1>a. SidesHaveJobs' /\ \A n \in Miners \ {m} : Filled(n)'
  BY <1>t, <1>0 DEF SidesHaveJobs
<1>b. SUFFICES Filled(m)'
  BY <1>t, <1>a
<1>c. connected["user"] => job["user"] # NoJob
  BY <1>t DEF SidesHaveJobs
<1>d. ASSUME NEW from, Throw(m, from) PROVE Filled(m)'
  BY <1>t, <1>d, <1>0, <1>c DEF Throw, Forgotten
<1>1. CASE WaitForJob(m) BY <1>t, <1>0, <1>1, <1>c DEF WaitForJob
<1>2. CASE CopyJob(m) BY <1>t, <1>0, <1>2 DEF CopyJob
<1>3. CASE CopyDevJob(m)
  <2>1. myJob'[m]["user"] = myJob[m]["user"]
    BY <1>t, <1>3, CellWrite DEF CopyDevJob
  <2>2. /\ minerPc[m] = "copyDev" /\ minerPc'[m] = "copyCounter"
        /\ UNCHANGED <<work, myHeight, side, buffer>>
    BY <1>t, <1>3 DEF CopyDevJob
  <2>3. QED BY <1>t, <1>0, <2>1, <2>2
<1>4. CASE CopyCounter(m) BY <1>t, <1>0, <1>4 DEF CopyCounter
<1>5. CASE Decode(m)
  <2>1. minerPc[m] = "decode" /\ UNCHANGED <<myJob, myHeight, side, buffer>>
    BY <1>t, <1>5 DEF Decode
  <2>2. CASE minerPc'[m] = "copy" /\ UNCHANGED work
    BY <1>t, <1>0, <2>1, <2>2
  <2>3. CASE minerPc'[m] = "record" /\ work' = [work EXCEPT ![m]["user"] = myJob[m]["user"]]
    BY <1>t, <1>0, <2>1, <2>3
  <2>4. CASE ~NewHeight(m, "user") /\ minerPc'[m] = "decodeDev" /\ UNCHANGED work
    <3>1. myHeight[m]["user"] > 0
      BY <1>t, <2>4 DEF NewHeight
    <3>2. QED BY <1>t, <1>0, <2>1, <2>4, <3>1
  <2>5. QED BY <1>t, <1>5, <2>2, <2>3, <2>4 DEF Decode
<1>6. CASE RecordHeight(m)
  <2>1. UNCHANGED <<myJob, work, side, buffer>>
    BY <1>t, <1>6 DEF RecordHeight
  <2>2. CASE /\ minerPc[m] = "record" /\ minerPc'[m] = "decodeDev"
             /\ myHeight' = [myHeight EXCEPT ![m]["user"] = height["user"]]
    <3>1. myHeight'[m]["dev"] = myHeight[m]["dev"]
      BY <1>t, <2>2, CellWrite
    <3>2. \A s \in Sides : myHeight'[m][s] > 0 => work'[m][s] # NoJob
      BY <1>t, <2>1, <2>2, <3>1
    <3>3. minerPc[m] = "record" /\ minerPc'[m] = "decodeDev"
      BY <1>t, <2>2
    <3>4. QED BY <1>t, <1>0, <2>1, <3>2, <3>3
  <2>3. CASE /\ minerPc[m] = "recordDev" /\ minerPc'[m] = "mine"
             /\ myHeight' = [myHeight EXCEPT ![m]["dev"] = height["dev"]]
    <3>1. myHeight'[m]["user"] = myHeight[m]["user"]
      BY <1>t, <2>3, CellWrite
    <3>2. \A s \in Sides : myHeight'[m][s] > 0 => work'[m][s] # NoJob
      BY <1>t, <2>1, <2>3, <3>1
    <3>3. minerPc[m] = "recordDev" /\ minerPc'[m] = "mine"
      BY <1>t, <2>3
    <3>4. QED BY <1>t, <1>0, <2>1, <3>2, <3>3
  <2>4. QED BY <1>t, <1>6, <2>2, <2>3 DEF RecordHeight
<1>7. CASE DecodeDev(m) /\ ~Throw(m, "decodeDev")
  <2>1. minerPc[m] = "decodeDev" /\ UNCHANGED <<myJob, myHeight, side, buffer>>
    BY <1>t, <1>7 DEF DecodeDev
  <2>2. CASE /\ minerPc'[m] = "recordDev" /\ myJob[m]["dev"] # NoJob
             /\ work' = [work EXCEPT ![m]["dev"] = myJob[m]["dev"]]
    <3>1. work'[m]["user"] = work[m]["user"] /\ work'[m]["dev"] # NoJob
      BY <1>t, <2>2, CellWrite
    <3>2. QED BY <1>t, <1>0, <2>1, <2>2, <3>1
  <2>3. CASE minerPc'[m] = "mine" /\ UNCHANGED work
    BY <1>t, <1>0, <2>1, <2>3
  <2>4. QED BY <1>t, <1>7, <2>2, <2>3 DEF DecodeDev
<1>8. CASE Pick(m)
  <2>1. MayMineForDev => height["dev"] > 0
    BY <1>t DEF MayMineForDev, DecodesByHeight
  <2>2. QED BY <1>t, <1>0, <1>8, <2>1 DEF Pick
<1>9. CASE LeaveInner(m) BY <1>t, <1>0, <1>9 DEF LeaveInner
<1>10. CASE Hash(m) BY <1>t, <1>0, <1>10 DEF Hash
<1>11. CASE Check(m)
  <2>1. /\ minerPc[m] = "check" /\ UNCHANGED <<myJob, work, myHeight, side, buffer>>
        /\ \/ minerPc'[m] = "outer"
           \/ minerPc'[m] = "submit" /\ myHeight[m][side[m]] = height[side[m]]
    BY <1>t, <1>11 DEF Check
  <2>2. QED BY <1>t, <1>0, <2>1
<1>12. CASE Submit(m) /\ ~Throw(m, "submit")
  <2>1. /\ minerPc[m] = "submit" /\ minerPc'[m] = "mine"
        /\ UNCHANGED <<myJob, work, myHeight, side, buffer>>
    BY <1>t, <1>12 DEF Submit
  <2>2. QED BY <1>t, <1>0, <2>1
<1>13. CASE Outer(m) BY <1>t, <1>0, <1>13, <1>c DEF Outer
<1>14. CASE ChooseBuffer(m)
  <2>1. /\ minerPc[m] = "buffer" /\ minerPc'[m] = "hash"
        /\ buffer'[m] \in {"user", side[m]}
        /\ UNCHANGED <<myJob, work, myHeight, side>>
    BY <1>t, <1>14 DEF ChooseBuffer
  <2>2. QED BY <1>t, <1>0, <2>1
<1>15. QED
  BY <1>t, <1>d, <1>1, <1>2, <1>3, <1>4, <1>5, <1>6, <1>7, <1>8, <1>9, <1>10, <1>11,
     <1>12, <1>13, <1>14 DEF MinerStep

LEMMA FilledStep == FilledInv /\ [Next]_vars => FilledInv'
<1> SUFFICES ASSUME FilledInv, [Next]_vars PROVE FilledInv'
  OBVIOUS
<1>1. TypeOK /\ TypeOK'
  BY TypeStep DEF FilledInv
<1>2. SUFFICES ASSUME DecodesByHeight' PROVE FilledAll'
  BY <1>1 DEF FilledInv
<1>3. DecodesByHeight /\ FilledAll
  BY <1>2, ChoiceStays DEF DecodesByHeight, FilledInv
<1>4. CASE UNCHANGED vars
  BY <1>3, <1>4 DEF FilledAll, SidesHaveJobs, Filled, vars, netVars, minerVars
<1>5. QED BY <1>1, <1>3, <1>4, FilledNet, FilledMiner, BroadcastAssumption DEF Next

\* Where the heights are compared (Spectre, Xelis and its getwork), no share is
\* made of a buffer that was never filled.
THEOREM DecodedFirst == Spec => []DecodedBeforeShare
<1>1. FilledInv => DecodedBeforeShare
  BY DEF FilledInv, FilledAll, Filled, TypeOK, DecodedBeforeShare, FoundOn, Sides
<1>2. QED BY <1>1, FilledInit, FilledStep, PTL DEF Spec

=============================================================================
