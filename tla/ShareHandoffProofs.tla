------------------------- MODULE ShareHandoffProofs -------------------------
(***************************************************************************)
(* Proofs about ShareHandoff, for any number of mining threads, any        *)
(* protocol and any bounds.                                                *)
(***************************************************************************)
EXTENDS ShareHandoff, TLAPS

-----------------------------------------------------------------------------
(* Type correctness. *)

\* Notified moves sleeping threads to the mutex and leaves the others alone.
LEMMA NotifiedType ==
  ASSUME NEW pcs \in [Sides -> ThreadPcs]
  PROVE  /\ Notified(pcs) \in [Sides -> ThreadPcs]
         /\ \A s \in Sides : IF pcs[s] = "waiting" THEN Notified(pcs)[s] = "lock"
                             ELSE Notified(pcs)[s] = pcs[s]
BY DEF Notified, ThreadPcs

\* The initial state has the right types.
LEMMA InitType == Init => TypeOK
<1> SUFFICES ASSUME Init PROVE TypeOK
  OBVIOUS
<1>1. "user" \in Sides
  BY ConstantsAssumption
<1>2. <<>> \in Seq(Int)
  OBVIOUS
<1>3. /\ side \in [Miners -> Sides]
      /\ sent \in [Sides -> Seq(Int)]
  BY <1>1, <1>2 DEF Init
<1>4. /\ sessionPc \in [Sides -> SessionPcs]
      /\ threadPc \in [Sides -> ThreadPcs]
      /\ orphanPc \in [Sides -> OrphanPcs]
      /\ minerPc \in [Miners -> MinerPcs]
  BY DEF Init, SessionPcs, ThreadPcs, OrphanPcs, MinerPcs
<1>5. /\ submitting \in [Sides -> BOOLEAN]
      /\ connected \in [Sides -> BOOLEAN]
      /\ abort \in [Sides -> BOOLEAN]
      /\ inflight \in [Sides -> BOOLEAN]
      /\ dataReady \in BOOLEAN
  BY DEF Init
<1>6. /\ share \in [Sides -> Int]
      /\ sessions \in [Sides -> Nat]
      /\ claims \in [Sides -> Nat]
      /\ seen \in [Miners -> Nat]
      /\ myShare \in [Miners -> Nat]
  BY DEF Init, Empty
<1>7. /\ mutex \in Sides \cup {None, Orphan}
      /\ cause \in [Sides -> {"readError", "timeout"} \cup {None}]
      /\ jobCounter \in Nat
      /\ found \in Nat
  BY DEF Init
<1>8. QED BY <1>3, <1>4, <1>5, <1>6, <1>7 DEF TypeOK

\* A step of a submit thread keeps the types.
LEMMA ThreadType ==
  ASSUME TypeOK, NEW s \in Sides, SubmitThreadStep(s) \/ SpuriousWakeup(s)
  PROVE  TypeOK'
<1> USE DEF TypeOK, ThreadGoes, ThreadPcs, flagVars, sessionVars, minerVars
<1>1. CASE ThreadStart(s) BY <1>1 DEF ThreadStart
<1>2. CASE TestAbort(s) BY <1>2 DEF TestAbort
<1>3. CASE Lock(s) BY <1>3 DEF Lock
<1>4. CASE Evaluate(s) BY <1>4 DEF Evaluate
<1>5. CASE Block(s) BY <1>5 DEF Block
<1>6. CASE Send(s) BY <1>6 DEF Send
<1>7. CASE SendThrows(s) BY <1>7 DEF SendThrows
<1>8. CASE ClearSubmitting(s) BY <1>8 DEF ClearSubmitting
<1>9. CASE ClearReady(s) BY <1>9 DEF ClearReady
<1>10. CASE ThreadExit(s) BY <1>10 DEF ThreadExit
<1>11. CASE SpuriousWakeup(s) BY <1>11 DEF SpuriousWakeup
<1>12. QED
  BY <1>1, <1>2, <1>3, <1>4, <1>5, <1>6, <1>7, <1>8, <1>9, <1>10, <1>11
     DEF SubmitThreadStep

\* A step of an orphan keeps the types.
LEMMA OrphanType ==
  ASSUME TypeOK, NEW s \in Sides, OrphanStep(s)
  PROVE  TypeOK'
<1> USE DEF TypeOK, OrphanGoes, OrphanPcs, minerVars
<1>1. CASE OrphanEnds(s) BY <1>1 DEF OrphanEnds
<1>2. CASE OrphanDecides(s) BY <1>2 DEF OrphanDecides
<1>3. CASE OrphanSend(s)
  <2>1. sent' \in [Sides -> Seq(Int)]
    <3>1. Append(sent[s], share[s]) \in Seq(Int)
      OBVIOUS
    <3>2. QED BY <1>3, <3>1 DEF OrphanSend
  <2>2. QED BY <1>3, <2>1 DEF OrphanSend
<1>4. CASE OrphanThrows(s) BY <1>4 DEF OrphanThrows
<1>5. CASE OrphanClearSubmitting(s) BY <1>5 DEF OrphanClearSubmitting
<1>6. CASE OrphanClearReady(s) BY <1>6 DEF OrphanClearReady
<1>7. QED
  BY <1>1, <1>2, <1>3, <1>4, <1>5, <1>6 DEF OrphanStep, OrphanHolds

\* A step of a session, its pool or its connection keeps the types.
LEMMA SessionType ==
  ASSUME TypeOK, NEW s \in Sides,
         TearDownStep(s) \/ Open(s) \/ JobArrives(s) \/ WriteDone(s) \/ Fail(s)
  PROVE  TypeOK'
<1> USE DEF TypeOK, SessionGoes, SessionPcs, threadVars, flagVars, sessionVars, minerVars
<1>1. CASE DropConnected(s) BY <1>1 DEF DropConnected
<1>2. CASE DropSubmitting(s) BY <1>2 DEF DropSubmitting
<1>3. CASE RaiseAbort(s) BY <1>3 DEF RaiseAbort
<1>4. CASE RaiseReady(s) BY <1>4 DEF RaiseReady
<1>5. CASE NotifyAll(s) BY <1>5, NotifiedType DEF NotifyAll
<1>6. CASE Renotify(s) BY <1>6, NotifiedType DEF Renotify
<1>7. CASE Return(s)
  <2>1. threadPc' \in [Sides -> ThreadPcs] /\ orphanPc' \in [Sides -> OrphanPcs]
    BY <1>7 DEF Return, ThreadPcs, OrphanPcs
  <2>2. QED BY <1>7, <2>1 DEF Return
<1>8. CASE Open(s) BY <1>8 DEF Open, ThreadPcs
<1>9. CASE JobArrives(s) BY <1>9 DEF JobArrives
<1>10. CASE WriteDone(s) BY <1>10 DEF WriteDone
<1>11. CASE Fail(s) 
  <2>1. PICK c \in Causes : cause' = [cause EXCEPT ![s] = c]
    BY <1>11 DEF Fail
  <2>2. c \in {"readError", "timeout"}
    BY ConstantsAssumption
  <2>3. cause' \in [Sides -> {"readError", "timeout"} \cup {None}]
    BY <2>1, <2>2
  <2>4. QED BY <2>3, <1>11 DEF Fail
<1>12. QED
  BY <1>1, <1>2, <1>3, <1>4, <1>5, <1>6, <1>7, <1>8, <1>9, <1>10, <1>11
     DEF TearDownStep

\* A step of a mining thread keeps the types.
LEMMA MinerType ==
  ASSUME TypeOK, NEW m \in Miners, MinerStep(m) \/ FindShare(m)
  PROVE  TypeOK'
<1> USE DEF TypeOK, MinerGoes, MinerPcs, threadVars, flagVars, sessionVars
<1>1. CASE WaitForJob(m) BY <1>1 DEF WaitForJob
<1>2. CASE Snapshot(m) BY <1>2 DEF Snapshot
<1>3. CASE JobChanged(m) BY <1>3 DEF JobChanged
<1>4. CASE LeaveInner(m) BY <1>4 DEF LeaveInner
<1>5. CASE Outer(m) BY <1>5 DEF Outer
<1>6. CASE Kick(m) BY <1>6 DEF Kick
<1>7. CASE KickNotify(m) BY <1>7, NotifiedType DEF KickNotify
<1>8. CASE Spin(m) BY <1>8 DEF Spin
<1>9. CASE Check(m) BY <1>9 DEF Check
<1>10. CASE Claim(m) BY <1>10 DEF Claim
<1>11. CASE Recheck(m) BY <1>11 DEF Recheck
<1>12. CASE WriteBegin(m) BY <1>12 DEF WriteBegin, Torn
<1>13. CASE WriteEnd(m)
  <2> DEFINE v == IF \E n \in Miners \ {m} : minerPc[n] = "writing" /\ side[n] = side[m]
                  THEN Torn ELSE myShare[m]
  <2>1. v \in Int /\ share' = [share EXCEPT ![side[m]] = v]
    BY <1>13 DEF WriteEnd, Torn
  <2> HIDE DEF v
  <2>2. share' \in [Sides -> Int]
    BY <2>1
  <2>3. QED BY <2>2, <1>13 DEF WriteEnd
<1>14. CASE Ready(m) BY <1>14 DEF Ready
<1>15. CASE Notify(m) BY <1>15, NotifiedType DEF Notify
<1>16. CASE FindShare(m)
  <2>1. PICK s \in Sides : side' = [side EXCEPT ![m] = s]
    BY <1>16 DEF FindShare
  <2>2. side' \in [Miners -> Sides]
    BY <2>1
  <2>3. myShare' \in [Miners -> Nat] /\ found' \in Nat
    BY <1>16 DEF FindShare
  <2>4. minerPc' \in [Miners -> MinerPcs]
    BY <1>16 DEF FindShare
  <2>5. UNCHANGED <<seen, claims, sessionVars, threadVars, flagVars>>
    BY <1>16 DEF FindShare
  <2>6. QED BY <2>2, <2>3, <2>4, <2>5
<1>17. QED
  BY <1>1, <1>2, <1>3, <1>4, <1>5, <1>6, <1>7, <1>8, <1>9, <1>10, <1>11, <1>12,
     <1>13, <1>14, <1>15, <1>16 DEF MinerStep

\* Every variable keeps its type.
THEOREM TypeCorrect == Spec => []TypeOK
<1>1. TypeOK /\ [Next]_vars => TypeOK'
  <2> SUFFICES ASSUME TypeOK, [Next]_vars PROVE TypeOK'
    OBVIOUS
  <2>1. CASE UNCHANGED vars
    BY <2>1 DEF vars, threadVars, flagVars, sessionVars, minerVars, TypeOK
  <2>2. CASE Next
    BY <2>2, ThreadType, SessionType, OrphanType, MinerType DEF Next
  <2>3. QED BY <2>1, <2>2
<1>2. QED BY InitType, <1>1, PTL DEF Spec

-----------------------------------------------------------------------------
(* Between two sessions a side has no submit thread but orphans.            *)

ThreadAtRest == \A s \in Sides : sessionPc[s] = "down" => threadPc[s] \in {"none", "done"}

\* Only Open creates a thread, and only Return ends a session: after it has seen
\* the thread end, or has made an orphan of it.
LEMMA RestStep ==
  ASSUME TypeOK, ThreadAtRest, [Next]_vars
  PROVE  ThreadAtRest'
<1> USE DEF TypeOK, ThreadAtRest
<1>1. ASSUME NEW s \in Sides, SubmitThreadStep(s) \/ SpuriousWakeup(s)
      PROVE  ThreadAtRest'
  <2>1. UNCHANGED sessionPc
    BY <1>1 DEF SubmitThreadStep, ThreadStart, TestAbort, Lock, Evaluate, Block, Send,
         SendThrows, ClearSubmitting, ClearReady, ThreadExit, SpuriousWakeup,
         sessionVars
  <2>2. \A t \in Sides \ {s} : threadPc'[t] = threadPc[t]
    BY <1>1 DEF SubmitThreadStep, ThreadStart, TestAbort, Lock, Evaluate, Block, Send,
         SendThrows, ClearSubmitting, ClearReady, ThreadExit, SpuriousWakeup,
         ThreadGoes
  <2>3. threadPc[s] \notin {"none", "done"}
    BY <1>1 DEF SubmitThreadStep, ThreadStart, TestAbort, Lock, Evaluate, Block, Send,
         SendThrows, ClearSubmitting, ClearReady, ThreadExit, SpuriousWakeup,
         ThreadGoes
  <2>4. QED BY <2>1, <2>2, <2>3
<1>2. ASSUME NEW s \in Sides, Return(s)
      PROVE  ThreadAtRest'
  BY <1>2 DEF Return, SessionGoes, SubmitThread, ThreadPcs
<1>3. ASSUME NEW s \in Sides, Open(s)
      PROVE  ThreadAtRest'
  BY <1>3 DEF Open, SessionGoes
<1>4. ASSUME NEW s \in Sides,
             \/ DropConnected(s) \/ DropSubmitting(s) \/ RaiseAbort(s) \/ RaiseReady(s)
             \/ NotifyAll(s) \/ Renotify(s) \/ JobArrives(s) \/ WriteDone(s) \/ Fail(s)
      PROVE  ThreadAtRest'
  <2>1. \A t \in Sides : sessionPc'[t] = "down" => sessionPc[t] = "down"
    BY <1>4 DEF DropConnected, DropSubmitting, RaiseAbort, RaiseReady, NotifyAll, Renotify,
         JobArrives, WriteDone, Fail, SessionGoes, sessionVars
  <2>2. threadPc' = threadPc \/ threadPc' = Notified(threadPc)
    BY <1>4 DEF DropConnected, DropSubmitting, RaiseAbort, RaiseReady, NotifyAll, Renotify,
         JobArrives, WriteDone, Fail, threadVars
  <2>3. \A t \in Sides : threadPc'[t] = threadPc[t] \/ threadPc[t] = "waiting"
    BY <2>2, NotifiedType
  <2>4. QED BY <2>1, <2>3
<1>5. ASSUME NEW m \in Miners, MinerStep(m) \/ FindShare(m)
      PROVE  ThreadAtRest'
  <2>1. /\ UNCHANGED sessionPc
        /\ threadPc' = threadPc \/ threadPc' = Notified(threadPc)
    BY <1>5 DEF MinerStep, WaitForJob, Snapshot, JobChanged, LeaveInner, Outer, Kick,
         KickNotify, Spin, Check, Claim, Recheck, WriteBegin, WriteEnd, Ready, Notify,
         FindShare, threadVars, sessionVars
  <2>2. \A t \in Sides : threadPc'[t] = threadPc[t] \/ threadPc[t] = "waiting"
    BY <2>1, NotifiedType
  <2>3. QED BY <2>1, <2>2
<1>6. ASSUME NEW s \in Sides, OrphanStep(s)
      PROVE  ThreadAtRest'
  BY <1>6 DEF OrphanStep, OrphanHolds, OrphanEnds, OrphanDecides, OrphanSend, OrphanThrows,
     OrphanClearSubmitting, OrphanClearReady, OrphanGoes
<1>7. CASE UNCHANGED vars
  BY <1>7 DEF vars, threadVars, sessionVars
<1>8. QED BY <1>1, <1>2, <1>3, <1>4, <1>5, <1>6, <1>7 DEF Next, TearDownStep

\* When a session begins, the previous one's thread has ended or is an orphan.
LEMMA AtRest == Spec => []ThreadAtRest
<1>1. Init => ThreadAtRest
  BY DEF Init, ThreadAtRest
<1>2. TypeOK /\ ThreadAtRest /\ [Next]_vars => ThreadAtRest'
  BY RestStep
<1>3. QED BY <1>1, <1>2, TypeCorrect, PTL DEF Spec

-----------------------------------------------------------------------------
(* Mutual exclusion of the submit threads, and what it protects: dataReady  *)
(* is dropped only by a thread that owns the mutex.                         *)

ExclusionInv == SubmitExclusion /\ ReadyHeldWhileSending

\* A step that neither moves a thread into or out of its critical section nor
\* touches the mutex, and drops no data_ready, keeps the invariant.
LEMMA ExclusionFrame ==
  ASSUME TypeOK, ExclusionInv, UNCHANGED mutex, dataReady' \in {dataReady, TRUE},
         \A s \in Sides : threadPc'[s] = threadPc[s]
                          \/ (~InCritical(s) /\ ~InCritical(s)'),
         \A s \in Sides : OrphanInCritical(s)' <=> OrphanInCritical(s)
  PROVE  ExclusionInv'
<1>1. \A s \in Sides : InCritical(s)' <=> InCritical(s)
  BY DEF InCritical
<1>2. SubmitExclusion'
  BY <1>1 DEF ExclusionInv, SubmitExclusion
<1>3. ReadyHeldWhileSending'
  BY DEF ExclusionInv, ReadyHeldWhileSending, InCritical, TypeOK
<1>4. QED BY <1>2, <1>3 DEF ExclusionInv

\* Only the steps that take or leave the mutex, or drop data_ready, matter.
LEMMA ExclusionStep ==
  ASSUME TypeOK, ThreadAtRest, ExclusionInv, [Next]_vars
  PROVE  ExclusionInv'
<1> USE DEF InCritical, OrphanInCritical
<1>0. None \notin Sides /\ Orphan \notin Sides \cup {None}
  BY ConstantsAssumption DEF None, Orphan
<1>1. ASSUME NEW s \in Sides, SubmitThreadStep(s) \/ SpuriousWakeup(s)
      PROVE  ExclusionInv'
  <2> USE <1>1 DEF TypeOK, ThreadGoes, ThreadPcs, flagVars, sessionVars, minerVars
  <2>1. CASE ThreadStart(s) BY <2>1, ExclusionFrame DEF ThreadStart
  <2>2. CASE TestAbort(s) BY <2>2, ExclusionFrame DEF TestAbort
  <2>3. CASE Lock(s)
    BY <2>3, <1>0 DEF Lock, ExclusionInv, SubmitExclusion, ReadyHeldWhileSending
  <2>4. CASE Evaluate(s)
    <3>1. None \notin Sides /\ mutex = s
      BY <1>0, <2>4 DEF Evaluate, ExclusionInv, SubmitExclusion
    <3>2. \A t \in Sides \ {s} : ~InCritical(t) /\ threadPc'[t] = threadPc[t]
      BY <2>4, <3>1 DEF Evaluate, ExclusionInv, SubmitExclusion
    <3>3. dataReady' = dataReady
      BY <2>4 DEF Evaluate
    <3>o. UNCHANGED orphanPc /\ \A t \in Sides : ~OrphanInCritical(t)
      BY <1>0, <2>4, <3>1 DEF Evaluate, ExclusionInv, SubmitExclusion
    <3>4. CASE threadPc' = [threadPc EXCEPT ![s] = "exit"] /\ mutex' = None
      BY <3>1, <3>2, <3>3, <3>o, <3>4 DEF ExclusionInv, SubmitExclusion, ReadyHeldWhileSending
    <3>5. CASE /\ threadPc' = [threadPc EXCEPT ![s] = "send"]
               /\ dataReady = TRUE
               /\ mutex' = mutex
      BY <3>1, <3>2, <3>3, <3>o, <3>5 DEF ExclusionInv, SubmitExclusion, ReadyHeldWhileSending
    <3>6. CASE threadPc' = [threadPc EXCEPT ![s] = "block"] /\ mutex' = mutex
      BY <3>1, <3>2, <3>3, <3>o, <3>6 DEF ExclusionInv, SubmitExclusion, ReadyHeldWhileSending
    <3>7. QED
      BY <2>4, <3>4, <3>5, <3>6 DEF Evaluate
  <2>5. CASE Block(s)
    BY <2>5, <1>0 DEF Block, ExclusionInv, SubmitExclusion, ReadyHeldWhileSending
  <2>6. CASE Send(s)
    BY <2>6 DEF Send, ExclusionInv, SubmitExclusion, ReadyHeldWhileSending
  <2>7. CASE SendThrows(s)
    BY <2>7, <1>0
       DEF SendThrows, ExclusionInv, SubmitExclusion, ReadyHeldWhileSending
  <2>8. CASE ClearSubmitting(s)
    BY <2>8 DEF ClearSubmitting, ExclusionInv, SubmitExclusion, ReadyHeldWhileSending
  <2>9. CASE ClearReady(s)
    BY <2>9, <1>0
       DEF ClearReady, ExclusionInv, SubmitExclusion, ReadyHeldWhileSending
  <2>10. CASE ThreadExit(s) BY <2>10, ExclusionFrame DEF ThreadExit
  <2>11. CASE SpuriousWakeup(s) BY <2>11, ExclusionFrame DEF SpuriousWakeup
  <2>12. QED
    BY <2>1, <2>2, <2>3, <2>4, <2>5, <2>6, <2>7, <2>8, <2>9, <2>10, <2>11
       DEF SubmitThreadStep
<1>2. ASSUME NEW s \in Sides,
             TearDownStep(s) \/ Open(s) \/ JobArrives(s) \/ WriteDone(s) \/ Fail(s)
      PROVE  ExclusionInv'
  <2>1. /\ UNCHANGED mutex
        /\ dataReady' \in {dataReady, TRUE}
    BY <1>2 DEF TearDownStep, DropConnected, DropSubmitting, RaiseAbort, RaiseReady,
         NotifyAll, Renotify, Return, Open, JobArrives, WriteDone, Fail, threadVars, flagVars
  <2>2. \/ threadPc' = threadPc
        \/ threadPc' = Notified(threadPc)
        \/ Open(s)
        \/ Return(s)
    BY <1>2 DEF TearDownStep, DropConnected, DropSubmitting, RaiseAbort, RaiseReady,
         NotifyAll, Renotify, JobArrives, WriteDone, Fail, threadVars, flagVars
  <2>3. \A t \in Sides : OrphanInCritical(t)' <=> OrphanInCritical(t)
    <3>1. \/ UNCHANGED orphanPc
          \/ orphanPc[s] = "none" /\ orphanPc' = [orphanPc EXCEPT ![s] = "loose"]
          \/ orphanPc' = [orphanPc EXCEPT ![s] = orphanPc[s]]
      BY <1>2 DEF TearDownStep, DropConnected, DropSubmitting, RaiseAbort, RaiseReady,
           NotifyAll, Renotify, Return, Open, JobArrives, WriteDone, Fail, sessionVars
    <3>2. QED BY <3>1 DEF TypeOK
  <2>4. CASE threadPc' = threadPc
    BY <2>1, <2>3, <2>4, ExclusionFrame
  <2>5. CASE threadPc' = Notified(threadPc)
    BY <2>1, <2>3, <2>5, NotifiedType, ExclusionFrame DEF TypeOK
  <2>6. CASE Open(s)
    BY <2>1, <2>3, <2>6, ExclusionFrame DEF Open, SessionGoes, TypeOK, ThreadAtRest
  <2>7. CASE Return(s)
    BY <2>1, <2>3, <2>7, ExclusionFrame DEF Return, TypeOK
  <2>8. QED BY <2>2, <2>4, <2>5, <2>6, <2>7
<1>3. ASSUME NEW m \in Miners, MinerStep(m) \/ FindShare(m)
      PROVE  ExclusionInv'
  <2>1. /\ UNCHANGED mutex
        /\ dataReady' \in {dataReady, TRUE}
        /\ threadPc' = threadPc \/ threadPc' = Notified(threadPc)
        /\ UNCHANGED orphanPc
    BY <1>3 DEF MinerStep, WaitForJob, Snapshot, JobChanged, LeaveInner, Outer, Kick,
         KickNotify, Spin, Check, Claim, Recheck, WriteBegin, WriteEnd, Ready, Notify,
         FindShare, threadVars, flagVars, sessionVars
  <2>2. QED BY <2>1, NotifiedType, ExclusionFrame DEF TypeOK
<1>4. ASSUME NEW s \in Sides, OrphanStep(s)
      PROVE  ExclusionInv'
  <2> USE DEF TypeOK, OrphanGoes, OrphanPcs
  <2>1. UNCHANGED threadPc /\ \A t \in Sides \ {s} : orphanPc'[t] = orphanPc[t]
    BY <1>4 DEF OrphanStep, OrphanHolds, OrphanEnds, OrphanDecides, OrphanSend, OrphanThrows,
       OrphanClearSubmitting, OrphanClearReady
  <2>2. CASE OrphanEnds(s) BY <2>2, ExclusionFrame DEF OrphanEnds
  <2>3. CASE OrphanDecides(s)
    BY <1>0, <2>1, <2>3 DEF OrphanDecides, ExclusionInv, SubmitExclusion, ReadyHeldWhileSending
  <2>4. CASE OrphanSend(s) BY <2>4, ExclusionFrame DEF OrphanSend
  <2>5. CASE OrphanThrows(s)
    BY <1>0, <2>1, <2>5 DEF OrphanThrows, ExclusionInv, SubmitExclusion, ReadyHeldWhileSending
  <2>6. CASE OrphanClearSubmitting(s) BY <2>6, ExclusionFrame DEF OrphanClearSubmitting
  <2>7. CASE OrphanClearReady(s)
    BY <1>0, <2>1, <2>7
       DEF OrphanClearReady, ExclusionInv, SubmitExclusion, ReadyHeldWhileSending
  <2>8. QED BY <1>4, <2>2, <2>3, <2>4, <2>5, <2>6, <2>7 DEF OrphanStep, OrphanHolds
<1>5. CASE UNCHANGED vars
  BY <1>5, ExclusionFrame DEF vars, threadVars, flagVars, sessionVars
<1>6. QED BY <1>1, <1>2, <1>3, <1>4, <1>5 DEF Next

\* The invariant holds throughout.
LEMMA ExclusionHolds == Spec => []ExclusionInv
<1>1. Init => ExclusionInv
  BY ConstantsAssumption
     DEF Init, ExclusionInv, SubmitExclusion, ReadyHeldWhileSending, InCritical,
         OrphanInCritical, None
<1>2. TypeOK /\ ThreadAtRest /\ ExclusionInv /\ [Next]_vars => ExclusionInv'
  BY ExclusionStep
<1>3. QED BY <1>1, <1>2, TypeCorrect, AtRest, PTL DEF Spec

\* The submit threads of both sides, orphans included, never overlap between
\* evaluating their predicate and clearing data_ready.
THEOREM Exclusion == Spec => []SubmitExclusion
<1>1. ExclusionInv => SubmitExclusion
  BY DEF ExclusionInv
<1>2. QED BY <1>1, ExclusionHolds, PTL

\* Nobody takes data_ready away from a submit thread that is sending, although
\* the threads of both sides clear it.
THEOREM ReadyHeld == Spec => []ReadyHeldWhileSending
<1>1. ExclusionInv => ReadyHeldWhileSending
  BY DEF ExclusionInv
<1>2. QED BY <1>1, ExclusionHolds, PTL

\* A step that takes data_ready or a side's abort away: the clearing of the one by
\* the thread that owns the mutex, the resetting of the other before there is a thread.
LEMMA FlagsFall ==
  ASSUME TypeOK, ThreadAtRest, [Next]_vars, NEW s \in Sides
  PROVE  /\ dataReady /\ ~dataReady' => \E t \in Sides : ClearReady(t) \/ OrphanClearReady(t)
         /\ abort[s] /\ ~abort'[s] => threadPc[s] \in {"none", "done"}
<1> USE DEF TypeOK
<1>1. ASSUME NEW t \in Sides, SubmitThreadStep(t) \/ SpuriousWakeup(t)
      PROVE  UNCHANGED abort /\ (dataReady' = dataReady \/ ClearReady(t))
  BY <1>1 DEF SubmitThreadStep, ThreadStart, TestAbort, Lock, Evaluate, Block, Send, SendThrows,
     ClearSubmitting, ClearReady, ThreadExit, SpuriousWakeup, flagVars
<1>2. ASSUME NEW t \in Sides,
             TearDownStep(t) \/ Open(t) \/ JobArrives(t) \/ WriteDone(t) \/ Fail(t)
      PROVE  /\ dataReady' \in {dataReady, TRUE}
             /\ \/ UNCHANGED abort
                \/ abort' = [abort EXCEPT ![t] = TRUE]
                \/ /\ threadPc[t] \in {"none", "done"}
                   /\ abort' = [abort EXCEPT ![t] = FALSE]
  BY <1>2 DEF TearDownStep, DropConnected, DropSubmitting, RaiseAbort, RaiseReady, NotifyAll,
     Renotify, Return, Open, JobArrives, WriteDone, Fail, flagVars, SessionGoes, ThreadAtRest
<1>3. ASSUME NEW m \in Miners, MinerStep(m) \/ FindShare(m)
      PROVE  UNCHANGED abort /\ dataReady' \in {dataReady, TRUE}
  BY <1>3 DEF MinerStep, WaitForJob, Snapshot, JobChanged, LeaveInner, Outer, Kick, KickNotify,
     Spin, Check, Claim, Recheck, WriteBegin, WriteEnd, Ready, Notify, FindShare, flagVars
<1>4. ASSUME NEW t \in Sides, OrphanStep(t)
      PROVE  UNCHANGED abort /\ (dataReady' = dataReady \/ OrphanClearReady(t))
  BY <1>4 DEF OrphanStep, OrphanHolds, OrphanEnds, OrphanDecides, OrphanSend, OrphanThrows,
     OrphanClearSubmitting, OrphanClearReady, OrphanGoes
<1>5. CASE UNCHANGED vars BY <1>5 DEF vars, flagVars
<1>6. dataReady /\ ~dataReady' => \E t \in Sides : ClearReady(t) \/ OrphanClearReady(t)
  BY <1>1, <1>2, <1>3, <1>4, <1>5 DEF Next
<1>7. abort[s] /\ ~abort'[s] => threadPc[s] \in {"none", "done"}
  BY <1>1, <1>2, <1>3, <1>4, <1>5 DEF Next
<1>8. QED BY <1>6, <1>7

\* While a submit thread evaluates its predicate, neither data_ready nor abort falls:
\* the one is cleared under the mutex only, the other reset before there is a thread.
THEOREM EvaluationStable == Spec => EvaluationIsStable
<1>1. TypeOK /\ ThreadAtRest /\ ExclusionInv /\ [Next]_vars =>
        [\A s \in Sides : threadPc[s] = "evaluate" =>
           (dataReady => dataReady') /\ (abort[s] => abort'[s])]_vars
  <2> SUFFICES ASSUME TypeOK, ThreadAtRest, ExclusionInv, [Next]_vars, NEW s \in Sides,
                      threadPc[s] = "evaluate"
               PROVE  (dataReady => dataReady') /\ (abort[s] => abort'[s])
    OBVIOUS
  <2>1. mutex = s /\ s # Orphan
    BY ConstantsAssumption DEF ExclusionInv, SubmitExclusion, InCritical, Orphan
  <2>2. \A t \in Sides : ~ClearReady(t) /\ ~OrphanClearReady(t)
    BY <2>1 DEF ExclusionInv, SubmitExclusion, InCritical, OrphanInCritical, ClearReady,
       ThreadGoes, OrphanClearReady, OrphanGoes
  <2>3. QED BY <2>2, FlagsFall
<1>2. QED
  BY <1>1, TypeCorrect, AtRest, ExclusionHolds, PTL DEF Spec, EvaluationIsStable

-----------------------------------------------------------------------------
(* Woken or awake: the second notify_all.                                   *)

\* From the raising of abort to the session's end it stays up, and after the second
\* notification no thread is asleep.
AwakeInv ==
  \A s \in Sides :
    /\ sessionPc[s] \in {"raiseReady", "notify", "renotify", "join"} => abort[s]
    /\ Renotifies /\ cause[s] = "readError" /\ sessionPc[s] = "join" =>
         threadPc[s] \notin {"block", "waiting"}

LEMMA AwakeStep ==
  ASSUME TypeOK, AwakeInv, [Next]_vars
  PROVE  AwakeInv'
<1> USE DEF TypeOK, AwakeInv
<1>1. ASSUME NEW s \in Sides, SubmitThreadStep(s) \/ SpuriousWakeup(s)
      PROVE  AwakeInv'
  <2>1. UNCHANGED <<sessionPc, cause, abort>>
    BY <1>1 DEF SubmitThreadStep, ThreadStart, TestAbort, Lock, Evaluate, Block, Send,
         SendThrows, ClearSubmitting, ClearReady, ThreadExit, SpuriousWakeup,
         sessionVars, flagVars
  <2>2. \A t \in Sides \ {s} : threadPc'[t] = threadPc[t]
    BY <1>1 DEF SubmitThreadStep, ThreadStart, TestAbort, Lock, Evaluate, Block, Send,
         SendThrows, ClearSubmitting, ClearReady, ThreadExit, SpuriousWakeup,
         ThreadGoes
  <2>3. threadPc'[s] \in {"block", "waiting"} => ~abort[s] \/ threadPc[s] = "block"
    BY <1>1 DEF SubmitThreadStep, ThreadStart, TestAbort, Lock, Evaluate, Block, Send,
         SendThrows, ClearSubmitting, ClearReady, ThreadExit, SpuriousWakeup,
         ThreadGoes
  <2>4. QED BY <2>1, <2>2, <2>3
<1>2. ASSUME NEW s \in Sides, NotifyAll(s) \/ Renotify(s) PROVE AwakeInv'
  <2>1. /\ UNCHANGED <<cause, abort>>
        /\ threadPc' = Notified(threadPc)
        /\ abort[s]
    BY <1>2 DEF NotifyAll, Renotify, SessionGoes, flagVars
  <2>2. \A t \in Sides : \/ threadPc'[t] = threadPc[t]
                         \/ threadPc[t] = "waiting" /\ threadPc'[t] = "lock"
    BY <2>1, NotifiedType
  <2>3. \A t \in Sides \ {s} : sessionPc'[t] = sessionPc[t]
    BY <1>2 DEF NotifyAll, Renotify, SessionGoes
  <2>4. CASE NotifyAll(s)
    <3>1. Renotifies /\ cause[s] = "readError" => sessionPc'[s] # "join"
      BY <2>4 DEF NotifyAll, SessionGoes
    <3>2. QED BY <2>1, <2>2, <2>3, <3>1
  <2>5. CASE Renotify(s)
    <3>1. threadPc'[s] \notin {"block", "waiting"}
      BY <2>1, <2>5 DEF Renotify, Notified
    <3>2. QED BY <2>1, <2>2, <2>3, <3>1
  <2>6. QED BY <1>2, <2>4, <2>5
<1>3. ASSUME NEW s \in Sides,
             \/ DropConnected(s) \/ DropSubmitting(s) \/ RaiseAbort(s) \/ RaiseReady(s)
             \/ Return(s) \/ Open(s) \/ JobArrives(s) \/ WriteDone(s) \/ Fail(s)
      PROVE  AwakeInv'
  <2>1. \A t \in Sides \ {s} : /\ sessionPc'[t] = sessionPc[t] /\ cause'[t] = cause[t]
                               /\ abort'[t] = abort[t] /\ threadPc'[t] = threadPc[t]
    BY <1>3 DEF DropConnected, DropSubmitting, RaiseAbort, RaiseReady, Return, Open,
         JobArrives, WriteDone, Fail, SessionGoes, sessionVars, threadVars, flagVars
  <2>2. /\ sessionPc'[s] # "join"
        /\ sessionPc'[s] \in {"raiseReady", "notify", "renotify"} => abort'[s]
    BY <1>3 DEF DropConnected, DropSubmitting, RaiseAbort, RaiseReady, Return, Open,
         JobArrives, WriteDone, Fail, SessionGoes, sessionVars, threadVars, flagVars
  <2>3. QED BY <2>1, <2>2
<1>4. ASSUME NEW m \in Miners, MinerStep(m) \/ FindShare(m)
      PROVE  AwakeInv'
  <2>1. /\ UNCHANGED <<sessionPc, cause, abort>>
        /\ threadPc' = threadPc \/ threadPc' = Notified(threadPc)
    BY <1>4 DEF MinerStep, WaitForJob, Snapshot, JobChanged, LeaveInner, Outer, Kick,
         KickNotify, Spin, Check, Claim, Recheck, WriteBegin, WriteEnd, Ready, Notify,
         FindShare, threadVars, sessionVars, flagVars
  <2>2. \A t \in Sides : \/ threadPc'[t] = threadPc[t]
                         \/ threadPc[t] = "waiting" /\ threadPc'[t] = "lock"
    BY <2>1, NotifiedType
  <2>3. QED BY <2>1, <2>2
<1>5. ASSUME NEW s \in Sides, OrphanStep(s)
      PROVE  AwakeInv'
  BY <1>5 DEF OrphanStep, OrphanHolds, OrphanEnds, OrphanDecides, OrphanSend, OrphanThrows,
     OrphanClearSubmitting, OrphanClearReady, OrphanGoes
<1>6. CASE UNCHANGED vars
  BY <1>6 DEF vars, threadVars, sessionVars, flagVars
<1>7. QED BY <1>1, <1>2, <1>3, <1>4, <1>5, <1>6 DEF Next, TearDownStep

\* With a second notification, a session that saw a read error waits for a thread
\* that is awake.
THEOREM ThreadIsAwake == Spec => []JoinedThreadIsAwake
<1>1. Init => AwakeInv
  BY DEF Init, AwakeInv
<1>2. TypeOK /\ AwakeInv /\ [Next]_vars => AwakeInv'
  BY AwakeStep
<1>3. AwakeInv => JoinedThreadIsAwake
  BY DEF AwakeInv, JoinedThreadIsAwake
<1>4. QED BY <1>1, <1>2, <1>3, TypeCorrect, PTL DEF Spec

-----------------------------------------------------------------------------
(* The refinement of the permits: a claim grants, a submission uses up, and *)
(* no other step adds a side to those that may submit.                      *)

\* The submissions so far.
Submitted == [s \in Sides |-> Len(sent[s])]

\* A step that claims and sends nothing may at most lose a permit.
LEMMA PermitFrame ==
  ASSUME UNCHANGED <<sent, claims>>, NEW s \in Sides,
         \A t \in Sides \ {s} : t \in Permitted' <=> t \in Permitted,
         s \in Permitted' => s \in Permitted
  PROVE  [Permits!Next]_<<Permitted, claims, Submitted>>
<1>1. Permitted' = Permitted \/ Permitted' = Permitted \ {s}
  BY DEF Permitted
<1>2. UNCHANGED Submitted
  BY DEF Submitted
<1>3. QED BY <1>1, <1>2 DEF Permits!Next, Permits!Lose, Submitted

\* The wake-ups do not matter to the permits.
LEMMA PermitNotified ==
  ASSUME TypeOK, threadPc' = threadPc \/ threadPc' = Notified(threadPc), NEW t \in Sides,
         submitting'[t] = submitting[t], orphanPc'[t] = orphanPc[t]
  PROVE  t \in Permitted' <=> t \in Permitted
<1>1. \/ threadPc'[t] = threadPc[t]
      \/ threadPc[t] = "waiting" /\ threadPc'[t] = "lock"
  BY NotifiedType DEF TypeOK
<1>2. QED BY <1>1 DEF Permitted

LEMMA PermitStep ==
  ASSUME TypeOK, ThreadAtRest, ExclusionInv, [Next]_vars
  PROVE  [Permits!Next]_<<Permitted, claims, Submitted>>
<1>0. \A s \in Sides : ~(InCritical(s) /\ OrphanInCritical(s))
  BY ConstantsAssumption DEF ExclusionInv, SubmitExclusion, Orphan
<1>1. ASSUME NEW s \in Sides, SubmitThreadStep(s) \/ SpuriousWakeup(s)
      PROVE  [Permits!Next]_<<Permitted, claims, Submitted>>
  <2> USE DEF TypeOK, ThreadGoes, flagVars, sessionVars, minerVars
  <2>1. CASE Send(s)
    <3>1. /\ threadPc[s] = "send"
          /\ threadPc' = [threadPc EXCEPT ![s] = "clearSubmitting"]
          /\ sent' = [sent EXCEPT ![s] = Append(@, share[s])]
          /\ UNCHANGED <<submitting, claims>>
      BY <2>1 DEF Send
    <3>2. s \in Permitted /\ Permitted' = Permitted \ {s}
      <4>1. ~OrphanInCritical(s) /\ UNCHANGED orphanPc
        BY <1>0, <2>1, <3>1 DEF InCritical, Send
      <4>2. QED BY <3>1, <4>1 DEF Permitted, OrphanInCritical
    <3>3. Submitted' = [Submitted EXCEPT ![s] = @ + 1]
      <4>1. sent'[s] = Append(sent[s], share[s]) /\ sent[s] \in Seq(Int) /\ share[s] \in Int
        BY <3>1
      <4>2. Len(sent'[s]) = Len(sent[s]) + 1
        BY <4>1
      <4>3. \A t \in Sides \ {s} : sent'[t] = sent[t]
        BY <3>1
      <4>4. QED BY <4>2, <4>3 DEF Submitted
    <3>4. QED BY <3>1, <3>2, <3>3 DEF Permits!Next, Permits!Submit, Submitted
  <2>2. CASE ClearSubmitting(s)
    <3>1. /\ s \in Permitted' => s \in Permitted
          /\ \A t \in Sides \ {s} : t \in Permitted' <=> t \in Permitted
      BY <2>2 DEF ClearSubmitting, Permitted
    <3>2. QED BY <2>2, <3>1, PermitFrame DEF ClearSubmitting
  <2>3. CASE ~Send(s) /\ ~ClearSubmitting(s)
    <3>1. UNCHANGED <<submitting, sent, claims>>
      BY <1>1, <2>3 DEF SubmitThreadStep, ThreadStart, TestAbort, Lock, Evaluate, Block,
           SendThrows, ClearReady, ThreadExit, SpuriousWakeup
    <3>2. \A t \in Sides \ {s} : threadPc'[t] = threadPc[t]
      BY <1>1, <2>3 DEF SubmitThreadStep, ThreadStart, TestAbort, Lock, Evaluate, Block,
           SendThrows, ClearReady, ThreadExit, SpuriousWakeup
    <3>3. /\ threadPc[s] # "clearSubmitting"
          /\ threadPc'[s] = "send" => submitting[s] /\ threadPc[s] = "evaluate"
          /\ UNCHANGED orphanPc
      BY <1>1, <2>3 DEF SubmitThreadStep, ThreadStart, TestAbort, Lock, Evaluate, Block,
           SendThrows, ClearReady, ThreadExit, SpuriousWakeup
    <3>4. /\ s \in Permitted' => s \in Permitted
          /\ \A t \in Sides \ {s} : t \in Permitted' <=> t \in Permitted
      BY <1>0, <3>1, <3>2, <3>3 DEF Permitted, InCritical, OrphanInCritical
    <3>5. QED BY <3>1, <3>4, PermitFrame
  <2>4. QED BY <2>1, <2>2, <2>3
<1>2. ASSUME NEW s \in Sides,
             TearDownStep(s) \/ Open(s) \/ JobArrives(s) \/ WriteDone(s) \/ Fail(s)
      PROVE  [Permits!Next]_<<Permitted, claims, Submitted>>
  <2>1. /\ UNCHANGED <<sent, claims>>
        /\ submitting' = submitting \/ submitting' = [submitting EXCEPT ![s] = FALSE]
    BY <1>2 DEF TearDownStep, DropConnected, DropSubmitting, RaiseAbort, RaiseReady,
         NotifyAll, Renotify, Return, Open, JobArrives, WriteDone, Fail,
         threadVars, flagVars, minerVars
  <2>2. /\ \A t \in Sides \ {s} : submitting'[t] = submitting[t]
        /\ submitting'[s] => submitting[s]
    BY <2>1 DEF TypeOK
  <2>3. CASE Open(s)
    <3>1. /\ s \in Permitted' => s \in Permitted
          /\ \A t \in Sides \ {s} : t \in Permitted' <=> t \in Permitted
      BY <2>3 DEF Open, SessionGoes, Permitted, TypeOK, ThreadAtRest
    <3>2. QED BY <2>1, <3>1, PermitFrame
  <2>4. CASE Return(s)
    <3>1. /\ UNCHANGED submitting
          /\ \A t \in Sides \ {s} : threadPc'[t] = threadPc[t] /\ orphanPc'[t] = orphanPc[t]
          /\ threadPc'[s] = threadPc[s] \/ {threadPc[s], threadPc'[s]} = {"start", "none"}
          /\ orphanPc'[s] = orphanPc[s] \/ {orphanPc[s], orphanPc'[s]} = {"none", "loose"}
      BY <2>4 DEF Return, TypeOK, flagVars
    <3>2. \A t \in Sides : t \in Permitted' <=> t \in Permitted
      BY <3>1 DEF Permitted
    <3>3. QED BY <2>1, <3>2, PermitFrame
  <2>5. CASE ~Open(s) /\ ~Return(s)
    <3>1. /\ threadPc' = threadPc \/ threadPc' = Notified(threadPc)
          /\ UNCHANGED orphanPc
      BY <1>2, <2>5 DEF TearDownStep, DropConnected, DropSubmitting, RaiseAbort, RaiseReady,
           NotifyAll, Renotify, JobArrives, WriteDone, Fail, threadVars, sessionVars
    <3>2. \A t \in Sides \ {s} : t \in Permitted' <=> t \in Permitted
      BY <2>2, <3>1, PermitNotified
    <3>3. s \in Permitted' => s \in Permitted
      <4>1. \/ threadPc'[s] = threadPc[s]
            \/ threadPc[s] = "waiting" /\ threadPc'[s] = "lock"
        BY <3>1, NotifiedType DEF TypeOK
      <4>2. QED BY <2>2, <3>1, <4>1 DEF Permitted
    <3>4. QED BY <2>1, <3>2, <3>3, PermitFrame
  <2>6. QED BY <2>3, <2>4, <2>5
<1>3. ASSUME NEW m \in Miners, MinerStep(m) \/ FindShare(m)
      PROVE  [Permits!Next]_<<Permitted, claims, Submitted>>
  <2>1. CASE Claim(m)
    <3> DEFINE s == side[m]
    <3>1. /\ s \in Sides
          /\ submitting' = [submitting EXCEPT ![s] = TRUE]
          /\ claims' = [claims EXCEPT ![s] = @ + 1]
          /\ UNCHANGED <<sent, threadPc, orphanPc>>
      BY <2>1 DEF Claim, TypeOK, threadVars, sessionVars
    <3> HIDE DEF s
    <3>2. Permitted' \in {Permitted, Permitted \cup {s}}
      BY <3>1 DEF Permitted, TypeOK
    <3>3. UNCHANGED Submitted
      BY <3>1 DEF Submitted
    <3>4. QED BY <3>1, <3>2, <3>3 DEF Permits!Next, Permits!Grant, Submitted
  <2>2. CASE ~Claim(m)
    <3>1. /\ UNCHANGED <<sent, claims, submitting, orphanPc>>
          /\ threadPc' = threadPc \/ threadPc' = Notified(threadPc)
      BY <1>3, <2>2 DEF MinerStep, WaitForJob, Snapshot, JobChanged, LeaveInner, Outer, Kick,
           KickNotify, Spin, Check, Recheck, WriteBegin, WriteEnd, Ready, Notify,
           FindShare, threadVars, flagVars, sessionVars
    <3>2. \A t \in Sides : t \in Permitted' <=> t \in Permitted
      BY <3>1, PermitNotified
    <3>3. QED BY <3>1, <3>2, PermitFrame, ConstantsAssumption
  <2>3. QED BY <2>1, <2>2
<1>4. ASSUME NEW s \in Sides, OrphanStep(s)
      PROVE  [Permits!Next]_<<Permitted, claims, Submitted>>
  <2> USE DEF TypeOK, OrphanGoes, minerVars
  <2>0. /\ UNCHANGED <<threadPc, claims>>
        /\ \A t \in Sides \ {s} : orphanPc'[t] = orphanPc[t] /\ submitting'[t] = submitting[t]
    BY <1>4 DEF OrphanStep, OrphanHolds, OrphanEnds, OrphanDecides, OrphanSend, OrphanThrows,
       OrphanClearSubmitting, OrphanClearReady
  <2>t. \A t \in Sides \ {s} : t \in Permitted' <=> t \in Permitted
    BY <2>0 DEF Permitted
  <2>1. CASE OrphanSend(s)
    <3>1. /\ orphanPc[s] = "send" /\ orphanPc'[s] = "clearSubmitting"
          /\ sent' \in {sent, [sent EXCEPT ![s] = Append(@, share[s])]}
      BY <2>1 DEF OrphanSend
    <3>2. s \in Permitted /\ Permitted' = Permitted \ {s}
      <4>1. ~InCritical(s)
        BY <1>0, <3>1 DEF OrphanInCritical
      <4>2. s \in Permitted /\ s \notin Permitted'
        BY <2>0, <3>1, <4>1 DEF Permitted, InCritical
      <4>3. QED BY <2>t, <4>2 DEF Permitted
    <3>3. CASE UNCHANGED sent
      BY <2>0, <2>t, <3>2, <3>3, PermitFrame
    <3>4. CASE sent' = [sent EXCEPT ![s] = Append(@, share[s])]
      <4>1. Len(sent'[s]) = Len(sent[s]) + 1
        BY <3>4
      <4>2. \A t \in Sides \ {s} : sent'[t] = sent[t]
        BY <3>4
      <4>3. Submitted' = [Submitted EXCEPT ![s] = @ + 1]
        BY <4>1, <4>2 DEF Submitted
      <4>4. QED BY <2>0, <3>2, <4>3 DEF Permits!Next, Permits!Submit, Submitted
    <3>5. QED BY <3>1, <3>3, <3>4
  <2>2. CASE ~OrphanSend(s)
    <3>1. UNCHANGED sent
      BY <1>4, <2>2 DEF OrphanStep, OrphanHolds, OrphanEnds, OrphanDecides, OrphanThrows,
         OrphanClearSubmitting, OrphanClearReady
    <3>2. s \in Permitted' => s \in Permitted
      <4>1. CASE OrphanDecides(s)
        <5>1. threadPc[s] # "clearSubmitting"
          BY <4>1, ConstantsAssumption
             DEF OrphanDecides, ExclusionInv, SubmitExclusion, InCritical, None
        <5>2. QED BY <4>1, <5>1 DEF OrphanDecides, Permitted
      <4>2. CASE OrphanThrows(s)
        BY <4>2 DEF OrphanThrows, Permitted
      <4>3. CASE OrphanClearSubmitting(s)
        BY <1>0, <4>3 DEF OrphanClearSubmitting, Permitted, InCritical, OrphanInCritical
      <4>4. CASE OrphanEnds(s) \/ OrphanClearReady(s)
        BY <4>4 DEF OrphanEnds, OrphanClearReady, Permitted
      <4>5. QED BY <1>4, <2>2, <4>1, <4>2, <4>3, <4>4 DEF OrphanStep, OrphanHolds
    <3>3. QED BY <2>0, <2>t, <3>1, <3>2, PermitFrame
  <2>3. QED BY <2>1, <2>2
<1>5. CASE UNCHANGED vars
  BY <1>5 DEF vars, threadVars, flagVars, minerVars, sessionVars, Permitted, Submitted
<1>6. QED BY <1>1, <1>2, <1>3, <1>4, <1>5 DEF Next

\* However the flags race, between two submissions of a side a miner has raised its
\* flag.
THEOREM HandoffIsPermits == Spec => ImplementsPermits
<1>1. Init => Permits!Init
  BY DEF Init, Permits!Init, Permitted
<1>2. TypeOK /\ ThreadAtRest /\ ExclusionInv /\ [Next]_vars =>
        [Permits!Next]_<<Permitted, claims, Submitted>>
  BY PermitStep
<1>3. QED
  BY <1>1, <1>2, TypeCorrect, AtRest, ExclusionHolds, PTL
     DEF Spec, ImplementsPermits, Permits!Spec, Submitted

-----------------------------------------------------------------------------
(* Submissions are paid for by claims, as they are in SubmitPermits.        *)

PaidInv ==
  \A s \in Sides : Submitted[s] + (IF s \in Permitted THEN 1 ELSE 0) <= claims[s]

\* Only the three steps of SubmitPermits concern the balance.
LEMMA PaidStep ==
  ASSUME TypeOK, ThreadAtRest, ExclusionInv, PaidInv, [Next]_vars
  PROVE  PaidInv'
<1>0. claims \in [Sides -> Nat] /\ Submitted \in [Sides -> Nat]
  BY DEF TypeOK, Submitted
<1>1. CASE UNCHANGED <<Permitted, claims, Submitted>>
  BY <1>1 DEF PaidInv
<1>2. CASE Permits!Next
  <2>1. PICK s \in Sides : Permits!Grant(s) \/ Permits!Lose(s) \/ Permits!Submit(s)
    BY <1>2 DEF Permits!Next
  <2>2. /\ \/ Permitted' \in {Permitted, Permitted \cup {s}} /\ UNCHANGED Submitted
              /\ claims' = [claims EXCEPT ![s] = @ + 1]
           \/ Permitted' = Permitted \ {s} /\ UNCHANGED <<claims, Submitted>>
           \/ s \in Permitted /\ Permitted' = Permitted \ {s} /\ UNCHANGED claims
              /\ Submitted' = [Submitted EXCEPT ![s] = @ + 1]
    BY <2>1 DEF Permits!Grant, Permits!Lose, Permits!Submit, Submitted
  <2>3. QED BY <1>0, <2>2 DEF PaidInv
<1>3. QED BY <1>1, <1>2, PermitStep

\* However the flags race, a pool never gets more submissions than miners
\* raised the side's submitting flag.
THEOREM SubmissionsPaid == Spec => []NoExtraSubmission
<1>1. Init => PaidInv
  BY DEF Init, PaidInv, Permitted, Submitted
<1>2. TypeOK /\ ThreadAtRest /\ ExclusionInv /\ PaidInv /\ [Next]_vars => PaidInv'
  BY PaidStep
<1>3. TypeOK /\ PaidInv => NoExtraSubmission
  BY DEF TypeOK, PaidInv, NoExtraSubmission, Submitted
<1>4. QED BY <1>1, <1>2, <1>3, TypeCorrect, AtRest, ExclusionHolds, PTL DEF Spec

=============================================================================
