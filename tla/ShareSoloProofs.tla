-------------------------- MODULE ShareSoloProofs --------------------------
(***************************************************************************)
(* Proofs about ShareHandoff with a single mining thread and no dev-fee    *)
(* connection, while the pool's connection lasts: the flags, the object    *)
(* share and the condition variable implement a mailbox for one share.     *)
(***************************************************************************)
EXTENDS ShareHandoffProofs

\* The instance that the theorems below are about.
Solo(m) ==
  Miners = {m} /\ Sides = {"user"} /\ Causes = {}

-----------------------------------------------------------------------------
(* The flags. *)

\* The initial state satisfies the parts of the invariant.
LEMMA SoloInit ==
  ASSUME NEW m, Solo(m), Init
  PROVE  SoloFlags(m) /\ SoloOrder(m) /\ SoloObject(m)
BY DEF Solo, Init, SoloFlags, SoloOrder, SoloObject, SentBelow, Spent, Empty

\* The submit thread keeps the flags in order.
LEMMA SoloFlagsThread ==
  ASSUME NEW m, Solo(m), TypeOK, SoloFlags(m),
         SubmitThreadStep("user") \/ SpuriousWakeup("user")
  PROVE  SoloFlags(m)'
<1> USE DEF Solo, TypeOK, SoloFlags, Stale, ThreadGoes, flagVars, sessionVars, minerVars
<1>1. CASE ThreadStart("user") BY <1>1 DEF ThreadStart
<1>2. CASE TestAbort("user") BY <1>2 DEF TestAbort
<1>3. CASE Lock("user") BY <1>3 DEF Lock
<1>4. CASE Evaluate("user") BY <1>4 DEF Evaluate
<1>5. CASE Block("user") BY <1>5 DEF Block
<1>6. CASE Send("user") BY <1>6 DEF Send
<1>7. CASE SendThrows("user") BY <1>7 DEF SendThrows
<1>8. CASE ClearSubmitting("user") BY <1>8 DEF ClearSubmitting
<1>9. CASE ClearReady("user") BY <1>9 DEF ClearReady
<1>10. CASE ThreadExit("user") BY <1>10 DEF ThreadExit
<1>11. CASE SpuriousWakeup("user") BY <1>11 DEF SpuriousWakeup
<1>12. QED
  BY <1>1, <1>2, <1>3, <1>4, <1>5, <1>6, <1>7, <1>8, <1>9, <1>10, <1>11
     DEF SubmitThreadStep

\* Without a cause to fail, a session opens, takes jobs and completes writes,
\* and is never torn down.
LEMMA SoloSession ==
  ASSUME NEW m, Solo(m), TypeOK, SoloFlags(m),
         \/ TearDownStep("user") \/ Open("user") \/ JobArrives("user")
         \/ WriteDone("user") \/ Fail("user")
  PROVE  Open("user") \/ JobArrives("user") \/ WriteDone("user")
<1>1. ~TearDownStep("user")
  BY DEF SoloFlags, TearDownStep, DropConnected, DropSubmitting, RaiseAbort, RaiseReady,
         NotifyAll, Renotify, Return, SessionGoes
<1>2. ~Fail("user")
  BY DEF Solo, Fail
<1>3. QED BY <1>1, <1>2

\* As no session returns, no submit thread outlives one.
LEMMA SoloNoOrphan ==
  ASSUME NEW m, SoloFlags(m)
  PROVE  ~OrphanStep("user")
BY DEF SoloFlags, OrphanStep, OrphanEnds, OrphanDecides, OrphanHolds, OrphanSend,
       OrphanThrows, OrphanClearSubmitting, OrphanClearReady, OrphanGoes

\* The session keeps the flags in order.
LEMMA SoloFlagsSession ==
  ASSUME NEW m, Solo(m), TypeOK, SoloFlags(m),
         Open("user") \/ JobArrives("user") \/ WriteDone("user")
  PROVE  SoloFlags(m)'
<1> USE DEF Solo, TypeOK, SoloFlags, Stale, SessionGoes, flagVars, threadVars, minerVars, sessionVars
<1>1. CASE Open("user") BY <1>1 DEF Open
<1>2. CASE JobArrives("user") BY <1>2 DEF JobArrives
<1>3. CASE WriteDone("user") BY <1>3 DEF WriteDone
<1>4. QED BY <1>1, <1>2, <1>3

\* The miner keeps the flags in order: it claims only a free slot, and the slot
\* is free only when data_ready is down or about to be cleared.
LEMMA SoloFlagsMiner ==
  ASSUME NEW m, Solo(m), TypeOK, SoloFlags(m), MinerStep(m) \/ FindShare(m)
  PROVE  SoloFlags(m)'
<1> USE DEF Solo, TypeOK, SoloFlags, Stale, MinerGoes, flagVars, threadVars, sessionVars
<1>1. side[m] = "user"
  OBVIOUS
<1>2. CASE WaitForJob(m) BY <1>2 DEF WaitForJob
<1>3. CASE Snapshot(m) BY <1>3 DEF Snapshot
<1>4. CASE JobChanged(m) BY <1>4 DEF JobChanged
<1>5. ~LeaveInner(m) /\ ~Kick(m) /\ ~KickNotify(m)
  BY DEF LeaveInner, Kick, KickNotify
<1>16. CASE Recheck(m) BY <1>16 DEF Recheck
<1>6. CASE Outer(m) BY <1>6 DEF Outer
<1>7. CASE Spin(m) BY <1>1, <1>7 DEF Spin, SlotTaken
<1>8. CASE Check(m) BY <1>8 DEF Check
<1>9. CASE Claim(m) BY <1>1, <1>9 DEF Claim
<1>10. CASE WriteBegin(m) BY <1>1, <1>10 DEF WriteBegin
<1>11. CASE WriteEnd(m) BY <1>1, <1>11 DEF WriteEnd
<1>12. CASE Ready(m) BY <1>12 DEF Ready
<1>13. CASE Notify(m) BY <1>13, NotifiedType DEF Notify
<1>14. CASE FindShare(m) BY <1>14 DEF FindShare
<1>15. QED
  BY <1>2, <1>3, <1>4, <1>5, <1>6, <1>7, <1>8, <1>9, <1>10, <1>11, <1>12, <1>13, <1>14,
     <1>16 DEF MinerStep

-----------------------------------------------------------------------------
(* Which shares were sent, and what the object share holds. *)

\* A share that is newer than all those sent is not one of them.
LEMMA FreshIsUnsent ==
  ASSUME NEW m, Solo(m), TypeOK, Fresh
  PROVE  ~AlreadySent("user") /\ ~Spent /\ share["user"] \notin {Empty, Torn}
<1>1. \A i \in 1..Len(sent["user"]) : sent["user"][i] \in Int
  BY DEF Solo, TypeOK
<1>2. share["user"] \in Int
  BY DEF Solo, TypeOK
<1>3. QED BY <1>1, <1>2 DEF Fresh, Spent, SentBelow, AlreadySent, Empty, Torn

\* What sending the object share does to the shares sent.
LEMMA SendAppends ==
  ASSUME NEW m, Solo(m), TypeOK, UNCHANGED share,
         sent' = [sent EXCEPT !["user"] = Append(@, share["user"])]
  PROVE  /\ AlreadySent("user")'
         /\ \A n \in Int : SentBelow(n) /\ share["user"] < n => SentBelow(n)'
<1>1. sent["user"] \in Seq(Int) /\ sent'["user"] = Append(sent["user"], share["user"])
  BY DEF Solo, TypeOK
<1>2. /\ Len(sent'["user"]) = Len(sent["user"]) + 1
      /\ sent'["user"][Len(sent["user"]) + 1] = share["user"]
      /\ \A i \in 1..Len(sent["user"]) : sent'["user"][i] = sent["user"][i]
  BY <1>1
<1>3. Len(sent["user"]) \in Nat
  BY <1>1
<1>4. AlreadySent("user")'
  BY <1>2, <1>3 DEF AlreadySent
<1>5. \A n \in Int : SentBelow(n) /\ share["user"] < n => SentBelow(n)'
  BY <1>2, <1>3 DEF SentBelow
<1>6. QED BY <1>4, <1>5

\* A step that moves no share keeps the order.
LEMMA SoloOrderFrame ==
  ASSUME NEW m, Solo(m), TypeOK, SoloOrder(m),
         UNCHANGED <<sent, share, myShare, found>>,
         minerPc'[m] \in {"spin", "check", "claim", "recheck", "write", "writing"} =>
           minerPc[m] \in {"spin", "check", "claim", "recheck", "write", "writing"}
  PROVE  SoloOrder(m)'
BY DEF SoloOrder, SentBelow

\* A step that moves no share keeps the object in order, if the flags it leaves
\* are right about the object.
LEMMA SoloObjectFrame ==
  ASSUME NEW m, SoloObject(m), UNCHANGED <<sent, share>>,
         minerPc'[m] = "writing" <=> minerPc[m] = "writing",
         minerPc'[m] = "ready" => Fresh,
         ~submitting'["user"] \/ threadPc'["user"] = "clearSubmitting" => Spent,
         minerPc'[m] = "write" \/ (minerPc'[m] = "recheck" /\ ~Stale(m)') => Spent,
         threadPc'["user"] = "send" => Fresh,
         dataReady' /\ threadPc'["user"] \notin {"clearSubmitting", "clearReady"} => Fresh
  PROVE  SoloObject(m)'
<1>1. (Spent' <=> Spent) /\ (Fresh' <=> Fresh)
  BY DEF Spent, Fresh, AlreadySent, SentBelow
<1>2. QED BY <1>1 DEF SoloObject

\* The submit thread sends a share that is newer than those it has sent.
LEMMA SoloOrderThread ==
  ASSUME NEW m, Solo(m), TypeOK, SoloFlags(m), SoloOrder(m), SoloObject(m),
         SubmitThreadStep("user") \/ SpuriousWakeup("user")
  PROVE  SoloOrder(m)' /\ SoloObject(m)'
<1> USE DEF ThreadGoes, flagVars, sessionVars, minerVars, Solo
<1>1. CASE Send("user")
  <2>1. /\ threadPc["user"] = "send" /\ threadPc'["user"] = "clearSubmitting"
        /\ sent' = [sent EXCEPT !["user"] = Append(@, share["user"])]
        /\ UNCHANGED <<share, myShare, found, minerPc, submitting, seen, jobCounter>>
    BY <1>1 DEF Send, TypeOK
  <2>2. /\ minerPc[m] \notin {"write", "writing", "ready"} /\ submitting["user"]
        /\ minerPc[m] = "recheck" => Stale(m)
    BY <2>1 DEF SoloFlags
  <2>3. AlreadySent("user")' /\ \A n \in Int : SentBelow(n) /\ share["user"] < n => SentBelow(n)'
    BY <2>1, SendAppends
  <2>4. /\ share["user"] < found + 1 /\ share["user"] \in Int
        /\ myShare[m] \in Int /\ found + 1 \in Int
    BY DEF SoloOrder, TypeOK
  <2>5. SoloOrder(m)'
    <3>1. SentBelow(found + 1)'
      BY <2>1, <2>3, <2>4 DEF SoloOrder
    <3>2. SentBelow(myShare[m]) /\ share["user"] < myShare[m] => SentBelow(myShare[m])'
      BY <2>1, <2>3, <2>4
    <3>3. QED BY <2>1, <3>1, <3>2 DEF SoloOrder
  <2>6. SoloObject(m)'
    BY <2>1, <2>2, <2>3 DEF SoloObject, Spent, Stale
  <2>7. QED BY <2>5, <2>6
<1>2. CASE ~Send("user")
  <2>1. UNCHANGED <<sent, share, minerVars, jobCounter>>
    BY <1>2 DEF SubmitThreadStep, ThreadStart, TestAbort, Lock, Evaluate, Block,
         SendThrows, ClearSubmitting, ClearReady, ThreadExit, SpuriousWakeup
  <2>2. SoloOrder(m)' /\ (Stale(m)' <=> Stale(m))
    BY <2>1, SoloOrderFrame DEF Stale
  <2>3. CASE ClearSubmitting("user")
    <3>1. threadPc'["user"] = "clearReady" /\ Spent
      BY <2>3 DEF ClearSubmitting, TypeOK, SoloObject
    <3>2. QED BY <2>1, <3>1, <2>2, SoloObjectFrame DEF SoloObject
  <2>4. CASE ClearReady("user")
    <3>1. threadPc'["user"] = "test" /\ ~dataReady' /\ UNCHANGED submitting
      BY <2>4 DEF ClearReady, TypeOK
    <3>2. QED BY <2>1, <3>1, <2>2, SoloObjectFrame DEF SoloObject
  <2>5. CASE ~ClearSubmitting("user") /\ ~ClearReady("user")
    <3>1. /\ threadPc["user"] \notin {"clearSubmitting", "clearReady"}
          /\ threadPc'["user"] # "clearSubmitting"
          /\ threadPc'["user"] = "send" => dataReady
          /\ UNCHANGED <<submitting, dataReady>>
      BY <1>2, <2>5 DEF SubmitThreadStep, ThreadStart, TestAbort, Lock, Evaluate, Block,
           SendThrows, ThreadExit, SpuriousWakeup, TypeOK
    <3>2. QED BY <2>1, <3>1, <2>2, SoloObjectFrame DEF SoloObject
  <2>6. QED BY <2>2, <2>3, <2>4, <2>5
<1>3. QED BY <1>1, <1>2

\* The session touches no share; a new job makes the miner's share stale.
LEMMA SoloOrderSession ==
  ASSUME NEW m, Solo(m), TypeOK, SoloFlags(m), SoloOrder(m), SoloObject(m),
         Open("user") \/ JobArrives("user") \/ WriteDone("user")
  PROVE  SoloOrder(m)' /\ SoloObject(m)'
<1>1. /\ UNCHANGED <<sent, share, submitting, dataReady, minerVars>>
      /\ \/ threadPc' = threadPc
         \/ threadPc["user"] = "none" /\ threadPc'["user"] = "start"
      /\ jobCounter' >= jobCounter
  BY DEF Open, JobArrives, WriteDone, flagVars, threadVars, sessionVars, SoloFlags, Solo,
         SessionGoes, TypeOK
<1>2. Stale(m) => Stale(m)'
  BY <1>1 DEF Solo, Stale, SoloFlags, TypeOK, minerVars
<1>3. SoloOrder(m)'
  BY <1>1, SoloOrderFrame DEF minerVars
<1>4. SoloObject(m)'
  BY <1>1, <1>2, SoloObjectFrame DEF SoloObject, minerVars
<1>5. QED BY <1>3, <1>4

\* The miner numbers its shares upwards and writes them in that order, over a
\* share that was sent.
LEMMA SoloOrderMiner ==
  ASSUME NEW m, Solo(m), TypeOK, SoloFlags(m), SoloOrder(m), SoloObject(m),
         MinerStep(m) \/ FindShare(m)
  PROVE  SoloOrder(m)' /\ SoloObject(m)'
<1> USE DEF MinerGoes, flagVars, threadVars, sessionVars, Solo
<1>1. side[m] = "user" /\ minerPc \in [Miners -> MinerPcs] /\ myShare[m] \in Nat
  BY DEF TypeOK
<1>2. ~LeaveInner(m) /\ ~Kick(m) /\ ~KickNotify(m)
  BY DEF LeaveInner, Kick, KickNotify, SoloFlags
<1>3. CASE WriteBegin(m)
  <2>1. /\ minerPc[m] = "write" /\ minerPc'[m] = "writing" /\ share'["user"] = Torn
        /\ UNCHANGED <<sent, myShare, found, submitting, dataReady, threadPc>>
    BY <1>1, <1>3 DEF WriteBegin, TypeOK
  <2>2. SoloOrder(m)'
    BY <1>1, <2>1 DEF SoloOrder, SentBelow, Torn, TypeOK
  <2>3. SoloObject(m)'
    BY <2>1 DEF SoloObject, SoloFlags
  <2>4. QED BY <2>2, <2>3
<1>4. CASE WriteEnd(m)
  <2>1. /\ minerPc[m] = "writing" /\ minerPc'[m] = "ready"
        /\ share'["user"] = myShare[m]
        /\ UNCHANGED <<sent, myShare, found, submitting, dataReady, threadPc>>
    BY <1>1, <1>4 DEF WriteEnd, TypeOK
  <2>2. Fresh'
    BY <2>1 DEF SoloOrder, Fresh, SentBelow
  <2>3. SoloOrder(m)'
    BY <2>1 DEF SoloOrder, SentBelow
  <2>4. SoloObject(m)'
    BY <2>1, <2>2 DEF SoloObject, SoloFlags
  <2>5. QED BY <2>3, <2>4
<1>5. CASE FindShare(m)
  <2>1. /\ minerPc[m] = "mine" /\ minerPc'[m] = "spin"
        /\ found' = found + 1 /\ myShare'[m] = found + 1
        /\ UNCHANGED <<sent, share, submitting, dataReady, threadPc>>
    BY <1>1, <1>5 DEF FindShare, TypeOK
  <2>2. /\ \A i \in 1..Len(sent["user"]) : sent["user"][i] \in Int
        /\ found \in Nat /\ share["user"] \in Int
    BY DEF TypeOK
  <2>3. SentBelow(found + 1)' /\ SentBelow(myShare[m])'
    BY <2>1, <2>2 DEF SoloOrder, SentBelow
  <2>4. share["user"] <= found /\ 0 < found + 1 /\ share["user"] < found + 1
    BY <2>2 DEF SoloOrder
  <2>5. SoloOrder(m)'
    BY <2>1, <2>2, <2>3, <2>4 DEF SoloOrder
  <2>6. SoloObject(m)'
    BY <2>1, SoloObjectFrame DEF SoloObject
  <2>7. QED BY <2>5, <2>6
<1>6. CASE ~WriteBegin(m) /\ ~WriteEnd(m) /\ ~FindShare(m)
  <2>1. UNCHANGED <<sent, share, myShare, found, jobCounter>>
    BY <1>2, <1>6 DEF MinerStep, WaitForJob, Snapshot, JobChanged, Outer, Spin, Check, Claim,
         Recheck, Ready, Notify
  <2>2. SoloOrder(m)'
    <3>1. minerPc'[m] \in {"spin", "check", "claim", "recheck", "write", "writing"} =>
            minerPc[m] \in {"spin", "check", "claim", "recheck", "write", "writing"}
      BY <1>1, <1>2, <1>6 DEF MinerStep, WaitForJob, Snapshot, JobChanged, Outer, Spin, Check,
           Claim, Recheck, Ready, Notify
    <3>2. QED BY <2>1, <3>1, SoloOrderFrame
  <2>3. CASE Claim(m)
    <3>1. /\ minerPc[m] = "claim" /\ minerPc'[m] = IF ClaimsFirst THEN "recheck" ELSE "write"
          /\ submitting'["user"]
          /\ UNCHANGED <<dataReady, threadPc, seen>>
      BY <1>1, <2>3 DEF Claim, TypeOK
    <3>2. threadPc["user"] = "clearSubmitting" => Spent
      BY DEF SoloObject
    <3>3. ~submitting["user"] => Spent
      BY DEF SoloObject
    <3>4. ~submitting["user"] \/ (Stale(m)' /\ ClaimsFirst)
      BY <2>1, <3>1 DEF SoloFlags, Stale
    <3>5. QED BY <2>1, <2>2, <3>1, <3>2, <3>3, <3>4, SoloObjectFrame DEF SoloObject
  <2>4. CASE Recheck(m)
    <3>1. /\ minerPc[m] = "recheck"
          /\ minerPc'[m] = IF Stale(m) THEN "outer" ELSE "write"
          /\ UNCHANGED <<submitting, dataReady, threadPc>>
      BY <1>1, <2>4 DEF Recheck
    <3>2. QED BY <2>1, <2>2, <3>1, SoloObjectFrame DEF SoloObject
  <2>5. CASE Ready(m)
    <3>1. /\ minerPc[m] = "ready" /\ minerPc'[m] = "notify"
          /\ UNCHANGED <<submitting, threadPc>>
      BY <1>1, <2>5 DEF Ready
    <3>2. Fresh
      BY <3>1 DEF SoloObject
    <3>3. QED BY <2>1, <2>2, <3>1, <3>2, SoloObjectFrame DEF SoloObject
  <2>6. CASE Notify(m)
    <3>1. /\ minerPc[m] = "notify" /\ minerPc'[m] = "mine"
          /\ UNCHANGED <<submitting, dataReady>>
          /\ \/ threadPc'["user"] = threadPc["user"]
             \/ threadPc["user"] = "waiting" /\ threadPc'["user"] = "lock"
      BY <1>1, <2>6, NotifiedType DEF Notify, TypeOK
    <3>2. QED BY <2>1, <2>2, <3>1, SoloObjectFrame DEF SoloObject
  <2>7. CASE \/ WaitForJob(m) \/ Snapshot(m) \/ JobChanged(m) \/ Outer(m)
             \/ Spin(m) \/ Check(m)
    <3>1. /\ UNCHANGED <<submitting, dataReady, threadPc>>
          /\ minerPc[m] # "writing"
          /\ minerPc'[m] \notin {"recheck", "write", "writing", "ready"}
      BY <1>1, <1>2, <2>7
         DEF WaitForJob, Snapshot, JobChanged, Outer, Spin, Check
    <3>2. QED BY <2>1, <2>2, <3>1, SoloObjectFrame DEF SoloObject
  <2>8. QED
    BY <1>2, <1>6, <2>3, <2>4, <2>5, <2>6, <2>7 DEF MinerStep
<1>7. QED BY <1>3, <1>4, <1>5, <1>6

-----------------------------------------------------------------------------
(* The theorems. *)

\* The parts of the invariant hold after any step.
LEMMA SoloStep ==
  ASSUME NEW m, Solo(m), TypeOK, SoloFlags(m), SoloOrder(m), SoloObject(m), [Next]_vars
  PROVE  SoloFlags(m)' /\ SoloOrder(m)' /\ SoloObject(m)'
<1>1. CASE UNCHANGED vars
  <2>1. UNCHANGED <<minerVars, sessionVars, threadVars, flagVars>>
    BY <1>1 DEF vars
  <2>2. SoloFlags(m)'
    BY <2>1 DEF minerVars, sessionVars, threadVars, flagVars, SoloFlags, Stale
  <2>3. SoloOrder(m)'
    BY <2>1 DEF minerVars, sessionVars, threadVars, flagVars, SoloOrder, SentBelow
  <2>4. SoloObject(m)'
    BY <2>1 DEF minerVars, sessionVars, threadVars, flagVars, SoloObject, SentBelow, Stale,
                Spent, Fresh, AlreadySent
  <2>5. QED BY <2>2, <2>3, <2>4
<1>2. CASE Next
  <2>1. \/ SubmitThreadStep("user") \/ SpuriousWakeup("user")
        \/ OrphanStep("user") \/ TearDownStep("user") \/ Open("user") \/ JobArrives("user")
        \/ WriteDone("user") \/ Fail("user")
        \/ MinerStep(m) \/ FindShare(m)
    BY <1>2 DEF Next, Solo
  <2>2. QED
    BY <2>1, SoloFlagsThread, SoloFlagsSession, SoloFlagsMiner, SoloSession,
       SoloOrderThread, SoloOrderSession, SoloOrderMiner, SoloNoOrphan
<1>3. QED BY <1>1, <1>2

\* With one miner, data_ready is up only for a share that is completely written, or
\* about to be cleared, the shares' numbers grow from the pool back to the miner, and
\* the object share holds one that was sent or one that is to be sent.
THEOREM SoloInvariant ==
  ASSUME NEW m, Solo(m)
  PROVE  Spec => []SoloInv
<1>1. SoloInv <=> SoloFlags(m) /\ SoloOrder(m) /\ SoloObject(m)
  BY DEF SoloInv, Solo
<1>2. SoloInv' <=> SoloFlags(m)' /\ SoloOrder(m)' /\ SoloObject(m)'
  BY DEF SoloInv, Solo
<1>3. Init => SoloInv
  BY <1>1, SoloInit
<1>4. TypeOK /\ SoloInv /\ [Next]_vars => SoloInv'
  BY <1>1, <1>2, SoloStep
<1>5. QED BY <1>3, <1>4, TypeCorrect, PTL DEF Spec

\* Only Send changes the shares sent.
LEMMA SentStays ==
  ASSUME NEW m, Solo(m), SoloFlags(m), [Next]_vars, ~Send("user")
  PROVE  UNCHANGED sent
BY SoloNoOrphan DEF Solo, Next, vars, SubmitThreadStep, ThreadStart, TestAbort, Lock,
       Evaluate, Block, SendThrows, ClearSubmitting, ClearReady, ThreadExit, SpuriousWakeup,
       SpuriousWakeup, TearDownStep, DropConnected, DropSubmitting, RaiseAbort,
       RaiseReady, NotifyAll, Renotify, Return, Open, JobArrives, WriteDone, Fail,
       MinerStep, WaitForJob, Snapshot, JobChanged, LeaveInner, Outer, Kick, KickNotify,
       Spin, Check, Claim, Recheck, WriteBegin, WriteEnd, Ready, Notify, FindShare,
       threadVars

\* Only the two ends of a write change the object share.
LEMMA ShareStays ==
  ASSUME NEW m, Solo(m), SoloFlags(m), [Next]_vars, ~WriteBegin(m), ~WriteEnd(m)
  PROVE  UNCHANGED share
BY SoloNoOrphan DEF Solo, Next, vars, SubmitThreadStep, ThreadStart, TestAbort, Lock,
       Evaluate, Block, Send, SendThrows, ClearSubmitting, ClearReady, ThreadExit, SpuriousWakeup,
       SpuriousWakeup, TearDownStep, DropConnected, DropSubmitting, RaiseAbort,
       RaiseReady, NotifyAll, Renotify, Return, Open, JobArrives, WriteDone, Fail,
       MinerStep, WaitForJob, Snapshot, JobChanged, LeaveInner, Outer, Kick, KickNotify,
       Spin, Check, Claim, Recheck, Ready, Notify, FindShare, flagVars

\* A lone miner's shares reach the pool whole, once, and in the order found.
THEOREM SoloSentInOrder ==
  ASSUME NEW m, Solo(m)
  PROVE  Spec => []SentInOrder
<1>1. Init => SentInOrder
  BY DEF Init, SentInOrder
<1>2. ASSUME TypeOK, SoloInv, SentInOrder, [Next]_vars
      PROVE  SentInOrder'
  <2>1. CASE Send("user")
    <3>1. sent'["user"] = Append(sent["user"], share["user"]) /\ threadPc["user"] = "send"
      BY <2>1, <1>2 DEF Send, ThreadGoes, TypeOK, Solo
    <3>2. /\ share["user"] > 0
          /\ \A i \in 1..Len(sent["user"]) : sent["user"][i] < share["user"]
      BY <3>1, <1>2 DEF SoloInv, SoloObject, Fresh, SentBelow, Solo
    <3>3. /\ sent["user"] \in Seq(Int) /\ share["user"] \in Int
          /\ \A i, j \in 1..Len(sent["user"]) :
               sent["user"][i] > 0 /\ (i < j => sent["user"][i] < sent["user"][j])
      BY <1>2 DEF TypeOK, Solo, SentInOrder
    <3>4. \A i, j \in 1..Len(sent'["user"]) :
            sent'["user"][i] > 0 /\ (i < j => sent'["user"][i] < sent'["user"][j])
      BY <3>1, <3>2, <3>3
    <3>5. QED BY <3>4 DEF SentInOrder, Solo
  <2>2. CASE ~Send("user")
    <3>1. SoloFlags(m)
      BY <1>2 DEF SoloInv, Solo
    <3>2. QED BY <1>2, <2>2, <3>1, SentStays DEF SentInOrder
  <2>3. QED BY <2>1, <2>2
<1>3. QED BY <1>1, <1>2, SoloInvariant, TypeCorrect, PTL DEF Spec

-----------------------------------------------------------------------------
(* The refinement: writing a share is Put, sending it is Take, and no other *)
(* step changes the mailbox.                                                *)

\* The mailbox holds a fresh share and nothing else.
LEMMA PendingShare ==
  ASSUME NEW m, Solo(m), TypeOK
  PROVE  /\ Fresh => Pending("user") = share["user"] /\ share["user"] \in Nat \ {Empty}
         /\ Spent \/ share["user"] = Torn => Pending("user") = Empty
<1>1. share["user"] \in Int
  BY DEF TypeOK, Solo
<1>2. CASE Fresh
  BY <1>1, <1>2, FreshIsUnsent DEF Pending, Fresh
<1>3. CASE ~Fresh
  BY <1>3 DEF Pending, Spent
<1>4. QED BY <1>2, <1>3

\* A step maps to a step of the mailbox.
LEMMA MailboxStep ==
  ASSUME NEW m, Solo(m), TypeOK, TypeOK', SoloInv, SoloInv', [Next]_vars
  PROVE  [Mailbox!Next]_<<Pending("user"), sent["user"]>>
<1>1. /\ SoloFlags(m) /\ SoloOrder(m) /\ SoloObject(m)
      /\ SoloObject(m)'
  BY DEF SoloInv, Solo
<1>2. /\ Fresh => Pending("user") = share["user"] /\ share["user"] \in Nat \ {Empty}
      /\ Spent \/ share["user"] = Torn => Pending("user") = Empty
  BY PendingShare
<1>8. /\ Fresh' => Pending("user")' = share'["user"] /\ share'["user"] \in Nat \ {Empty}
      /\ Spent' \/ share'["user"] = Torn => Pending("user")' = Empty
  <2>1. share'["user"] \in Int /\ \A i \in 1..Len(sent'["user"]) : sent'["user"][i] \in Int
    BY DEF TypeOK, Solo
  <2>2. Fresh' => ~AlreadySent("user")' /\ share'["user"] \notin {Empty, Torn}
    BY <2>1 DEF Fresh, SentBelow, AlreadySent, Empty, Torn
  <2>3. QED BY <2>1, <2>2 DEF Pending, Fresh, Spent, Empty
<1>3. CASE WriteEnd(m)
  <2>1. /\ minerPc[m] = "writing" /\ minerPc'[m] = "ready" /\ UNCHANGED sent
    BY <1>3 DEF WriteEnd, MinerGoes, TypeOK, threadVars, Solo
  <2>2. share["user"] = Torn /\ Fresh'
    BY <1>1, <2>1 DEF SoloObject
  <2>3. \A i \in 1..Len(sent["user"]) : sent["user"][i] < Pending("user")'
    BY <1>8, <2>1, <2>2 DEF Fresh, SentBelow
  <2>4. DOMAIN sent["user"] = 1..Len(sent["user"])
    BY DEF TypeOK, Solo
  <2>5. Mailbox!Put(Pending("user")')
    BY <1>2, <1>8, <2>1, <2>2, <2>3, <2>4 DEF Mailbox!Put
  <2>6. QED BY <1>8, <2>2, <2>5 DEF Mailbox!Next
<1>4. CASE Send("user")
  <2>1. /\ threadPc["user"] = "send" /\ threadPc'["user"] = "clearSubmitting"
        /\ sent'["user"] = Append(sent["user"], share["user"])
    BY <1>4 DEF Send, ThreadGoes, TypeOK, Solo
  <2>2. Fresh /\ Spent'
    BY <1>1, <2>1 DEF SoloObject
  <2>3. QED BY <1>2, <1>8, <2>1, <2>2 DEF Mailbox!Take, Mailbox!Next
<1>5. CASE WriteBegin(m)
  <2>1. /\ minerPc[m] = "write" /\ minerPc'[m] = "writing" /\ UNCHANGED sent
    BY <1>5 DEF WriteBegin, MinerGoes, TypeOK, threadVars, Solo
  <2>2. Spent /\ share'["user"] = Torn
    BY <1>1, <2>1 DEF SoloObject
  <2>3. QED BY <1>2, <1>8, <2>1, <2>2
<1>6. CASE ~WriteEnd(m) /\ ~Send("user") /\ ~WriteBegin(m)
  <2>1. UNCHANGED <<sent, share>>
    BY <1>1, <1>6, SentStays, ShareStays
  <2>2. QED BY <2>1 DEF Pending, AlreadySent
<1>7. QED BY <1>3, <1>4, <1>5, <1>6

\* For a lone miner, the flags, the object share and the condition variable
\* implement a mailbox for one share.
THEOREM SoloMailbox ==
  ASSUME NEW m, Solo(m)
  PROVE  Spec => ImplementsMailbox
<1>1. Init => Mailbox!Init
  BY DEF Init, Mailbox!Init, Pending, AlreadySent, Solo
<1>2. TypeOK /\ TypeOK' /\ SoloInv /\ SoloInv' /\ [Next]_vars
      => [Mailbox!Next]_<<Pending("user"), sent["user"]>>
  BY MailboxStep
<1>3. QED
  BY <1>1, <1>2, SoloInvariant, TypeCorrect, PTL DEF Spec, ImplementsMailbox, Mailbox!Spec

=============================================================================
