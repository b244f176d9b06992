-------------------------- MODULE ConnectionProofs --------------------------
(***************************************************************************)
(* Proofs about Connection, for any sides, protocols and timeout.          *)
(***************************************************************************)
EXTENDS Connection, TLAPS

\* What the flag connected promises, while a job handler is at work too.
ConnectedInv ==
  /\ TypeOK
  /\ \A s \in Sides : connected[s] \/ flagging[s] => fresh[s]
  /\ ~JobsAtLogin => \A s \in Sides : connected[s] \/ flagging[s] => pc[s] \in {"loop", "pong"}

\* Initially nothing is connected.
LEMMA ConnectedInit == Init => ConnectedInv
BY ConnectionAssumption DEF Init, ConnectedInv, TypeOK, Pcs, Links

\* getWork's steps: the flag is down before another session begins.
LEMMA ConnectedGetWork ==
  ASSUME ConnectedInv, NEW s \in Sides, Attempt(s) \/ Ended(s) \/ Resume(s)
  PROVE  ConnectedInv'
<1> USE DEF ConnectedInv, TypeOK, Pcs, Links, Goes, JobsAtLogin
<1>1. CASE Attempt(s) BY <1>1 DEF Attempt
<1>2. CASE Ended(s) BY <1>2 DEF Ended
<1>3. CASE Resume(s) BY <1>3 DEF Resume
<1>4. QED BY <1>1, <1>2, <1>3

\* The login: a job that comes with it is flagged only after it is replaced,
\* and there is none where the login is not answered on the spot.
LEMMA ConnectedLogin ==
  ASSUME ConnectedInv, NEW s \in Sides,
         \/ Connect(s) \/ ConnectFails(s) \/ SubscribeAnswered(s) \/ SubscribeUnread(s)
         \/ WriteFails(s) \/ AuthorizeAnswered(s) \/ AuthorizeUnread(s)
  PROVE  ConnectedInv'
<1> USE ConnectionAssumption DEF ConnectedInv, TypeOK, Pcs, Links, Goes, JobsAtLogin, NoJob
<1>1. CASE Connect(s) BY <1>1 DEF Connect
<1>2. CASE ConnectFails(s) BY <1>2 DEF ConnectFails
<1>3. CASE SubscribeAnswered(s)
  <2>1. CASE NoJob
    BY <1>3, <2>1 DEF SubscribeAnswered
  <2>2. CASE JobsAtLogin /\ ReplaceJob(s)
    BY <1>3, <2>2 DEF SubscribeAnswered, ReplaceJob
  <2>3. QED BY <1>3, <2>1, <2>2 DEF SubscribeAnswered
<1>4. CASE SubscribeUnread(s) BY <1>4 DEF SubscribeUnread
<1>5. CASE WriteFails(s) BY <1>5 DEF WriteFails
<1>6. CASE AuthorizeAnswered(s)
  <2>1. /\ JobsAtLogin
        /\ pc' = [pc EXCEPT ![s] = "loop"] /\ age' \in 0..(JobTimeout + 1)
        /\ UNCHANGED <<protocol, connected, link, wsMutex>>
    BY <1>6 DEF AuthorizeAnswered, EnterLoop
  <2>2. CASE UNCHANGED <<fresh, flagging>>
    BY <2>1, <2>2
  <2>3. CASE /\ fresh' = [fresh EXCEPT ![s] = TRUE]
             /\ flagging' = [flagging EXCEPT ![s] = TRUE]
    BY <2>1, <2>3
  <2>4. QED BY <1>6, <2>2, <2>3 DEF AuthorizeAnswered
<1>7. CASE AuthorizeUnread(s) BY <1>7 DEF AuthorizeUnread, EnterLoop
<1>8. QED BY <1>1, <1>2, <1>3, <1>4, <1>5, <1>6, <1>7

\* The read loop: it ends by dropping the flag.
LEMMA ConnectedLoop ==
  ASSUME ConnectedInv, NEW s \in Sides,
         \/ JobArrives(s) \/ FlagConnected(s) \/ TimeOut(s) \/ ReadFails(s)
         \/ Ping(s) \/ PongWritten(s) \/ PongFails(s) \/ Join(s) \/ Break(s)
  PROVE  ConnectedInv'
<1> USE ConnectionAssumption
    DEF ConnectedInv, TypeOK, Pcs, Links, Goes, JobsAtLogin, NoJob, Locks, Unlocks
<1>1. CASE JobArrives(s) BY <1>1 DEF JobArrives, ReplaceJob
<1>2. CASE FlagConnected(s) BY <1>2 DEF FlagConnected
<1>3. ASSUME NEW from, TearDown(s, from) PROVE ConnectedInv'
  BY <1>3 DEF TearDown
<1>4. CASE Join(s) BY <1>4 DEF Join
<1>5. CASE Break(s) BY <1>5 DEF Break
<1>6. CASE Ping(s) BY <1>6 DEF Ping
<1>7. CASE PongWritten(s) BY <1>7 DEF PongWritten
<1>8. QED
  BY <1>1, <1>2, <1>3, <1>4, <1>5, <1>6, <1>7 DEF TimeOut, ReadFails, PongFails

\* Every step keeps the promise.
LEMMA ConnectedStep == ConnectedInv /\ [Next]_vars => ConnectedInv'
<1> SUFFICES ASSUME ConnectedInv, [Next]_vars PROVE ConnectedInv'
  OBVIOUS
<1>1. CASE Tick
  BY <1>1, ConnectionAssumption DEF Tick, ConnectedInv, TypeOK, JobsAtLogin
<1>2. ASSUME NEW s \in Sides, SideStep(s) \/ PoolStep(s)
      PROVE  ConnectedInv'
  BY <1>2, ConnectedGetWork, ConnectedLogin, ConnectedLoop DEF SideStep, PoolStep
<1>3. CASE UNCHANGED vars
  BY <1>3 DEF vars, ConnectedInv, TypeOK, JobsAtLogin
<1>4. QED BY <1>1, <1>2, <1>3 DEF Next

\* Every variable keeps its type.
THEOREM TypeCorrect == Spec => []TypeOK
<1>1. ConnectedInv => TypeOK
  BY DEF ConnectedInv
<1>2. QED BY <1>1, ConnectedInit, ConnectedStep, PTL DEF Spec

\* Whoever sees a side connected finds a job of its present session.
THEOREM JobIsFresh == Spec => []FreshJob
<1>1. ConnectedInv => FreshJob
  BY DEF ConnectedInv, FreshJob
<1>2. QED BY <1>1, ConnectedInit, ConnectedStep, PTL DEF Spec

\* A session that handles no jobs while it logs in is in its read loop whenever
\* its side counts as connected.
THEOREM ServedWhileConnected == Spec => []ConnectedIsServed
<1>1. ConnectedInv => ConnectedIsServed
  BY DEF ConnectedInv, ConnectedIsServed
<1>2. QED BY <1>1, ConnectedInit, ConnectedStep, PTL DEF Spec

-----------------------------------------------------------------------------
(* The lock over a message. *)

\* PacketsExclude, and what keeps it: a handler under the lock runs in the read
\* loop, and a session without the lock is not at work.
LockInv ==
  LocksPackets =>
    /\ PacketsExclude
    /\ \A s \in Sides : flagging[s] => pc[s] = "loop"

LEMMA LockInit == Init => LockInv
BY ConnectionAssumption DEF Init, LockInv, PacketsExclude

\* A step by which s leaves the lock and the other side alone, and is no more at
\* work than before, keeps the lock.
LEMMA LockFrame ==
  ASSUME ConnectedInv, LocksPackets, PacketsExclude, LockInv, NEW s \in Sides,
         UNCHANGED <<protocol, wsMutex>>,
         \A t \in Sides \ {s} : pc'[t] = pc[t] /\ flagging'[t] = flagging[t],
         flagging'[s] = flagging[s],
         flagging[s] => pc'[s] = pc[s],
         pc[s] = "pong" => pc'[s] \in {"pong", "join"},
         pc'[s] = "pong" => pc[s] = "pong",
         pc[s] = "join" => pc'[s] = "join"
  PROVE  LockInv'
BY DEF LockInv, PacketsExclude, LocksPackets

\* The sessions take the lock when it is free, and give it up when they are done.
LEMMA LockSide ==
  ASSUME ConnectedInv, LocksPackets, LockInv, NEW s \in Sides, SideStep(s) \/ PoolStep(s)
  PROVE  LockInv'
<1>0. /\ PacketsExclude /\ (\A t \in Sides : flagging[t] => pc[t] = "loop")
      /\ pc \in [Sides -> Pcs] /\ flagging \in [Sides -> BOOLEAN]
      /\ None \notin Sides /\ ~JobsAtLogin
  BY ConnectionAssumption
     DEF LockInv, ConnectedInv, TypeOK, LocksPackets, JobsAtLogin
<1>1. CASE JobArrives(s)
  <2>1. /\ wsMutex = None /\ wsMutex' = s /\ pc[s] = "loop"
        /\ flagging' = [flagging EXCEPT ![s] = TRUE]
        /\ UNCHANGED <<protocol, pc>>
    BY <1>1 DEF JobArrives, Locks, ReplaceJob
  <2>2. QED BY <1>0, <2>1 DEF LockInv, PacketsExclude, LocksPackets
<1>2. CASE Ping(s)
  <2>1. /\ wsMutex = None /\ wsMutex' = s /\ pc[s] = "loop" /\ ~flagging[s]
        /\ pc' = [pc EXCEPT ![s] = "pong"]
        /\ UNCHANGED <<protocol, flagging>>
    BY <1>2 DEF Ping, Locks, Goes, NoJob
  <2>2. QED BY <1>0, <2>1 DEF LockInv, PacketsExclude, LocksPackets
<1>3. CASE FlagConnected(s)
  <2>1. /\ flagging[s] /\ flagging' = [flagging EXCEPT ![s] = FALSE]
        /\ wsMutex' = IF wsMutex = s THEN None ELSE wsMutex
        /\ UNCHANGED <<protocol, pc>>
    BY <1>3 DEF FlagConnected, Unlocks
  <2>2. QED BY <1>0, <2>1 DEF LockInv, PacketsExclude, LocksPackets
<1>4. CASE PongWritten(s) \/ Join(s)
  <2>1. /\ pc[s] \in {"pong", "join"} /\ ~flagging[s]
        /\ \E to \in {"loop", "ended", "pause"} : pc' = [pc EXCEPT ![s] = to]
        /\ wsMutex' = IF wsMutex = s THEN None ELSE wsMutex
        /\ UNCHANGED <<protocol, flagging>>
    BY <1>4 DEF PongWritten, Join, Goes, Unlocks, NoJob
  <2>2. QED BY <1>0, <2>1 DEF LockInv, PacketsExclude, LocksPackets
<1>5. CASE ~(JobArrives(s) \/ Ping(s) \/ FlagConnected(s) \/ PongWritten(s) \/ Join(s))
  <2>1. UNCHANGED <<protocol, wsMutex>>
    BY <1>5 DEF SideStep, PoolStep, Attempt, Ended, Resume, Connect, ConnectFails,
         SubscribeUnread, WriteFails, AuthorizeUnread, EnterLoop, TimeOut, ReadFails, TearDown,
         SubscribeAnswered, AuthorizeAnswered, PongFails, Break, Goes
  <2>2. UNCHANGED flagging
    BY <1>0, <1>5 DEF SideStep, PoolStep, Attempt, Ended, Resume, Connect, ConnectFails,
         SubscribeUnread, WriteFails, AuthorizeUnread, EnterLoop, TimeOut, ReadFails, TearDown,
         SubscribeAnswered, AuthorizeAnswered, PongFails, Break, NoJob
  <2>3. \/ UNCHANGED pc
        \/ /\ ~flagging[s] /\ pc[s] # "join"
           /\ \E to \in Pcs \ {"pong"} : pc' = [pc EXCEPT ![s] = to]
           /\ pc[s] = "pong" => pc'[s] = "join"
    BY <1>0, <1>5 DEF SideStep, PoolStep, Attempt, Ended, Resume, Connect, ConnectFails,
         SubscribeUnread, WriteFails, AuthorizeUnread, EnterLoop, TimeOut, ReadFails, TearDown,
         SubscribeAnswered, AuthorizeAnswered, PongFails, Break, Goes, Pcs
  <2>4. QED BY <1>0, <2>1, <2>2, <2>3, LockFrame
<1>6. QED BY <1>1, <1>2, <1>3, <1>4, <1>5

\* Every step keeps the lock.
LEMMA LockStep == ConnectedInv /\ LockInv /\ [Next]_vars => LockInv'
<1> SUFFICES ASSUME ConnectedInv, LockInv, [Next]_vars, LocksPackets' PROVE LockInv'
  BY DEF LockInv
<1>1. protocol' = protocol
  BY DEF Next, vars, Tick, SideStep, PoolStep, Attempt, Ended, Resume, Connect, ConnectFails,
     SubscribeUnread, WriteFails, AuthorizeUnread, EnterLoop, FlagConnected, TimeOut, ReadFails,
     TearDown, PongWritten, Join, SubscribeAnswered, AuthorizeAnswered, JobArrives, Ping,
     PongFails, Break, Goes
<1>2. LocksPackets
  BY <1>1 DEF LocksPackets
<1>3. CASE Tick \/ UNCHANGED vars
  BY <1>3 DEF Tick, vars, LockInv, PacketsExclude, LocksPackets
<1>4. QED BY <1>2, <1>3, LockSide DEF Next

\* Under wsMutex one side's session at a time handles a job or waits for a pong,
\* and none holds it that is not at such work.
THEOREM PacketsExcluded == Spec => []PacketsExclude
<1>1. LockInv => PacketsExclude
  BY DEF LockInv, PacketsExclude
<1>2. QED BY <1>1, ConnectedInit, ConnectedStep, LockInit, LockStep, PTL DEF Spec

=============================================================================
