---------------------------- MODULE ShareHandoff ----------------------------
(***************************************************************************)
(* The hand-off of found shares from the mining threads to the submit      *)
(* thread of a pool session, and the tear-down of such a session.          *)
(*                                                                         *)
(* Each side (the user's pool and the dev-fee pool) has one network        *)
(* thread, running getWork and one session coroutine at a time.  A session *)
(* spawns a submit thread that sleeps on the condition variable cv until   *)
(*     (data_ready && submitting) || abort                                 *)
(* and then sends the global object share (devShare).  The mining threads  *)
(* fill that object.  submitting, data_ready and abort are plain bools:    *)
(* the mutex of cv is held only by the submit threads (and by job          *)
(* handlers), never by those who change the flags.  data_ready and cv are  *)
(* one for both sides.                                                     *)
(*                                                                         *)
(* Every step below is one access to the shared state; the steps between   *)
(* two accesses are private to their thread.  Plain bools are assumed to   *)
(* be read and written in program order: each busy loop calls yield(),     *)
(* which the compiler cannot see through.                                  *)
(***************************************************************************)
EXTENDS Integers, Sequences, FiniteSets

CONSTANTS
  Miners,       \* mining threads
  Sides,        \* {"user", "dev"}, or {"user"} without a dev-fee connection
  Protocol,     \* which protocol's miner loop and session loop is running
  Causes,       \* why a session may be torn down: "readError", "timeout"
  MaxFound,     \* bound: shares found in a run
  MaxJobs,      \* bound: jobs received in a run
  MaxSessions   \* bound: sessions opened per side

Protocols == {"spectre", "xelis", "getwork", "rx0", "dero"}

ASSUME ConstantsAssumption ==
  /\ Sides \in SUBSET {"user", "dev"} /\ "user" \in Sides
  /\ Protocol \in Protocols
  /\ Causes \in SUBSET {"readError", "timeout"}
  /\ {MaxFound, MaxJobs, MaxSessions} \subseteq Nat

None   == "none"
Orphan == "orphan"   \* a submit thread without a session, as owner of the mutex
Empty == 0      \* share before the first one is written
Torn  == -1     \* share while (or after) it is written and read at once

\* The session ends at a read error.  The others' read loops ask for an error
\* and trans > 0, but a failed read_until transfers nothing.
NoticesReadError == Protocol \in {"spectre", "getwork", "dero"}
\* A read error is followed by a 200 ms pause and a second notify_all.
Renotifies == Protocol \in {"spectre", "xelis", "rx0"}
\* A miner that sees the user connection lost sets data_ready and notifies.
MinersKick == Protocol \in {"spectre", "xelis", "getwork"}
\* A miner raises its submitting flag before its last check of the job.
ClaimsFirst == Protocol \in {"xelis", "getwork"}
\* A miner's first look at the flag is at its share's own side's.
LooksAtOwnFlag == Protocol \in {"dero", "rx0"}
\* The job handlers hold the mutex while they bump jobCounter.
LocksJobs == Protocol \in {"spectre", "getwork", "rx0"}

VARIABLES
  mutex,       \* the side whose submit thread holds it, Orphan, or None
  submitting,  \* per side: submitting, submittingDev
  dataReady,   \* data_ready, shared by both sides
  share,       \* per side: the object share, devShare
  connected,   \* per side: isConnected, devConnected
  jobCounter,  \* bumped by every new job of either side
  sessionPc,   \* per side: where the session coroutine is
  cause,       \* per side: why the session is being torn down
  abort,       \* per side: the session's abort flag
  threadPc,    \* per side: where the session's submit thread is
  orphanPc,    \* per side: where the threads are that a session left behind
  inflight,    \* per side: a share's async_write has not completed
  sessions,    \* per side: sessions opened so far
  minerPc,     \* per miner: where it is
  seen,        \* per miner: localJobCounter
  side,        \* per miner: whether it mines for the user or for dev
  myShare,     \* per miner: the share it has found
  found,       \* shares found so far (each is named by its number)
  claims,      \* history, per side: times a miner raised submitting
  sent         \* history, per side: the shares sent, over all sessions

minerVars   == <<minerPc, seen, side, myShare, found, claims>>
sessionVars == <<sessionPc, orphanPc, cause, sessions, connected, jobCounter>>
threadVars  == <<mutex, threadPc, inflight, sent>>
flagVars    == <<submitting, dataReady, share, abort>>
vars == <<minerVars, sessionVars, threadVars, flagVars>>

SessionPcs == {"down", "up", "dropConnected", "dropSubmitting", "raiseAbort",
               "raiseReady", "notify", "renotify", "join"}
ThreadPcs  == {"none", "start", "test", "lock", "evaluate", "block", "waiting",
               "send", "clearSubmitting", "clearReady", "exit", "done"}
OrphanPcs  == {"none", "loose", "send", "clearSubmitting", "clearReady"}
MinerPcs   == {"wait", "snapshot", "mine", "spin", "check", "claim", "recheck",
               "write", "writing", "ready", "notify", "outer",
               "kickIn", "notifyIn", "kickOut", "notifyOut"}

TypeOK ==
  /\ mutex \in Sides \cup {None, Orphan}
  /\ submitting \in [Sides -> BOOLEAN]
  /\ dataReady \in BOOLEAN
  /\ share \in [Sides -> Int]
  /\ connected \in [Sides -> BOOLEAN]
  /\ jobCounter \in Nat
  /\ sessionPc \in [Sides -> SessionPcs]
  /\ cause \in [Sides -> {"readError", "timeout"} \cup {None}]
  /\ abort \in [Sides -> BOOLEAN]
  /\ threadPc \in [Sides -> ThreadPcs]
  /\ orphanPc \in [Sides -> OrphanPcs]
  /\ inflight \in [Sides -> BOOLEAN]
  /\ sessions \in [Sides -> Nat]
  /\ minerPc \in [Miners -> MinerPcs]
  /\ seen \in [Miners -> Nat]
  /\ side \in [Miners -> Sides]
  /\ myShare \in [Miners -> Nat]
  /\ found \in Nat
  /\ claims \in [Sides -> Nat]
  /\ sent \in [Sides -> Seq(Int)]

Init ==
  /\ mutex = None
  /\ submitting = [s \in Sides |-> FALSE]
  /\ dataReady = FALSE
  /\ share = [s \in Sides |-> Empty]
  /\ connected = [s \in Sides |-> FALSE]
  /\ jobCounter = 0
  /\ sessionPc = [s \in Sides |-> "down"]
  /\ cause = [s \in Sides |-> None]
  /\ abort = [s \in Sides |-> FALSE]
  /\ threadPc = [s \in Sides |-> "none"]
  /\ orphanPc = [s \in Sides |-> "none"]
  /\ inflight = [s \in Sides |-> FALSE]
  /\ sessions = [s \in Sides |-> 0]
  /\ minerPc = [m \in Miners |-> "wait"]
  /\ seen = [m \in Miners |-> 0]
  /\ side = [m \in Miners |-> "user"]
  /\ myShare = [m \in Miners |-> Empty]
  /\ found = 0
  /\ claims = [s \in Sides |-> 0]
  /\ sent = [s \in Sides |-> <<>>]

-----------------------------------------------------------------------------
\* cv.notify_all(): every submit thread asleep on cv goes for the mutex.
Notified(pcs) == [t \in Sides |-> IF pcs[t] = "waiting" THEN "lock" ELSE pcs[t]]

\* The session's local flag submitThread, which its thread raises and drops.
SubmitThread(s) == threadPc[s] \notin {"none", "start", "done"}

-----------------------------------------------------------------------------
(* The submit thread of side s. *)

ThreadGoes(s, from, to) ==
  /\ threadPc[s] = from
  /\ threadPc' = [threadPc EXCEPT ![s] = to]

\* The thread is scheduled for the first time: submitThread = true.  (One whose
\* session has returned by then is an orphan.)
ThreadStart(s) ==
  /\ ThreadGoes(s, "start", "test")
  /\ UNCHANGED <<mutex, inflight, sent, flagVars, sessionVars, minerVars>>

\* while (!abort)
TestAbort(s) ==
  /\ ThreadGoes(s, "test", IF abort[s] THEN "exit" ELSE "lock")
  /\ UNCHANGED <<mutex, inflight, sent, flagVars, sessionVars, minerVars>>

\* Mutant: the mutex is not tested.
LockAnyway(s) ==
  /\ mutex' = s
  /\ ThreadGoes(s, "lock", "evaluate")
  /\ UNCHANGED <<inflight, sent, flagVars, sessionVars, minerVars>>

\* unique_lock on entry, or cv.wait taking the mutex back after a wake-up.
Lock(s) ==
  /\ mutex = None
  /\ mutex' = s
  /\ ThreadGoes(s, "lock", "evaluate")
  /\ UNCHANGED <<inflight, sent, flagVars, sessionVars, minerVars>>

\* The predicate of cv.wait.  Its three reads are one step: abort is read
\* last and never falls, data_ready falls only under the mutex, so every
\* outcome of three separate reads is the outcome of one.
Evaluate(s) ==
  /\ \/ /\ abort[s]
        /\ ThreadGoes(s, "evaluate", "exit")
        /\ mutex' = None
     \/ /\ ~abort[s] /\ dataReady /\ submitting[s]
        /\ ThreadGoes(s, "evaluate", "send")
        /\ UNCHANGED mutex
     \/ /\ ~abort[s] /\ ~(dataReady /\ submitting[s])
        /\ ThreadGoes(s, "evaluate", "block")
        /\ UNCHANGED mutex
  /\ UNCHANGED <<inflight, sent, flagVars, sessionVars, minerVars>>

\* cv.wait gives the mutex up and sleeps.
Block(s) ==
  /\ ThreadGoes(s, "block", "waiting")
  /\ mutex' = None
  /\ UNCHANGED <<inflight, sent, flagVars, sessionVars, minerVars>>

\* A condition variable may wake without a notification.
SpuriousWakeup(s) ==
  /\ ThreadGoes(s, "waiting", "lock")
  /\ UNCHANGED <<mutex, inflight, sent, flagVars, sessionVars, minerVars>>

\* Serialise the share and start an asynchronous write of it.
Send(s) ==
  /\ ThreadGoes(s, "send", "clearSubmitting")
  /\ sent' = [sent EXCEPT ![s] = Append(@, share[s])]
  /\ inflight' = [inflight EXCEPT ![s] = TRUE]
  /\ UNCHANGED <<mutex, flagVars, sessionVars, minerVars>>

\* Serialising or starting the write throws: the thread gives up.
SendThrows(s) ==
  /\ ThreadGoes(s, "send", "exit")
  /\ mutex' = None
  /\ UNCHANGED <<inflight, sent, flagVars, sessionVars, minerVars>>

\* Mutant: the lock's scope ends before data_ready is cleared.
UnlockAndClearSubmitting(s) ==
  /\ ThreadGoes(s, "clearSubmitting", "clearReady")
  /\ submitting' = [submitting EXCEPT ![s] = FALSE]
  /\ mutex' = None
  /\ UNCHANGED <<inflight, sent, dataReady, share, abort, sessionVars, minerVars>>

\* Mutant: the side's flag is not cleared after its share was sent.
ForgetSubmitting(s) ==
  /\ ThreadGoes(s, "clearSubmitting", "clearReady")
  /\ UNCHANGED <<mutex, inflight, sent, flagVars, sessionVars, minerVars>>

\* (*B) = false
ClearSubmitting(s) ==
  /\ ThreadGoes(s, "clearSubmitting", "clearReady")
  /\ submitting' = [submitting EXCEPT ![s] = FALSE]
  /\ UNCHANGED <<mutex, inflight, sent, dataReady, share, abort, sessionVars,
                 minerVars>>

\* data_ready = false; the lock goes out of scope.
ClearReady(s) ==
  /\ ThreadGoes(s, "clearReady", "test")
  /\ dataReady' = FALSE
  /\ mutex' = None
  /\ UNCHANGED <<inflight, sent, submitting, share, abort, sessionVars, minerVars>>

\* submitThread = false
ThreadExit(s) ==
  /\ ThreadGoes(s, "exit", "done")
  /\ UNCHANGED <<mutex, inflight, sent, flagVars, sessionVars, minerVars>>

SubmitThreadStep(s) ==
  \/ ThreadStart(s) \/ TestAbort(s) \/ Lock(s) \/ Evaluate(s) \/ Block(s)
  \/ Send(s) \/ SendThrows(s) \/ ClearSubmitting(s) \/ ClearReady(s)
  \/ ThreadExit(s)

-----------------------------------------------------------------------------
(* The session of side s and the getWork loop around it. *)

SessionGoes(s, from, to) ==
  /\ sessionPc[s] = from
  /\ sessionPc' = [sessionPc EXCEPT ![s] = to]

\* getWork connects, the session logs in and spawns its submit thread.
Open(s) ==
  /\ sessions[s] < MaxSessions
  /\ SessionGoes(s, "down", "up")
  /\ sessions' = [sessions EXCEPT ![s] = @ + 1]
  /\ connected' = [connected EXCEPT ![s] = FALSE]
  /\ abort' = [abort EXCEPT ![s] = FALSE]
  /\ threadPc' = [threadPc EXCEPT ![s] = "start"]
  /\ UNCHANGED <<mutex, inflight, sent, submitting, dataReady, share, orphanPc,
                 cause, jobCounter, minerVars>>

\* Mutant: the counter runs downwards.
JobCountsDown(s) ==
  /\ sessionPc[s] = "up"
  /\ jobCounter < MaxJobs
  /\ connected' = [connected EXCEPT ![s] = TRUE]
  /\ jobCounter' = jobCounter - 1
  /\ UNCHANGED <<sessionPc, orphanPc, cause, sessions, flagVars, threadVars, minerVars>>

\* A new job: the handler replaces the job, flags the side as connected and
\* bumps jobCounter.
JobArrives(s) ==
  /\ sessionPc[s] = "up"
  /\ jobCounter < MaxJobs
  /\ LocksJobs => mutex = None
  /\ connected' = [connected EXCEPT ![s] = TRUE]
  /\ jobCounter' = jobCounter + 1
  /\ UNCHANGED <<sessionPc, orphanPc, cause, sessions, flagVars, threadVars, minerVars>>

\* The write of a share completes: the handler runs on the network thread
\* while the session waits for input.  An error raises abort, without a
\* notification and without touching the session.
WriteDone(s) ==
  /\ sessionPc[s] = "up" /\ inflight[s]
  /\ inflight' = [inflight EXCEPT ![s] = FALSE]
  /\ \/ UNCHANGED abort
     \/ abort' = [abort EXCEPT ![s] = TRUE]
  /\ UNCHANGED <<mutex, threadPc, sent, submitting, dataReady, share, sessionVars,
                 minerVars>>

\* The session notices that the connection is lost, for one of the Causes.
Fail(s) ==
  /\ SessionGoes(s, "up", "dropConnected")
  /\ \E c \in Causes : /\ c = "readError" => NoticesReadError
                      /\ cause' = [cause EXCEPT ![s] = c]
  /\ UNCHANGED <<orphanPc, sessions, connected, jobCounter, flagVars, threadVars,
                 minerVars>>

\* setForDisconnected, one assignment at a time.
DropConnected(s) ==
  /\ SessionGoes(s, "dropConnected", "dropSubmitting")
  /\ connected' = [connected EXCEPT ![s] = FALSE]
  /\ UNCHANGED <<orphanPc, cause, sessions, jobCounter, flagVars, threadVars, minerVars>>

DropSubmitting(s) ==
  /\ SessionGoes(s, "dropSubmitting", "raiseAbort")
  /\ submitting' = [submitting EXCEPT ![s] = FALSE]
  /\ UNCHANGED <<orphanPc, cause, sessions, connected, jobCounter, dataReady, share, abort,
                 threadVars, minerVars>>

RaiseAbort(s) ==
  /\ SessionGoes(s, "raiseAbort", "raiseReady")
  /\ abort' = [abort EXCEPT ![s] = TRUE]
  /\ UNCHANGED <<orphanPc, cause, sessions, connected, jobCounter, submitting, dataReady,
                 share, threadVars, minerVars>>

RaiseReady(s) ==
  /\ SessionGoes(s, "raiseReady", "notify")
  /\ dataReady' = TRUE
  /\ UNCHANGED <<orphanPc, cause, sessions, connected, jobCounter, submitting, share, abort,
                 threadVars, minerVars>>

NotifyAll(s) ==
  /\ SessionGoes(s, "notify",
       IF Renotifies /\ cause[s] = "readError" THEN "renotify" ELSE "join")
  /\ threadPc' = Notified(threadPc)
  /\ UNCHANGED <<mutex, inflight, sent, orphanPc, cause, sessions, connected,
                 jobCounter, flagVars, minerVars>>

\* Mutant: the second notify_all is left out.
PauseOnly(s) ==
  /\ SessionGoes(s, "renotify", "join")
  /\ UNCHANGED <<threadVars, orphanPc, cause, sessions, connected, jobCounter, flagVars,
                 minerVars>>

\* The second notify_all, 200 ms later: by then a thread that had decided to
\* sleep before abort was raised is asleep.
Renotify(s) ==
  /\ threadPc[s] # "block"
  /\ SessionGoes(s, "renotify", "join")
  /\ threadPc' = Notified(threadPc)
  /\ UNCHANGED <<mutex, inflight, sent, orphanPc, cause, sessions, connected,
                 jobCounter, flagVars, minerVars>>

\* for (;;) if (!submitThread) break; then the stream is closed, which cancels
\* its writes, and the session's frame is gone.  submitThread is false until its
\* thread is first scheduled: a session that looks earlier leaves an orphan.
Return(s) ==
  /\ ~SubmitThread(s)
  /\ SessionGoes(s, "join", "down")
  /\ cause' = [cause EXCEPT ![s] = None]
  /\ inflight' = [inflight EXCEPT ![s] = FALSE]
  /\ \/ /\ threadPc[s] = "start"
        /\ threadPc' = [threadPc EXCEPT ![s] = "none"]
        /\ orphanPc' = [orphanPc EXCEPT ![s] = IF @ = "none" THEN "loose" ELSE @]
     \/ threadPc[s] # "start" /\ UNCHANGED <<threadPc, orphanPc>>
  /\ UNCHANGED <<mutex, sent, sessions, connected, jobCounter, flagVars, minerVars>>

TearDownStep(s) ==
  \/ DropConnected(s) \/ DropSubmitting(s) \/ RaiseAbort(s) \/ RaiseReady(s)
  \/ NotifyAll(s) \/ Renotify(s) \/ Return(s)

-----------------------------------------------------------------------------
(* The orphans of side s.  A submit thread whose session returned before it *)
(* was first scheduled runs all the same: it raises submitThread, and reads *)
(* abort, isDev and the stream, in memory that is free by then.  What may   *)
(* come of it: it ends, sooner or later, or it takes shares as the side's   *)
(* own thread does, and its write reaches the pool or does not.  (That it   *)
(* damages what the memory is used for next is not modelled.)  One orphanPc *)
(* stands for all the orphans of a side, of which at most one holds the     *)
(* mutex; the others only wait for shares.                                  *)

OrphanGoes(s, from, to) ==
  /\ orphanPc[s] = from
  /\ orphanPc' = [orphanPc EXCEPT ![s] = to]
  /\ UNCHANGED <<threadPc, inflight, share, abort, sessionPc, cause, sessions, connected,
                 jobCounter, minerVars>>

OrphanEnds(s) ==
  /\ OrphanGoes(s, "loose", "none")
  /\ UNCHANGED <<mutex, submitting, dataReady, sent>>

\* It finds the mutex free and data_ready && (*B).
OrphanDecides(s) ==
  /\ mutex = None /\ dataReady /\ submitting[s]
  /\ OrphanGoes(s, "loose", "send")
  /\ mutex' = Orphan
  /\ UNCHANGED <<submitting, dataReady, sent>>

OrphanSend(s) ==
  /\ OrphanGoes(s, "send", "clearSubmitting")
  /\ sent' \in {sent, [sent EXCEPT ![s] = Append(@, share[s])]}
  /\ UNCHANGED <<mutex, submitting, dataReady>>

OrphanThrows(s) ==
  /\ OrphanGoes(s, "send", "none")
  /\ mutex' = None
  /\ UNCHANGED <<submitting, dataReady, sent>>

\* Mutant: the flag is not cleared after an orphan's submission.
OrphanForgets(s) ==
  /\ OrphanGoes(s, "clearSubmitting", "clearReady")
  /\ UNCHANGED <<mutex, submitting, dataReady, sent>>

OrphanClearSubmitting(s) ==
  /\ OrphanGoes(s, "clearSubmitting", "clearReady")
  /\ submitting' = [submitting EXCEPT ![s] = FALSE]
  /\ UNCHANGED <<mutex, dataReady, sent>>

OrphanClearReady(s) ==
  /\ OrphanGoes(s, "clearReady", "loose")
  /\ dataReady' = FALSE
  /\ mutex' = None
  /\ UNCHANGED <<submitting, sent>>

\* An orphan that holds the mutex goes on.
OrphanHolds(s) ==
  \/ OrphanSend(s) \/ OrphanThrows(s) \/ OrphanClearSubmitting(s) \/ OrphanClearReady(s)

OrphanStep(s) == OrphanEnds(s) \/ OrphanDecides(s) \/ OrphanHolds(s)

-----------------------------------------------------------------------------
(* Mining thread m. *)

MinerGoes(m, from, to) ==
  /\ minerPc[m] = from
  /\ minerPc' = [minerPc EXCEPT ![m] = to]

\* localJobCounter != jobCounter
Stale(m) == seen[m] # jobCounter

\* Mutant: a miner does not look at the flag.
SlotNeverTaken(m) == FALSE

\* The flag the miner reads before it may hand a share over: the user's also
\* for a dev share, once the dev connection is lost.
SlotTaken(m) ==
  IF side[m] = "dev" /\ connected["dev"] THEN submitting["dev"] ELSE submitting["user"]

\* waitForJob: sleep until the user's side is connected.
WaitForJob(m) ==
  /\ connected["user"]
  /\ MinerGoes(m, "wait", "snapshot")
  /\ UNCHANGED <<seen, side, myShare, found, claims, sessionVars, threadVars, flagVars>>

\* Copy the jobs and jobCounter under the mutex.
Snapshot(m) ==
  /\ mutex = None
  /\ MinerGoes(m, "snapshot", "mine")
  /\ seen' = [seen EXCEPT ![m] = jobCounter]
  /\ UNCHANGED <<side, myShare, found, claims, sessionVars, threadVars, flagVars>>

\* A hash meets the target, on the user's job or, while the dev side is
\* connected, on the dev job.
FindShare(m) ==
  /\ found < MaxFound
  /\ ~Stale(m)
  /\ MinerGoes(m, "mine", "spin")
  /\ \E s \in Sides : /\ s = "user" \/ connected[s]
                      /\ side' = [side EXCEPT ![m] = s]
  /\ found' = found + 1
  /\ myShare' = [myShare EXCEPT ![m] = found + 1]
  /\ UNCHANGED <<seen, claims, sessionVars, threadVars, flagVars>>

\* The inner loop ends because the job is stale.
JobChanged(m) ==
  /\ Stale(m)
  /\ MinerGoes(m, "mine", "outer")
  /\ UNCHANGED <<seen, side, myShare, found, claims, sessionVars, threadVars, flagVars>>

\* The inner loop ends because the user's connection is lost.
LeaveInner(m) ==
  /\ ~connected["user"]
  /\ MinerGoes(m, "mine", IF MinersKick THEN "kickIn" ELSE "outer")
  /\ UNCHANGED <<seen, side, myShare, found, claims, sessionVars, threadVars, flagVars>>

\* After the inner loop: take the next job, or wait for a connection.
Outer(m) ==
  /\ \/ connected["user"] /\ MinerGoes(m, "outer", "snapshot")
     \/ ~connected["user"] /\ MinerGoes(m, "outer", IF MinersKick THEN "kickOut" ELSE "wait")
  /\ UNCHANGED <<seen, side, myShare, found, claims, sessionVars, threadVars, flagVars>>

\* data_ready = true; cv.notify_all(), on leaving the inner or the outer loop.
Kick(m) ==
  /\ \/ MinerGoes(m, "kickIn", "notifyIn")
     \/ MinerGoes(m, "kickOut", "notifyOut")
  /\ dataReady' = TRUE
  /\ UNCHANGED <<seen, side, myShare, found, claims, sessionVars, threadVars,
                 submitting, share, abort>>

KickNotify(m) ==
  /\ \/ MinerGoes(m, "notifyIn", "outer")
     \/ MinerGoes(m, "notifyOut", "wait")
  /\ threadPc' = Notified(threadPc)
  /\ UNCHANGED <<seen, side, myShare, found, claims, sessionVars, mutex, inflight,
                 sent, flagVars>>

\* Spin until the slot is free or the job is stale.  (Dero's and RX0's first
\* look at the flag does not ask whether the dev side is connected.)
Spin(m) ==
  /\ \/ ~SlotTaken(m)
     \/ LooksAtOwnFlag /\ ~submitting[side[m]]
     \/ Stale(m)
  /\ MinerGoes(m, "spin", IF ClaimsFirst THEN "claim" ELSE "check")
  /\ UNCHANGED <<seen, side, myShare, found, claims, sessionVars, threadVars, flagVars>>

\* A share of a stale job is dropped.
Check(m) ==
  /\ MinerGoes(m, "check", IF Stale(m) THEN "outer" ELSE "claim")
  /\ UNCHANGED <<seen, side, myShare, found, claims, sessionVars, threadVars, flagVars>>

\* submitting = true
Claim(m) ==
  /\ MinerGoes(m, "claim", IF ClaimsFirst THEN "recheck" ELSE "write")
  /\ submitting' = [submitting EXCEPT ![side[m]] = TRUE]
  /\ claims' = [claims EXCEPT ![side[m]] = @ + 1]
  /\ UNCHANGED <<seen, side, myShare, found, sessionVars, threadVars,
                 dataReady, share, abort>>

\* Xelis drops a stale share only now, and leaves submitting raised.
Recheck(m) ==
  /\ MinerGoes(m, "recheck", IF Stale(m) THEN "outer" ELSE "write")
  /\ UNCHANGED <<seen, side, myShare, found, claims, sessionVars, threadVars, flagVars>>

\* share = {...} begins, and ends.  Two miners writing at once leave it torn.
WriteBegin(m) ==
  /\ MinerGoes(m, "write", "writing")
  /\ share' = [share EXCEPT ![side[m]] = Torn]
  /\ UNCHANGED <<seen, side, myShare, found, claims, sessionVars, threadVars,
                 submitting, dataReady, abort>>

WriteEnd(m) ==
  /\ MinerGoes(m, "writing", "ready")
  /\ share' = [share EXCEPT ![side[m]] =
       IF \E n \in Miners \ {m} : minerPc[n] = "writing" /\ side[n] = side[m]
       THEN Torn ELSE myShare[m]]
  /\ UNCHANGED <<seen, side, myShare, found, claims, sessionVars, threadVars,
                 submitting, dataReady, abort>>

\* data_ready = true
Ready(m) ==
  /\ MinerGoes(m, "ready", "notify")
  /\ dataReady' = TRUE
  /\ UNCHANGED <<seen, side, myShare, found, claims, sessionVars, threadVars,
                 submitting, share, abort>>

\* cv.notify_all(), and on with the inner loop.
Notify(m) ==
  /\ MinerGoes(m, "notify", "mine")
  /\ threadPc' = Notified(threadPc)
  /\ UNCHANGED <<seen, side, myShare, found, claims, sessionVars, mutex, inflight,
                 sent, flagVars>>

MinerStep(m) ==
  \/ WaitForJob(m) \/ Snapshot(m) \/ JobChanged(m) \/ LeaveInner(m) \/ Outer(m)
  \/ Kick(m) \/ KickNotify(m) \/ Spin(m) \/ Check(m) \/ Claim(m) \/ Recheck(m)
  \/ WriteBegin(m) \/ WriteEnd(m) \/ Ready(m) \/ Notify(m)

-----------------------------------------------------------------------------
Next ==
  \/ \E s \in Sides : \/ SubmitThreadStep(s) \/ SpuriousWakeup(s) \/ TearDownStep(s)
                      \/ Open(s) \/ JobArrives(s) \/ WriteDone(s) \/ Fail(s)
                      \/ OrphanStep(s)
  \/ \E m \in Miners : MinerStep(m) \/ FindShare(m)

Spec == Init /\ [][Next]_vars

\* The operating system runs every thread; the mutex is not withheld from one
\* that asks again and again; a pool that was lost can be reached again.
\* Nothing makes a pool send jobs, a miner find shares or a connection fail.
Fairness ==
  /\ \A s \in Sides : /\ WF_vars(SubmitThreadStep(s)) /\ SF_vars(Lock(s))
                      /\ WF_vars(OrphanHolds(s))
                      /\ WF_vars(TearDownStep(s)) /\ WF_vars(Open(s))
  /\ \A m \in Miners : WF_vars(MinerStep(m)) /\ SF_vars(Snapshot(m))

FairSpec == Spec /\ Fairness

-----------------------------------------------------------------------------
(* What the hand-off guarantees with any number of miners, on both sides,   *)
(* through tear-downs and reconnections.                                    *)

\* From evaluating the predicate of cv.wait to clearing data_ready, a submit
\* thread owns the mutex, so the user's, the dev's and those left behind by a
\* session never overlap there.
InCritical(s) ==
  threadPc[s] \in {"evaluate", "block", "send", "clearSubmitting", "clearReady"}

OrphanInCritical(s) == orphanPc[s] \in {"send", "clearSubmitting", "clearReady"}

SubmitExclusion ==
  /\ \A s \in Sides : InCritical(s) <=> mutex = s
  /\ \A s \in Sides : OrphanInCritical(s) => mutex = Orphan
  /\ \A s, t \in Sides : OrphanInCritical(s) /\ OrphanInCritical(t) => s = t

\* data_ready is shared by both sides, yet it does not fall between a submit
\* thread's decision to send and its own clearing of it.
ReadyHeldWhileSending ==
  \A s \in Sides :
    threadPc[s] \in {"send", "clearSubmitting", "clearReady"} \/ OrphanInCritical(s) =>
      dataReady

\* While a submit thread evaluates the predicate of cv.wait, neither data_ready,
\* which the other side's thread clears, nor abort, which a new session resets,
\* falls: what was read of them stays true, and the reads may be taken as one.
EvaluationIsStable ==
  [][\A s \in Sides : threadPc[s] = "evaluate" =>
       (dataReady => dataReady') /\ (abort[s] => abort'[s])]_vars

\* A stale or unfinished share may be sent in place of the one that was found
\* (the flags promise no more), but never on top of it: a pool receives at most
\* one submission for each time a miner raised the side's submitting flag.
NoExtraSubmission == \A s \in Sides : Len(sent[s]) <= claims[s]

\* The sides whose submit thread may send: those whose flag is up, unless a
\* thread is about to clear it after a submission, and those of which a thread
\* has decided to.
Permitted ==
  {s \in Sides :
     \/ "send" \in {threadPc[s], orphanPc[s]}
     \/ submitting[s] /\ "clearSubmitting" \notin {threadPc[s], orphanPc[s]}}

\* Nor do claims add up: between two submissions of a side a miner has raised its
\* flag, however often it was raised before, and also where orphans submit.
Permits == INSTANCE SubmitPermits
  WITH permits <- Permitted, granted <- claims,
       submitted <- [s \in Sides |-> Len(sent[s])]
ImplementsPermits == Permits!Spec

\* Where a second notify_all follows the first, a session that waits for its
\* submit thread after a read error does not wait for one that sleeps: the
\* thread had decided to sleep before abort was raised, and was woken since, or
\* it sees abort before it sleeps.
JoinedThreadIsAwake ==
  \A s \in Sides :
    Renotifies /\ cause[s] = "readError" /\ sessionPc[s] = "join" =>
      threadPc[s] \notin {"block", "waiting"}

-----------------------------------------------------------------------------
(* What it guarantees to a single miner without a dev-fee connection, while *)
(* the pool's connection lasts.                                             *)

\* Every share sent is whole, none is sent twice, and they are sent in the
\* order in which they were found.
SentInOrder ==
  \A s \in Sides : \A i, j \in 1..Len(sent[s]) :
    sent[s][i] > 0 /\ (i < j => sent[s][i] < sent[s][j])

\* Whether the object share holds one that was sent before.
AlreadySent(s) == \E i \in 1..Len(sent[s]) : sent[s][i] = share[s]

\* The share that waits to be sent: written, and not yet sent.
Pending(s) == IF share[s] = Torn \/ AlreadySent(s) THEN Empty ELSE share[s]

\* The flags, the object share and the condition variable together are a
\* mailbox for one share.
Mailbox == INSTANCE ShareMailbox WITH slot <- Pending("user"), delivered <- sent["user"]
ImplementsMailbox == Mailbox!Spec

\* Why a lone miner's share is never sent early: submitting is up while it is
\* written (and, with Xelis, while nothing is), so all depends on data_ready
\* being down then, or about to be cleared by the thread that has just sent the
\* share before.
SoloFlags(m) ==
  /\ sessionPc["user"] \in {"down", "up"}
  /\ sessionPc["user"] = "down" => threadPc["user"] = "none"
  /\ orphanPc["user"] = "none"
  /\ connected["user"] => sessionPc["user"] = "up"
  /\ minerPc[m] # "wait" => connected["user"]
  /\ seen[m] <= jobCounter
  /\ minerPc[m] \notin {"kickIn", "notifyIn", "kickOut", "notifyOut"}
  /\ minerPc[m] = "recheck" => ClaimsFirst
  /\ minerPc[m] \in {"check", "claim"} => ~submitting["user"] \/ Stale(m)
  /\ minerPc[m] = "claim" => ~submitting["user"] \/ ClaimsFirst
  /\ threadPc["user"] \in {"send", "clearSubmitting"} => submitting["user"]
  /\ dataReady => submitting["user"] \/ threadPc["user"] = "clearReady"
  /\ minerPc[m] \in {"write", "writing", "ready"} \/ (minerPc[m] = "recheck" /\ ~Stale(m)) =>
       /\ submitting["user"]
       /\ threadPc["user"] \notin {"send", "clearSubmitting"}
       /\ dataReady => threadPc["user"] = "clearReady"

SentBelow(n) == \A i \in 1..Len(sent["user"]) : sent["user"][i] < n

Spent == share["user"] = Empty \/ AlreadySent("user")
Fresh == share["user"] > 0 /\ SentBelow(share["user"])

\* Shares are numbered upwards: the one being handed over is newer than the
\* object share, and the one in the object, if it was not sent before, newer
\* than those sent.
SoloOrder(m) ==
  /\ myShare[m] <= found /\ share["user"] <= found /\ SentBelow(found + 1)
  /\ minerPc[m] \in {"spin", "check", "claim", "recheck", "write", "writing"} =>
       share["user"] < myShare[m] /\ 0 < myShare[m] /\ SentBelow(myShare[m])

\* The object holds a share that was sent, or one that the flags say is there to
\* be sent.
SoloObject(m) ==
  /\ minerPc[m] # "writing" => Spent \/ Fresh
  /\ minerPc[m] = "writing" => share["user"] = Torn
  /\ minerPc[m] = "ready" => Fresh
  /\ ~submitting["user"] \/ threadPc["user"] = "clearSubmitting" => Spent
  /\ minerPc[m] = "write" \/ (minerPc[m] = "recheck" /\ ~Stale(m)) => Spent
  /\ threadPc["user"] = "send" => Fresh
  /\ dataReady /\ threadPc["user"] \notin {"clearSubmitting", "clearReady"} => Fresh

SoloInv == \A m \in Miners : SoloFlags(m) /\ SoloOrder(m) /\ SoloObject(m)

-----------------------------------------------------------------------------
(* Liveness. *)

\* A side whose connection is lost is connected again (getWork: "Will try to
\* reconnect in 10 seconds..."): its session does not wait for ever for its
\* submit thread.
LostConnectionIsRetried ==
  \A s \in Sides :
    (sessionPc[s] = "dropConnected" /\ sessions[s] < MaxSessions) ~> sessionPc[s] = "up"

=============================================================================
