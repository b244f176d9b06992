# tnn-miner: models, checks and proofs

TLA+ models of the concurrent core of tnn-miner: how jobs reach the mining
threads, how found shares reach the pool, how a lost pool connection is
replaced, how messages are cut out of what is read, and what the mining threads
share: RandomX's datasets, the nonces and the hash counter. TLC checks them on
small instances; TLAPS proves every safety property that the passing runs check,
three refinements among them, for every value of the constants. `PROJECT.json` is the index:
components, runs, mutants, the source lines behind every definition (`map`),
hazards, findings and theorems.

    tlc -config ShareBoth.cfg MCShareHandoff     # a Share* run
    tlc -config Conn.cfg Connection              # a Conn* run
    tlc -config Jobs.cfg JobBroadcast            # a Jobs* run
    tlc -config Dataset.cfg Dataset              # and so LineFraming, NonceSpace, HashRate
    tlapm ShareHandoffProofs.tla                 # the proofs of a module

## 1. The system

The program has one network thread per *side*: the user's pool and, unless the
dev fee is off, the developer's. Each runs `getWork` (miner.cpp), which spawns
one Boost.Asio session coroutine after another. N mining threads hash. A
session has a *submit thread* of its own. A reporter, a broadcast server and
the main thread only observe. Everything is shared through global variables,
most of them plain `bool`s and `int`s outside any lock:

| state | written by | read by |
|---|---|---|
| `job`, `devJob` | job handlers | mining threads, under `mutex` |
| `jobCounter` | job handlers, `set_difficulty` | mining threads, at every hash |
| `ourHeight`, `devHeight` | job handlers | mining threads (Spectre, Xelis) |
| `isConnected`, `devConnected` | job handlers, `setForDisconnected`, `getWork` | mining threads, `getWork` |
| `submitting`, `submittingDev` | mining threads, submit threads, tear-down | the same |
| `data_ready`, `cv`, `mutex` | all of them, for both sides | submit threads |
| `share`, `devShare` | mining threads | submit threads |
| `abort`, `submitThread` | session frame; submit thread by reference | both |
| `lastReceivedJobTime` | job handlers of both sides | read loops of both sides |

Components, and what makes each correct:

1. **Share hand-off** (net.hpp, net.cpp, the sessions' submit threads, the ends
   of the miners' loops). A miner that found a share waits until the side's
   flag is down, raises it, fills the global object, raises `data_ready` and
   notifies `cv`; a submit thread woken by `cv` writes the object to the pool
   and clears both flags. On the loss of a connection `setForDisconnected`
   drops and raises flags and notifies, and the session waits until its submit
   thread has ended. Hard: two sides on one `data_ready` and one `cv`, flags
   changed outside the mutex, lost wake-ups, frames used by reference. Correct:
   the two sides do not interfere, no share is sent twice or torn where one
   miner runs, no more is submitted than was claimed, a tear-down ends.
2. **Pool connection** (getWork and the sessions). Connect, subscribe,
   authorize, read loop, job timeout, read errors, pongs, shutdown, retry. Hard:
   every protocol notices a different subset of failures, one flag serves as
   "mining may go on" and "the session has ended", and the time of the last job
   is shared by both sides. Correct: a lost connection is noticed and replaced;
   the flag is up only with a job of the present session.
3. **Job broadcast** (the job handlers and the top of the miners' loops). Hard:
   the job, the connected flag, the height and the counter are separate
   variables, updated in this order under locks that differ per protocol.
   Correct: no job is overlooked; a share is submitted under the id of the job
   it was found on; a connected miner mines.
4. **RandomX dataset** (net_rxo.cpp, the RX0 handlers, mine_rx0.cpp): one
   dataset per side, recomputed by `updateVM` when a job has a new seed, while
   the miners hash over it. RX0's solo session polls a daemon for templates and
   shares `updateVM` with its own submit thread. Hard: the recomputation takes
   seconds, lies before or after the replacing of the job, and the solo
   session's two threads may be in it at once. Correct: a miner hashes over the
   dataset of its job, and comes to hash in the end.
5. **Message framing** (Spectre's `chopQueue`, the others' `getline` on a read
   buffer): messages that a read cuts in two. Correct: every message is handled
   once and in order, and lost only where the code gives it up.
6. **Nonce allocation**: the thread's number and a counter share the nonce's
   bits; `nonce0` is one unsynchronised counter, reset by handlers and miners.
   Correct: no two threads hash the same nonce of a job.
7. **Hash-rate reporter and broadcast server**: a counter taken by load and
   store, a 31-entry window shared by three threads. Correct: no hash is
   counted twice, and the rate comes back after a lost connection.
8. Astrix' sessions and miner are Spectre's but for the nonce's resets; Verus,
   the DNS resolver, the command line and configuration, the hash functions and
   hardware access: see section 7.

The hazards, with their source lines, are in `PROJECT.json`.

## 2. Modules

| module | models | composes with |
|---|---|---|
| `ShareHandoff` | component 1: miners x submit threads x session tear-downs, both sides | its abstract specifications `ShareMailbox` (refinement `ImplementsMailbox`) and `SubmitPermits` (`ImplementsPermits`) |
| `ShareMailbox` | what a lone miner expects: a one-place mailbox | |
| `SubmitPermits` | what is left of it with many miners: a permit per side for one submission | |
| `MCShareHandoff` | the symmetry of the miners | extends `ShareHandoff` |
| `Connection` | component 2: getWork, login, read loop, job timeout, both sides | takes "the submit thread ends" (`Join`) from `ShareHandoff` |
| `JobBroadcast` | component 3: handlers x miners | takes tear-downs as one step (`Disconnect`), submission as one step (`Submit`) |
| `Dataset` | component 4: handlers and polling threads x miners | `JobBroadcast`'s miner for RX0, with its jobs named by their seeds |
| `LineFraming` | component 5: one session's reads | inside `Connection`'s `JobArrives`; its abstract specification `MessageChannel` (refinement `ImplementsChannel`) |
| `MessageChannel` | what a session expects of the framing: messages one by one, delivered or excused | |
| `NonceSpace` | component 6: counters x threads x handlers | inside the miners' hash |
| `HashRate` | component 7: the timer x a miner x getWork x the server | takes the connection's flag from `Connection` |
| `ShareHandoffProofs`, `ShareSoloProofs`, `ConnectionProofs`, `JobBroadcastProofs`, `DatasetProofs`, `LineFramingProofs`, `NonceSpaceProofs`, `HashRateProofs` | theorems | |

`ShareHandoff` is parameterised by a `Protocol`; the other modules by a set
`Protocols`, of which a behaviour chooses one at its start, so that one run
covers all. A group of operators at a module's head (`Renotifies`,
`ClaimsFirst`, `LocksJobs`, `DecodesByHeight`, `JobsAtLogin`,
`NoticesReadError`, ...) states on which points the session and miner families
differ; everything else is common. The families: `"spectre"` (Spectre, and
Astrix, whose session is the same code), `"xelis"` (Xelis Stratum), `"xatum"`
(Xelis Xatum), `"getwork"` (Xelis solo), `"rx0"` (RandomX Stratum) and `"dero"`.

### ShareHandoff

One step is one access to shared state. `threadPc` follows a submit thread
through `while (!abort)`, `unique_lock`, `cv.wait`'s predicate, the sleep, the
send, and the two flags it clears. `sessionPc` follows `setForDisconnected`
assignment by assignment, the notification(s) and the wait for `submitThread`.
`minerPc` follows a miner from `waitForJob` over the spin on the flag, the stale
check, the claim, the (non-atomic) assignment of the object, `data_ready` and
`notify_all`, and the kicks (`data_ready = true; notify_all`) of Spectre's and
Xelis's miners when the user's connection is gone. `cv` has no variable: its
waiters are the threads at `"waiting"`, and `SpuriousWakeup` is a step.

A session that returns before its submit thread was first scheduled finds
`submitThread` still false and leaves an *orphan*: a thread that starts on a frame
that is gone. `ThreadStart` has no guard against it, as the code has none: `Return`
hands a thread still at `"start"` over to `orphanPc`. What an orphan reads there
(`abort`, `isDev`, `submitThread`, the stream) is anything, so it may end at any
time, throw, or take shares beside the next session's thread, with a write that
reaches the pool or does not; mutex, `cv`, `data_ready` and the side's flag are
globals, and it uses them as any submit thread does. One `orphanPc` stands for all
orphans of a side, as those that do not hold the mutex are alike. Left out is what
an orphan's writes do to memory that has been put to another use, such as an
`abort` of the next session at the same place, a crash, or shares of the other side
if it reads another `isDev`.

Abstractions: a share is its number, `Torn` while it is being assigned; the
heights compared in a stale check are folded into `jobCounter`; an exception in
a miner is not modelled here (`JobBroadcast` has them); a job is one atomic
step under `mutex` where the handler locks it. The predicate's three reads are
one step, which loses no outcome: `abort` is read last, and neither it nor
`data_ready`, which is read first, falls meanwhile (`EvaluationIsStable`, checked
and proved). The asynchronous write's buffer is
taken to live until it completes. `claims` and `sent` are history variables.
Plain `bool`s are read and written in program order: every busy loop calls
`boost::this_thread::yield()`, opaque to the compiler.

For a lone miner without failures the whole implements `ShareMailbox`, a place
for one share. `Pending` is what the place holds: the object `share` if it was
written and not sent before. A put is the end of the object's assignment, a take
the sending; the flags and the condition variable only see to it that the two
alternate. With more miners, two sides, tear-downs and reconnections it still
implements `SubmitPermits`: a side's flag is a permit for one submission
(`Permitted`: the flag is up, unless its thread is about to clear it after a
submission, or its thread or an orphan has decided to send), however many miners
raised it.

### Connection

`pc` is getWork's or the session's place: `attempt` (connectionAttempt),
`connect`, `subscribe`, `authorize`, `loop`, `pong` (a ping is being answered),
`join` (torn down, waiting for the submit thread), `ended` (`while (*B)`),
`pause` (10 s). `wsMutex` is held by Xelis's and RX0's sessions while they
handle a job or a ping, through the tear-down that follows a cut-off pong. `flagging` separates a
handler's replacing of the job from its `*C = true`. `age` is the seconds since
`lastReceivedJobTime`, cut off one second after the timeout. A job handler runs
to its end before its session goes on (`Goes`), as both are one coroutine.

### JobBroadcast

`netPc` follows a handler through its assignments (replace, flag, height, load
and store of `jobCounter++`), `minerPc` a miner through the three copies under
the mutex, the decoding of each side, the recording of heights, the inner loop
and the submission. A job is its number; what a template was decoded from is
`work`. `side` is whom a miner mines for and `buffer` whose work it hashes: Spectre's,
Xelis's and getwork's miners read `devConnected` again in between
(mine_spectre.cpp:123, :136), so that a share for the dev may be made of the user's
work (`ChooseBuffer`). Until the first difficulty of the side chosen has come, the
inner loop only begins anew (`if (DIFF == 0) continue`), which is to stay at
`"mine"`. An exception anywhere in the loop (`Throw`) forgets the counter and the
heights, as the `catch` and `goto` do. `retargets` is the set of sides whose pool
changes the difficulty, chosen at the start as the pools' own affair: a behaviour
in which it is empty is one where `set_difficulty` does not race on the counter,
and `NoMissedJob` is about these (`CounterIsLocked`).

### Dataset

A job is named by its seed. `pc` follows a handler through `updateVM`: the
comparison of seeds, `status = false` and the first write to the dataset, the
last write, `refKey`, `status = true`; with the job replaced before (login,
polled template) or after (job message), and `jobCounter` bumped or not. A
dataset is the seed it was computed from, or `Torn` while it is written; two
threads that write at once leave either (`mixed`). `minerPc` has the miner's
wait for a dataset, its copies under the mutex with the exception that a missing
dev job raises, a hash that takes time, the last check and the loops.

### LineFraming

The stream is a sequence of *pieces*: a message is two pieces either side of a
cut, and its newline. A read ends behind any piece with at least one newline in
it; `Line` is what `getline` makes of it. A text parses exactly when it is the
two pieces of one message. `throws` are the messages whose handler raises an
exception, which Spectre cannot tell from a parse error. After
`packets.clear()` a packet is intact or `Garbage`.

Seen from the handlers all this is a `MessageChannel`: the messages that lie
whole behind the place reached (`Passed`) were each handled as they passed, or
lost for an excuse: the handler throws or a read cut the message (Xelis, RX0),
or something had spoiled `chopQueue` before (Spectre).

### NonceSpace

A nonce is a number made of a counter's value and a thread's number, with the
widths as parameters; the increment of the shared counter is a load and a
store, and the value used is the one stored or the one read again. `hashed` is
a history variable: what each thread tried since its counter's last reset.

### HashRate

The timer's handler is taken step by step (re-arm and look at the connection,
load, store, look for room, erase, push); `getWork`'s `clear()` may come between
any two. Erasing from the empty vector is undefined: the process dies, or the
vector ends before it begins and the next push is swallowed. `/stats` with an
empty window is an integer division by zero, which ends the process.

## 3. Runs

| run | instance | shows |
|---|---|---|
| `ShareBoth` | Xelis, 2 miners, 2 sides, 2 shares, 2 jobs, no failure | `SubmitExclusion`, `ReadyHeldWhileSending`, `NoExtraSubmission`, `EvaluationIsStable`, refinement of `SubmitPermits`, types |
| `ShareSolo` | Xelis, 1 miner, 4 shares, 4 jobs, no failure | the inductive invariant `SoloInv`, `SentInOrder`, refinement of `ShareMailbox` |
| `ShareRetry` | Spectre, 1 miner, 2 shares, a read error, 2 sessions, orphans, fair | `JoinedThreadIsAwake`, refinement of `SubmitPermits`, `LostConnectionIsRetried` |
| `ShareLostWakeup` | the same with Dero's session, 1 share | violation of `LostConnectionIsRetried` |
| `Conn` | six families, 2 sides, timeout 2 s, fair | `FreshJob`, `ConnectedIsServed`, `PacketsExclude`, `EndedIsRetried`, `ReadErrorIsNoticed`, `PacketLockIsReleased`, types |
| `ConnDeafRead` | RX0, 2 sides, timeout 1 s, fair | violation of `BrokenLinkIsReplaced` |
| `Jobs` | five families, 1 miner, 2 pools, 2 jobs each, changes of difficulty on either side or none, fair | `NoMissedJob`, `DecodedShareNamesItsJob`, `DecodedBeforeShare`, `MiningContinues`, types |
| `JobsByHeight` | Spectre, 1 miner, 1 pool | violation of `UserShareNamesItsJob` |
| `Dataset` | stratum and solo, 1 miner, 2 user seeds, 1 dev seed, fair | `JobHasDataset`, `WorkFitsDataset`, `DatasetIsComing`, `HashingGoesOn`, types |
| `LineFraming` | three families, 5 messages, any cuts, any handlers that throw | `HandledInOrder`, `OnlyCutMessagesAreLost`, `CutMessagesAreJoined`, refinement of `MessageChannel`, types |
| `NonceSpace` | five families, 2 threads, 2 bits each, batches of 2 | `NoSharedNonce`, `NewNonceEachTime`, types |
| `HashRate` | with the server, window of 2, 4 hashes, fair | `CountedOnce`, `RateComesBack`, types |

Every property of a passing run has a mutant in `PROJECT.json`: an operator of
the module, marked *Mutant*, that breaks the named definition as a plausible
slip would, and under which TLC finds the property violated.

**Bounds.** Two miners are the least that contend for a slot, two sides are all
there are. Two shares of a run suffice for one to be claimed while the other is
being sent; two jobs for one to become stale; two sessions for a tear-down, a
reconnection and the new session's thread, beside an orphan of the first. In `ShareSolo`, four shares let the
slot be filled, taken and refilled with a share of the next job; Xelis's claim
comes before its last look at the job, so that a claim may also be left unused.
The job timeout
(30 to 1200 s, by protocol) only needs to be reachable after, before and between
jobs: one or two ticks. `MaxCounter` bounds the changes of difficulty in `Jobs`
and the counted jobs in `Dataset`. In `LineFraming` five messages let one be cut
by two reads that each hold another whole message; each of a message's three
pieces is a place to cut, and more places within one would look the same. In
`NonceSpace` the own counters (up to 6) run over their two bits, and the threads'
numbers use the ends of theirs. In `HashRate` the window is filled, erased from
and cleared within four hashes.

Runs over a bounded number of jobs, messages or shares end, hence
`CHECK_DEADLOCK FALSE` there. In `Connection` nothing is bounded but the time;
its config allows a stop because with Spectre `ended` with the flag up is one.
In `HashRate` the process may die. `Dataset` and `NonceSpace` check for deadlock.

**Fairness.** The operating system runs every thread (weak fairness of each
thread's own steps). The mutex is not withheld for ever from a thread that asks
again and again (strong fairness of the acquisition). A pool that was lost can
be reached again (`Open`). In `Connection`, time passes and getWork's thread
runs; an established connection owes nothing, neither answers nor jobs nor an
error. In `Dataset` a recomputation ends, and a
miner gets the mutex in the end. In `HashRate` only the timer's thread is fair.
In `ShareHandoff` nothing obliges a pool to send jobs, a miner to find
shares or a connection to fail.
An orphan that holds the mutex goes on, too;
nothing else is asked of it.
`Renotify` needs the submit thread not to be between its decision to sleep and
its sleep: 200 ms lie between the two notifications.

## 4. Findings

* `ShareLostWakeup`: `setForDisconnected` notifies `cv` without its mutex
  (net.hpp:52-58). A submit thread that has just evaluated its predicate falls
  asleep after the notification, and Dero's session (net_dero.cpp:237-240)
  waits for it for ever. Spectre's second notification, 200 ms later,
  saves it. Xelis and RX0 have one too, but at a read error they never notice
  (`ec && trans > 0`); no family has one after a job timeout, where only a
  miner's kick can still wake the thread.
* `ConnDeafRead`: RX0's read loop looks at an error only if `trans > 0`; a dead
  user connection is not noticed as long as the dev's jobs refresh the shared
  `lastReceivedJobTime`.
* `JobsByHeight`: Spectre's miner reads `ourHeight` again after decoding,
  outside the mutex: the next job may be left undecoded while its id is used.

Three more follow from the models and have no run of their own. Spectre handles
a job that comes with the subscription's answer; if the authorize request then
fails, the session returns with `isConnected` up and `getWork` waits in
`while (*B)` for ever: with Spectre, `Connection` violates `EndedIsRetried`.
Xelis's login
reads the answer to its subscription synchronously, and `expires_after` does
not end a synchronous read: a silent pool holds `Connection` at `subscribe`.
RX0's miner reads the dev job whatever the dev side's state: without a dev job
every round throws, and `MiningContinues` would not hold for it.

What the code does *not* guarantee, and no run claims: with two miners a share
may be lost or torn (`SentInOrder` is for one miner); a dev share waiting while
a user share is sent may be stranded, as one `data_ready` serves both;
a submit thread may outlive its session's frame, if it is first scheduled after the
session returned (net_xelis_xatum.cpp:250-308), and may even send a share of the
next session's; a dev share of Spectre's, Xelis's or getwork's may be made of the
user's work, if the dev side is lost between the choice of whom to mine for and of
the buffer (mine_spectre.cpp:123, :136);
no job is overlooked only where handlers lock `mutex` (not Dero, Xelis, getwork)
and no `set_difficulty` races on the counter (Spectre), which is
`CounterIsLocked`, and with RX0, whose login does not bump the counter, only of
the user's; the dev side of RX0 and Dero may make a share of a buffer that
was never filled; `ConnectedIsServed` and `EndedIsRetried` leave Spectre out.
RX0's solo session promises little: its polling loop and its submit thread may
recompute a dataset at once, no job it receives is counted, and a late answer
raises `isConnected` after the tear-down, so that `getWork` waits for ever;
`JobHasDataset` and `WorkFitsDataset` are about stratum sessions. RX0's and Dero's
counters restart with every round, also one that a job of the dev's began, so
that nonces are tried again. Once a handler of Spectre's has thrown, `chopQueue`
holds a whole message and later cut ones are lost.

## 5. Proofs

All for every set of miners, every bound, every set of protocols and, unless
stated, both sets of sides.

| theorem | statement | argument |
|---|---|---|
| `ShareHandoffProofs!TypeCorrect` | `[]TypeOK` | action by action |
| `Exclusion`, `ReadyHeld` | `[]SubmitExclusion`, `[]ReadyHeldWhileSending` | their conjunction is inductive: `data_ready` falls only in `ClearReady` and `OrphanClearReady`, whose thread owns the mutex, so no other thread, orphans included, is past its predicate |
| `EvaluationStable` | `EvaluationIsStable` | `FlagsFall`: `data_ready` falls in `ClearReady` and `OrphanClearReady` only, whose thread owns the mutex by the same invariant, `abort` in `Open` only, where the side has no thread of its own (`ThreadAtRest`: before and after a session) |
| `ThreadIsAwake` | `[]JoinedThreadIsAwake` | `AwakeInv`: from `RaiseAbort` to the session's end `abort` is up, so a thread that is awake after the second notification does not decide to sleep again: the part of `LostConnectionIsRetried` that is about the lost wake-up |
| `HandoffIsPermits` | `Spec => ImplementsPermits` | `PermitStep`: only a claim adds a side to `Permitted`, and `Send`, also an orphan's, takes its own away |
| `SubmissionsPaid` | `[]NoExtraSubmission` | `PaidInv`: submissions, plus one for a permit, are at most the claims; inductive for the steps of `SubmitPermits`, and so by `PermitStep` for the code's |
| `SoloInvariant`, `SoloSentInOrder` | one miner, one side, no failures, any protocol: `[]SoloInv`, `[]SentInOrder` | `SoloInv` has the flags (`data_ready` is down while the object is written, or is about to be cleared), the order of the shares' numbers, and the object (spent while the flag is down, fresh while it is sent; the claim that Xelis and getwork leave unused forces the third part) |
| `SoloMailbox` | under the same assumptions, `Spec => ImplementsMailbox` | the three parts tell that a share is put only where nothing waits and that what is sent is what waits; each other step leaves `Pending("user")` and `sent` alone |
| `ConnectionProofs!TypeCorrect`, `JobIsFresh` | `[]TypeOK`, `[]FreshJob` | `ConnectedInv`: while a handler is between its assignments the session is at a step that does not reset `fresh` |
| `ServedWhileConnected` | `[]ConnectedIsServed` | the same invariant |
| `PacketsExcluded` | `[]PacketsExclude` | `LockInv`: with `wsMutex`, the holder is exactly the side that handles a job, waits for its pong or, its pong cut off, for its submit thread; a step of one side does not concern the other's place |
| `JobBroadcastProofs!TypeCorrect` | `[]TypeOK` | action by action |
| `UserShareNamed` | `[]DecodedShareNamesItsJob` | `WorkInv`: past `decode`, work and copy agree where every job is decoded, and the buffer is that of the side chosen |
| `NoJobMissed` | `[]NoMissedJob` | `LatestInv`: who holds the mutex when (`Locking`), that RX0's user logs in while all miners wait (`Waiting`), what a copy is worth until the counter changes (`Copied`; both sides' with Spectre) |
| `DecodedFirst` | `[]DecodedBeforeShare` | `FilledInv`: a side that a miner may pick has been counted, and by the last comparison of heights decoded, and the buffer hashed is that side's or the user's; an exception forgets both |
| `DatasetProofs!TypeCorrect` | `[]TypeOK` | action by action |
| `JobsHaveDatasets` | `[]JobHasDataset` | `DataInv`: a stratum handler holds the mutex and builds alone; the cache key is that of the finished dataset |
| `WorkFits` | `[]WorkFitsDataset` | `WorkInv`: a miner that sees the present counter copied the present job, as a job is replaced only under the mutex, with the counter bumped, or by a login while no miner mines |
| `DatasetsCome` | `[]DatasetIsComing` | `ComingInv`: a lowered status, and a job without a key, have a thread in `updateVM`; each of its steps hands the duty on to itself until the status is raised |
| `LineFramingProofs!TypeCorrect` | `[]TypeOK` | action by action |
| `HandledOnce` | `[]HandledInOrder` | `OrderInv`: what is handled lies before the place reached, in the order of arrival; what `chopQueue` keeps is no message by itself |
| `OnlyCutsLose` | `[]OnlyCutMessagesAreLost` | `LostInv`: a message within one read is a line of its own |
| `CutsAreJoined` | `[]CutMessagesAreJoined` | `JoinInv`: unspoiled, `chopQueue` is empty or the beginning of the one message that the last read cut |
| `FramingIsChannel` | `Spec => ImplementsChannel` | a step that finishes a message either handles it or, by `LostInv` and `JoinInv`, has an excuse for it; every other leaves the number of those passed alone (`Thirds`) and handles none |
| `NonceSpaceProofs!TypeCorrect`, `NoncesApart` | `[]TypeOK`, `[]NoSharedNonce` | `BearsNumber`: all that a thread tries leaves its own remainder by `TidSize`, whatever the counters are; division with remainder |
| `NoncesNew` | `[]NewNonceEachTime` | `Tried`: a thread has tried just the nonces that the values of its own counter stand for, which differ until the counter has run through them |
| `HashRateProofs!TypeCorrect`, `HashesCountedOnce` | `[]TypeOK`, `[]CountedOnce` | `Counted`: window, counter and what the timer has in hand are at most the hashes done, where the load may be of fewer than the store takes; the sum over a window is the number of its `Entries`, which `Append` and `Tail` map one to one |

Every invariant, action property and refinement of a passing run is proved.
Model-checked only: the liveness properties (`LostConnectionIsRetried`,
`EndedIsRetried`, `ReadErrorIsNoticed`, `PacketLockIsReleased`,
`MiningContinues`, `HashingGoesOn`, `RateComesBack`), which rest on fairness and
`ENABLED`, beyond the prover. What can go wrong in three of them is proved as
safety: nobody waits for a thread that sleeps (`ThreadIsAwake`), for a dataset
that nobody computes (`DatasetsCome`), or for a lock held at no work
(`PacketsExcluded`).

## 6. What could follow

The mailbox of a lone miner through tear-downs and reconnections, which may
strand a share; what a share submitted by one of several miners may contain (one
that was found, the one before, or torn); the polling session of RX0 within
`Connection`, once its late `*C = true` is settled.

## 7. Not modelled

Hash functions: vendored or generated numeric code and its tables (2dlookup.h
and 3dlookup.h alone are nearly three quarters of the repository's lines), out
of reach of explicit-state checking; a hash is a nondeterministic choice. The
command line, configuration, wallet checks, benchmark mode and hardware access:
sequential set-up and platform I/O. The DNS resolver: a sequential codec without
state. Verus: its packet handler, its loop over the messages and its miner are
commented out, and so is Astrix' solo session as a whole. Certificates, TLS and
HTTP, which Boost provides: the models take them as sending, receiving and
failing. The pools' targets and the comparison of a hash with them: a share is
found or not. Cosmetic state (colours, console output) is left out throughout.
