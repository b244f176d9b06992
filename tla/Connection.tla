----------------------------- MODULE Connection -----------------------------
(***************************************************************************)
(* The life of a side's connection to its pool: getWork's loop around one  *)
(* session after another, the session's login and its read loop.           *)
(*                                                                         *)
(* The flag connected (isConnected, devConnected) is what the rest of the  *)
(* program goes by: the miners mine while the user's is up, and getWork,   *)
(* when its session has returned, waits until the side's is down.  The     *)
(* time of the last job is one variable for both sides.                    *)
(***************************************************************************)
EXTENDS Integers

CONSTANTS
  Sides,        \* {"user", "dev"}, or {"user"} without a dev-fee connection
  Protocols,    \* the protocols whose sessions are considered
  JobTimeout    \* seconds without a job before a session gives up

None         == "none"
AllProtocols == {"spectre", "xelis", "getwork", "rx0", "xatum", "dero"}

ASSUME ConnectionAssumption ==
  /\ Protocols \subseteq AllProtocols
  /\ JobTimeout \in Nat
  /\ None \notin Sides

VARIABLES
  protocol,   \* the one that runs, chosen at the start
  pc,         \* per side: where getWork or its session is
  connected,  \* per side: isConnected, devConnected
  link,       \* per side: the TCP connection
  fresh,      \* per side: the job is one of the present session
  flagging,   \* per side: a job handler has replaced the job, not yet flagged it
  wsMutex,    \* the side that holds it, or None
  age         \* seconds since lastReceivedJobTime, shared by both sides

vars == <<protocol, pc, connected, link, fresh, flagging, wsMutex, age>>

\* The login is subscribe and authorize, each with an answer read on the spot.
SubscribesFirst == protocol \in {"spectre", "xelis"}
\* Jobs that come with an answer of the login are handled there and then.
JobsAtLogin == protocol = "spectre"
\* The read loop gives up at any read error.  The other sessions ask for
\* ec && trans > 0, or for nothing: a failed read_until transfers 0 bytes.
NoticesReadError == protocol \in {"spectre", "dero", "getwork"}
\* Pongs are written, and a partly written one ends the session.
AnswersPings == protocol \in {"spectre", "xelis", "rx0"}
\* A session's first job comes with the answer to the login, which is not timed.
LoginUntimed == protocol = "rx0"
\* The session gives up after JobTimeout without a job.
WatchesJobs == protocol \notin {"dero", "getwork"}
\* The lines that were read are handled under wsMutex, pongs included.
LocksPackets == protocol \in {"xelis", "rx0"}
\* The stream is shut down by SSL, which throws on a broken connection.
ShutsDown == protocol \in {"xelis", "xatum"}
\* The session connects synchronously: a failure throws.
ConnectThrows == protocol \in {"dero", "getwork"}

Pcs   == {"attempt", "connect", "subscribe", "authorize", "loop", "pong", "join", "ended", "pause"}
Links == {"none", "alive", "broken"}

TypeOK ==
  /\ protocol \in Protocols
  /\ pc \in [Sides -> Pcs]
  /\ connected \in [Sides -> BOOLEAN]
  /\ link \in [Sides -> Links]
  /\ fresh \in [Sides -> BOOLEAN]
  /\ flagging \in [Sides -> BOOLEAN]
  /\ wsMutex \in Sides \cup {None}
  /\ age \in 0..(JobTimeout + 1)

Init ==
  /\ protocol \in Protocols
  /\ pc = [s \in Sides |-> "attempt"]
  /\ connected = [s \in Sides |-> FALSE]
  /\ link = [s \in Sides |-> "none"]
  /\ fresh = [s \in Sides |-> FALSE]
  /\ flagging = [s \in Sides |-> FALSE]
  /\ wsMutex = None
  /\ age = 0

\* A job handler runs to its end before its session goes on.
Goes(s, from, to) ==
  /\ pc[s] = from /\ ~flagging[s]
  /\ pc' = [pc EXCEPT ![s] = to]
  /\ UNCHANGED protocol

\* A session that handles what it has read, and when it has done so.
Locks(s) == IF LocksPackets THEN wsMutex = None /\ wsMutex' = s ELSE UNCHANGED wsMutex
Unlocks(s) == wsMutex' = IF wsMutex = s THEN None ELSE wsMutex

-----------------------------------------------------------------------------
(* getWork: from one session to the next. *)

\* connectionAttempt: *B = false, then the session is spawned.
Attempt(s) ==
  /\ Goes(s, "attempt", "connect")
  /\ connected' = [connected EXCEPT ![s] = FALSE]
  /\ fresh' = [fresh EXCEPT ![s] = FALSE]
  /\ UNCHANGED <<link, flagging, wsMutex, age>>

\* The session has returned.  while (*B) sleep: then the loss is reported, and
\* the next attempt is 10 s away.
Ended(s) ==
  /\ ~connected[s]
  /\ Goes(s, "ended", "pause")
  /\ UNCHANGED <<connected, link, fresh, flagging, wsMutex, age>>

\* Mutant: the io_context is not reset, so that its run returns at once.
ResumeStopped(s) ==
  /\ Goes(s, "pause", "ended")
  /\ UNCHANGED <<connected, link, fresh, flagging, wsMutex, age>>

\* ioc.reset(); goto connectionAttempt
Resume(s) ==
  /\ Goes(s, "pause", "attempt")
  /\ UNCHANGED <<connected, link, fresh, flagging, wsMutex, age>>

-----------------------------------------------------------------------------
(* The session: login. *)

Connect(s) ==
  /\ Goes(s, "connect", IF SubscribesFirst THEN "subscribe" ELSE "authorize")
  /\ link' = [link EXCEPT ![s] = "alive"]
  /\ UNCHANGED <<connected, fresh, flagging, wsMutex, age>>

ConnectFails(s) ==
  /\ Goes(s, "connect", IF ConnectThrows THEN "pause" ELSE "ended")
  /\ UNCHANGED <<connected, link, fresh, flagging, wsMutex, age>>

\* Mutant: the connection is flagged before the job is replaced.
FlagEarly(s) ==
  /\ connected' = [connected EXCEPT ![s] = TRUE]
  /\ flagging' = [flagging EXCEPT ![s] = TRUE]
  /\ age' = 0
  /\ UNCHANGED fresh

\* The first half of a job handler: the job is replaced, and timed.  The other
\* half is FlagConnected.
ReplaceJob(s) ==
  /\ fresh' = [fresh EXCEPT ![s] = TRUE]
  /\ flagging' = [flagging EXCEPT ![s] = TRUE]
  /\ age' = IF LoginUntimed /\ ~connected[s] THEN age ELSE 0
  /\ UNCHANGED connected

NoJob == UNCHANGED <<connected, fresh, flagging, age>>

\* The pool answers the subscription, maybe with a job.
SubscribeAnswered(s) ==
  /\ link[s] = "alive"
  /\ Goes(s, "subscribe", "authorize")
  /\ \/ NoJob
     \/ JobsAtLogin /\ ReplaceJob(s)
  /\ UNCHANGED <<link, wsMutex>>

\* The answer cannot be read or is not JSON: Spectre reports it and goes on
\* with the login, Xelis lets the exception go through to getWork.
SubscribeUnread(s) ==
  /\ Goes(s, "subscribe", IF JobsAtLogin THEN "authorize" ELSE "pause")
  /\ link' = IF JobsAtLogin THEN link ELSE [link EXCEPT ![s] = "none"]
  /\ NoJob /\ UNCHANGED wsMutex

\* A request of the login cannot be written: the session returns.
WriteFails(s) ==
  /\ link[s] = "broken"
  /\ \/ Goes(s, "subscribe", "ended")
     \/ Goes(s, "authorize", "ended")
  /\ link' = [link EXCEPT ![s] = "none"]
  /\ NoJob /\ UNCHANGED wsMutex

\* The login is over: lastReceivedJobTime is set, the submit thread started.
EnterLoop(s) ==
  /\ link[s] # "none"
  /\ Goes(s, "authorize", "loop")
  /\ age' = IF WatchesJobs THEN 0 ELSE age
  /\ UNCHANGED <<connected, link, wsMutex>>

\* Spectre reads the answer to its last request, and maybe a job with it.
AuthorizeAnswered(s) ==
  /\ JobsAtLogin /\ link[s] = "alive"
  /\ EnterLoop(s)
  /\ \/ UNCHANGED <<fresh, flagging>>
     \/ /\ fresh' = [fresh EXCEPT ![s] = TRUE]
        /\ flagging' = [flagging EXCEPT ![s] = TRUE]

\* Spectre cannot read it and goes on; the others do not wait for it.
AuthorizeUnread(s) ==
  /\ JobsAtLogin => link[s] = "broken"
  /\ EnterLoop(s)
  /\ UNCHANGED <<fresh, flagging>>

-----------------------------------------------------------------------------
(* The session: the read loop. *)

\* A job that the handler takes.  (Xelis ignores one that is not marked clean,
\* Xatum one whose blob is the last one's: nothing changes then.)
JobArrives(s) ==
  /\ pc[s] = "loop" /\ link[s] = "alive" /\ ~flagging[s]
  /\ Locks(s)
  /\ ReplaceJob(s)
  /\ UNCHANGED <<protocol, pc, link>>

\* *C = true, and the handler ends.  (RX0 sets it at the login only: later jobs
\* find it true.)
FlagConnected(s) ==
  /\ flagging[s]
  /\ flagging' = [flagging EXCEPT ![s] = FALSE]
  /\ connected' = [connected EXCEPT ![s] = TRUE]
  /\ Unlocks(s)
  /\ UNCHANGED <<protocol, pc, link, fresh, age>>

\* A ping is answered: the session waits until the pong is written, or has
\* failed to be with nothing written, which is not looked at.
Ping(s) ==
  /\ AnswersPings /\ link[s] = "alive"
  /\ Goes(s, "loop", "pong")
  /\ Locks(s)
  /\ NoJob /\ UNCHANGED link

PongWritten(s) ==
  /\ Goes(s, "pong", "loop")
  /\ Unlocks(s)
  /\ NoJob /\ UNCHANGED link

\* Mutant: the flag stays up.
TearDownOnly(s, from) ==
  /\ Goes(s, from, "join")
  /\ UNCHANGED <<connected, link, fresh, flagging, wsMutex, age>>

\* setForDisconnected
TearDown(s, from) ==
  /\ Goes(s, from, "join")
  /\ connected' = [connected EXCEPT ![s] = FALSE]
  /\ UNCHANGED <<link, fresh, flagging, wsMutex, age>>

\* No job for longer than the timeout, on either side.
TimeOut(s) ==
  /\ WatchesJobs /\ age > JobTimeout
  /\ TearDown(s, "loop")

\* Mutant: an error is looked for only when something was read.
ReadFailsWithData(s) ==
  /\ NoticesReadError /\ link[s] = "broken" /\ fresh[s] /\ flagging[s]
  /\ TearDown(s, "loop")

\* The read ends with an error.
ReadFails(s) ==
  /\ NoticesReadError /\ link[s] = "broken"
  /\ TearDown(s, "loop")

\* The pong is cut off: some of it was written.
PongFails(s) ==
  /\ link[s] = "broken"
  /\ TearDown(s, "pong")

\* Mutant: wsMutex is still held when the session has returned.
JoinLocked(s) ==
  /\ Goes(s, "join", "ended")
  /\ link' = [link EXCEPT ![s] = "none"]
  /\ NoJob /\ UNCHANGED wsMutex

\* The submit thread has ended (ShareHandoff).  The stream is closed and the
\* session returns; unless shutting it down throws.  Then the handler of the
\* exception shuts it down again: if that throws too, the exception reaches
\* getWork; if not, Xatum returns, and Xelis goes on with its loop.  Either way
\* the scope of wsMutex is left.
Join(s) ==
  /\ \/ /\ Goes(s, "join", "ended")
        /\ link' = [link EXCEPT ![s] = "none"]
     \/ /\ ShutsDown
        /\ Goes(s, "join", "pause")
        /\ link' = [link EXCEPT ![s] = "none"]
     \/ /\ protocol = "xelis"
        /\ Goes(s, "join", "loop")
        /\ link' = [link EXCEPT ![s] = "broken"]
  /\ Unlocks(s)
  /\ NoJob

-----------------------------------------------------------------------------
(* The network and the clock. *)

\* The pool resets or ends the connection; or it stays silent for longer than
\* a read may take, and the expiry closes the socket.
Break(s) ==
  /\ link[s] = "alive"
  /\ link' = [link EXCEPT ![s] = "broken"]
  /\ UNCHANGED <<protocol, pc, connected, fresh, flagging, wsMutex, age>>

\* Mutant: the clock runs on.
TickOn ==
  /\ age' = age + 1
  /\ age < JobTimeout + 3
  /\ UNCHANGED <<protocol, pc, connected, link, fresh, flagging, wsMutex>>

\* Beyond the timeout the exact time is immaterial.
Tick ==
  /\ age <= JobTimeout
  /\ age' = age + 1
  /\ UNCHANGED <<protocol, pc, connected, link, fresh, flagging, wsMutex>>

\* What getWork and its session do by themselves.
SideStep(s) ==
  \/ Attempt(s) \/ Ended(s) \/ Resume(s) \/ Connect(s) \/ ConnectFails(s)
  \/ (link[s] = "broken" /\ SubscribeUnread(s)) \/ WriteFails(s)
  \/ AuthorizeUnread(s) \/ FlagConnected(s)
  \/ TimeOut(s) \/ ReadFails(s) \/ PongWritten(s) \/ Join(s)

\* What the pool and the network do.
PoolStep(s) ==
  \/ SubscribeAnswered(s) \/ SubscribeUnread(s) \/ AuthorizeAnswered(s)
  \/ JobArrives(s) \/ Ping(s) \/ PongFails(s) \/ Break(s)

Next == Tick \/ \E s \in Sides : SideStep(s) \/ PoolStep(s)

Spec == Init /\ [][Next]_vars

\* Time passes and getWork's thread runs; the pool and the network owe nothing.
Fairness == WF_vars(Tick) /\ \A s \in Sides : WF_vars(SideStep(s))

FairSpec == Spec /\ Fairness

-----------------------------------------------------------------------------
(* Properties. *)

\* The miners that wait for a connection look at connected without the mutex:
\* once it is up, the job they go for is of the present session, not what an
\* earlier one left behind.
FreshJob == \A s \in Sides : connected[s] => fresh[s]

\* While a side counts as connected, its session is in the read loop, where
\* the end of the connection can still be noticed: so it is where no job is
\* handled during the login.
ConnectedIsServed ==
  ~JobsAtLogin => \A s \in Sides : connected[s] => pc[s] \in {"loop", "pong"}

\* There, whenever a session has returned, another one is tried ("Will try to
\* reconnect in 10 seconds...").
EndedIsRetried ==
  \A s \in Sides : pc[s] = "ended" /\ ~JobsAtLogin ~> pc[s] = "connect"

\* A session in its read loop whose connection is broken is replaced.
BrokenLinkIsReplaced ==
  \A s \in Sides : (pc[s] = "loop" /\ link[s] = "broken") ~> pc[s] = "connect"

\* So it is where any read error ends the session.
ReadErrorIsNoticed ==
  \A s \in Sides :
    (pc[s] = "loop" /\ link[s] = "broken" /\ protocol \in {"spectre", "dero", "getwork"})
      ~> pc[s] = "connect"

\* Where wsMutex is taken, the sessions of both sides never handle a job or wait
\* for a pong at once; and it is only held at such work, or by a session whose
\* pong failed, which waits for its submit thread.
PacketsExclude ==
  LocksPackets =>
    \A s \in Sides :
      /\ flagging[s] \/ pc[s] = "pong" => wsMutex = s
      /\ wsMutex = s => flagging[s] \/ pc[s] \in {"pong", "join"}

\* No session keeps wsMutex, under which the other side's jobs are handled.
PacketLockIsReleased == \A s \in Sides : wsMutex = s ~> wsMutex # s

=============================================================================
