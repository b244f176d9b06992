---------------------------- MODULE LineFraming ----------------------------
(***************************************************************************)
(* How a stratum session cuts what it reads into messages.                 *)
(*                                                                         *)
(* A read ends some way behind a newline.  All it brought is split at the  *)
(* newlines and parsed piece by piece; its buffer is gone before the next  *)
(* read.  A message whose end comes with the next read is lost to Xelis'   *)
(* and RX0's sessions.  Spectre's (and Astrix' likewise) keeps what it     *)
(* cannot parse in chopQueue and tries again with the next such piece.     *)
(*                                                                         *)
(* Message i is the pieces 3i-2 and 3i-1, either side of a cut within it,  *)
(* and 3i, its newline: a cut is a piece's number.                         *)
(***************************************************************************)
EXTENDS Integers, Sequences

CONSTANTS
  Protocols,     \* a subset of AllProtocols
  MaxMessages    \* bound: messages the pool sends in a session

AllProtocols == {"xelis", "rx0", "spectre"}

ASSUME FramingAssumption ==
  /\ Protocols \subseteq AllProtocols
  /\ MaxMessages \in Nat

Messages == 1..MaxMessages
Pieces   == 1..3 * MaxMessages
Garbage  == 0                \* what is left of a string that was destroyed
NoChop   == <<-1>>           \* "NULL"

Front(i)   == 3 * i - 2
Rest(i)    == 3 * i - 1
Newline(i) == 3 * i

VARIABLES
  protocol,
  throws,     \* the messages whose handler throws
  end,        \* the last piece the session has read
  at,         \* the last piece it has parsed
  chopQueue,  \* a sequence of pieces, or NoChop
  cleared,    \* packets.clear() was called while this read's packets are gone through
  handled,    \* the messages handled, in order
  cuts,       \* the pieces at which a read ended
  spoiled     \* a handler has thrown, or a packet was used after clear()

vars == <<protocol, throws, end, at, chopQueue, cleared, handled, cuts, spoiled>>

TypeOK ==
  /\ protocol \in Protocols
  /\ throws \subseteq Messages
  /\ end \in Pieces \cup {0}
  /\ at \in 0..end
  /\ chopQueue = NoChop \/ chopQueue \in Seq(Pieces \cup {Garbage})
  /\ cleared \in BOOLEAN
  /\ handled \in Seq(Messages)
  /\ cuts \subseteq Pieces
  /\ spoiled \in BOOLEAN

Init ==
  /\ protocol \in Protocols
  /\ throws \in SUBSET Messages
  /\ end = 0 /\ at = 0
  /\ chopQueue = NoChop
  /\ cleared = FALSE
  /\ handled = <<>>
  /\ cuts = {}
  /\ spoiled = FALSE

Joins == protocol = "spectre"    \* has a chopQueue

-----------------------------------------------------------------------------
\* Mutant: the buffer outlives the read and is not consumed.
ReadAgain ==
  /\ at = end
  /\ \E e \in Pieces :
       /\ \E i \in Messages : end < Newline(i) /\ Newline(i) <= e
       /\ end' = e
       /\ cuts' = cuts \cup {e}
  /\ at' = 0
  /\ cleared' = FALSE
  /\ UNCHANGED <<protocol, throws, chopQueue, handled, spoiled>>

\* async_read_until(response, "\n"): at least up to the next newline.
Read ==
  /\ at = end
  /\ \E e \in Pieces :
       /\ \E i \in Messages : end < Newline(i) /\ Newline(i) <= e
       /\ end' = e
       /\ cuts' = cuts \cup {e}
  /\ cleared' = FALSE
  /\ UNCHANGED <<protocol, throws, at, chopQueue, handled, spoiled>>

\* getline: the next line goes up to its newline or to the end of what was read ...
NextNewline == 3 * (at \div 3) + 3
LineEnd     == IF NextNewline <= end THEN NextNewline ELSE end

\* ... and does not hold it.
Line == [k \in 1..((IF LineEnd = NextNewline THEN LineEnd - 1 ELSE LineEnd) - at) |-> at + k]

\* Mutant: one piece too far.
AfterLine == at' = LineEnd + 1

\* The loop goes on to the next packet.
NextLine == at' = LineEnd

\* boost::json::parse
Parses(text, i) == text = <<Front(i), Rest(i)>>

\* The texts that the loop may read: packets.clear() leaves strings behind that
\* may be overwritten.
Packets == {Line} \cup (IF cleared THEN {<<Garbage>>} ELSE {})

\* The message is handled to the end.
Handle(text) ==
  \E i \in Messages \ throws : /\ Parses(text, i)
                               /\ handled' = Append(handled, i)

\* The text cannot be parsed, or its handler throws.
Fails(text) == \A i \in Messages \ throws : ~Parses(text, i)

\* A handler's exception, or the use of what clear() left, may spoil chopQueue.
Spoils(text) == spoiled' = (spoiled \/ cleared \/ \E i \in throws : Parses(text, i))

HandlePacket ==
  /\ at < end
  /\ NextLine
  /\ \E text \in Packets : Handle(text) /\ Spoils(text)
  /\ UNCHANGED <<protocol, throws, end, chopQueue, cleared, cuts>>

\* Mutant: the exception ends the loop over the packets.
DropPackets ==
  /\ ~Joins
  /\ at < end
  /\ at' = end
  /\ Fails(Line) /\ Spoils(Line)
  /\ UNCHANGED <<protocol, throws, end, chopQueue, cleared, handled, cuts>>

\* Xelis, RX0: the exception is logged.
DropPacket ==
  /\ ~Joins
  /\ at < end
  /\ NextLine
  /\ Fails(Line) /\ Spoils(Line)
  /\ UNCHANGED <<protocol, throws, end, chopQueue, cleared, handled, cuts>>

\* Spectre: it may be the beginning of a message.
StartChop ==
  /\ Joins /\ chopQueue = NoChop
  /\ at < end
  /\ NextLine
  /\ \E text \in Packets : /\ Fails(text) /\ Spoils(text)
                           /\ chopQueue' = text
  /\ UNCHANGED <<protocol, throws, end, cleared, handled, cuts>>

\* Mutant: the piece takes the place of those kept.
Replaced(text) == text

\* chopQueue += packet
Joined(text) == chopQueue \o text

\* Or the rest of one.  The packets are cleared first, though the loop is not
\* through with them.
JoinChop ==
  /\ Joins /\ chopQueue # NoChop
  /\ at < end
  /\ NextLine
  /\ \E text \in Packets :
       /\ Fails(text)
       /\ cleared' = TRUE
       /\ \/ /\ Handle(Joined(text))
             /\ chopQueue' = NoChop
             /\ Spoils(text)
          \/ /\ Fails(Joined(text))
             /\ chopQueue' = Joined(text)
             /\ UNCHANGED handled
             /\ spoiled' = (spoiled \/ cleared \/ \E i \in throws :
                              Parses(text, i) \/ Parses(Joined(text), i))
  /\ UNCHANGED <<protocol, throws, end, cuts>>

Next == Read \/ HandlePacket \/ DropPacket \/ StartChop \/ JoinChop

Spec == Init /\ [][Next]_vars

-----------------------------------------------------------------------------
(* Properties. *)

\* No message is handled twice or before an earlier one, though the reads overlap
\* the messages and chopQueue keeps parts of them.
HandledInOrder ==
  \A j, k \in 1..Len(handled) : j < k => handled[j] < handled[k]

IsHandled(i) == \E k \in 1..Len(handled) : handled[k] = i

\* Xelis, RX0: a message is lost only if a read ended within it; what surrounds the
\* parts of one that was cut is handled.
OnlyCutMessagesAreLost ==
  ~Joins => \A i \in Messages \ throws :
              Rest(i) <= at /\ Front(i) \notin cuts => IsHandled(i)

\* Spectre: however the reads cut the messages, chopQueue puts them together, unless
\* a handler threw or a packet was used that clear() had destroyed.
CutMessagesAreJoined ==
  Joins /\ ~spoiled => \A i \in Messages : Rest(i) <= at => IsHandled(i)

\* The messages whose text lies behind, whole.
Passed == (at + 1) \div 3

\* Whether message i may be lost: Spectre's once something was spoiled, the
\* others' if its handler throws or a read ended within it.
Excused(i) == IF Joins THEN spoiled ELSE i \in throws \/ Front(i) \in cuts

\* Reads, getline, the parser and chopQueue together are a channel: as soon as a
\* message has passed it is either handled, once, or lost for one of the excuses.
Channel == INSTANCE MessageChannel
  WITH passed <- Passed, delivered <- handled, excused <- {i \in Messages : Excused(i)}
ImplementsChannel == Channel!Spec

=============================================================================
