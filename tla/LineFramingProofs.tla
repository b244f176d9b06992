------------------------- MODULE LineFramingProofs -------------------------
(***************************************************************************)
(* Proofs about LineFraming, for any number of messages.                   *)
(***************************************************************************)
EXTENDS LineFraming, SequenceTheorems, TLAPS

(* The line. *)

LineLen == (IF LineEnd = NextNewline THEN LineEnd - 1 ELSE LineEnd) - at

\* Where the next line ends, and how long it is.
LEMMA LineBounds ==
  ASSUME TypeOK, at < end
  PROVE  /\ end \in Nat /\ at \in Nat
         /\ LineEnd \in (at + 1)..end
         /\ LineLen \in Nat /\ LineLen <= 2
         /\ at + LineLen <= LineEnd
         /\ LineLen = 2 => at % 3 = 0
<1>1. end \in Nat /\ at \in Nat /\ at < end
  BY DEF TypeOK, Pieces
<1>2. /\ at \div 3 \in Int /\ at % 3 = at - 3 * (at \div 3)
      /\ 3 * (at \div 3) <= at /\ at < 3 * (at \div 3) + 3
  BY <1>1, Z3
<1>3. /\ NextNewline \in Int /\ NextNewline - at = 3 - (at % 3)
      /\ at % 3 \in 0..2
  BY <1>2, <1>1 DEF NextNewline
<1>4. QED BY <1>1, <1>2, <1>3 DEF LineEnd, LineLen

\* The line is the sequence of the pieces behind at.
LEMMA LineIsSeq ==
  ASSUME TypeOK, at < end
  PROVE  /\ Line \in Seq(Pieces)
         /\ Len(Line) = LineLen
         /\ \A k \in 1..LineLen : Line[k] = at + k
<1>1. /\ end \in Nat /\ at \in Nat /\ LineLen \in Nat
      /\ LineEnd <= end /\ at + LineLen <= LineEnd /\ LineEnd \in Int
  BY LineBounds
<1>2. end \in Pieces \cup {0} /\ MaxMessages \in Nat
  BY FramingAssumption DEF TypeOK
<1>3. Line = [k \in 1..LineLen |-> at + k]
  BY DEF Line, LineLen
<1>4. \A k \in 1..LineLen : at + k \in Pieces
  BY <1>1, <1>2 DEF Pieces
<1>5. Line \in [1..LineLen -> Pieces]
  BY <1>3, <1>4
<1>6. Line \in Seq(Pieces)
  BY <1>1, <1>5
<1>7. Len(Line) = LineLen
  BY <1>1, <1>5, <1>6
<1>8. QED BY <1>3, <1>6, <1>7

\* Where a line that is a message begins, and where it ends.
LEMMA LineOfMessage ==
  ASSUME TypeOK, at < end, NEW i \in Messages, Parses(Line, i)
  PROVE  Rest(i) = at + 2 /\ at + 2 <= LineEnd
<1>1. Len(Line) = 2 /\ Line[1] = Front(i)
  BY DEF Parses
<1>2. LineLen = 2 /\ Line[1] = at + 1
  BY <1>1, LineIsSeq
<1>3. at + 1 = Front(i)
  BY <1>1, <1>2
<1>4. at \in Nat /\ at + 2 <= LineEnd
  BY <1>2, LineBounds
<1>5. QED BY <1>3, <1>4 DEF Front, Rest, Messages

-----------------------------------------------------------------------------
(* Types. *)

LEMMA TypeInit == Init => TypeOK
<1> SUFFICES ASSUME Init PROVE TypeOK
  OBVIOUS
<1>1. at \in 0..end /\ end \in Pieces \cup {0}
  BY DEF Init
<1>2. handled \in Seq(Messages)
  BY DEF Init
<1>3. QED BY <1>1, <1>2 DEF Init, TypeOK

\* What the loop may read is a sequence of pieces.
LEMMA TextIsSeq ==
  ASSUME TypeOK, at < end, NEW text \in Packets
  PROVE  text \in Seq(Pieces \cup {Garbage})
<1>1. Line \in Seq(Pieces \cup {Garbage})
  BY LineIsSeq
<1>2. <<Garbage>> \in Seq(Pieces \cup {Garbage})
  OBVIOUS
<1>3. QED BY <1>1, <1>2 DEF Packets

LEMMA TypeStep == TypeOK /\ [Next]_vars => TypeOK'
<1> SUFFICES ASSUME TypeOK, [Next]_vars PROVE TypeOK'
  OBVIOUS
<1>0. /\ protocol \in Protocols /\ throws \subseteq Messages
      /\ end \in Pieces \cup {0} /\ at \in 0..end
      /\ chopQueue = NoChop \/ chopQueue \in Seq(Pieces \cup {Garbage})
      /\ cleared \in BOOLEAN /\ handled \in Seq(Messages)
      /\ cuts \subseteq Pieces /\ spoiled \in BOOLEAN
  BY DEF TypeOK
<1>1. CASE Read
  <2>1. PICK e \in Pieces :
          /\ \E i \in Messages : end < Newline(i) /\ Newline(i) <= e
          /\ end' = e /\ cuts' = cuts \cup {e}
    BY <1>1 DEF Read
  <2>2. at' \in 0..end'
    BY <1>0, <1>1, <2>1 DEF Read, Newline, Messages, Pieces
  <2>3. QED BY <1>0, <1>1, <2>1, <2>2 DEF Read, TypeOK
<1>2. ASSUME at < end, NextLine
      PROVE  at' \in 0..end
  BY <1>0, <1>2, LineBounds DEF NextLine
<1>3. ASSUME NEW text, Handle(text)
      PROVE  handled' \in Seq(Messages)
  BY <1>0, <1>3 DEF Handle
<1>4. ASSUME NEW text, Spoils(text)
      PROVE  spoiled' \in BOOLEAN
  BY <1>4 DEF Spoils
<1>5. CASE HandlePacket
  BY <1>0, <1>2, <1>3, <1>4, <1>5 DEF HandlePacket, TypeOK
<1>6. CASE DropPacket
  BY <1>0, <1>2, <1>4, <1>6 DEF DropPacket, TypeOK
<1>7. CASE StartChop
  BY <1>0, <1>2, <1>4, <1>7, TextIsSeq DEF StartChop, TypeOK
<1>8. CASE JoinChop
  <2>1. PICK text \in Packets :
          /\ cleared' = TRUE
          /\ \/ Handle(Joined(text)) /\ chopQueue' = NoChop /\ Spoils(text)
             \/ /\ chopQueue' = Joined(text) /\ UNCHANGED handled
                /\ spoiled' = (spoiled \/ cleared \/ \E i \in throws :
                                 Parses(text, i) \/ Parses(Joined(text), i))
    BY <1>8 DEF JoinChop
  <2>2. at < end /\ NextLine /\ chopQueue # NoChop
        /\ UNCHANGED <<protocol, throws, end, cuts>>
    BY <1>8 DEF JoinChop
  <2>3. Joined(text) \in Seq(Pieces \cup {Garbage})
    BY <1>0, <2>2, TextIsSeq DEF Joined
  <2>4. handled' \in Seq(Messages) /\ spoiled' \in BOOLEAN
    BY <1>0, <1>3, <1>4, <2>1
  <2>5. chopQueue' = NoChop \/ chopQueue' \in Seq(Pieces \cup {Garbage})
    BY <2>1, <2>3
  <2>6. QED BY <1>0, <1>2, <2>1, <2>2, <2>4, <2>5 DEF TypeOK
<1>9. CASE UNCHANGED vars BY <1>0, <1>9 DEF vars, TypeOK
<1>10. QED BY <1>1, <1>5, <1>6, <1>7, <1>8, <1>9 DEF Next

\* Every variable keeps its type; the loop never parses beyond what was read.
THEOREM TypeCorrect == Spec => []TypeOK
BY TypeInit, TypeStep, PTL DEF Spec

-----------------------------------------------------------------------------
(* The order. *)

\* What was handled lies behind, in order, and chopQueue is no message by itself.
OrderInv ==
  /\ \A j \in 1..Len(handled) : Rest(handled[j]) <= at
  /\ HandledInOrder
  /\ chopQueue # NoChop => Fails(chopQueue)

\* A message that is handled ends with the line, whether in one piece or joined.
LEMMA EndsWithLine ==
  ASSUME TypeOK, at < end, NEW text \in Packets, NEW i \in Messages \ throws,
         \/ Parses(text, i)
         \/ chopQueue # NoChop /\ Fails(chopQueue) /\ Parses(Joined(text), i)
  PROVE  at < Rest(i) /\ Rest(i) <= LineEnd
<1>0. /\ Rest(i) \in Nat \ {0} /\ at \in Nat /\ LineEnd \in Nat
      /\ LineLen \in Nat /\ at + LineLen <= LineEnd
  BY LineBounds DEF Messages, Rest
<1>1. CASE Parses(text, i)
  <2>1. text # <<Garbage>>
    BY <1>1 DEF Parses
  <2>2. QED BY <1>0, <1>1, <2>1, LineOfMessage DEF Packets
<1>2. CASE chopQueue # NoChop /\ Fails(chopQueue) /\ Parses(Joined(text), i)
  <2>1. chopQueue \in Seq(Pieces \cup {Garbage}) /\ text \in Seq(Pieces \cup {Garbage})
    BY <1>2, TextIsSeq DEF TypeOK
  <2>2. chopQueue \o text = <<Front(i), Rest(i)>>
    BY <1>2 DEF Parses, Joined
  <2>3. Len(text) # 0
    <3>1. SUFFICES ASSUME Len(text) = 0 PROVE FALSE
      OBVIOUS
    <3>2. chopQueue \o text = chopQueue
      BY <2>1, <3>1
    <3>3. QED BY <1>2, <2>2, <3>2 DEF Fails, Parses
  <2>4. text[Len(text)] = Rest(i)
    <3>1. Len(chopQueue) + Len(text) = 2 /\ Len(chopQueue) \in Nat /\ Len(text) \in Nat
      <4>1. Len(<<Front(i), Rest(i)>>) = 2
        OBVIOUS
      <4>2. QED BY <2>1, <2>2, <4>1, ConcatProperties, LenProperties
    <3>2. (chopQueue \o text)[Len(chopQueue) + Len(text)] = text[Len(text)]
      BY <2>1, <2>3, <3>1
    <3>3. QED BY <2>2, <3>1, <3>2
  <2>5. text # <<Garbage>>
    BY <1>0, <2>4 DEF Garbage
  <2>6. text = Line
    BY <2>5 DEF Packets
  <2>7. Rest(i) = at + LineLen /\ LineLen # 0
    BY <1>0, <2>3, <2>4, <2>6, LineIsSeq
  <2>8. QED BY <1>0, <2>7
<1>3. QED BY <1>1, <1>2

LEMMA OrderInit == Init => OrderInv
BY DEF Init, OrderInv, HandledInOrder

\* To append a message that lies ahead keeps the order.
LEMMA AppendInOrder ==
  ASSUME TypeOK, OrderInv, NEW i \in Messages, handled' = Append(handled, i),
         at < Rest(i), Rest(i) <= at', at' \in Nat
  PROVE  /\ \A j \in 1..Len(handled') : Rest(handled'[j]) <= at'
         /\ HandledInOrder'
<1>1. /\ handled \in Seq(Messages) /\ at \in Nat
      /\ Len(handled') = Len(handled) + 1 /\ Len(handled) \in Nat
      /\ handled'[Len(handled) + 1] = i
      /\ \A j \in 1..Len(handled) : handled'[j] = handled[j] /\ handled[j] \in Messages
  BY DEF TypeOK, Pieces
<1>2. \A j \in 1..Len(handled) : Rest(handled[j]) <= at /\ handled[j] < i
  BY <1>1 DEF OrderInv, Rest, Messages
<1>3. \A j \in 1..Len(handled') : Rest(handled'[j]) <= at'
  <2>1. TAKE j \in 1..Len(handled')
  <2>2. CASE j = Len(handled) + 1 BY <1>1, <2>2
  <2>3. CASE j \in 1..Len(handled) BY <1>1, <1>2, <2>3 DEF Rest, Messages
  <2>4. QED BY <1>1, <2>2, <2>3
<1>4. HandledInOrder'
  <2>1. SUFFICES ASSUME NEW j \in 1..Len(handled'), NEW k \in 1..Len(handled'), j < k
                 PROVE  handled'[j] < handled'[k]
    BY DEF HandledInOrder
  <2>2. j \in 1..Len(handled)
    BY <1>1, <2>1
  <2>3. CASE k = Len(handled) + 1 BY <1>1, <1>2, <2>2, <2>3
  <2>4. CASE k \in 1..Len(handled)
    BY <1>1, <2>1, <2>2, <2>4 DEF OrderInv, HandledInOrder
  <2>5. QED BY <1>1, <2>3, <2>4
<1>5. QED BY <1>3, <1>4

LEMMA OrderStep == TypeOK /\ OrderInv /\ [Next]_vars => OrderInv'
<1> SUFFICES ASSUME TypeOK, OrderInv, [Next]_vars PROVE OrderInv'
  OBVIOUS
<1>0. /\ at \in Nat /\ handled \in Seq(Messages)
      /\ \A j \in 1..Len(handled) : handled[j] \in Messages
  BY DEF TypeOK, Pieces
<1>1. ASSUME UNCHANGED <<handled, throws>>, at' \in Nat, at <= at',
             chopQueue' # NoChop => Fails(chopQueue')
      PROVE  OrderInv'
  <2>1. \A j \in 1..Len(handled) : Rest(handled[j]) <= at'
    BY <1>0, <1>1 DEF OrderInv, Rest, Messages
  <2>2. QED BY <1>1, <2>1 DEF OrderInv, HandledInOrder, Fails
<1>2. ASSUME at < end, NextLine
      PROVE  at' = LineEnd /\ at' \in Nat /\ at <= at'
  BY <1>2, LineBounds DEF NextLine
<1>3. CASE Read \/ UNCHANGED vars
  BY <1>0, <1>1, <1>3 DEF Read, vars, OrderInv
<1>4. ASSUME at < end, NextLine, UNCHANGED throws, NEW text \in Packets,
             \/ Handle(text) /\ UNCHANGED chopQueue
             \/ /\ chopQueue # NoChop /\ Handle(Joined(text)) /\ chopQueue' = NoChop
      PROVE  OrderInv'
  <2>1. PICK i \in Messages \ throws :
          /\ handled' = Append(handled, i)
          /\ \/ Parses(text, i)
             \/ chopQueue # NoChop /\ Fails(chopQueue) /\ Parses(Joined(text), i)
    BY <1>4 DEF Handle, OrderInv
  <2>2. at < Rest(i) /\ Rest(i) <= at' /\ at' \in Nat
    BY <1>2, <1>4, <2>1, EndsWithLine
  <2>3. chopQueue' # NoChop => Fails(chopQueue')
    BY <1>4 DEF OrderInv
  <2>4. QED BY <1>4, <2>1, <2>2, <2>3, AppendInOrder DEF OrderInv, Fails
<1>5. CASE HandlePacket BY <1>4, <1>5 DEF HandlePacket
<1>6. CASE DropPacket BY <1>1, <1>2, <1>6 DEF DropPacket, OrderInv
<1>7. CASE StartChop BY <1>1, <1>2, <1>7 DEF StartChop
<1>8. CASE JoinChop BY <1>1, <1>2, <1>4, <1>8 DEF JoinChop
<1>9. QED BY <1>3, <1>5, <1>6, <1>7, <1>8 DEF Next

\* No message is handled twice or out of order, however the reads cut them, whether
\* their handlers throw, and whatever clear() left of the packets.
THEOREM HandledOnce == Spec => []HandledInOrder
<1>1. OrderInv => HandledInOrder
  BY DEF OrderInv
<1>2. QED BY <1>1, TypeInit, TypeStep, OrderInit, OrderStep, PTL DEF Spec

-----------------------------------------------------------------------------
(* What is lost, and what is joined. *)

\* The four forms of a line: a message's first part, a message, its second part,
\* nothing but its newline.
LEMMA LineForms ==
  ASSUME TypeOK, at < end
  PROVE  \E i \in Messages :
    \/ at = Front(i) - 1 /\ LineEnd = Front(i) /\ LineEnd = end /\ Line = <<Front(i)>>
    \/ /\ at = Front(i) - 1 /\ LineEnd \in {Rest(i), Newline(i)}
       /\ Line = <<Front(i), Rest(i)>>
    \/ at = Front(i) /\ LineEnd \in {Rest(i), Newline(i)} /\ Line = <<Rest(i)>>
    \/ at = Rest(i) /\ LineEnd = Newline(i) /\ Line = <<>>
<1>1. /\ end \in Nat /\ at \in Nat /\ MaxMessages \in Nat /\ end <= 3 * MaxMessages
      /\ at < end
  BY FramingAssumption DEF TypeOK, Pieces
<1> DEFINE d == at \div 3
           i == d + 1
<1>2. d \in Int /\ 3 * d <= at /\ at < 3 * d + 3
  BY <1>1, Z3
<1> HIDE DEF d
<1>3. i \in Messages
  BY <1>1, <1>2 DEF Messages
<1>4. /\ Front(i) = 3 * d + 1 /\ Rest(i) = 3 * d + 2 /\ Newline(i) = 3 * d + 3
      /\ NextNewline = 3 * d + 3
  BY <1>2 DEF Front, Rest, Newline, NextNewline, d
<1>5. /\ Line \in Seq(Pieces) /\ Len(Line) = LineLen
      /\ \A k \in 1..LineLen : Line[k] = at + k
  BY LineIsSeq
<1>6. CASE at = 3 * d
  <2>1. CASE end = 3 * d + 1
    <3>1. LineEnd = Front(i) /\ LineEnd = end /\ LineLen = 1
      BY <1>1, <1>2, <1>4, <1>6, <2>1 DEF LineEnd, LineLen
    <3>2. Line = <<Front(i)>>
      BY <1>1, <1>4, <1>5, <1>6, <3>1
    <3>3. QED BY <1>2, <1>3, <1>4, <1>6, <3>1, <3>2
  <2>2. CASE end >= 3 * d + 2
    <3>1. LineEnd \in {Rest(i), Newline(i)} /\ LineLen = 2
      BY <1>1, <1>2, <1>4, <1>6, <2>2 DEF LineEnd, LineLen
    <3>2. Line = <<Front(i), Rest(i)>>
      BY <1>1, <1>4, <1>5, <1>6, <3>1
    <3>3. QED BY <1>2, <1>3, <1>4, <1>6, <3>1, <3>2
  <2>3. QED BY <1>1, <1>2, <1>6, <2>1, <2>2
<1>7. CASE at = 3 * d + 1
  <2>1. LineEnd \in {Rest(i), Newline(i)} /\ LineLen = 1
    <3>1. CASE end = 3 * d + 2
      BY <1>1, <1>2, <1>4, <1>7, <3>1 DEF LineEnd, LineLen
    <3>2. CASE end >= 3 * d + 3
      <4>1. LineEnd = NextNewline
        BY <1>4, <3>2 DEF LineEnd
      <4>2. QED BY <1>2, <1>4, <1>7, <4>1 DEF LineLen
    <3>3. QED BY <1>1, <1>2, <1>7, <3>1, <3>2
  <2>2. Line = <<Rest(i)>>
    <3>1. Len(Line) = 1 /\ Line[1] = at + 1
      BY <1>5, <2>1
    <3>2. at + 1 = Rest(i)
      BY <1>2, <1>4, <1>7
    <3>3. QED BY <1>5, <3>1, <3>2
  <2>3. QED BY <1>3, <1>4, <1>7, <2>1, <2>2
<1>8. CASE at = 3 * d + 2
  <2>1. LineEnd = Newline(i) /\ LineLen = 0
    BY <1>1, <1>2, <1>4, <1>8 DEF LineEnd, LineLen
  <2>2. Line = <<>>
    BY <1>5, <2>1
  <2>3. QED BY <1>3, <1>4, <1>8, <2>1, <2>2
<1>9. QED BY <1>1, <1>2, <1>6, <1>7, <1>8

\* What is handled stays so.
LEMMA HandledGrows ==
  ASSUME TypeOK, NEW j \in Messages, handled' = Append(handled, j),
         NEW i \in Messages
  PROVE  IsHandled(i)' <=> (IsHandled(i) \/ i = j)
<1>1. /\ Len(handled') = Len(handled) + 1 /\ Len(handled) \in Nat
      /\ handled'[Len(handled) + 1] = j
      /\ \A k \in 1..Len(handled) : handled'[k] = handled[k]
  BY DEF TypeOK
<1>2. QED BY <1>1 DEF IsHandled

\* A read ends where the session stands within a message; and the theorem's claim.
LostInv ==
  /\ end = 0 \/ end \in cuts
  /\ \A i \in Messages : at = Front(i) => Front(i) \in cuts
  /\ OnlyCutMessagesAreLost

LEMMA LostInit == Init => LostInv
BY DEF Init, LostInv, OnlyCutMessagesAreLost, Messages, Front, Rest

LEMMA LostStep == TypeOK /\ LostInv /\ [Next]_vars => LostInv'
<1> SUFFICES ASSUME TypeOK, LostInv, [Next]_vars PROVE LostInv'
  OBVIOUS
<1> USE DEF LostInv
<1>1. CASE Read
  <2>1. end' \in cuts' /\ cuts \subseteq cuts' /\ UNCHANGED <<protocol, throws, at, handled>>
    BY <1>1 DEF Read
  <2>2. QED BY <2>1 DEF OnlyCutMessagesAreLost, IsHandled, Joins
<1>2. CASE UNCHANGED vars
  BY <1>2 DEF vars, OnlyCutMessagesAreLost, IsHandled, Joins
<1>3. CASE HandlePacket \/ DropPacket \/ StartChop \/ JoinChop
  <2>1. /\ at < end /\ at' = LineEnd
        /\ UNCHANGED <<protocol, throws, end, cuts>>
    BY <1>3 DEF HandlePacket, DropPacket, StartChop, JoinChop, NextLine
  <2>2. PICK m \in Messages :
      \/ at = Front(m) - 1 /\ LineEnd = Front(m) /\ LineEnd = end /\ Line = <<Front(m)>>
      \/ /\ at = Front(m) - 1 /\ LineEnd \in {Rest(m), Newline(m)}
         /\ Line = <<Front(m), Rest(m)>>
      \/ at = Front(m) /\ LineEnd \in {Rest(m), Newline(m)} /\ Line = <<Rest(m)>>
      \/ at = Rest(m) /\ LineEnd = Newline(m) /\ Line = <<>>
    BY <2>1, LineForms
  <2>3. \A i \in Messages : at' = Front(i) => Front(i) \in cuts'
    BY <2>1, <2>2 DEF Messages, Front, Rest, Newline
  <2>4. OnlyCutMessagesAreLost'
    <3>1. SUFFICES ASSUME ~Joins, NEW i \in Messages \ throws, Rest(i) <= at',
                          Front(i) \notin cuts
                   PROVE  IsHandled(i)'
      BY <2>1 DEF OnlyCutMessagesAreLost, Joins
    <3>2. \A j \in Messages : IsHandled(j) => IsHandled(j)'
      <4>1. CASE UNCHANGED handled BY <4>1 DEF IsHandled
      <4>2. CASE HandlePacket BY <4>2, HandledGrows DEF HandlePacket, Handle
      <4>3. QED BY <1>3, <3>1, <4>1, <4>2 DEF DropPacket, StartChop, JoinChop
    <3>3. CASE Rest(i) <= at BY <3>1, <3>2, <3>3 DEF OnlyCutMessagesAreLost
    <3>4. CASE ~(Rest(i) <= at)
      <4>1. at = Front(m) - 1 /\ i = m /\ Line = <<Front(m), Rest(m)>>
        <5>1. at \in Nat BY DEF TypeOK, Pieces
        <5>2. at # Front(i) BY <3>1
        <5>3. QED
          BY <2>1, <2>2, <3>1, <3>4, <5>1, <5>2 DEF Messages, Front, Rest, Newline
      <4>2. Parses(Line, i) /\ ~Fails(Line)
        BY <3>1, <4>1 DEF Parses, Fails
      <4>3. HandlePacket
        BY <1>3, <3>1, <4>2 DEF DropPacket, StartChop, JoinChop
      <4>4. PICK text \in Packets, j \in Messages :
              Parses(text, j) /\ handled' = Append(handled, j)
        BY <4>3 DEF HandlePacket, Handle
      <4>5. text # <<Garbage>>
        BY <4>4 DEF Parses
      <4>6. j = i
        <5>1. <<Front(i), Rest(i)>> = <<Front(j), Rest(j)>>
          BY <4>1, <4>4, <4>5 DEF Packets, Parses
        <5>2. Front(i) = Front(j)
          BY <5>1
        <5>3. QED BY <5>2 DEF Front, Messages
      <4>7. QED BY <4>4, <4>6, HandledGrows
    <3>5. QED BY <3>3, <3>4
  <2>5. QED BY <2>1, <2>3, <2>4
<1>4. QED BY <1>1, <1>2, <1>3 DEF Next

\* Xelis and RX0 lose the messages that a read cut, and no other.
THEOREM OnlyCutsLose == Spec => []OnlyCutMessagesAreLost
<1>1. LostInv => OnlyCutMessagesAreLost
  BY DEF LostInv
<1>2. QED BY <1>1, TypeInit, TypeStep, LostInit, LostStep, PTL DEF Spec

\* Spectre, while nothing was spoiled: all that lies behind was handled, and chopQueue
\* holds the first part of the message the session stands in, or nothing.
JoinInv ==
  Joins /\ ~spoiled =>
    /\ \A i \in Messages : Rest(i) <= at => IsHandled(i)
    /\ \A i \in Messages : at = Front(i) => chopQueue = <<Front(i)>>
    /\ (\A i \in Messages : at # Front(i)) => chopQueue \in {NoChop, <<>>}

LEMMA JoinInit == Init => JoinInv
BY DEF Init, JoinInv, Messages, Front, Rest

LEMMA JoinStep == TypeOK /\ JoinInv /\ [Next]_vars => JoinInv'
<1> SUFFICES ASSUME TypeOK, JoinInv, [Next]_vars, Joins, ~spoiled'
             PROVE  /\ \A i \in Messages : Rest(i) <= at' => IsHandled(i)'
                    /\ \A i \in Messages : at' = Front(i) => chopQueue' = <<Front(i)>>
                    /\ (\A i \in Messages : at' # Front(i)) => chopQueue' \in {NoChop, <<>>}
  BY DEF JoinInv, Joins, Next, Read, HandlePacket, DropPacket, StartChop, JoinChop, vars
<1>1. CASE Read \/ UNCHANGED vars
  BY <1>1 DEF Read, vars, JoinInv, IsHandled
<1>2. CASE HandlePacket \/ DropPacket \/ StartChop \/ JoinChop
  <2>1. /\ at < end /\ at' = LineEnd
        /\ UNCHANGED throws
    BY <1>2 DEF HandlePacket, DropPacket, StartChop, JoinChop, NextLine
  <2>2. ~spoiled /\ ~cleared
    BY <1>2 DEF HandlePacket, DropPacket, StartChop, JoinChop, Spoils, Joins
  <2>3. Packets = {Line}
    BY <2>2 DEF Packets
  <2>4. /\ \A i \in Messages : Rest(i) <= at => IsHandled(i)
        /\ \A i \in Messages : at = Front(i) => chopQueue = <<Front(i)>>
        /\ (\A i \in Messages : at # Front(i)) => chopQueue \in {NoChop, <<>>}
    BY <2>2 DEF JoinInv
  <2>5. /\ \A i \in throws : ~Parses(Line, i)
        /\ JoinChop => \/ Handle(Joined(Line)) /\ chopQueue' = NoChop
                       \/ /\ Fails(Joined(Line)) /\ chopQueue' = Joined(Line)
                          /\ UNCHANGED handled
                          /\ \A i \in throws : ~Parses(Joined(Line), i)
    BY <1>2, <2>2, <2>3 DEF HandlePacket, DropPacket, StartChop, JoinChop, Spoils, Joins
  <2>6. HandlePacket => Handle(Line) /\ UNCHANGED chopQueue
    BY <2>3 DEF HandlePacket
  <2>7. /\ ~DropPacket
        /\ StartChop => /\ chopQueue = NoChop /\ chopQueue' = Line /\ Fails(Line)
                        /\ UNCHANGED handled
        /\ JoinChop => chopQueue # NoChop /\ Fails(Line)
    BY <2>3 DEF DropPacket, StartChop, JoinChop
  <2>8. \A i \in Messages : IsHandled(i) => IsHandled(i)'
    <3>1. CASE UNCHANGED handled BY <3>1 DEF IsHandled
    <3>2. CASE \E j \in Messages : handled' = Append(handled, j)
      BY <3>2, HandledGrows
    <3>3. QED BY <1>2, <2>5, <2>6, <2>7, <3>1, <3>2 DEF Handle
  <2>9. /\ throws \subseteq Messages /\ at \in Nat
        /\ \A i, j \in Messages : Front(i) = Front(j) => i = j
        /\ \A i, j \in Messages : Front(i) # Rest(j) /\ Front(i) # Newline(j)
        /\ \A i, j \in Messages : Front(i) # Front(j) - 1
        /\ \A i \in Messages : Front(i) \in Nat /\ Rest(i) \in Nat
    BY DEF TypeOK, Pieces, Messages, Front, Rest, Newline
  <2>10. PICK m \in Messages :
      \/ at = Front(m) - 1 /\ LineEnd = Front(m) /\ LineEnd = end /\ Line = <<Front(m)>>
      \/ /\ at = Front(m) - 1 /\ LineEnd \in {Rest(m), Newline(m)}
         /\ Line = <<Front(m), Rest(m)>>
      \/ at = Front(m) /\ LineEnd \in {Rest(m), Newline(m)} /\ Line = <<Rest(m)>>
      \/ at = Rest(m) /\ LineEnd = Newline(m) /\ Line = <<>>
    BY <2>1, LineForms
  <2>11. CASE at = Front(m) - 1 /\ LineEnd = Front(m) /\ Line = <<Front(m)>>
    <3>1. \A i \in Messages : ~Parses(Line, i) /\ ~Parses(<<>> \o Line, i)
      BY <2>11 DEF Parses
    <3>2. chopQueue \in {NoChop, <<>>}
      BY <2>4, <2>9, <2>11
    <3>3. chopQueue' = Line
      <4>1. <<>> \o Line = Line
        BY <2>11
      <4>2. QED BY <1>2, <2>5, <2>6, <2>7, <3>1, <3>2, <4>1 DEF Handle, Joined
    <3>4. \A i \in Messages : Rest(i) <= at' => Rest(i) <= at
      BY <2>1, <2>11 DEF Messages, Front, Rest
    <3>5. \A i \in Messages : at' = Front(i) => chopQueue' = <<Front(i)>>
      BY <2>1, <2>11, <3>3
    <3>6. QED BY <2>1, <2>4, <2>8, <2>11, <3>4, <3>5
  <2>12. CASE /\ at = Front(m) - 1 /\ LineEnd \in {Rest(m), Newline(m)}
              /\ Line = <<Front(m), Rest(m)>>
    <3>1. Parses(Line, m) /\ m \notin throws /\ ~Fails(Line)
      BY <2>5, <2>12 DEF Parses, Fails
    <3>2. HandlePacket /\ chopQueue' \in {NoChop, <<>>}
      BY <1>2, <2>4, <2>6, <2>7, <2>9, <2>12, <3>1
    <3>3. PICK j \in Messages : Parses(Line, j) /\ handled' = Append(handled, j)
      BY <2>6, <3>2 DEF Handle
    <3>4. j = m
      <4>1. <<Front(m), Rest(m)>> = <<Front(j), Rest(j)>>
        BY <2>12, <3>3 DEF Parses
      <4>2. QED BY <2>9, <4>1
    <3>5. IsHandled(m)'
      BY <3>3, <3>4, HandledGrows
    <3>6. \A i \in Messages : Rest(i) <= at' => Rest(i) <= at \/ i = m
      BY <2>1, <2>12 DEF Messages, Front, Rest, Newline
    <3>7. QED BY <2>1, <2>4, <2>8, <2>9, <2>12, <3>2, <3>5, <3>6
  <2>13. CASE at = Front(m) /\ LineEnd \in {Rest(m), Newline(m)} /\ Line = <<Rest(m)>>
    <3>1. chopQueue = <<Front(m)>> /\ chopQueue # NoChop
      BY <2>4, <2>9, <2>13 DEF NoChop
    <3>2. Joined(Line) = <<Front(m), Rest(m)>>
      <4>1. Joined(Line) = <<Front(m)>> \o <<Rest(m)>>
        BY <2>13, <3>1 DEF Joined
      <4>2. <<Front(m)>> \in Seq(Nat) /\ Rest(m) \in Nat
        BY <2>9
      <4>3. <<Rest(m)>> \in Seq(Nat) /\ <<Front(m), Rest(m)>> \in Seq(Nat)
        BY <2>9
      <4>4. Len(<<Front(m)>>) = 1 /\ Len(<<Rest(m)>>) = 1
        OBVIOUS
      <4>5. /\ <<Front(m)>> \o <<Rest(m)>> \in Seq(Nat)
            /\ Len(<<Front(m)>> \o <<Rest(m)>>) = 2
            /\ (<<Front(m)>> \o <<Rest(m)>>)[1] = Front(m)
            /\ (<<Front(m)>> \o <<Rest(m)>>)[2] = Rest(m)
        BY <4>2, <4>3, <4>4, ConcatProperties
      <4>6. <<Front(m)>> \o <<Rest(m)>> = <<Front(m), Rest(m)>>
        <5> DEFINE s == <<Front(m)>> \o <<Rest(m)>>
                   t == <<Front(m), Rest(m)>>
        <5>1. s \in Seq(Nat) /\ t \in Seq(Nat) /\ Len(s) = Len(t)
          BY <4>3, <4>5
        <5>2. s[1] = t[1] /\ s[2] = t[2] /\ 1..Len(s) = {1, 2}
          BY <4>5
        <5>3. \A k \in 1..Len(s) : s[k] = t[k]
          BY <5>2
        <5> HIDE DEF s, t
        <5>4. s = t
          BY <5>1, <5>3, SeqEqual
        <5>5. QED BY <5>4 DEF s, t
      <4>7. QED BY <4>1, <4>6
    <3>3. \A i \in Messages : ~Parses(Line, i)
      BY <2>13 DEF Parses
    <3>4. JoinChop
      BY <1>2, <2>6, <2>7, <3>1, <3>3 DEF Handle
    <3>5. Parses(Joined(Line), m)
      BY <3>2 DEF Parses
    <3>6. Handle(Joined(Line)) /\ chopQueue' = NoChop
      BY <2>5, <3>4, <3>5 DEF Fails
    <3>7. PICK j \in Messages : Parses(Joined(Line), j) /\ handled' = Append(handled, j)
      BY <3>6 DEF Handle
    <3>8. j = m
      <4>1. <<Front(m), Rest(m)>> = <<Front(j), Rest(j)>>
        BY <3>2, <3>7 DEF Parses
      <4>2. QED BY <2>9, <4>1
    <3>9. IsHandled(m)'
      BY <3>7, <3>8, HandledGrows
    <3>10. \A i \in Messages : Rest(i) <= at' => Rest(i) <= at \/ i = m
      BY <2>1, <2>13 DEF Messages, Front, Rest, Newline
    <3>11. QED BY <2>1, <2>4, <2>8, <2>9, <2>13, <3>6, <3>9, <3>10
  <2>14. CASE at = Rest(m) /\ LineEnd = Newline(m) /\ Line = <<>>
    <3>1. \A i \in Messages : ~Parses(Line, i) /\ ~Parses(<<>> \o Line, i)
      BY <2>14 DEF Parses
    <3>2. chopQueue \in {NoChop, <<>>}
      BY <2>4, <2>9, <2>14
    <3>3. chopQueue' = <<>>
      BY <1>2, <2>5, <2>6, <2>7, <2>14, <3>1, <3>2 DEF Handle, Joined
    <3>4. \A i \in Messages : Rest(i) <= at' => Rest(i) <= at
      BY <2>1, <2>14 DEF Messages, Rest, Newline
    <3>5. QED BY <2>1, <2>4, <2>8, <2>9, <2>14, <3>3, <3>4
  <2>15. QED BY <2>10, <2>11, <2>12, <2>13, <2>14
<1>3. QED BY <1>1, <1>2 DEF Next

\* Spectre's chopQueue puts every cut message together, unless a handler threw or a
\* packet was used that clear() had destroyed.
THEOREM CutsAreJoined == Spec => []CutMessagesAreJoined
<1>1. JoinInv => CutMessagesAreJoined
  BY DEF JoinInv, CutMessagesAreJoined
<1>2. QED BY <1>1, TypeInit, TypeStep, JoinInit, JoinStep, PTL DEF Spec

-----------------------------------------------------------------------------
(* The refinement: a line that ends a message delivers it or loses it, and  *)
(* no other step of the session concerns the channel.                       *)

\* The pieces of a message, in thirds.
LEMMA Thirds ==
  ASSUME NEW i \in Int
  PROVE  /\ (3 * i - 2) \div 3 = i - 1 /\ (3 * i - 1) \div 3 = i - 1
         /\ (3 * i) \div 3 = i /\ (3 * i + 1) \div 3 = i
OBVIOUS

\* Of what is handled at a step, the text ends with the line just cut off.
LEMMA HandledAtLine ==
  ASSUME TypeOK, OrderInv, [Next]_vars, handled' # handled
  PROVE  /\ at < end /\ NextLine
         /\ \E i \in Messages : /\ handled' = Append(handled, i)
                                /\ at < Rest(i) /\ Rest(i) <= LineEnd
<1>1. CASE HandlePacket
  <2>1. PICK text \in Packets : Handle(text)
    BY <1>1 DEF HandlePacket
  <2>2. PICK i \in Messages \ throws : Parses(text, i) /\ handled' = Append(handled, i)
    BY <2>1 DEF Handle
  <2>3. QED BY <1>1, <2>2, EndsWithLine DEF HandlePacket
<1>2. CASE JoinChop
  <2>1. PICK text \in Packets : Handle(Joined(text))
    BY <1>2 DEF JoinChop
  <2>2. PICK i \in Messages \ throws : Parses(Joined(text), i) /\ handled' = Append(handled, i)
    BY <2>1 DEF Handle
  <2>3. QED BY <1>2, <2>2, EndsWithLine DEF JoinChop, OrderInv
<1>3. QED BY <1>1, <1>2 DEF Next, Read, DropPacket, StartChop, vars

\* A step maps to a step of the channel: what passed unhandled has an excuse.
LEMMA ChannelStep ==
  ASSUME TypeOK, TypeOK', OrderInv, LostInv', JoinInv', [Next]_vars
  PROVE  [Channel!Next]_<<Passed, handled>>
<1>1. CASE UNCHANGED at
  <2>1. UNCHANGED handled
    <3>1. SUFFICES ASSUME handled' # handled PROVE FALSE
      OBVIOUS
    <3>2. QED BY <1>1, <3>1, HandledAtLine, LineBounds DEF NextLine
  <2>2. QED BY <1>1, <2>1 DEF Passed
<1>2. CASE at' # at
  <2>1. at < end /\ at' = LineEnd
    BY <1>2 DEF Next, Read, HandlePacket, DropPacket, StartChop, JoinChop, NextLine, vars
  <2>2. PICK m \in Messages :
          \/ at = Front(m) - 1 /\ LineEnd = Front(m)
          \/ at \in {Front(m) - 1, Front(m)} /\ LineEnd \in {Rest(m), Newline(m)}
          \/ at = Rest(m) /\ LineEnd = Newline(m)
    BY <2>1, LineForms
  <2>3. m \in Nat /\ \A i \in Messages : i \in Int
    BY DEF Messages
  <2>4. CASE \/ at = Front(m) - 1 /\ LineEnd = Front(m)
             \/ at = Rest(m) /\ LineEnd = Newline(m)
    <3>1. Passed' = Passed
      BY <2>1, <2>3, <2>4, Thirds DEF Passed, Front, Rest, Newline
    <3>2. \A i \in Messages : ~(at < Rest(i) /\ Rest(i) <= LineEnd)
      BY <2>3, <2>4 DEF Front, Rest, Newline
    <3>3. UNCHANGED handled
      BY <3>2, HandledAtLine
    <3>4. QED BY <3>1, <3>3
  <2>5. CASE at \in {Front(m) - 1, Front(m)} /\ LineEnd \in {Rest(m), Newline(m)}
    <3>1. Passed = m - 1 /\ Passed' = m
      BY <2>1, <2>3, <2>5, Thirds DEF Passed, Front, Rest, Newline
    <3>2. \A i \in Messages : at < Rest(i) /\ Rest(i) <= LineEnd => i = m
      BY <2>3, <2>5 DEF Front, Rest, Newline
    <3>3. CASE handled' # handled
      <4>1. handled' = Append(handled, m)
        BY <3>2, <3>3, HandledAtLine
      <4>2. QED BY <2>3, <3>1, <4>1 DEF Channel!Next, Channel!Deliver
    <3>4. CASE UNCHANGED handled
      <4>1. at < Rest(m) /\ Rest(m) <= at'
        BY <2>1, <2>3, <2>5 DEF Front, Rest, Newline
      <4>2. at \in Int /\ Rest(m) \in Int
        BY <2>3 DEF TypeOK, Pieces, Rest
      <4>3. ~IsHandled(m)'
        BY <3>4, <4>1, <4>2 DEF IsHandled, OrderInv
      <4>4. Excused(m)'
        BY <4>1, <4>3 DEF LostInv, OnlyCutMessagesAreLost, JoinInv, Excused
      <4>5. m \in {i \in Messages : Excused(i)}'
        BY <4>4
      <4>6. Passed + 1 = m /\ Passed' = Passed + 1
        BY <2>3, <3>1
      <4>7. QED BY <3>4, <4>5, <4>6 DEF Channel!Next, Channel!Lose
    <3>5. QED BY <3>3, <3>4
  <2>6. QED BY <2>2, <2>4, <2>5
<1>3. QED BY <1>1, <1>2

\* However the reads cut the messages, the framing implements the channel: the
\* messages pass in order, and each is handled as it passes, or lost for an excuse.
THEOREM FramingIsChannel == Spec => ImplementsChannel
<1>1. Init => Channel!Init
  <2> SUFFICES ASSUME Init PROVE Channel!Init
    OBVIOUS
  <2>1. (0 + 1) \div 3 = 0
    OBVIOUS
  <2>2. QED BY <2>1 DEF Init, Passed, Channel!Init
<1>2. TypeOK /\ TypeOK' /\ OrderInv /\ LostInv' /\ JoinInv' /\ [Next]_vars
      => [Channel!Next]_<<Passed, handled>>
  BY ChannelStep
<1>3. QED
  BY <1>1, <1>2, TypeInit, TypeStep, OrderInit, OrderStep, LostInit, LostStep, JoinInit,
     JoinStep, PTL DEF Spec, ImplementsChannel, Channel!Spec

=============================================================================
