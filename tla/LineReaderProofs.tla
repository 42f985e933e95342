--------------------------- MODULE LineReaderProofs ---------------------------
(***************************************************************************)
(* The reader takes the lines of the Host's text, for every cap, chunk,    *)
(* pipe and amount of text: it implements ControlLines, and whatever       *)
(* follows from that is proved of ControlLines' actions alone.             *)
(***************************************************************************)
EXTENDS LineReader, SequenceTheorems, TLAPS

\* What is collected is what was used of the text since the line began.
Held ==
  /\ Len(collected) <= used
  /\ \A i \in 1 .. Len(collected) : collected[i] = sent[LineStart + i - 1]

IInv == TypeOK /\ Held

LEMMA TakeKeepsTypes ==
  ASSUME RulesTypeOK, NEW line \in LineKind, Take(line)
  PROVE  RulesTypeOK'
<1> USE DEF RulesTypeOK
<1>1. CASE TakeRequest(line)
  BY <1>1 DEF TakeRequest
<1>2. CASE TakeControl(line)
  <2>1. /\ reading' \in {"request", "control", "stopped"}
        /\ answer' \in {"pending", "accepted", "refused"}
        /\ cancelSeen' \in BOOLEAN
    BY <1>2 DEF TakeControl, IsAcceptedCancel
  <2>2. violation' \in Option(LineKind)
    BY <1>2 DEF TakeControl, Option
  <2> QED  BY <2>1, <2>2
<1> QED  BY <1>1, <1>2 DEF Take

LEMMA KindType ==
  ASSUME NEW text \in Seq(Byte)
  PROVE  Kind(text) \in LineKind
<1> DEFINE solid == {i \in DOMAIN text : text[i] # "space"}
<1>1. Meaning(text) \in LineKind
  <2>1. CASE solid = {}
    BY <2>1 DEF Meaning, LineKind
  <2>2. CASE solid # {} /\ \E i \in solid : solid = {i} /\ text[i] \in Message
    <3>1. PICK i \in solid : solid = {i} /\ text[i] \in Message  BY <2>2
    <3>2. (CHOOSE j \in solid : TRUE) = i  BY <3>1
    <3>3. Meaning(text) = text[i]  BY <2>2, <3>2 DEF Meaning
    <3> QED  BY <3>1, <3>3 DEF Message, LineKind
  <2>3. CASE solid # {} /\ ~(\E i \in solid : solid = {i} /\ text[i] \in Message)
    BY <2>3 DEF Meaning, LineKind
  <2> QED  BY <2>1, <2>2, <2>3
<1> HIDE DEF solid
<1> QED  BY <1>1 DEF Kind, LineKind

\* The text the reader has, read as the abstract specification reads it.
LEMMA HeldIsBytes ==
  ASSUME TypeOK, Held
  PROVE  /\ LineStart \in 1 .. used + 1
         /\ LineStart + Len(collected) = used + 1
         /\ Lines!Bytes(LineStart, used) = collected
         /\ Lines!NoNewline(LineStart, used)
<1> USE DEF TypeOK, Held
<1>1. /\ Len(collected) \in Nat /\ used \in Nat /\ used <= Len(sent)
      /\ Len(collected) <= used /\ LineStart = used - Len(collected) + 1
      /\ collected \in Seq(Byte) /\ sent \in Seq(Byte)
  BY DEF LineStart
<1>2. LineStart \in 1 .. used + 1 /\ LineStart + Len(collected) = used + 1
  BY <1>1
<1>3. \A i \in 1 .. Len(collected) : collected[i] = sent[LineStart + i - 1]
  OBVIOUS
<1>4. \A i \in LineStart .. used : sent[i] # "newline"
  <2> SUFFICES ASSUME NEW i \in LineStart .. used PROVE sent[i] # "newline"
    OBVIOUS
  <2> DEFINE j == i - LineStart + 1
  <2>1. j \in 1 .. Len(collected) /\ LineStart + j - 1 = i  BY <1>1, <1>2
  <2>2. collected[j] = sent[i]  BY <1>3, <2>1
  <2>3. collected[j] \in Byte \ {"newline"}  BY <2>1
  <2> QED  BY <2>2, <2>3
<1>5. SubSeq(sent, LineStart, used) = collected
  <2> DEFINE piece == SubSeq(sent, LineStart, used)
  <2>1. /\ piece \in Seq(Byte) /\ Len(piece) = Len(collected)
        /\ \A i \in 1 .. Len(piece) : piece[i] = sent[LineStart + i - 1]
    BY <1>1, <1>2
  <2> HIDE DEF piece
  <2>2. \A i \in 1 .. Len(piece) : piece[i] = collected[i]  BY <2>1, <1>3
  <2>3. piece = collected
    BY <2>1, <2>2, <1>1, SeqEqual
  <2> QED  BY <2>3 DEF piece
<1> QED  BY <1>2, <1>4, <1>5 DEF Lines!Bytes, Lines!NoNewline

\* TypeOK and Held, action by action.
LEMMA InitIInv == Init => IInv
<1> SUFFICES ASSUME Init PROVE IInv  OBVIOUS
<1>1. RulesTypeOK
  BY DEF Init, RulesInit, RulesTypeOK, Option
<1>2. TypeOK
  <2>1. /\ sent = <<>> /\ closed = FALSE
        /\ fetched = 0 /\ used = 0 /\ collected = <<>>
    BY DEF Init
  <2>2. sent \in Seq(Byte) /\ Len(sent) = 0  BY <2>1
  <2>3. collected \in Seq(Byte \ {"newline"}) /\ Len(collected) = 0  BY <2>1
  <2>4. fetched \in 0 .. Len(sent) /\ used \in 0 .. fetched  BY <2>1, <2>2
  <2>5. Len(collected) <= Cap  BY <2>3, CapAssumption
  <2>6. closed \in BOOLEAN  BY <2>1
  <2> QED  BY <1>1, <2>2, <2>3, <2>4, <2>5, <2>6 DEF TypeOK
<1>3. Held
  BY DEF Init, Held
<1> QED  BY <1>2, <1>3 DEF IInv

\* What the end of a line, however it ends, leaves behind.
LEMMA DeliverKeepsIInv ==
  ASSUME IInv, NEW text \in Seq(Byte), NEW next \in Nat,
         next <= fetched, Deliver(text, next)
  PROVE  IInv'
<1> USE DEF IInv, TypeOK
<1>1. RulesTypeOK'  BY KindType, TakeKeepsTypes DEF Deliver
<1>2. TypeOK'
  <2>1. collected' = <<>> /\ used' = next /\ UNCHANGED <<sent, closed, fetched>>
    BY DEF Deliver, pipe
  <2> HIDE DEF IInv
  <2> QED  BY <1>1, <2>1, CapAssumption DEF IInv
<1>3. Held'  BY DEF Deliver, Held
<1> QED  BY <1>2, <1>3

LEMMA StepIInv == IInv /\ [Next]_vars => IInv'
<1> SUFFICES ASSUME IInv, [Next]_vars PROVE IInv'  OBVIOUS
<1> USE DEF IInv
<1>t. TypeOK /\ Held  OBVIOUS
<1>r. UNCHANGED rulesVars => RulesTypeOK'
  BY DEF rulesVars, RulesTypeOK, TypeOK
<1>1. ASSUME NEW byte \in Written, Write(byte) PROVE IInv'
  <2>1. byte \in Byte  BY ReaderAssumption
  <2>2. /\ sent' \in Seq(Byte) /\ Len(sent') = Len(sent) + 1
        /\ \A i \in 1 .. Len(sent) : sent'[i] = sent[i]
    BY <1>1, <2>1 DEF Write, TypeOK
  <2>3. TypeOK'
    BY <1>1, <1>r, <2>2 DEF Write, TypeOK
  <2>4. Held'
    <3> SUFFICES ASSUME NEW i \in 1 .. Len(collected)
                 PROVE  collected[i] = sent'[LineStart + i - 1]
      BY <1>1 DEF Write, Held, LineStart
    <3>1. LineStart + i - 1 \in 1 .. Len(sent)
      BY <1>t, HeldIsBytes DEF TypeOK
    <3> QED  BY <3>1, <2>2 DEF Held
  <2> QED  BY <2>3, <2>4
<1>2. CASE Close
  <2>1. TypeOK'  BY <1>2, <1>r DEF Close, TypeOK
  <2>2. Held'  BY <1>2 DEF Close, Held, LineStart
  <2> QED  BY <2>1, <2>2
<1>3. ASSUME NEW n \in 1 .. Chunk, Fetch(n) PROVE IInv'
  <2>1. TypeOK'  BY <1>3, <1>r, ReaderAssumption DEF Fetch, pipe, TypeOK
  <2>2. Held'  BY <1>3 DEF Fetch, pipe, Held, LineStart
  <2> QED  BY <2>1, <2>2
<1>4. ASSUME NEW byte \in Byte, Collect(byte) PROVE IInv'
  <2>1. /\ collected' \in Seq(Byte \ {"newline"})
        /\ Len(collected') = Len(collected) + 1
        /\ \A i \in 1 .. Len(collected) : collected'[i] = collected[i]
        /\ collected'[Len(collected) + 1] = byte
    BY <1>4 DEF Collect, TypeOK
  <2>2. used' = used + 1 /\ used < fetched /\ byte = sent[used + 1]
    BY <1>4 DEF Collect, InBuffer
  <2>3. TypeOK'
    BY <1>4, <1>r, <2>1, <2>2, CapAssumption DEF Collect, pipe, TypeOK
  <2>4. LineStart' = LineStart /\ LineStart + Len(collected) = used + 1
    BY <1>t, <2>1, <2>2, HeldIsBytes DEF LineStart, TypeOK
  <2>5. Held'
    <3> SUFFICES ASSUME NEW i \in 1 .. Len(collected) + 1
                 PROVE  collected'[i] = sent[LineStart + i - 1]
      BY <1>4, <2>1, <2>2, <2>4 DEF Collect, pipe, Held, TypeOK
    <3>1. CASE i <= Len(collected)
      BY <3>1, <2>1 DEF Held, TypeOK
    <3>2. CASE i = Len(collected) + 1
      <4>1. LineStart + i - 1 = used + 1  BY <3>2, <2>4, <1>t, HeldIsBytes DEF TypeOK
      <4> QED  BY <4>1, <3>2, <2>1, <2>2
    <3> QED  BY <3>1, <3>2 DEF TypeOK
  <2> QED  BY <2>3, <2>5
<1>5. ASSUME NEW byte \in Byte, OverCap(byte) PROVE IInv'
  <2>1. Append(collected, byte) \in Seq(Byte)  BY DEF TypeOK
  <2>2. used + 1 \in Nat /\ used + 1 <= fetched  BY <1>5 DEF OverCap, InBuffer, TypeOK
  <2> QED  BY <1>5, <2>1, <2>2, DeliverKeepsIInv DEF OverCap
<1>6. CASE EndOfLine
  <2>1. collected \in Seq(Byte)  BY DEF TypeOK
  <2>2. used + 1 \in Nat /\ used + 1 <= fetched  BY <1>6 DEF EndOfLine, InBuffer, TypeOK
  <2> QED  BY <1>6, <2>1, <2>2, DeliverKeepsIInv DEF EndOfLine
<1>7. CASE LastLine
  <2>1. collected \in Seq(Byte) /\ used \in Nat /\ used <= fetched  BY DEF TypeOK
  <2> QED  BY <1>7, <2>1, DeliverKeepsIInv DEF LastLine
<1>8. CASE EndOfStream
  <2>1. RulesTypeOK'  BY <1>8, TakeKeepsTypes DEF EndOfStream, TypeOK, LineKind
  <2>2. TypeOK'  BY <1>8, <2>1 DEF EndOfStream, TypeOK, pipe
  <2>3. Held'  BY <1>8 DEF EndOfStream, Held, LineStart, pipe
  <2> QED  BY <2>2, <2>3
<1>9. CASE ReadFails
  <2>1. RulesTypeOK'  BY <1>9, TakeKeepsTypes DEF ReadFails, TypeOK, LineKind
  <2>2. TypeOK'  BY <1>9, <2>1, CapAssumption DEF ReadFails, TypeOK, pipe
  <2>3. Held'  BY <1>9 DEF ReadFails, Held, TypeOK, pipe
  <2> QED  BY <2>2, <2>3
<1>10. CASE UNCHANGED vars
  <2>1. TypeOK'  BY <1>10, <1>r DEF vars, TypeOK, pipe
  <2>2. Held'  BY <1>10 DEF vars, Held, LineStart, pipe
  <2> QED  BY <2>1, <2>2
<1> QED  BY <1>1, <1>2, <1>3, <1>4, <1>5, <1>6, <1>7, <1>8, <1>9, <1>10
         DEF Next, Host, Reader

LEMMA Inductive == Spec => []IInv
<1> QED  BY InitIInv, StepIInv, PTL DEF Spec

\* Every value of the reader has its type: in particular it never holds more
\* of a line than the cap, and never uses a byte it has not fetched.
THEOREM ReaderTypes == Spec => []TypeOK
<1>1. IInv => TypeOK  BY DEF IInv
<1> QED  BY <1>1, Inductive, PTL

-----------------------------------------------------------------------------
(* The refinement.                                                         *)

LEMMA SameRules ==
  /\ Lines!rulesVars = rulesVars
  /\ Lines!Byte = Byte
  /\ Lines!RulesInit = RulesInit
  /\ \A text : Lines!Kind(text) = Kind(text)
  /\ \A line : Lines!Take(line) <=> Take(line)
<1>1. Lines!rulesVars = rulesVars  BY DEF Lines!rulesVars, rulesVars
<1>2. Lines!Byte = Byte  BY DEF Lines!Byte, Byte, Lines!Message, Message
<1>3. Lines!RulesInit = RulesInit  BY DEF Lines!RulesInit, RulesInit
<1>4. ASSUME NEW text PROVE Lines!Kind(text) = Kind(text)
  BY DEF Lines!Kind, Kind, Lines!Meaning, Meaning, Lines!Message, Message
<1>5. ASSUME NEW line PROVE Lines!Take(line) <=> Take(line)
  BY DEF Lines!Take, Take, Lines!TakeRequest, TakeRequest,
         Lines!TakeControl, TakeControl, Lines!IsViolation, IsViolation,
         Lines!IsAcceptedCancel, IsAcceptedCancel, Lines!LineKind, LineKind
<1> QED  BY <1>1, <1>2, <1>3, <1>4, <1>5

\* A whole line that ends after the last byte used.
LEMMA DeliverTakesLine ==
  ASSUME IInv, Lines!IsLineEnd(LineStart, used), NEW next \in Nat,
         Deliver(collected, next),
         next = IF used < Len(sent) THEN used + 1 ELSE used
  PROVE  Lines!TakeLine
<1> DEFINE to == used
<1>1. /\ used \in LineStart - 1 .. Len(sent)
      /\ LineStart + Len(collected) = used + 1 /\ LineStart \in Int
      /\ used \in Nat /\ Len(sent) \in Nat /\ used <= Len(sent)
  BY HeldIsBytes DEF IInv, TypeOK
<1>2. used - LineStart < Cap
  BY <1>1, CapAssumption DEF IInv, TypeOK
<1>3. Lines!NoNewline(LineStart, used) /\ Lines!Bytes(LineStart, used) = collected
  BY HeldIsBytes DEF IInv
<1>4. Lines!Take(Lines!Kind(Lines!Bytes(LineStart, used)))
  BY <1>3, SameRules DEF Deliver
<1>5. LineStart' = IF used < Len(sent) THEN used + 2 ELSE used + 1
  <2>1. used' = next /\ Len(collected') = 0  BY DEF Deliver
  <2> QED  BY <2>1, <1>1 DEF LineStart
<1>6. UNCHANGED <<sent, closed>>  BY DEF Deliver, pipe
<1> QED  BY <1>1, <1>2, <1>3, <1>4, <1>5, <1>6 DEF Lines!TakeLine

LEMMA OversizedStops ==
  ASSUME NEW line \in {"oversized", "io_error"}, Take(line)
  PROVE  reading' = "stopped"
BY DEF Take, TakeRequest, TakeControl, IsViolation, LineKind

\* Every step of the reader is a step of ControlLines, or none at all.
LEMMA StepSimulation ==
  IInv /\ [Next]_vars
  => [Lines!Next]_<<Lines!rulesVars, sent, closed, LineStart>>
<1> SUFFICES ASSUME IInv, [Next]_vars
             PROVE  \/ Lines!Next
                    \/ UNCHANGED <<rulesVars, sent, closed, LineStart>>
  BY DEF Lines!rulesVars, rulesVars
<1>h. /\ LineStart \in 1 .. used + 1 /\ LineStart + Len(collected) = used + 1
      /\ Lines!NoNewline(LineStart, used)
  BY HeldIsBytes DEF IInv
<1>t. /\ sent \in Seq(Byte) /\ Len(sent) \in Nat
      /\ used \in Nat /\ fetched \in Nat
      /\ used <= fetched /\ fetched <= Len(sent)
      /\ Len(collected) \in Nat
  BY DEF IInv, TypeOK
<1>1. ASSUME NEW byte \in Written, Write(byte) PROVE Lines!HostWrites
  <2>1. byte \in Lines!Byte  BY ReaderAssumption, SameRules
  <2> QED
    BY <1>1, <2>1 DEF Write, Lines!HostWrites, LineStart, Lines!rulesVars, rulesVars
<1>2. CASE Close
  <2>1. Lines!HostCloses
    BY <1>2 DEF Close, Lines!HostCloses, LineStart, Lines!rulesVars, rulesVars
  <2> QED  BY <2>1 DEF Lines!Next
<1>3. ASSUME NEW n \in 1 .. Chunk, Fetch(n)
      PROVE  UNCHANGED <<rulesVars, sent, closed, LineStart>>
  BY <1>3 DEF Fetch, pipe, LineStart
<1>4. ASSUME NEW byte \in Byte, Collect(byte)
      PROVE  UNCHANGED <<rulesVars, sent, closed, LineStart>>
  <2>1. Len(collected') = Len(collected) + 1 /\ used' = used + 1
    BY <1>4 DEF Collect, IInv, TypeOK
  <2>2. LineStart' = LineStart
    BY <2>1, <1>t DEF LineStart
  <2> QED  BY <1>4, <2>2 DEF Collect, pipe
<1>5. ASSUME NEW byte \in Byte, OverCap(byte) PROVE Lines!GiveUpLine
  <2>1. used < fetched /\ byte = sent[used + 1] /\ byte # "newline"
        /\ Len(collected) = Cap
    BY <1>5 DEF OverCap, InBuffer
  <2>2. LineStart + Cap = used + 1 /\ LineStart + Cap <= Len(sent)
    BY <2>1, <1>h, <1>t, CapAssumption
  <2>3. Lines!NoNewline(LineStart, LineStart + Cap)
    BY <2>1, <2>2, <1>h, <1>t DEF Lines!NoNewline
  <2>4. Kind(Append(collected, byte)) = "oversized"
    <3>1. Len(Append(collected, byte)) > Cap
      BY <2>1, CapAssumption DEF IInv, TypeOK
    <3> QED  BY <3>1 DEF Kind
  <2>5. Take("oversized") /\ Lines!Take("oversized")
    BY <1>5, <2>4, SameRules DEF OverCap, Deliver
  <2>6. reading' = "stopped"  BY <2>5, OversizedStops
  <2>7. used' = used + 1 /\ Len(collected') = 0 /\ UNCHANGED <<sent, closed>>
    BY <1>5 DEF OverCap, Deliver, pipe
  <2>8. LineStart' = LineStart + Cap + 1
    BY <2>2, <2>7, <1>t DEF LineStart
  <2> QED  BY <2>2, <2>3, <2>5, <2>6, <2>7, <2>8 DEF Lines!GiveUpLine
<1>6. CASE EndOfLine
  <2>1. used < Len(sent) /\ sent[used + 1] = "newline"
    BY <1>6, <1>t DEF EndOfLine, InBuffer
  <2>2. Lines!IsLineEnd(LineStart, used)  BY <2>1 DEF Lines!IsLineEnd
  <2>3. Lines!TakeLine
    BY <1>6, <1>t, <2>1, <2>2, DeliverTakesLine DEF EndOfLine
  <2> QED  BY <2>3 DEF Lines!Next
<1>7. CASE LastLine
  <2>1. closed /\ used = Len(sent) /\ collected # <<>>  BY <1>7 DEF LastLine, Ended
  <2>2. Len(collected) # 0  BY <2>1 DEF IInv, TypeOK
  <2>3. Lines!IsLineEnd(LineStart, used)
    BY <2>1, <2>2, <1>h, <1>t DEF Lines!IsLineEnd
  <2>4. Lines!TakeLine
    BY <1>7, <1>t, <2>1, <2>3, DeliverTakesLine DEF LastLine
  <2> QED  BY <2>4 DEF Lines!Next
<1>8. CASE EndOfStream
  <2>1. closed /\ used = Len(sent) /\ Len(collected) = 0
    BY <1>8 DEF EndOfStream, Ended
  <2>2. Lines!Take("eof") /\ UNCHANGED <<sent, closed, LineStart>>
    BY <1>8, SameRules DEF EndOfStream, pipe, LineStart
  <2>3. Lines!StreamEnds
    BY <2>1, <2>2, <1>h, <1>t DEF Lines!StreamEnds
  <2> QED  BY <2>3 DEF Lines!Next
<1>9. CASE ReadFails
  <2>1. Take("io_error") /\ collected' = <<>> /\ UNCHANGED <<sent, closed, used>>
    BY <1>9 DEF ReadFails, pipe
  <2>2. reading' = "stopped"  BY <2>1, OversizedStops
  <2>3. LineStart' = used + 1  BY <2>1, <1>t DEF LineStart
  <2>4. LineStart' \in LineStart .. Len(sent) + 1  BY <2>3, <1>h, <1>t
  <2>5. Lines!StreamFails
    BY <2>1, <2>2, <2>4, SameRules DEF Lines!StreamFails
  <2> QED  BY <2>5 DEF Lines!Next
<1>10. CASE UNCHANGED vars
  BY <1>10 DEF vars, pipe, LineStart
<1> QED  BY <1>1, <1>2, <1>3, <1>4, <1>5, <1>6, <1>7, <1>8, <1>9, <1>10
         DEF Next, Host, Reader, Lines!Next

LEMMA InitSimulation == Init => Lines!Init
<1> SUFFICES ASSUME Init PROVE Lines!Init  OBVIOUS
<1>1. LineStart = 1  BY DEF Init, LineStart
<1> QED  BY <1>1, SameRules DEF Init, Lines!Init

\* ImplementsLines: whatever the sizes of the pipe, the buffer and the cap, and
\* however the bytes trickle in, the reader takes the lines of the text the
\* Host sent, in order, whole, none twice and none left out.
THEOREM ReaderImplementsLines == Spec => ImplementsLines
<1> QED
  BY InitSimulation, StepSimulation, Inductive, PTL
  DEF Spec, ImplementsLines, Lines!Spec

-----------------------------------------------------------------------------
(* What cancels a run, from the actions of ControlLines alone.             *)

\* A line of the text, to its end.
Whole(from, to) == Lines!NoNewline(from, to) /\ Lines!IsLineEnd(from, to)

Opens(first) == Whole(1, first) /\ Kind(Lines!Bytes(1, first)) = "start"

Blank(from, to) == \A i \in from .. to : sent[i] \in {"newline", "space"}

\* While a cancel is awaited nothing but blank lines follow the request, and
\* the next line begins behind a newline, unless there is none.
Awaiting(first) ==
  /\ first < LineStart /\ Opens(first) /\ Blank(first + 1, LineStart - 1)
  /\ sent[LineStart - 1] = "newline" \/ (closed /\ LineStart = Len(sent) + 1)

Text == sent \in Seq(Byte) /\ LineStart \in 1 .. Len(sent) + 1

CancelInv ==
  /\ reading = "request" => LineStart = 1 /\ ~cancelSeen
  /\ reading = "control" /\ ~cancelSeen => \E first \in 1 .. Len(sent) : Awaiting(first)
  /\ OnlyAWholeLineCancels

LEMMA IInvText == IInv => Text
BY HeldIsBytes DEF IInv, TypeOK, Text

\* Text that has been sent does not change, and a whole line stays one.
LEMMA WholeStays ==
  ASSUME Text,
         \/ UNCHANGED sent /\ (closed => closed')
         \/ ~closed /\ closed' = closed /\ \E byte : sent' = Append(sent, byte),
         NEW from \in 1 .. Len(sent) + 1, NEW to \in 0 .. Len(sent)
  PROVE  /\ Len(sent) <= Len(sent') /\ Len(sent') \in Nat
         /\ \A i \in 1 .. Len(sent) : sent'[i] = sent[i]
         /\ Lines!Bytes(from, to)' = Lines!Bytes(from, to)
         /\ Whole(from, to) => Whole(from, to)'
         /\ Blank(from, to) => Blank(from, to)'
<1>1. CASE UNCHANGED sent /\ (closed => closed')
  BY <1>1 DEF Text, Lines!Bytes, Whole, Blank, Lines!NoNewline, Lines!IsLineEnd
<1>2. ASSUME ~closed, closed' = closed, NEW byte, sent' = Append(sent, byte)
      PROVE  /\ Len(sent) <= Len(sent') /\ Len(sent') \in Nat
             /\ \A i \in 1 .. Len(sent) : sent'[i] = sent[i]
             /\ Lines!Bytes(from, to)' = Lines!Bytes(from, to)
             /\ Whole(from, to) => Whole(from, to)'
             /\ Blank(from, to) => Blank(from, to)'
  <2>1. /\ Len(sent') = Len(sent) + 1 /\ Len(sent) \in Nat
        /\ \A i \in 1 .. Len(sent) : sent'[i] = sent[i]
    BY <1>2 DEF Text
  <2>2. SubSeq(sent', from, to) = SubSeq(sent, from, to)
    BY <1>2 DEF Text
  <2>3. Whole(from, to) => Whole(from, to)'
    BY <1>2, <2>1 DEF Whole, Lines!NoNewline, Lines!IsLineEnd
  <2>4. Blank(from, to) => Blank(from, to)'  BY <2>1 DEF Blank
  <2> QED  BY <2>1, <2>2, <2>3, <2>4 DEF Lines!Bytes
<1> QED  BY <1>1, <1>2

\* A line that cancels or opens a session has something on it.
LEMMA EmptyIsBlank == Kind(<<>>) = "blank"
<1>1. Meaning(<<>>) = "blank"
  <2>1. DOMAIN <<>> = {} /\ Len(<<>>) = 0  OBVIOUS
  <2> QED  BY <2>1 DEF Meaning
<1>2. Len(<<>>) = 0 /\ DOMAIN <<>> = {}  OBVIOUS
<1> QED  BY <1>1, <1>2, CapAssumption DEF Kind

LEMMA BlankIsSpace ==
  ASSUME NEW text \in Seq(Byte), Kind(text) = "blank"
  PROVE  \A i \in 1 .. Len(text) : text[i] = "space"
<1> DEFINE solid == {i \in DOMAIN text : text[i] # "space"}
<1>1. Meaning(text) = "blank"  BY DEF Kind
<1>2. CASE solid # {} /\ \E i \in solid : solid = {i} /\ text[i] \in Message
  <2>1. PICK i \in solid : solid = {i} /\ text[i] \in Message  BY <1>2
  <2>2. (CHOOSE j \in solid : TRUE) = i  BY <2>1
  <2>3. Meaning(text) = text[i]  BY <1>2, <2>2 DEF Meaning
  <2> QED  BY <1>1, <2>1, <2>3 DEF Message
<1>3. CASE solid # {} /\ ~(\E i \in solid : solid = {i} /\ text[i] \in Message)
  BY <1>1, <1>3 DEF Meaning
<1>4. CASE solid = {}
  BY <1>4
<1> QED  BY <1>2, <1>3, <1>4

\* OnlyAWholeLineCancels is stated with the operators above.
LEMMA CancelledBy ==
  OnlyAWholeLineCancels <=>
    (cancelSeen =>
       \E first, from, to \in 1 .. Len(sent) :
         /\ Opens(first) /\ first < from /\ sent[from - 1] = "newline"
         /\ Whole(from, to) /\ Kind(Lines!Bytes(from, to)) = "cancel"
         /\ Blank(first + 1, from - 1))
BY DEF OnlyAWholeLineCancels, Opens, Whole, Blank

LEMMA CancelStays ==
  ASSUME Text, OnlyAWholeLineCancels, cancelSeen,
         \/ UNCHANGED sent /\ (closed => closed')
         \/ ~closed /\ closed' = closed /\ \E byte : sent' = Append(sent, byte)
  PROVE  OnlyAWholeLineCancels'
<1>1. PICK first \in 1 .. Len(sent), from \in 1 .. Len(sent), to \in 1 .. Len(sent) :
         /\ Opens(first) /\ first < from /\ sent[from - 1] = "newline"
         /\ Whole(from, to) /\ Kind(Lines!Bytes(from, to)) = "cancel"
         /\ Blank(first + 1, from - 1)
  BY CancelledBy
<1>2. Len(sent) \in Nat  BY DEF Text
<1>3. /\ Len(sent) <= Len(sent') /\ Len(sent') \in Nat
      /\ \A i \in 1 .. Len(sent) : sent'[i] = sent[i]
      /\ Lines!Bytes(from, to)' = Lines!Bytes(from, to)
      /\ Whole(from, to)'
  BY <1>1, <1>2, WholeStays, SMTT(30)
<1>4. /\ Lines!Bytes(1, first)' = Lines!Bytes(1, first)
      /\ Whole(1, first)'
  BY <1>1, <1>2, WholeStays DEF Opens
<1>5. Blank(first + 1, from - 1)'
  <2>1. first + 1 \in 1 .. Len(sent) + 1 /\ from - 1 \in 0 .. Len(sent)
    BY <1>1, <1>2
  <2> QED  BY <1>1, <2>1, WholeStays
<1>6. sent'[from - 1] = "newline"  BY <1>1, <1>2, <1>3
<1>7. /\ first \in 1 .. Len(sent') /\ from \in 1 .. Len(sent')
      /\ to \in 1 .. Len(sent')
  BY <1>1, <1>2, <1>3
<1>8. Kind(Lines!Bytes(from, to)') = "cancel" /\ Kind(Lines!Bytes(1, first)') = "start"
  BY <1>1, <1>3, <1>4 DEF Opens
<1> HIDE DEF Lines!Bytes, Kind
<1>9. Opens(first)' /\ Kind(Lines!Bytes(from, to))' = "cancel"
  BY <1>4, <1>8 DEF Opens, Kind, Meaning
<1> QED  BY <1>1, <1>3, <1>5, <1>6, <1>7, <1>9
         DEF OnlyAWholeLineCancels, Opens, Whole, Blank

LEMMA AwaitingStays ==
  ASSUME Text, NEW first \in 1 .. Len(sent), Awaiting(first), UNCHANGED LineStart,
         \/ UNCHANGED sent /\ (closed => closed')
         \/ ~closed /\ closed' = closed /\ \E byte : sent' = Append(sent, byte)
  PROVE  first \in 1 .. Len(sent') /\ Awaiting(first)'
<1>1. /\ Len(sent) \in Nat /\ LineStart \in 1 .. Len(sent) + 1
      /\ first < LineStart /\ Opens(first) /\ Blank(first + 1, LineStart - 1)
      /\ sent[LineStart - 1] = "newline" \/ (closed /\ LineStart = Len(sent) + 1)
  BY DEF Text, Awaiting
<1>2. /\ Len(sent) <= Len(sent') /\ Len(sent') \in Nat
      /\ \A i \in 1 .. Len(sent) : sent'[i] = sent[i]
      /\ Lines!Bytes(1, first)' = Lines!Bytes(1, first)
      /\ Whole(1, first)'
  BY <1>1, WholeStays DEF Opens
<1>3. Blank(first + 1, LineStart - 1)'
  <2>1. first + 1 \in 1 .. Len(sent) + 1 /\ LineStart - 1 \in 0 .. Len(sent)
    BY <1>1
  <2>2. \A i \in first + 1 .. LineStart - 1 : sent'[i] \in {"newline", "space"}
    BY <1>1, <1>2, <2>1 DEF Blank
  <2> QED  BY <2>2 DEF Blank
<1>4. Opens(first)'
  <2>1. Kind(Lines!Bytes(1, first)') = "start"  BY <1>1, <1>2 DEF Opens
  <2> QED  BY <2>1, <1>2 DEF Opens, Kind, Meaning
<1>5. sent'[LineStart - 1] = "newline" \/ (closed' /\ LineStart = Len(sent') + 1)
  BY <1>1, <1>2
<1> QED  BY <1>1, <1>2, <1>3, <1>4, <1>5 DEF Awaiting

\* One whole line is taken.
LEMMA TakeLineKeeps ==
  ASSUME Text, CancelInv, Lines!TakeLine
  PROVE  CancelInv'
<1>1. PICK to \in LineStart - 1 .. Len(sent) :
        /\ Lines!NoNewline(LineStart, to) /\ Lines!IsLineEnd(LineStart, to)
        /\ Take(Kind(Lines!Bytes(LineStart, to)))
        /\ LineStart' = IF to < Len(sent) THEN to + 2 ELSE to + 1
        /\ UNCHANGED <<sent, closed>>
  BY SameRules DEF Lines!TakeLine
<1> DEFINE text == Lines!Bytes(LineStart, to)
<1>2. /\ sent \in Seq(Byte) /\ Len(sent) \in Nat /\ LineStart \in 1 .. Len(sent) + 1
      /\ to \in 0 .. Len(sent) /\ to >= LineStart - 1
  BY <1>1 DEF Text
<1>3. /\ text \in Seq(Byte) /\ Len(text) = to - LineStart + 1
      /\ \A i \in 1 .. Len(text) : text[i] = sent[LineStart + i - 1]
  BY <1>2 DEF Lines!Bytes
<1>4. ASSUME Kind(text) # "blank" PROVE to >= LineStart
  <2>1. text # <<>>  BY <1>4, EmptyIsBlank
  <2>2. Len(text) # 0  BY <2>1, <1>3
  <2> QED  BY <2>2, <1>2, <1>3
<1>5. Whole(LineStart, to)  BY <1>1 DEF Whole
<1>6. /\ to < Len(sent) => sent[to + 1] = "newline"
      /\ to = Len(sent) => closed
  BY <1>1, <1>2 DEF Lines!IsLineEnd
<1> HIDE DEF text
<1>7. CASE TakeRequest(Kind(text))
  <2>1. LineStart = 1 /\ ~cancelSeen /\ ~cancelSeen' /\ reading' # "request"
    BY <1>7 DEF TakeRequest, CancelInv
  <2>2. ASSUME reading' = "control" PROVE \E first \in 1 .. Len(sent') : Awaiting(first)'
    <3>1. Kind(text) = "start"  BY <1>7, <2>2 DEF TakeRequest
    <3>2. to \in 1 .. Len(sent)  BY <1>2, <1>4, <2>1, <3>1
    <3>3. Opens(to)  BY <1>5, <2>1, <3>1 DEF Opens, text
    <3>4. Opens(to)' /\ UNCHANGED <<sent, closed>>
      BY <1>1, <3>3 DEF Opens, Whole, Lines!NoNewline, Lines!IsLineEnd,
                        Lines!Bytes, Kind, Meaning
    <3>5. to < LineStart'  BY <1>1, <1>2
    <3>6. Blank(to + 1, LineStart' - 1)
      <4> SUFFICES ASSUME NEW i \in to + 1 .. LineStart' - 1 PROVE sent[i] = "newline"
        BY DEF Blank
      <4> QED  BY <1>1, <1>2, <1>6
    <3>7. sent[LineStart' - 1] = "newline" \/ (closed /\ LineStart' = Len(sent) + 1)
      BY <1>1, <1>2, <1>6
    <3> QED  BY <3>2, <3>4, <3>5, <3>6, <3>7 DEF Awaiting, Blank
  <2> QED  BY <2>1, <2>2 DEF CancelInv, OnlyAWholeLineCancels
<1>8. CASE TakeControl(Kind(text)) /\ cancelSeen
  <2>1. cancelSeen' /\ reading' # "request"  BY <1>8 DEF TakeControl
  <2>2. OnlyAWholeLineCancels'
    BY <1>1, <1>8, CancelStays DEF CancelInv
  <2> QED  BY <2>1, <2>2 DEF CancelInv
<1>9. CASE TakeControl(Kind(text)) /\ ~cancelSeen
  <2>1. PICK first \in 1 .. Len(sent) : Awaiting(first)
    BY <1>9 DEF TakeControl, CancelInv
  <2>2. /\ first < LineStart /\ Opens(first) /\ Blank(first + 1, LineStart - 1)
        /\ sent[LineStart - 1] = "newline" \/ (closed /\ LineStart = Len(sent) + 1)
    BY <2>1 DEF Awaiting
  <2>3. reading' # "request"  BY <1>9 DEF TakeControl
  <2>4. CASE Kind(text) = "cancel"
    <3>1. to >= LineStart  BY <1>4, <2>4
    <3>2. sent[LineStart - 1] = "newline"  BY <2>2, <3>1, <1>2
    <3>3. LineStart \in 1 .. Len(sent) /\ to \in 1 .. Len(sent)  BY <3>1, <1>2
    <3>4. OnlyAWholeLineCancels'
      <4>1. PICK from \in 1 .. Len(sent) : from = LineStart  BY <3>3
      <4>2. /\ Opens(first) /\ first < from /\ Blank(first + 1, from - 1)
            /\ Whole(from, to) /\ Kind(Lines!Bytes(from, to)) = "cancel"
            /\ sent[from - 1] = "newline"
        BY <4>1, <3>2, <2>2, <2>4, <1>5 DEF text
      <4>3. Opens(first)' /\ Whole(from, to)' /\ Blank(first + 1, from - 1)'
            /\ Kind(Lines!Bytes(from, to))' = "cancel"
        BY <1>1, <4>2, ZenonT(40)
        DEF Opens, Whole, Blank, Lines!NoNewline, Lines!IsLineEnd,
            Lines!Bytes, Kind, Meaning
      <4> QED
        BY <4>2, <4>3, <3>3, <1>1 DEF OnlyAWholeLineCancels, Opens, Whole, Blank
    <3>5. cancelSeen'  BY <1>9, <2>4 DEF TakeControl, IsAcceptedCancel
    <3> QED  BY <2>3, <3>4, <3>5 DEF CancelInv
  <2>5. CASE Kind(text) # "cancel"
    <3>1. ~cancelSeen'  BY <1>9, <2>5 DEF TakeControl, IsAcceptedCancel
    <3>2. ASSUME reading' = "control"
          PROVE  \E f \in 1 .. Len(sent') : Awaiting(f)'
      <4>1. Kind(text) = "blank"
        <5>1. Kind(text) \in LineKind  BY <1>3, KindType
        <5> QED  BY <1>9, <2>5, <3>2, <5>1 DEF TakeControl, IsViolation
      <4>2. \A i \in LineStart .. to : sent[i] = "space"
        <5> SUFFICES ASSUME NEW i \in LineStart .. to PROVE sent[i] = "space"
          OBVIOUS
        <5>1. i - LineStart + 1 \in 1 .. Len(text)
              /\ LineStart + (i - LineStart + 1) - 1 = i
          BY <1>2, <1>3
        <5>2. text[i - LineStart + 1] = "space"  BY <5>1, <4>1, <1>3, BlankIsSpace
        <5> QED  BY <5>1, <5>2, <1>3
      <4>3. Blank(first + 1, LineStart' - 1)
        <5> SUFFICES ASSUME NEW i \in first + 1 .. LineStart' - 1
                     PROVE  sent[i] \in {"newline", "space"}
          BY DEF Blank
        <5>1. CASE i <= LineStart - 1  BY <5>1, <2>2, <1>2 DEF Blank
        <5>2. CASE i \in LineStart .. to  BY <5>2, <4>2
        <5>3. CASE i > to /\ i >= LineStart  BY <5>3, <1>1, <1>2, <1>6
        <5> QED  BY <5>1, <5>2, <5>3, <1>1, <1>2
      <4>4. sent[LineStart' - 1] = "newline" \/ (closed /\ LineStart' = Len(sent) + 1)
        BY <1>1, <1>2, <1>6
      <4>5. first < LineStart'  BY <1>1, <1>2, <2>2
      <4>6. Opens(first)' /\ UNCHANGED <<sent, closed>>
        BY <1>1, <2>2 DEF Opens, Whole, Lines!NoNewline, Lines!IsLineEnd,
                          Lines!Bytes, Kind, Meaning
      <4> QED  BY <4>3, <4>4, <4>5, <4>6 DEF Awaiting, Blank
    <3> QED  BY <2>3, <3>1, <3>2 DEF CancelInv, OnlyAWholeLineCancels
  <2> QED  BY <2>4, <2>5
<1> QED  BY <1>1, <1>7, <1>8, <1>9 DEF Take, text

\* The actions that end the control stream.
LEMMA EndKeeps ==
  ASSUME Text, CancelInv, NEW line \in {"oversized", "io_error", "eof"}, Take(line),
         UNCHANGED <<sent, closed>>, reading' = "stopped"
  PROVE  CancelInv'
<1>1. cancelSeen' => cancelSeen
  BY DEF Take, TakeRequest, TakeControl, IsAcceptedCancel
<1>2. OnlyAWholeLineCancels'
  <2>1. CASE cancelSeen  BY <2>1, CancelStays DEF CancelInv
  <2>2. CASE ~cancelSeen  BY <2>2, <1>1 DEF OnlyAWholeLineCancels
  <2> QED  BY <2>1, <2>2
<1> QED  BY <1>2 DEF CancelInv

LEMMA StepCancel ==
  Text /\ CancelInv /\ [Lines!Next]_<<Lines!rulesVars, sent, closed, LineStart>>
  => CancelInv'
<1> SUFFICES ASSUME Text, CancelInv,
                    \/ Lines!Next
                    \/ UNCHANGED <<rulesVars, sent, closed, LineStart>>
             PROVE  CancelInv'
  BY DEF Lines!rulesVars, rulesVars
<1>1. ASSUME UNCHANGED <<rulesVars, LineStart>>,
             \/ UNCHANGED sent /\ (closed => closed')
             \/ ~closed /\ closed' = closed /\ \E byte : sent' = Append(sent, byte)
      PROVE  CancelInv'
  <2>1. UNCHANGED <<reading, cancelSeen>>  BY <1>1 DEF rulesVars
  <2>2. reading = "control" /\ ~cancelSeen
          => \E first \in 1 .. Len(sent') : Awaiting(first)'
    BY <1>1, AwaitingStays DEF CancelInv
  <2>3. OnlyAWholeLineCancels'
    <3>1. CASE cancelSeen  BY <1>1, <3>1, CancelStays DEF CancelInv
    <3>2. CASE ~cancelSeen  BY <2>1, <3>2 DEF OnlyAWholeLineCancels
    <3> QED  BY <3>1, <3>2
  <2> QED  BY <1>1, <2>1, <2>2, <2>3 DEF CancelInv
<1>2. CASE Lines!HostWrites
  BY <1>1, <1>2 DEF Lines!HostWrites, Lines!rulesVars, rulesVars
<1>3. CASE Lines!HostCloses
  BY <1>1, <1>3 DEF Lines!HostCloses, Lines!rulesVars, rulesVars
<1>4. CASE Lines!TakeLine
  BY <1>4, TakeLineKeeps
<1>5. CASE Lines!GiveUpLine
  BY <1>5, SameRules, EndKeeps DEF Lines!GiveUpLine
<1>6. CASE Lines!StreamFails
  BY <1>6, SameRules, EndKeeps DEF Lines!StreamFails
<1>7. CASE Lines!StreamEnds
  <2>1. Take("eof") /\ UNCHANGED <<sent, closed>>
    BY <1>7, SameRules DEF Lines!StreamEnds
  <2>2. reading' = "stopped"
    BY <2>1 DEF Take, TakeRequest, TakeControl
  <2> QED  BY <2>1, <2>2, EndKeeps
<1>8. CASE UNCHANGED <<rulesVars, sent, closed, LineStart>>
  <2>1. UNCHANGED <<rulesVars, LineStart>> /\ UNCHANGED sent /\ UNCHANGED closed
    BY <1>8
  <2> QED  BY <1>1, <2>1
<1> QED  BY <1>2, <1>3, <1>4, <1>5, <1>6, <1>7, <1>8 DEF Lines!Next

LEMMA InitCancel == Init => CancelInv
<1> SUFFICES ASSUME Init PROVE CancelInv  OBVIOUS
<1>1. LineStart = 1  BY DEF Init, LineStart
<1> QED  BY <1>1 DEF Init, RulesInit, CancelInv, OnlyAWholeLineCancels

\* OnlyAWholeLineCancels: whatever is cut, joined, oversized or broken off in
\* the Host's text, and wherever it is cut by the pipe, only a whole line that
\* is a CancelRequest, after the request and after blank lines only, cancels.
THEOREM WholeLineCancels == Spec => []OnlyAWholeLineCancels
<1>1. CancelInv => OnlyAWholeLineCancels  BY DEF CancelInv
<1> QED
  BY <1>1, InitCancel, StepCancel, StepSimulation, IInvText, Inductive, PTL
  DEF Spec

==============================================================================
