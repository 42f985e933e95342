------------------------- MODULE EventStreamProofs -------------------------
(***************************************************************************)
(* What a Host may conclude from a transcript that the validator accepted, *)
(* for transcripts of any length.                                          *)
(***************************************************************************)
EXTENDS EventStream, SequenceTheorems, TLAPS

\* The last progress event is well defined.
HasLast(s) ==
  ProgressAt(s) = {} \/ \E i \in ProgressAt(s) : \A j \in ProgressAt(s) : j <= i

SInv == TypeOK /\ TranscriptRules /\ ProgressNeverRegresses /\ HasLast(stream)

LEMMA EventsHaveTypes ==
  ASSUME NEW n \in Nat, NEW e \in EventsAt(n)
  PROVE  e \in EventRecord
<1>1. ASSUME NEW type \in EventType, NEW code \in ErrorCode \union {None},
             NEW stage \in Stage \union {None},
             NEW c \in 0 .. Total, NEW t \in 0 .. Total, NEW id \in Echo
      PROVE  Event(type, n, code, stage, c, t, id) \in EventRecord
  BY <1>1 DEF Event, EventRecord
<1>2. 0 \in 0 .. Total  BY TotalAssumption
<1>3. ASSUME NEW type \in {"accepted", "running", "completed"}, NEW id \in Echo
      PROVE  PlainEvent(type, n, id) \in EventRecord
  BY <1>1, <1>2 DEF PlainEvent, EventType
<1>4. ASSUME NEW stage \in Stage, NEW c \in 0 .. Total, NEW t \in 0 .. Total,
             NEW id \in Echo
      PROVE  ProgressEvent(n, stage, c, t, id) \in EventRecord
  BY <1>1 DEF ProgressEvent, EventType
<1>5. ASSUME NEW code \in ErrorCode, NEW id \in Echo
      PROVE  FailureEvent(TerminalKind(code), n, code, id) \in EventRecord
  <2>1. TerminalKind(code) \in EventType  BY DEF TerminalKind, EventType
  <2> QED  BY <1>1, <1>2, <2>1 DEF FailureEvent
<1> QED  BY <1>3, <1>4, <1>5 DEF EventsAt

\* The events before the new one, and the new one.
LEMMA Appended ==
  ASSUME NEW s \in Seq(EventRecord), NEW e \in EventRecord
  PROVE  LET t == Append(s, e) IN
         /\ t \in Seq(EventRecord) /\ Len(s) \in Nat /\ Len(t) = Len(s) + 1
         /\ DOMAIN s = 1 .. Len(s) /\ DOMAIN t = 1 .. Len(s) + 1
         /\ \A i \in DOMAIN s : t[i] = s[i]
         /\ t[Len(s) + 1] = e
<1> DEFINE t == Append(s, e)
<1>1. /\ t \in Seq(EventRecord) /\ Len(s) \in Nat /\ Len(t) = Len(s) + 1
      /\ \A i \in 1 .. Len(s) : t[i] = s[i]
      /\ t[Len(s) + 1] = e
  BY AppendProperties, LenProperties
<1> HIDE DEF t
<1>2. DOMAIN s = 1 .. Len(s) /\ DOMAIN t = 1 .. Len(t)  BY <1>1, LenProperties
<1> QED  BY <1>1, <1>2 DEF t

\* An accepted first event is `accepted`, or the terminal one.
LEMMA BegunIsAccepted ==
  ASSUME TypeOK, TranscriptRules, stream # <<>>, ~Terminal(stream)
  PROVE  1 \in DOMAIN stream /\ stream[1].type = "accepted"
<1>1. Len(stream) \in Nat /\ 1 \in DOMAIN stream  BY EmptySeq, LenProperties DEF TypeOK
<1>2. stream[1].type # "failed"
  BY <1>1 DEF Terminal, Has, TerminalType
<1> QED  BY <1>1, <1>2 DEF TranscriptRules

LEMMA AcceptKeepsRules ==
  ASSUME SInv, NEW e \in EventRecord, Accept(e)
  PROVE  TranscriptRules'
<1> DEFINE n == Len(stream)
<1>1. stream \in Seq(EventRecord) /\ stream' = Append(stream, e)
  BY DEF SInv, TypeOK, Accept
<1>2. /\ n \in Nat /\ DOMAIN stream = 1 .. n /\ DOMAIN stream' = 1 .. n + 1
      /\ Len(stream') = n + 1
      /\ \A i \in DOMAIN stream : stream'[i] = stream[i]
      /\ stream'[n + 1] = e
  BY <1>1, Appended
<1> SUFFICES ASSUME NEW i \in 1 .. n + 1
             PROVE  /\ stream'[i].sequence = i
                    /\ stream'[i].type = "accepted" <=> i = 1 /\ stream'[1].type # "failed"
                    /\ stream'[i].type \in TerminalType => i = n + 1
                    /\ stream'[i].echo = stream'[1].echo
  BY <1>2 DEF TranscriptRules
<1>3. CASE i \in 1 .. n
  <2>1. stream'[i] = stream[i] /\ stream'[1] = stream[1]  BY <1>2, <1>3
  <2>2. stream[i].type \notin TerminalType
    BY <1>2, <1>3 DEF Accept, Accepts, Terminal, Has
  <2> QED  BY <1>2, <1>3, <2>1, <2>2 DEF SInv, TranscriptRules
<1>4. CASE i = n + 1
  <2>1. e.sequence = i  BY <1>4 DEF Accept, Accepts
  <2>2. CASE n = 0
    <3>1. stream = <<>>  BY <1>1, <2>2, EmptySeq
    <3>2. e.type \in {"accepted", "failed"}  BY <3>1 DEF Accept, Accepts
    <3> QED  BY <1>2, <1>4, <2>1, <2>2, <3>2
  <2>3. CASE n # 0
    <3>1. stream # <<>>  BY <1>1, <2>3, EmptySeq
    <3>2. stream[1].type = "accepted" /\ 1 \in DOMAIN stream
      BY <3>1, BegunIsAccepted DEF SInv, Accept, Accepts
    <3>3. Accepted(stream)  BY <3>2 DEF Accepted, Has
    <3>4. e.type # "accepted" /\ e.echo = stream[1].echo
      BY <3>1, <3>3 DEF Accept, Accepts
    <3> QED  BY <1>2, <1>4, <2>1, <2>3, <3>2, <3>4
  <2> QED  BY <2>2, <2>3
<1> QED  BY <1>2, <1>3, <1>4

LEMMA AcceptKeepsProgress ==
  ASSUME SInv, NEW e \in EventRecord, Accept(e)
  PROVE  ProgressNeverRegresses' /\ HasLast(stream')
<1> DEFINE n == Len(stream)
           at == ProgressAt(stream)
<1>1. stream \in Seq(EventRecord) /\ stream' = Append(stream, e)
  BY DEF SInv, TypeOK, Accept
<1>2. /\ n \in Nat /\ DOMAIN stream = 1 .. n /\ DOMAIN stream' = 1 .. n + 1
      /\ \A i \in DOMAIN stream : stream'[i] = stream[i]
      /\ stream'[n + 1] = e
      /\ stream' \in Seq(EventRecord)
  BY <1>1, Appended
<1>3. \A i \in 1 .. n + 1 : stream'[i].completed \in Nat
  <2>1. \A x \in EventRecord : x.completed \in Nat  BY DEF EventRecord
  <2>2. Len(stream') = n + 1  BY <1>1, Appended
  <2> QED  BY <1>2, <2>1, <2>2
<1>4. ASSUME e.type = "progress", NEW i \in at,
             \A k \in at \cap i .. n : stream[k].stage = stream[i].stage,
             e.stage = stream[i].stage
      PROVE  stream[i].completed <= e.completed
  <2>1. PICK last \in at : \A j \in at : j <= last
    BY <1>4 DEF SInv, HasLast
  <2>2. stream[last] \in LastProgress(stream)  BY <2>1 DEF LastProgress
  <2>3. i \in 1 .. n /\ last \in 1 .. n /\ i <= last
    BY <1>2, <2>1 DEF ProgressAt
  <2>4. last \in i .. n  BY <1>2, <2>3
  <2>5. stream[last].stage = e.stage  BY <1>4, <2>1, <2>4
  <2>6. stream[last].completed <= e.completed
    BY <1>4, <2>2, <2>5 DEF Accept, Accepts
  <2>7. stream[i].completed <= stream[last].completed
    <3>1. CASE i = last  BY <1>2, <1>3, <2>3, <3>1
    <3>2. CASE i < last
      <4>1. \A k \in at \cap i .. last : k \in at \cap i .. n  BY <1>2, <2>3
      <4> QED  BY <1>4, <2>1, <3>2, <4>1 DEF SInv, ProgressNeverRegresses
    <3> QED  BY <2>3, <3>1, <3>2
  <2>8. /\ stream[i].completed \in Nat /\ stream[last].completed \in Nat
        /\ e.completed \in Nat
    BY <1>2, <1>3, <2>3
  <2> QED  BY <2>6, <2>7, <2>8
<1>5. ProgressNeverRegresses'
  <2> SUFFICES ASSUME NEW i \in ProgressAt(stream'), NEW j \in ProgressAt(stream'),
                      i < j,
                      \A k \in ProgressAt(stream') \cap i .. j :
                        stream'[k].stage = stream'[i].stage
               PROVE  stream'[i].completed <= stream'[j].completed
    BY DEF ProgressNeverRegresses
  <2>1. i \in 1 .. n /\ j \in 1 .. n + 1  BY <1>2 DEF ProgressAt
  <2>2. i \in at /\ stream'[i] = stream[i]  BY <1>2, <2>1 DEF ProgressAt
  <2>3. \A k \in at : k \in ProgressAt(stream') /\ stream'[k] = stream[k] /\ k \in 1 .. n
    BY <1>2 DEF ProgressAt
  <2>4. CASE j \in 1 .. n
    <3>1. j \in at /\ stream'[j] = stream[j]  BY <1>2, <2>4 DEF ProgressAt
    <3>2. \A k \in at \cap i .. j : stream[k].stage = stream[i].stage
      BY <2>2, <2>3
    <3> QED  BY <2>2, <3>1, <3>2 DEF SInv, ProgressNeverRegresses
  <2>5. CASE j = n + 1
    <3>1. e.type = "progress" /\ stream'[j] = e  BY <1>2, <2>5 DEF ProgressAt
    <3>2. \A k \in at \cap i .. n : stream[k].stage = stream[i].stage
      BY <1>2, <2>2, <2>3, <2>5
    <3>3. j \in i .. j  BY <1>2, <2>1
    <3>4. e.stage = stream[i].stage  BY <2>2, <3>1, <3>3
    <3> QED  BY <1>4, <2>2, <3>1, <3>2, <3>4
  <2> QED  BY <1>2, <2>1, <2>4, <2>5
<1>6. HasLast(stream')
  <2>1. \A i \in ProgressAt(stream') : i <= n + 1  BY <1>2 DEF ProgressAt
  <2>2. CASE e.type = "progress"
    <3>1. n + 1 \in ProgressAt(stream')  BY <1>2, <2>2 DEF ProgressAt
    <3> QED  BY <2>1, <3>1 DEF HasLast
  <2>3. CASE e.type # "progress"
    <3>1. ProgressAt(stream') = at  BY <1>2, <2>3 DEF ProgressAt
    <3> QED  BY <3>1 DEF SInv, HasLast
  <2> QED  BY <2>2, <2>3
<1> QED  BY <1>5, <1>6

LEMMA Inductive == Spec => []SInv
<1>1. Init => SInv
  BY DEF Init, SInv, TypeOK, TranscriptRules, ProgressNeverRegresses, HasLast, ProgressAt
<1>2. SInv /\ [Next]_stream => SInv'
  <2> SUFFICES ASSUME SInv, [Next]_stream PROVE SInv'  OBVIOUS
  <2>1. CASE UNCHANGED stream
    BY <2>1 DEF SInv, TypeOK, TranscriptRules, ProgressNeverRegresses
  <2>2. CASE Next
    <3>1. Len(stream) + 1 \in Nat  BY LenProperties DEF SInv, TypeOK
    <3>2. PICK e \in EventRecord : Accept(e)
      BY <2>2, <3>1, EventsHaveTypes DEF Next
    <3>3. TypeOK'  BY <3>2, AppendProperties DEF Accept, SInv, TypeOK
    <3>4. HasLast(stream)'  BY <3>2, AcceptKeepsProgress
    <3> QED  BY <3>2, <3>3, <3>4, AcceptKeepsRules, AcceptKeepsProgress DEF SInv
  <2> QED  BY <2>1, <2>2
<1> QED  BY <1>1, <1>2, PTL DEF Spec

-----------------------------------------------------------------------------
\* TranscriptRules: the shape of every accepted transcript.
THEOREM TranscriptsFollowRules == Spec => []TranscriptRules
<1>1. SInv => TranscriptRules  BY DEF SInv
<1> QED  BY <1>1, Inductive, PTL

\* ProgressNeverRegresses: while the stage goes on, whatever other events come
\* between.
THEOREM ProgressIsMonotone == Spec => []ProgressNeverRegresses
<1>1. SInv => ProgressNeverRegresses  BY DEF SInv
<1> QED  BY <1>1, Inductive, PTL

\* A transcript is refused at an event that is not numbered by its place.
LEMMA NumberedOrRefused ==
  ASSUME NEW s \in Seq(EventRecord), NEW k \in DOMAIN s, s[k].sequence # k
  PROVE  ~Validates(s)
<1>1. k \in 1 .. Len(s) /\ k \in Nat /\ Len(s) \in Nat  BY LenProperties
<1>2. Len(SubSeq(s, 1, k - 1)) = k - 1  BY <1>1, SubSeqProperties
<1>3. Len(SubSeq(s, 1, k - 1)) + 1 = k  BY <1>1, <1>2
<1> QED  BY <1>3 DEF Validates, Accepts

LEMMA FirstOfSecond ==
  ASSUME NEW first \in Seq(EventRecord), NEW second \in Seq(EventRecord),
         Len(second) > 0
  PROVE  /\ Len(first) + 1 \in 1 .. Len(first \o second)
         /\ (first \o second)[Len(first) + 1] = second[1]
<1> DEFINE a == Len(first)
           b == Len(second)
           both == first \o second
<1>1. a \in Nat /\ b \in Nat /\ b > 0  BY LenProperties
<1>2. /\ Len(both) = a + b
      /\ \A j \in 1 .. a + b : both[j] = IF j <= a THEN first[j] ELSE second[j - a]
  BY ConcatProperties
<1> HIDE DEF a, b, both
<1>3. a + 1 \in 1 .. (a + b)  BY <1>1
<1>4. ~(a + 1 <= a)  BY <1>1
<1>5. (a + 1) - a = 1  BY <1>1
<1>6. a + 1 \in 1 .. Len(both) /\ both[a + 1] = second[1]  BY <1>2, <1>3, <1>4, <1>5
<1> QED  BY <1>6 DEF a, both

\* LossIsDetected: no transcript with one event missing or repeated passes for
\* a complete one.
THEOREM LossesAreDetected == Spec => []LossIsDetected
<1>1. SInv => LossIsDetected
  <2> SUFFICES ASSUME SInv, Terminal(stream), NEW i \in DOMAIN stream
               PROVE  LET lossy    == SubSeq(stream, 1, i - 1)
                                        \o SubSeq(stream, i + 1, Len(stream))
                          repeated == SubSeq(stream, 1, i)
                                        \o SubSeq(stream, i, Len(stream))
                      IN  ~(Validates(lossy) /\ Terminal(lossy)) /\ ~Validates(repeated)
    BY DEF LossIsDetected
  <2> DEFINE n        == Len(stream)
             before   == SubSeq(stream, 1, i - 1)
             upto     == SubSeq(stream, 1, i)
             from     == SubSeq(stream, i, n)
             after    == SubSeq(stream, i + 1, n)
             lossy    == before \o after
             repeated == upto \o from
  <2>1. stream \in Seq(EventRecord) /\ n \in Nat /\ i \in 1 .. n /\ i \in Nat
    BY LenProperties DEF SInv, TypeOK
  <2>2. \A j \in 1 .. n : stream[j].sequence = j
                          /\ (stream[j].type \in TerminalType => j = n)
    BY <2>1 DEF SInv, TranscriptRules
  <2>3. /\ before \in Seq(EventRecord) /\ Len(before) = i - 1
        /\ \A j \in 1 .. i - 1 : before[j] = stream[j]
    BY <2>1, SubSeqProperties
  <2>4. /\ upto \in Seq(EventRecord) /\ Len(upto) = i
    BY <2>1, SubSeqProperties
  <2>5. /\ from \in Seq(EventRecord) /\ Len(from) = n - i + 1 /\ from[1] = stream[i]
    BY <2>1, SubSeqProperties
  <2>6. /\ after \in Seq(EventRecord)
        /\ i < n => Len(after) = n - i /\ after[1] = stream[i + 1]
        /\ i = n => after = <<>>
    <3>1. after \in Seq(EventRecord)  BY <2>1
    <3>2. CASE i < n  BY <2>1, <3>1, <3>2, SubSeqProperties
    <3>3. CASE i = n  BY <2>1, <3>1, <3>3, SubSeqProperties, EmptySeq
    <3> QED  BY <2>1, <3>1, <3>2, <3>3
  <2> HIDE DEF n, before, upto, from, after
  <2>7. lossy \in Seq(EventRecord) /\ repeated \in Seq(EventRecord)
    BY <2>3, <2>4, <2>5, <2>6, ConcatProperties
  <2>8. ~Validates(repeated)
    <3>1. /\ i + 1 \in 1 .. Len(repeated) /\ repeated[i + 1] = from[1]
      BY <2>1, <2>4, <2>5, FirstOfSecond
    <3>2. repeated[i + 1].sequence # i + 1  BY <2>1, <2>2, <2>5, <3>1
    <3>3. i + 1 \in DOMAIN repeated  BY <2>7, <3>1, LenProperties
    <3> HIDE DEF repeated
    <3> QED  BY <2>7, <3>2, <3>3, NumberedOrRefused
  <2>9. ~(Validates(lossy) /\ Terminal(lossy))
    <3>1. CASE i < n
      <4>1. i \in 1 .. Len(lossy) /\ lossy[i] = after[1]
        BY <2>1, <2>3, <2>6, <3>1, ConcatProperties
      <4>2. lossy[i].sequence # i  BY <2>1, <2>2, <2>6, <3>1, <4>1
      <4>3. i \in DOMAIN lossy  BY <2>7, <4>1, LenProperties
      <4> HIDE DEF lossy
      <4> QED  BY <2>7, <4>2, <4>3, NumberedOrRefused
    <3>2. CASE i = n
      <4>1. lossy = before  BY <2>3, <2>6, <3>2, ConcatEmptySeq
      <4>2. DOMAIN before = 1 .. i - 1  BY <2>3, LenProperties
      <4>3. \A j \in 1 .. i - 1 : before[j].type \notin TerminalType
        BY <2>1, <2>2, <2>3, <3>2
      <4> QED  BY <4>1, <4>2, <4>3 DEF Terminal, Has
    <3> QED  BY <2>1, <3>1, <3>2
  <2> QED  BY <2>8, <2>9 DEF n, before, upto, from, after
<1> QED  BY <1>1, Inductive, PTL

=============================================================================
