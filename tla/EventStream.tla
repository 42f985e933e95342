---------------------------- MODULE EventStream -----------------------------
(***************************************************************************)
(* What one engine process promises the Host on stdout: a stream that      *)
(* EventStreamValidator accepts event by event.  The fields the validator  *)
(* keeps (last_sequence, accepted, terminal, last_progress, identity) are  *)
(* functions of the events accepted so far, so the state is the stream     *)
(* itself.  RunSession is shown to implement Spec.                         *)
(*                                                                         *)
(* crates/scene-core-protocol/src/event.rs                                 *)
(***************************************************************************)
EXTENDS Protocol, Sequences

CONSTANTS
  Echo,          \* the identities a request may ask to have echoed
  ValidEcho,     \* those whose executionContext passes validate()
  Stage,         \* the names a progress event may give its stage
  Total          \* the largest progress total an operation announces

ASSUME EchoAssumption == ValidEcho \subseteq Echo
ASSUME StageAssumption == None \notin Stage
ASSUME TotalAssumption == Total \in Nat

VARIABLE stream

-----------------------------------------------------------------------------
(* Events.  Only a progress event has a stage and values: on every other   *)
(* type the stage is None and `completed` and `total` are zero.            *)

EventRecord ==
  [type: EventType, sequence: Nat, code: ErrorCode \union {None},
   stage: Stage \union {None}, completed: 0 .. Total, total: 0 .. Total,
   echo: Echo]

Event(type, n, code, stage, c, t, id) ==
  [type |-> type, sequence |-> n, code |-> code,
   stage |-> stage, completed |-> c, total |-> t, echo |-> id]

PlainEvent(type, n, id)           == Event(type, n, None, None, 0, 0, id)
ProgressEvent(n, stage, c, t, id) == Event("progress", n, None, stage, c, t, id)
FailureEvent(type, n, code, id)   == Event(type, n, code, None, 0, 0, id)

\* The per-event rules of EventEnvelope::validate.
WellFormed(e) ==
  /\ e.echo \in ValidEcho
  /\ e.sequence >= 1
  /\ e.type = "accepted" => e.sequence = 1
  /\ e.type = "progress" => e.stage \in Stage /\ e.completed <= e.total
  /\ e.type # "progress" => e.stage = None
  /\ e.type \in {"failed", "cancelled", "timed_out"} =>
       /\ e.code # None
       /\ e.type = TerminalKind(e.code)

\* Process exit code a terminal event requires.
RequiredExit(e) == IF e.type = "completed" THEN 0 ELSE ExitCode(e.code)

-----------------------------------------------------------------------------
(* The validator's fields, read off the events it has accepted.            *)

Has(s, types) == \E i \in DOMAIN s : s[i].type \in types
Accepted(s)   == Has(s, {"accepted"})
Terminal(s)   == Has(s, TerminalType)

ProgressAt(s) == {i \in DOMAIN s : s[i].type = "progress"}

\* last_progress: the latest progress event, with its stage, if there is one.
LastProgress(s) ==
  {s[i] : i \in {l \in ProgressAt(s) : \A j \in ProgressAt(s) : j <= l}}

\* Faulty variants: a gap in the numbering is tolerated; the terminal event
\* does not close the stream; the event after a progress event forgets it.
AcceptsGaps(s, e) ==
  /\ WellFormed(e)
  /\ ~Terminal(s)
  /\ s # <<>> => e.echo = s[1].echo /\ e.sequence > s[Len(s)].sequence
  /\ s = <<>> => e.type \in {"accepted", "failed"}
  /\ e.type = "accepted" => ~Accepted(s)

AcceptsAfterTerminal(s, e) ==
  /\ WellFormed(e)
  /\ e.sequence = Len(s) + 1
  /\ s = <<>> => e.type \in {"accepted", "failed"}

AcceptsProgressAfterRunning(s, e) ==
  /\ WellFormed(e)
  /\ ~Terminal(s)
  /\ s # <<>> => e.echo = s[1].echo
  /\ e.sequence = Len(s) + 1
  /\ s = <<>> => e.type \in {"accepted", "failed"}
  /\ e.type = "accepted" => ~Accepted(s)
  /\ e.type \notin {"accepted", "failed"} => Accepted(s)
  /\ e.type = "progress" /\ s[Len(s)].stage = e.stage =>
       s[Len(s)].completed <= e.completed

\* EventStreamValidator::accept: would the validator in the state that s
\* left it in take e as the next event?
Accepts(s, e) ==
  /\ WellFormed(e)
  /\ ~Terminal(s)
  /\ s # <<>> => e.echo = s[1].echo
  /\ e.sequence = Len(s) + 1
  /\ s = <<>> => e.type \in {"accepted", "failed"}
  /\ e.type = "accepted" => ~Accepted(s)
  /\ e.type \notin {"accepted", "failed"} => Accepted(s)
  /\ e.type = "progress" =>
       \A last \in LastProgress(s) :
         last.stage = e.stage => last.completed <= e.completed

\* Every event that could come at position n; a failure has the type that its
\* code requires.
EventsAt(n) ==
  UNION {
    {PlainEvent(type, n, id) : type \in {"accepted", "running", "completed"},
                               id \in Echo},
    {ProgressEvent(n, stage, c, t, id) :
       stage \in Stage, c \in 0 .. Total, t \in 0 .. Total, id \in Echo},
    {FailureEvent(TerminalKind(code), n, code, id) : code \in ErrorCode,
                                                     id \in Echo}}

Init == stream = <<>>

Accept(e) ==
  /\ Accepts(stream, e)
  /\ stream' = Append(stream, e)

Next == \E e \in EventsAt(Len(stream) + 1) : Accept(e)

Spec == Init /\ [][Next]_stream

-----------------------------------------------------------------------------
TypeOK == stream \in Seq(EventRecord)

\* Contract section 4: `accepted` is sequence 1 and appears at most once, the
\* numbering has no gap, repetition or regression, and nothing follows the
\* one terminal event.  This is what lets a Host treat the last line it read
\* as the outcome of the run.
TranscriptRules ==
  \A i \in DOMAIN stream :
    /\ stream[i].sequence = i
    /\ stream[i].type = "accepted" <=> i = 1 /\ stream[1].type # "failed"
    /\ stream[i].type \in TerminalType => i = Len(stream)
    /\ stream[i].echo = stream[1].echo

\* Progress does not fall back while a stage goes on, not only between
\* neighbours: a `running` event in between must not reset what was reported.
\* Only a progress event of another stage does: the validator remembers one
\* stage, so that one which is taken up again may start anywhere.
ProgressNeverRegresses ==
  \A i, j \in ProgressAt(stream) :
    /\ i < j
    /\ \A k \in ProgressAt(stream) \cap i .. j : stream[k].stage = stream[i].stage
    => stream[i].completed <= stream[j].completed

\* The validator in front of a whole transcript.
Validates(s) ==
  \A k \in DOMAIN s : Accepts(SubSeq(s, 1, k - 1), s[k])

\* A Host that runs the validator over what it received and asks for a
\* terminal event notices the loss, and the repetition, of any one event.
LossIsDetected ==
  Terminal(stream) =>
    \A i \in DOMAIN stream :
      LET lossy    == SubSeq(stream, 1, i - 1)
                        \o SubSeq(stream, i + 1, Len(stream))
          repeated == SubSeq(stream, 1, i)
                        \o SubSeq(stream, i, Len(stream))
      IN  /\ ~(Validates(lossy) /\ Terminal(lossy))
          /\ ~Validates(repeated)

=============================================================================
