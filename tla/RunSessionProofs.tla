-------------------------- MODULE RunSessionProofs --------------------------
(***************************************************************************)
(* Machine-checked proofs about RunSession, for every set of requests,     *)
(* environments and control lines, every input size and every combination  *)
(* of the modelled faults.                                                 *)
(***************************************************************************)
EXTENDS RunSession, TLAPS

-----------------------------------------------------------------------------
(* Events and emitting them.                                               *)

\* The constructors build event records with the fields they are given.
LEMMA EventFields ==
  ASSUME NEW type \in EventType, NEW n \in Nat,
         NEW code \in ErrorCode \union {None},
         NEW stage \in {"probe", "preview", "audio", None}, NEW t \in 0 .. 2
  PROVE  LET e == ES!Event(type, n, code, stage, 0, t, EchoOf(request)) IN
         /\ e \in ES!EventRecord
         /\ e.type = type /\ e.sequence = n /\ e.code = code
  <1>1. 0 \in 0 .. 2 /\ EchoOf(request) \in {"valid", "attempt_zero"}
    BY DEF EchoOf
  <1>2. type \in ES!EventType /\ code \in ES!ErrorCode \union {ES!None}
    BY DEF EventType, ES!EventType, ErrorCode, ES!ErrorCode, None, ES!None
  <1>3. stage \in {"probe", "preview", "audio"} \union {ES!None}
    BY DEF None, ES!None
  <1>4. QED
    BY <1>1, <1>2, <1>3 DEF ES!Event, ES!EventRecord

\* ... in particular those of the three kinds of failure.
LEMMA FailureFields ==
  ASSUME NEW type \in {"failed", "cancelled", "timed_out"}, NEW n \in 1 .. 3,
         NEW code \in ErrorCode
  PROVE  LET e == ES!FailureEvent(type, n, code, EchoOf(request)) IN
         /\ e \in ES!EventRecord
         /\ e.type = type /\ e.sequence = n /\ e.code = code
  <1> DEFINE e == ES!Event(type, n, code, None, 0, 0, EchoOf(request))
  <1>1. type \in EventType
    BY DEF EventType
  <1>2. e \in ES!EventRecord
        /\ e.type = type /\ e.sequence = n /\ e.code = code
    <2>1. n \in Nat /\ code \in ErrorCode \union {None}
          /\ None \in {"probe", "preview", "audio", None} /\ 0 \in 0 .. 2
      OBVIOUS
    <2> HIDE DEF e
    <2>2. QED
      BY <1>1, <2>1, EventFields DEF e
  <1>3. ES!FailureEvent(type, n, code, EchoOf(request)) = e
    BY DEF ES!FailureEvent, None, ES!None
  <1> HIDE DEF e
  <1>4. QED
    BY <1>2, <1>3

\* Every operation announces one of the three stages.
LEMMA StageType == request.operation \in Operation =>
                     StageOf(request.operation) \in {"probe", "preview", "audio"}
  BY DEF Operation, StageOf

\* A stream has the events it had and the one appended.
LEMMA AppendHas ==
  ASSUME NEW s \in Seq(ES!EventRecord), NEW e \in ES!EventRecord, NEW types
  PROVE  ES!Has(Append(s, e), types) <=> ES!Has(s, types) \/ e.type \in types
  <1>1. DOMAIN Append(s, e) = 1 .. Len(s) + 1 /\ DOMAIN s = 1 .. Len(s)
        /\ Len(s) \in Nat
    OBVIOUS
  <1>2. /\ Append(s, e)[Len(s) + 1] = e
        /\ \A i \in 1 .. Len(s) : Append(s, e)[i] = s[i]
    OBVIOUS
  <1>3. QED
    BY <1>1, <1>2 DEF ES!Has

\* What an emitted event does to the output.
LEMMA EmitFacts ==
  ASSUME stream \in Seq(ES!EventRecord), lost \subseteq 1 .. 3,
         NEW e \in ES!EventRecord, e.sequence \in 1 .. 3, Emit(e)
  PROVE  /\ stream' \in Seq(ES!EventRecord)
         /\ stream' # <<>>
         /\ Last' = e
         /\ lost' \subseteq 1 .. 3
         /\ \A types : Ended(types)' <=> Ended(types) \/ e.type \in types
  <1>1. stream' = Append(stream, e)
    BY DEF Emit
  <1>2. stream' \in Seq(ES!EventRecord) /\ Len(stream') = Len(stream) + 1
        /\ Len(stream) \in Nat /\ stream'[Len(stream) + 1] = e
    BY <1>1
  <1>3. stream' # <<>> /\ Last' = e
    BY <1>2 DEF Last
  <1>4. lost' \subseteq 1 .. 3
    BY DEF Emit
  <1>5. \A types : Ended(types)' <=> Ended(types) \/ e.type \in types
    BY <1>1, AppendHas DEF Ended
  <1>6. QED
    BY <1>2, <1>3, <1>4, <1>5


-----------------------------------------------------------------------------
(* The inductive invariant.  Each safety invariant of RunSession needs to  *)
(* know something about the phases main has gone through.                  *)

\* Nothing happens before the first line is understood.
FreshStart == pc = "start" => stream = <<>> /\ lost = {} /\ reader = "off"

\* The terminal event and the process exit are one.
OpenStream == pc # "exited" => ~Ended(TerminalType)

\* A child exists only inside process::run, which only the real backend
\* enters, and only with a tool left to run.  Afterwards there is an answer.
ToolPhase ==
  /\ child # "none" => pc \in {"poll", "wait", "classify"}
  /\ pc \in {"poll", "wait", "classify"} => backend = "probe" /\ calls # <<>>
  /\ pc \in {"post_violation", "post_timeout", "post_outcome", "complete"} =>
       outcome # None

\* Whoever has seen the cancellation flag can name what raised it.
FlagCauses ==
  /\ timer \in {"fired", "done"} => timedOut
  /\ cancelled => cancelSeen \/ timedOut \/ violation \/ reader = "recording"
  /\ sawCancel => cancelled
  /\ outcome = "CANCELLED" => cancelled

\* A backend that can run tools is only reached through a complete hash.
VerifiedPhase ==
  /\ pc = "hash" => request.defect = "none"
  /\ pc = "unvalidated" => ~env.fingerprint
  /\ env.fingerprint /\ backend = "probe"
       /\ pc \notin {"start", "validate", "hash", "exited"} =>
       request.defect = "none" /\ env.input = "match" /\ chunks = 0

IInv ==
  /\ TypeOK /\ HostCanTrustExit /\ TimeoutNeedsDeadline
  /\ InterruptionHasACause
  /\ FreshStart /\ OpenStream /\ ToolPhase /\ FlagCauses
  /\ VerifiedPhase

LEMMA RequestType == IInv => request.operation \in Operation
  BY RequestsAssumption DEF IInv, TypeOK

\* What main leaves alone when it ends the run or moves to another label.
Quiet == UNCHANGED <<given, threads, backend, chunks, outcome, toolVars>>

-----------------------------------------------------------------------------
\* The initial states satisfy the inductive invariant.
LEMMA InitIInv == Init => IInv
  <1> SUFFICES ASSUME Init PROVE IInv
    OBVIOUS
  <1>1. ~Ended({"timed_out"}) /\ ~Ended({"cancelled"}) /\ ~Ended(TerminalType)
    BY DEF Init, Ended, ES!Has
  <1>2. stream \in Seq(ES!EventRecord)
    BY DEF Init
  <1>3. TypeOK
    <2>1. chunks \in 0 .. HashChunks
      BY HashChunksAssumption DEF Init
    <2>2. /\ calls \in Suffixes /\ lost \subseteq 1 .. 3
          /\ exit \in {0, 1, 2, 3, 124, 130}
      BY DEF Init, Suffixes
    <2>3. QED
      BY <1>2, <2>1, <2>2 DEF Init, TypeOK, Pc
  <1>4. QED
    BY <1>1, <1>3 DEF Init, IInv, HostCanTrustExit, TimeoutNeedsDeadline,
       InterruptionHasACause, FreshStart, OpenStream, ToolPhase,
       FlagCauses, VerifiedPhase, None

\* An emitted failure ends the run in a state that satisfies the invariant,
\* provided its type is one that the flags account for.
LEMMA FailureStep ==
  ASSUME IInv, Quiet, pc # "exited", child = "none",
         NEW type \in {"failed", "cancelled", "timed_out"},
         NEW n \in 1 .. 3, NEW code \in ErrorCode,
         TerminalFailure(type, n, code),
         type = "timed_out" => timedOut,
         type = "cancelled" => cancelled
  PROVE  IInv'
  <1> DEFINE e == ES!FailureEvent(type, n, code, EchoOf(request))
  <1>1. /\ e \in ES!EventRecord
        /\ e.type = type /\ e.sequence = n /\ e.code = code
    BY FailureFields
  <1>2. Emit(e) /\ pc' = "exited"
        /\ exit' = IF lost' # {} THEN 1 ELSE ExitCode(code)
    <2>1. ExitCode("ENGINE_INTERNAL") = 1
      BY DEF ExitCode, MediaCode
    <2>2. QED
      BY <2>1 DEF TerminalFailure, Finish
  <1>3. /\ stream' \in Seq(ES!EventRecord)
        /\ stream' # <<>>
        /\ Last' = e
        /\ lost' \subseteq 1 .. 3
        /\ \A types : Ended(types)' <=> Ended(types) \/ type \in types
    <2>1. stream \in Seq(ES!EventRecord) /\ lost \subseteq 1 .. 3
      BY DEF IInv, TypeOK
    <2>2. QED
      BY <1>1, <1>2, <2>1, EmitFacts
  <1>4. ES!RequiredExit(Last)' = ExitCode(code)
    BY <1>1, <1>3 DEF ES!RequiredExit, ES!ExitCode, ExitCode, ES!MediaCode,
       MediaCode
  <1>5. TypeOK'
    <2>1. exit' \in {0, 1, 2, 3, 124, 130}
      BY <1>2 DEF ExitCode
    <2>2. QED
      BY <1>2, <1>3, <2>1 DEF IInv, TypeOK, Quiet, given, threads, control,
         readerVars, toolVars, Pc
  <1>6. HostCanTrustExit'
    BY <1>2, <1>3, <1>4 DEF HostCanTrustExit
  <1>7. TimeoutNeedsDeadline' /\ InterruptionHasACause'
    BY <1>3 DEF IInv, TimeoutNeedsDeadline, InterruptionHasACause, FlagCauses,
       Quiet, threads, control, readerVars
  <1>8. /\ FreshStart' /\ OpenStream' /\ ToolPhase' /\ FlagCauses'
        /\ VerifiedPhase'
    BY <1>2 DEF IInv, FreshStart, OpenStream, ToolPhase, FlagCauses,
       VerifiedPhase, Quiet, given, threads, control, readerVars, toolVars
  <1>9. QED
    BY <1>5, <1>6, <1>7, <1>8 DEF IInv

\* Moving to another label without touching anything else only has to keep
\* what the invariant says of the labels.
LEMMA LabelStep ==
  ASSUME IInv, Quiet, pc # "exited", NEW label \in Pc \ {"start", "exited"},
         GoTo(label), ToolPhase', VerifiedPhase'
  PROVE  IInv'
  <1>1. pc' = label /\ stream' = stream /\ lost' = lost /\ exit' = exit
    BY DEF GoTo, output
  <1>2. \A types : Ended(types)' <=> Ended(types)
    BY <1>1 DEF Ended
  <1>3. TypeOK'
    BY <1>1 DEF IInv, TypeOK, Quiet, given, threads, control, readerVars,
       toolVars
  <1>4. QED
    BY <1>1, <1>2, <1>3 DEF IInv, HostCanTrustExit, TimeoutNeedsDeadline,
       InterruptionHasACause, FreshStart, OpenStream, FlagCauses,
       Quiet, given, threads, control, readerVars, toolVars


-----------------------------------------------------------------------------
\* Every step of the main thread preserves the inductive invariant.

LEMMA StartStep == IInv /\ Start => IInv'
  <1> SUFFICES ASSUME IInv, Start PROVE IInv'
    OBVIOUS
  <1>1. pc = "start" /\ stream = <<>> /\ lost = {} /\ reader = "off"
        /\ child = "none"
    BY DEF Start, IInv, FreshStart, ToolPhase
  <1>2. CASE request.defect \in {"no_line", "unparsable"}
    <2>1. pc' = "exited" /\ exit' = 2 /\ Quiet /\ stream' = <<>> /\ lost' = {}
      BY <1>1, <1>2 DEF Start, Refuse, Quiet, given, threads, control,
         readerVars
    <2>2. ~Ended({"timed_out"})' /\ ~Ended({"cancelled"})'
      BY <2>1 DEF Ended, ES!Has
    <2>3. TypeOK'
      BY <1>1, <2>1 DEF IInv, TypeOK, Pc, Quiet, given, threads, control,
         readerVars, toolVars
    <2>4. outcome' = outcome /\ ToolPhase' /\ FlagCauses'
      BY <1>1, <2>1 DEF IInv, ToolPhase, FlagCauses, Quiet, threads, control,
         readerVars, toolVars
    <2>5. TimeoutNeedsDeadline' /\ InterruptionHasACause'
      BY <2>1, <2>2, <2>4 DEF IInv, TimeoutNeedsDeadline, InterruptionHasACause,
         Quiet, threads, control
    <2>6. QED
      BY <2>1, <2>3, <2>4, <2>5 DEF IInv, HostCanTrustExit, FreshStart,
         OpenStream, VerifiedPhase
  <1>3. CASE request.defect \in {"unknown_field", "foreign_version"}
    <2>1. Quiet /\ \E code \in ErrorCode : Refuse(code)
      BY <1>3 DEF Start, Quiet, given, threads, control, readerVars, ErrorCode
    <2>2. QED
      BY <1>1, <2>1, FailureStep DEF Refuse
  <1>4. CASE request.defect \notin
               {"no_line", "unparsable", "unknown_field", "foreign_version"}
    <2>1. /\ pc' \in {"validate", "unvalidated"}
          /\ pc' = "unvalidated" => ~env.fingerprint
          /\ reader' = "reading" /\ timer' = "armed"
          /\ backend' \in {"probe", "unavailable"}
          /\ UNCHANGED <<given, control, cancelSeen, chunks, outcome, toolVars,
                         output>>
      BY <1>4 DEF Start, GoTo
    <2>2. \A types : Ended(types)' <=> Ended(types)
      BY <2>1 DEF Ended, output
    <2>3. TypeOK'
      BY <2>1 DEF IInv, TypeOK, Pc, given, control, toolVars, output
    <2>4. QED
      BY <1>1, <2>1, <2>2, <2>3 DEF IInv, HostCanTrustExit,
         TimeoutNeedsDeadline, InterruptionHasACause, FreshStart,
         OpenStream, ToolPhase, FlagCauses, VerifiedPhase, given, control,
         toolVars, output
  <1>5. QED
    BY <1>2, <1>3, <1>4

LEMMA ValidateStep == IInv /\ Validate => IInv'
  <1> SUFFICES ASSUME IInv, Validate PROVE IInv'
    OBVIOUS
  <1>1. pc = "validate" /\ child = "none" /\ Quiet
    BY DEF Validate, IInv, ToolPhase, Quiet
  <1>2. CASE GoTo("hash") /\ request.defect = "none"
    <2>1. ToolPhase' /\ VerifiedPhase'
      BY <1>1, <1>2 DEF GoTo, Quiet, ToolPhase, VerifiedPhase, given, toolVars,
         IInv
    <2>2. QED
      BY <1>1, <1>2, <2>1, LabelStep DEF Pc
  <1>3. CASE \E code \in ErrorCode : Refuse(code)
    BY <1>1, <1>3, FailureStep DEF Refuse
  <1>4. QED
    BY <1>2, <1>3 DEF Validate, ErrorCode

LEMMA SkipValidationStep == IInv /\ SkipValidation => IInv'
  <1> SUFFICES ASSUME IInv, SkipValidation PROVE IInv'
    OBVIOUS
  <1>1. /\ pc = "unvalidated" /\ child = "none" /\ Quiet
        /\ ~env.fingerprint
    BY DEF SkipValidation, IInv, ToolPhase, VerifiedPhase, Quiet
  <1>2. CASE GoTo("accept")
    <2>1. ToolPhase' /\ VerifiedPhase'
      BY <1>1, <1>2 DEF GoTo, Quiet, ToolPhase, VerifiedPhase, given, toolVars,
         IInv
    <2>2. QED
      BY <1>1, <1>2, <2>1, LabelStep DEF Pc
  <1>3. CASE Refuse("TOOL_UNAVAILABLE")
    BY <1>1, <1>3, FailureStep DEF Refuse, ErrorCode
  <1>4. QED
    BY <1>2, <1>3 DEF SkipValidation

LEMMA HashStep == IInv /\ Hash => IInv'
  <1> SUFFICES ASSUME IInv, Hash PROVE IInv'
    OBVIOUS
  <1>1. pc = "hash" /\ child = "none" /\ request.defect = "none"
    BY DEF Hash, IInv, ToolPhase, VerifiedPhase
  <1>2. CASE Quiet /\ \E code \in ErrorCode : Refuse(code)
    BY <1>1, <1>2, FailureStep DEF Refuse
  <1>3. CASE Quiet /\ GoTo("accept") /\ env.input = "match" /\ chunks = 0
    <2>1. ToolPhase' /\ VerifiedPhase'
      BY <1>1, <1>3 DEF GoTo, Quiet, ToolPhase, VerifiedPhase, given, toolVars,
         IInv
    <2>2. QED
      BY <1>1, <1>3, <2>1, LabelStep DEF Pc
  <1>4. CASE /\ chunks > 0 /\ chunks' = chunks - 1 /\ GoTo("hash")
             /\ UNCHANGED <<given, threads, backend, outcome, toolVars>>
    <2>1. chunks' \in 0 .. HashChunks
      BY <1>4, HashChunksAssumption DEF IInv, TypeOK
    <2>2. \A types : Ended(types)' <=> Ended(types)
      BY <1>4 DEF GoTo, output, Ended
    <2>3. QED
      BY <1>1, <1>4, <2>1, <2>2 DEF IInv, TypeOK, Pc, HostCanTrustExit,
         TimeoutNeedsDeadline, InterruptionHasACause, FreshStart,
         OpenStream, ToolPhase, FlagCauses, VerifiedPhase, GoTo, output, given,
         threads, control, readerVars, toolVars
  <1>5. QED
    BY <1>2, <1>3, <1>4 DEF Hash, Quiet, ErrorCode

LEMMA HashInterruptedStep == IInv /\ HashInterrupted => IInv'
  <1> SUFFICES ASSUME IInv, HashInterrupted PROVE IInv'
    OBVIOUS
  <1>1. pc = "hash" /\ child = "none" /\ cancelled
    BY DEF HashInterrupted, IInv, ToolPhase
  <1>2. CASE Quiet /\ Refuse("CANCELLED")
    BY <1>1, <1>2, FailureStep DEF Refuse, ErrorCode
  <1>3. CASE /\ backend' = "unavailable" /\ GoTo("accept")
             /\ UNCHANGED <<given, threads, chunks, outcome, toolVars>>
    <2>1. \A types : Ended(types)' <=> Ended(types)
      BY <1>3 DEF GoTo, output, Ended
    <2>2. QED
      BY <1>1, <1>3, <2>1 DEF IInv, TypeOK, Pc, HostCanTrustExit,
         TimeoutNeedsDeadline, InterruptionHasACause, FreshStart,
         OpenStream, ToolPhase, FlagCauses, VerifiedPhase, GoTo, output, given,
         threads, control, readerVars, toolVars
  <1>4. QED
    BY <1>2, <1>3 DEF HashInterrupted, Quiet


\* A non-terminal event moves main on; only the stream changes with it.
LEMMA EmitStep ==
  ASSUME IInv, NEW e \in ES!EventRecord, e.type \in {"accepted", "progress"},
         e.sequence \in 1 .. 3, Emit(e), exit' = exit,
         pc \in {"accept", "progress"}, child' = child,
         pc' \in {"pre_violation", "call"}, calls' \in Suffixes,
         UNCHANGED <<given, threads, backend, chunks, outcome, sawCancel,
                     capped>>
  PROVE  IInv'
  <1>1. /\ stream' \in Seq(ES!EventRecord)
        /\ lost' \subseteq 1 .. 3
        /\ \A types : Ended(types)' <=> Ended(types) \/ e.type \in types
    <2>1. stream \in Seq(ES!EventRecord) /\ lost \subseteq 1 .. 3
      BY DEF IInv, TypeOK
    <2>2. QED
      BY <2>1, EmitFacts
  <1>2. TypeOK'
    BY <1>1 DEF IInv, TypeOK, Pc, given, threads, control, readerVars
  <1>3. OpenStream' /\ TimeoutNeedsDeadline' /\ InterruptionHasACause'
    BY <1>1 DEF IInv, OpenStream, TerminalType, TimeoutNeedsDeadline,
       InterruptionHasACause, threads, control, readerVars
  <1>4. QED
    BY <1>2, <1>3 DEF IInv, HostCanTrustExit, FreshStart, ToolPhase,
       FlagCauses, VerifiedPhase, given, threads, control, readerVars

LEMMA AcceptStep == IInv /\ Accept => IInv'
  <1> SUFFICES ASSUME IInv, Accept PROVE IInv'
    OBVIOUS
  <1> DEFINE e == ES!PlainEvent("accepted", 1, EchoOf(request))
  <1>1. e \in ES!EventRecord /\ e.type = "accepted" /\ e.sequence = 1
    BY EventFields DEF ES!PlainEvent, EventType, None, ES!None
  <1>2. Emit(e) /\ calls' \in Suffixes
    BY DEF Accept, toolVars, IInv, TypeOK
  <1>3. QED
    BY <1>1, <1>2, EmitStep DEF Accept, toolVars

LEMMA ProgressStep == IInv /\ Progress => IInv'
  <1> SUFFICES ASSUME IInv, Progress PROVE IInv'
    OBVIOUS
  <1> DEFINE total == StageTotal(request.operation)
             stage == StageOf(request.operation)
             e == ES!ProgressEvent(2, stage, 0, total, EchoOf(request))
  <1>1. total \in 0 .. 2 /\ stage \in {"probe", "preview", "audio"}
    BY RequestType, StageType DEF StageTotal
  <1>2. e \in ES!EventRecord /\ e.type = "progress" /\ e.sequence = 2
    BY <1>1, EventFields DEF ES!ProgressEvent, EventType, None, ES!None
  <1>3. Emit(e) /\ calls' \in Suffixes
    BY DEF Progress, Suffixes
  <1>4. QED
    BY <1>2, <1>3, EmitStep DEF Progress

LEMMA PreViolationStep == IInv /\ PreViolation => IInv'
  <1> SUFFICES ASSUME IInv, PreViolation PROVE IInv'
    OBVIOUS
  <1>1. pc = "pre_violation" /\ child = "none" /\ Quiet
    BY DEF PreViolation, IInv, ToolPhase, Quiet
  <1>2. CASE violation
    BY <1>1, <1>2, FailureStep DEF PreViolation, ErrorCode
  <1>3. CASE ~violation
    <2>1. GoTo("pre_timeout")
      BY <1>3 DEF PreViolation
    <2>2. ToolPhase' /\ VerifiedPhase'
      BY <1>1, <2>1 DEF GoTo, Quiet, ToolPhase, VerifiedPhase, given,
         toolVars, IInv
    <2>3. QED
      BY <1>1, <2>1, <2>2, LabelStep DEF Pc
  <1>4. QED
    BY <1>2, <1>3

LEMMA PreTimeoutStep == IInv /\ PreTimeout => IInv'
  <1> SUFFICES ASSUME IInv, PreTimeout PROVE IInv'
    OBVIOUS
  <1>1. pc = "pre_timeout" /\ child = "none" /\ Quiet
    BY DEF PreTimeout, IInv, ToolPhase, Quiet
  <1>2. CASE timedOut
    BY <1>1, <1>2, FailureStep DEF PreTimeout, ErrorCode
  <1>3. CASE ~timedOut
    <2>1. GoTo("pre_cancel")
      BY <1>3 DEF PreTimeout
    <2>2. ToolPhase' /\ VerifiedPhase'
      BY <1>1, <2>1 DEF GoTo, Quiet, ToolPhase, VerifiedPhase, given,
         toolVars, IInv
    <2>3. QED
      BY <1>1, <2>1, <2>2, LabelStep DEF Pc
  <1>4. QED
    BY <1>2, <1>3

LEMMA PreCancelStep == IInv /\ PreCancel => IInv'
  <1> SUFFICES ASSUME IInv, PreCancel PROVE IInv'
    OBVIOUS
  <1>1. pc = "pre_cancel" /\ child = "none" /\ Quiet
    BY DEF PreCancel, IInv, ToolPhase, Quiet
  <1>2. CASE cancelled
    BY <1>1, <1>2, FailureStep DEF PreCancel, ErrorCode
  <1>3. CASE ~cancelled
    <2>1. GoTo("progress")
      BY <1>3 DEF PreCancel
    <2>2. ToolPhase' /\ VerifiedPhase'
      BY <1>1, <2>1 DEF GoTo, Quiet, ToolPhase, VerifiedPhase, given,
         toolVars, IInv
    <2>3. QED
      BY <1>1, <2>1, <2>2, LabelStep DEF Pc
  <1>4. QED
    BY <1>2, <1>3

LEMMA PostViolationStep == IInv /\ PostViolation => IInv'
  <1> SUFFICES ASSUME IInv, PostViolation PROVE IInv'
    OBVIOUS
  <1>1. pc = "post_violation" /\ child = "none" /\ Quiet
    BY DEF PostViolation, IInv, ToolPhase, Quiet
  <1>2. CASE violation
    BY <1>1, <1>2, FailureStep DEF PostViolation, ErrorCode
  <1>3. CASE ~violation
    <2>1. GoTo("post_timeout")
      BY <1>3 DEF PostViolation
    <2>2. ToolPhase' /\ VerifiedPhase'
      BY <1>1, <2>1 DEF GoTo, Quiet, ToolPhase, VerifiedPhase, given,
         toolVars, IInv
    <2>3. QED
      BY <1>1, <2>1, <2>2, LabelStep DEF Pc
  <1>4. QED
    BY <1>2, <1>3

LEMMA PostTimeoutStep == IInv /\ PostTimeout => IInv'
  <1> SUFFICES ASSUME IInv, PostTimeout PROVE IInv'
    OBVIOUS
  <1>1. pc = "post_timeout" /\ child = "none" /\ Quiet
    BY DEF PostTimeout, IInv, ToolPhase, Quiet
  <1>2. CASE timedOut
    BY <1>1, <1>2, FailureStep DEF PostTimeout, ErrorCode
  <1>3. CASE ~timedOut
    <2>1. GoTo("post_outcome")
      BY <1>3 DEF PostTimeout
    <2>2. ToolPhase' /\ VerifiedPhase'
      BY <1>1, <2>1 DEF GoTo, Quiet, ToolPhase, VerifiedPhase, given,
         toolVars, IInv
    <2>3. QED
      BY <1>1, <2>1, <2>2, LabelStep DEF Pc
  <1>4. QED
    BY <1>2, <1>3

LEMMA PostOutcomeStep == IInv /\ PostOutcome => IInv'
  <1> SUFFICES ASSUME IInv, PostOutcome PROVE IInv'
    OBVIOUS
  <1>1. pc = "post_outcome" /\ child = "none" /\ Quiet
    BY DEF PostOutcome, IInv, ToolPhase, Quiet
  <1>2. CASE outcome = "ok" /\ ~cancelled
    <2>1. GoTo("complete")
      BY <1>2 DEF PostOutcome
    <2>2. ToolPhase' /\ VerifiedPhase'
      BY <1>1, <2>1 DEF GoTo, Quiet, ToolPhase, VerifiedPhase, given,
         toolVars, IInv
    <2>3. QED
      BY <1>1, <2>1, <2>2, LabelStep DEF Pc
  <1>3. CASE outcome = "ok" /\ cancelled
    BY <1>1, <1>3, FailureStep DEF PostOutcome, ErrorCode
  <1>4. CASE outcome = "TIMEOUT"
    <2>1. timedOut
      BY <1>4 DEF IInv, TimeoutNeedsDeadline
    <2>2. QED
      BY <1>1, <1>4, <2>1, FailureStep DEF PostOutcome, ErrorCode
  <1>5. CASE outcome = "CANCELLED"
    <2>1. cancelled
      BY <1>5 DEF IInv, FlagCauses
    <2>2. QED
      BY <1>1, <1>5, <2>1, FailureStep DEF PostOutcome, ErrorCode
  <1>6. CASE outcome \notin {"ok", "TIMEOUT", "CANCELLED"}
    <2>1. outcome \in ErrorCode
      BY <1>1, <1>6 DEF IInv, TypeOK, ToolPhase
    <2>2. QED
      BY <1>1, <1>6, <2>1, FailureStep DEF PostOutcome, ErrorCode
  <1>7. QED
    BY <1>2, <1>3, <1>4, <1>5, <1>6

LEMMA CompleteStep == IInv /\ Complete => IInv'
  <1> SUFFICES ASSUME IInv, Complete PROVE IInv'
    OBVIOUS
  <1> DEFINE e == ES!PlainEvent("completed", 3, EchoOf(request))
  <1>1. pc = "complete" /\ child = "none" /\ Quiet
    BY DEF Complete, IInv, ToolPhase, Quiet
  <1>2. e \in ES!EventRecord /\ e.type = "completed" /\ e.sequence = 3
    BY EventFields DEF ES!PlainEvent, EventType, None, ES!None
  <1>3. Emit(e) /\ pc' = "exited" /\ exit' = IF lost' # {} THEN 1 ELSE 0
    <2>1. ExitCode("ENGINE_INTERNAL") = 1
      BY DEF ExitCode, MediaCode
    <2>2. QED
      BY <2>1 DEF Complete, Finish
  <1>4. /\ stream' \in Seq(ES!EventRecord)
        /\ stream' # <<>> /\ Last' = e
        /\ lost' \subseteq 1 .. 3
        /\ \A types : Ended(types)' <=> Ended(types) \/ "completed" \in types
    <2>1. stream \in Seq(ES!EventRecord) /\ lost \subseteq 1 .. 3
      BY DEF IInv, TypeOK
    <2>2. QED
      BY <1>2, <1>3, <2>1, EmitFacts
  <1>5. TypeOK'
    BY <1>1, <1>3, <1>4 DEF IInv, TypeOK, Pc, Quiet, given, threads, control,
       readerVars, toolVars
  <1>6. HostCanTrustExit'
    BY <1>2, <1>3, <1>4 DEF HostCanTrustExit, ES!RequiredExit
  <1>7. TimeoutNeedsDeadline' /\ InterruptionHasACause'
    BY <1>1, <1>4 DEF IInv, TimeoutNeedsDeadline, InterruptionHasACause,
       Quiet, threads, control, readerVars
  <1>8. QED
    BY <1>1, <1>3, <1>5, <1>6, <1>7 DEF IInv, FreshStart, OpenStream,
       ToolPhase, FlagCauses, VerifiedPhase, Quiet, given, threads, control,
       readerVars, toolVars


-----------------------------------------------------------------------------
(* The media backend.                                                      *)

\* The rest of a tool sequence, and what follows ffprobe, is a tool sequence.
LEMMA ProceedFacts ==
  ASSUME calls \in Suffixes, calls # <<>>, request.operation \in Operation,
         Proceed
  PROVE  calls' \in Suffixes
  <1>1. CASE Head(calls) = "ffprobe"
    BY <1>1 DEF Proceed, FollowUps, Suffixes, Operation
  <1>2. CASE Head(calls) # "ffprobe"
    <2>1. calls \in {<<"opening">>, <<"opening", "midpoint">>, <<"midpoint">>,
                     <<"extract">>}
      BY <1>2 DEF Suffixes
    <2>2. /\ \A tool : Tail(<<tool>>) = <<>>
          /\ Tail(<<"opening", "midpoint">>) = <<"midpoint">>
      OBVIOUS
    <2>3. Tail(calls) \in {<<>>, <<"midpoint">>}
      BY <2>1, <2>2
    <2>4. QED
      BY <1>2, <2>3 DEF Proceed, Suffixes
  <1>3. QED
    BY <1>1, <1>2

\* A step inside the backend: the output and the threads are not touched, and
\* an answer blames the deadline or a cancellation only if there was one.
LEMMA BackendStep ==
  ASSUME IInv, UNCHANGED <<given, threads, backend, chunks, output>>,
         pc \in {"call", "poll", "wait", "classify"},
         pc' \in {"call", "poll", "wait", "classify", "post_violation"},
         ToolPhase', calls' \in Suffixes,
         child' \in {"none", "running", "killed", "succeeded", "failed"},
         sawCancel' \in BOOLEAN, capped' \in BOOLEAN,
         sawCancel' => cancelled,
         outcome' \in {None, "ok"} \union ErrorCode,
         outcome' # outcome =>
           /\ outcome' = "TIMEOUT" => timedOut
           /\ outcome' = "CANCELLED" => cancelled
  PROVE  IInv'
  <1>1. \A types : Ended(types)' <=> Ended(types)
    BY DEF Ended, output
  <1>2. TypeOK'
    BY DEF IInv, TypeOK, Pc, given, threads, control, readerVars, output
  <1>3. TimeoutNeedsDeadline' /\ InterruptionHasACause' /\ FlagCauses'
    BY <1>1 DEF IInv, TimeoutNeedsDeadline, InterruptionHasACause, FlagCauses,
       threads, control, readerVars
  <1>4. QED
    BY <1>1, <1>2, <1>3 DEF IInv, HostCanTrustExit, FreshStart, OpenStream,
       VerifiedPhase, given

\* The failures that do not depend on a flag are neither of the two codes that
\* do, and neither is the result.
LEMMA PlainCodes ==
  ASSUME NEW op \in Operation, NEW tool
  PROVE  (SpawnFailure(tool) \union ExitFailure(tool)
            \union ResultFailure(op, tool) \union {Result})
           \subseteq ({"ok"} \union ErrorCode)
                       \ {"TIMEOUT", "CANCELLED", "none"}
  <1>1. SpawnFailure(tool) \subseteq ErrorCode \ {"TIMEOUT", "CANCELLED", "none"}
    BY DEF SpawnFailure, ErrorCode
  <1>2. ExitFailure(tool) \subseteq ErrorCode \ {"TIMEOUT", "CANCELLED", "none"}
    BY DEF ExitFailure, ErrorCode
  <1>3. ProbeResultFailure(op)
          \subseteq ErrorCode \ {"TIMEOUT", "CANCELLED", "none"}
    BY DEF ProbeResultFailure, Operation, ErrorCode
  <1>4. ResultFailure(op, tool)
          \subseteq ErrorCode \ {"TIMEOUT", "CANCELLED", "none"}
    BY <1>3 DEF ResultFailure, ErrorCode
  <1>5. Result \in ({"ok"} \union ErrorCode) \ {"TIMEOUT", "CANCELLED", "none"}
    BY DEF Result, ErrorCode
  <1>6. QED
    BY <1>1, <1>2, <1>4, <1>5

LEMMA CallStep == IInv /\ Call => IInv'
  <1> SUFFICES ASSUME IInv, Call PROVE IInv'
    OBVIOUS
  <1>1. /\ pc = "call" /\ child = "none"
        /\ UNCHANGED <<given, threads, backend, chunks, calls, output>>
        /\ calls' \in Suffixes
    BY DEF Call, Return, GoTo, IInv, ToolPhase, TypeOK
  <1>2. ASSUME NEW code \in ({"ok"} \union ErrorCode)
                              \ {"TIMEOUT", "CANCELLED", "none"},
               Return(code), UNCHANGED <<child, sawCancel, capped>>
        PROVE  IInv'
    <2>1. ToolPhase'
      BY <1>1, <1>2 DEF Return, GoTo, ToolPhase, None
    <2>2. QED
      BY <1>1, <1>2, <2>1, BackendStep DEF Return, GoTo, IInv, TypeOK,
         FlagCauses
  <1>3. CASE backend = "unavailable" /\ Return("TOOL_UNAVAILABLE")
             /\ UNCHANGED <<child, sawCancel, capped>>
    BY <1>2, <1>3 DEF ErrorCode
  <1>4. CASE Return(Result) /\ UNCHANGED <<child, sawCancel, capped>>
    BY <1>2, <1>4, PlainCodes, RequestType
  <1>5. CASE (\E code \in SpawnFailure(Head(calls)) : Return(code))
             /\ UNCHANGED <<child, sawCancel, capped>>
    <2>1. PICK code \in SpawnFailure(Head(calls)) : Return(code)
      BY <1>5
    <2>2. QED
      BY <1>2, <1>5, <2>1, PlainCodes, RequestType
  <1>6. CASE /\ backend = "probe" /\ calls # <<>>
             /\ child' = "running" /\ sawCancel' = FALSE /\ capped' = FALSE
             /\ GoTo("poll") /\ UNCHANGED outcome
    <2>1. ToolPhase'
      BY <1>1, <1>6 DEF GoTo, ToolPhase, None
    <2>2. QED
      BY <1>1, <1>6, <2>1, BackendStep DEF GoTo, IInv, TypeOK
  <1>7. QED
    BY <1>3, <1>4, <1>5, <1>6 DEF Call

LEMMA PollStep == IInv /\ Poll => IInv'
  <1> SUFFICES ASSUME IInv, Poll PROVE IInv'
    OBVIOUS
  <1>1. /\ pc = "poll" /\ pc' = "wait"
        /\ UNCHANGED <<given, threads, backend, chunks, outcome, calls, output>>
    BY DEF Poll, GoTo
  <1>2. /\ sawCancel' \in BOOLEAN /\ capped' \in BOOLEAN
        /\ sawCancel' => cancelled
        /\ child' \in {"none", "running", "killed", "succeeded", "failed"}
    BY DEF Poll, IInv, TypeOK, FlagCauses
  <1>3. ToolPhase'
    BY <1>1 DEF IInv, ToolPhase
  <1>4. QED
    BY <1>1, <1>2, <1>3, BackendStep DEF IInv, TypeOK

LEMMA WaitStep == IInv /\ Wait => IInv'
  <1> SUFFICES ASSUME IInv, Wait PROVE IInv'
    OBVIOUS
  <1>1. /\ pc = "wait"
        /\ UNCHANGED <<given, threads, backend, chunks, calls, sawCancel,
                       capped, output>>
    BY DEF Wait, Return, GoTo
  <1>2. CASE /\ pc' \in {"poll", "classify"}
             /\ UNCHANGED <<child, outcome>>
    <2>1. ToolPhase'
      BY <1>1, <1>2 DEF IInv, ToolPhase
    <2>2. QED
      BY <1>1, <1>2, <2>1, BackendStep DEF IInv, TypeOK, FlagCauses
  <1>3. CASE Return("ENGINE_INTERNAL") /\ child' = "none"
    <2>1. ToolPhase'
      BY <1>1, <1>3 DEF Return, GoTo, ToolPhase, None
    <2>2. QED
      BY <1>1, <1>3, <2>1, BackendStep DEF Return, GoTo, IInv, TypeOK,
         FlagCauses, ErrorCode
  <1>4. QED
    BY <1>2, <1>3 DEF Wait, GoTo

LEMMA ClassifyStep == IInv /\ Classify => IInv'
  <1> SUFFICES ASSUME IInv, Classify PROVE IInv'
    OBVIOUS
  <1>1. /\ pc = "classify" /\ child' = "none"
        /\ UNCHANGED <<given, threads, backend, chunks, sawCancel, capped,
                       output>>
        /\ sawCancel => cancelled
    BY DEF Classify, Report, Proceed, Return, GoTo, IInv, FlagCauses
  <1>2. ASSUME NEW code \in ErrorCode, Report(code),
               code = "TIMEOUT" => timedOut,
               code = "CANCELLED" => cancelled
        PROVE  IInv'
    <2>1. ToolPhase'
      BY <1>1, <1>2 DEF Report, Return, GoTo, ToolPhase, None, ErrorCode
    <2>2. QED
      BY <1>1, <1>2, <2>1, BackendStep DEF Report, Return, GoTo, IInv, TypeOK
  <1>3. CASE sawCancel /\ Report(IF timedOut THEN "TIMEOUT" ELSE "CANCELLED")
    <2>1. timedOut \in BOOLEAN
      BY DEF IInv, TypeOK
    <2>2. CASE timedOut
      BY <1>2, <1>3, <2>2 DEF ErrorCode
    <2>3. CASE ~timedOut
      BY <1>1, <1>2, <1>3, <2>3 DEF ErrorCode
    <2>4. QED
      BY <2>2, <2>3
  <1>4. CASE Report(CapFailure)
    <2>1. CASE timedOut
      BY <1>2, <1>4, <2>1 DEF ErrorCode, CapFailure
    <2>2. CASE ~timedOut
      BY <1>2, <1>4, <2>2 DEF ErrorCode, CapFailure
    <2>3. QED
      BY <2>1, <2>2
  <1>5. CASE \E code \in ExitFailure(Head(calls))
                           \union ResultFailure(request.operation, Head(calls)) :
               code # "ok" /\ Report(code)
    <2>1. PICK code \in ExitFailure(Head(calls))
                          \union ResultFailure(request.operation, Head(calls)) :
                 code # "ok" /\ Report(code)
      BY <1>5
    <2>2. code \in ErrorCode \ {"TIMEOUT", "CANCELLED"}
      BY <2>1, PlainCodes, RequestType
    <2>3. QED
      BY <1>2, <2>1, <2>2
  <1>6. CASE Proceed
    <2>1. calls' \in Suffixes
      BY <1>1, <1>6, ProceedFacts, RequestType DEF IInv, TypeOK, ToolPhase
    <2>2. ToolPhase'
      BY <1>1, <1>6 DEF Proceed, GoTo, ToolPhase
    <2>3. QED
      BY <1>1, <1>6, <2>1, <2>2, BackendStep DEF Proceed, GoTo, IInv, TypeOK
  <1>7. \A code \in ExitFailure(Head(calls))
                      \union ResultFailure(request.operation, Head(calls)) :
          code # "ok"
    BY RequestType DEF ExitFailure, ResultFailure, ProbeResultFailure, Operation
  <1>8. QED
    BY <1>3, <1>4, <1>5, <1>6, <1>7 DEF Classify

-----------------------------------------------------------------------------
(* The other threads and the child process.                                *)

\* A thread may raise flags; it never lowers one.
LEMMA ThreadStep ==
  ASSUME IInv, UNCHANGED <<given, mainVars, calls, sawCancel, capped, output>>,
         child' \in {"none", "running", "killed", "succeeded", "failed"},
         child = "none" => child' = "none",
         cancelled' \in BOOLEAN, timedOut' \in BOOLEAN, violation' \in BOOLEAN,
         cancelSeen' \in BOOLEAN,
         timer' \in {"off", "armed", "fired", "done"},
         reader' \in {"off", "reading", "recording", "done"},
         reader = "off" => reader' = "off",
         cancelled => cancelled', timedOut => timedOut',
         violation => violation', cancelSeen => cancelSeen',
         reader = "recording" => reader' = "recording" \/ violation',
         timer' \in {"fired", "done"} => timedOut',
         cancelled' /\ ~cancelled =>
           cancelSeen' \/ timedOut' \/ reader' = "recording"
  PROVE  IInv'
  <1>1. \A types : Ended(types)' <=> Ended(types)
    BY DEF Ended, output
  <1>2. TypeOK'
    BY DEF IInv, TypeOK, given, mainVars, output
  <1>3. FlagCauses'
    BY DEF IInv, FlagCauses, mainVars
  <1>4. TimeoutNeedsDeadline' /\ InterruptionHasACause'
    BY <1>1 DEF IInv, TimeoutNeedsDeadline, InterruptionHasACause, mainVars
  <1>5. ToolPhase' /\ FreshStart' /\ VerifiedPhase'
    BY DEF IInv, ToolPhase, FreshStart, VerifiedPhase, mainVars, given, output
  <1>6. HostCanTrustExit' /\ OpenStream'
    BY <1>1 DEF IInv, HostCanTrustExit, OpenStream, mainVars, output, Last
  <1>7. QED
    BY <1>2, <1>3, <1>4, <1>5, <1>6 DEF IInv

LEMMA ReadLineStep == IInv /\ ReadLine => IInv'
  <1> SUFFICES ASSUME IInv, ReadLine PROVE IInv'
    OBVIOUS
  <1>1. /\ reader = "reading"
        /\ UNCHANGED <<given, timedOut, violation, timer, mainVars, calls,
                       child, sawCancel, capped, output>>
    BY DEF ReadLine, toolVars
  <1>2. /\ cancelled' \in BOOLEAN /\ cancelSeen' \in BOOLEAN
        /\ cancelled => cancelled'
        /\ cancelSeen => cancelSeen'
        /\ reader' \in {"reading", "recording", "done"}
        /\ cancelled' /\ ~cancelled => cancelSeen' \/ reader' = "recording"
    <2>1. cancelled \in BOOLEAN /\ cancelSeen \in BOOLEAN
      BY DEF IInv, TypeOK
    <2>2. CASE cancelSeen' = TRUE /\ cancelled' = TRUE /\ reader' = reader
      BY <1>1, <2>1, <2>2
    <2>3. CASE /\ cancelled' = TRUE /\ reader' = "recording"
               /\ cancelSeen' = cancelSeen
      BY <2>1, <2>3
    <2>4. CASE /\ reader' = "done"
               /\ cancelSeen' = cancelSeen /\ cancelled' = cancelled
      BY <2>1, <2>4
    <2>5. QED
      BY <2>2, <2>3, <2>4, Zenon DEF ReadLine
  <1>3. QED
    BY <1>1, <1>2, ThreadStep DEF IInv, TypeOK, FlagCauses

LEMMA RecordViolationStep == IInv /\ RecordViolation => IInv'
  BY ThreadStep DEF RecordViolation, IInv, TypeOK, FlagCauses, toolVars

LEMMA DeadlineStoreStep == IInv /\ DeadlineStore => IInv'
  BY ThreadStep DEF DeadlineStore, IInv, TypeOK, FlagCauses, toolVars,
     readerVars

LEMMA DeadlineCancelStep == IInv /\ DeadlineCancel => IInv'
  BY ThreadStep DEF DeadlineCancel, IInv, TypeOK, FlagCauses, toolVars,
     readerVars

LEMMA ToolExitsStep == IInv /\ ToolExits => IInv'
  BY ThreadStep DEF ToolExits, IInv, TypeOK, FlagCauses, threads, control,
     readerVars

LEMMA KilledToolDiesStep == IInv /\ KilledToolDies => IInv'
  BY ThreadStep DEF KilledToolDies, IInv, TypeOK, FlagCauses, threads, control,
     readerVars

LEMMA StutterStep == IInv /\ UNCHANGED vars => IInv'
  BY ThreadStep DEF vars, IInv, TypeOK, FlagCauses, given, mainVars, output


-----------------------------------------------------------------------------
(* The invariants, for every behaviour of the specification.               *)

LEMMA NextIInv == IInv /\ [Next]_vars => IInv'
  <1> SUFFICES ASSUME IInv, [Next]_vars PROVE IInv'
    OBVIOUS
  <1>1. CASE Start \/ Validate \/ SkipValidation \/ Hash \/ HashInterrupted
    BY <1>1, StartStep, ValidateStep, SkipValidationStep, HashStep,
       HashInterruptedStep
  <1>2. CASE Accept \/ PreViolation \/ PreTimeout \/ PreCancel \/ Progress
    BY <1>2, AcceptStep, PreViolationStep, PreTimeoutStep, PreCancelStep,
       ProgressStep
  <1>3. CASE Call \/ Poll \/ Wait \/ Classify
    BY <1>3, CallStep, PollStep, WaitStep, ClassifyStep
  <1>4. CASE PostViolation \/ PostTimeout \/ PostOutcome \/ Complete
    BY <1>4, PostViolationStep, PostTimeoutStep, PostOutcomeStep, CompleteStep
  <1>5. CASE ReadLine \/ RecordViolation \/ DeadlineStore \/ DeadlineCancel
    BY <1>5, ReadLineStep, RecordViolationStep, DeadlineStoreStep,
       DeadlineCancelStep
  <1>6. CASE ToolExits \/ KilledToolDies
    BY <1>6, ToolExitsStep, KilledToolDiesStep
  <1>7. CASE UNCHANGED vars
    BY <1>7, StutterStep
  <1>8. QED
    BY <1>1, <1>2, <1>3, <1>4, <1>5, <1>6, <1>7 DEF Next, Main, Exited

\* The inductive invariant holds in every reachable state, whatever the
\* request, the environment, the control lines, the input size and the faults.
THEOREM Invariance == Spec => []IInv
  BY InitIInv, NextIInv, PTL DEF Spec

\* Every variable of the run keeps its type.
THEOREM TypeCorrect == Spec => []TypeOK
  <1>1. IInv => TypeOK
    BY DEF IInv
  <1>2. QED
    BY <1>1, Invariance, PTL

\* The exit status of a run never contradicts its event stream: 1 after any
\* undelivered event, else the code its last event requires.
THEOREM ExitIsTrustworthy == Spec => []HostCanTrustExit
  <1>1. IInv => HostCanTrustExit
    BY DEF IInv
  <1>2. QED
    BY <1>1, Invariance, PTL

\* A run is reported as timed out only if its own deadline has passed.
THEOREM TimeoutIsTheDeadline == Spec => []TimeoutNeedsDeadline
  <1>1. IInv => TimeoutNeedsDeadline
    BY DEF IInv
  <1>2. QED
    BY <1>1, Invariance, PTL

\* A run is reported as cancelled only after a cancel line, a violation or the
\* deadline: never because stdin was closed.
THEOREM CancellationHasACause == Spec => []InterruptionHasACause
  <1>1. IInv => InterruptionHasACause
    BY DEF IInv
  <1>2. QED
    BY <1>1, Invariance, PTL

\* Under a known toolchain every tool opens the declared snapshot only.
THEOREM ToolsSeeTheDeclaredSnapshot == Spec => []ToolRunsOnVerifiedInput
  <1>1. IInv => ToolRunsOnVerifiedInput
    BY DEF IInv, ToolPhase, VerifiedPhase, ToolRunsOnVerifiedInput
  <1>2. QED
    BY <1>1, Invariance, PTL

\* No child process outlives the terminal event.
THEOREM TerminalComesLast == Spec => []NoTerminalWhileToolRuns
  <1>1. IInv => NoTerminalWhileToolRuns
    BY DEF IInv, OpenStream, ToolPhase, NoTerminalWhileToolRuns
  <1>2. QED
    BY <1>1, Invariance, PTL

-----------------------------------------------------------------------------
(* Which outcome wins.  A step either leaves the stream alone or adds one  *)
(* event to it, and the flags decide which.                                *)

\* The step puts one event of this type on stdout.
Adds(type) == \A types : Ended(types)' <=> Ended(types) \/ type \in types

\* ... and it is the terminal event.
Ends(type) == pc' = "exited" /\ Adds(type)

LEMMA FailureEnds ==
  ASSUME IInv, NEW type \in {"failed", "cancelled", "timed_out"},
         NEW n \in 1 .. 3, NEW code \in ErrorCode, TerminalFailure(type, n, code)
  PROVE  Ends(type)
  <1> DEFINE e == ES!FailureEvent(type, n, code, EchoOf(request))
  <1>1. e \in ES!EventRecord /\ e.type = type /\ e.sequence = n
    BY FailureFields
  <1>2. Emit(e) /\ pc' = "exited"
    BY DEF TerminalFailure, Finish
  <1>3. stream \in Seq(ES!EventRecord) /\ lost \subseteq 1 .. 3
    BY DEF IInv, TypeOK
  <1>4. QED
    BY <1>1, <1>2, <1>3, EmitFacts DEF Ends, Adds

\* What a step of the run can do to the stream, and when.
StepOutput ==
  \/ stream' = stream
  \/ Adds("accepted") /\ pc' = "pre_violation"
  \/ Adds("progress") /\ pc' = "call"
  \/ Ends("failed")
  \/ Ends("timed_out") /\ pc \in {"pre_timeout", "post_timeout", "post_outcome"}
  \/ Ends("cancelled") /\ pc \in {"pre_cancel", "post_outcome"}
  \/ Ends("completed") /\ pc = "complete"

\* The main thread passes a check only if it has not seen the flag.
StepChecks ==
  /\ pc' \in {"pre_timeout", "post_timeout"} /\ pc' # pc => ~violation'
  /\ pc' \in {"pre_cancel", "post_outcome"} /\ pc' # pc =>
       ~timedOut' /\ pc \in {"pre_timeout", "post_timeout"}
  /\ pc' = "complete" /\ pc' # pc => ~cancelled' /\ pc = "post_outcome"

\* No flag is ever lowered.
FlagsStay ==
  /\ cancelled => cancelled'
  /\ timedOut => timedOut'
  /\ violation => violation'

LEMMA EmitAdds ==
  ASSUME IInv, NEW type \in {"accepted", "progress", "completed"},
         NEW n \in 1 .. 3,
         NEW stage \in {"probe", "preview", "audio", None}, NEW t \in 0 .. 2,
         Emit(ES!Event(type, n, None, stage, 0, t, EchoOf(request)))
  PROVE  Adds(type)
  <1> DEFINE e == ES!Event(type, n, None, stage, 0, t, EchoOf(request))
  <1>1. e \in ES!EventRecord /\ e.type = type /\ e.sequence = n
    BY EventFields DEF EventType
  <1>2. stream \in Seq(ES!EventRecord) /\ lost \subseteq 1 .. 3
    BY DEF IInv, TypeOK
  <1>3. QED
    BY <1>1, <1>2, EmitFacts DEF Adds

\* All three, of one step.
StepRules == StepOutput /\ StepChecks /\ FlagsStay

\* A step that emits nothing and passes no check obeys the rules.
LEMMA SilentStep ==
  ASSUME stream' = stream, FlagsStay,
         \/ pc' = pc
         \/ pc' \notin {"pre_timeout", "pre_cancel", "post_timeout",
                         "post_outcome", "complete"}
  PROVE  StepRules
  BY DEF StepRules, StepOutput, StepChecks

\* A failure that does not blame a flag may come at any time.
LEMMA FailedRules ==
  ASSUME IInv, NEW n \in 1 .. 3, NEW code \in ErrorCode,
         TerminalFailure("failed", n, code), FlagsStay
  PROVE  StepRules
  <1>1. Ends("failed")
    BY FailureEnds
  <1>2. QED
    BY <1>1 DEF StepRules, StepOutput, StepChecks, Ends

LEMMA EarlyRules ==
  IInv /\ (Start \/ Validate \/ SkipValidation \/ Hash \/ HashInterrupted)
    => StepRules
  <1> SUFFICES ASSUME IInv,
                      Start \/ Validate \/ SkipValidation \/ Hash
                        \/ HashInterrupted
               PROVE  StepRules
    OBVIOUS
  <1>1. FlagsStay
    BY DEF FlagsStay, Start, Validate, SkipValidation, Hash, HashInterrupted,
       threads, control
  <1>2. CASE \E code \in ErrorCode : Refuse(code)
    BY <1>1, <1>2, FailedRules DEF Refuse
  <1>3. CASE /\ stream' = stream
             /\ pc' \in {"exited", "validate", "unvalidated", "hash", "accept"}
    BY <1>1, <1>3, SilentStep
  <1>4. CASE Start
    BY <1>2, <1>3, <1>4 DEF Start, GoTo, output, ErrorCode
  <1>5. CASE Validate
    BY <1>2, <1>3, <1>5 DEF Validate, GoTo, output, ErrorCode
  <1>6. CASE SkipValidation \/ Hash \/ HashInterrupted
    BY <1>2, <1>3, <1>6 DEF SkipValidation, Hash, HashInterrupted, GoTo,
       output, ErrorCode
  <1>7. QED
    BY <1>4, <1>5, <1>6

LEMMA EmitRules == IInv /\ (Accept \/ Progress) => StepRules
  <1> SUFFICES ASSUME IInv, Accept \/ Progress PROVE StepRules
    OBVIOUS
  <1>1. FlagsStay
    BY DEF FlagsStay, Accept, Progress, threads, control
  <1>2. CASE Accept
    <2>1. Adds("accepted") /\ pc' = "pre_violation"
      BY <1>2, EmitAdds DEF Accept, ES!PlainEvent, None, ES!None
    <2>2. QED
      BY <1>1, <2>1 DEF StepRules, StepOutput, StepChecks
  <1>3. CASE Progress
    <2>1. /\ StageTotal(request.operation) \in 0 .. 2
          /\ StageOf(request.operation) \in {"probe", "preview", "audio"}
      BY RequestType, StageType DEF StageTotal
    <2>2. Adds("progress") /\ pc' = "call"
      BY <1>3, <2>1, EmitAdds DEF Progress, ES!ProgressEvent, None, ES!None
    <2>3. QED
      BY <1>1, <2>2 DEF StepRules, StepOutput, StepChecks
  <1>4. QED
    BY <1>2, <1>3

\* Looking for a violation, before and after the media work.
LEMMA ViolationCheckRules ==
  IInv /\ (PreViolation \/ PostViolation) => StepRules
  <1> SUFFICES ASSUME IInv, PreViolation \/ PostViolation PROVE StepRules
    OBVIOUS
  <1>1. FlagsStay /\ violation' = violation
    BY DEF FlagsStay, PreViolation, PostViolation, threads, control
  <1>2. CASE violation
    <2>1. \E n \in 1 .. 3 : TerminalFailure("failed", n, "INVALID_REQUEST")
      BY <1>2 DEF PreViolation, PostViolation
    <2>2. QED
      BY <1>1, <2>1, FailedRules DEF ErrorCode
  <1>3. CASE ~violation
    <2>1. stream' = stream /\ pc' \in {"pre_timeout", "post_timeout"}
      BY <1>3 DEF PreViolation, PostViolation, GoTo, output
    <2>2. QED
      BY <1>1, <1>3, <2>1 DEF StepRules, StepOutput, StepChecks
  <1>4. QED
    BY <1>2, <1>3

\* Looking for the deadline.
LEMMA DeadlineCheckRules ==
  IInv /\ (PreTimeout \/ PostTimeout) => StepRules
  <1> SUFFICES ASSUME IInv, PreTimeout \/ PostTimeout PROVE StepRules
    OBVIOUS
  <1>1. /\ FlagsStay /\ timedOut' = timedOut
        /\ pc \in {"pre_timeout", "post_timeout"}
    BY DEF FlagsStay, PreTimeout, PostTimeout, threads, control
  <1>2. CASE timedOut
    <2>1. \E n \in 1 .. 3 : TerminalFailure("timed_out", n, "TIMEOUT")
      BY <1>2 DEF PreTimeout, PostTimeout
    <2>2. Ends("timed_out")
      BY <2>1, FailureEnds DEF ErrorCode
    <2>3. QED
      BY <1>1, <2>2 DEF StepRules, StepOutput, StepChecks, Ends
  <1>3. CASE ~timedOut
    <2>1. stream' = stream /\ pc' \in {"pre_cancel", "post_outcome"}
      BY <1>3 DEF PreTimeout, PostTimeout, GoTo, output
    <2>2. QED
      BY <1>1, <1>3, <2>1 DEF StepRules, StepOutput, StepChecks
  <1>4. QED
    BY <1>2, <1>3

LEMMA PreCancelRules == IInv /\ PreCancel => StepRules
  <1> SUFFICES ASSUME IInv, PreCancel PROVE StepRules
    OBVIOUS
  <1>1. FlagsStay /\ pc = "pre_cancel"
    BY DEF FlagsStay, PreCancel, threads, control
  <1>2. CASE cancelled
    <2>1. Ends("cancelled")
      BY <1>2, FailureEnds DEF PreCancel, ErrorCode
    <2>2. QED
      BY <1>1, <2>1 DEF StepRules, StepOutput, StepChecks, Ends
  <1>3. CASE ~cancelled
    BY <1>1, <1>3, SilentStep DEF PreCancel, GoTo, output
  <1>4. QED
    BY <1>2, <1>3

LEMMA OutcomeRules == IInv /\ PostOutcome => StepRules
  <1> SUFFICES ASSUME IInv, PostOutcome PROVE StepRules
    OBVIOUS
  <1>1. FlagsStay /\ pc = "post_outcome"
    BY DEF FlagsStay, PostOutcome, threads, control
  <1>2. CASE outcome = "ok" /\ ~cancelled
    <2>1. stream' = stream /\ pc' = "complete" /\ cancelled' = cancelled
      BY <1>2 DEF PostOutcome, GoTo, output, threads, control
    <2>2. QED
      BY <1>1, <1>2, <2>1 DEF StepRules, StepOutput, StepChecks
  <1>3. CASE TerminalFailure("cancelled", 3, "CANCELLED")
    BY <1>1, <1>3, FailureEnds DEF StepRules, StepOutput, StepChecks, Ends,
       ErrorCode
  <1>4. CASE TerminalFailure("timed_out", 3, "TIMEOUT")
    BY <1>1, <1>4, FailureEnds DEF StepRules, StepOutput, StepChecks, Ends,
       ErrorCode
  <1>5. CASE /\ outcome \notin {"ok", "TIMEOUT", "CANCELLED"}
             /\ TerminalFailure("failed", 3, outcome)
    <2>1. outcome \in ErrorCode
      BY <1>1, <1>5 DEF IInv, TypeOK, ToolPhase
    <2>2. QED
      BY <1>1, <1>5, <2>1, FailedRules
  <1>6. QED
    BY <1>2, <1>3, <1>4, <1>5 DEF PostOutcome

LEMMA CompleteRules == IInv /\ Complete => StepRules
  <1> SUFFICES ASSUME IInv, Complete PROVE StepRules
    OBVIOUS
  <1>1. FlagsStay /\ pc = "complete"
    BY DEF FlagsStay, Complete, threads, control
  <1>2. Ends("completed")
    BY EmitAdds DEF Complete, Finish, ES!PlainEvent, None, ES!None, Ends
  <1>3. QED
    BY <1>1, <1>2 DEF StepRules, StepOutput, StepChecks, Ends

LEMMA BackendRules == Call \/ Poll \/ Wait \/ Classify => StepRules
  <1> SUFFICES ASSUME Call \/ Poll \/ Wait \/ Classify PROVE StepRules
    OBVIOUS
  <1>1. FlagsStay
    <2>1. UNCHANGED threads
      BY Zenon DEF Call, Poll, Wait, Classify
    <2>2. QED
      BY <2>1 DEF FlagsStay, threads, control
  <1>2. /\ stream' = stream
        /\ pc' \in {"call", "poll", "wait", "classify", "post_violation"}
    BY DEF Call, Poll, Wait, Classify, Report, Proceed, Return, GoTo, output
  <1>3. QED
    BY <1>1, <1>2, SilentStep

LEMMA ThreadRules ==
  IInv /\ (\/ ReadLine \/ RecordViolation \/ DeadlineStore \/ DeadlineCancel
          \/ ToolExits \/ KilledToolDies \/ UNCHANGED vars) => StepRules
  <1> SUFFICES ASSUME IInv,
                      \/ ReadLine \/ RecordViolation \/ DeadlineStore
                      \/ DeadlineCancel \/ ToolExits \/ KilledToolDies
                      \/ UNCHANGED vars
               PROVE  StepRules
    OBVIOUS
  <1>1. stream' = stream /\ pc' = pc
    BY DEF ReadLine, RecordViolation, DeadlineStore, DeadlineCancel, ToolExits,
       KilledToolDies, vars, mainVars, output
  <1>2. FlagsStay
    BY DEF FlagsStay, ReadLine, RecordViolation, DeadlineStore, DeadlineCancel,
       ToolExits, KilledToolDies, vars, threads, control
  <1>3. QED
    BY <1>1, <1>2, SilentStep

LEMMA NextRules == IInv /\ [Next]_vars => StepRules
  BY EarlyRules, EmitRules, ViolationCheckRules, DeadlineCheckRules,
     PreCancelRules, OutcomeRules, CompleteRules, BackendRules, ThreadRules
     DEF Next, Main, Exited

\* Without a terminal event there is none of any kind.
LEMMA OpenMeansNone ==
  ASSUME IInv, pc # "exited", NEW types \in SUBSET TerminalType
  PROVE  ~Ended(types)
  BY DEF IInv, OpenStream, Ended, ES!Has

\* A cancellation flag that is up before main's last look at it rules out
\* `completed`, for good.
THEOREM InterruptionPrevails == Spec => InterruptNeverCompletes
  <1> DEFINE K == cancelled /\ ~Ended({"completed"}) /\ pc # "complete"
             P == cancelled /\ pc \notin {"complete", "exited"}
  <1>1. IInv /\ P => K
    BY OpenMeansNone DEF TerminalType
  <1>2. IInv /\ K /\ [Next]_vars => K'
    <2> SUFFICES ASSUME IInv, K, [Next]_vars PROVE K'
      OBVIOUS
    <2>1. StepRules
      BY NextRules
    <2>2. cancelled'
      BY <2>1 DEF StepRules, FlagsStay
    <2>3. ~Ended({"completed"})'
      BY <2>1 DEF StepRules, StepOutput, Ends, Adds, Ended
    <2>4. pc' # "complete"
      BY <2>1, <2>2 DEF StepRules, StepChecks
    <2>5. QED
      BY <2>2, <2>3, <2>4
  <1>3. K => ~Ended({"completed"})
    OBVIOUS
  <1> HIDE DEF K, P
  <1>4. Spec => [](P => []~Ended({"completed"}))
    BY <1>1, <1>2, <1>3, Invariance, PTL DEF Spec
  <1>5. QED
    BY <1>4 DEF InterruptNeverCompletes, P

\* A violation recorded in time outranks the deadline, the cancellation and a
\* finished result.
THEOREM ViolationPrevails == Spec => ViolationIsNeverOutranked
  <1> DEFINE Others == {"completed", "cancelled", "timed_out"}
             Past   == {"pre_timeout", "pre_cancel", "post_timeout",
                        "post_outcome", "complete"}
             K == violation /\ ~Ended(Others) /\ pc \notin Past
             P == violation /\ pc \notin Past \union {"exited"}
  <1>1. IInv /\ P => K
    BY OpenMeansNone DEF TerminalType
  <1>2. IInv /\ K /\ [Next]_vars => K'
    <2> SUFFICES ASSUME IInv, K, [Next]_vars PROVE K'
      OBVIOUS
    <2>1. StepRules
      BY NextRules
    <2>2. violation'
      BY <2>1 DEF StepRules, FlagsStay
    <2>3. pc' \notin Past
      BY <2>1, <2>2 DEF StepRules, StepChecks
    <2>4. ~Ended(Others)'
      BY <2>1 DEF StepRules, StepOutput, Ends, Adds, Ended
    <2>5. QED
      BY <2>2, <2>3, <2>4
  <1>3. K => ~Ended(Others)
    OBVIOUS
  <1>4. P <=> violation /\ pc \notin {"pre_timeout", "pre_cancel",
                                     "post_timeout", "post_outcome",
                                     "complete", "exited"}
    OBVIOUS
  <1> HIDE DEF K, P
  <1>5. Spec => [](P => []~Ended(Others))
    BY <1>1, <1>2, <1>3, Invariance, PTL DEF Spec
  <1>6. QED
    BY <1>4, <1>5, PTL DEF ViolationIsNeverOutranked, Others

\* A deadline that passed in time outranks the cancellation and the result.
THEOREM DeadlinePrevails == Spec => DeadlineIsNeverOutranked
  <1> DEFINE Past == {"pre_cancel", "post_outcome", "complete"}
             K == /\ timedOut /\ ~Ended({"completed", "cancelled"})
                  /\ pc \notin Past
             P == timedOut /\ pc \notin Past \union {"exited"}
  <1>1. IInv /\ P => K
    BY OpenMeansNone DEF TerminalType
  <1>2. IInv /\ K /\ [Next]_vars => K'
    <2> SUFFICES ASSUME IInv, K, [Next]_vars PROVE K'
      OBVIOUS
    <2>1. StepRules
      BY NextRules
    <2>2. timedOut'
      BY <2>1 DEF StepRules, FlagsStay
    <2>3. pc' \notin Past
      BY <2>1, <2>2 DEF StepRules, StepChecks
    <2>4. ~Ended({"completed", "cancelled"})'
      BY <2>1 DEF StepRules, StepOutput, Ends, Adds, Ended
    <2>5. QED
      BY <2>2, <2>3, <2>4
  <1>3. K => ~Ended({"completed", "cancelled"})
    OBVIOUS
  <1>4. P <=> timedOut /\ pc \notin {"pre_cancel", "post_outcome", "complete",
                                    "exited"}
    OBVIOUS
  <1> HIDE DEF K, P
  <1>5. Spec => [](P => []~Ended({"completed", "cancelled"}))
    BY <1>1, <1>2, <1>3, Invariance, PTL DEF Spec
  <1>6. QED
    BY <1>4, <1>5, PTL DEF DeadlineIsNeverOutranked

-----------------------------------------------------------------------------
(* The run implements the contract of its output: what it writes is a      *)
(* stream that EventStreamValidator accepts event by event.                *)

BeforeAccepted ==
  {"start", "validate", "unvalidated", "hash", "accept"}
BeforeProgress ==
  {"pre_violation", "pre_timeout", "pre_cancel", "progress"}

\* What main has emitted by now: nothing, `accepted`, or `accepted` and the
\* one progress event, all of the request's own identity.
StreamPhase ==
  pc # "exited" =>
    /\ Len(stream) = IF pc \in BeforeAccepted THEN 0
                     ELSE IF pc \in BeforeProgress THEN 1 ELSE 2
    /\ \A i \in DOMAIN stream :
         /\ stream[i].type = IF i = 1 THEN "accepted" ELSE "progress"
         /\ stream[i].completed = 0
         /\ stream[i].echo = EchoOf(request)

\* The request reaches neither of the two places at which the code and the
\* contract disagree: a zero attempt is echoed, and a staging root that cannot
\* be opened again turns an interruption into a refused request.
Conforming == request.defect # "context" /\ "reopen" \notin StagingFaults

\* An event of the run's own identity, well formed, that may stand at n.
Fits(e, n) ==
  /\ e \in ES!EventsAt(n)
  /\ ES!WellFormed(e)
  /\ e.sequence = n
  /\ e.echo = EchoOf(request)
  /\ n = 1 => e.type \in {"accepted", "failed"}
  /\ n > 1 => e.type # "accepted"
  /\ e.completed = 0

\* An event that fits is the validator's next one.
LEMMA FittingStep ==
  ASSUME IInv, StreamPhase, pc # "exited", NEW e, Fits(e, Len(stream) + 1),
         stream' = Append(stream, e)
  PROVE  ES!Next
  <1> DEFINE n == Len(stream)
  <1>1. stream \in Seq(ES!EventRecord)
    BY DEF IInv, TypeOK
  <1>2. n \in 0 .. 2 /\ DOMAIN stream = 1 .. n /\ (stream = <<>> <=> n = 0)
    BY <1>1 DEF StreamPhase
  <1>3. \A i \in 1 .. n :
          /\ stream[i].type = IF i = 1 THEN "accepted" ELSE "progress"
          /\ stream[i].completed = 0
          /\ stream[i].echo = EchoOf(request)
    BY <1>2 DEF StreamPhase
  <1>4. e.sequence = n + 1 /\ ES!WellFormed(e)
        /\ e.echo = EchoOf(request) /\ e.completed = 0
        /\ (n = 0 => e.type \in {"accepted", "failed"})
        /\ (n > 0 => e.type # "accepted")
    BY <1>2 DEF Fits
  <1>5. ~ES!Terminal(stream)
    BY <1>2, <1>3 DEF ES!Terminal, ES!Has, ES!TerminalType
  <1>6. ES!Accepted(stream) <=> n > 0
    BY <1>2, <1>3 DEF ES!Accepted, ES!Has
  <1>7. \A last \in ES!LastProgress(stream) : last.completed <= e.completed
    <2>1. \A i \in DOMAIN stream : stream[i].completed = 0
      BY <1>2, <1>3
    <2>2. QED
      BY <1>4, <2>1 DEF ES!LastProgress, ES!ProgressAt
  <1>8. stream # <<>> => e.echo = stream[1].echo
    BY <1>2, <1>3, <1>4
  <1>9. ES!Accepts(stream, e)
    BY <1>2, <1>4, <1>5, <1>6, <1>7, <1>8 DEF ES!Accepts
  <1>10. QED
    BY <1>9 DEF Fits, ES!Next, ES!Accept

\* A failure of the type that its code requires fits wherever main fails.
LEMMA FailureFits ==
  ASSUME Conforming, NEW code \in ErrorCode, NEW n \in 1 .. 3,
         n = 1 => TerminalKind(code) = "failed"
  PROVE  Fits(ES!FailureEvent(TerminalKind(code), n, code, EchoOf(request)), n)
  <1> DEFINE e == ES!FailureEvent(TerminalKind(code), n, code, EchoOf(request))
  <1>1. EchoOf(request) = "valid"
    BY DEF Conforming, EchoOf
  <1>2. /\ code \in ES!ErrorCode /\ code # ES!None
        /\ TerminalKind(code) = ES!TerminalKind(code)
        /\ TerminalKind(code) \in {"failed", "cancelled", "timed_out"}
    BY DEF ErrorCode, ES!ErrorCode, ES!None, TerminalKind, ES!TerminalKind
  <1>3. /\ e.type = TerminalKind(code) /\ e.sequence = n /\ e.code = code
        /\ e.completed = 0 /\ e.total = 0 /\ e.echo = "valid"
        /\ e.stage = ES!None
    BY <1>1 DEF ES!FailureEvent, ES!Event
  <1>4. ES!WellFormed(e)
    BY <1>2, <1>3 DEF ES!WellFormed
  <1>5. e \in ES!EventsAt(n)
    <2>1. e = ES!FailureEvent(ES!TerminalKind(code), n, code, "valid")
      BY <1>1, <1>2
    <2>2. e \in {ES!FailureEvent(ES!TerminalKind(c), n, c, id) :
                   c \in ES!ErrorCode, id \in {"valid", "attempt_zero"}}
      BY <1>2, <2>1
    <2>3. QED
      BY <2>2 DEF ES!EventsAt
  <1>6. QED
    BY <1>1, <1>2, <1>3, <1>4, <1>5 DEF Fits

\* `accepted` first, `completed` third.
LEMMA PlainFits ==
  ASSUME Conforming, NEW type, NEW n,
         \/ type = "accepted" /\ n = 1
         \/ type = "completed" /\ n = 3
  PROVE  Fits(ES!PlainEvent(type, n, EchoOf(request)), n)
  <1> DEFINE e == ES!PlainEvent(type, n, EchoOf(request))
  <1>1. EchoOf(request) = "valid"
    BY DEF Conforming, EchoOf
  <1>2. /\ e.type = type /\ e.sequence = n /\ e.echo = "valid"
        /\ e.completed = 0 /\ e.stage = ES!None
    BY <1>1 DEF ES!PlainEvent, ES!Event
  <1>3. ES!WellFormed(e)
    BY <1>2 DEF ES!WellFormed
  <1>4. e \in ES!EventsAt(n)
    <2>1. e \in {ES!PlainEvent(t, n, id) :
                   t \in {"accepted", "running", "completed"},
                   id \in {"valid", "attempt_zero"}}
      BY <1>1
    <2>2. QED
      BY <2>1 DEF ES!EventsAt
  <1>5. QED
    BY <1>1, <1>2, <1>3, <1>4 DEF Fits

\* The announced stage and its total are within the contract's.
LEMMA ProgressFits ==
  ASSUME Conforming, NEW stage \in {"probe", "preview", "audio"}, NEW t \in 0 .. 2
  PROVE  Fits(ES!ProgressEvent(2, stage, 0, t, EchoOf(request)), 2)
  <1> DEFINE e == ES!ProgressEvent(2, stage, 0, t, EchoOf(request))
  <1>1. EchoOf(request) = "valid"
    BY DEF Conforming, EchoOf
  <1>2. /\ e.type = "progress" /\ e.sequence = 2 /\ e.echo = "valid"
        /\ e.stage = stage /\ e.completed = 0 /\ e.total = t
    BY <1>1 DEF ES!ProgressEvent, ES!Event
  <1>3. ES!WellFormed(e)
    BY <1>2 DEF ES!WellFormed
  <1>4. e \in ES!EventsAt(2)
    <2>1. e \in {ES!ProgressEvent(2, s, c, u, id) :
                   s \in {"probe", "preview", "audio"}, c \in 0 .. 2,
                   u \in 0 .. 2, id \in {"valid", "attempt_zero"}}
      BY <1>1
    <2>2. QED
      BY <2>1 DEF ES!EventsAt
  <1>5. QED
    BY <1>1, <1>2, <1>3, <1>4 DEF Fits

-----------------------------------------------------------------------------
\* A step either is silent or takes the validator to its next state.
Implements == StreamPhase' /\ [ES!Next]_stream

\* A failure ends the run with an event that fits.
LEMMA FailureImplements ==
  ASSUME IInv, StreamPhase, Conforming, pc # "exited",
         NEW code \in ErrorCode, NEW type, type = TerminalKind(code),
         NEW n \in 1 .. 3, Len(stream) = n - 1, n = 1 => type = "failed",
         TerminalFailure(type, n, code)
  PROVE  Implements
  <1> DEFINE e == ES!FailureEvent(type, n, code, EchoOf(request))
  <1>1. n = Len(stream) + 1
    OBVIOUS
  <1>2. Fits(e, Len(stream) + 1)
    <2>1. Fits(e, n)
      BY FailureFits
    <2>2. QED
      BY <1>1, <2>1
  <1>3. stream' = Append(stream, e) /\ pc' = "exited"
    BY DEF TerminalFailure, Finish, Emit
  <1>4. ES!Next
    BY <1>2, <1>3, FittingStep
  <1>5. QED
    BY <1>3, <1>4 DEF Implements, StreamPhase

\* Moving between labels of one phase is a stuttering step.
LEMMA SilentImplements ==
  ASSUME StreamPhase, stream' = stream, request' = request,
         \/ pc' \in {pc, "exited"}
         \/ pc \in BeforeAccepted /\ pc' \in BeforeAccepted
         \/ pc \in BeforeProgress /\ pc' \in BeforeProgress
         \/ /\ pc \notin BeforeAccepted \union BeforeProgress \union {"exited"}
            /\ pc' \notin BeforeAccepted \union BeforeProgress
  PROVE  Implements
  BY DEF Implements, StreamPhase, BeforeAccepted, BeforeProgress

LEMMA EarlyImplements ==
  IInv /\ StreamPhase /\ Conforming
    /\ (Start \/ Validate \/ SkipValidation \/ Hash \/ HashInterrupted)
    => Implements
  <1> SUFFICES ASSUME IInv, StreamPhase, Conforming,
                      Start \/ Validate \/ SkipValidation \/ Hash
                        \/ HashInterrupted
               PROVE  Implements
    OBVIOUS
  <1>1. pc \in BeforeAccepted /\ pc # "exited" /\ Len(stream) = 0
        /\ request' = request
    BY DEF Start, Validate, SkipValidation, Hash, HashInterrupted,
       BeforeAccepted, StreamPhase, given
  <1>2. CASE \E code \in ErrorCode :
               Refuse(code) /\ code \notin {"TIMEOUT", "CANCELLED"}
    <2>1. PICK code \in ErrorCode :
            Refuse(code) /\ code \notin {"TIMEOUT", "CANCELLED"}
      BY <1>2
    <2>2. TerminalKind(code) = "failed"
      BY <2>1 DEF TerminalKind
    <2>3. QED
      BY <1>1, <2>1, <2>2, FailureImplements DEF Refuse
  <1>3. CASE /\ stream' = stream
             /\ pc' \in {"exited", "validate", "unvalidated", "hash", "accept"}
    BY <1>1, <1>3, SilentImplements DEF BeforeAccepted
  <1>4. CASE Start
    BY <1>2, <1>3, <1>4 DEF Start, GoTo, output, ErrorCode
  <1>5. CASE Validate
    BY <1>2, <1>3, <1>5 DEF Validate, GoTo, output, ErrorCode
  <1>6. CASE SkipValidation \/ Hash
    BY <1>2, <1>3, <1>6 DEF SkipValidation, Hash, GoTo, output, ErrorCode
  <1>7. CASE HashInterrupted
    BY <1>3, <1>7 DEF HashInterrupted, GoTo, output, Conforming
  <1>8. QED
    BY <1>4, <1>5, <1>6, <1>7

\* Appending to a stream of one event.
LEMMA SecondEvent ==
  ASSUME NEW s \in Seq(ES!EventRecord), NEW e \in ES!EventRecord, Len(s) = 1
  PROVE  /\ Len(Append(s, e)) = 2 /\ DOMAIN Append(s, e) = 1 .. 2
         /\ Append(s, e)[1] = s[1] /\ Append(s, e)[2] = e
  <1>1. Append(s, e) \in Seq(ES!EventRecord) /\ Len(Append(s, e)) = 2
    OBVIOUS
  <1>2. DOMAIN Append(s, e) = 1 .. 2
    BY <1>1
  <1>3. Append(s, e)[1] = s[1] /\ Append(s, e)[2] = e
    <2>1. /\ Append(s, e)[Len(s) + 1] = e
          /\ \A i \in 1 .. Len(s) : Append(s, e)[i] = s[i]
      OBVIOUS
    <2>2. QED
      BY <2>1
  <1>4. QED
    BY <1>1, <1>2, <1>3

LEMMA EmitImplements ==
  IInv /\ StreamPhase /\ Conforming /\ (Accept \/ Progress) => Implements
  <1> SUFFICES ASSUME IInv, StreamPhase, Conforming, Accept \/ Progress
               PROVE  Implements
    OBVIOUS
  <1>0. stream \in Seq(ES!EventRecord) /\ request' = request
    BY DEF IInv, TypeOK, Accept, Progress, given
  <1>1. CASE Accept
    <2> DEFINE e == ES!PlainEvent("accepted", 1, EchoOf(request))
    <2>1. pc = "accept" /\ stream = <<>> /\ pc' = "pre_violation"
          /\ stream' = Append(stream, e)
      BY <1>0, <1>1 DEF Accept, Emit, StreamPhase, BeforeAccepted
    <2>2. ES!Next
      BY <2>1, PlainFits, FittingStep
    <2>3. stream' = <<e>> /\ e.type = "accepted" /\ e.completed = 0
          /\ e.echo = EchoOf(request)
      BY <2>1 DEF ES!PlainEvent, ES!Event
    <2>4. StreamPhase'
      <3> HIDE DEF e
      <3>1. Len(stream') = 1 /\ DOMAIN stream' = {1} /\ stream'[1] = e
        BY <2>3
      <3>2. QED
        BY <1>0, <2>1, <2>3, <3>1
           DEF StreamPhase, BeforeAccepted, BeforeProgress, EchoOf
    <2>5. QED
      BY <2>2, <2>4 DEF Implements
  <1>2. CASE Progress
    <2> DEFINE e == ES!ProgressEvent(2, StageOf(request.operation), 0,
                                     StageTotal(request.operation),
                                     EchoOf(request))
    <2>1. pc = "progress" /\ Len(stream) = 1 /\ pc' = "call"
          /\ stream' = Append(stream, e)
      BY <1>2 DEF Progress, Emit, StreamPhase, BeforeAccepted, BeforeProgress
    <2>2. /\ StageTotal(request.operation) \in 0 .. 2
          /\ StageOf(request.operation) \in {"probe", "preview", "audio"}
      BY RequestType, StageType DEF StageTotal
    <2>3. ES!Next
      BY <2>1, <2>2, ProgressFits, FittingStep
    <2>4. /\ e.type = "progress" /\ e.completed = 0
          /\ e.echo = EchoOf(request) /\ e \in ES!EventRecord
      <3>1. e.type = "progress" /\ e.completed = 0 /\ e.echo = EchoOf(request)
        BY DEF ES!ProgressEvent, ES!Event
      <3>2. e \in ES!EventRecord
        BY <2>2, EventFields
           DEF ES!ProgressEvent, None, ES!None, EventType
      <3>3. QED
        BY <3>1, <3>2
    <2>5. StreamPhase'
      <3> HIDE DEF e
      <3>1. Len(stream') = 2 /\ DOMAIN stream' = 1 .. 2
            /\ stream'[1] = stream[1] /\ stream'[2] = e
        <4>1. stream \in Seq(ES!EventRecord) /\ Len(stream) = 1
              /\ stream' = Append(stream, e)
          BY <1>0, <2>1
        <4>2. QED
          BY <2>4, <4>1, SecondEvent
      <3>2. stream[1].type = "accepted" /\ stream[1].completed = 0
            /\ stream[1].echo = EchoOf(request)
        BY <1>0, <2>1 DEF StreamPhase
      <3>3. QED
        BY <1>0, <2>1, <2>4, <3>1, <3>2
           DEF StreamPhase, BeforeAccepted, BeforeProgress, EchoOf
    <2>6. QED
      BY <2>3, <2>5 DEF Implements
  <1>3. QED
    BY <1>1, <1>2

LEMMA CheckImplements ==
  IInv /\ StreamPhase /\ Conforming
    /\ (PreViolation \/ PreTimeout \/ PreCancel \/ PostViolation \/ PostTimeout)
    => Implements
  <1> SUFFICES ASSUME IInv, StreamPhase, Conforming,
                      \/ PreViolation \/ PreTimeout \/ PreCancel
                      \/ PostViolation \/ PostTimeout
               PROVE  Implements
    OBVIOUS
  <1>1. request' = request /\ pc # "exited"
    BY DEF PreViolation, PreTimeout, PreCancel, PostViolation, PostTimeout,
       given
  <1>2. /\ TerminalKind("INVALID_REQUEST") = "failed"
        /\ TerminalKind("TIMEOUT") = "timed_out"
        /\ TerminalKind("CANCELLED") = "cancelled"
        /\ {"INVALID_REQUEST", "TIMEOUT", "CANCELLED"} \subseteq ErrorCode
    BY DEF TerminalKind, ErrorCode
  <1>3. CASE PreViolation \/ PreTimeout \/ PreCancel
    <2>1. pc \in BeforeProgress /\ Len(stream) = 1
      BY <1>3 DEF PreViolation, PreTimeout, PreCancel, StreamPhase,
         BeforeAccepted, BeforeProgress
    <2>2. \/ TerminalFailure("failed", 2, "INVALID_REQUEST")
          \/ TerminalFailure("timed_out", 2, "TIMEOUT")
          \/ TerminalFailure("cancelled", 2, "CANCELLED")
          \/ stream' = stream /\ pc' \in BeforeProgress
      BY <1>3 DEF PreViolation, PreTimeout, PreCancel, GoTo, output,
         BeforeProgress
    <2>3. QED
      BY <1>1, <1>2, <2>1, <2>2, FailureImplements, SilentImplements
  <1>4. CASE PostViolation \/ PostTimeout
    <2>1. pc \notin BeforeAccepted \union BeforeProgress \union {"exited"}
          /\ Len(stream) = 2
      BY <1>4 DEF PostViolation, PostTimeout, StreamPhase, BeforeAccepted,
         BeforeProgress
    <2>2. \/ TerminalFailure("failed", 3, "INVALID_REQUEST")
          \/ TerminalFailure("timed_out", 3, "TIMEOUT")
          \/ /\ stream' = stream
             /\ pc' \notin BeforeAccepted \union BeforeProgress
      BY <1>4 DEF PostViolation, PostTimeout, GoTo, output, BeforeAccepted,
         BeforeProgress
    <2>3. QED
      BY <1>1, <1>2, <2>1, <2>2, FailureImplements, SilentImplements
  <1>5. QED
    BY <1>3, <1>4

LEMMA OutcomeImplements ==
  IInv /\ StreamPhase /\ Conforming /\ PostOutcome => Implements
  <1> SUFFICES ASSUME IInv, StreamPhase, Conforming, PostOutcome
               PROVE  Implements
    OBVIOUS
  <1>1. pc = "post_outcome" /\ pc # "exited" /\ Len(stream) = 2
    BY DEF PostOutcome, StreamPhase, BeforeAccepted, BeforeProgress
  <1>2. CASE outcome = "ok" /\ ~cancelled
    <2>1. stream' = stream /\ pc' = "complete" /\ request' = request
      BY <1>2 DEF PostOutcome, GoTo, output, given
    <2>2. QED
      BY <1>1, <2>1, SilentImplements DEF BeforeAccepted, BeforeProgress
  <1>3. CASE \/ TerminalFailure("cancelled", 3, "CANCELLED")
             \/ TerminalFailure("timed_out", 3, "TIMEOUT")
    <2>1. /\ TerminalKind("TIMEOUT") = "timed_out"
          /\ TerminalKind("CANCELLED") = "cancelled"
          /\ {"TIMEOUT", "CANCELLED"} \subseteq ErrorCode
      BY DEF TerminalKind, ErrorCode
    <2>2. QED
      BY <1>1, <1>3, <2>1, FailureImplements
  <1>4. CASE /\ outcome \notin {"ok", "TIMEOUT", "CANCELLED"}
             /\ TerminalFailure("failed", 3, outcome)
    <2>1. outcome \in ErrorCode
      BY <1>1, <1>4 DEF IInv, TypeOK, ToolPhase
    <2>2. TerminalKind(outcome) = "failed"
      BY <1>4 DEF TerminalKind
    <2>3. QED
      BY <1>1, <1>4, <2>1, <2>2, FailureImplements
  <1>5. QED
    BY <1>2, <1>3, <1>4 DEF PostOutcome

LEMMA CompleteImplements ==
  IInv /\ StreamPhase /\ Conforming /\ Complete => Implements
  <1> SUFFICES ASSUME IInv, StreamPhase, Conforming, Complete
               PROVE  Implements
    OBVIOUS
  <1> DEFINE e == ES!PlainEvent("completed", 3, EchoOf(request))
  <1>1. pc = "complete" /\ pc # "exited" /\ Len(stream) = 2
    BY DEF Complete, StreamPhase, BeforeAccepted, BeforeProgress
  <1>2. stream' = Append(stream, e) /\ pc' = "exited"
    BY DEF Complete, Finish, Emit
  <1>3. Fits(e, Len(stream) + 1)
    BY <1>1, PlainFits
  <1>4. ES!Next
    BY <1>1, <1>2, <1>3, FittingStep
  <1>5. QED
    BY <1>2, <1>4 DEF Implements, StreamPhase

LEMMA BackendImplements ==
  StreamPhase /\ (Call \/ Poll \/ Wait \/ Classify) => Implements
  <1> SUFFICES ASSUME StreamPhase, Call \/ Poll \/ Wait \/ Classify
               PROVE  Implements
    OBVIOUS
  <1>1. request' = request
    <2>1. UNCHANGED given
      BY Zenon DEF Call, Poll, Wait, Classify
    <2>2. QED
      BY <2>1 DEF given
  <1>2. /\ stream' = stream
        /\ pc \in {"call", "poll", "wait", "classify"}
        /\ pc' \in {"call", "poll", "wait", "classify", "post_violation"}
    BY DEF Call, Poll, Wait, Classify, Report, Proceed, Return, GoTo, output
  <1>3. QED
    BY <1>1, <1>2, SilentImplements DEF BeforeAccepted, BeforeProgress

LEMMA ThreadImplements ==
  StreamPhase
    /\ (\/ ReadLine \/ RecordViolation \/ DeadlineStore \/ DeadlineCancel
        \/ ToolExits \/ KilledToolDies \/ UNCHANGED vars) => Implements
  <1> SUFFICES ASSUME StreamPhase,
                      \/ ReadLine \/ RecordViolation \/ DeadlineStore
                      \/ DeadlineCancel \/ ToolExits \/ KilledToolDies
                      \/ UNCHANGED vars
               PROVE  Implements
    OBVIOUS
  <1>1. stream' = stream /\ pc' = pc /\ request' = request
    BY DEF ReadLine, RecordViolation, DeadlineStore, DeadlineCancel, ToolExits,
       KilledToolDies, vars, mainVars, output, given
  <1>2. QED
    BY <1>1, SilentImplements

LEMMA NextImplements ==
  IInv /\ StreamPhase /\ Conforming /\ [Next]_vars => Implements
  BY EarlyImplements, EmitImplements, CheckImplements, OutcomeImplements,
     CompleteImplements, BackendImplements, ThreadImplements DEF Next, Main, Exited

\* The stdout of every run is a stream that EventStreamValidator accepts,
\* whatever the interleaving, the tools and the Host do, as long as the
\* request does not ask for a zero attempt and the staging root can be opened
\* a second time: the two exceptions are the runs echo and reopen.
THEOREM RunImplementsEventStream ==
  ASSUME \A r \in Requests : r.defect # "context", "reopen" \notin StagingFaults
  PROVE  Spec => StreamIsValid
  <1>1. Init => ES!Init /\ StreamPhase
    BY DEF Init, ES!Init, StreamPhase, BeforeAccepted
  <1>2. IInv => Conforming
    BY DEF IInv, TypeOK, Conforming
  <1>3. IInv /\ StreamPhase /\ [Next]_vars => StreamPhase' /\ [ES!Next]_stream
    BY <1>2, NextImplements DEF Implements
  <1>4. QED
    BY <1>1, <1>3, Invariance, PTL DEF Spec, StreamIsValid, ES!Spec

=============================================================================
