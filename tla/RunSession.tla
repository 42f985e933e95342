----------------------------- MODULE RunSession -----------------------------
(***************************************************************************)
(* One `scene-core run` process.  Three threads share RunControl: the main *)
(* thread validates the request, runs the media operation and emits the    *)
(* events; a reader thread turns later stdin lines into a cancellation or  *)
(* a protocol violation; a timer thread raises the deadline.  The media    *)
(* operation is a sequence of child processes, each polled for the         *)
(* cancellation flag.  Every load and store of a shared flag is a step of  *)
(* its own; the stores of one thread become visible in program order (the  *)
(* two supported targets are x86-64).                                      *)
(*                                                                         *)
(* crates/scene-core-engine/src/{cli,run}.rs, and of scene-core-media the  *)
(* process boundary (process.rs) and the error mapping of its callers.     *)
(***************************************************************************)
EXTENDS Protocol, ControlStream, BackendFailures, Sequences

InputState == {"match", "missing", "unreadable", "changed"}

\* What can be wrong with the first line.
Defect ==
  {"none",
   "no_line",          \* EOF, over the cap, not UTF-8, or a failed read
   "unparsable",       \* not even the identity can be recovered
   "unknown_field",    \* strict parse fails, identity recoverable
   "foreign_version",  \* the same, of an unsupported protocol version
   "version",          \* parses, but names an unsupported version
   "fields",           \* options, hashes, contract, deadline, fingerprint
   "context",          \* executionContext.attempt is 0
   "derivation"}       \* derivationKey is not the recomputed one

Environment ==
  [fingerprint: BOOLEAN,   \* resolve_toolchain_fingerprint is Ok
   binaries: BOOLEAN,      \* resolve_toolchain_binaries is Ok
   input: InputState]

CONSTANTS
  Requests,       \* the requests the Host may send
  Environments,   \* what the process may find around it
  Lines,          \* what may arrive on stdin after the first line
  HashChunks,     \* 1 MiB chunks in the staged input
  StagingFaults,  \* which StagingRoot::new may fail: "open", "reopen"
  StdoutMayFail   \* can a write to stdout fail?

ASSUME RequestsAssumption ==
  Requests \subseteq [operation: Operation, defect: Defect]
ASSUME EnvironmentsAssumption == Environments \subseteq Environment
ASSUME LinesAssumption == Lines \subseteq LineKind
ASSUME HashChunksAssumption == HashChunks \in Nat
ASSUME StagingFaultsAssumption == StagingFaults \subseteq {"open", "reopen"}
ASSUME StdoutAssumption == StdoutMayFail \in BOOLEAN

VARIABLES
  request, env,                    \* fixed by the Host and the machine
  cancelled, timedOut, violation,  \* RunControl
  reader, cancelSeen,              \* the reader thread and its validator
  timer,                           \* the deadline thread
  pc, backend, chunks, outcome,    \* the main thread
  calls, child, sawCancel, capped, \* the tool call in progress
  stream, lost, exit               \* events emitted, undelivered; exit code

vars ==
  <<request, env, cancelled, timedOut, violation, reader, cancelSeen, timer,
    pc, backend, chunks, outcome, calls, child, sawCancel, capped, stream,
    lost, exit>>

given       == <<request, env>>
control     == <<cancelled, timedOut, violation>>
readerVars  == <<reader, cancelSeen>>
threads     == <<control, readerVars, timer>>
toolVars    == <<calls, child, sawCancel, capped>>
output      == <<stream, lost, exit>>

EchoOf(r) == IF r.defect = "context" THEN "attempt_zero" ELSE "valid"

ES == INSTANCE EventStream
        WITH Echo <- {"valid", "attempt_zero"}, ValidEcho <- {"valid"},
             Stage <- {"probe", "preview", "audio"}, Total <- 2

Pc ==
  {"start", "validate", "unvalidated", "hash", "accept", "pre_violation",
   "pre_timeout", "pre_cancel", "progress", "call", "poll", "wait",
   "classify", "post_violation", "post_timeout", "post_outcome", "complete",
   "exited"}

Init ==
  /\ request \in Requests
  /\ env \in Environments
  /\ cancelled = FALSE /\ timedOut = FALSE /\ violation = FALSE
  /\ reader = "off" /\ cancelSeen = FALSE
  /\ timer = "off"
  /\ pc = "start" /\ backend = None /\ chunks = HashChunks /\ outcome = None
  /\ calls = <<>> /\ child = "none" /\ sawCancel = FALSE /\ capped = FALSE
  /\ stream = <<>> /\ lost = {} /\ exit = 0

-----------------------------------------------------------------------------
(* Emitting.  An event that could not be written is in `lost`; from then   *)
(* on the exit code is ENGINE_INTERNAL's, whatever the run returns.        *)

Emit(e) ==
  /\ stream' = Append(stream, e)
  /\ \/ lost' = lost
     \/ StdoutMayFail /\ lost' = lost \union {e.sequence}

\* Faulty variant: an undelivered event does not change the exit code.
FinishIgnoringLoss(e, code) == Emit(e) /\ exit' = code /\ pc' = "exited"

Finish(e, code) ==
  /\ Emit(e)
  /\ exit' = IF lost' # {} THEN ExitCode("ENGINE_INTERNAL") ELSE code
  /\ pc' = "exited"

\* terminal_failure
TerminalFailure(type, n, code) ==
  Finish(ES!FailureEvent(type, n, code, EchoOf(request)), ExitCode(code))

\* emit_failed: a request refused before `accepted`.
Refuse(code) == TerminalFailure("failed", 1, code)

GoTo(label) == pc' = label /\ UNCHANGED output

-----------------------------------------------------------------------------
(* The main thread: from the first line to `accepted`.                     *)

\* run_run_command up to the moment the control threads are started.
Start ==
  /\ pc = "start"
  /\ UNCHANGED <<given, control, cancelSeen, chunks, outcome, toolVars>>
  /\ \/ /\ request.defect \in {"no_line", "unparsable"}
        /\ pc' = "exited" /\ exit' = 2
        /\ UNCHANGED <<stream, lost, reader, timer, backend>>
     \/ /\ request.defect = "unknown_field"
        /\ Refuse("INVALID_REQUEST")
        /\ UNCHANGED <<reader, timer, backend>>
     \/ /\ request.defect = "foreign_version"
        /\ Refuse("UNSUPPORTED_PROTOCOL")
        /\ UNCHANGED <<reader, timer, backend>>
     \/ /\ request.defect \in
             {"none", "version", "fields", "context", "derivation"}
        /\ reader' = "reading"
        /\ timer' = "armed"
        /\ backend' = IF env.binaries THEN "probe" ELSE "unavailable"
        /\ GoTo(IF env.fingerprint THEN "validate" ELSE "unvalidated")

\* Faulty variant: the derivation key is not recomputed.
ValidateWithoutDerivation ==
  /\ pc = "validate"
  /\ UNCHANGED <<given, threads, backend, chunks, outcome, toolVars>>
  /\ IF request.defect \in {"fields", "context"}
     THEN Refuse("INVALID_REQUEST") ELSE GoTo("hash")

\* validate_request up to the staged-input hash.
Validate ==
  /\ pc = "validate"
  /\ UNCHANGED <<given, threads, backend, chunks, outcome, toolVars>>
  /\ \/ request.defect = "version" /\ Refuse("UNSUPPORTED_PROTOCOL")
     \/ /\ request.defect \in {"fields", "context", "derivation"}
        /\ Refuse("INVALID_REQUEST")
     \/ /\ request.defect = "none"
        /\ "open" \in StagingFaults \/ env.input = "missing"
        /\ Refuse("INPUT_NOT_FOUND")
     \/ /\ request.defect = "none"
        /\ env.input # "missing"
        /\ GoTo("hash")

\* No toolchain fingerprint: validate_request is skipped altogether and only
\* the staging root is opened.
SkipValidation ==
  /\ pc = "unvalidated"
  /\ UNCHANGED <<given, threads, backend, chunks, outcome, toolVars>>
  /\ \/ "open" \in StagingFaults /\ Refuse("TOOL_UNAVAILABLE")
     \/ GoTo("accept")

\* hash_file_cancellable, one load of the flag and one chunk at a time, and
\* verify_staged_source after the last one.
Hash ==
  /\ pc = "hash"
  /\ UNCHANGED <<given, threads, backend, outcome, toolVars>>
  /\ \/ /\ env.input = "unreadable"
        /\ Refuse("INPUT_NOT_FOUND") /\ UNCHANGED chunks
     \/ /\ ~cancelled /\ chunks > 0
        /\ chunks' = chunks - 1 /\ GoTo("hash")
     \/ /\ ~cancelled /\ chunks = 0 /\ env.input = "match"
        /\ GoTo("accept") /\ UNCHANGED chunks
     \/ /\ ~cancelled /\ chunks = 0 /\ env.input = "changed"
        /\ Refuse("INPUT_CHANGED") /\ UNCHANGED chunks

\* Faulty variant: the interruption is reported like any refused request.
RefuseInterrupted ==
  /\ pc = "hash"
  /\ cancelled
  /\ Refuse("CANCELLED")
  /\ UNCHANGED <<given, threads, backend, chunks, outcome, toolVars>>

\* The hash saw the flag.  The session runs on a backend that cannot work, so
\* that `accepted` and the terminal event of the interruption are emitted.
HashInterrupted ==
  /\ pc = "hash"
  /\ cancelled
  /\ UNCHANGED <<given, threads, chunks, outcome, toolVars>>
  /\ \/ backend' = "unavailable" /\ GoTo("accept")
     \/ /\ "reopen" \in StagingFaults
        /\ Refuse("CANCELLED") /\ UNCHANGED backend

-----------------------------------------------------------------------------
(* The main thread: run_session.                                           *)

Accept ==
  /\ pc = "accept"
  /\ Emit(ES!PlainEvent("accepted", 1, EchoOf(request)))
  /\ pc' = "pre_violation"
  /\ UNCHANGED <<given, threads, backend, chunks, outcome, toolVars, exit>>

\* The three loads before any media work, in this order.
PreViolation ==
  /\ pc = "pre_violation"
  /\ IF violation THEN TerminalFailure("failed", 2, "INVALID_REQUEST")
                  ELSE GoTo("pre_timeout")
  /\ UNCHANGED <<given, threads, backend, chunks, outcome, toolVars>>

PreTimeout ==
  /\ pc = "pre_timeout"
  /\ IF timedOut THEN TerminalFailure("timed_out", 2, "TIMEOUT")
                 ELSE GoTo("pre_cancel")
  /\ UNCHANGED <<given, threads, backend, chunks, outcome, toolVars>>

PreCancel ==
  /\ pc = "pre_cancel"
  /\ IF cancelled THEN TerminalFailure("cancelled", 2, "CANCELLED")
                  ELSE GoTo("progress")
  /\ UNCHANGED <<given, threads, backend, chunks, outcome, toolVars>>

\* Faulty variant: a total that counts ffprobe as well.
StageTotalWithProbe(op) == IF op = "extract_preview" THEN 3 ELSE 2

StageTotal(op) == IF op = "extract_preview" THEN 2 ELSE 1

StageOf(op) ==
  CASE op = "probe"             -> "probe"
    [] op = "extract_preview"   -> "preview"
    [] op = "extract_audio_pcm" -> "audio"

\* Every operation of the real backend starts with ffprobe.
Progress ==
  /\ pc = "progress"
  /\ Emit(ES!ProgressEvent(2, StageOf(request.operation), 0,
                           StageTotal(request.operation), EchoOf(request)))
  /\ calls' = <<"ffprobe">>
  /\ pc' = "call"
  /\ UNCHANGED <<given, threads, backend, chunks, outcome, child, sawCancel,
                 capped, exit>>

-----------------------------------------------------------------------------
(* The media backend.                                                      *)

\* Faulty variant: every tool time-out is reported as the request's deadline.
CapIsTimeout == "TIMEOUT"

\* A tool that ran into its own time cap is a resource limit, unless the
\* request's deadline has passed as well.
CapFailure == IF timedOut THEN "TIMEOUT" ELSE "RESOURCE_LIMIT"

\* The backend returns, with "ok" or with the code of its MediaFailure.
Return(result) ==
  /\ outcome' = result
  /\ GoTo("post_violation")

\* All tools done.  The manifest of an extraction repeats the derivation key,
\* which cannot match when the placeholder fingerprint stands in.
Result ==
  IF request.operation # "probe" /\ ~env.fingerprint
  THEN "ENGINE_INTERNAL" ELSE "ok"

Call ==
  /\ pc = "call"
  /\ UNCHANGED <<given, threads, backend, chunks, calls>>
  /\ \/ /\ backend = "unavailable"
        /\ Return("TOOL_UNAVAILABLE")
        /\ UNCHANGED <<child, sawCancel, capped>>
     \/ /\ backend = "probe" /\ calls = <<>>
        /\ Return(Result)
        /\ UNCHANGED <<child, sawCancel, capped>>
     \/ /\ backend = "probe" /\ calls # <<>>
        /\ \E code \in SpawnFailure(Head(calls)) : Return(code)
        /\ UNCHANGED <<child, sawCancel, capped>>
     \/ /\ backend = "probe" /\ calls # <<>>
        /\ child' = "running" /\ sawCancel' = FALSE /\ capped' = FALSE
        /\ GoTo("poll") /\ UNCHANGED outcome

\* Faulty variant: the flag is only looked at before the tool is started.
PollWithoutFlag ==
  /\ pc = "poll"
  /\ capped' \in {capped, TRUE}
  /\ child' = IF capped' /\ child = "running" THEN "killed" ELSE child
  /\ GoTo("wait")
  /\ UNCHANGED <<given, threads, backend, chunks, outcome, calls, sawCancel>>

\* One turn of process::run's loop up to try_wait: the flag, then the tool's
\* own time cap, each answered with a kill.
Poll ==
  /\ pc = "poll"
  /\ sawCancel' = (sawCancel \/ cancelled)
  /\ capped' \in {capped, TRUE}
  /\ child' = IF (sawCancel' \/ capped') /\ child = "running"
              THEN "killed" ELSE child
  /\ GoTo("wait")
  /\ UNCHANGED <<given, threads, backend, chunks, outcome, calls>>

\* Faulty variant: a failed wait returns without killing the child.
WaitWithoutReaping ==
  /\ pc = "wait"
  /\ UNCHANGED <<given, threads, backend, chunks, calls, sawCancel, capped>>
  /\ \/ GoTo(IF child \in {"running", "killed"} THEN "poll" ELSE "classify")
        /\ UNCHANGED <<child, outcome>>
     \/ Return("ENGINE_INTERNAL") /\ UNCHANGED child

\* try_wait.  "succeeded" and "failed" are exited processes; a failed wait
\* kills and reaps before it returns, and a pipe that a grandchild keeps open
\* for two seconds after the exit is a read error.
Wait ==
  /\ pc = "wait"
  /\ UNCHANGED <<given, threads, backend, chunks, calls, sawCancel, capped>>
  /\ \/ child \in {"running", "killed"} /\ GoTo("poll")
        /\ UNCHANGED <<child, outcome>>
     \/ child \in {"succeeded", "failed"} /\ GoTo("classify")
        /\ UNCHANGED <<child, outcome>>
     \/ Return("ENGINE_INTERNAL") /\ child' = "none"

Report(code) == Return(code) /\ UNCHANGED calls

\* On to the operation's next tool.
Proceed ==
  /\ calls' \in IF Head(calls) = "ffprobe" THEN FollowUps(request.operation)
                                           ELSE {Tail(calls)}
  /\ GoTo("call")
  /\ UNCHANGED outcome

\* The mapping of a ProcessOutput to the caller's error, and
\* classify_probe_error, classify_preview_error and classify_audio_error.
Classify ==
  LET tool == Head(calls) IN
  /\ pc = "classify"
  /\ child' = "none"
  /\ UNCHANGED <<given, threads, backend, chunks, sawCancel, capped>>
  /\ \/ sawCancel /\ Report(IF timedOut THEN "TIMEOUT" ELSE "CANCELLED")
     \/ capped /\ ~sawCancel /\ Report(CapFailure)
     \/ /\ ~sawCancel /\ ~capped /\ child = "failed"
        /\ \E code \in ExitFailure(tool) \ Skippable(tool) : Report(code)
     \/ /\ ~sawCancel /\ ~capped /\ child = "succeeded"
        /\ \E code \in ResultFailure(request.operation, tool)
                         \ Skippable(tool) : Report(code)
     \/ /\ ~sawCancel /\ ~capped
        /\ child = "succeeded" \/ Skippable(tool) # {}
        /\ Proceed

-----------------------------------------------------------------------------
(* The main thread: from the backend's answer to the terminal event.       *)

\* Faulty variants: the deadline is looked at before the violation, and the
\* violation instead of the deadline.
DeadlineBeforeViolation ==
  /\ pc = "post_violation"
  /\ IF timedOut THEN TerminalFailure("timed_out", 3, "TIMEOUT")
     ELSE IF violation THEN TerminalFailure("failed", 3, "INVALID_REQUEST")
     ELSE GoTo("post_timeout")
  /\ UNCHANGED <<given, threads, backend, chunks, outcome, toolVars>>

NoDeadlineCheck ==
  /\ pc = "post_timeout"
  /\ GoTo("post_outcome")
  /\ UNCHANGED <<given, threads, backend, chunks, outcome, toolVars>>

PostViolation ==
  /\ pc = "post_violation"
  /\ IF violation THEN TerminalFailure("failed", 3, "INVALID_REQUEST")
                  ELSE GoTo("post_timeout")
  /\ UNCHANGED <<given, threads, backend, chunks, outcome, toolVars>>

PostTimeout ==
  /\ pc = "post_timeout"
  /\ IF timedOut THEN TerminalFailure("timed_out", 3, "TIMEOUT")
                 ELSE GoTo("post_outcome")
  /\ UNCHANGED <<given, threads, backend, chunks, outcome, toolVars>>

\* Faulty variant: a result that is ready wins over a late cancellation.
PostOutcomeIgnoringCancel ==
  /\ pc = "post_outcome"
  /\ IF outcome = "ok" THEN GoTo("complete")
     ELSE TerminalFailure(TerminalKind(outcome), 3, outcome)
  /\ UNCHANGED <<given, threads, backend, chunks, outcome, toolVars>>

\* A result is held back by one last load of the flag; a failure is reported
\* as what it is.
PostOutcome ==
  /\ pc = "post_outcome"
  /\ UNCHANGED <<given, threads, backend, chunks, outcome, toolVars>>
  /\ \/ outcome = "ok" /\ ~cancelled /\ GoTo("complete")
     \/ /\ outcome = "ok" /\ cancelled
        /\ TerminalFailure("cancelled", 3, "CANCELLED")
     \/ /\ outcome = "TIMEOUT"
        /\ TerminalFailure("timed_out", 3, "TIMEOUT")
     \/ /\ outcome = "CANCELLED"
        /\ TerminalFailure("cancelled", 3, "CANCELLED")
     \/ /\ outcome \notin {"ok", "TIMEOUT", "CANCELLED"}
        /\ TerminalFailure("failed", 3, outcome)

\* The result goes out.  Nothing is looked at any more: what raises the flag
\* from here on comes too late.
Complete ==
  /\ pc = "complete"
  /\ Finish(ES!PlainEvent("completed", 3, EchoOf(request)), 0)
  /\ UNCHANGED <<given, threads, backend, chunks, outcome, toolVars>>

Main ==
  \/ Start \/ Validate \/ SkipValidation \/ Hash \/ HashInterrupted
  \/ Accept \/ PreViolation \/ PreTimeout \/ PreCancel \/ Progress
  \/ Call \/ Poll \/ Wait \/ Classify
  \/ PostViolation \/ PostTimeout \/ PostOutcome \/ Complete

-----------------------------------------------------------------------------
(* The other threads and the child process.  The process exit takes the    *)
(* threads with it.                                                        *)

mainVars == <<pc, backend, chunks, outcome>>

\* Faulty variant: the end of stdin cancels the run.
ReadLineEofCancels ==
  /\ pc # "exited" /\ reader = "reading"
  /\ \E line \in Lines \intersect {"cancel", "eof"} :
       /\ cancelled' = TRUE
       /\ cancelSeen' = (cancelSeen \/ line = "cancel")
       /\ reader' = IF line = "eof" THEN "done" ELSE reader
  /\ UNCHANGED <<given, timedOut, violation, timer, mainVars, toolVars,
                 output>>

\* read_control_lines and handle_line: one line.  A blank line is no step.
\* Both request_cancel and record_violation store the cancellation flag first.
ReadLine ==
  /\ pc # "exited" /\ reader = "reading"
  /\ \E line \in Lines :
       \/ /\ IsAcceptedCancel(line, cancelSeen)
          /\ cancelSeen' = TRUE /\ cancelled' = TRUE
          /\ UNCHANGED reader
       \/ /\ IsViolation(line, cancelSeen)
          /\ cancelled' = TRUE /\ reader' = "recording"
          /\ UNCHANGED cancelSeen
       \/ /\ line = "eof"
          /\ reader' = "done"
          /\ UNCHANGED <<cancelSeen, cancelled>>
  /\ UNCHANGED <<given, timedOut, violation, timer, mainVars, toolVars,
                 output>>

\* The second store of record_violation; the loop ends with it.
RecordViolation ==
  /\ pc # "exited" /\ reader = "recording"
  /\ violation' = TRUE /\ reader' = "done"
  /\ UNCHANGED <<given, cancelled, timedOut, cancelSeen, timer, mainVars,
                 toolVars, output>>

\* The deadline thread wakes up: request_timeout, one store at a time.
DeadlineStore ==
  /\ pc # "exited" /\ timer = "armed"
  /\ timedOut' = TRUE /\ timer' = "fired"
  /\ UNCHANGED <<given, cancelled, violation, readerVars, mainVars, toolVars,
                 output>>

\* Faulty variant: the deadline is recorded but does not stop the operation.
DeadlineWithoutCancel ==
  /\ pc # "exited" /\ timer = "fired"
  /\ timer' = "done"
  /\ UNCHANGED <<given, control, readerVars, mainVars, toolVars, output>>

DeadlineCancel ==
  /\ pc # "exited" /\ timer = "fired"
  /\ cancelled' = TRUE /\ timer' = "done"
  /\ UNCHANGED <<given, timedOut, violation, readerVars, mainVars, toolVars,
                 output>>

ToolExits ==
  /\ child = "running"
  /\ child' \in {"succeeded", "failed"}
  /\ UNCHANGED <<given, threads, mainVars, calls, sawCancel, capped, output>>

KilledToolDies ==
  /\ child = "killed"
  /\ child' = "failed"
  /\ UNCHANGED <<given, threads, mainVars, calls, sawCancel, capped, output>>

\* The process is gone.
Exited == pc = "exited" /\ UNCHANGED vars

Next ==
  \/ Main
  \/ ReadLine \/ RecordViolation \/ DeadlineStore \/ DeadlineCancel
  \/ ToolExits \/ KilledToolDies
  \/ Exited

Spec == Init /\ [][Next]_vars

\* The main thread is scheduled and SIGKILL works.  The Host need not send
\* anything, a tool need not stop by itself and no deadline need pass.
FairSpec == Spec /\ WF_vars(Main) /\ WF_vars(KilledToolDies)

\* The deadline thread is scheduled and time passes.
DeadlinePasses == WF_vars(DeadlineStore) /\ WF_vars(DeadlineCancel)

-----------------------------------------------------------------------------
Suffixes ==
  {<<>>, <<"ffprobe">>, <<"opening">>, <<"opening", "midpoint">>,
   <<"midpoint">>, <<"extract">>}

\* Everything has its type; `outcome` carries a result only once the backend
\* has returned and `calls` is what is left of one operation's tool calls.
TypeOK ==
  /\ request \in Requests /\ env \in Environments
  /\ cancelled \in BOOLEAN /\ timedOut \in BOOLEAN /\ violation \in BOOLEAN
  /\ reader \in {"off", "reading", "recording", "done"}
  /\ cancelSeen \in BOOLEAN
  /\ timer \in {"off", "armed", "fired", "done"}
  /\ pc \in Pc
  /\ backend \in {None, "probe", "unavailable"}
  /\ chunks \in 0 .. HashChunks
  /\ outcome \in {None, "ok"} \union ErrorCode
  /\ calls \in Suffixes
  /\ child \in {"none", "running", "killed", "succeeded", "failed"}
  /\ sawCancel \in BOOLEAN /\ capped \in BOOLEAN
  /\ stream \in Seq(ES!EventRecord)
  /\ lost \subseteq 1 .. 3
  /\ exit \in {0, 1, 2, 3, 124, 130}

Last == stream[Len(stream)]
Ended(types) == ES!Has(stream, types)

\* The exit status tells the Host what it may believe: 1 as soon as one event
\* was not delivered, otherwise exactly what the last event requires, and 2
\* for a first line so broken that nothing was emitted (emit_events, the
\* contract's exit matrix).
HostCanTrustExit ==
  pc = "exited" =>
    exit = IF lost # {} THEN 1
           ELSE IF stream = <<>> THEN 2
           ELSE ES!RequiredExit(Last)

\* TIMEOUT is only ever reported for the request's own deadline: neither the
\* 120 s cap of a tool nor a host cancellation that arrives while a tool is
\* being killed can turn into a timed_out event.
TimeoutNeedsDeadline ==
  Ended({"timed_out"}) \/ outcome = "TIMEOUT" => timedOut

\* With a known toolchain, no tool ever opens a snapshot that was not hashed
\* to the declared digest under a valid request: the interrupted hash leaves
\* the main thread on the normal path but without a backend that can work.
ToolRunsOnVerifiedInput ==
  child # "none" /\ env.fingerprint =>
    request.defect = "none" /\ env.input = "match" /\ chunks = 0

\* The terminal event is the last thing that happens: no child process is
\* still running, or unreaped, when it is on stdout.
NoTerminalWhileToolRuns == Ended(TerminalType) => child = "none"

\* Only a cancel line, a protocol violation or the deadline interrupts a run;
\* closing stdin or sending blank lines does not (EOF is not a cancel).
InterruptionHasACause ==
  Ended({"cancelled"}) =>
    cancelSeen \/ timedOut \/ violation \/ reader = "recording"

\* A violation recorded before main looks for it is what the run reports: no
\* deadline, cancellation or finished result takes its place.
ViolationIsNeverOutranked ==
  [](violation /\ pc \notin {"pre_timeout", "pre_cancel", "post_timeout",
                             "post_outcome", "complete", "exited"}
     => []~Ended({"completed", "cancelled", "timed_out"}))

\* A deadline that passed before main looks for it is never reported as a
\* cancellation or as success.
DeadlineIsNeverOutranked ==
  [](timedOut /\ pc \notin {"pre_cancel", "post_outcome", "complete", "exited"}
     => []~Ended({"completed", "cancelled"}))

\* Once the cancellation flag is up before main looks at it for the last time,
\* whoever raised it and wherever main is, the run does not complete, even if
\* the tool had already succeeded.
InterruptNeverCompletes ==
  [](cancelled /\ pc \notin {"complete", "exited"} => []~Ended({"completed"}))

\* The stdout of every run is a stream that EventStreamValidator accepts.
StreamIsValid == ES!Spec

\* Every run whose deadline can pass ends, with a silent Host and a tool that
\* hangs forever: the deadline raises the flag, the poll loop sees it, the
\* kill is final.
Terminates == DeadlinePasses => <>(pc = "exited")

\* A raised flag ends the run by itself: stopping a hung tool takes neither
\* the deadline nor another word from the Host.
InterruptStopsTheRun == cancelled ~> pc = "exited"

-----------------------------------------------------------------------------
(* What the repository says of the program and the code does not keep.     *)

\* cli.rs: without a toolchain fingerprint the request "still gets `accepted`
\* followed by a controlled TOOL_UNAVAILABLE failure".
NoResultWithoutFingerprint == ~env.fingerprint => ~Ended({"completed"})

\* The contract's matrix: CANCELLED means that the Host cancelled explicitly.
CancelledMeansHostCancelled == Ended({"cancelled"}) => cancelSeen

\* EventEnvelope::validate: CANCELLED requires its own terminal event.
FailedNeverCarriesCancelled ==
  \A i \in DOMAIN stream :
    stream[i].type = "failed" => stream[i].code # "CANCELLED"

\* EventEnvelope::validate: every event echoes a valid executionContext.
EchoIsValid == \A i \in DOMAIN stream : stream[i].echo = "valid"

=============================================================================
