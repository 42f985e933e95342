---------------------------- MODULE ControlStream ----------------------------
(***************************************************************************)
(* What one line on stdin means once the StartRequest has been read.  A    *)
(* line is abstracted to its kind: everything ControlSession::handle_line, *)
(* parse_control_line and ControlStreamValidator::accept can tell apart.   *)
(* The validator's only moving field is whether a cancel was accepted.     *)
(*                                                                         *)
(* crates/scene-core-protocol/src/control.rs, scene-core-engine/src/run.rs *)
(***************************************************************************)

LineKind ==
  {"blank",               \* white space only
   "cancel",              \* CancelRequest for this request
   "foreign_cancel",      \* CancelRequest that names another requestId
   "unsupported_cancel",  \* CancelRequest of another protocol version
   "start",               \* a second StartRequest
   "garbage",             \* not strict JSON, BOM, unknown message type
   "oversized",           \* no newline within the 1 MiB line cap
   "not_utf8",
   "io_error",            \* the read itself failed
   "eof"}

\* The line is the one CancelRequest the validator accepts.
IsAcceptedCancel(line, cancelSeen) == line = "cancel" /\ ~cancelSeen

\* The line ends in RunControl::record_violation.
IsViolation(line, cancelSeen) ==
  \/ line \in LineKind \ {"blank", "cancel", "eof"}
  \/ line = "cancel" /\ cancelSeen

=============================================================================
