------------------------------ MODULE Protocol ------------------------------
(***************************************************************************)
(* The vocabulary of Protocol 0.1 that every other module shares: the      *)
(* operations, the frozen error codes with the exit code the contract      *)
(* matrix gives each of them, and the event types.  Wire names are kept.   *)
(*                                                                         *)
(* crates/scene-core-protocol/src/{error,operation,event}.rs               *)
(***************************************************************************)
EXTENDS Naturals

\* Absence of an optional value (Rust's None).
None == "none"

Operation == {"probe", "extract_preview", "extract_audio_pcm"}

ErrorCode ==
  {"INVALID_REQUEST", "UNSUPPORTED_PROTOCOL", "OPERATION_UNAVAILABLE",
   "INPUT_NOT_FOUND", "INPUT_CHANGED", "UNSUPPORTED_INPUT", "CORRUPT_MEDIA",
   "MISSING_VIDEO_STREAM", "MISSING_AUDIO_STREAM", "RESOURCE_LIMIT",
   "TOOL_UNAVAILABLE", "TOOL_FAILED", "TIMEOUT", "CANCELLED",
   "ENGINE_INTERNAL"}

\* The codes the matrix maps to exit 3: the media or the tool is at fault.
MediaCode ==
  {"UNSUPPORTED_INPUT", "CORRUPT_MEDIA", "MISSING_VIDEO_STREAM",
   "MISSING_AUDIO_STREAM", "RESOURCE_LIMIT", "TOOL_FAILED"}

ExitCode(code) ==
  CASE code = "ENGINE_INTERNAL" -> 1
    [] code \in MediaCode       -> 3
    [] code = "TIMEOUT"         -> 124
    [] code = "CANCELLED"       -> 130
    [] OTHER                    -> 2

\* The terminal event family a code must end with.
TerminalKind(code) ==
  CASE code = "TIMEOUT"   -> "timed_out"
    [] code = "CANCELLED" -> "cancelled"
    [] OTHER              -> "failed"

EventType ==
  {"accepted", "running", "progress", "completed", "failed", "cancelled",
   "timed_out"}

TerminalType == {"completed", "failed", "cancelled", "timed_out"}

=============================================================================
