-------------------------- MODULE BackendFailures ---------------------------
(***************************************************************************)
(* What the media backend may return and when: the tools each operation    *)
(* runs, and the error codes each of them can end with.  RunSession takes  *)
(* its answers from these sets; Extraction, which models the backend in    *)
(* detail, is checked to stay within them.                                 *)
(*                                                                         *)
(* crates/scene-core-engine/src/run.rs and the tool modules of             *)
(* scene-core-media                                                        *)
(***************************************************************************)
EXTENDS Protocol

Tool == {"ffprobe", "opening", "midpoint", "extract"}

\* The tools an operation still has to run once ffprobe has answered; the
\* midpoint frame is only requested for a known, positive duration.
FollowUps(op) ==
  CASE op = "probe"             -> {<<>>}
    [] op = "extract_preview"   -> {<<"opening">>, <<"opening", "midpoint">>}
    [] op = "extract_audio_pcm" -> {<<"extract">>}

\* Failures before the child exists: containment, output directory, spawn.
SpawnFailure(tool) ==
  IF tool = "ffprobe"
  THEN {"UNSUPPORTED_INPUT", "TOOL_UNAVAILABLE"}
  ELSE {"INVALID_REQUEST", "RESOURCE_LIMIT", "TOOL_UNAVAILABLE"}

\* What a non-zero exit is classified as, from the tool's own output.
ExitFailure(tool) ==
  IF tool = "ffprobe"
  THEN {"RESOURCE_LIMIT", "CORRUPT_MEDIA", "UNSUPPORTED_INPUT"}
  ELSE {"RESOURCE_LIMIT", "TOOL_FAILED"}

\* What a zero exit can still turn into when its result is inspected.
ProbeResultFailure(op) ==
  CASE op = "probe"             -> {"ENGINE_INTERNAL", "UNSUPPORTED_INPUT"}
    [] op = "extract_preview"   -> {"ENGINE_INTERNAL", "UNSUPPORTED_INPUT",
                                    "MISSING_VIDEO_STREAM"}
    [] op = "extract_audio_pcm" -> {"ENGINE_INTERNAL", "UNSUPPORTED_INPUT",
                                    "MISSING_AUDIO_STREAM", "RESOURCE_LIMIT"}

ResultFailure(op, tool) ==
  CASE tool = "ffprobe" -> ProbeResultFailure(op)
    [] tool = "extract" -> {"TOOL_FAILED", "ENGINE_INTERNAL",
                            "UNSUPPORTED_INPUT"}
    [] OTHER            -> {"TOOL_FAILED", "ENGINE_INTERNAL"}

\* A midpoint frame that could not be produced is skipped, not reported.
Skippable(tool) == IF tool = "midpoint" THEN {"TOOL_FAILED"} ELSE {}

=============================================================================
