---------------------------- MODULE AudioWindow -----------------------------
(***************************************************************************)
(* The arithmetic of extract_audio_pcm, in milliseconds of material time:  *)
(* which window of the stream is asked for, how large the result would be, *)
(* and how long the decoded result may be.                                 *)
(*                                                                         *)
(* crates/scene-core-engine/src/run.rs, crates/scene-core-media/src/audio.rs *)
(***************************************************************************)
EXTENDS Options

CONSTANTS
  U64Max,          \* the largest u64
  MaxOutputBytes   \* MAX_OUTPUT_BYTES

ASSUME U64MaxAssumption == U64Max \in Nat
ASSUME MaxOutputBytesAssumption == MaxOutputBytes \in Nat
\* An estimate that has been cut off at the largest value is over the limit.
ASSUME LimitAssumption == 1000 * (MaxOutputBytes + 1) <= U64Max

BytesPerSample == 2

\* u64 arithmetic that stays at the largest value.
Saturated(n) == Least(n, U64Max)

\* estimate_output_bytes
EstimatedBytes(duration, rate, channels) ==
  Saturated(Saturated(Saturated(duration * rate) * channels) * BytesPerSample)
    \div 1000

\* WavInfo::duration_ms
DurationMs(samples, rate) == IF rate = 0 THEN 0 ELSE (samples * 1000) \div rate

\* material_start_ms: pre-roll before the container origin is cut off.
MaterialStart(streamStart) == Greatest(streamStart, 0)

\* The end of the track; a stream without a duration ends with its container.
StreamEnd(streamStart, duration, containerDuration) ==
  IF duration = {} THEN containerDuration
  ELSE {Saturated(MaterialStart(streamStart) + Or(duration, 0))}

RequestedStart(options) == Or(options.start, 0)

\* The requested end, moved to the end of the track when that is known.
WindowEnd(options, streamEnd) ==
  Least(Or(options.end, U64Max),
        IF streamEnd = {} THEN U64Max
        ELSE Greatest(Or(streamEnd, 0), RequestedStart(options)))

\* saturating_sub
WindowLength(options, streamEnd) ==
  Greatest(WindowEnd(options, streamEnd) - RequestedStart(options), 0)

\* The material time of the first output sample.
ActualStart(options, streamStart) ==
  Greatest(RequestedStart(options), MaterialStart(streamStart))

\* Faulty variant: the length is counted from the requested start.
ExpectedFromRequest(options, streamStart, streamEnd) ==
  WindowLength(options, streamEnd)

ExpectedLength(options, streamStart, streamEnd) ==
  LET from == ActualStart(options, streamStart)
  IN  Greatest(WindowEnd(options, streamEnd), from) - from

Tolerance(length) == Greatest(length \div 100, 1000)

\* Faulty variant: a result that is too long fits.
FitsUnlessShort(actual, expected) == expected - actual <= Tolerance(expected)

\* The continuity guard on the decoded result.
FitsWindow(actual, expected) ==
  /\ actual - expected <= Tolerance(expected)
  /\ expected - actual <= Tolerance(expected)

=============================================================================
