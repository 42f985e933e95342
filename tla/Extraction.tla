----------------------------- MODULE Extraction -----------------------------
(***************************************************************************)
(* What ProbeBackend does once ffprobe has answered: for each frame, or    *)
(* for the audio track, the tool writes a temporary file, which is renamed *)
(* into output/, inspected, hashed and listed; the list becomes the        *)
(* manifest.  A tool can fail in every way at every point and the Host may *)
(* kill the engine between any two steps, so what lies in output/ is state *)
(* of its own.                                                             *)
(*                                                                         *)
(* crates/scene-core-engine/src/run.rs; preview.rs, audio.rs and           *)
(* staging.rs of scene-core-media; manifest.rs of scene-core-protocol      *)
(***************************************************************************)
EXTENDS AudioWindow, BackendFailures, Sequences

Slot == {"opening", "midpoint", "extract"}

\* What a tool leaves in a file.  `header` is what jpeg_dimensions or
\* wav_info make of it: dimensions or PCM facts, a zero among them, or none.
Content == [whole: BOOLEAN, header: {"ok", "zero", "bad"}, samples: Nat]

\* AudioPcmOptions, of a validated request; the window is given in u64s.
AudioOptions ==
  [index: Option(Nat), start: Option(0 .. U64Max), end: Option(0 .. U64Max),
   rate: Option(Nat \ {0}), channels: Option(Nat \ {0})]

\* NormalizedMedia: what the extraction reads of it.
MediaStream ==
  [index: Nat, kind: {"video", "audio", "other"}, attached: BOOLEAN,
   start: Option(Int), duration: Option(Nat),
   rate: Option(Nat \ {0}), channels: Option(Nat \ {0})]

Media ==
  [origin: BOOLEAN, duration: Option(Nat), streams: SUBSET MediaStream]

CONSTANTS
  Jobs,      \* operation, options and what ffprobe found
  Contents,  \* what the tools can write
  Faults     \* "link", "directory", "rename", "remove", "read": what fails

ASSUME ContentsAssumption == Contents \subseteq Content
ASSUME FaultsAssumption ==
  Faults \subseteq {"link", "directory", "rename", "remove", "read"}
ASSUME JobsAssumption ==
  \A j \in Jobs :
    /\ j.operation \in {"extract_preview", "extract_audio_pcm"}
    /\ j.options \in AudioOptions
    /\ j.media \in Media
    /\ \A s, t \in j.media.streams : s.index = t.index => s = t

VARIABLES
  job,         \* fixed: the request and the probed media
  pc, todo,    \* the backend, and the slots it still has to fill
  tmp, out,    \* output/**/<slot>.tmp and the published file, or {}
  artifacts,   \* the list under construction
  result       \* "pending", "ok", a MediaFailure's code, "killed"

vars  == <<job, pc, todo, tmp, out, artifacts, result>>
files == <<tmp, out>>

Video(media) ==
  {s \in media.streams : s.kind = "video" /\ ~s.attached}
Audio(media) ==
  {s \in media.streams : s.kind = "audio" /\ ~s.attached}

\* The lowest index.  It is also the primary video stream, which the code takes
\* to be the first of its kind in the list: ffprobe lists streams by index.
Lowest(streams) ==
  CHOOSE s \in streams : \A other \in streams : s.index <= other.index

\* select_audio_stream: the requested one, or the lowest; {} if there is none.
Selected(j) ==
  LET wanted == {s \in Audio(j.media) : \/ j.options.index = {}
                                        \/ s.index \in j.options.index}
  IN  IF wanted = {} THEN {} ELSE {Lowest(wanted)}

Stream(j) == Lowest(Selected(j))
Start(j)  == Or(Stream(j).start, 0)
End(j)    == StreamEnd(Start(j), Stream(j).duration, j.media.duration)
Rate(j)     == OrElse(j.options.rate, Stream(j).rate)
Channels(j) == OrElse(j.options.channels, Stream(j).channels)

\* The last time a midpoint frame can be asked for.
MidpointBound(media) ==
  LET own == Lowest(Video(media)).duration IN
  IF own # {} /\ media.duration # {}
  THEN {Least(Or(own, 0), Or(media.duration, 0))}
  ELSE OrElse(own, media.duration)

Midpoint(media) == Or(MidpointBound(media), 0) \div 2

Init ==
  /\ job \in Jobs
  /\ pc = "plan" /\ todo = <<>>
  /\ tmp = [s \in Slot |-> {}] /\ out = [s \in Slot |-> {}]
  /\ artifacts = <<>> /\ result = "pending"

Fail(code) == pc' = "done" /\ result' = code
GoTo(label) == pc' = label /\ UNCHANGED result

-----------------------------------------------------------------------------
\* Which frames: the opening one, and the midpoint if it is not the opening.
PlanPreview ==
  /\ pc = "plan" /\ job.operation = "extract_preview"
  /\ UNCHANGED <<job, files, artifacts>>
  /\ \/ Video(job.media) = {} /\ Fail("MISSING_VIDEO_STREAM")
        /\ UNCHANGED todo
     \/ /\ Video(job.media) # {}
        /\ todo' = IF Midpoint(job.media) > 0
                   THEN <<"opening", "midpoint">> ELSE <<"opening">>
        /\ GoTo("prepare")

\* Faulty variant: one channel is counted.
TooLargeAsMono(j) ==
  /\ End(j) # {}
  /\ EstimatedBytes(WindowLength(j.options, End(j)), Or(Rate(j), 0), 1)
       > MaxOutputBytes

\* The size is only estimated when the end of the track is known, and an
\* unknown rate or channel count counts as zero.
TooLarge(j) ==
  /\ End(j) # {}
  /\ EstimatedBytes(WindowLength(j.options, End(j)), Or(Rate(j), 0),
                    Or(Channels(j), 0)) > MaxOutputBytes

PlanAudio ==
  /\ pc = "plan" /\ job.operation = "extract_audio_pcm"
  /\ UNCHANGED <<job, files, artifacts>>
  /\ IF ~job.media.origin THEN Fail("UNSUPPORTED_INPUT") /\ UNCHANGED todo
     ELSE IF Selected(job) = {}
     THEN Fail("MISSING_AUDIO_STREAM") /\ UNCHANGED todo
     ELSE IF Stream(job).start = {}
     THEN Fail("UNSUPPORTED_INPUT") /\ UNCHANGED todo
     ELSE IF TooLarge(job) THEN Fail("RESOURCE_LIMIT") /\ UNCHANGED todo
     ELSE todo' = <<"extract">> /\ GoTo("prepare")

-----------------------------------------------------------------------------
slot == Head(todo)

\* Containment of the output, its directory, containment of the temporary.
Prepare ==
  /\ pc = "prepare" /\ todo # <<>>
  /\ UNCHANGED <<job, todo, files, artifacts>>
  /\ \/ "link" \in Faults /\ Fail("INVALID_REQUEST")
     \/ "directory" \in Faults /\ Fail("RESOURCE_LIMIT")
     \/ GoTo("tool")

\* An unfinished tool leaves nothing, or some part of its output.
Leftover == {{}} \union {{c} : c \in Contents}

\* What is left of a file that the backend tries to remove.
AfterRemoval(file) == {{}} \union (IF "remove" \in Faults THEN {file} ELSE {})

Writes(file) == tmp' = [tmp EXCEPT ![slot] = file]

\* Nothing is listed for this slot; on to the next one.
Skip(file) ==
  /\ \E left \in AfterRemoval(file) : Writes(left)
  /\ todo' = Tail(todo)
  /\ GoTo("prepare")

\* Faulty variants: the tool writes to the published path (two actions); the
\* midpoint is not optional.
ToolStopsInPlace ==
  /\ pc = "tool"
  /\ UNCHANGED <<job, todo, tmp, artifacts>>
  /\ \E file \in Leftover : out' = [out EXCEPT ![slot] = file]
  /\ Fail("CANCELLED")

ToolFailsInPlace ==
  /\ pc = "tool" /\ slot = "midpoint"
  /\ UNCHANGED <<job, tmp, artifacts>>
  /\ \E file \in Leftover : out' = [out EXCEPT ![slot] = file]
  /\ todo' = Tail(todo) /\ GoTo("prepare")

ToolFailsForGood ==
  /\ pc = "tool"
  /\ UNCHANGED <<job, todo, out, artifacts>>
  /\ \E file \in Leftover : Writes(file)
  /\ \E code \in ExitFailure(slot) : Fail(code)

\* The tool cannot be started, is killed, or its wait or its output fails.
ToolStops ==
  /\ pc = "tool"
  /\ UNCHANGED <<job, todo, out, artifacts>>
  /\ \/ Fail("TOOL_UNAVAILABLE") /\ UNCHANGED tmp
     \/ /\ \E file \in Leftover : Writes(file)
        /\ \E code \in {"CANCELLED", "TIMEOUT", "RESOURCE_LIMIT",
                        "ENGINE_INTERNAL"} : Fail(code)

\* The tool fails by itself.
ToolFails ==
  /\ pc = "tool"
  /\ UNCHANGED <<job, out, artifacts>>
  /\ \E file \in Leftover :
       \/ /\ Writes(file) /\ UNCHANGED todo
          /\ \/ Fail("RESOURCE_LIMIT")
             \/ slot # "midpoint" /\ Fail("TOOL_FAILED")
       \/ slot = "midpoint" /\ Skip(file)

\* It succeeds, but there is no file: a midpoint after the last frame.
ToolWritesNothing ==
  /\ pc = "tool" /\ tmp[slot] = {}
  /\ UNCHANGED <<job, out, artifacts>>
  /\ \/ slot # "midpoint" /\ Fail("TOOL_FAILED") /\ UNCHANGED <<todo, tmp>>
     \/ slot = "midpoint" /\ Skip({})

\* It succeeds; the header of a WAV file is read at once.
ToolSucceeds ==
  /\ pc = "tool"
  /\ UNCHANGED <<job, todo, out, artifacts>>
  /\ \E c \in {d \in Contents : d.whole} :
       /\ Writes({c})
       /\ IF slot = "extract" /\ c.header # "ok"
          THEN Fail("ENGINE_INTERNAL") ELSE GoTo("rename")

Publish ==
  /\ pc = "rename"
  /\ UNCHANGED <<job, todo, artifacts>>
  /\ \/ "rename" \in Faults /\ Fail("ENGINE_INTERNAL") /\ UNCHANGED files
     \/ /\ out' = [out EXCEPT ![slot] = tmp[slot]]
        /\ tmp' = [tmp EXCEPT ![slot] = {}]
        /\ GoTo("inspect")

published == Or(out[slot], <<>>)
rate      == Or(Rate(job), 8000)      \* what the tool falls back to
channels  == Or(Channels(job), 1)

\* An empty track, or one whose length is not the expected one.
Rejected(samples) ==
  \/ samples = 0
  \/ /\ End(job) # {}
     /\ ~FitsWindow(DurationMs(samples, rate),
                    ExpectedLength(job.options, Start(job), End(job)))

InspectFrame ==
  /\ pc = "inspect" /\ slot # "extract"
  /\ UNCHANGED <<job, todo, files, artifacts>>
  /\ \/ "read" \in Faults /\ Fail("ENGINE_INTERNAL")
     \/ published.header = "bad" /\ Fail("ENGINE_INTERNAL")
     \/ published.header # "bad" /\ GoTo("list")

InspectTrack ==
  /\ pc = "inspect" /\ slot = "extract"
  /\ UNCHANGED <<job, todo, tmp, artifacts>>
  /\ \/ /\ Rejected(published.samples)
        /\ \E left \in AfterRemoval(out[slot]) : out' = [out EXCEPT ![slot] = left]
        /\ Fail("UNSUPPORTED_INPUT")
     \/ ~Rejected(published.samples) /\ GoTo("list") /\ UNCHANGED out

Entry ==
  [slot |-> slot, content |-> published,
   requested |-> CASE slot = "opening"  -> 0
                   [] slot = "midpoint" -> Midpoint(job.media)
                   [] slot = "extract"  -> RequestedStart(job.options),
   presented |-> IF slot = "extract"
                 THEN {ActualStart(job.options, Start(job))} ELSE {}]

\* Faulty variant: the slot is not ticked off.
ListAgain ==
  /\ pc = "list"
  /\ artifacts' = Append(artifacts, Entry)
  /\ GoTo("prepare")
  /\ UNCHANGED <<job, todo, files>>

\* Hash the published file and list it.
List ==
  /\ pc = "list"
  /\ UNCHANGED <<job, files>>
  /\ \/ "read" \in Faults /\ Fail("ENGINE_INTERNAL")
        /\ UNCHANGED <<todo, artifacts>>
     \/ /\ artifacts' = Append(artifacts, Entry)
        /\ todo' = Tail(todo)
        /\ GoTo("prepare")

\* ArtifactManifest::validate: the fixed slots in their order, each complete.
Slots(list) == [i \in DOMAIN list |-> list[i].slot]

ManifestValid(list) ==
  /\ Slots(list) \in FollowUps(job.operation)
  /\ \A i \in DOMAIN list :
       /\ list[i].content.header = "ok"
       /\ list[i].slot = "opening"  => list[i].requested = 0
       /\ list[i].slot = "midpoint" => list[i].requested > 0
       /\ list[i].slot = "extract"  =>
            /\ list[i].content.samples > 0
            /\ \A ms \in list[i].presented : ms >= list[i].requested

Manifest ==
  /\ pc = "prepare" /\ todo = <<>>
  /\ Fail(IF ManifestValid(artifacts) THEN "ok" ELSE "ENGINE_INTERNAL")
  /\ UNCHANGED <<job, todo, files, artifacts>>

\* The Host kills the engine; a tool that runs stops where it is.
Killed ==
  /\ pc # "done"
  /\ IF pc = "tool" THEN \E file \in Leftover : Writes(file)
                    ELSE UNCHANGED tmp
  /\ Fail("killed")
  /\ UNCHANGED <<job, todo, out, artifacts>>

Done == pc = "done" /\ UNCHANGED vars

Next ==
  \/ PlanPreview \/ PlanAudio \/ Prepare
  \/ ToolStops \/ ToolFails \/ ToolWritesNothing \/ ToolSucceeds
  \/ Publish \/ InspectFrame \/ InspectTrack \/ List \/ Manifest
  \/ Killed \/ Done

Spec == Init /\ [][Next]_vars

-----------------------------------------------------------------------------
File == {{}} \union {{c} : c \in Contents}

\* Everything has its type; a slot is listed, or still to be filled, once.
TypeOK ==
  /\ job \in Jobs
  /\ pc \in {"plan", "prepare", "tool", "rename", "inspect", "list", "done"}
  /\ tmp \in [Slot -> File] /\ out \in [Slot -> File]
  /\ result \in {"pending", "ok", "killed"} \union ErrorCode
  /\ \A i \in DOMAIN todo : todo[i] \in Slot
  /\ \A i \in DOMAIN artifacts :
       /\ artifacts[i].slot \in Slot /\ artifacts[i].content \in Contents
       /\ \A k \in DOMAIN todo : todo[k] # artifacts[i].slot

\* Whoever looks into output/, whenever, also after a kill, finds the complete
\* output of a tool that succeeded, or no file.
OutputIsNeverPartial == \A s \in Slot : \A c \in out[s] : c.whole

\* The manifest of a completed run lists exactly the files in output/, each
\* with the content that was hashed: a skipped or rejected file leaves no
\* trace, and no later step touches a listed file.
ManifestMatchesFiles ==
  result = "ok" =>
    /\ {s \in Slot : out[s] # {}} = {artifacts[i].slot : i \in DOMAIN artifacts}
    /\ \A i \in DOMAIN artifacts :
         out[artifacts[i].slot] = {artifacts[i].content}

OkTrack == result = "ok" /\ job.operation = "extract_audio_pcm"
Track   == artifacts[1]

\* The estimate made before the tool runs bounds what is published after it:
\* up to the tolerance of the continuity guard, no track of known length and
\* format is larger than the limit.
OutputIsBounded ==
  OkTrack /\ End(job) # {} /\ Rate(job) # {} /\ Channels(job) # {} =>
    LET bytes(ms) == (ms * rate * channels * BytesPerSample) \div 1000
    IN  Track.content.samples * channels * BytesPerSample
          <= MaxOutputBytes + 1
             + bytes(Tolerance(ExpectedLength(job.options, Start(job), End(job)))
                     + 1)

\* A published track starts inside the requested window and ends in it, up to
\* the tolerance.
StaysInRequestedWindow ==
  OkTrack /\ End(job) # {} =>
    \A from \in Track.presented :
      /\ from >= RequestedStart(job.options)
      /\ \A end \in job.options.end :
           LET length == Greatest(end - from, 0)
           IN  DurationMs(Track.content.samples, rate)
                 <= length + Tolerance(length)

\* The backend ends with no other error than RunSession allows at that point,
\* and runs no other tools.
FailuresAreForeseen ==
  [][/\ pc = "plan" /\ todo' # <<>> => todo' \in FollowUps(job.operation)
     /\ result' \in ErrorCode /\ result = "pending" =>
          result' \in
            IF pc = "plan" THEN ProbeResultFailure(job.operation)
            ELSE IF todo = <<>> THEN {"ENGINE_INTERNAL"}
            ELSE ({"TIMEOUT", "CANCELLED"} \union SpawnFailure(slot)
                   \union ExitFailure(slot)
                   \union ResultFailure(job.operation, slot)) \ Skippable(slot)]_vars

\* What the request and the probe say the track must be: the part of the
\* stream inside the window, from the container origin on.
TrueLength ==
  Least(Or(job.options.end, U64Max), Start(job) + Or(Stream(job).duration, 0))
    - ActualStart(job.options, Start(job))

ExactlyDecoded ==
  /\ pc = "inspect" /\ slot = "extract"
  /\ Stream(job).duration # {}
  /\ TrueLength > 0
  /\ published.samples * 1000 = TrueLength * rate

\* A track that is exactly what was asked for is published, wherever the
\* window, the stream and the container start and end, as long as no more
\* than a second of pre-roll was cut off.
ExactTrackIsPublished ==
  [][ExactlyDecoded /\ Start(job) >= -1000
     => result' # "UNSUPPORTED_INPUT"]_vars

\* The same with any pre-roll (specification of extract_audio_pcm, 2.3: the
\* pre-roll of a negative start is not part of the result).
PrerollIsNoError == [][ExactlyDecoded => result' # "UNSUPPORTED_INPUT"]_vars

=============================================================================
