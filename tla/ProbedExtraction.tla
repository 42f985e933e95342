-------------------------- MODULE ProbedExtraction ---------------------------
(***************************************************************************)
(* The backend from the output of ffprobe to the manifest: normalize turns *)
(* the exact times ffprobe prints into the milliseconds Extraction works   *)
(* with, while the cut itself is made on the source's own clock, which     *)
(* starts at the container origin.                                         *)
(*                                                                         *)
(* crates/scene-core-engine/src/run.rs; probe.rs and audio.rs of           *)
(* scene-core-media                                                        *)
(***************************************************************************)
EXTENDS ProbeNormalisation, Extraction

CONSTANT Requests  \* operation, options, and what ffprobe prints

ASSUME RequestsAssumption == \A r \in Requests : r.raw \in RawMedia

VARIABLES
  asked,  \* fixed: the element of Requests
  probed  \* ffprobe has been run

probedVars == <<vars, asked, probed>>

\* Nothing is known of the media before ffprobe has run.
Unprobed == [origin |-> FALSE, duration |-> {}, streams |-> {}]

JobFor(request, media) ==
  [operation |-> request.operation, options |-> request.options, media |-> media]

ProbedInit ==
  /\ asked \in Requests /\ probed = FALSE
  /\ Init /\ job = JobFor(asked, Unprobed)

\* Jobs holds every job a request can become.
ASSUME ProbedJobsAssumption ==
  \A r \in Requests :
    /\ JobFor(r, Unprobed) \in Jobs
    /\ NormaliseFailure(r.raw) = {} => JobFor(r, NormalMedia(r.raw)) \in Jobs

\* probe_with_origin succeeds as a process; its output is normalised, and the
\* audio operation needs the origin in milliseconds.
Probe ==
  /\ ~probed /\ probed' = TRUE
  /\ UNCHANGED <<asked, todo, files, artifacts>>
  /\ \/ /\ \E code \in NormaliseFailure(asked.raw) : Fail(code)
        /\ UNCHANGED job
     \/ /\ NormaliseFailure(asked.raw) = {}
        /\ asked.operation = "extract_audio_pcm" /\ Time(asked.raw.start) # {}
        /\ OriginMs(asked.raw) = {}
        /\ Fail("UNSUPPORTED_INPUT")
        /\ UNCHANGED job
     \/ /\ NormaliseFailure(asked.raw) = {}
        /\ asked.operation = "extract_audio_pcm" /\ Time(asked.raw.start) # {}
             => OriginMs(asked.raw) # {}
        /\ job' = JobFor(asked, NormalMedia(asked.raw))
        /\ GoTo("plan")

Extract == probed /\ Next /\ UNCHANGED <<asked, probed>>

ProbedNext == Probe \/ Extract

ProbedSpec == ProbedInit /\ [][ProbedNext]_probedVars

-----------------------------------------------------------------------------
\* Faulty variant: material time is taken for the time of the source.
CutAtMaterialTime(request) == RequestedStart(request.options)

\* Where atrim cuts, in milliseconds on the clock of the source.
CutFrom(request) == RequestedStart(request.options) + Or(OriginMs(request.raw), 0)

\* Exact times, as a number of seconds over a power of ten.
Exact(text, digits) == text.num * 10 ^ (digits - text.digits)

Since(text, origin) ==
  LET digits == Greatest(text.digits, origin.digits)
  IN  [num |-> Exact(text, digits) - Exact(origin, digits), den |-> 10 ^ digits]

Zero == [num |-> 0, digits |-> 0]

\* Twice the distance between ms and the exact time, in ms / t.den.
TwiceOff(ms, t) == 2 * Magnitude(ms * t.den - t.num * MsPerSecond)

\* A probed time is the nearest millisecond to the exact one, relative to the
\* container's origin, and a time that is not known, or makes no sense, is
\* never replaced by one: no track silently begins or ends at zero.
ProbedTimesAreExact ==
  probed /\ result # "UNSUPPORTED_INPUT" /\ job.media # Unprobed =>
    /\ job.media.origin = (asked.raw.start # {})
    /\ \A s \in job.media.streams : \E r \in asked.raw.streams :
         /\ r.index = s.index /\ r.kind = s.kind
         /\ (s.start # {}) = (r.start # {} /\ asked.raw.start # {})
         /\ \A ms \in s.start, from \in r.start, origin \in asked.raw.start :
              TwiceOff(ms, Since(from, origin)) <= Since(from, origin).den
         /\ (s.duration # {}) = (\E text \in r.duration : text.num >= 0)
         /\ \A ms \in s.duration, text \in r.duration :
              TwiceOff(ms, Since(text, Zero)) <= Since(text, Zero).den

\* The presentation time the manifest gives for a track is, up to half a
\* millisecond, the exact material time of the first sample behind the cut,
\* although the cut is made on the source's clock with a rounded origin and
\* the claim is computed from a start that was rounded separately.
TrackStartIsTruthful ==
  OkTrack =>
    \A claimed \in Track.presented, origin \in asked.raw.start :
      \E s \in asked.raw.streams : s.index = Stream(job).index /\
        \A from \in s.start :
          LET start == Since(from, origin)
              \* both sides of the cut in the denominator of start
              zero  == Exact(origin, Greatest(from.digits, origin.digits))
              cut   == CutFrom(asked) * start.den - zero * MsPerSecond
              first == Greatest(start.num * MsPerSecond, cut)
          IN  2 * Magnitude(claimed * start.den - first) <= start.den

==============================================================================
