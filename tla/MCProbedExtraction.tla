------------------------- MODULE MCProbedExtraction -------------------------
(***************************************************************************)
(* Values for TLC: what ffprobe prints of streams that start before, at    *)
(* and after the container origin, on and between milliseconds; windows    *)
(* before, across and after their ends; facts that are missing, malformed, *)
(* contradictory or out of range.                                          *)
(***************************************************************************)
EXTENDS ProbedExtraction

Some(S) == {{}} \union {{x} : x \in S}

\* Seconds with one digit, and with four, after the point.
Tenths(n)  == {[num |-> n, digits |-> 1]}
Tenthms(n) == {[num |-> n, digits |-> 4]}
NotANumber == {[num |-> 0, digits |-> 10]}
TooWide    == {[num |-> I128Max + 1, digits |-> 9]}

NoOptions ==
  [index |-> {}, start |-> {}, end |-> {}, rate |-> {}, channels |-> {}]

Windows ==
  {[NoOptions EXCEPT !.start = start, !.end = end, !.rate = hz,
                     !.channels = count] :
     start \in Some({3000, 12000}), end \in Some({4000, 20000}),
     hz \in Some({16000}), count \in Some({2})}

ValidWindows ==
  {w \in Windows : \A start \in w.start, end \in w.end : start < end}

AudioStream(start, duration) ==
  [index |-> 1, kind |-> "audio", attached |-> FALSE, start |-> start,
   duration |-> duration, rate |-> {8000}, channels |-> {1}]

VideoStream(duration) ==
  [index |-> 0, kind |-> "video", attached |-> FALSE, start |-> Tenths(0),
   duration |-> duration, rate |-> {0}, channels |-> {}]

Cover   == [VideoStream({}) EXCEPT !.index = 2, !.attached = TRUE]
Unheard == [AudioStream({}, NotANumber) EXCEPT !.index = 1, !.kind = "unknown"]

Of(start, duration, streams) ==
  [named |-> TRUE, start |-> start, duration |-> duration, streams |-> streams]

AudioMedia ==
  {Of(Tenths(14), Tenths(100), {AudioStream(Tenths(start), duration), Cover}) :
     start \in {9, 14, 54}, duration \in {{}, Tenths(50), Tenths(100)}}

\* Starts and origins half a millisecond off, in both directions.
BetweenMs ==
  {Of(Tenthms(origin), Tenths(100), {AudioStream(Tenthms(start), Tenthms(50005))}) :
     origin \in {0, 14005, -4}, start \in {5, 14004, -6, 40000}}

Oddities ==
  {Of(Tenths(0), {}, {AudioStream(Tenths(0), {}), Unheard}),
   Of(Tenths(0), {}, {AudioStream({}, Tenths(50))}),
   Of(Tenths(0), Tenths(50), {VideoStream(Tenths(50))}),
   Of({}, Tenths(50), {AudioStream(NotANumber, Tenths(50))}),
   Of(Tenths(0), Tenths(50), {AudioStream(Tenths(0), Tenths(-10))}),
   Of(Tenths(0), Tenths(50),
      {[AudioStream(Tenths(0), Tenths(50)) EXCEPT !.rate = {0}],
       [AudioStream(Tenths(0), Tenths(50)) EXCEPT !.index = 3]})}

\* What normalize refuses, each for a reason of its own.
Refused ==
  {[Of(Tenths(0), {}, {}) EXCEPT !.named = FALSE],
   Of(NotANumber, {}, {}),
   Of(Tenths(0), NotANumber, {}),
   Of(Tenths(0), TooWide, {}),
   Of(Tenths(0), Tenths(3000000), {}),
   Of(Tenths(0), Tenths(20000000), {}),
   Of(Tenths(3000000), {}, {AudioStream({}, {})}),
   Of(Tenths(0), {}, {AudioStream(NotANumber, {})}),
   Of(Tenths(-3), {}, {AudioStream(Tenths(9999999), {})}),
   Of(Tenths(0), {}, {[Cover EXCEPT !.kind = "audio"]}),
   Of(Tenths(0), {}, {VideoStream({}), [Cover EXCEPT !.index = 0]})}

AudioRequests(options, media) ==
  {[operation |-> "extract_audio_pcm", options |-> o, raw |-> m] :
     o \in options, m \in media}

PreviewRequests(media) ==
  {[operation |-> "extract_preview", options |-> NoOptions, raw |-> m] :
     m \in media}

PreviewMedia ==
  {Of({}, container, {VideoStream(own), Cover}) :
     container \in {{}, Tenthms(10), Tenths(50)},
     own \in {{}, Tenths(0), Tenths(30)}}
  \union {Of({}, Tenths(50), {Cover}), Of({}, Tenths(50), {})}

EveryRequest ==
  PreviewRequests(PreviewMedia \union Refused)
    \union AudioRequests(ValidWindows, AudioMedia \union Oddities)
    \union AudioRequests({NoOptions, [NoOptions EXCEPT !.start = {3000}]},
                         BetweenMs \union Refused)
    \union AudioRequests({[NoOptions EXCEPT !.index = {i}] : i \in {1, 3, 9}},
                         Oddities)

\* One stream whose first five seconds lie before the container origin.
PrerollRequest ==
  AudioRequests({NoOptions},
                {Of(Tenths(0), Tenths(50), {AudioStream(Tenths(-50), Tenths(100))})})

JobsOf(requests) ==
  {JobFor(r, Unprobed) : r \in requests}
    \union {JobFor(r, NormalMedia(r.raw)) :
              r \in {q \in requests : NormaliseFailure(q.raw) = {}}}

\* Named twice: TLC computes a definition once, but evaluates the body of the
\* one that a constant is replaced by again and again.
ProbedJob    == JobsOf(EveryRequest)
EveryJob     == ProbedJob
ProbedInputs == EveryRequest
PrerollJob   == JobsOf(PrerollRequest)

Wave(samples) == [whole |-> TRUE, header |-> "ok", samples |-> samples]

EveryContent ==
  {Wave(n) : n \in {0, 8000, 16000, 32000, 40000, 80000, 160000, 320000}}
    \union {[whole |-> TRUE, header |-> h, samples |-> 0] : h \in {"zero", "bad"}}
    \union {[whole |-> FALSE, header |-> "ok", samples |-> 8000]}

EveryFault == {"link", "directory", "rename", "remove", "read"}

WholeTrack == {Wave(40000), Wave(80000)}
=============================================================================
