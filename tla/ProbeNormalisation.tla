------------------------- MODULE ProbeNormalisation --------------------------
(***************************************************************************)
(* How the engine reads what ffprobe prints: decimal seconds that may be   *)
(* missing, negative or malformed become milliseconds relative to the      *)
(* container's presentation origin, or stay unknown; zeros that stand for  *)
(* "not known" become unknown; streams of unknown kinds are dropped.       *)
(*                                                                         *)
(* crates/scene-core-media/src/probe.rs;                                   *)
(* crates/scene-core-protocol/src/media.rs                                 *)
(***************************************************************************)
EXTENDS ExactTime

\* A decimal number of seconds, digits of it after the point.  More than nine
\* are refused, and stand for every text that is not a number.
Decimal == [num : Int, digits : Nat]

\* One entry of "streams"; the fields that ffprobe omits or prints as N/A are {}.
RawStream ==
  [index : Nat, kind : {"video", "audio", "other", "unknown"}, attached : BOOLEAN,
   start : Option(Decimal), duration : Option(Decimal),
   rate : Option(Nat), channels : Option(Nat)]

RawMedia ==
  [named : BOOLEAN, start : Option(Decimal), duration : Option(Decimal),
   streams : SUBSET RawStream]

\* parse_seconds: the digits are read without their sign, and must fit.
Seconds(text) ==
  IF /\ text.digits <= 9
     /\ Magnitude(text.num) \in I128 /\ 10 ^ text.digits \in I128
  THEN FromParts(text.num, 10 ^ text.digits) ELSE {}

\* optional_seconds: the time in a field, if it is there, or why not.
Time(field)      == UNION {Seconds(text) : text \in field}
Malformed(field) == field # {} /\ Time(field) = {}

\* duration_ms: a negative duration is unknown, not zero.
Lasting(field)  == {t \in Time(field) : t.num >= 0}
Duration(field) == UNION {ToMsRoundNearest(t) : t \in Lasting(field)}
BadDuration(field) ==
  \/ Malformed(field)
  \/ Lasting(field) # {} /\ Duration(field) = {}

\* Faulty variant: an origin that is not known is taken to be zero.
StartFromZero(raw, s) ==
  StreamStartMs(Time(s.start),
                OrElse(Time(raw.start), {[num |-> 0, den |-> 1]}))

\* The start of a stream in material time; it is not looked at if the origin
\* is not known.
StreamStart(raw, s) == StreamStartMs(Time(s.start), Time(raw.start))
BadStart(raw, s) ==
  /\ Time(raw.start) # {}
  /\ \/ Malformed(s.start)
     \/ Time(s.start) # {} /\ StreamStart(raw, s) = {}

Positive(field) == field \ {0}

\* stream_kind drops what it does not know.
Known(raw) == {s \in raw.streams : s.kind # "unknown"}

NormalStream(raw, s) ==
  [index |-> s.index, kind |-> s.kind, attached |-> s.attached,
   start |-> StreamStart(raw, s), duration |-> Duration(s.duration),
   rate     |-> IF s.kind = "audio" THEN Positive(s.rate) ELSE {},
   channels |-> IF s.kind = "audio" THEN Positive(s.channels) ELSE {}]

\* NormalizedMedia; origin: whether the container's start is known.
NormalMedia(raw) ==
  [origin |-> Time(raw.start) # {}, duration |-> Duration(raw.duration),
   streams |-> {NormalStream(raw, s) : s \in Known(raw)}]

\* NormalizedMedia::validate, as far as normalize does not ensure it.
MediaValid(raw) ==
  /\ \A s, t \in Known(raw) : s.index = t.index => s = t
  /\ \A s \in Known(raw) : s.attached => s.kind = "video"

\* The error normalize returns, if any.
NormaliseFailure(raw) ==
  IF ~raw.named THEN {"ENGINE_INTERNAL"}
  ELSE IF \/ Malformed(raw.start) \/ BadDuration(raw.duration)
          \/ \E s \in Known(raw) : BadStart(raw, s) \/ BadDuration(s.duration)
  THEN {"UNSUPPORTED_INPUT"}
  ELSE IF ~MediaValid(raw) THEN {"ENGINE_INTERNAL"}
  ELSE {}

\* The container origin in whole milliseconds, for cutting on source time.
OriginMs(raw) == UNION {ToMsRoundNearest(t) : t \in Time(raw.start)}

==============================================================================
