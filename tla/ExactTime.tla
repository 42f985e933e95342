------------------------------ MODULE ExactTime ------------------------------
(***************************************************************************)
(* Exact media time: a number of seconds as a reduced fraction, computed   *)
(* in checked i128 arithmetic and rounded to i64 milliseconds at the very  *)
(* end.  An operation that overflows yields {}, Rust's Err.                *)
(*                                                                         *)
(* crates/scene-core-protocol/src/time.rs                                  *)
(***************************************************************************)
EXTENDS Options

CONSTANTS
  I128Max,  \* the largest i128
  I64Max    \* the largest i64

ASSUME WidthAssumption == I64Max \in Nat /\ I128Max \in Nat /\ I64Max <= I128Max

MsPerSecond == 1000

Magnitude(n) == IF n < 0 THEN -n ELSE n

I128 == -I128Max - 1 .. I128Max
I64  == -I64Max - 1 .. I64Max

Checked(n, width) == IF n \in width THEN {n} ELSE {}

\* checked_mul: whether the product fits is known before it is computed.
Product(a, b) ==
  LET most == IF (a < 0) = (b < 0) THEN I128Max ELSE I128Max + 1
  IN  IF b = 0 \/ Magnitude(a) <= most \div Magnitude(b) THEN {a * b} ELSE {}

Gcd[p \in Nat \X Nat] == IF p[2] = 0 THEN p[1] ELSE Gcd[<<p[2], p[1] % p[2]>>]

Fraction(num, den) ==
  LET divisor == Gcd[<<Magnitude(num), den>>]
      sign    == IF num < 0 THEN -1 ELSE 1
  IN  [num |-> sign * (Magnitude(num) \div divisor), den |-> den \div divisor]

\* from_parts
FromParts(num, den) ==
  IF den > 0 THEN {Fraction(num, den)}
  ELSE {Fraction(n, d) : n \in Checked(-num, I128), d \in Checked(-den, I128) \ {0}}

\* checked_neg
Negated(t) == {[t EXCEPT !.num = n] : n \in Checked(-t.num, I128)}

\* checked_add
Plus(s, t) ==
  UNION {FromParts(num, den) :
           num \in UNION {Checked(l + r, I128) : l \in Product(s.num, t.den),
                                                 r \in Product(t.num, s.den)},
           den \in Product(s.den, t.den)}

\* checked_sub
Minus(s, t) == UNION {Plus(s, n) : n \in Negated(t)}

\* checked_cmp, for the only order it is asked for; {} is an overflow.
Before(s, t) ==
  {l < r : l \in Product(s.num, t.den), r \in Product(t.num, s.den)}

Scaled(t) == Product(t.num, MsPerSecond)

\* to_ms_round_nearest: half a millisecond is rounded away from zero.
ToMsRoundNearest(t) ==
  UNION {LET rest == Magnitude(ms) % t.den
             q    == Magnitude(ms) \div t.den + IF rest >= t.den - rest THEN 1 ELSE 0
         IN  Checked(IF ms < 0 THEN -q ELSE q, I64) : ms \in Scaled(t)}

\* to_ms_floor and to_ms_ceil
ToMsFloor(t) == UNION {Checked(ms \div t.den, I64) : ms \in Scaled(t)}
ToMsCeil(t)  ==
  UNION {Checked(ms \div t.den + IF ms % t.den = 0 THEN 0 ELSE 1, I64) :
           ms \in Scaled(t)}

\* round_public_point_ms
RoundPublicPoint(t) == IF t.num < 0 THEN {} ELSE ToMsRoundNearest(t)

\* round_public_range_ms: the interval of whole milliseconds that covers it.
RoundPublicRange(s, t) ==
  IF s.num < 0 \/ Before(s, t) # {TRUE} THEN {}
  ELSE {r \in ToMsFloor(s) \X ToMsCeil(t) : r[1] < r[2]}

\* stream_start_ms: unknown if either time is; Err only if both are known.
StreamStartMs(presentation, origin) ==
  UNION {UNION {ToMsRoundNearest(d) : d \in Minus(p, o)} :
           p \in presentation, o \in origin}

==============================================================================
