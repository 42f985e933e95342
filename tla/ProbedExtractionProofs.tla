------------------------ MODULE ProbedExtractionProofs -------------------------
(***************************************************************************)
(* From what ffprobe prints to the manifest, for every width of integers,  *)
(* every request and all media: exact time is computed without loss or not *)
(* at all and rounded to the nearest millisecond, what normalize accepts   *)
(* is what Extraction expects, and the times in the manifest are those of  *)
(* the media.                                                              *)
(***************************************************************************)
EXTENDS ProbedExtraction, ExtractionProofs

\* ExactTime: a fraction, over a positive denominator.
ExactTimes == [num: Int, den: Nat \ {0}]

-----------------------------------------------------------------------------
(* Division and the greatest common divisor.                               *)

LEMMA DivBounds ==
  ASSUME NEW a \in Int, NEW b \in Nat \ {0}
  PROVE  /\ a \div b \in Int
         /\ b * (a \div b) <= a
         /\ a < b * (a \div b) + b
  OBVIOUS

LEMMA DivMod ==
  ASSUME NEW a \in Int, NEW b \in Nat \ {0}
  PROVE  /\ a % b \in 0 .. b - 1
         /\ a = (b * (a \div b)) + (a % b)
  OBVIOUS

Divides(d, n) == \E k \in Int : n = d * k

CommonDivisors(a, b) == {d \in Nat : Divides(d, a) /\ Divides(d, b)}

LEMMA Divisors ==
  ASSUME NEW d \in Int, NEW m \in Int, NEW n \in Int, NEW q \in Int,
         Divides(d, m), Divides(d, n)
  PROVE  Divides(d, n + m * q) /\ Divides(d, n - m * q)
<1>1. PICK k \in Int : m = d * k  BY DEF Divides
<1>2. PICK l \in Int : n = d * l  BY DEF Divides
<1>3. k * q \in Int  OBVIOUS
<1>4. m * q = d * (k * q)  BY <1>1
<1>5. n + m * q = d * (l + k * q) /\ n - m * q = d * (l - k * q)
  <2> DEFINE x == k * q
             y == m * q
  <2>1. x \in Int /\ y = d * x  BY <1>3, <1>4
  <2> HIDE DEF x, y
  <2>2. n + y = d * (l + x) /\ n - y = d * (l - x)  BY <1>2, <2>1
  <2>   QED  BY <2>2 DEF x, y
<1>6. l + k * q \in Int /\ l - k * q \in Int  BY <1>3
<1> HIDE DEF Divides
<1>7. \A x \in Int : \A y : y = d * x => Divides(d, y)  BY Zenon DEF Divides
<1> QED  BY <1>5, <1>6, <1>7, Zenon

\* A step of Euclid's algorithm keeps the common divisors.
LEMMA SameDivisors ==
  ASSUME NEW a \in Nat, NEW b \in Nat \ {0}
  PROVE  CommonDivisors(a, b) = CommonDivisors(b, a % b)
<1> DEFINE q == a \div b
           r == a % b
<1>1. q \in Int /\ r \in Int /\ a = (b * q) + r  BY DivMod
<1> HIDE DEF q, r
<1>2. a = r + b * q /\ r = a - b * q  BY <1>1
<1>3. ASSUME NEW d \in Nat, Divides(d, a), Divides(d, b) PROVE Divides(d, r)
  <2>1. d \in Int /\ a \in Int /\ b \in Int  OBVIOUS
  <2>2. Divides(d, a - b * q)  BY <1>1, <1>3, <2>1, Divisors, Zenon
  <2>   QED  BY <2>2, <1>2
<1>4. ASSUME NEW d \in Nat, Divides(d, b), Divides(d, r) PROVE Divides(d, a)
  <2>1. d \in Int /\ r \in Int /\ b \in Int  BY <1>1
  <2>2. Divides(d, r + b * q)  BY <1>1, <1>4, <2>1, Divisors, Zenon
  <2>   QED  BY <2>2, <1>2
<1> QED  BY <1>3, <1>4 DEF CommonDivisors, r

\* Of the multiples of d, those of n > 0 are not smaller.
LEMMA DivisorIsSmaller ==
  ASSUME NEW n \in Nat \ {0}, NEW d \in Nat, Divides(d, n)
  PROVE  d <= n /\ d # 0
<1>1. PICK k \in Int : n = d * k  BY DEF Divides
<1>2. d # 0  BY <1>1
<1>3. k >= 1  BY <1>1, <1>2
<1>4. d * k = d + d * (k - 1) /\ d * (k - 1) >= 0  BY <1>3
<1> QED  BY <1>1, <1>2, <1>4

\* The greatest of a set of numbers.
Most(S) == CHOOSE d \in S : \A e \in S : e <= d

GcdEquation(g) ==
  g = [p \in Nat \X Nat |->
         IF p[2] = 0 THEN p[1] ELSE g[<<p[2], p[1] % p[2]>>]]

LEMMA GcdIsDefined == GcdEquation(Gcd)
<1> DEFINE G == [p \in Nat \X Nat |->
                   IF p[2] = 0 THEN p[1] ELSE Most(CommonDivisors(p[1], p[2]))]
<1>1. ASSUME NEW b \in Nat \ {0} PROVE Most(CommonDivisors(b, 0)) = b
  <2>1. b \in CommonDivisors(b, 0)
    <3>1. b = b * 1 /\ 0 = b * 0  OBVIOUS
    <3>   QED  BY <3>1 DEF CommonDivisors, Divides
  <2>2. \A e \in CommonDivisors(b, 0) : e \in Nat /\ e <= b
    BY DivisorIsSmaller DEF CommonDivisors
  <2> HIDE DEF CommonDivisors
  <2>3. \A d \in CommonDivisors(b, 0) :
          (\A e \in CommonDivisors(b, 0) : e <= d) => d = b
    BY <2>1, <2>2
  <2>   QED  BY <2>1, <2>2, <2>3 DEF Most
<1>2. ASSUME NEW p \in Nat \X Nat, p[2] # 0
      PROVE  G[p] = G[<<p[2], p[1] % p[2]>>]
  <2> DEFINE a == p[1]
             b == p[2]
             r == a % b
  <2>1. a \in Nat /\ b \in Nat \ {0} /\ r \in Nat
    <3>1. a \in Nat /\ b \in Nat \ {0}  BY <1>2
    <3> HIDE DEF a, b
    <3>   QED  BY <3>1, DivMod
  <2>2. G[p] = Most(CommonDivisors(a, b))  BY <1>2
  <2>3. CommonDivisors(a, b) = CommonDivisors(b, r)  BY <2>1, SameDivisors
  <2>4. <<b, r>> \in Nat \X Nat  BY <2>1
  <2>5. G[<<b, r>>] = IF r = 0 THEN b ELSE Most(CommonDivisors(b, r))
    BY <2>4
  <2> HIDE DEF G, a, b, r
  <2>6. G[<<b, r>>] = Most(CommonDivisors(b, r))
    BY <2>1, <2>5, <1>1
  <2>   QED  BY <2>2, <2>3, <2>6 DEF a, b, r
<1>3. GcdEquation(G)
  <2>1. G = [p \in Nat \X Nat |->
               IF p[2] = 0 THEN p[1] ELSE G[<<p[2], p[1] % p[2]>>]]
    BY <1>2
  <2> HIDE DEF G
  <2>   QED  BY <2>1 DEF GcdEquation
<1> HIDE DEF G
<1> QED  BY <1>3 DEF Gcd, GcdEquation

LEMMA GcdUnfolds ==
  ASSUME NEW a \in Nat, NEW b \in Nat
  PROVE  Gcd[<<a, b>>] = IF b = 0 THEN a ELSE Gcd[<<b, a % b>>]
<1>1. Gcd = [p \in Nat \X Nat |->
               IF p[2] = 0 THEN p[1] ELSE Gcd[<<p[2], p[1] % p[2]>>]]
  BY GcdIsDefined DEF GcdEquation
<1>2. <<a, b>> \in Nat \X Nat  OBVIOUS
<1> HIDE DEF Gcd
<1> QED  BY <1>1, <1>2

\* gcd is the greatest common divisor: the common divisors of a and b are the
\* divisors of it.
THEOREM GcdIsGreatest ==
  ASSUME NEW a \in Nat, NEW b \in Nat
  PROVE  /\ Gcd[<<a, b>>] \in Nat
         /\ CommonDivisors(a, b) = {d \in Nat : Divides(d, Gcd[<<a, b>>])}
<1> DEFINE Right(x, y) ==
             /\ Gcd[<<x, y>>] \in Nat
             /\ CommonDivisors(x, y) = {d \in Nat : Divides(d, Gcd[<<x, y>>])}
           Wrong == {y \in Nat : \E x \in Nat : ~Right(x, y)}
<1>1. ASSUME NEW x \in Nat PROVE Right(x, 0)
  <2>1. Gcd[<<x, 0>>] = x  BY GcdUnfolds
  <2>2. \A d \in Nat : Divides(d, 0)
    <3>1. \A d \in Nat : 0 = d * 0  OBVIOUS
    <3>   QED  BY <3>1 DEF Divides
  <2>   QED  BY <2>1, <2>2 DEF CommonDivisors
<1>2. ASSUME NEW x \in Nat, NEW y \in Nat \ {0}, Right(y, x % y)
      PROVE  Right(x, y)
  <2>1. Gcd[<<x, y>>] = Gcd[<<y, x % y>>]  BY GcdUnfolds
  <2>2. CommonDivisors(x, y) = CommonDivisors(y, x % y)  BY SameDivisors
  <2>   QED  BY <1>2, <2>1, <2>2
<1>3. ASSUME NEW y \in Nat, y \in Wrong, \A z \in Wrong : y <= z PROVE FALSE
  <2>1. PICK x \in Nat : ~Right(x, y)  BY <1>3
  <2>2. y # 0  BY <2>1, <1>1
  <2>3. x % y \in 0 .. y - 1  BY <2>2, DivMod
  <2>4. x % y \in Nat /\ ~(y <= x % y)  BY <2>3
  <2>5. x % y \notin Wrong  BY <1>3, <2>4
  <2> HIDE DEF Right
  <2>6. Right(y, x % y)  BY <2>4, <2>5
  <2>   QED  BY <2>1, <2>2, <2>6, <1>2
<1>4. Wrong = {}
  <2>1. Wrong \subseteq Nat  OBVIOUS
  <2> HIDE DEF Wrong
  <2>   QED  BY <2>1, <1>3, LowestNumber
<1> HIDE DEF Right
<1>5. Right(a, b)  BY <1>4
<1> QED  BY <1>5 DEF Right

-----------------------------------------------------------------------------
(* Fractions, and arithmetic that overflows.                               *)

\* ASSUMPTION-free facts about factors.
LEMMA Factor ==
  ASSUME NEW g \in Nat \ {0}, NEW k \in Int
  PROVE  /\ (g * k) \div g = k
         /\ g * k >= 0 => k >= 0
         /\ g * k > 0 => k > 0
<1>1. ASSUME k < 0 PROVE g * k < 0
  <2>1. g * k = g * (k + 1) - g /\ g * (k + 1) <= 0  BY <1>1
  <2>   QED  BY <2>1
<1>2. (g * k) \div g = k
  OBVIOUS
<1>3. k = 0 => g * k = 0  OBVIOUS
<1> QED  BY <1>1, <1>2, <1>3

\* new_reduced, for a positive denominator.
LEMMA FractionIsExact ==
  ASSUME NEW num \in Int, NEW den \in Nat \ {0}, NEW t, t = Fraction(num, den)
  PROVE  /\ t \in ExactTimes
         /\ t.num * den = num * t.den
         /\ CommonDivisors(Magnitude(t.num), t.den) = {1}
<1> DEFINE a    == Magnitude(num)
           g    == Gcd[<<a, den>>]
           sign == IF num < 0 THEN -1 ELSE 1
<1>1. a \in Nat /\ num = sign * a /\ sign \in {-1, 1}  BY DEF Magnitude
<1> HIDE DEF a
<1>2. g \in Nat /\ CommonDivisors(a, den) = {d \in Nat : Divides(d, g)}
  BY <1>1, GcdIsGreatest
<1> HIDE DEF g
<1>3. g \in CommonDivisors(a, den)
  <2>1. g = g * 1  BY <1>2
  <2>   QED  BY <2>1, <1>2 DEF Divides
<1>4. PICK k \in Int : a = g * k  BY <1>3 DEF CommonDivisors, Divides
<1>5. PICK l \in Int : den = g * l  BY <1>3 DEF CommonDivisors, Divides
<1>6. g # 0  BY <1>5
<1>7. k \in Nat /\ l \in Nat \ {0} /\ a \div g = k /\ den \div g = l
  <2>1. g \in Nat \ {0} /\ g * k >= 0 /\ g * l > 0
    BY <1>1, <1>2, <1>4, <1>5, <1>6
  <2>2. (g * k) \div g = k /\ k >= 0  BY <2>1, Factor
  <2>3. (g * l) \div g = l /\ l > 0   BY <2>1, Factor
  <2>   QED  BY <2>2, <2>3, <1>4, <1>5
<1>8. t = [num |-> sign * k, den |-> l]  BY <1>7 DEF Fraction, a, g
<1>9. t \in ExactTimes
  <2>1. sign * k \in Int  BY <1>1
  <2>   QED  BY <2>1, <1>7, <1>8 DEF ExactTimes
<1>10. t.num * den = num * t.den
  <2> HIDE DEF sign
  <2>1. t.num = sign * k /\ t.den = l  BY <1>8
  <2>2. (sign * k) * (g * l) = (sign * (g * k)) * l
    BY <1>1, <1>2, <1>7
  <2>   QED  BY <2>1, <2>2, <1>1, <1>4, <1>5
<1>11. Magnitude(t.num) = k  BY <1>1, <1>7, <1>8 DEF Magnitude
<1>12. ASSUME NEW d \in Nat, Divides(d, k), Divides(d, l) PROVE d = 1
  <2>1. PICK x \in Int : k = d * x  BY <1>12 DEF Divides
  <2>2. PICK y \in Int : l = d * y  BY <1>12 DEF Divides
  <2>3. a = (d * g) * x /\ den = (d * g) * y
    BY <1>2, <1>4, <1>5, <2>1, <2>2
  <2>4. d * g \in CommonDivisors(a, den)
    <3>1. d * g \in Nat  BY <1>2
    <3>   QED  BY <2>3, <3>1 DEF CommonDivisors, Divides
  <2>5. PICK z \in Int : g = (d * g) * z  BY <2>4, <1>2 DEF Divides
  <2>6. g * 1 = g * (d * z)  BY <2>5, <1>2
  <2>7. d * z = 1
    <3>1. d * z \in Int  OBVIOUS
    <3>2. (g * 1) \div g = 1 /\ (g * (d * z)) \div g = d * z
      BY <3>1, <1>2, <1>6, Factor
    <3>   QED  BY <3>2, <2>6
  <2>8. Divides(d, 1)  BY <2>7 DEF Divides
  <2>9. 1 \in Nat \ {0}  OBVIOUS
  <2>   QED  BY <2>8, <2>9, DivisorIsSmaller
<1>13. 1 \in CommonDivisors(k, l)
  <2>1. k = 1 * k /\ l = 1 * l  BY <1>7
  <2>   QED  BY <2>1, <1>7 DEF CommonDivisors, Divides
<1> QED  BY <1>8, <1>9, <1>10, <1>11, <1>12, <1>13 DEF CommonDivisors

\* from_parts: what it returns is the number it was given, in lowest terms,
\* over a positive denominator; it has none for a denominator of zero.
THEOREM FromPartsIsExact ==
  ASSUME NEW num \in Int, NEW den \in Int, NEW t \in FromParts(num, den)
  PROVE  /\ t \in ExactTimes
         /\ t.num * den = num * t.den
         /\ CommonDivisors(Magnitude(t.num), t.den) = {1}
         /\ den # 0
<1>1. CASE den > 0
  <2>1. den \in Nat \ {0} /\ t = Fraction(num, den)  BY <1>1 DEF FromParts
  <2>   QED  BY <2>1, FractionIsExact
<1>2. CASE ~(den > 0)
  <2> DEFINE n == -num
             d == -den
  <2>1. t = Fraction(n, d) /\ d \in Nat \ {0} /\ n \in Int
    BY <1>2 DEF FromParts, Checked
  <2> HIDE DEF n, d
  <2>2. /\ t \in ExactTimes /\ t.num * d = n * t.den
        /\ CommonDivisors(Magnitude(t.num), t.den) = {1}
    BY <2>1, FractionIsExact
  <2>3. t.num \in Int /\ t.den \in Int  BY <2>2 DEF ExactTimes
  <2>4. t.num * den = num * t.den
    <3> DEFINE tn == t.num
               td == t.den
    <3>1. tn \in Int /\ td \in Int /\ tn * d = n * td  BY <2>2, <2>3
    <3> HIDE DEF tn, td
    <3>2. tn * den = num * td
      BY <3>1 DEF n, d
    <3>   QED  BY <3>2 DEF tn, td
  <2>   QED  BY <2>1, <2>2, <2>4 DEF d
<1> QED  BY <1>1, <1>2

\* What a whole number of times b is at most n.
LEMMA AtMost ==
  ASSUME NEW a \in Nat, NEW b \in Nat \ {0}, NEW n \in Nat
  PROVE  a <= n \div b <=> a * b <= n
<1> DEFINE q == n \div b
<1>1. q \in Int /\ b * q <= n /\ n < b * q + b  OBVIOUS
<1> HIDE DEF q
<1>2. CASE a <= q
  <2>1. b * q = b * a + b * (q - a) /\ b * (q - a) >= 0  BY <1>1, <1>2
  <2>2. a * b = b * a /\ a * b \in Int  OBVIOUS
  <2>   QED  BY <2>1, <2>2, <1>1, <1>2 DEF q
<1>3. CASE ~(a <= q)
  <2>1. b * a = b * q + b + b * (a - q - 1) /\ b * (a - q - 1) >= 0  BY <1>1, <1>3
  <2>2. a * b = b * a /\ a * b \in Int  OBVIOUS
  <2>   QED  BY <2>1, <2>2, <1>1, <1>3 DEF q
<1> QED  BY <1>2, <1>3

\* checked_mul: it is the product if that fits an i128, and an overflow only if
\* it does not.
THEOREM ProductFitsOrOverflows ==
  ASSUME NEW a \in Int, NEW b \in Int
  PROVE  Product(a, b) = Checked(a * b, I128)
<1> DEFINE m == Magnitude(a)
           n == Magnitude(b)
           same == (a < 0) = (b < 0)
           most == IF same THEN I128Max ELSE I128Max + 1
<1>1. m \in Nat /\ n \in Nat /\ most \in Nat
  BY WidthAssumption DEF Magnitude
<1>2. a * b \in Int  OBVIOUS
<1>3. CASE b = 0
  <2>1. a * b = 0  BY <1>3
  <2>   QED  BY <1>3, <2>1, WidthAssumption DEF Product, Checked, I128
<1>4. CASE b # 0
  <2>1. n # 0  BY <1>4 DEF Magnitude
  <2>2. m <= most \div n <=> m * n <= most
    <3> HIDE DEF m, n, most
    <3>   QED  BY <1>1, <2>1, AtMost
  <2>3. IF same THEN a * b = m * n ELSE a * b = -(m * n)
    <3>1. CASE a < 0 /\ b < 0
      <4>1. (-a) * (-b) = a * b  OBVIOUS
      <4>   QED  BY <3>1, <4>1 DEF Magnitude
    <3>2. CASE a < 0 /\ ~(b < 0)
      <4>1. (-a) * b = -(a * b)  OBVIOUS
      <4>   QED  BY <3>2, <4>1, <1>2 DEF Magnitude
    <3>3. CASE ~(a < 0) /\ b < 0
      <4>1. a * (-b) = -(a * b)  OBVIOUS
      <4>   QED  BY <3>3, <4>1, <1>2 DEF Magnitude
    <3>4. CASE ~(a < 0) /\ ~(b < 0)
      BY <3>4 DEF Magnitude
    <3>   QED  BY <3>1, <3>2, <3>3, <3>4
  <2>4. m * n \in Nat
    <3> HIDE DEF m, n
    <3>   QED  BY <1>1
  <2>5. m * n <= most <=> a * b \in I128
    <3> DEFINE p == m * n
               r == a * b
    <3>1. p \in Nat /\ r \in Int /\ IF same THEN r = p ELSE r = -p
      BY <1>2, <2>3, <2>4
    <3> HIDE DEF p, r, m, n, same
    <3>2. p <= most <=> r \in I128
      BY <3>1, WidthAssumption DEF I128
    <3>   QED  BY <3>2 DEF p, r
  <2> HIDE DEF m, n, most, same
  <2>6. Product(a, b) = IF m <= most \div n THEN {a * b} ELSE {}
    BY <1>4 DEF Product, m, n, most, same
  <2>   QED  BY <2>2, <2>5, <2>6 DEF Checked
<1> QED  BY <1>3, <1>4

-----------------------------------------------------------------------------
(* Rounding.                                                               *)

LEMMA OneMore ==
  ASSUME NEW d \in Int, NEW n \in Int
  PROVE  d * (n + 1) = (d * n) + d /\ d * (n - 1) = (d * n) - d
  OBVIOUS

\* A product is the product, whenever it is one.
LEMMA ProductIsExact ==
  ASSUME NEW a \in Int, NEW b \in Int, NEW p \in Product(a, b)
  PROVE  p = a * b
  BY DEF Product

LEMMA ScaledIsMs ==
  ASSUME NEW t \in ExactTimes, NEW ms \in Scaled(t)
  PROVE  ms \in Int /\ ms = 1000 * t.num
<1>1. ms = t.num * 1000  BY ProductIsExact DEF Scaled, MsPerSecond, ExactTimes
<1>   QED  BY <1>1 DEF ExactTimes

\* The magnitude of the nearest millisecond, half away from zero.
LEMMA NearestOfMagnitude ==
  ASSUME NEW a \in Nat, NEW den \in Nat \ {0}, NEW q \in Int,
         q = a \div den + IF a % den >= den - (a % den) THEN 1 ELSE 0
  PROVE  q \in Nat /\ 2 * (den * q - a) <= den /\ 2 * (a - den * q) < den
<1> DEFINE w == a \div den
           rest == a % den
<1>1. w \in Int /\ rest \in 0 .. den - 1 /\ a = (den * w) + rest
  OBVIOUS
<1>2. w >= 0
  BY <1>1
<1> HIDE DEF w, rest
<1>3. CASE rest >= den - rest
  <2>1. q = w + 1  BY <1>3 DEF w, rest
  <2>2. den * q = (den * w) + den  BY <2>1, <1>1
  <2>   QED  BY <2>1, <2>2, <1>1, <1>2, <1>3
<1>4. CASE ~(rest >= den - rest)
  <2>1. q = w  BY <1>4, <1>1 DEF w, rest
  <2>   QED  BY <2>1, <1>1, <1>2, <1>4
<1> QED  BY <1>3, <1>4

\* to_ms_round_nearest returns a millisecond that fits an i64 and lies within
\* half a millisecond of the exact time, on the far side of zero when two do.
THEOREM RoundNearestIsNearest ==
  ASSUME NEW t \in ExactTimes, NEW q \in ToMsRoundNearest(t)
  PROVE  /\ q \in I64
         /\ 2 * Magnitude(t.den * q - 1000 * t.num) <= t.den
         /\ 2 * Magnitude(t.den * q - 1000 * t.num) = t.den
              => Magnitude(1000 * t.num) < Magnitude(t.den * q)
<1>1. PICK ms \in Scaled(t) :
        LET rest == Magnitude(ms) % t.den
            n    == Magnitude(ms) \div t.den + IF rest >= t.den - rest THEN 1 ELSE 0
        IN  q \in Checked(IF ms < 0 THEN -n ELSE n, I64)
  BY DEF ToMsRoundNearest
<1> DEFINE a == Magnitude(ms)
           n == a \div t.den + IF a % t.den >= t.den - (a % t.den) THEN 1 ELSE 0
<1>2. ms \in Int /\ ms = 1000 * t.num  BY ScaledIsMs
<1>3. t.den \in Nat \ {0} /\ t.num \in Int  BY DEF ExactTimes
<1>4. a \in Nat  BY <1>2 DEF Magnitude
<1>5. n \in Int
  BY <1>3, <1>4, DivBounds
<1>6. n \in Nat /\ 2 * (t.den * n - a) <= t.den /\ 2 * (a - t.den * n) < t.den
  <2> HIDE DEF a
  <2>1. n = a \div t.den + IF a % t.den >= t.den - (a % t.den) THEN 1 ELSE 0  OBVIOUS
  <2> HIDE DEF n
  <2>   QED  BY <2>1, <1>3, <1>4, <1>5, NearestOfMagnitude
<1>7. q \in I64 /\ q = IF ms < 0 THEN -n ELSE n
  BY <1>1 DEF Checked
<1> HIDE DEF n
<1>8. CASE ms < 0
  <2>1. q = -n /\ a = -ms  BY <1>7, <1>8 DEF Magnitude
  <2> DEFINE p == t.den * n
  <2>2. p \in Int /\ t.den * q = -p  BY <2>1, <1>3, <1>6
  <2>3. 2 * (p - a) <= t.den /\ 2 * (a - p) < t.den  BY <1>6
  <2> HIDE DEF p, a
  <2>   QED  BY <2>1, <2>2, <2>3, <1>2, <1>3, <1>4, <1>7, <1>8 DEF Magnitude
<1>9. CASE ms >= 0
  <2>1. q = n /\ a = ms  BY <1>7, <1>9, <1>2 DEF Magnitude
  <2> DEFINE p == t.den * n
  <2>2. p \in Int /\ t.den * q = p  BY <2>1, <1>3, <1>6
  <2>3. 2 * (p - a) <= t.den /\ 2 * (a - p) < t.den  BY <1>6
  <2> HIDE DEF p, a
  <2>   QED  BY <2>1, <2>2, <2>3, <1>2, <1>3, <1>4, <1>7, <1>9 DEF Magnitude
<1> QED  BY <1>8, <1>9, <1>2

\* to_ms_floor: the last millisecond that is not after the time.
LEMMA FloorIsBelow ==
  ASSUME NEW t \in ExactTimes, NEW q \in ToMsFloor(t)
  PROVE  /\ q \in I64
         /\ t.den * q <= 1000 * t.num
         /\ 1000 * t.num < t.den * (q + 1)
<1>1. PICK ms \in Scaled(t) : q \in Checked(ms \div t.den, I64)  BY DEF ToMsFloor
<1>2. ms \in Int /\ ms = 1000 * t.num  BY ScaledIsMs
<1>3. t.den \in Nat \ {0}  BY DEF ExactTimes
<1>4. q \in I64 /\ q = ms \div t.den  BY <1>1 DEF Checked
<1> DEFINE den == t.den
<1>5. q \in Int /\ den * q <= ms /\ ms < (den * q) + den
  <2>1. den \in Nat \ {0} /\ q = ms \div den  BY <1>3, <1>4
  <2>   HIDE DEF den
  <2>   QED  BY <1>2, <2>1, DivBounds
<1>6. den * (q + 1) = (den * q) + den
  <2>1. den \in Int  BY <1>3
  <2>   HIDE DEF den
  <2>   QED  BY <2>1, <1>5, OneMore
<1> QED  BY <1>2, <1>4, <1>5, <1>6

LEMMA CeilOfQuotient ==
  ASSUME NEW ms \in Int, NEW den \in Nat \ {0}, NEW q \in Int,
         q = ms \div den + IF ms % den = 0 THEN 0 ELSE 1
  PROVE  ms <= den * q /\ den * (q - 1) < ms
<1> DEFINE w    == ms \div den
           rest == ms % den
<1>1. w \in Int /\ rest \in 0 .. den - 1 /\ ms = (den * w) + rest
  OBVIOUS
<1> HIDE DEF w, rest
<1>2. CASE rest = 0
  <2>1. q = w  BY <1>1, <1>2 DEF w, rest
  <2>2. den * (q - 1) = (den * q) - den  BY OneMore
  <2>   QED  BY <2>1, <2>2, <1>1, <1>2
<1>3. CASE rest # 0
  <2>1. q = w + 1  BY <1>1, <1>3 DEF w, rest
  <2>2. den * q = (den * w) + den  BY <2>1, <1>1, OneMore
  <2>3. q - 1 = w  BY <2>1, <1>1
  <2>   QED  BY <2>2, <2>3, <1>1, <1>3
<1> QED  BY <1>2, <1>3

\* to_ms_ceil: the first millisecond that is not before it.
LEMMA CeilIsAbove ==
  ASSUME NEW t \in ExactTimes, NEW q \in ToMsCeil(t)
  PROVE  /\ q \in I64
         /\ 1000 * t.num <= t.den * q
         /\ t.den * (q - 1) < 1000 * t.num
<1>1. PICK ms \in Scaled(t) :
        q \in Checked(ms \div t.den + IF ms % t.den = 0 THEN 0 ELSE 1, I64)
  BY DEF ToMsCeil
<1>2. ms \in Int /\ ms = 1000 * t.num  BY ScaledIsMs
<1> DEFINE den == t.den
<1>3. den \in Nat \ {0}  BY DEF ExactTimes
<1>4. q \in I64 /\ q = ms \div den + IF ms % den = 0 THEN 0 ELSE 1
  BY <1>1 DEF Checked
<1>5. q \in Int  BY <1>4, WidthAssumption DEF I64
<1>6. ms <= den * q /\ den * (q - 1) < ms
  <2>1. ms \in Int /\ q \in Int /\ den \in Nat \ {0}  BY <1>2, <1>3, <1>5
  <2>2. q = ms \div den + IF ms % den = 0 THEN 0 ELSE 1  BY <1>4
  <2>   HIDE DEF den
  <2>   QED  BY <2>1, <2>2, CeilOfQuotient, Zenon
<1> QED  BY <1>2, <1>4, <1>6

\* round_public_range_ms returns a non-empty range of milliseconds that covers
\* the interval and would not with either end one millisecond further in.
THEOREM PublicRangeIsTight ==
  ASSUME NEW s \in ExactTimes, NEW t \in ExactTimes, NEW r \in RoundPublicRange(s, t)
  PROVE  /\ r[1] \in I64 /\ r[2] \in I64 /\ r[1] < r[2]
         /\ s.den * r[1] <= 1000 * s.num /\ 1000 * s.num < s.den * (r[1] + 1)
         /\ 1000 * t.num <= t.den * r[2] /\ t.den * (r[2] - 1) < 1000 * t.num
<1>1. r \in ToMsFloor(s) \X ToMsCeil(t) /\ r[1] < r[2]
  BY DEF RoundPublicRange
<1>2. r[1] \in ToMsFloor(s) /\ r[2] \in ToMsCeil(t)
  BY <1>1
<1> QED  BY <1>1, <1>2, FloorIsBelow, CeilIsAbove

LEMMA Cancelled ==
  ASSUME NEW k \in Nat \ {0}, NEW a \in Int, NEW b \in Int, k * a = k * b
  PROVE  a = b
<1>1. (k * a) \div k = a /\ (k * b) \div k = b  BY Factor
<1> QED  BY <1>1

LEMMA CancelledOrder ==
  ASSUME NEW k \in Nat \ {0}, NEW a \in Int, NEW b \in Int
  PROVE  k * a <= k * b <=> a <= b
<1>1. k * (b - a) = k * b - k * a /\ k * (a - b) = k * a - k * b  OBVIOUS
<1>2. k * (b - a) >= 0 => b - a >= 0  BY Factor
<1>3. k * (a - b) > 0 => a - b > 0  BY Factor
<1>4. k * a \in Int /\ k * b \in Int  OBVIOUS
<1>5. CASE a <= b
  <2>1. k * (b - a) >= 0  BY <1>5
  <2>   QED  BY <2>1, <1>1, <1>4, <1>5
<1>6. CASE ~(a <= b)
  <2>1. k * (a - b) > 0  BY <1>6
  <2>   QED  BY <2>1, <1>1, <1>4, <1>6
<1> QED  BY <1>5, <1>6

LEMMA MagnitudeScales ==
  ASSUME NEW k \in Nat, NEW x \in Int
  PROVE  Magnitude(x) \in Nat /\ Magnitude(k * x) = k * Magnitude(x)
<1>1. CASE x < 0
  <2>1. k * x <= 0 /\ k * (-x) = -(k * x)  BY <1>1
  <2>2. k * x = 0 => k * (-x) = 0  BY <2>1
  <2>   QED  BY <1>1, <2>1, <2>2 DEF Magnitude
<1>2. CASE x >= 0
  <2>1. k * x >= 0  BY <1>2
  <2>   QED  BY <1>2, <2>1 DEF Magnitude
<1> QED  BY <1>1, <1>2

\* The number of milliseconds nearest to a reduced time is the one nearest to
\* any other form of it.
LEMMA NearestInAnyForm ==
  ASSUME NEW t \in ExactTimes, NEW q \in ToMsRoundNearest(t),
         NEW num \in Int, NEW den \in Nat \ {0}, t.num * den = num * t.den
  PROVE  q \in Int /\ 2 * Magnitude(q * den - num * 1000) <= den
<1> DEFINE n == t.num
           d == t.den
           x == q * den - num * 1000
           y == d * q - 1000 * n
<1>1. /\ q \in Int /\ n \in Int /\ d \in Nat \ {0} /\ n * den = num * d
      /\ 2 * Magnitude(y) <= d
  BY RoundNearestIsNearest, WidthAssumption DEF ExactTimes, I64
<1> HIDE DEF n, d
<1>2. x \in Int /\ y \in Int  BY <1>1
<1>3. d * x = den * y
  <2>1. d * x = den * (d * q) - 1000 * (num * d)  BY <1>1
  <2>2. den * y = den * (d * q) - 1000 * (n * den)  BY <1>1
  <2>   QED  BY <2>1, <2>2, <1>1
<1> HIDE DEF x, y
<1>4. d * Magnitude(x) = den * Magnitude(y) /\ Magnitude(x) \in Nat /\ Magnitude(y) \in Nat
  <2>1. d \in Nat /\ den \in Nat  BY <1>1
  <2>2. Magnitude(x) \in Nat /\ Magnitude(d * x) = d * Magnitude(x)
    BY <1>2, <2>1, MagnitudeScales
  <2>3. Magnitude(y) \in Nat /\ Magnitude(den * y) = den * Magnitude(y)
    BY <1>2, <2>1, MagnitudeScales
  <2>   QED  BY <1>3, <2>2, <2>3
<1> DEFINE v == 2 * Magnitude(x)
           w == 2 * Magnitude(y)
<1>5. v \in Nat /\ w \in Nat /\ d * v = den * w /\ w <= d
  BY <1>1, <1>4
<1> HIDE DEF v, w
<1>6. den * w <= den * d  BY <1>1, <1>5, CancelledOrder
<1>7. d * v <= d * den  BY <1>1, <1>5, <1>6
<1>8. v <= den  BY <1>1, <1>5, <1>7, CancelledOrder
<1> QED  BY <1>1, <1>8 DEF v, x

\* checked_add and checked_sub lose nothing: the sum of l/k and r/m is
\* (l m + r k)/(k m).
LEMMA PlusIsExact ==
  ASSUME NEW s \in ExactTimes, NEW t \in ExactTimes, NEW r \in Plus(s, t)
  PROVE  /\ r \in ExactTimes
         /\ r.num * (s.den * t.den) = (s.num * t.den + t.num * s.den) * r.den
<1>1. /\ s.num \in Int /\ s.den \in Nat \ {0}
      /\ t.num \in Int /\ t.den \in Nat \ {0}
  BY DEF ExactTimes
<1>2. PICK num, den :
        /\ num \in UNION {Checked(l + m, I128) : l \in Product(s.num, t.den),
                                                 m \in Product(t.num, s.den)}
        /\ den \in Product(s.den, t.den)
        /\ r \in FromParts(num, den)
  BY DEF Plus
<1>3. PICK l \in Product(s.num, t.den), m \in Product(t.num, s.den) : num = l + m
  BY <1>2 DEF Checked
<1>4. l = s.num * t.den /\ m = t.num * s.den /\ den = s.den * t.den
  <2>1. l = s.num * t.den  BY <1>1, ProductIsExact
  <2>2. m = t.num * s.den  BY <1>1, ProductIsExact
  <2>3. den = s.den * t.den  BY <1>1, <1>2, ProductIsExact
  <2>   QED  BY <2>1, <2>2, <2>3
<1>5. num \in Int /\ den \in Int
  <2>1. l \in Int  BY <1>1, <1>4
  <2>2. m \in Int  BY <1>1, <1>4
  <2>   QED  BY <2>1, <2>2, <1>1, <1>3, <1>4
<1>6. r \in ExactTimes /\ r.num * den = num * r.den
  BY <1>2, <1>5, FromPartsIsExact
<1> QED  BY <1>3, <1>4, <1>6

LEMMA MinusIsExact ==
  ASSUME NEW s \in ExactTimes, NEW t \in ExactTimes, NEW r \in Minus(s, t)
  PROVE  /\ r \in ExactTimes
         /\ r.num * (s.den * t.den) = (s.num * t.den - t.num * s.den) * r.den
<1>1. /\ s.num \in Int /\ s.den \in Nat \ {0}
      /\ t.num \in Int /\ t.den \in Nat \ {0}
  BY DEF ExactTimes
<1>2. PICK n \in Negated(t) : r \in Plus(s, n)  BY DEF Minus
<1>3. n = [t EXCEPT !.num = -t.num]  BY <1>2 DEF Negated, Checked
<1>4. n \in ExactTimes /\ n.num = -t.num /\ n.den = t.den
  BY <1>1, <1>3 DEF ExactTimes
<1>5. /\ r \in ExactTimes
      /\ r.num * (s.den * t.den) = (s.num * t.den + (-t.num) * s.den) * r.den
  BY <1>2, <1>4, PlusIsExact
<1>6. (-t.num) * s.den = -(t.num * s.den)  BY <1>1
<1>7. s.num * t.den \in Int /\ t.num * s.den \in Int  BY <1>1
<1> QED  BY <1>5, <1>6, <1>7

\* The powers of ten a decimal number of seconds can have.
PowerOfTen ==
  [n \in 0 .. 9 |->
     CASE n = 0 -> 1     [] n = 1 -> 10     [] n = 2 -> 100
       [] n = 3 -> 1000  [] n = 4 -> 10000  [] n = 5 -> 100000
       [] n = 6 -> 1000000   [] n = 7 -> 10000000
       [] n = 8 -> 100000000 [] n = 9 -> 1000000000]

LEMMA PowersOfTen ==
  ASSUME NEW n \in 0 .. 9
  PROVE  10 ^ n = PowerOfTen[n]
<1>1. /\ n = 0 => 10 ^ n = 10 ^ 0
      /\ n = 1 => 10 ^ n = 10 ^ 1
      /\ n = 2 => 10 ^ n = 10 ^ 2
      /\ n = 3 => 10 ^ n = 10 ^ 3
      /\ n = 4 => 10 ^ n = 10 ^ 4
      /\ n = 5 => 10 ^ n = 10 ^ 5
      /\ n = 6 => 10 ^ n = 10 ^ 6
      /\ n = 7 => 10 ^ n = 10 ^ 7
      /\ n = 8 => 10 ^ n = 10 ^ 8
      /\ n = 9 => 10 ^ n = 10 ^ 9
  BY Zenon
<1>2. n \in {0, 1, 2, 3, 4, 5, 6, 7, 8, 9}  OBVIOUS
<1> QED  BY <1>1, <1>2, SMT DEF PowerOfTen

LEMMA PowerIsPositive ==
  ASSUME NEW n \in 0 .. 9
  PROVE  10 ^ n \in Nat \ {0}
<1>1. PowerOfTen[n] \in Nat \ {0}  BY DEF PowerOfTen
<1> QED  BY <1>1, PowersOfTen, Zenon

\* A power of ten splits.
LEMMA PowerSplits ==
  ASSUME NEW m \in 0 .. 9, NEW n \in 0 .. 9, m <= n
  PROVE  /\ 10 ^ m \in Nat \ {0} /\ 10 ^ (n - m) \in Nat \ {0}
         /\ 10 ^ n \in Nat \ {0} /\ 10 ^ n = 10 ^ m * 10 ^ (n - m)
<1>1. n - m \in 0 .. 9  OBVIOUS
<1>2. /\ 10 ^ m = PowerOfTen[m] /\ 10 ^ n = PowerOfTen[n]
      /\ 10 ^ (n - m) = PowerOfTen[n - m]
  BY <1>1, PowersOfTen
<1>3. PowerOfTen[m] \in Nat \ {0} /\ PowerOfTen[n - m] \in Nat \ {0}
  BY <1>1 DEF PowerOfTen
<1>4. PowerOfTen[n] = PowerOfTen[m] * PowerOfTen[n - m]
  BY DEF PowerOfTen
<1>5. PowerOfTen[n] \in Nat \ {0}
  BY DEF PowerOfTen
<1> QED  BY <1>2, <1>3, <1>4, <1>5, Zenon

-----------------------------------------------------------------------------
(* What ffprobe prints.                                                    *)

LEMMA SecondsAreExact ==
  ASSUME NEW text \in Decimal, NEW t \in Seconds(text)
  PROVE  /\ text.digits \in 0 .. 9 /\ text.num \in Int
         /\ t \in ExactTimes
         /\ t.num * 10 ^ text.digits = text.num * t.den
<1>1. text.digits \in 0 .. 9 /\ text.num \in Int  BY DEF Seconds, Decimal
<1>2. t \in FromParts(text.num, 10 ^ text.digits)  BY <1>1 DEF Seconds
<1>3. 10 ^ text.digits \in Int  BY <1>1, PowerSplits
<1> QED  BY <1>1, <1>2, <1>3, FromPartsIsExact

\* The time in a field is that of its only text.
LEMMA TimeOfField ==
  ASSUME NEW field \in Option(Decimal)
  PROVE  /\ \A text \in field : text \in Decimal /\ Time(field) = Seconds(text)
         /\ Time(field) # {} => field # {}
         /\ field # {} /\ ~Malformed(field) => Time(field) # {}
<1>1. \A text \in field : text \in Decimal /\ field = {text}  BY DEF Option
<1> QED  BY <1>1 DEF Time, Malformed

\* The same number of seconds with more digits.
LEMMA MoreDigits ==
  ASSUME NEW text \in Decimal, NEW t \in Seconds(text), NEW n \in 0 .. 9,
         text.digits <= n
  PROVE  /\ Exact(text, n) \in Int /\ 10 ^ n \in Nat \ {0}
         /\ t.num * 10 ^ n = Exact(text, n) * t.den
<1> DEFINE a == 10 ^ text.digits
           b == 10 ^ (n - text.digits)
           c == 10 ^ n
<1>1. text.digits \in 0 .. 9 /\ text.num \in Int /\ t \in ExactTimes
      /\ t.num * a = text.num * t.den
  BY SecondsAreExact
<1>2. a \in Nat \ {0} /\ b \in Nat \ {0} /\ c \in Nat \ {0} /\ c = a * b
  BY <1>1, PowerSplits
<1>3. t.num \in Int /\ t.den \in Int  BY <1>1 DEF ExactTimes
<1>4. Exact(text, n) = text.num * b  BY DEF Exact
<1> HIDE DEF a, b, c
<1>5. Exact(text, n) \in Int  BY <1>1, <1>2, <1>4
<1>6. t.num * (a * b) = (t.num * a) * b  BY <1>2, <1>3
<1>7. (text.num * t.den) * b = (text.num * b) * t.den  BY <1>1, <1>2, <1>3
<1> QED  BY <1>1, <1>2, <1>4, <1>5, <1>6, <1>7 DEF c

\* ms is, to the nearest, the number of milliseconds in num/den seconds.
Near(ms, num, den) ==
  ms \in Int /\ 2 * Magnitude(ms * den - num * 1000) <= den

\* A rounded decimal is the nearest millisecond to what was printed.
LEMMA RoundedDecimal ==
  ASSUME NEW text \in Decimal, NEW t \in Seconds(text),
         NEW ms \in ToMsRoundNearest(t), NEW n \in 0 .. 9, text.digits <= n
  PROVE  Near(ms, Exact(text, n), 10 ^ n)
<1>1. t \in ExactTimes  BY SecondsAreExact
<1>2. /\ Exact(text, n) \in Int /\ 10 ^ n \in Nat \ {0}
      /\ t.num * 10 ^ n = Exact(text, n) * t.den
  BY MoreDigits
<1>3. /\ ms \in Int
      /\ 2 * Magnitude(ms * 10 ^ n - Exact(text, n) * 1000) <= 10 ^ n
  BY <1>1, <1>2, NearestInAnyForm
<1> QED  BY <1>3 DEF Near

\* The exact time between two printed ones.
LEMMA SinceType ==
  ASSUME NEW from \in Decimal, NEW origin \in Decimal,
         NEW p \in Seconds(from), NEW o \in Seconds(origin)
  PROVE  LET n == Greatest(from.digits, origin.digits)
         IN  /\ n \in 0 .. 9 /\ from.digits <= n /\ origin.digits <= n
             /\ Exact(from, n) \in Int /\ Exact(origin, n) \in Int
             /\ 10 ^ n \in Nat \ {0}
             /\ Since(from, origin) =
                  [num |-> Exact(from, n) - Exact(origin, n), den |-> 10 ^ n]
<1> DEFINE n == Greatest(from.digits, origin.digits)
<1>1. n \in 0 .. 9 /\ from.digits <= n /\ origin.digits <= n
  BY SecondsAreExact DEF Greatest
<1>2. Since(from, origin) =
        [num |-> Exact(from, n) - Exact(origin, n), den |-> 10 ^ n]
  BY DEF Since
<1> HIDE DEF n
<1>3. Exact(from, n) \in Int /\ Exact(origin, n) \in Int /\ 10 ^ n \in Nat \ {0}
  BY <1>1, MoreDigits
<1> QED  BY <1>1, <1>2, <1>3 DEF n

\* stream_start_ms: the nearest millisecond to the exact difference.
LEMMA StreamStartIsNearest ==
  ASSUME NEW from \in Decimal, NEW origin \in Decimal,
         NEW ms \in StreamStartMs(Seconds(from), Seconds(origin))
  PROVE  ms \in Int /\ TwiceOff(ms, Since(from, origin)) <= Since(from, origin).den
<1>1. PICK p \in Seconds(from), o \in Seconds(origin) :
        \E d \in Minus(p, o) : ms \in ToMsRoundNearest(d)
  BY DEF StreamStartMs
<1>2. PICK d \in Minus(p, o) : ms \in ToMsRoundNearest(d)  BY <1>1
<1> DEFINE n == Greatest(from.digits, origin.digits)
           f == Exact(from, n)
           g == Exact(origin, n)
           c == 10 ^ n
<1>3. /\ n \in 0 .. 9 /\ from.digits <= n /\ origin.digits <= n
      /\ f \in Int /\ g \in Int /\ c \in Nat \ {0}
      /\ Since(from, origin) = [num |-> f - g, den |-> c]
  BY SinceType
<1>4. p \in ExactTimes /\ o \in ExactTimes  BY SecondsAreExact
<1>5. p.num * c = f * p.den /\ o.num * c = g * o.den
  <2> HIDE DEF n
  <2>   QED  BY <1>3, MoreDigits
<1>6. /\ d \in ExactTimes
      /\ d.num * (p.den * o.den) = (p.num * o.den - o.num * p.den) * d.den
  BY <1>2, <1>4, MinusIsExact
<1> DEFINE pn == p.num
           pd == p.den
           on == o.num
           od == o.den
           dn == d.num
           dd == d.den
<1>7. /\ pn \in Int /\ on \in Int /\ dn \in Int
      /\ pd \in Nat \ {0} /\ od \in Nat \ {0} /\ dd \in Nat \ {0}
  BY <1>4, <1>6 DEF ExactTimes
<1>8. pn * c = f * pd /\ on * c = g * od
      /\ dn * (pd * od) = (pn * od - on * pd) * dd
  BY <1>5, <1>6
<1> HIDE DEF n, f, g, c, pn, pd, on, od, dn, dd
<1>9. dn * c = (f - g) * dd
  <2> DEFINE k == pd * od
  <2>1. k \in Nat \ {0}  BY <1>7
  <2>2. k * (dn * c) = (dn * k) * c  BY <1>3, <1>7
  <2>3. (dn * k) * c = ((pn * od - on * pd) * dd) * c  BY <1>8
  <2>4. ((pn * od - on * pd) * dd) * c
          = ((pn * c) * od - (on * c) * pd) * dd
    BY <1>3, <1>7
  <2>5. ((f * pd) * od - (g * od) * pd) * dd = k * ((f - g) * dd)
    BY <1>3, <1>7
  <2>6. k * (dn * c) = k * ((f - g) * dd)
    BY <2>2, <2>3, <2>4, <2>5, <1>8
  <2>7. dn * c \in Int /\ (f - g) * dd \in Int  BY <1>3, <1>7
  <2> HIDE DEF k
  <2>   QED  BY <2>1, <2>6, <2>7, Cancelled
<1>10. f - g \in Int  BY <1>3
<1>11. ms \in Int /\ 2 * Magnitude(ms * c - (f - g) * 1000) <= c
  <2>1. d.num * c = (f - g) * d.den  BY <1>9 DEF dn, dd
  <2>   QED  BY <1>2, <1>3, <1>6, <1>10, <2>1, NearestInAnyForm
<1> QED  BY <1>3, <1>11 DEF TwiceOff, MsPerSecond

-----------------------------------------------------------------------------
(* What normalize makes of it.                                             *)

LEMMA RoundedIsInt ==
  ASSUME NEW t \in ExactTimes, NEW ms \in ToMsRoundNearest(t)
  PROVE  ms \in Int
<1>1. ms \in I64  BY RoundNearestIsNearest
<1> QED  BY <1>1, WidthAssumption DEF I64

\* At most one millisecond comes of a time.
LEMMA RoundedOnce ==
  ASSUME NEW t
  PROVE  \A x, y \in ToMsRoundNearest(t) : x = y
BY DEF ToMsRoundNearest, Scaled, Product, Checked

LEMMA FromPartsOnce ==
  ASSUME NEW num, NEW den
  PROVE  \A x, y \in FromParts(num, den) : x = y
BY DEF FromParts, Checked

LEMMA TimeOnce ==
  ASSUME NEW field \in Option(Decimal)
  PROVE  \A x, y \in Time(field) : x = y /\ x \in ExactTimes
<1> SUFFICES ASSUME NEW x \in Time(field), NEW y \in Time(field)
             PROVE  x = y /\ x \in ExactTimes
  OBVIOUS
<1>1. PICK text \in field : text \in Decimal /\ Time(field) = Seconds(text)
  BY TimeOfField
<1>2. x \in Seconds(text) /\ y \in Seconds(text)  BY <1>1
<1>3. x \in ExactTimes  BY <1>1, <1>2, SecondsAreExact
<1>4. x = y  BY <1>2, FromPartsOnce DEF Seconds
<1> QED  BY <1>3, <1>4

LEMMA DurationIsOption ==
  ASSUME NEW field \in Option(Decimal)
  PROVE  Duration(field) \in Option(Nat)
<1>1. ASSUME NEW x \in Duration(field) PROVE x \in Nat
  <2>1. PICK t \in Time(field) : t.num >= 0 /\ x \in ToMsRoundNearest(t)
    BY DEF Duration, Lasting
  <2>2. t \in ExactTimes  BY TimeOnce
  <2>3. /\ x \in Int /\ t.num \in Int /\ t.den \in Nat \ {0}
        /\ 2 * Magnitude(t.den * x - 1000 * t.num) <= t.den
    BY <2>1, <2>2, RoundedIsInt, RoundNearestIsNearest DEF ExactTimes
  <2>4. x >= 0
    <3> DEFINE a == t.num
               d == t.den
               p == d * x
    <3>1. a \in Nat /\ d \in Nat \ {0} /\ p \in Int
          /\ 2 * Magnitude(p - 1000 * a) <= d
      BY <2>1, <2>3
    <3>2. ASSUME x < 0 PROVE FALSE
      <4>1. d \in Nat \ {0} /\ x \in Int  BY <2>3
      <4>2. p <= -d
        <5> HIDE DEF d
        <5>1. d * x = d * (x + 1) - d /\ d * (x + 1) <= 0  BY <3>2, <4>1
        <5>   QED  BY <4>1, <5>1
      <4> HIDE DEF p, a, d
      <4>   QED  BY <3>1, <4>2 DEF Magnitude
    <3>   QED  BY <2>3, <3>2
  <2>   QED  BY <2>3, <2>4
<1>2. \A x, y \in Duration(field) : x = y
  <2> SUFFICES ASSUME NEW x \in Duration(field), NEW y \in Duration(field)
               PROVE  x = y
    OBVIOUS
  <2>1. PICK t \in Time(field) : x \in ToMsRoundNearest(t)
    BY DEF Duration, Lasting
  <2>2. PICK u \in Time(field) : y \in ToMsRoundNearest(u)
    BY DEF Duration, Lasting
  <2>3. t = u  BY TimeOnce
  <2>   QED  BY <2>1, <2>2, <2>3, RoundedOnce
<1> QED  BY <1>1, <1>2 DEF Option

LEMMA PlusOnce ==
  ASSUME NEW s, NEW t
  PROVE  \A x, y \in Plus(s, t) : x = y
<1> SUFFICES ASSUME NEW x \in Plus(s, t), NEW y \in Plus(s, t) PROVE x = y
  OBVIOUS
<1>1. ASSUME NEW a, NEW b, NEW z \in Product(a, b) PROVE z = a * b
  BY DEF Product
<1>2. ASSUME NEW z \in Plus(s, t)
      PROVE  z \in FromParts(s.num * t.den + t.num * s.den, s.den * t.den)
  BY <1>1 DEF Plus, Checked
<1> QED  BY <1>2, FromPartsOnce

LEMMA StreamStartIsOption ==
  ASSUME NEW field \in Option(Decimal), NEW container \in Option(Decimal)
  PROVE  StreamStartMs(Time(field), Time(container)) \in Option(Int)
<1> DEFINE S == StreamStartMs(Time(field), Time(container))
<1>1. ASSUME NEW x \in S
      PROVE  \E p \in Time(field), o \in Time(container) :
               \E d \in Minus(p, o) : d \in ExactTimes /\ x \in ToMsRoundNearest(d)
  <2>1. PICK p \in Time(field), o \in Time(container) :
          \E d \in Minus(p, o) : x \in ToMsRoundNearest(d)
    BY DEF StreamStartMs
  <2>2. p \in ExactTimes /\ o \in ExactTimes  BY TimeOnce
  <2>   QED  BY <2>1, <2>2, MinusIsExact
<1>2. ASSUME NEW p, NEW o PROVE \A x, y \in Minus(p, o) : x = y
  BY PlusOnce DEF Minus, Negated, Checked
<1>3. \A x, y \in S : x = y
  <2> SUFFICES ASSUME NEW x \in S, NEW y \in S PROVE x = y
    OBVIOUS
  <2>1. PICK p \in Time(field), o \in Time(container) :
          \E d \in Minus(p, o) : x \in ToMsRoundNearest(d)
    BY <1>1
  <2>2. PICK q \in Time(field), u \in Time(container) :
          \E d \in Minus(q, u) : y \in ToMsRoundNearest(d)
    BY <1>1
  <2>3. p = q /\ o = u  BY TimeOnce
  <2>   QED  BY <2>1, <2>2, <2>3, <1>2, RoundedOnce
<1>4. \A x \in S : x \in Int  BY <1>1, RoundedIsInt
<1> QED  BY <1>3, <1>4 DEF Option

\* A stream that normalize keeps.
LEMMA NormalStreamType ==
  ASSUME NEW raw \in RawMedia, NEW r \in Known(raw)
  PROVE  NormalStream(raw, r) \in MediaStream
<1>1. r \in RawStream /\ r.kind # "unknown" /\ raw.start \in Option(Decimal)
  BY DEF Known, RawMedia
<1>2. /\ r.index \in Nat /\ r.kind \in {"video", "audio", "other"}
      /\ r.attached \in BOOLEAN /\ r.start \in Option(Decimal)
      /\ r.duration \in Option(Decimal)
      /\ r.rate \in Option(Nat) /\ r.channels \in Option(Nat)
  BY <1>1 DEF RawStream
<1>3. StreamStart(raw, r) \in Option(Int)
  BY <1>1, <1>2, StreamStartIsOption DEF StreamStart
<1>4. Duration(r.duration) \in Option(Nat)  BY <1>2, DurationIsOption
<1>5. {} \in Option(Nat \ {0})  BY DEF Option
<1>6. \A o \in Option(Nat) : Positive(o) \in Option(Nat \ {0})
  BY DEF Option, Positive
<1> HIDE DEF Option
<1> DEFINE rates == IF r.kind = "audio" THEN Positive(r.rate) ELSE {}
           counts == IF r.kind = "audio" THEN Positive(r.channels) ELSE {}
<1>7. rates \in Option(Nat \ {0}) /\ counts \in Option(Nat \ {0})
  BY <1>2, <1>5, <1>6
<1> HIDE DEF rates, counts
<1>8. NormalStream(raw, r) =
        [index |-> r.index, kind |-> r.kind, attached |-> r.attached,
         start |-> StreamStart(raw, r), duration |-> Duration(r.duration),
         rate |-> rates, channels |-> counts]
  BY DEF NormalStream, rates, counts
<1> QED  BY <1>2, <1>3, <1>4, <1>7, <1>8 DEF MediaStream

\* Whatever normalize accepts is media as the backend expects it: known kinds,
\* no negative duration, no rate or channel count of zero, no index twice.
THEOREM NormalMediaIsValid ==
  ASSUME NEW raw \in RawMedia, NormaliseFailure(raw) = {}
  PROVE  /\ NormalMedia(raw) \in Media
         /\ \A s, t \in NormalMedia(raw).streams : s.index = t.index => s = t
<1>1. \A r, q \in Known(raw) : r.index = q.index => r = q
  BY DEF NormaliseFailure, MediaValid
<1>2. \A s \in NormalMedia(raw).streams :
        \E r \in Known(raw) : s = NormalStream(raw, r) /\ s.index = r.index
  BY DEF NormalMedia, NormalStream
<1>3. NormalMedia(raw).streams \subseteq MediaStream
  BY <1>2, NormalStreamType
<1>4. Duration(raw.duration) \in Option(Nat)
  BY DurationIsOption DEF RawMedia
<1> DEFINE known   == Time(raw.start) # {}
           length  == Duration(raw.duration)
           streams == NormalMedia(raw).streams
<1>5. NormalMedia(raw) =
        [origin |-> known, duration |-> length, streams |-> streams]
  BY DEF NormalMedia
<1>6. known \in BOOLEAN /\ length \in Option(Nat) /\ streams \subseteq MediaStream
  BY <1>3, <1>4
<1> HIDE DEF known, length, streams
<1>7. NormalMedia(raw) \in Media  BY <1>5, <1>6 DEF Media
<1> QED  BY <1>1, <1>2, <1>7

-----------------------------------------------------------------------------
(* The backend from the probe on.                                          *)

\* What the probe has established once it has succeeded.
Normalised ==
  /\ NormaliseFailure(asked.raw) = {}
  /\ job = JobFor(asked, NormalMedia(asked.raw))
  /\ asked.operation = "extract_audio_pcm" /\ Time(asked.raw.start) # {}
       => OriginMs(asked.raw) # {}

\* Before the probe the backend has done nothing, and after it failed it is
\* done; otherwise it works on what normalize made of the request's media.
ProbedInv ==
  /\ IInv /\ TrackWasPlanned
  /\ asked \in Requests
  /\ ~probed => pc = "plan" /\ job = JobFor(asked, Unprobed)
  /\ probed => Normalised \/ /\ job = JobFor(asked, Unprobed)
                             /\ pc = "done" /\ result # "ok"

LEMMA InitProbed == ProbedInit => ProbedInv
  BY InitIInv, InitPlan DEF ProbedInit, Init, ProbedInv

LEMMA ProbeKeeps ==
  ASSUME ProbedInv, Probe
  PROVE  ProbedInv'
<1>1. /\ IInv /\ Types /\ pc = "plan" /\ result = "pending"
      /\ todo = <<>> /\ artifacts = <<>> /\ tmp \in [Slot -> File]
      /\ job = JobFor(asked, Unprobed) /\ asked \in Requests
  BY DEF ProbedInv, Probe, IInv, Types, Progress
<1>2. /\ probed' = TRUE /\ UNCHANGED <<asked, todo, tmp, out, artifacts>>
  BY DEF Probe, files
<1>3. TrackWasPlanned'
  BY <1>1, <1>2 DEF TrackWasPlanned, Members, Listed
<1>4. CASE UNCHANGED job /\ \E code \in ErrorCode : Fail(code)
  <2>1. IInv'  BY <1>1, <1>2, <1>4, Failing
  <2>2. pc' = "done" /\ result' # "ok"  BY <1>4 DEF Fail, ErrorCode
  <2>   QED  BY <1>1, <1>2, <1>3, <1>4, <2>1, <2>2 DEF ProbedInv, JobFor
<1>5. CASE /\ NormaliseFailure(asked.raw) = {}
           /\ asked.operation = "extract_audio_pcm" /\ Time(asked.raw.start) # {}
                => OriginMs(asked.raw) # {}
           /\ job' = JobFor(asked, NormalMedia(asked.raw))
           /\ GoTo("plan")
  <2>1. /\ job' \in Jobs /\ pc' = "plan" /\ result' = "pending"
    BY <1>1, <1>5, ProbedJobsAssumption DEF GoTo
  <2>2. Types'  BY <1>1, <1>2, <2>1 DEF Types, Label, Listed, Members
  <2>3. Progress' /\ Published' /\ OutputIsNeverPartial' /\ Accepted'
    BY <1>1, <1>2, <2>1
    DEF IInv, Progress, Published, Listed, OutputIsNeverPartial, Accepted
  <2>4. IInv'  BY <2>2, <2>3 DEF IInv
  <2>5. Normalised'
    BY <1>2, <1>5 DEF Normalised
  <2>   QED  BY <1>1, <1>2, <1>3, <2>4, <2>5 DEF ProbedInv
<1>6. NormaliseFailure(asked.raw) \subseteq ErrorCode
  BY DEF NormaliseFailure, ErrorCode
<1> QED  BY <1>4, <1>5, <1>6 DEF Probe, ErrorCode

LEMMA ExtractKeeps ==
  ASSUME ProbedInv, Extract
  PROVE  ProbedInv'
<1>1. Next /\ probed /\ UNCHANGED <<asked, probed>> /\ IInv /\ TrackWasPlanned
  BY DEF ProbedInv, Extract
<1>2. IInv' /\ TrackWasPlanned'  BY <1>1, NextIInv, PlanStays
<1>3. job' = job
  BY <1>1 DEF Next, PlanPreview, PlanAudio, Prepare, ToolStops, ToolFails,
     ToolWritesNothing, ToolSucceeds, Publish, InspectFrame, InspectTrack,
     List, Manifest, Killed, Done, vars
<1>4. pc = "done" => pc' = "done" /\ result' = result
  BY <1>1 DEF Next, PlanPreview, PlanAudio, Prepare, ToolStops, ToolFails,
     ToolWritesNothing, ToolSucceeds, Publish, InspectFrame, InspectTrack,
     List, Manifest, Killed, Done, vars
<1>5. Normalised => Normalised'  BY <1>1, <1>3 DEF Normalised
<1> QED  BY <1>1, <1>2, <1>3, <1>4, <1>5 DEF ProbedInv

LEMMA NextProbed == ProbedInv /\ [ProbedNext]_probedVars => ProbedInv'
<1> SUFFICES ASSUME ProbedInv, [ProbedNext]_probedVars PROVE ProbedInv'
  OBVIOUS
<1>1. CASE UNCHANGED probedVars
  <2>1. UNCHANGED vars /\ UNCHANGED <<asked, probed>>
    BY <1>1 DEF probedVars
  <2>2. IInv' /\ TrackWasPlanned'  BY <2>1, NextIInv, PlanStays DEF ProbedInv
  <2>3. UNCHANGED <<job, pc, result>>  BY <2>1 DEF vars
  <2>4. Normalised => Normalised'  BY <2>1, <2>3 DEF Normalised
  <2>   QED  BY <2>1, <2>2, <2>3, <2>4 DEF ProbedInv
<1> QED  BY <1>1, ProbeKeeps, ExtractKeeps DEF ProbedNext

\* Whatever ffprobe prints, the backend works on the media normalize makes of it,
\* and keeps the invariant it has for any media.
THEOREM ProbedInvariance == ProbedSpec => []ProbedInv
  BY InitProbed, NextProbed, PTL DEF ProbedSpec

\* The backend that runs ffprobe first never leaves a partial output, lists in the
\* manifest exactly the files it published, and keeps within the requested
\* window and within the bound on its output.
THEOREM ProbedBackendIsSafe ==
  ProbedSpec => [](/\ TypeOK /\ OutputIsNeverPartial /\ ManifestMatchesFiles
                   /\ StaysInRequestedWindow /\ OutputIsBounded)
<1>1. ProbedInv => /\ TypeOK /\ OutputIsNeverPartial /\ ManifestMatchesFiles
                   /\ StaysInRequestedWindow /\ OutputIsBounded
  BY TypeFollows, ManifestFollows, WindowFollows, SizeFollows
  DEF ProbedInv, IInv
<1> QED  BY <1>1, ProbedInvariance, PTL

\* It fails only with the codes the error matrix foresees for the step it is at,
\* the failures of the probe included.
THEOREM ProbedBackendIsForeseen == ProbedSpec => FailuresAreForeseen
<1>1. ProbedInv /\ [ProbedNext]_probedVars => [ForeseenStep]_vars
  <2> SUFFICES ASSUME ProbedInv, [ProbedNext]_probedVars, ~UNCHANGED vars
               PROVE  ForeseenStep
    OBVIOUS
  <2>1. CASE Probe
    <3>1. /\ pc = "plan" /\ todo = <<>> /\ todo' = todo /\ asked \in Requests
          /\ job = JobFor(asked, Unprobed) /\ result = "pending" /\ job \in Jobs
      BY <2>1 DEF ProbedInv, IInv, Types, Progress, Probe
    <3>2. job.operation \in {"extract_preview", "extract_audio_pcm"}
      BY <3>1, JobsAssumption
    <3>3. result' \in {"ENGINE_INTERNAL", "UNSUPPORTED_INPUT", "pending"}
      BY <2>1, <3>1 DEF Probe, NormaliseFailure, Fail, GoTo
    <3>   QED  BY <3>1, <3>2, <3>3 DEF ForeseenStep, Allowed, ProbeResultFailure, ErrorCode
  <2>2. CASE Extract
    BY <2>2, NextForeseen DEF Extract, ProbedInv
  <2>3. ~UNCHANGED probedVars  BY DEF probedVars
  <2>   QED  BY <2>1, <2>2, <2>3 DEF ProbedNext
<1> QED
  BY <1>1, ProbedInvariance, PTL
  DEF ProbedSpec, FailuresAreForeseen, ForeseenStep, Allowed

\* It never refuses, as unsupported, a track that was decoded exactly as planned.
THEOREM ProbedBackendPublishes == ProbedSpec => ExactTrackIsPublished
<1>1. ProbedInv /\ [ProbedNext]_probedVars =>
        [ExactlyDecoded /\ Start(job) >= -1000
           => result' # "UNSUPPORTED_INPUT"]_vars
  <2> SUFFICES ASSUME ProbedInv, [ProbedNext]_probedVars, ~UNCHANGED vars,
                      ExactlyDecoded, Start(job) >= -1000
               PROVE  result' # "UNSUPPORTED_INPUT"
    OBVIOUS
  <2>1. ~Probe  BY DEF ExactlyDecoded, ProbedInv, Probe
  <2>2. ~UNCHANGED probedVars  BY DEF probedVars
  <2>   QED  BY <2>1, <2>2, ExactStep DEF ProbedNext, Extract, ProbedInv
<1> QED  BY <1>1, ProbedInvariance, PTL DEF ProbedSpec, ExactTrackIsPublished

-----------------------------------------------------------------------------
(* The times in the manifest.                                              *)

\* A duration that is known is the nearest millisecond to the one printed.
LEMMA DurationIsNearest ==
  ASSUME NEW field \in Option(Decimal), ~BadDuration(field)
  PROVE  /\ (Duration(field) # {}) = (\E text \in field : text.num >= 0)
         /\ \A ms \in Duration(field), text \in field :
              TwiceOff(ms, Since(text, Zero)) <= Since(text, Zero).den
<1>1. ASSUME NEW text \in field, NEW t \in Seconds(text)
      PROVE  t.num >= 0 <=> text.num >= 0
  <2>1. /\ text \in Decimal /\ text.digits \in 0 .. 9 /\ text.num \in Int
        /\ t \in ExactTimes /\ t.num * 10 ^ text.digits = text.num * t.den
    BY TimeOfField, SecondsAreExact
  <2> DEFINE c == 10 ^ text.digits
             n == t.num
             d == t.den
             m == text.num
  <2>2. /\ c \in Nat \ {0} /\ n \in Int /\ d \in Nat \ {0} /\ m \in Int
        /\ n * c = m * d
    BY <2>1, PowerIsPositive DEF ExactTimes
  <2> HIDE DEF c, n, d, m
  <2>3. (n >= 0 => c * n >= 0) /\ (c * n >= 0 => n >= 0)
    BY <2>2, Factor
  <2>4. (m >= 0 => d * m >= 0) /\ (d * m >= 0 => m >= 0)
    BY <2>2, Factor
  <2>5. c * n = n * c /\ d * m = m * d  BY <2>2
  <2>   QED  BY <2>2, <2>3, <2>4, <2>5 DEF n, m
<1>2. ASSUME Duration(field) # {}
      PROVE  \E text \in field : text.num >= 0
  <2>1. PICK t \in Time(field) : t.num >= 0
    BY <1>2 DEF Duration, Lasting
  <2>2. PICK text \in field : t \in Seconds(text)  BY DEF Time
  <2>   QED  BY <2>1, <2>2, <1>1
<1>3. ASSUME NEW text \in field, text.num >= 0
      PROVE  Duration(field) # {}
  <2>1. ~Malformed(field)  BY DEF BadDuration
  <2>2. Time(field) # {} /\ Time(field) = Seconds(text)
    BY <2>1, TimeOfField
  <2>3. PICK t \in Time(field) : t \in Seconds(text)  BY <2>2
  <2>4. t.num >= 0  BY <1>1, <1>3, <2>3
  <2>5. Lasting(field) # {}  BY <2>4 DEF Lasting
  <2>   QED  BY <2>5 DEF BadDuration
<1>4. ASSUME NEW ms \in Duration(field), NEW text \in field
      PROVE  TwiceOff(ms, Since(text, Zero)) <= Since(text, Zero).den
  <2>1. PICK t \in Time(field) : ms \in ToMsRoundNearest(t)
    BY DEF Duration, Lasting
  <2>2. text \in Decimal /\ t \in Seconds(text)  BY TimeOfField
  <2>3. text.digits \in 0 .. 9 /\ text.num \in Int
    BY <2>2, SecondsAreExact
  <2> DEFINE n == text.digits
  <2>4. /\ ms \in Int /\ Exact(text, n) \in Int /\ 10 ^ n \in Nat \ {0}
        /\ 2 * Magnitude(ms * 10 ^ n - Exact(text, n) * 1000) <= 10 ^ n
    <3>1. n \in 0 .. 9 /\ text.digits <= n  BY <2>3
    <3> HIDE DEF n
    <3>2. Exact(text, n) \in Int /\ 10 ^ n \in Nat \ {0}
      BY <2>2, <3>1, MoreDigits
    <3>3. Near(ms, Exact(text, n), 10 ^ n)
      BY <2>1, <2>2, <3>1, RoundedDecimal
    <3>   QED  BY <3>2, <3>3 DEF Near
  <2>5. Greatest(text.digits, Zero.digits) = n
    BY <2>3 DEF Greatest, Zero
  <2>6. Exact(Zero, n) = 0
    <3>1. n - 0 = n  BY <2>3
    <3>2. 10 ^ (n - 0) \in Nat  BY <3>1, <2>4, Zenon
    <3>   QED  BY <3>2 DEF Exact, Zero
  <2>7. Since(text, Zero) = [num |-> Exact(text, n), den |-> 10 ^ n]
    <3>1. Since(text, Zero) =
            [num |-> Exact(text, n) - Exact(Zero, n), den |-> 10 ^ n]
      BY <2>5 DEF Since
    <3>   QED  BY <3>1, <2>4, <2>6
  <2>   QED  BY <2>4, <2>7 DEF TwiceOff, MsPerSecond
<1> QED  BY <1>2, <1>3, <1>4

\* The same for the start of a stream.
LEMMA StartIsNearest ==
  ASSUME NEW raw \in RawMedia, NEW r \in Known(raw),
         ~Malformed(raw.start), ~BadStart(raw, r)
  PROVE  /\ (StreamStart(raw, r) # {}) = (r.start # {} /\ raw.start # {})
         /\ \A ms \in StreamStart(raw, r), from \in r.start, origin \in raw.start :
              TwiceOff(ms, Since(from, origin)) <= Since(from, origin).den
<1>1. raw.start \in Option(Decimal) /\ r.start \in Option(Decimal)
  BY DEF Known, RawMedia, RawStream
<1>2. ASSUME StreamStart(raw, r) # {}
      PROVE  r.start # {} /\ raw.start # {}
  <2>1. Time(r.start) # {} /\ Time(raw.start) # {}
    BY <1>2 DEF StreamStart, StreamStartMs
  <2>   QED  BY <2>1, <1>1, TimeOfField
<1>3. ASSUME r.start # {}, raw.start # {}
      PROVE  StreamStart(raw, r) # {}
  <2>1. Time(raw.start) # {}  BY <1>1, <1>3, TimeOfField
  <2>2. ~Malformed(r.start)   BY <2>1 DEF BadStart
  <2>3. Time(r.start) # {}    BY <2>2, <1>1, <1>3, TimeOfField
  <2>   QED  BY <2>1, <2>3 DEF BadStart
<1>4. ASSUME NEW ms \in StreamStart(raw, r), NEW from \in r.start,
             NEW origin \in raw.start
      PROVE  TwiceOff(ms, Since(from, origin)) <= Since(from, origin).den
  <2>1. /\ from \in Decimal /\ Time(r.start) = Seconds(from)
        /\ origin \in Decimal /\ Time(raw.start) = Seconds(origin)
    BY <1>1, TimeOfField
  <2>2. ms \in StreamStartMs(Seconds(from), Seconds(origin))
    BY <2>1 DEF StreamStart
  <2>   QED  BY <2>1, <2>2, StreamStartIsNearest
<1> QED  BY <1>2, <1>3, <1>4

\* The times of s are the nearest milliseconds to those of r.
FaithfulTo(s, r, raw) ==
  /\ (s.start # {}) = (r.start # {} /\ raw.start # {})
  /\ \A ms \in s.start, from \in r.start, origin \in raw.start :
       TwiceOff(ms, Since(from, origin)) <= Since(from, origin).den
  /\ (s.duration # {}) = (\E text \in r.duration : text.num >= 0)
  /\ \A ms \in s.duration, text \in r.duration :
       TwiceOff(ms, Since(text, Zero)) <= Since(text, Zero).den

\* Each stream of the normalised media is one that ffprobe printed, with the
\* nearest milliseconds to its times.
LEMMA NormalTimes ==
  ASSUME NEW raw \in RawMedia, NormaliseFailure(raw) = {}
  PROVE  /\ NormalMedia(raw).origin = (raw.start # {})
         /\ \A s \in NormalMedia(raw).streams :
              \E r \in Known(raw) :
                /\ s = NormalStream(raw, r)
                /\ FaithfulTo(s, r, raw)
<1>1. /\ ~Malformed(raw.start)
      /\ \A r \in Known(raw) : ~BadStart(raw, r) /\ ~BadDuration(r.duration)
  BY DEF NormaliseFailure
<1>2. raw.start \in Option(Decimal)  BY DEF RawMedia
<1>3. NormalMedia(raw).origin = (raw.start # {})
  BY <1>1, <1>2, TimeOfField DEF NormalMedia
<1>4. ASSUME NEW s \in NormalMedia(raw).streams
      PROVE  \E r \in Known(raw) :
               /\ s = NormalStream(raw, r)
               /\ s.start = StreamStart(raw, r)
               /\ s.duration = Duration(r.duration)
  BY DEF NormalMedia, NormalStream
<1>5. \A r \in Known(raw) : r.duration \in Option(Decimal)
  BY DEF Known, RawMedia, RawStream
<1>6. ASSUME NEW s \in NormalMedia(raw).streams
      PROVE  \E r \in Known(raw) :
                /\ s = NormalStream(raw, r)
                /\ FaithfulTo(s, r, raw)
  <2>1. PICK r \in Known(raw) :
               /\ s = NormalStream(raw, r)
               /\ s.start = StreamStart(raw, r)
               /\ s.duration = Duration(r.duration)
    BY <1>4
  <2>2. /\ (s.start # {}) = (r.start # {} /\ raw.start # {})
        /\ \A ms \in s.start, from \in r.start, origin \in raw.start :
             TwiceOff(ms, Since(from, origin)) <= Since(from, origin).den
    BY <2>1, <1>1, StartIsNearest
  <2>3. /\ (s.duration # {}) = (\E text \in r.duration : text.num >= 0)
        /\ \A ms \in s.duration, text \in r.duration :
             TwiceOff(ms, Since(text, Zero)) <= Since(text, Zero).den
    BY <2>1, <1>1, <1>5, DurationIsNearest
  <2>4. FaithfulTo(s, r, raw)  BY <2>2, <2>3, Zenon DEF FaithfulTo
  <2>   QED  BY <2>1, <2>4
<1> QED  BY <1>3, <1>6

\* Every time the backend works with is the nearest millisecond to the one
\* ffprobe printed, and known exactly if that one is.
THEOREM ProbedTimesFollow == ProbedSpec => []ProbedTimesAreExact
<1>1. ProbedInv => ProbedTimesAreExact
  <2> SUFFICES ASSUME ProbedInv, probed, job.media # Unprobed
               PROVE  ProbedTimesAreExact
    BY DEF ProbedTimesAreExact
  <2>1. Normalised /\ asked \in Requests
    BY DEF ProbedInv, JobFor
  <2> DEFINE raw == asked.raw
  <2>2. raw \in RawMedia /\ NormaliseFailure(raw) = {}
    BY <2>1, RequestsAssumption DEF Normalised
  <2>3. job.media = NormalMedia(raw)  BY <2>1 DEF Normalised, JobFor
  <2>4. Known(raw) \subseteq raw.streams  BY DEF Known
  <2>5. \A s, r : s = NormalStream(raw, r) => s.index = r.index /\ s.kind = r.kind
    BY DEF NormalStream
  <2>6. job.media.origin = (raw.start # {})  BY <2>2, <2>3, NormalTimes
  <2>7. ASSUME NEW s \in job.media.streams
        PROVE  \E r \in raw.streams :
                 /\ r.index = s.index /\ r.kind = s.kind
                 /\ FaithfulTo(s, r, raw)
    <3>1. PICK r \in Known(raw) :
                /\ s = NormalStream(raw, r)
                /\ FaithfulTo(s, r, raw)
      BY <2>2, <2>3, NormalTimes
    <3>2. r \in raw.streams /\ r.index = s.index /\ r.kind = s.kind
      BY <3>1, <2>4, <2>5
    <3>   QED  BY <3>1, <3>2
  <2>   QED  BY <2>6, <2>7 DEF ProbedTimesAreExact, FaithfulTo
<1> QED  BY <1>1, ProbedInvariance, PTL

\* The later of two times moves no further than they do.
LEMMA GreatestIsSteady ==
  ASSUME NEW a \in Int, NEW b \in Int, NEW x \in Int, NEW y \in Int,
         NEW bound \in Int,
         2 * Magnitude(a - x) <= bound, 2 * Magnitude(b - y) <= bound
  PROVE  2 * Magnitude(Greatest(a, b) - Greatest(x, y)) <= bound
BY DEF Magnitude, Greatest

LEMMA GreatestScales ==
  ASSUME NEW d \in Nat \ {0}, NEW a \in Int, NEW b \in Int
  PROVE  Greatest(a, b) * d = Greatest(a * d, b * d)
<1>1. a * d <= b * d <=> a <= b
  <2>1. d * a <= d * b <=> a <= b  BY CancelledOrder
  <2>   QED  BY <2>1
<1>2. b * d <= a * d <=> b <= a
  <2>1. d * b <= d * a <=> b <= a  BY CancelledOrder
  <2>   QED  BY <2>1
<1>3. a * d \in Int /\ b * d \in Int  OBVIOUS
<1> HIDE DEF Greatest
<1>4. Greatest(a, b) = IF a >= b THEN a ELSE b  BY DEF Greatest
<1>5. Greatest(a * d, b * d) = IF a * d >= b * d THEN a * d ELSE b * d
  BY DEF Greatest
<1> QED  BY <1>1, <1>2, <1>3, <1>4, <1>5

\* claimed is, to the nearest, the later of the start of the stream and the cut,
\* in milliseconds of material time: the cut is in milliseconds of the file, and
\* start and zero, the container's origin, are in seconds over den.
Behind(claimed, cut, start, zero, den) ==
  2 * Magnitude(claimed * den - Greatest(start * 1000, cut * den - zero * 1000))
    <= den

\* Rounding the start ms of the stream and the origin o apart, and taking the
\* later of ms and the requested start first, is at most half a millisecond off.
LEMMA ClaimIsClose ==
  ASSUME NEW first \in Nat, NEW ms \in Int, NEW o \in Int,
         NEW den \in Nat \ {0}, NEW zero \in Int, NEW start \in Int,
         Near(ms, start, den), Near(o, zero, den)
  PROVE  Behind(Greatest(first, Greatest(ms, 0)), first + o, start, zero, den)
<1>1. Greatest(first, Greatest(ms, 0)) = Greatest(ms, first)
  BY DEF Greatest
<1>2. Greatest(ms, first) * den = Greatest(ms * den, first * den)
  BY GreatestScales
<1> DEFINE a == ms * den
           b == first * den
           x == start * 1000
           y == (first + o) * den - zero * 1000
<1>3. a \in Int /\ b \in Int /\ x \in Int /\ y \in Int  OBVIOUS
<1>4. 2 * Magnitude(b - y) <= den
  <2> DEFINE e == o * den - zero * 1000
  <2>1. e \in Int /\ b - y = -e  OBVIOUS
  <2> HIDE DEF e, b, y
  <2>2. Magnitude(-e) = Magnitude(e)  BY <2>1 DEF Magnitude
  <2>3. 2 * Magnitude(e) <= den  BY DEF e, Near
  <2>   QED  BY <2>1, <2>2, <2>3
<1>5. 2 * Magnitude(a - x) <= den  BY DEF Near
<1>6. 2 * Magnitude(Greatest(a, b) - Greatest(x, y)) <= den
  <2> HIDE DEF a, b, x, y
  <2>   QED  BY <1>3, <1>4, <1>5, GreatestIsSteady
<1> QED  BY <1>1, <1>2, <1>6 DEF Behind

\* The container's origin in whole milliseconds.
LEMMA OriginIsNearest ==
  ASSUME NEW raw \in RawMedia, NEW origin \in raw.start,
         OriginMs(raw) # {}, NEW n \in 0 .. 9, origin.digits <= n
  PROVE  Near(Or(OriginMs(raw), 0), Exact(origin, n), 10 ^ n)
<1>1. raw.start \in Option(Decimal)  BY DEF RawMedia
<1>2. Or(OriginMs(raw), 0) \in OriginMs(raw)  BY DEF Or
<1>3. PICK t \in Time(raw.start) : Or(OriginMs(raw), 0) \in ToMsRoundNearest(t)
  BY <1>2 DEF OriginMs
<1>4. origin \in Decimal /\ t \in Seconds(origin)  BY <1>1, TimeOfField
<1> QED  BY <1>3, <1>4, RoundedDecimal

\* A published track begins, in material time, where the manifest says it does:
\* within half a millisecond of the first exact sample time behind the cut.
THEOREM TrackStartFollows == ProbedSpec => []TrackStartIsTruthful
<1>1. ProbedInv => TrackStartIsTruthful
  <2> DEFINE raw == asked.raw
             n(from, origin) == Greatest(from.digits, origin.digits)
  <2> SUFFICES ASSUME ProbedInv, OkTrack,
                      NEW claimed \in Track.presented, NEW origin \in raw.start
               PROVE  \E s \in raw.streams : s.index = Stream(job).index /\
                        \A from \in s.start :
                          LET start == Since(from, origin)
                              zero  == Exact(origin, n(from, origin))
                              cut   == CutFrom(asked) * start.den - zero * MsPerSecond
                              first == Greatest(start.num * MsPerSecond, cut)
                          IN  2 * Magnitude(claimed * start.den - first) <= start.den
    BY DEF TrackStartIsTruthful
  <2>1. /\ Normalised /\ asked \in Requests
        /\ IInv /\ TrackWasPlanned /\ pc = "done"
    BY DEF ProbedInv, OkTrack, IInv, Types
  <2>2. /\ raw \in RawMedia /\ NormaliseFailure(raw) = {}
        /\ job.media = NormalMedia(raw) /\ job.options = asked.options
        /\ job.operation = asked.operation
    BY <2>1, RequestsAssumption DEF Normalised, JobFor
  <2>3. /\ job \in Jobs /\ Selected(job) # {}
        /\ claimed = ActualStart(job.options, Start(job))
    BY <2>1, TrackFacts
  <2>4. Stream(job) \in job.media.streams
    BY <2>3, StreamIsOfMedia
  <2>5. PICK r \in Known(raw) :
          /\ Stream(job) = NormalStream(raw, r) /\ FaithfulTo(Stream(job), r, raw)
    BY <2>2, <2>4, NormalTimes
  <2>6. r \in raw.streams /\ r.index = Stream(job).index
    BY <2>5 DEF Known, NormalStream
  <2>7. ASSUME NEW from \in r.start
        PROVE  LET start == Since(from, origin)
                   zero  == Exact(origin, n(from, origin))
                   cut   == CutFrom(asked) * start.den - zero * MsPerSecond
                   first == Greatest(start.num * MsPerSecond, cut)
               IN  2 * Magnitude(claimed * start.den - first) <= start.den
    <3>1. raw.start \in Option(Decimal) /\ r.start \in Option(Decimal)
      BY <2>2, <2>6 DEF RawMedia, RawStream
    <3>2. ~Malformed(raw.start) /\ ~BadStart(raw, r)
      BY <2>2 DEF NormaliseFailure
    <3>3. /\ origin \in Decimal /\ Time(raw.start) = Seconds(origin)
          /\ Time(raw.start) # {}
          /\ from \in Decimal /\ Time(r.start) = Seconds(from)
      BY <3>1, <3>2, TimeOfField
    <3>4. Time(r.start) # {}
      BY <3>1, <3>2, <3>3, TimeOfField DEF BadStart
    <3>5. PICK p \in Seconds(from), o \in Seconds(origin) : TRUE
      BY <3>3, <3>4
    <3> DEFINE k     == n(from, origin)
               den   == 10 ^ k
               zero  == Exact(origin, k)
               start == Exact(from, k) - zero
               ms    == Start(job)
               ori   == Or(OriginMs(raw), 0)
               first == RequestedStart(asked.options)
    <3>6. /\ k \in 0 .. 9 /\ from.digits <= k /\ origin.digits <= k
          /\ Exact(from, k) \in Int /\ zero \in Int /\ den \in Nat \ {0}
          /\ Since(from, origin) = [num |-> start, den |-> den]
      BY <3>3, <3>5, SinceType
    <3>7. start \in Int  BY <3>6
    <3>8. first \in Nat  BY <2>2, <2>3, JobNumbers
    <3>9. Near(ms, start, den)
      <4>1. Stream(job).start # {}  BY <2>5 DEF FaithfulTo
      <4>2. ms \in Stream(job).start  BY <4>1 DEF Start, Or
      <4>3. TwiceOff(ms, Since(from, origin)) <= Since(from, origin).den
        BY <2>5, <4>2 DEF FaithfulTo
      <4>4. ms \in Int  BY <2>3, JobNumbers
      <4>   QED  BY <4>3, <4>4, <3>6 DEF TwiceOff, MsPerSecond, Near
    <3>10. Near(ori, zero, den)
      <4>1. OriginMs(raw) # {}
        BY <2>1, <2>2, <3>3 DEF Normalised, OkTrack
      <4>2. k \in 0 .. 9 /\ origin.digits <= k  BY <3>6
      <4> HIDE DEF k
      <4>   QED  BY <2>2, <4>1, <4>2, OriginIsNearest
    <3>11. claimed = Greatest(first, Greatest(ms, 0))
      BY <2>2, <2>3 DEF ActualStart, MaterialStart
    <3>12. CutFrom(asked) = first + ori  BY DEF CutFrom
    <3> HIDE DEF ms, ori, first, den, zero, start
    <3>13. ms \in Int /\ ori \in Int  BY <3>9, <3>10 DEF Near
    <3>14. Behind(Greatest(first, Greatest(ms, 0)), first + ori, start, zero, den)
      BY <3>6, <3>7, <3>8, <3>9, <3>10, <3>13, ClaimIsClose
    <3>15. Behind(claimed, CutFrom(asked), start, zero, den)
      BY <3>11, <3>12, <3>14, Zenon
    <3>   QED  BY <3>6, <3>15 DEF MsPerSecond, zero, Behind
  <2> QED  BY <2>6, <2>7
<1> QED  BY <1>1, ProbedInvariance, PTL
=============================================================================
