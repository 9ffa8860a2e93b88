--------------------------- MODULE StarkCurve_proofs ---------------------------
(* Proofs about StarkCurve.                                                 *)
(*                                                                          *)
(* The way to the invariants: remainders modulo a prime have inverses, so   *)
(* DivMod divides; Add and Double are the group law where no addition meets *)
(* two points with one x; so every point that the code computes is a        *)
(* multiple Mult(k) of EcGen, and k is what the algorithm promises: EcMult, *)
(* MimicEcMultAir bit by bit, Equation; and with that Verify is ECDSA, and  *)
(* the signature that Sign returns takes Verify back to the point of the    *)
(* nonce.  The assumptions are those of StarkCurve: primes P and N, a       *)
(* generator of the order N whose multiples are all the points, and that    *)
(* adding the generator is associative.                                     *)
EXTENDS StarkCurve, WellFoundedInduction, TLAPS

-----------------------------------------------------------------------------
(* Remainders.                                                             *)

\* The divisors.
Positive == Nat \ {0}

\* The remainder is below the divisor, and the quotient makes up the rest.
LEMMA ModRange ==
  ASSUME NEW p \in Positive, NEW x \in Int
  PROVE  /\ x % p \in 0 .. p - 1
         /\ x \div p \in Int
         /\ x = p * (x \div p) + (x % p)
BY DEF Positive

\* The remainder is the only one.
LEMMA ModUnique ==
  ASSUME NEW p \in Positive, NEW k \in Int, NEW t \in 0 .. p - 1
  PROVE  (p * k + t) % p = t
<1> DEFINE x == p * k + t
           l == x \div p
           q == x % p
<1>1. x \in Int /\ l \in Int /\ q \in 0 .. p - 1 /\ x = p * l + q
  BY ModRange DEF Positive
<1> HIDE DEF l, q
<1>2. p * (k - l) = q - t
  BY <1>1 DEF Positive
<1>3. k - l \in Int /\ q - t < p /\ q - t > -p
  BY <1>1 DEF Positive
<1>4. k - l = 0
  <2> DEFINE d == k - l
  <2>1. d >= 1 => p * d >= p
    BY <1>3 DEF Positive
  <2>2. d <= -1 => p * d <= -p
    BY <1>3 DEF Positive
  <2> HIDE DEF d
  <2> QED BY <1>2, <1>3, <2>1, <2>2 DEF Positive
<1>5. q = t
  BY <1>1, <1>2, <1>4 DEF Positive
<1> QED BY <1>5 DEF q

\* A number below the divisor is its own remainder.
LEMMA ModSmall ==
  ASSUME NEW p \in Positive, NEW t \in 0 .. p - 1
  PROVE  t % p = t
<1>1. t = p * 0 + t
  BY DEF Positive
<1> QED BY <1>1, ModUnique

\* Two numbers have one remainder if and only if p divides their difference.
LEMMA ModEqual ==
  ASSUME NEW p \in Positive, NEW x \in Int, NEW y \in Int
  PROVE  x % p = y % p <=> \E k \in Int : x = y + p * k
<1>1. ASSUME x % p = y % p PROVE \E k \in Int : x = y + p * k
  <2> DEFINE a == x \div p
             b == y \div p
             t == x % p
  <2>1. a \in Int /\ b \in Int /\ t \in 0 .. p - 1 /\ x = p * a + t /\ y = p * b + t
    BY <1>1, ModRange
  <2> HIDE DEF a, b, t
  <2>2. x = y + p * (a - b) /\ a - b \in Int
    BY <2>1 DEF Positive
  <2> QED BY <2>2
<1>2. ASSUME NEW k \in Int, x = y + p * k PROVE x % p = y % p
  <2> DEFINE b == y \div p
             t == y % p
  <2>1. b \in Int /\ t \in 0 .. p - 1 /\ y = p * b + t
    BY ModRange
  <2> HIDE DEF b, t
  <2>2. x = p * (b + k) + t /\ b + k \in Int
    BY <1>2, <2>1 DEF Positive
  <2>3. x % p = t
    BY <2>1, <2>2, ModUnique
  <2> QED BY <2>3 DEF t
<1> QED BY <1>1, <1>2

\* Taking the remainder twice is taking it once.
LEMMA ModMod ==
  ASSUME NEW p \in Positive, NEW x \in Int
  PROVE  (x % p) % p = x % p
BY ModRange, ModSmall

\* Sums and differences of congruent numbers are congruent.
LEMMA ModAdd ==
  ASSUME NEW p \in Positive, NEW x \in Int, NEW y \in Int, NEW u \in Int, NEW v \in Int,
         x % p = y % p, u % p = v % p
  PROVE  (x + u) % p = (y + v) % p /\ (x - u) % p = (y - v) % p
<1>1. PICK k \in Int : x = y + p * k
  BY ModEqual
<1>2. PICK l \in Int : u = v + p * l
  BY ModEqual
<1>3. x + u = (y + v) + p * (k + l) /\ x - u = (y - v) + p * (k - l)
  BY <1>1, <1>2 DEF Positive
<1>4. /\ k + l \in Int /\ k - l \in Int
      /\ x + u \in Int /\ y + v \in Int /\ x - u \in Int /\ y - v \in Int
  OBVIOUS
<1> QED BY <1>3, <1>4, ModEqual

\* So are products.
LEMMA ModMul ==
  ASSUME NEW p \in Positive, NEW x \in Int, NEW y \in Int, NEW u \in Int, NEW v \in Int,
         x % p = y % p, u % p = v % p
  PROVE  (x * u) % p = (y * v) % p
<1>1. PICK k \in Int : x = y + p * k
  BY ModEqual
<1>2. PICK l \in Int : u = v + p * l
  BY ModEqual
<1>3. x * u = y * v + p * (y * l + k * v + p * (k * l))
  BY <1>1, <1>2 DEF Positive
<1>4. y * l + k * v + p * (k * l) \in Int /\ x * u \in Int /\ y * v \in Int
  BY DEF Positive
<1> QED BY <1>3, <1>4, ModEqual

\* What p divides.
LEMMA ModZero ==
  ASSUME NEW p \in Positive, NEW x \in Int, NEW y \in Int
  PROVE  /\ 0 % p = 0 /\ (-p) % p = 0 /\ p % p = 0
         /\ x % p = y % p <=> (x - y) % p = 0
         /\ x % p = 0 <=> \E k \in Int : x = p * k
<1>1. 0 % p = 0
  BY ModSmall DEF Positive
<1>2. x % p = 0 <=> \E k \in Int : x = 0 + p * k
  BY <1>1, ModEqual
<1>3. -p = p * (-1) + 0 /\ p = p * 1 + 0 /\ 0 \in 0 .. p - 1
  BY DEF Positive
<1>4. (-p) % p = 0 /\ p % p = 0
  BY <1>3, ModUnique
<1>5. (x - y) % p = 0 <=> \E k \in Int : x - y = 0 + p * k
  <2>1. x - y \in Int
    OBVIOUS
  <2> QED BY <1>1, <2>1, ModEqual
<1>6. \A k \in Int : x - y = 0 + p * k <=> x = y + p * k
  BY DEF Positive
<1>7. x % p = 0 <=> \E k \in Int : x = p * k
  <2>1. \A k \in Int : 0 + p * k = p * k
    BY DEF Positive
  <2> QED BY <1>2, <2>1
<1> QED BY <1>1, <1>4, <1>5, <1>6, <1>7, ModEqual

\* Taking the remainder of a part first changes nothing.
LEMMA ModInner ==
  ASSUME NEW p \in Positive, NEW x \in Int, NEW y \in Int
  PROVE  /\ (x + (y % p)) % p = (x + y) % p
         /\ (x - (y % p)) % p = (x - y) % p
         /\ (x * (y % p)) % p = (x * y) % p
<1>0. x % p \in 0 .. p - 1
  BY ModRange
<1>1. y % p \in Int
  BY ModRange DEF Positive
<1>2. PICK z \in Int : z = y % p
  BY <1>1
<1>3. z % p = y % p
  BY <1>2, ModMod
<1>4. (x + z) % p = (x + y) % p /\ (x - z) % p = (x - y) % p
  BY <1>0, <1>3, ModAdd
<1>5. (x * z) % p = (x * y) % p
  BY <1>0, <1>3, ModMul
<1> QED BY <1>2, <1>4, <1>5

\* The same with one number in common.
LEMMA ModShift ==
  ASSUME NEW p \in Positive, NEW x \in Int, NEW y \in Int, NEW u \in Int, x % p = y % p
  PROVE  /\ (x + u) % p = (y + u) % p /\ (u + x) % p = (u + y) % p
         /\ (x - u) % p = (y - u) % p /\ (u - x) % p = (u - y) % p
         /\ (x * u) % p = (y * u) % p /\ (u * x) % p = (u * y) % p
<1>1. u % p \in 0 .. p - 1
  BY ModRange
<1>2. (x + u) % p = (y + u) % p /\ (x - u) % p = (y - u) % p
  BY <1>1, ModAdd
<1>3. (u + x) % p = (u + y) % p /\ (u - x) % p = (u - y) % p
  BY <1>1, ModAdd
<1>4. (x * u) % p = (y * u) % p
  BY <1>1, ModMul
<1>5. (u * x) % p = (u * y) % p
  BY <1>1, ModMul
<1> QED BY <1>2, <1>3, <1>4, <1>5

-----------------------------------------------------------------------------
(* Least elements, and the arithmetic of a prime.                          *)

\* A set of numbers with an element has a least one.
LEMMA LeastElement ==
  ASSUME NEW S, S \subseteq Nat, S # {}
  PROVE  \E x \in S : \A y \in S : x <= y
<1> DEFINE R == {ss \in Nat \X Nat : ss[1] < ss[2]}
<1>1. IsWellFoundedOn(R, Nat)
  BY NatLessThanWellFounded DEF OpToRel
<1>2. PICK x \in S : \A y \in S : <<y, x>> \notin R
  <2> HIDE DEF R
  <2> QED BY <1>1, WFMin
<1>3. \A y \in S : x <= y
  <2> SUFFICES ASSUME NEW y \in S, ~(x <= y) PROVE FALSE
    OBVIOUS
  <2>1. <<y, x>> \in Nat \X Nat /\ y < x
    OBVIOUS
  <2> QED BY <1>2, <2>1
<1> QED BY <1>3

\* A set of numbers that holds 0 and the successors of its elements holds them all.
LEMMA NatSetInduction ==
  ASSUME NEW S, 0 \in S, \A n \in Nat : n \in S => n + 1 \in S
  PROVE  Nat \subseteq S
<1> SUFFICES ASSUME ~ (Nat \subseteq S) PROVE FALSE
  OBVIOUS
<1>1. PICK x \in Nat \ S : \A y \in Nat \ S : x <= y
  <2>1. Nat \ S \subseteq Nat /\ Nat \ S # {}
    OBVIOUS
  <2> QED BY <2>1, LeastElement
<1>2. x # 0 /\ x - 1 \in Nat /\ (x - 1) + 1 = x
  BY <1>1
<1>3. x - 1 \in S
  BY <1>1, <1>2
<1> QED BY <1>1, <1>2, <1>3

\* Modulo a prime every number but the multiples of the prime has an inverse.
LEMMA PrimeInverse ==
  ASSUME NEW p \in Nat, IsPrime(p), NEW x \in Int, x % p # 0
  PROVE  \E y \in 0 .. p - 1 : (x * y) % p = 1
<1>0. p \in Positive /\ p \in Nat /\ p > 1
  BY DEF IsPrime, Positive
<1> DEFINE S == {d \in Positive : \E y, k \in Int : d = x * y + p * k}
<1>1. p \in S
  <2>1. p = x * 0 + p * 1
    BY <1>0
  <2>2. \E y, k \in Int : p = x * y + p * k
    <3> WITNESS 0 \in Int, 1 \in Int
    <3> QED BY <2>1
  <2> QED BY <1>0, <2>2
<1>2. x % p \in S
  <2>1. x % p \in Positive /\ x \div p \in Int /\ x = p * (x \div p) + (x % p)
    BY <1>0, ModRange DEF Positive
  <2>2. PICK q \in Int, t \in Positive : t = x % p /\ x = p * q + t
    BY <2>1
  <2>3. t = x * 1 + p * (-q) /\ -q \in Int /\ 1 \in Int
    BY <1>0, <2>2
  <2>4. \E y, k \in Int : t = x * y + p * k
    <3> WITNESS 1 \in Int, -q \in Int
    <3> QED BY <2>3
  <2>5. t \in S
    BY <2>4
  <2> HIDE DEF S
  <2> QED BY <2>2, <2>5
<1>3. PICK d \in S : \A e \in S : d <= e
  <2>1. S \subseteq Nat /\ S # {}
    BY <1>1 DEF Positive
  <2> HIDE DEF S
  <2> QED BY <2>1, LeastElement
<1>4. d < p /\ d \in Positive
  <2>1. d \in Positive
    OBVIOUS
  <2>2. d <= x % p
    BY <1>2, <1>3
  <2>3. x % p \in 0 .. p - 1
    BY <1>0, ModRange
  <2> HIDE DEF S
  <2> QED BY <1>0, <2>1, <2>2, <2>3 DEF Positive
<1>5. p % d = 0
  <2> DEFINE q == p \div d
             t == p % d
  <2>1. q \in Int /\ t \in 0 .. d - 1 /\ p = d * q + t
    BY <1>0, <1>4, ModRange
  <2>2. PICK y, k \in Int : d = x * y + p * k
    BY <1>3
  <2> HIDE DEF q, t
  <2>3. t = x * (-(y * q)) + p * (1 - k * q)
    <3>1. d * q = x * (y * q) + p * (k * q)
      BY <1>0, <2>1, <2>2
    <3>2. y * q \in Int /\ k * q \in Int /\ t = p - d * q
      BY <1>0, <1>4, <2>1, <2>2 DEF Positive
    <3> QED BY <1>0, <3>1, <3>2
  <2>4. -(y * q) \in Int /\ 1 - k * q \in Int
    BY <2>1
  <2>5. t \in Positive => t \in S
    BY <2>3, <2>4
  <2>6. t < d
    BY <1>4, <2>1 DEF Positive
  <2>7. t = 0
    <3> HIDE DEF S
    <3> QED BY <1>3, <1>4, <2>1, <2>5, <2>6 DEF Positive
  <2> QED BY <2>7 DEF t
<1>6. d = 1
  BY <1>0, <1>4, <1>5 DEF IsPrime, Positive
<1>7. PICK y, k \in Int : 1 = x * y + p * k
  BY <1>3, <1>6
<1>8. (x * y) % p = 1
  <2>1. x * y = p * (-k) + 1 /\ -k \in Int /\ 1 \in 0 .. p - 1
    BY <1>0, <1>7
  <2> QED BY <1>0, <2>1, ModUnique
<1>9. y % p \in 0 .. p - 1 /\ (y % p) % p = y % p /\ y % p \in Int
  <2> HIDE DEF S
  <2>1. y % p \in 0 .. p - 1
    BY <1>0, ModRange
  <2>2. (y % p) % p = y % p
    BY <1>0, ModMod
  <2> QED BY <1>0, <2>1, <2>2
<1>10. (x * (y % p)) % p = (x * y) % p
  <2> HIDE DEF S
  <2> QED BY <1>0, ModInner
<1> QED BY <1>8, <1>9, <1>10

\* A prime that divides a product divides a factor.
LEMMA PrimeDivides ==
  ASSUME NEW p \in Nat, IsPrime(p), NEW x \in Int, NEW y \in Int, (x * y) % p = 0
  PROVE  x % p = 0 \/ y % p = 0
<1>0. p \in Positive
  BY DEF IsPrime, Positive
<1> SUFFICES ASSUME x % p # 0 PROVE y % p = 0
  OBVIOUS
<1>1. PICK z \in 0 .. p - 1 : (x * z) % p = 1
  BY PrimeInverse
<1>2. z \in Int /\ x * z \in Int /\ x * y \in Int /\ 1 % p = 1 /\ 1 \in Int
  BY <1>0, ModSmall DEF IsPrime, Positive
<1>3. PICK k \in Int : x * z = 1 + p * k
  <2>1. PICK a \in Int, c \in Int : a = x * z /\ c = 1
    BY <1>2
  <2>2. a % p = c % p
    BY <1>1, <1>2, <2>1
  <2>3. \E k \in Int : a = c + p * k
    BY <1>0, <2>2, ModEqual
  <2> QED BY <2>1, <2>3
<1>4. PICK l \in Int : x * y = p * l
  BY <1>0, <1>2, ModZero
<1>5. y = p * (l * z - k * y)
  <2>1. y * (x * z) = y + p * (k * y)
    BY <1>2, <1>3 DEF Positive
  <2>2. y * (x * z) = (x * y) * z
    BY <1>2
  <2>3. (x * y) * z = p * (l * z)
    BY <1>2, <1>4 DEF Positive
  <2>4. l * z \in Int /\ k * y \in Int
    BY <1>2
  <2>5. y = p * (l * z) - p * (k * y)
    BY <2>1, <2>2, <2>3, <2>4 DEF Positive
  <2> QED BY <2>4, <2>5 DEF Positive
<1>6. l * z - k * y \in Int
  BY <1>2
<1> QED BY <1>0, <1>5, <1>6, ModZero

\* A factor that the prime does not divide can be cancelled.
LEMMA PrimeCancel ==
  ASSUME NEW p \in Nat, IsPrime(p), NEW x \in Int, NEW y \in Int, NEW z \in Int,
         x % p # 0, (x * y) % p = (x * z) % p
  PROVE  y % p = z % p
<1>0. p \in Positive
  BY DEF IsPrime, Positive
<1>1. x * y \in Int /\ x * z \in Int /\ y - z \in Int /\ x * y - x * z = x * (y - z)
  OBVIOUS
<1>2. (x * (y - z)) % p = 0
  BY <1>0, <1>1, ModZero
<1>3. (y - z) % p = 0
  BY <1>1, <1>2, PrimeDivides
<1> QED BY <1>0, <1>3, ModZero

-----------------------------------------------------------------------------
(* Induction up to a number; powers of two; the sums of EcGen.             *)

\* Induction up to a bound.
LEMMA SegmentInduction ==
  ASSUME NEW n \in Nat, NEW S, 0 \in S, \A i \in Nat : i < n /\ i \in S => i + 1 \in S
  PROVE  0 .. n \subseteq S
<1> DEFINE Q == {i \in Nat : i <= n => i \in S}
<1>1. 0 \in Q
  OBVIOUS
<1>2. \A i \in Nat : i \in Q => i + 1 \in Q
  <2> SUFFICES ASSUME NEW i \in Nat, i \in Q, i + 1 <= n PROVE i + 1 \in S
    OBVIOUS
  <2>1. i < n /\ i \in S
    OBVIOUS
  <2> QED BY <2>1
<1>3. Nat \subseteq Q
  <2> HIDE DEF Q
  <2> QED BY <1>1, <1>2, NatSetInduction
<1> QED BY <1>3

\* Pow2 is the function that its recursive definition says.
LEMMA Pow2Is ==
  /\ Pow2[0] = 1
  /\ \A i \in 1 .. Bits : Pow2[i] = 2 * Pow2[i - 1]
<1> DEFINE IsPow2(f, n) == f = [i \in 0 .. n |-> IF i = 0 THEN 1 ELSE 2 * f[i - 1]]
           S == {n \in Nat : \E f \in [0 .. n -> Nat] : IsPow2(f, n)}
<1>0. Bits \in Nat
  BY CurveAssumption
<1>1. 0 \in S
  <2> DEFINE g == [i \in 0 .. 0 |-> 1]
  <2>1. IsPow2(g, 0)
    OBVIOUS
  <2> QED BY <2>1
<1>2. \A n \in Nat : n \in S => n + 1 \in S
  <2> SUFFICES ASSUME NEW n \in Nat, NEW f \in [0 .. n -> Nat], IsPow2(f, n)
               PROVE  \E g \in [0 .. n + 1 -> Nat] : IsPow2(g, n + 1)
    <3> HIDE DEF IsPow2
    <3> QED OBVIOUS
  <2> DEFINE g == [i \in 0 .. n + 1 |-> IF i <= n THEN f[i] ELSE 2 * f[n]]
  <2>0. g \in [0 .. n + 1 -> Nat] /\ \A i \in 0 .. n : f[i] = IF i = 0 THEN 1 ELSE 2 * f[i - 1]
    OBVIOUS
  <2>1. \A i \in 0 .. n + 1 : g[i] = IF i = 0 THEN 1 ELSE 2 * g[i - 1]
    <3> SUFFICES ASSUME NEW i \in 0 .. n + 1 PROVE g[i] = IF i = 0 THEN 1 ELSE 2 * g[i - 1]
      OBVIOUS
    <3>1. CASE i = n + 1
      BY <3>1
    <3>2. CASE i \in 0 .. n
      <4>1. i # 0 => i - 1 \in 0 .. n
        BY <3>2
      <4>2. g[i] = f[i] /\ (i # 0 => g[i - 1] = f[i - 1])
        BY <3>2, <4>1
      <4> HIDE DEF g
      <4> QED BY <2>0, <3>2, <4>2
    <3> QED BY <3>1, <3>2
  <2>2. IsPow2(g, n + 1)
    <3>1. g = [i \in 0 .. n + 1 |-> g[i]]
      OBVIOUS
    <3> HIDE DEF g
    <3> QED BY <2>1, <3>1
  <2> HIDE DEF IsPow2, g
  <2> QED BY <2>0, <2>2
<1>3. \E f : IsPow2(f, Bits)
  <2>1. Nat \subseteq S
    <3> HIDE DEF S
    <3> QED BY <1>1, <1>2, NatSetInduction
  <2> QED BY <1>0, <2>1
<1>4. IsPow2(Pow2, Bits)
  BY <1>3 DEF Pow2
<1> QED BY <1>0, <1>4

\* The powers of two are positive; Max is at least 2.
LEMMA Pow2Type ==
  /\ \A i \in 0 .. Bits : Pow2[i] \in Positive
  /\ Max \in Nat /\ Max >= 2
<1>0. Bits \in Nat /\ Bits > 0
  BY CurveAssumption
<1> DEFINE S == {i \in Nat : i <= Bits => Pow2[i] \in Positive}
<1>1. 0 \in S
  BY Pow2Is DEF Positive
<1>2. \A i \in Nat : i < Bits /\ i \in S => i + 1 \in S
  <2> SUFFICES ASSUME NEW i \in Nat, i < Bits, i \in S PROVE Pow2[i + 1] \in Positive
    OBVIOUS
  <2>1. Pow2[i] \in Positive /\ i + 1 \in 1 .. Bits /\ (i + 1) - 1 = i
    BY <1>0
  <2>2. Pow2[i + 1] = 2 * Pow2[i]
    BY <2>1, Pow2Is
  <2> QED BY <2>1, <2>2 DEF Positive
<1>3. 0 .. Bits \subseteq S
  <2> HIDE DEF S
  <2> QED BY <1>0, <1>1, <1>2, SegmentInduction
<1>4. \A i \in 0 .. Bits : Pow2[i] \in Positive
  BY <1>0, <1>3
<1>5. Pow2[Bits] = 2 * Pow2[Bits - 1] /\ Bits - 1 \in 0 .. Bits /\ Pow2[Bits - 1] \in Positive
  BY <1>0, <1>4, Pow2Is
<1> QED BY <1>4, <1>5 DEF Max, Positive

\* What the assumptions say of the constants, for the provers: 2 < N < P, and N is odd.
LEMMA Constants ==
  /\ P \in Positive /\ N \in Positive /\ P \in Nat /\ N \in Nat /\ N > 2 /\ P > 2
  /\ IsPrime(P) /\ IsPrime(N) /\ Max < N /\ N < P /\ Beta \in Nat /\ Bits \in Nat
  /\ N % 2 = 1
<1>1. P \in Nat /\ N \in Nat /\ N > 2
  BY CurveAssumption, Pow2Type DEF IsPrime
<1>2. N % 2 = 1
  <2>1. N % 2 # 0
    BY <1>1, CurveAssumption DEF IsPrime
  <2> QED BY <1>1, <2>1
<1> QED BY <1>1, <1>2, CurveAssumption DEF Positive

\* The multiples of EcGen are what their recursive definition says.
LEMMA SumsIs ==
  /\ Sums[0] = Infinity
  /\ \A i \in 1 .. N - 1 : Sums[i] = Plus(Sums[i - 1], EcGen)
<1> DEFINE IsSums(f, n) ==
             f = [i \in 0 .. n |-> IF i = 0 THEN Infinity ELSE Plus(f[i - 1], EcGen)]
           S == {n \in Nat : \E f : IsSums(f, n)}
<1>1. 0 \in S
  <2> DEFINE g == [i \in 0 .. 0 |-> Infinity]
  <2>1. IsSums(g, 0)
    OBVIOUS
  <2> QED BY <2>1
<1>2. \A n \in Nat : n \in S => n + 1 \in S
  <2> SUFFICES ASSUME NEW n \in Nat, NEW f, IsSums(f, n) PROVE \E g : IsSums(g, n + 1)
    OBVIOUS
  <2> DEFINE g == [i \in 0 .. n + 1 |-> IF i <= n THEN f[i] ELSE Plus(f[n], EcGen)]
  <2>1. \A i \in 0 .. n + 1 : g[i] = IF i = 0 THEN Infinity ELSE Plus(g[i - 1], EcGen)
    OBVIOUS
  <2>2. IsSums(g, n + 1)
    <3>1. g = [i \in 0 .. n + 1 |-> g[i]]
      OBVIOUS
    <3> HIDE DEF g
    <3> QED BY <2>1, <3>1
  <2> HIDE DEF IsSums
  <2> QED BY <2>2
<1>3. \E f : IsSums(f, N - 1)
  <2>1. Nat \subseteq S
    <3> HIDE DEF S
    <3> QED BY <1>1, <1>2, NatSetInduction
  <2>2. N - 1 \in Nat
    BY Constants
  <2> QED BY <2>1, <2>2
<1>4. IsSums(Sums, N - 1)
  BY <1>3 DEF Sums
<1> QED BY <1>4, Constants

-----------------------------------------------------------------------------
(* The recursive functions of the model, unfolded.                         *)

\* EcMult is the function that its recursive definition says, for every m up to N.
LEMMA EcMultIs ==
  /\ \A q \in Points : EcMult[1][q] = q
  /\ \A m \in 2 .. N, q \in Points :
       EcMult[m][q] = IF m % 2 = 0 THEN EcMult[m \div 2][Double(q)]
                      ELSE Add(EcMult[m - 1][q], q)
<1> DEFINE Times(f, m) == [q \in Points |-> IF m = 1 THEN q
                                           ELSE IF m % 2 = 0 THEN f[m \div 2][Double(q)]
                                           ELSE Add(f[m - 1][q], q)]
           IsEcMult(f, n) == f = [m \in 1 .. n |-> Times(f, m)]
           S == {n \in Nat : \E f : IsEcMult(f, n)}
<1>1. 0 \in S
  <2> DEFINE g == [m \in 1 .. 0 |-> 1]
  <2>1. g = [m \in 1 .. 0 |-> Times(g, m)]
    <3> HIDE DEF Times
    <3> QED OBVIOUS
  <2> HIDE DEF g, Times
  <2> QED BY <2>1
<1>2. \A n \in Nat : n \in S => n + 1 \in S
  <2> SUFFICES ASSUME NEW n \in Nat, NEW f, IsEcMult(f, n) PROVE \E g : IsEcMult(g, n + 1)
    <3> HIDE DEF IsEcMult
    <3> QED OBVIOUS
  <2> DEFINE g == [m \in 1 .. n + 1 |-> IF m <= n THEN f[m] ELSE Times(f, n + 1)]
  <2>1. \A m \in 1 .. n + 1 : g[m] = Times(f, m)
    <3> HIDE DEF Times
    <3> QED OBVIOUS
  <2>2. \A m \in 1 .. n + 1 : Times(g, m) = Times(f, m)
    <3> SUFFICES ASSUME NEW m \in 1 .. n + 1 PROVE Times(g, m) = Times(f, m)
      OBVIOUS
    <3>1. CASE m = 1
      BY <3>1, Zenon
    <3>2. CASE m # 1
      <4>1. m - 1 \in 1 .. n /\ m \div 2 \in 1 .. n
        BY <3>2
      <4>2. \A l \in 1 .. n : g[l] = f[l]
        <5> HIDE DEF Times
        <5> QED OBVIOUS
      <4>3. g[m - 1] = f[m - 1] /\ g[m \div 2] = f[m \div 2]
        BY <4>1, <4>2
      <4> HIDE DEF g
      <4> QED BY <4>3, Zenon
    <3> QED BY <3>1, <3>2
  <2>3. IsEcMult(g, n + 1)
    <3>1. g = [m \in 1 .. n + 1 |-> g[m]]
      OBVIOUS
    <3> HIDE DEF g, Times
    <3> QED BY <2>1, <2>2, <3>1
  <2> HIDE DEF IsEcMult
  <2> QED BY <2>3
<1>3. \E f : IsEcMult(f, N)
  <2>1. Nat \subseteq S
    <3> HIDE DEF S
    <3> QED BY <1>1, <1>2, NatSetInduction
  <2> HIDE DEF IsEcMult
  <2> QED BY <2>1, Constants
<1>4. EcMult = [m \in 1 .. N |-> Times(EcMult, m)]
  BY <1>3, Zenon DEF EcMult
<1>5. \A m \in 1 .. N : EcMult[m] = Times(EcMult, m)
  <2> HIDE DEF Times
  <2> QED BY <1>4
<1>6. 1 \in 1 .. N /\ \A m \in 2 .. N : m \in 1 .. N /\ m # 1
  BY Constants
<1>7. ASSUME NEW q \in Points PROVE EcMult[1][q] = q
  BY <1>5, <1>6, Zenon
<1>8. ASSUME NEW m \in 2 .. N, NEW q \in Points
      PROVE  EcMult[m][q] = IF m % 2 = 0 THEN EcMult[m \div 2][Double(q)]
                            ELSE Add(EcMult[m - 1][q], q)
  <2>1. m # 1 /\ EcMult[m] = Times(EcMult, m)
    <3> HIDE DEF Times
    <3> QED BY <1>5, <1>6
  <2> DEFINE half == EcMult[m \div 2][Double(q)]
             less == Add(EcMult[m - 1][q], q)
  <2>2. Times(EcMult, m)[q] = IF m = 1 THEN q ELSE IF m % 2 = 0 THEN half ELSE less
    BY Zenon
  <2> HIDE DEF Times, half, less
  <2>3. EcMult[m][q] = IF m % 2 = 0 THEN half ELSE less
    BY <2>1, <2>2
  <2> QED BY <2>3 DEF half, less
<1> QED BY <1>7, <1>8

\* The rounds of MimicEcMultAir.
LEMMA RoundsIs ==
  ASSUME NEW m, NEW q, NEW shift
  PROVE  /\ Rounds(m, q, shift)[0] = [sum |-> shift, point |-> q]
         /\ \A i \in 1 .. Bits :
              Rounds(m, q, shift)[i] = Round(m, i - 1, Rounds(m, q, shift)[i - 1])
<1> DEFINE First == [sum |-> shift, point |-> q]
           IsRounds(f, n) ==
             f = [i \in 0 .. n |-> IF i = 0 THEN First ELSE Round(m, i - 1, f[i - 1])]
           S == {n \in Nat : \E f : IsRounds(f, n)}
<1>1. 0 \in S
  <2> DEFINE g == [i \in 0 .. 0 |-> First]
  <2>1. IsRounds(g, 0)
    <3> HIDE DEF First
    <3> QED OBVIOUS
  <2> HIDE DEF g, IsRounds
  <2> QED BY <2>1
<1>2. \A n \in Nat : n \in S => n + 1 \in S
  <2> SUFFICES ASSUME NEW n \in Nat, NEW f, IsRounds(f, n) PROVE \E g : IsRounds(g, n + 1)
    <3> HIDE DEF IsRounds
    <3> QED OBVIOUS
  <2> DEFINE g == [i \in 0 .. n + 1 |-> IF i <= n THEN f[i] ELSE Round(m, n, f[n])]
  <2>1. \A i \in 0 .. n + 1 : g[i] = IF i = 0 THEN First ELSE Round(m, i - 1, g[i - 1])
    <3> HIDE DEF First
    <3> QED OBVIOUS
  <2>2. IsRounds(g, n + 1)
    <3>1. g = [i \in 0 .. n + 1 |-> g[i]]
      OBVIOUS
    <3> HIDE DEF g, First
    <3> QED BY <2>1, <3>1
  <2> HIDE DEF IsRounds
  <2> QED BY <2>2
<1>3. \E f : IsRounds(f, Bits)
  <2>1. Nat \subseteq S
    <3> HIDE DEF S
    <3> QED BY <1>1, <1>2, NatSetInduction
  <2> HIDE DEF IsRounds
  <2> QED BY <2>1, Constants
<1> DEFINE all == Rounds(m, q, shift)
<1>4. all = [i \in 0 .. Bits |-> IF i = 0 THEN First ELSE Round(m, i - 1, all[i - 1])]
  BY <1>3, Zenon DEF Rounds
<1>5. all[0] = First /\ \A i \in 1 .. Bits : all[i] = Round(m, i - 1, all[i - 1])
  <2> HIDE DEF all
  <2> QED BY <1>4, Constants
<1> QED BY <1>5, Zenon

\* RoundsIs for one round.
LEMMA NextRound ==
  ASSUME NEW m, NEW q, NEW shift, NEW i \in 1 .. Bits
  PROVE  Rounds(m, q, shift)[i] = Round(m, i - 1, Rounds(m, q, shift)[i - 1])
<1>1. \A n, y, z : /\ Rounds(n, y, z)[0] = [sum |-> z, point |-> y]
                   /\ \A j \in 1 .. Bits :
                        Rounds(n, y, z)[j] = Round(n, j - 1, Rounds(n, y, z)[j - 1])
  BY RoundsIs
<1> QED BY <1>1

-----------------------------------------------------------------------------
(* The group: Mult(k) is the multiple of EcGen by any integer k.           *)

\* The k-th multiple of EcGen, for every k.
Mult(k) == Multiple[k % N]
\* The points of the curve and Infinity.
Group   == Curve \cup {Infinity}

\* The assumptions on EcGen in terms of Multiple: its multiples are the points of the curve.
LEMMA MultipleIs ==
  /\ Multiple[0] = Infinity
  /\ \A i \in 1 .. N - 1 : Multiple[i] = Plus(Multiple[i - 1], EcGen)
  /\ \A i \in 1 .. N - 1 : Multiple[i] \in Curve
  /\ \A q \in Curve : \E i \in 1 .. N - 1 : q = Multiple[i]
<1>1. \A i \in 0 .. N - 1 : Multiple[i] = Sums[i]
  BY DEF Multiple
<1>2. 0 \in 0 .. N - 1 /\ \A i \in 1 .. N - 1 : i \in 0 .. N - 1 /\ i - 1 \in 0 .. N - 1
  BY Constants
<1>3. {Multiple[i] : i \in 1 .. N - 1} = Curve
  BY CurveAssumption
<1> HIDE DEF Multiple
<1>4. \A q \in Curve : \E i \in 1 .. N - 1 : q = Multiple[i]
  BY <1>3
<1> QED BY <1>1, <1>2, <1>3, <1>4, SumsIs

\* Infinity is no pair.
LEMMA InfinityNotOnCurve == Infinity \notin Curve
<1> SUFFICES ASSUME Infinity \in Curve PROVE FALSE
  OBVIOUS
<1>1. Infinity \in Points
  BY DEF Curve
<1>2. \A q \in Points : q = <<q[1], q[2]>>
  BY DEF Points
<1>3. \A a, b : <<a, b>> # <<>>
  OBVIOUS
<1> QED BY <1>1, <1>2, <1>3 DEF Infinity

\* Mult(k) is a point of the curve unless N divides k.
LEMMA MultType ==
  ASSUME NEW k \in Int
  PROVE  /\ Mult(k) \in Group
         /\ Mult(k) = Infinity <=> k % N = 0
         /\ Mult(k) \in Curve <=> k % N # 0
<1>1. k % N \in 0 .. N - 1
  BY ModRange, Constants
<1>2. PICK i \in 0 .. N - 1 : i = k % N
  BY <1>1
<1>3. i # 0 => Multiple[i] \in Curve
  BY MultipleIs
<1>4. i = 0 => Multiple[i] = Infinity
  BY MultipleIs
<1> QED BY <1>2, <1>3, <1>4, InfinityNotOnCurve DEF Mult, Group

\* Below N, Mult and Multiple are the same.
LEMMA MultOfResidue ==
  ASSUME NEW i \in 0 .. N - 1
  PROVE  Mult(i) = Multiple[i]
BY ModSmall, Constants DEF Mult

\* Mult depends on the remainder of k alone.
LEMMA MultCongruent ==
  ASSUME NEW k \in Int, NEW l \in Int, k % N = l % N
  PROVE  Mult(k) = Mult(l)
BY DEF Mult

\* The next multiple is the sum with EcGen, also from N - 1 back to Infinity.
LEMMA MultNext ==
  ASSUME NEW k \in Int
  PROVE  Plus(Mult(k), EcGen) = Mult(k + 1)
<1>0. k % N \in 0 .. N - 1
  BY ModRange, Constants
<1>1. PICK i \in 0 .. N - 1 : i = k % N
  BY <1>0
<1>2. i % N = k % N
  BY <1>1, ModSmall, Constants
<1>3. (i + 1) % N = (k + 1) % N
  <2>1. i \in Int /\ 1 \in Int
    OBVIOUS
  <2> QED BY <1>2, <2>1, ModShift, Constants, Zenon
<1>4. CASE i < N - 1
  <2>1. (i + 1) % N = i + 1
    BY <1>4, ModSmall, Constants
  <2>2. i + 1 \in 1 .. N - 1 /\ (i + 1) - 1 = i
    BY <1>4, Constants
  <2>3. Multiple[i + 1] = Plus(Multiple[i], EcGen)
    BY <2>2, MultipleIs
  <2> QED BY <1>1, <1>3, <2>1, <2>3 DEF Mult
<1>5. CASE i = N - 1
  <2>1. (i + 1) % N = 0
    BY <1>5, ModZero, Constants
  <2>2. Plus(Multiple[i], EcGen) = Multiple[0]
    BY <1>5, MultipleIs, GroupLaw
  <2> QED BY <1>1, <1>3, <2>1, <2>2 DEF Mult
<1> QED BY <1>1, <1>4, <1>5, Constants

\* Adding points is adding what they are multiples by.
LEMMA MultPlus ==
  ASSUME NEW k \in Int, NEW l \in Int
  PROVE  Plus(Mult(k), Mult(l)) = Mult(k + l)
<1> DEFINE S == {i \in Nat : Plus(Mult(k), Mult(i)) = Mult(k + i)}
<1>1. 0 \in S
  <2>1. Mult(0) = Infinity /\ k + 0 = k
    BY MultType, ModZero, Constants
  <2>2. \A q : Plus(q, Infinity) = q
    BY DEF Plus
  <2> QED BY <2>1, <2>2
<1>2. \A i \in Nat : i \in S => i + 1 \in S
  <2> SUFFICES ASSUME NEW i \in Nat, Plus(Mult(k), Mult(i)) = Mult(k + i)
               PROVE  Plus(Mult(k), Mult(i + 1)) = Mult(k + (i + 1))
    OBVIOUS
  <2>1. Mult(i + 1) = Plus(Mult(i), EcGen)
    BY MultNext
  <2>2. Mult(k) \in Group /\ Mult(i) \in Group
    BY MultType
  <2>3. Plus(Mult(k), Plus(Mult(i), EcGen)) = Plus(Plus(Mult(k), Mult(i)), EcGen)
    BY <2>2, GroupLaw DEF Group
  <2>4. Plus(Mult(k + i), EcGen) = Mult((k + i) + 1) /\ (k + i) + 1 = k + (i + 1)
    BY MultNext
  <2> QED BY <2>1, <2>3, <2>4
<1>3. Nat \subseteq S
  <2> HIDE DEF S
  <2> QED BY <1>1, <1>2, NatSetInduction
<1>4. l % N \in 0 .. N - 1
  BY ModRange, Constants
<1>5. PICK i \in 0 .. N - 1 : i = l % N
  BY <1>4
<1>6. i % N = l % N
  BY <1>5, ModMod, Constants
<1>8. (k + i) % N = (k + l) % N
  <2>1. i \in Int
    OBVIOUS
  <2> QED BY <1>6, <2>1, ModShift, Constants, Zenon
<1>9. Mult(i) = Mult(l) /\ Mult(k + i) = Mult(k + l)
  BY <1>6, <1>8, MultCongruent
<1>10. Plus(Mult(k), Mult(i)) = Mult(k + i)
  BY <1>3
<1> QED BY <1>9, <1>10

\* EcGen has the order N: two numbers with the same multiple are congruent.
LEMMA MultInjective ==
  ASSUME NEW k \in Int, NEW l \in Int, Mult(k) = Mult(l)
  PROVE  k % N = l % N
<1>1. Plus(Mult(k), Mult(-l)) = Mult(k + (-l)) /\ Plus(Mult(l), Mult(-l)) = Mult(l + (-l))
  <2>1. -l \in Int
    OBVIOUS
  <2> QED BY <2>1, MultPlus
<1>2. k + (-l) = k - l /\ l + (-l) = 0 /\ k - l \in Int
  OBVIOUS
<1>3. Mult(k - l) = Mult(0)
  BY <1>1, <1>2
<1>4. (k - l) % N = 0
  BY <1>2, <1>3, MultType, ModZero, Constants
<1> QED BY <1>4, ModZero, Constants

\* EcGen is the first multiple of itself.
LEMMA MultOne == Mult(1) = EcGen
<1>1. 1 \in 1 .. N - 1 /\ 1 \in 0 .. N - 1 /\ 1 - 1 = 0
  BY Constants
<1>2. \A q : Plus(Infinity, q) = q
  BY DEF Plus
<1> QED BY <1>1, <1>2, MultipleIs, MultOfResidue

\* Every point of the curve is a multiple of EcGen.
LEMMA EveryPoint ==
  ASSUME NEW q \in Curve
  PROVE  \E k \in 1 .. N - 1 : q = Mult(k)
BY MultipleIs, MultOfResidue, Constants

\* Twice a point is a point: the order is odd.
LEMMA TwiceNotZero ==
  ASSUME NEW k \in Int, k % N # 0
  PROVE  (2 * k) % N # 0
<1>1. 2 % N # 0
  BY ModSmall, Constants
<1>2. 2 \in Int
  OBVIOUS
<1> QED BY <1>1, <1>2, PrimeDivides, Constants, Zenon

-----------------------------------------------------------------------------
(* Divisions modulo a prime, and Add and Double against the group law.     *)

\* DivMod divides modulo a prime; there is one quotient.
LEMMA DivModDivides ==
  ASSUME NEW p \in Nat, IsPrime(p), NEW n \in Int, NEW m \in Int, m % p # 0
  PROVE  DivMod(n, m, p) \in 0 .. p - 1 /\ (m * DivMod(n, m, p)) % p = n % p
<1>0. p \in Positive
  BY DEF IsPrime, Positive
<1> DEFINE inverse == CHOOSE x \in 0 .. p - 1 : (m * x) % p = 1
<1>1. inverse \in 0 .. p - 1 /\ (m * inverse) % p = 1
  BY PrimeInverse
<1>2. DivMod(n, m, p) = (n * inverse) % p
  BY DEF DivMod
<1> HIDE DEF inverse
<1>3. PICK i \in 0 .. p - 1 : i = inverse /\ (m * i) % p = 1
  BY <1>1
<1>4. n * i \in Int /\ m * i \in Int /\ i \in Int
  OBVIOUS
<1>5. (n * i) % p \in 0 .. p - 1
  BY <1>0, <1>4, ModRange
<1>6. (m * ((n * i) % p)) % p = (m * (n * i)) % p
  BY <1>0, <1>4, ModInner
<1>7. (n * (m * i)) % p = n % p
  <2>1. (n * ((m * i) % p)) % p = (n * (m * i)) % p
    BY <1>0, <1>4, ModInner
  <2> QED BY <1>3, <2>1
<1>8. m * (n * i) = n * (m * i)
  BY <1>4
<1> QED BY <1>2, <1>3, <1>5, <1>6, <1>7, <1>8

\* Modulo a prime there is but one quotient.
LEMMA DivModUnique ==
  ASSUME NEW p \in Nat, IsPrime(p), NEW n \in Int, NEW m \in Int, m % p # 0,
         NEW t \in 0 .. p - 1, (m * t) % p = n % p
  PROVE  t = DivMod(n, m, p)
<1>0. p \in Positive
  BY DEF IsPrime, Positive
<1>1. PICK d \in 0 .. p - 1 : d = DivMod(n, m, p) /\ (m * d) % p = n % p
  BY DivModDivides
<1>2. d \in Int /\ t \in Int /\ (m * d) % p = (m * t) % p
  BY <1>1
<1>3. d % p = t % p
  BY <1>2, PrimeCancel
<1> QED BY <1>0, <1>1, <1>3, ModSmall

\* Only the remainders of what is divided count.
LEMMA DivModCongruent ==
  ASSUME NEW p \in Nat, IsPrime(p), NEW n \in Int, NEW m \in Int, NEW k \in Int, NEW l \in Int,
         n % p = k % p, m % p = l % p
  PROVE  DivMod(n, m, p) = DivMod(k, l, p)
<1>0. p \in Positive
  BY DEF IsPrime, Positive
<1>3. ASSUME NEW d \in Int PROVE (m * d) % p = (l * d) % p
  <2>1. (d * (m % p)) % p = (d * m) % p /\ (d * (l % p)) % p = (d * l) % p
    BY <1>0, <1>3, ModInner
  <2>2. (d * m) % p = (d * l) % p
    BY <2>1
  <2>3. d * m = m * d /\ d * l = l * d
    BY <1>3
  <2> QED BY <2>2, <2>3
<1>1. CASE m % p = 0
  BY <1>1, Zenon DEF DivMod
<1>2. CASE m % p # 0
  <2>1. PICK d \in 0 .. p - 1 : d = DivMod(n, m, p) /\ (m * d) % p = n % p
    BY <1>2, DivModDivides
  <2>2. d % p \in 0 .. p - 1 /\ d \in Int
    BY <1>0, <2>1, ModRange
  <2>3. (m * d) % p = (l * d) % p
    BY <2>2, <1>3
  <2>4. d = DivMod(k, l, p)
    BY <1>2, <2>1, <2>3, DivModUnique
  <2> QED BY <2>1, <2>4
<1> QED BY <1>1, <1>2

\* A point is a pair of numbers below P.
LEMMA PointIs ==
  ASSUME NEW q \in Points
  PROVE  q[1] \in 0 .. P - 1 /\ q[2] \in 0 .. P - 1 /\ q = <<q[1], q[2]>> /\ q # Infinity
<1>1. \A a, b : <<a, b>> # <<>>
  OBVIOUS
<1>2. q[1] \in 0 .. P - 1 /\ q[2] \in 0 .. P - 1 /\ q = <<q[1], q[2]>>
  BY DEF Points
<1> QED BY <1>1, <1>2 DEF Infinity

\* Different coordinates are different modulo P.
LEMMA DifferentResidues ==
  ASSUME NEW a \in 0 .. P - 1, NEW b \in 0 .. P - 1, (a - b) % P = 0
  PROVE  a = b
<1>1. P \in Positive /\ a \in Int /\ b \in Int
  BY Constants
<1>2. a % P = b % P
  BY <1>1, ModZero
<1> QED BY <1>1, <1>2, ModSmall

\* Third gives a pair of numbers below P.
LEMMA ThirdIsPoint ==
  ASSUME NEW m \in Int, NEW a, NEW b, a[1] \in Int, a[2] \in Int, b[1] \in Int
  PROVE  Third(m, a, b) \in Points
<1> DEFINE x == (m * m - a[1] - b[1]) % P
<1>0. P \in Positive
  BY Constants
<1>1. m * m - a[1] - b[1] \in Int
  OBVIOUS
<1>2. x \in 0 .. P - 1
  BY <1>0, <1>1, ModRange
<1>3. Third(m, a, b) = <<x, (m * (a[1] - x) - a[2]) % P>>
  BY DEF Third
<1> HIDE DEF x
<1>4. m * (a[1] - x) - a[2] \in Int
  BY <1>0, <1>2
<1>5. (m * (a[1] - x) - a[2]) % P \in 0 .. P - 1
  BY <1>0, <1>4, ModRange
<1> QED BY <1>2, <1>3, <1>5 DEF Points

\* Where the code divides by a difference that is not 0 it adds as the group does.
LEMMA AddIsPlus ==
  ASSUME NEW a \in Points, NEW b \in Points, a[1] # b[1]
  PROVE  Add(a, b) = Plus(a, b) /\ Add(a, b) \in Points
<1>0. a[1] \in 0 .. P - 1 /\ a[2] \in 0 .. P - 1 /\ b[1] \in 0 .. P - 1 /\ b[2] \in 0 .. P - 1
  BY PointIs
<1>1. PICK n \in Int, d \in Int : n = a[2] - b[2] /\ d = a[1] - b[1]
  BY <1>0, Constants
<1>2. d % P # 0
  BY <1>0, <1>1, DifferentResidues
<1>3. PICK m \in 0 .. P - 1 : m = DivMod(n, d, P) /\ (d * m) % P = n % P
  BY <1>2, DivModDivides, Constants
<1>4. \A t \in 0 .. P - 1 : (d * t) % P = n % P => t = m
  BY <1>2, <1>3, DivModUnique, Constants
<1>5. Slope(a, b) = m
  <2>1. a # b
    OBVIOUS
  <2>2. Slope(a, b) = CHOOSE t \in 0 .. P - 1 : (d * t) % P = n % P
    BY <1>1, <2>1, Zenon DEF Slope
  <2> QED BY <1>3, <1>4, <2>2
<1>6. Add(a, b) = Third(m, a, b)
  BY <1>1, <1>3 DEF Add
<1>7. Plus(a, b) = Third(Slope(a, b), a, b)
  BY PointIs DEF Plus
<1>8. m \in Int /\ a[1] \in Int /\ a[2] \in Int /\ b[1] \in Int
  BY <1>0
<1> QED BY <1>5, <1>6, <1>7, <1>8, ThirdIsPoint

\* The code's Double is the sum of a point with itself unless the tangent is vertical.
LEMMA DoubleIsPlus ==
  ASSUME NEW a \in Points, (2 * a[2]) % P # 0
  PROVE  Double(a) = Plus(a, a) /\ Double(a) \in Points
<1>0. a[1] \in 0 .. P - 1 /\ a[2] \in 0 .. P - 1
  BY PointIs
<1>1. PICK n \in Int, d \in Int : n = 3 * a[1] * a[1] + Alpha /\ d = 2 * a[2]
  BY <1>0, Constants DEF Alpha
<1>2. d % P # 0
  BY <1>1
<1>3. PICK m \in 0 .. P - 1 : m = DivMod(n, d, P) /\ (d * m) % P = n % P
  BY <1>2, DivModDivides, Constants
<1>4. \A t \in 0 .. P - 1 : (d * t) % P = n % P => t = m
  BY <1>2, <1>3, DivModUnique, Constants
<1>5. Slope(a, a) = m
  <2>1. Slope(a, a) = CHOOSE t \in 0 .. P - 1 : (d * t) % P = n % P
    BY <1>1, Zenon DEF Slope
  <2> QED BY <1>3, <1>4, <2>1
<1>6. Double(a) = Third(m, a, a)
  BY <1>1, <1>3 DEF Double
<1>7. Plus(a, a) = Third(Slope(a, a), a, a)
  <2>1. a[2] + a[2] = 2 * a[2]
    BY <1>0
  <2>2. (a[2] + a[2]) % P # 0
    BY <2>1
  <2> QED BY <2>2, PointIs DEF Plus
<1>8. m \in Int /\ a[1] \in Int /\ a[2] \in Int
  BY <1>0
<1> QED BY <1>5, <1>6, <1>7, <1>8, ThirdIsPoint

-----------------------------------------------------------------------------
(* Add and Double on multiples.                                            *)

\* MultType for the numbers that N does not divide.
LEMMA MultIsPoint ==
  ASSUME NEW k \in Int, k % N # 0
  PROVE  Mult(k) \in Curve /\ Mult(k) \in Points
BY MultType DEF Curve

\* Doubling never divides by 0: no point is its own negative, for the order is odd.
LEMMA TwiceYNotZero ==
  ASSUME NEW k \in Int, k % N # 0
  PROVE  (2 * Mult(k)[2]) % P # 0
<1> SUFFICES ASSUME (2 * Mult(k)[2]) % P = 0 PROVE FALSE
  OBVIOUS
<1>1. PICK q \in Points : q = Mult(k)
  BY MultIsPoint
<1>2. q[2] + q[2] = 2 * q[2] /\ q # Infinity
  BY PointIs
<1>3. (q[2] + q[2]) % P = 0
  BY <1>1, <1>2
<1>4. Plus(q, q) = Infinity
  BY <1>2, <1>3 DEF Plus
<1>5. Plus(Mult(k), Mult(k)) = Mult(k + k) /\ k + k = 2 * k
  BY MultPlus
<1>6. Mult(2 * k) = Infinity
  BY <1>1, <1>4, <1>5
<1> QED BY <1>6, MultType, TwiceNotZero

\* Double(k * EcGen) = 2k * EcGen.
LEMMA MultDouble ==
  ASSUME NEW k \in Int, k % N # 0
  PROVE  Double(Mult(k)) = Mult(2 * k) /\ (2 * k) % N # 0
<1>1. Double(Mult(k)) = Plus(Mult(k), Mult(k))
  BY MultIsPoint, TwiceYNotZero, DoubleIsPlus
<1>2. Plus(Mult(k), Mult(k)) = Mult(k + k) /\ k + k = 2 * k
  BY MultPlus
<1> QED BY <1>1, <1>2, TwiceNotZero

\* Add(k * EcGen, l * EcGen) = (k + l) * EcGen if the points differ in x.
LEMMA MultAdd ==
  ASSUME NEW k \in Int, NEW l \in Int, k % N # 0, l % N # 0, Mult(k)[1] # Mult(l)[1]
  PROVE  Add(Mult(k), Mult(l)) = Mult(k + l) /\ (k + l) % N # 0
<1>1. Add(Mult(k), Mult(l)) = Plus(Mult(k), Mult(l)) /\ Add(Mult(k), Mult(l)) \in Points
  BY MultIsPoint, AddIsPlus
<1>2. Plus(Mult(k), Mult(l)) = Mult(k + l)
  BY MultPlus
<1>3. Mult(k + l) # Infinity
  BY <1>1, <1>2, PointIs
<1> QED BY <1>1, <1>2, <1>3, MultType

\* Two points with one x are equal or each other's negative.
LEMMA SameX ==
  ASSUME NEW a \in Curve, NEW b \in Curve, a[1] = b[1]
  PROVE  a = b \/ Plus(a, b) = Infinity
<1>0. a \in Points /\ b \in Points /\ IsOnCurve(a) /\ IsOnCurve(b) /\ P \in Positive
  BY Constants DEF Curve
<1>1. PICK x \in 0 .. P - 1, y \in 0 .. P - 1, z \in 0 .. P - 1 : a = <<x, y>> /\ b = <<x, z>>
  BY <1>0, PointIs
<1>2. x \in Int /\ y \in Int /\ z \in Int
  OBVIOUS
<1>3. (y * y) % P = (z * z) % P
  BY <1>0, <1>1 DEF IsOnCurve
<1>4. (y * y - z * z) % P = 0
  <2>1. y * y \in Int /\ z * z \in Int
    BY <1>2
  <2> QED BY <1>0, <1>3, <2>1, ModZero
<1>5. y * y - z * z = (y - z) * (y + z) /\ y - z \in Int /\ y + z \in Int
  BY <1>2
<1>6. (y - z) % P = 0 \/ (y + z) % P = 0
  BY <1>4, <1>5, PrimeDivides, Constants
<1>7. (y - z) % P = 0 => y = z
  BY DifferentResidues
<1>8. (y + z) % P = 0 => Plus(a, b) = Infinity
  BY <1>0, <1>1, PointIs DEF Plus
<1> QED BY <1>1, <1>6, <1>7, <1>8

\* Multiples with one x are equal or negatives.
LEMMA MultSameX ==
  ASSUME NEW k \in Int, NEW l \in Int, k % N # 0, l % N # 0, Mult(k)[1] = Mult(l)[1]
  PROVE  (k - l) % N = 0 \/ (k + l) % N = 0
<1>1. CASE Mult(k) = Mult(l)
  BY <1>1, MultInjective, ModZero, Constants
<1>2. CASE Plus(Mult(k), Mult(l)) = Infinity
  BY <1>2, MultPlus, MultType
<1> QED BY <1>1, <1>2, SameX, MultIsPoint

\* The negative of a point has the negative of its y.
LEMMA MultNegative ==
  ASSUME NEW k \in Int, k % N # 0
  PROVE  /\ <<Mult(k)[1], P - Mult(k)[2]>> = Mult(-k)
         /\ (-k) % N # 0
<1>0. P \in Positive /\ P \in Nat /\ N \in Positive
  BY Constants
<1>1. PICK x \in 0 .. P - 1, y \in 0 .. P - 1 : Mult(k) = <<x, y>>
  BY MultIsPoint, PointIs
<1>2. y # 0
  <2>1. 2 * 0 = 0 /\ 0 % P = 0
    BY <1>0, ModZero
  <2> QED BY <1>1, <2>1, TwiceYNotZero
<1>3. PICK z \in 0 .. P - 1 : z = P - y
  BY <1>0, <1>2
<1>4. <<x, z>> \in Curve
  <2>1. (z * z) % P = (y * y) % P
    <3>1. z * z = y * y + P * (P - 2 * y) /\ P - 2 * y \in Int
      BY <1>0, <1>3
    <3>2. z * z \in Int /\ y * y \in Int
      BY <1>3
    <3> QED BY <1>0, <3>1, <3>2, ModEqual
  <2>2. IsOnCurve(<<x, y>>)
    BY <1>1, MultIsPoint DEF Curve
  <2>3. IsOnCurve(<<x, z>>)
    BY <2>1, <2>2 DEF IsOnCurve
  <2> QED BY <2>3 DEF Curve, Points
<1>5. PICK l \in 1 .. N - 1 : <<x, z>> = Mult(l)
  BY <1>4, EveryPoint
<1>6. Plus(Mult(k), Mult(l)) = Infinity
  <2>1. (y + z) % P = 0
    BY <1>0, <1>3, ModZero
  <2>2. Mult(k)[1] = x /\ Mult(k)[2] = y /\ Mult(l)[1] = x /\ Mult(l)[2] = z
    BY <1>1, <1>5
  <2>3. Mult(k) # Infinity /\ Mult(l) # Infinity
    BY <1>4, <1>5, MultIsPoint, PointIs, InfinityNotOnCurve
  <2> QED BY <2>1, <2>2, <2>3 DEF Plus
<1>7. (k + l) % N = 0 /\ l \in Int /\ -k \in Int
  BY <1>6, MultPlus, MultType
<1>8. Mult(l) = Mult(-k) /\ l % N = (-k) % N
  <2>1. l - (-k) = k + l
    BY <1>7
  <2>2. l % N = (-k) % N
    BY <1>0, <1>7, <2>1, ModZero
  <2> QED BY <1>7, <2>2, MultCongruent
<1>9. Mult(-k) # Infinity
  BY <1>4, <1>5, <1>8, InfinityNotOnCurve
<1> QED BY <1>1, <1>3, <1>5, <1>7, <1>8, <1>9, MultType

-----------------------------------------------------------------------------
(* EcMult.                                                                 *)

\* What divides by no prime is no multiple of it.
LEMMA SmallFactor ==
  ASSUME NEW m \in 1 .. N - 1, NEW k \in Int, k % N # 0
  PROVE  (m * k) % N # 0
<1>1. m % N = m /\ m # 0 /\ m \in Int
  BY ModSmall, Constants
<1> QED BY <1>1, PrimeDivides, Constants

\* EcMult multiplies: no addition in it is of points with one x.
LEMMA EcMultIsMult ==
  ASSUME NEW n \in 1 .. N - 1, NEW l \in Int, l % N # 0
  PROVE  EcMult[n][Mult(l)] = Mult(n * l)
<1> DEFINE Good(m) == \A k \in Int : k % N # 0 => EcMult[m][Mult(k)] = Mult(m * k)
           S == {i \in Nat : \A m \in 1 .. N - 1 : m <= i => Good(m)}
<1>1. 0 \in S
  BY Constants
<1>2. \A i \in Nat : i \in S => i + 1 \in S
  <2> SUFFICES ASSUME NEW i \in Nat, i \in S, i + 1 \in 1 .. N - 1 PROVE Good(i + 1)
    <3> HIDE DEF Good
    <3> QED BY Constants
  <2>1. PICK m \in 1 .. N - 1 : m = i + 1
    OBVIOUS
  <2>2. \A j \in 1 .. N - 1 : j < m => Good(j)
    <3> HIDE DEF Good
    <3> QED BY <2>1, Constants
  <2> SUFFICES ASSUME NEW k \in Int, k % N # 0 PROVE EcMult[m][Mult(k)] = Mult(m * k)
    BY <2>1
  <2>3. Mult(k) \in Points
    BY MultIsPoint
  <2>4. CASE m = 1
    <3>1. 1 * k = k
      OBVIOUS
    <3> QED BY <2>3, <2>4, <3>1, EcMultIs
  <2>5. CASE m # 1 /\ m % 2 = 0
    <3>1. PICK j \in 1 .. N - 1 : j = m \div 2 /\ m = 2 * j /\ j < m
      BY <2>5, Constants
    <3>2. m \in 2 .. N
      BY <2>5, Constants
    <3>3. EcMult[m][Mult(k)] = EcMult[j][Double(Mult(k))]
      BY <2>3, <2>5, <3>1, <3>2, EcMultIs
    <3>4. Double(Mult(k)) = Mult(2 * k) /\ (2 * k) % N # 0 /\ 2 * k \in Int
      BY MultDouble
    <3>5. EcMult[j][Mult(2 * k)] = Mult(j * (2 * k))
      BY <2>2, <3>1, <3>4
    <3>6. j * (2 * k) = m * k
      BY <3>1
    <3> QED BY <3>3, <3>4, <3>5, <3>6
  <2>6. CASE m # 1 /\ m % 2 # 0
    <3>1. PICK j \in 1 .. N - 1 : j = m - 1 /\ j < m
      BY <2>6, Constants
    <3>2. m \in 2 .. N /\ m - 2 \in 1 .. N - 1
      BY <2>6, Constants
    <3>3. EcMult[m][Mult(k)] = Add(EcMult[j][Mult(k)], Mult(k))
      BY <2>3, <2>6, <3>1, <3>2, EcMultIs
    <3>4. EcMult[j][Mult(k)] = Mult(j * k)
      BY <2>2, <3>1
    <3>5. (j * k) % N # 0 /\ j * k \in Int
      BY SmallFactor
    <3>6. (j * k) - k = (m - 2) * k /\ (j * k) + k = m * k
      BY <3>1
    <3>7. ((m - 2) * k) % N # 0 /\ (m * k) % N # 0
      BY <3>2, SmallFactor
    <3>8. Mult(j * k)[1] # Mult(k)[1]
      BY <3>5, <3>6, <3>7, MultSameX
    <3>9. Add(Mult(j * k), Mult(k)) = Mult((j * k) + k)
      BY <3>5, <3>8, MultAdd
    <3> QED BY <3>3, <3>4, <3>6, <3>9
  <2> QED BY <2>4, <2>5, <2>6
<1>3. Nat \subseteq S
  <2> HIDE DEF S
  <2> QED BY <1>1, <1>2, NatSetInduction
<1>4. n \in S
  BY <1>3, Constants
<1>5. Good(n)
  <2> HIDE DEF Good
  <2> QED BY <1>4, Constants
<1> QED BY <1>5

\* The public key of a private key, and the point of a nonce, are the multiples of EcGen.
LEMMA EcMultOfGenerator ==
  ASSUME NEW n \in 1 .. N - 1
  PROVE  EcMult[n][EcGen] = Mult(n) /\ n % N = n /\ n % N # 0 /\ Mult(n) = Multiple[n]
<1>1. 1 % N # 0 /\ n % N = n /\ 1 \in Int /\ n * 1 = n
  BY ModSmall, Constants
<1>2. EcMult[n][Mult(1)] = Mult(n * 1)
  BY <1>1, EcMultIsMult
<1> QED BY <1>1, <1>2, MultOne, MultOfResidue, Constants

\* The bits of a number: halving the quotient takes the next bit off.
LEMMA NextBit ==
  ASSUME NEW p \in Positive, NEW m \in Nat
  PROVE  /\ m \div p = 2 * (m \div (2 * p)) + ((m \div p) % 2)
         /\ (m \div p) % 2 \in {0, 1}
         /\ m \div p \in Int /\ m \div (2 * p) \in Int
<1>0. \A j \in Positive : \E h \in Int, t \in 0 .. j - 1 : h = m \div j /\ m = j * h + t
  <2> SUFFICES ASSUME NEW j \in Positive
               PROVE  \E h \in Int, t \in 0 .. j - 1 : h = m \div j /\ m = j * h + t
    OBVIOUS
  <2>1. m % j \in 0 .. j - 1 /\ m \div j \in Int /\ m = j * (m \div j) + (m % j)
    BY ModRange
  <2> QED BY <2>1
<1>1. PICK h \in Int, t \in 0 .. p - 1 : h = m \div p /\ m = p * h + t
  BY <1>0
<1>2. 2 * p \in Positive
  BY DEF Positive
<1>3. PICK o \in Positive : o = 2 * p
  BY <1>2
<1>4. PICK g \in Int, u \in 0 .. o - 1 : g = m \div o /\ m = o * g + u
  BY <1>0
<1>5. p * (h - 2 * g) = u - t /\ h - 2 * g \in Int /\ u - t < 2 * p /\ u - t > -p
  <2>1. o * g = p * (2 * g) /\ p * h - p * (2 * g) = p * (h - 2 * g)
    BY <1>3 DEF Positive
  <2>2. p * h + t = p * (2 * g) + u
    BY <1>1, <1>4, <2>1
  <2>3. p * h \in Int /\ p * (2 * g) \in Int /\ t \in Int /\ u \in Int
    BY DEF Positive
  <2>4. p * h - p * (2 * g) = u - t
    BY <2>2, <2>3
  <2>5. u < 2 * p /\ t < p /\ u >= 0 /\ t >= 0
    BY <1>3 DEF Positive
  <2> QED BY <2>1, <2>3, <2>4, <2>5 DEF Positive
<1>6. h - 2 * g \in {0, 1}
  <2>1. PICK d \in Int : d = h - 2 * g
    BY <1>5
  <2>2. d >= 2 => p * d >= 2 * p
    BY DEF Positive
  <2>3. d <= -1 => p * d <= -p
    BY DEF Positive
  <2> QED BY <1>5, <2>1, <2>2, <2>3 DEF Positive
<1>7. h % 2 = h - 2 * g
  BY <1>6
<1> QED BY <1>1, <1>3, <1>4, <1>6, <1>7

-----------------------------------------------------------------------------
(* MimicEcMultAir.                                                         *)

\* After i rounds of MimicEcMultAir without a clash the lowest i bits of n are added.
LEMMA RoundsAreMult ==
  ASSUME NEW n \in Nat, NEW a \in Int, NEW c \in Int, a % N # 0, c % N # 0,
         ~Clash(n, Mult(a), Mult(c)), NEW i \in 0 .. Bits
  PROVE  \E low \in Int :
           /\ n = low + Pow2[i] * (n \div Pow2[i])
           /\ (c + low * a) % N # 0 /\ (Pow2[i] * a) % N # 0
           /\ Rounds(n, Mult(a), Mult(c))[i] =
                [sum |-> Mult(c + low * a), point |-> Mult(Pow2[i] * a)]
<1> DEFINE R(j) == Rounds(n, Mult(a), Mult(c))[j]
           Good(j) == \E low \in Int :
             /\ n = low + Pow2[j] * (n \div Pow2[j])
             /\ (c + low * a) % N # 0 /\ (Pow2[j] * a) % N # 0
             /\ R(j) = [sum |-> Mult(c + low * a), point |-> Mult(Pow2[j] * a)]
           S == {j \in Nat : j <= Bits => Good(j)}
<1>0. Bits \in Nat /\ N \in Positive
  BY Constants
<1>1. 0 \in S
  <2>1. Pow2[0] = 1 /\ n \div 1 = n /\ 1 * n = n /\ 0 + n = n /\ 1 * a = a /\ c + 0 * a = c
    BY Pow2Is
  <2>2. R(0) = [sum |-> Mult(c), point |-> Mult(a)]
    BY RoundsIs
  <2> HIDE DEF R
  <2>3. Good(0)
    <3> WITNESS 0 \in Int
    <3> QED BY <2>1, <2>2
  <2> QED BY <2>3
<1>2. \A j \in Nat : j < Bits /\ j \in S => j + 1 \in S
  <2> SUFFICES ASSUME NEW j \in Nat, j < Bits, Good(j) PROVE Good(j + 1)
    <3> HIDE DEF Good
    <3> QED BY <1>0
  <2>1. PICK low \in Int :
          /\ n = low + Pow2[j] * (n \div Pow2[j])
          /\ (c + low * a) % N # 0 /\ (Pow2[j] * a) % N # 0
          /\ R(j) = [sum |-> Mult(c + low * a), point |-> Mult(Pow2[j] * a)]
    OBVIOUS
  <2>2. j \in 0 .. Bits /\ j \in 0 .. Bits - 1 /\ j + 1 \in 1 .. Bits /\ (j + 1) - 1 = j
    BY <1>0
  <2>3. PICK p \in Positive : p = Pow2[j] /\ Pow2[j + 1] = 2 * p
    BY <2>2, Pow2Is, Pow2Type
  <2>4. p \in Int /\ 2 * p \in Int
    BY DEF Positive
  <2>5. PICK h \in Int, g \in Int, b \in {0, 1} :
          h = n \div p /\ g = n \div (2 * p) /\ b = h % 2 /\ h = 2 * g + b
    BY NextBit
  <2>6. Bit(n, j) = b
    BY <2>3, <2>5 DEF Bit
  <2>7. R(j + 1) = [sum |-> IF b = 1 THEN Add(R(j).sum, R(j).point) ELSE R(j).sum,
                    point |-> Double(R(j).point)]
    <3>1. PICK i1 \in 1 .. Bits : i1 = j + 1 /\ i1 - 1 = j
      BY <2>2
    <3>2. R(i1) = Round(n, i1 - 1, R(i1 - 1))
      BY NextRound, Zenon
    <3> HIDE DEF R
    <3> QED BY <2>6, <3>1, <3>2 DEF Round
  <2>8. b = 1 => R(j).sum[1] # R(j).point[1]
    BY <2>2, <2>6 DEF Clash
  <2> HIDE DEF R
  <2>9. PICK k \in Int, l \in Int : k = c + low * a /\ l = p * a
    BY <2>4
  <2>10. k % N # 0 /\ l % N # 0 /\ R(j).sum = Mult(k) /\ R(j).point = Mult(l)
    BY <2>1, <2>3, <2>9
  <2>11. Double(R(j).point) = Mult(2 * l) /\ (2 * l) % N # 0
    BY <2>10, MultDouble
  <2>12. 2 * l = (2 * p) * a
    BY <2>4, <2>9
  <2>13. PICK next \in Int : next = low + p * b
    BY <2>4
  <2>14. n = next + (2 * p) * g
    <3>1. n = low + p * h /\ p * h = (2 * p) * g + p * b
      BY <2>1, <2>3, <2>4, <2>5
    <3>2. (2 * p) * g \in Int /\ p * b \in Int
      BY <2>4
    <3> QED BY <2>13, <3>1, <3>2
  <2>15. CASE b = 1
    <3>1. Add(Mult(k), Mult(l)) = Mult(k + l) /\ (k + l) % N # 0
      BY <2>8, <2>10, <2>15, MultAdd
    <3>2. k + l = c + next * a
      <4>1. next * a = low * a + p * a
        BY <2>4, <2>13, <2>15
      <4>2. PICK u \in Int, v \in Int : u = low * a /\ v = p * a
        BY <2>4
      <4>3. k = c + u /\ l = v /\ next * a = u + v
        BY <2>9, <4>1, <4>2
      <4> QED BY <4>3
    <3>3. R(j + 1) = [sum |-> Mult(c + next * a), point |-> Mult((2 * p) * a)]
      BY <2>7, <2>10, <2>11, <2>12, <2>15, <3>1, <3>2
    <3> QED BY <2>3, <2>5, <2>11, <2>12, <2>14, <3>1, <3>2, <3>3
  <2>16. CASE b = 0
    <3>1. next = low
      BY <2>4, <2>13, <2>16
    <3>2. R(j + 1) = [sum |-> Mult(c + next * a), point |-> Mult((2 * p) * a)]
      BY <2>7, <2>9, <2>10, <2>11, <2>12, <2>16, <3>1
    <3> QED BY <2>1, <2>3, <2>5, <2>11, <2>12, <2>14, <3>1, <3>2
  <2> QED BY <2>15, <2>16
<1>3. 0 .. Bits \subseteq S
  <2> HIDE DEF S
  <2> QED BY <1>0, <1>1, <1>2, SegmentInduction
<1>4. Good(i)
  <2> HIDE DEF Good
  <2> QED BY <1>0, <1>3
<1> QED BY <1>4

\* MimicEcMultAir(n, Q, shift) is shift + n * Q, if no addition in it clashes.
LEMMA MimicIsMult ==
  ASSUME NEW n \in Nat, n < Max, NEW a \in Int, NEW c \in Int, a % N # 0, c % N # 0,
         ~Clash(n, Mult(a), Mult(c))
  PROVE  MimicEcMultAir(n, Mult(a), Mult(c)) = Mult(c + n * a) /\ (c + n * a) % N # 0
<1>0. Bits \in 0 .. Bits
  BY Constants
<1>1. PICK low \in Int :
        /\ n = low + Pow2[Bits] * (n \div Pow2[Bits])
        /\ (c + low * a) % N # 0
        /\ Rounds(n, Mult(a), Mult(c))[Bits] =
             [sum |-> Mult(c + low * a), point |-> Mult(Pow2[Bits] * a)]
  <2>1. \A i \in 0 .. Bits : \E low \in Int :
           /\ n = low + Pow2[i] * (n \div Pow2[i])
           /\ (c + low * a) % N # 0 /\ (Pow2[i] * a) % N # 0
           /\ Rounds(n, Mult(a), Mult(c))[i] =
                [sum |-> Mult(c + low * a), point |-> Mult(Pow2[i] * a)]
    <3> SUFFICES ASSUME NEW i \in 0 .. Bits
                 PROVE  \E low \in Int :
           /\ n = low + Pow2[i] * (n \div Pow2[i])
           /\ (c + low * a) % N # 0 /\ (Pow2[i] * a) % N # 0
           /\ Rounds(n, Mult(a), Mult(c))[i] =
                [sum |-> Mult(c + low * a), point |-> Mult(Pow2[i] * a)]
      OBVIOUS
    <3> QED BY RoundsAreMult, Zenon
  <2> QED BY <1>0, <2>1, Zenon
<1>2. PICK p \in Positive : p = Pow2[Bits] /\ n < p
  BY <1>0, Pow2Type DEF Max
<1>3. n \div p = 0
  <2>1. p * 0 + n = n /\ n \in 0 .. p - 1
    BY <1>2 DEF Positive
  <2>2. n % p = n
    BY <2>1, ModSmall
  <2>3. PICK h \in Int : h = n \div p /\ n = p * h + n
    BY <2>2, ModRange
  <2>4. p * h = 0
    BY <2>3 DEF Positive
  <2>5. h = 0
    BY <2>4 DEF Positive
  <2> QED BY <2>3, <2>5
<1>4. low = n
  BY <1>1, <1>2, <1>3 DEF Positive
<1> QED BY <1>1, <1>4 DEF MimicEcMultAir

-----------------------------------------------------------------------------
(* The equation of Verify.                                                 *)

\* The shift point and MinusShift are multiples, each the negative of the other.
LEMMA ShiftIsMult ==
  \E c \in 1 .. N - 1 : /\ Shift = Mult(c) /\ MinusShift = Mult(-c)
                        /\ c % N # 0 /\ (-c) % N # 0 /\ Shift[1] = MinusShift[1]
<1>1. Shift \in Curve
  BY CurveAssumption
<1>2. PICK c \in 1 .. N - 1 : Shift = Mult(c)
  BY <1>1, EveryPoint
<1>3. c % N # 0 /\ c \in Int
  BY ModSmall, Constants
<1>4. MinusShift = Mult(-c) /\ (-c) % N # 0
  BY <1>2, <1>3, MultNegative DEF MinusShift
<1>5. Shift[1] = MinusShift[1]
  BY DEF MinusShift
<1> QED BY <1>2, <1>3, <1>4, <1>5

\* The code's equation is that of ECDSA: its left side is the x of w * (h + n * d) times
\* the generator, for the point that is d times the generator.
LEMMA EquationIs ==
  ASSUME NEW h \in Nat, NEW n \in Nat, NEW w \in Nat, h < Max, n < Max, w < Max,
         NEW d \in Int, d % N # 0, ~Clashes(h, n, w, Mult(d))
  PROVE  /\ Equation(h, n, w, Mult(d)) <=> Mult(w * (h + n * d))[1] = n
         /\ (w * (h + n * d)) % N # 0
<1>1. PICK c \in Int : /\ Shift = Mult(c) /\ MinusShift = Mult(-c)
                       /\ c % N # 0 /\ (-c) % N # 0 /\ Shift[1] = MinusShift[1]
  BY ShiftIsMult
<1> DEFINE zG == MimicEcMultAir(h, EcGen, MinusShift)
           rQ == MimicEcMultAir(n, Mult(d), Shift)
           wB == MimicEcMultAir(w, Add(zG, rQ), Shift)
<1>2. /\ ~Clash(h, EcGen, MinusShift) /\ ~Clash(n, Mult(d), Shift) /\ zG[1] # rQ[1]
      /\ ~Clash(w, Add(zG, rQ), Shift) /\ wB[1] # Shift[1]
  BY Zenon DEF Clashes
<1>3. Equation(h, n, w, Mult(d)) <=> Add(wB, MinusShift)[1] = n
  BY Zenon DEF Equation
<1>4. PICK u \in Int : u = -c + h /\ zG = Mult(u) /\ u % N # 0
  <2>1. PICK o \in Int, m \in Int : o = 1 /\ m = -c
    OBVIOUS
  <2>2. o % N # 0 /\ m % N # 0
    BY <1>1, <2>1, ModSmall, Constants
  <2>3. ~Clash(h, Mult(o), Mult(m)) /\ zG = MimicEcMultAir(h, Mult(o), Mult(m))
    BY <1>1, <1>2, <2>1, MultOne
  <2>4. MimicEcMultAir(h, Mult(o), Mult(m)) = Mult(m + h * o) /\ (m + h * o) % N # 0
    BY <2>2, <2>3, MimicIsMult
  <2>5. m + h * o = -c + h /\ -c + h \in Int
    BY <2>1
  <2> QED BY <2>3, <2>4, <2>5
<1>5. PICK v \in Int : v = c + n * d /\ rQ = Mult(v) /\ v % N # 0
  <2>1. c + n * d \in Int
    OBVIOUS
  <2>2. rQ = Mult(c + n * d) /\ (c + n * d) % N # 0
    BY <1>1, <1>2, MimicIsMult
  <2> QED BY <2>1, <2>2
<1> HIDE DEF zG, rQ
<1>6. PICK e \in Int : e = h + n * d /\ Add(zG, rQ) = Mult(e) /\ e % N # 0
  <2>1. Add(Mult(u), Mult(v)) = Mult(u + v) /\ (u + v) % N # 0
    BY <1>2, <1>4, <1>5, MultAdd
  <2>2. PICK t \in Int : t = n * d
    OBVIOUS
  <2>3. u + v = h + t
    BY <1>4, <1>5, <2>2
  <2> QED BY <1>4, <1>5, <2>1, <2>2, <2>3
<1>7. PICK f \in Int : f = c + w * e /\ wB = Mult(f) /\ f % N # 0
  <2>1. c + w * e \in Int
    OBVIOUS
  <2>2. ~Clash(w, Mult(e), Mult(c))
    BY <1>1, <1>2, <1>6
  <2>3. MimicEcMultAir(w, Mult(e), Mult(c)) = Mult(c + w * e) /\ (c + w * e) % N # 0
    BY <1>1, <1>6, <2>2, MimicIsMult
  <2> QED BY <1>1, <1>6, <2>1, <2>3
<1>8. Add(wB, MinusShift) = Mult(w * e) /\ (w * e) % N # 0
  <2> HIDE DEF wB
  <2>1. Mult(f)[1] # Mult(-c)[1] /\ -c \in Int
    BY <1>1, <1>2, <1>7
  <2>2. Add(Mult(f), Mult(-c)) = Mult(f + (-c)) /\ (f + (-c)) % N # 0
    BY <1>1, <1>7, <2>1, MultAdd
  <2>3. PICK t \in Int : t = w * e
    OBVIOUS
  <2>4. f + (-c) = t
    BY <1>7, <2>3
  <2> QED BY <1>1, <1>7, <2>2, <2>3, <2>4
<1> HIDE DEF wB
<1> QED BY <1>3, <1>6, <1>8

\* MimicEcMultAir sees the y of its point only modulo P.
LEMMA SameResidue ==
  ASSUME NEW n, NEW x \in Int, NEW y \in Int, NEW z \in Int, y % P = z % P,
         NEW shift \in Points
  PROVE  /\ MimicEcMultAir(n, <<x, y>>, shift) = MimicEcMultAir(n, <<x, z>>, shift)
         /\ Clash(n, <<x, y>>, shift) <=> Clash(n, <<x, z>>, shift)
<1> DEFINE a == <<x, y>>
           b == <<x, z>>
           S == {i \in Nat : i < Bits => Rounds(n, a, shift)[i + 1] = Rounds(n, b, shift)[i + 1]}
<1>0. Bits \in Nat \ {0} /\ P \in Positive /\ P \in Nat /\ IsPrime(P)
  BY Constants, CurveAssumption
<1>1. PICK u \in 0 .. P - 1, v \in 0 .. P - 1 : shift = <<u, v>>
  BY PointIs
<1>2. Add(shift, a) = Add(shift, b)
  <2>1. \A m \in Int : Third(m, shift, a) = Third(m, shift, b)
    BY DEF Third
  <2>2. (v - y) % P = (v - z) % P
    <3>1. (v - (y % P)) % P = (v - y) % P /\ (v - (z % P)) % P = (v - z) % P
      BY <1>0, ModInner
    <3> QED BY <3>1
  <2>3. v - y \in Int /\ v - z \in Int /\ u - x \in Int
    BY <1>0
  <2>4. DivMod(v - y, u - x, P) = DivMod(v - z, u - x, P)
    BY <1>0, <2>2, <2>3, DivModCongruent
  <2>5. Add(shift, a) = Third(DivMod(v - y, u - x, P), shift, a)
    BY <1>1 DEF Add
  <2>6. Add(shift, b) = Third(DivMod(v - z, u - x, P), shift, b)
    BY <1>1 DEF Add
  <2>7. Third(DivMod(v - y, u - x, P), shift, a) = Third(DivMod(v - y, u - x, P), shift, b)
    BY DEF Third
  <2> QED BY <2>4, <2>5, <2>6, <2>7
<1>3. Double(a) = Double(b)
  <2>1. (2 * y) % P = (2 * z) % P
    <3>1. (2 * (y % P)) % P = (2 * y) % P /\ (2 * (z % P)) % P = (2 * z) % P
      BY <1>0, ModInner
    <3> QED BY <3>1
  <2>2. PICK k \in Int : k = 3 * x * x + Alpha
    BY DEF Alpha
  <2>3. 2 * y \in Int /\ 2 * z \in Int
    OBVIOUS
  <2>4. DivMod(k, 2 * y, P) = DivMod(k, 2 * z, P)
    BY <1>0, <2>1, <2>3, DivModCongruent
  <2>5. PICK m \in Int : m = DivMod(k, 2 * y, P)
    <3>1. DivMod(k, 2 * y, P) \in Int
      <4>1. CASE (2 * y) % P = 0
        BY <4>1 DEF DivMod
      <4>2. CASE (2 * y) % P # 0
        <5>1. PICK j \in Int : j = 2 * y
          OBVIOUS
        <5>2. DivMod(k, j, P) \in 0 .. P - 1
          BY <1>0, <4>2, <5>1, DivModDivides
        <5> QED BY <1>0, <5>1, <5>2
      <4> QED BY <4>1, <4>2
    <3> QED BY <3>1
  <2>6. Double(a) = Third(m, a, a) /\ Double(b) = Third(m, b, b)
    BY <2>2, <2>4, <2>5 DEF Double
  <2>7. PICK t \in 0 .. P - 1 : t = (m * m - x - x) % P
    <3>1. m * m - x - x \in Int
      OBVIOUS
    <3> QED BY <1>0, <3>1, ModRange
  <2>8. /\ Third(m, a, a) = <<t, (m * (x - t) - y) % P>>
        /\ Third(m, b, b) = <<t, (m * (x - t) - z) % P>>
    BY <2>7 DEF Third
  <2>9. PICK l \in Int : l = m * (x - t)
    BY <1>0
  <2>10. (l - y) % P = (l - z) % P
    <3>1. (l - (y % P)) % P = (l - y) % P /\ (l - (z % P)) % P = (l - z) % P
      BY <1>0, ModInner
    <3> QED BY <3>1
  <2> QED BY <2>6, <2>8, <2>9, <2>10
<1> HIDE DEF a, b
<1>4. /\ Rounds(n, a, shift)[0] = [sum |-> shift, point |-> a]
      /\ Rounds(n, b, shift)[0] = [sum |-> shift, point |-> b]
  BY RoundsIs
<1>5. 0 \in S
  <2>1. Rounds(n, a, shift)[1] = Round(n, 0, Rounds(n, a, shift)[0])
    <3>1. PICK i \in 1 .. Bits : i = 1 /\ i - 1 = 0
      BY <1>0
    <3> QED BY <3>1, NextRound
  <2>2. Rounds(n, b, shift)[1] = Round(n, 0, Rounds(n, b, shift)[0])
    <3>1. PICK i \in 1 .. Bits : i = 1 /\ i - 1 = 0
      BY <1>0
    <3> QED BY <3>1, NextRound
  <2> QED BY <1>2, <1>3, <1>4, <2>1, <2>2 DEF Round
<1>6. \A j \in Nat : j \in S => j + 1 \in S
  <2> SUFFICES ASSUME NEW j \in Nat, j \in S, j + 1 < Bits
               PROVE  Rounds(n, a, shift)[(j + 1) + 1] = Rounds(n, b, shift)[(j + 1) + 1]
    OBVIOUS
  <2>1. PICK i \in 1 .. Bits : i = (j + 1) + 1 /\ i - 1 = j + 1
    BY <1>0
  <2>2. Rounds(n, a, shift)[i - 1] = Rounds(n, b, shift)[i - 1]
    BY <1>0, <2>1
  <2> QED BY <2>1, <2>2, NextRound
<1>7. Nat \subseteq S
  <2> HIDE DEF S
  <2> QED BY <1>5, <1>6, NatSetInduction
<1>8. \A i \in 1 .. Bits : Rounds(n, a, shift)[i] = Rounds(n, b, shift)[i]
  <2> SUFFICES ASSUME NEW i \in 1 .. Bits
               PROVE  Rounds(n, a, shift)[i] = Rounds(n, b, shift)[i]
    OBVIOUS
  <2>1. i - 1 \in Nat /\ i - 1 < Bits /\ (i - 1) + 1 = i
    BY <1>0
  <2>2. i - 1 \in S
    <3> HIDE DEF S
    <3> QED BY <1>7, <2>1
  <2> QED BY <2>1, <2>2
<1>9. MimicEcMultAir(n, a, shift) = MimicEcMultAir(n, b, shift)
  <2>1. Bits \in 1 .. Bits
    BY <1>0
  <2> QED BY <1>8, <2>1 DEF MimicEcMultAir
<1>10. Clash(n, a, shift) <=> Clash(n, b, shift)
  <2>1. a[1] = b[1]
    BY DEF a, b
  <2>2. ASSUME NEW i \in 0 .. Bits - 1
        PROVE  /\ Rounds(n, a, shift)[i].sum = Rounds(n, b, shift)[i].sum
               /\ Rounds(n, a, shift)[i].point[1] = Rounds(n, b, shift)[i].point[1]
    <3>1. CASE i = 0
      BY <1>4, <2>1, <3>1
    <3>2. CASE i # 0
      <4>1. i \in 1 .. Bits
        BY <1>0, <3>2
      <4> QED BY <1>8, <4>1
    <3> QED BY <3>1, <3>2
  <2> QED BY <2>2 DEF Clash
<1> QED BY <1>9, <1>10 DEF a, b

-----------------------------------------------------------------------------
(* The equation for the negative, inverses, and ECDSA without Log.         *)

\* The equation sees the y of a point modulo P only: Neg(q) need not reduce it.
LEMMA SameEquation ==
  ASSUME NEW h, NEW n, NEW w, NEW x \in Int, NEW y \in Int, NEW z \in Int, y % P = z % P
  PROVE  /\ Equation(h, n, w, <<x, y>>) <=> Equation(h, n, w, <<x, z>>)
         /\ Clashes(h, n, w, <<x, y>>) <=> Clashes(h, n, w, <<x, z>>)
<1>1. Shift \in Points
  BY CurveAssumption DEF Curve
<1>2. /\ MimicEcMultAir(n, <<x, y>>, Shift) = MimicEcMultAir(n, <<x, z>>, Shift)
      /\ Clash(n, <<x, y>>, Shift) <=> Clash(n, <<x, z>>, Shift)
  BY <1>1, SameResidue
<1>3. Equation(h, n, w, <<x, y>>) <=> Equation(h, n, w, <<x, z>>)
  BY <1>2, Zenon DEF Equation
<1>4. Clashes(h, n, w, <<x, y>>) <=> Clashes(h, n, w, <<x, z>>)
  BY <1>2, Zenon DEF Clashes
<1> QED BY <1>3, <1>4

\* Neg(q) stands for the negative of q, and the negative of Neg(q) for q.
LEMMA NegIsMult ==
  ASSUME NEW h, NEW n, NEW w, NEW d \in Int, d % N # 0
  PROVE  /\ Equation(h, n, w, Neg(Mult(d))) <=> Equation(h, n, w, Mult(-d))
         /\ Clashes(h, n, w, Neg(Mult(d))) <=> Clashes(h, n, w, Mult(-d))
<1>1. PICK x \in 0 .. P - 1, y \in 0 .. P - 1 : Mult(d) = <<x, y>>
  BY MultIsPoint, PointIs
<1>2. <<x, P - y>> = Mult(-d)
  BY <1>1, MultNegative
<1>3. Neg(Mult(d)) = <<x, -y>>
  BY <1>1 DEF Neg
<1>4. (P - y) % P = (-y) % P
  <2>1. P - y = -y + P * 1 /\ P - y \in Int /\ -y \in Int /\ P \in Positive
    BY Constants
  <2> QED BY <2>1, ModEqual
<1>5. PICK u \in Int, v \in Int : u = -y /\ v = P - y
  BY Constants
<1>6. x \in Int /\ u % P = v % P
  BY <1>4, <1>5
<1>7. /\ Equation(h, n, w, <<x, u>>) <=> Equation(h, n, w, <<x, v>>)
      /\ Clashes(h, n, w, <<x, u>>) <=> Clashes(h, n, w, <<x, v>>)
  BY <1>6, SameEquation
<1> QED BY <1>2, <1>3, <1>5, <1>7

\* InvModCurveSize gives the only inverse modulo N.
LEMMA InverseIs ==
  ASSUME NEW k \in Int, k % N # 0
  PROVE  /\ InvModCurveSize(k) \in 1 .. N - 1
         /\ (k * InvModCurveSize(k)) % N = 1
         /\ \A w \in 0 .. N - 1 : (w * k) % N = 1 => w = InvModCurveSize(k)
<1>0. N \in Nat /\ N \in Positive /\ IsPrime(N) /\ 1 % N = 1
  BY ModSmall, Constants
<1>1. PICK o \in Int : o = 1 /\ o % N = 1
  BY <1>0
<1>2. PICK v \in 0 .. N - 1 : v = DivMod(o, k, N) /\ (k * v) % N = 1
  BY <1>0, <1>1, DivModDivides
<1>3. v # 0
  <2>1. k * 0 = 0 /\ 0 % N = 0
    BY <1>0, ModZero
  <2> QED BY <1>2, <2>1
<1>4. ASSUME NEW w \in 0 .. N - 1, (w * k) % N = 1 PROVE w = v
  <2>1. w * k = k * w
    OBVIOUS
  <2>2. (k * w) % N = o % N
    BY <1>1, <1>4, <2>1
  <2> QED BY <1>0, <1>2, <2>2, DivModUnique
<1>5. v = InvModCurveSize(k)
  BY <1>1, <1>2 DEF InvModCurveSize
<1> QED BY <1>0, <1>2, <1>3, <1>4, <1>5

\* The logarithm of a multiple below N is its factor.
LEMMA LogIs ==
  ASSUME NEW d \in 1 .. N - 1
  PROVE  Log(Multiple[d]) = d /\ Mult(d) = Multiple[d] /\ d % N # 0
<1>1. d \in 0 .. N - 1 /\ d \in Int
  BY Constants
<1>2. d % N = d
  BY <1>1, ModSmall, Constants
<1>3. ASSUME NEW i \in 0 .. N - 1, Multiple[i] = Multiple[d] PROVE i = d
  <2>1. Mult(i) = Mult(d) /\ i \in Int
    BY <1>1, <1>3, MultOfResidue
  <2>2. i % N = d % N
    BY <1>1, <2>1, MultInjective
  <2> QED BY <1>2, <2>2, ModSmall, Constants
<1>4. Log(Multiple[d]) = d
  BY <1>1, <1>3 DEF Log
<1> QED BY <1>1, <1>2, <1>4, MultOfResidue

\* What ECDSA asks of the point with the logarithm d, without Log.
LEMMA EcdsaIs ==
  ASSUME NEW h, NEW n, NEW t, NEW d \in 1 .. N - 1
  PROVE  Ecdsa(h, n, t, Mult(d)) <=>
           /\ t \in 1 .. N - 1 /\ n \in 1 .. Max - 1 /\ h \in 1 .. Max - 1
           /\ InvModCurveSize(t) \in 1 .. Max - 1
           /\ \E e \in {d, N - d} :
                LET sum == InvModCurveSize(t) * (h + n * e)
                IN  sum % N # 0 /\ Mult(sum)[1] = n
<1>0. Log(Mult(d)) = d /\ Mult(d) \in Curve
  <2>1. d \in Int
    OBVIOUS
  <2> QED BY <2>1, LogIs, MultIsPoint
<1> DEFINE Sum(w, e) == /\ (w * (h + n * e)) % N # 0
                        /\ Multiple[(w * (h + n * e)) % N][1] = n
<1>1. Ecdsa(h, n, t, Mult(d)) <=>
        /\ t \in 1 .. N - 1 /\ n \in 1 .. Max - 1 /\ h \in 1 .. Max - 1
        /\ \E w \in 1 .. Max - 1 :
             (w * t) % N = 1 /\ \E e \in {d, N - d} : Sum(w, e)
  BY <1>0, Zenon DEF Ecdsa
<1>2. \A w, e : Sum(w, e) <=>
         (w * (h + n * e)) % N # 0 /\ Mult(w * (h + n * e))[1] = n
  BY Zenon DEF Mult
<1> HIDE DEF Sum
<1>3. ASSUME t \in 1 .. N - 1
      PROVE  (\E w \in 1 .. Max - 1 : (w * t) % N = 1 /\ \E e \in {d, N - d} : Sum(w, e))
               <=> /\ InvModCurveSize(t) \in 1 .. Max - 1
                   /\ \E e \in {d, N - d} : Sum(InvModCurveSize(t), e)
  <2>1. t \in Int /\ t % N # 0
    BY <1>3, ModSmall, Constants
  <2>2. PICK v \in 1 .. N - 1 : /\ v = InvModCurveSize(t) /\ (t * v) % N = 1
                                /\ \A w \in 0 .. N - 1 : (w * t) % N = 1 => w = v
    BY <2>1, InverseIs
  <2>3. t * v = v * t
    BY <2>1
  <2>4. \A w \in 1 .. Max - 1 : w \in 0 .. N - 1
    BY Constants, Pow2Type
  <2> QED BY <2>2, <2>3, <2>4
<1> QED BY <1>1, <1>2, <1>3, Zenon

-----------------------------------------------------------------------------
(* Verify against ECDSA, and what Sign makes sure of.                      *)

\* The inverse that Verify takes of s: 0 when there is none.
LEMMA InverseType ==
  ASSUME NEW k \in Int
  PROVE  InvModCurveSize(k) \in 0 .. N - 1
<1>1. CASE k % N = 0
  <2>1. InvModCurveSize(k) = 0
    BY <1>1 DEF InvModCurveSize, DivMod
  <2> QED BY <2>1, Constants
<1>2. CASE k % N # 0
  BY <1>2, InverseIs, Constants
<1> QED BY <1>1, <1>2

\* The tests of Verify before the equation.
LEMMA RangesAre ==
  ASSUME NEW x \in Int, NEW limit \in Int
  PROVE  InRange(x, limit) <=> x \in 1 .. limit - 1
BY DEF InRange

\* The ranges of a signature in Verify.
LEMMA VerifyIs ==
  ASSUME NEW h \in Nat, NEW n \in Nat, NEW t \in Nat, NEW q \in Curve
  PROVE  Verify(h, n, t, q) <=>
           /\ t \in 1 .. N - 1 /\ n \in 1 .. Max - 1 /\ h \in 1 .. Max - 1
           /\ InvModCurveSize(t) \in 1 .. Max - 1
           /\ \/ Equation(h, n, InvModCurveSize(t), q)
              \/ Equation(h, n, InvModCurveSize(t), Neg(q))
<1>1. /\ InvModCurveSize(t) \in Int /\ t \in Int /\ n \in Int /\ h \in Int
      /\ N \in Int /\ Max \in Int
  BY InverseType, Constants, Pow2Type
<1>2. /\ InRange(t, N) <=> t \in 1 .. N - 1
      /\ InRange(n, Max) <=> n \in 1 .. Max - 1
      /\ InRange(h, Max) <=> h \in 1 .. Max - 1
      /\ InRange(InvModCurveSize(t), Max) <=> InvModCurveSize(t) \in 1 .. Max - 1
  BY <1>1, RangesAre
<1>3. IsOnCurve(q)
  BY DEF Curve
<1> QED BY <1>2, <1>3, Zenon DEF Verify

\* The negative of a point has the logarithm N - d.
LEMMA NegativeIs ==
  ASSUME NEW d \in 1 .. N - 1
  PROVE  /\ d \in Int /\ -d \in Int /\ N - d \in Int /\ -(-d) = d
         /\ d % N # 0 /\ (-d) % N # 0 /\ (N - d) % N # 0
         /\ Mult(N - d) = Mult(-d)
<1>1. d \in Int /\ -d \in Int /\ N - d \in Int /\ N - d \in 1 .. N - 1 /\ -(-d) = d
      /\ N - d = -d + N * 1 /\ N \in Positive
  BY Constants
<1>2. d % N = d /\ (N - d) % N = N - d
  BY <1>1, ModSmall
<1>3. (N - d) % N = (-d) % N
  BY <1>1, ModEqual
<1> QED BY <1>1, <1>2, <1>3, MultCongruent

\* Verify and ECDSA agree on a point of the curve.
LEMMA VerifyOnCurve ==
  ASSUME NEW h \in Nat, NEW n \in Nat, NEW t \in Nat, NEW q \in Curve,
         ~Clashes(h, n, InvModCurveSize(t), q),
         ~Clashes(h, n, InvModCurveSize(t), Neg(q))
  PROVE  Verify(h, n, t, q) <=> Ecdsa(h, n, t, q)
<1>1. PICK d \in 1 .. N - 1 : q = Mult(d)
  BY EveryPoint
<1>2. PICK w \in 0 .. N - 1 : w = InvModCurveSize(t)
  BY InverseType
<1>3. w \in Nat /\ Max \in Nat
  BY Constants, Pow2Type
<1>4. PICK e \in Int : e = N - d /\ e % N # 0 /\ Mult(e) = Mult(-d) /\ d \in Int /\ d % N # 0
  BY NegativeIs
<1>5. /\ Equation(h, n, w, Neg(q)) <=> Equation(h, n, w, Mult(e))
      /\ ~Clashes(h, n, w, q) /\ ~Clashes(h, n, w, Mult(e))
  BY <1>1, <1>2, <1>4, NegIsMult
<1>6. ASSUME h \in 1 .. Max - 1, n \in 1 .. Max - 1, w \in 1 .. Max - 1
      PROVE  /\ Equation(h, n, w, q) <=>
                  (w * (h + n * d)) % N # 0 /\ Mult(w * (h + n * d))[1] = n
             /\ Equation(h, n, w, Mult(e)) <=>
                  (w * (h + n * e)) % N # 0 /\ Mult(w * (h + n * e))[1] = n
  <2>1. h < Max /\ n < Max /\ w < Max
    BY <1>3, <1>6
  <2>2. /\ Equation(h, n, w, Mult(d)) <=> Mult(w * (h + n * d))[1] = n
        /\ (w * (h + n * d)) % N # 0
    BY <1>1, <1>3, <1>4, <1>5, <2>1, EquationIs
  <2>3. /\ Equation(h, n, w, Mult(e)) <=> Mult(w * (h + n * e))[1] = n
        /\ (w * (h + n * e)) % N # 0
    BY <1>3, <1>4, <1>5, <2>1, EquationIs
  <2> QED BY <1>1, <2>2, <2>3
<1>7. Ecdsa(h, n, t, Mult(d)) <=>
        /\ t \in 1 .. N - 1 /\ n \in 1 .. Max - 1 /\ h \in 1 .. Max - 1
        /\ w \in 1 .. Max - 1
        /\ \/ (w * (h + n * d)) % N # 0 /\ Mult(w * (h + n * d))[1] = n
           \/ (w * (h + n * e)) % N # 0 /\ Mult(w * (h + n * e))[1] = n
  <2>1. Ecdsa(h, n, t, Mult(d)) <=>
           /\ t \in 1 .. N - 1 /\ n \in 1 .. Max - 1 /\ h \in 1 .. Max - 1
           /\ InvModCurveSize(t) \in 1 .. Max - 1
           /\ \E i \in {d, N - d} :
                LET sum == InvModCurveSize(t) * (h + n * i)
                IN  sum % N # 0 /\ Mult(sum)[1] = n
    BY EcdsaIs
  <2> QED BY <1>2, <1>4, <2>1, Zenon
<1>8. Verify(h, n, t, q) <=>
        /\ t \in 1 .. N - 1 /\ n \in 1 .. Max - 1 /\ h \in 1 .. Max - 1
        /\ w \in 1 .. Max - 1
        /\ Equation(h, n, w, q) \/ Equation(h, n, w, Neg(q))
  BY <1>2, VerifyIs
<1> QED BY <1>1, <1>5, <1>6, <1>7, <1>8, Zenon

\* A point that is not on the curve is refused by both.
LEMMA VerifyOffCurve ==
  ASSUME NEW h, NEW n, NEW t, NEW q \in Points \ Curve
  PROVE  ~Verify(h, n, t, q) /\ ~Ecdsa(h, n, t, q)
<1>1. ~IsOnCurve(q)
  BY DEF Curve
<1> QED BY <1>1, Zenon DEF Verify, Ecdsa

\* What Sign has made sure of: t is the inverse of a number w with which Verify comes back
\* to the point of the nonce.
Signed(h, n, t, d) ==
  /\ h \in 1 .. Max - 1 /\ n \in 1 .. Max - 1 /\ t \in 1 .. N - 1
  /\ InvModCurveSize(t) \in 1 .. Max - 1
  /\ (InvModCurveSize(t) * (h + n * d)) % N # 0
  /\ Mult(InvModCurveSize(t) * (h + n * d))[1] = n

\* The inverse of the inverse.
LEMMA InverseTwice ==
  ASSUME NEW w \in 1 .. N - 1
  PROVE  InvModCurveSize(InvModCurveSize(w)) = w /\ InvModCurveSize(w) \in 1 .. N - 1
<1>1. w \in Int /\ w % N # 0
  BY ModSmall, Constants
<1>2. PICK v \in 1 .. N - 1 : v = InvModCurveSize(w) /\ (w * v) % N = 1
  BY <1>1, InverseIs
<1>3. v \in Int /\ v % N # 0
  BY ModSmall, Constants
<1>4. w \in 0 .. N - 1
  BY Constants
<1> QED BY <1>2, <1>3, <1>4, InverseIs

\* The round of Sign that ends its loop.
LEMMA SignIs ==
  ASSUME NEW h \in 1 .. Max - 1, NEW d \in 1 .. N - 1, NEW k \in 1 .. N - 1,
         NEW x \in 1 .. Max - 1, x = EcMult[k][EcGen][1], (x * d + h) % N # 0,
         NEW w \in 1 .. Max - 1, w = DivMod(k, x * d + h, N)
  PROVE  Signed(h, x, InvModCurveSize(w), d)
<1>1. w \in 1 .. N - 1 /\ w \in Int /\ x * d + h \in Int /\ h + x * d \in Int
      /\ h + x * d = x * d + h /\ N \in Nat /\ IsPrime(N) /\ N \in Positive
  BY Constants, Pow2Type
<1>2. PICK t \in 1 .. N - 1 : t = InvModCurveSize(w) /\ InvModCurveSize(t) = w
  BY <1>1, InverseTwice
<1>3. PICK a \in Int : a = x * d + h /\ a = h + x * d
  BY <1>1
<1>4. (a * w) % N = k % N
  <2>1. w = DivMod(k, a, N) /\ a % N # 0 /\ k \in Int
    BY <1>3
  <2>2. (a * DivMod(k, a, N)) % N = k % N
    BY <1>1, <2>1, DivModDivides
  <2> QED BY <2>1, <2>2
<1>5. a * w = w * a /\ w * a \in Int
  BY <1>1
<1>6. (w * a) % N = k % N /\ k % N # 0
  BY <1>4, <1>5, ModSmall, Constants
<1>7. Mult(w * a) = EcMult[k][EcGen]
  BY <1>5, <1>6, MultCongruent, EcMultOfGenerator
<1> QED BY <1>2, <1>3, <1>6, <1>7 DEF Signed

\* A signature of Sign is one by ECDSA.
LEMMA SignedIsEcdsa ==
  ASSUME NEW h, NEW n, NEW t, NEW d \in 1 .. N - 1, Signed(h, n, t, d)
  PROVE  Ecdsa(h, n, t, Multiple[d])
<1>1. Mult(d) = Multiple[d]
  BY LogIs
<1>2. Ecdsa(h, n, t, Mult(d)) <=>
           /\ t \in 1 .. N - 1 /\ n \in 1 .. Max - 1 /\ h \in 1 .. Max - 1
           /\ InvModCurveSize(t) \in 1 .. Max - 1
           /\ \E e \in {d, N - d} :
                LET sum == InvModCurveSize(t) * (h + n * e)
                IN  sum % N # 0 /\ Mult(sum)[1] = n
  BY EcdsaIs
<1> QED BY <1>1, <1>2, Zenon DEF Signed

\* Either point with the x of the public key is on the curve, and Verify accepts the
\* signature for it.
LEMMA SignedVerifies ==
  ASSUME NEW h, NEW n, NEW t, NEW d \in 1 .. N - 1, Signed(h, n, t, d),
         NEW y \in {Multiple[d][2], P - Multiple[d][2]}
  PROVE  /\ <<Multiple[d][1], y>> \in Curve
         /\ ~Clashes(h, n, InvModCurveSize(t), Multiple[d])
              => Verify(h, n, t, <<Multiple[d][1], y>>)
<1>1. Mult(d) = Multiple[d] /\ d \in Int /\ d % N # 0 /\ -d \in Int /\ (-d) % N # 0
      /\ -(-d) = d
  BY LogIs, NegativeIs
<1>2. PICK q \in Curve : /\ q = <<Multiple[d][1], y>>
                         /\ q = Mult(d) \/ q = Mult(-d)
  <2>1. CASE y = Multiple[d][2]
    BY <1>1, <2>1, MultIsPoint, PointIs
  <2>2. CASE y = P - Multiple[d][2]
    BY <1>1, <2>2, MultIsPoint, MultNegative
  <2> QED BY <2>1, <2>2
<1>3. PICK w \in 1 .. Max - 1 : w = InvModCurveSize(t)
  BY DEF Signed
<1>4. /\ h \in 1 .. Max - 1 /\ n \in 1 .. Max - 1 /\ t \in 1 .. N - 1
      /\ Mult(w * (h + n * d))[1] = n
  BY <1>3, Zenon DEF Signed
<1>5. h \in Nat /\ n \in Nat /\ t \in Nat /\ w \in Nat /\ h < Max /\ n < Max /\ w < Max
  BY <1>4, Constants, Pow2Type
<1>6. ASSUME ~Clashes(h, n, w, Mult(d)) PROVE Equation(h, n, w, q) \/ Equation(h, n, w, Neg(q))
  <2>1. Equation(h, n, w, Mult(d))
    BY <1>1, <1>4, <1>5, <1>6, EquationIs
  <2>2. CASE q = Mult(d)
    BY <2>1, <2>2
  <2>3. CASE q = Mult(-d)
    <3>1. PICK e \in Int : e = -d /\ e % N # 0 /\ -e = d
      BY <1>1
    <3>2. Equation(h, n, w, Neg(Mult(e))) <=> Equation(h, n, w, Mult(-e))
      BY <3>1, NegIsMult
    <3> QED BY <2>1, <2>3, <3>1, <3>2
  <2> QED BY <1>2, <2>2, <2>3
<1>7. Verify(h, n, t, q) <=>
           /\ t \in 1 .. N - 1 /\ n \in 1 .. Max - 1 /\ h \in 1 .. Max - 1
           /\ InvModCurveSize(t) \in 1 .. Max - 1
           /\ \/ Equation(h, n, InvModCurveSize(t), q)
              \/ Equation(h, n, InvModCurveSize(t), Neg(q))
  BY <1>5, VerifyIs
<1> QED BY <1>1, <1>2, <1>3, <1>4, <1>6, <1>7, Zenon

-----------------------------------------------------------------------------
(* The inductive invariant of the specification.                           *)

\* The steps of a signer after MakeKey has accepted a key.
KeyKnown == pc \in {"key", "invalidBitLength", "nonce", "signed", "verdict"} /\ ~forged
\* Sign has returned a signature.
Returned == pc \in {"signed", "verdict"} /\ ~forged

\* The private key is in range and the public key is its multiple.
KeyMade   == KeyKnown => priv \in 1 .. N - 1 /\ pub = Multiple[priv]
\* Sign goes on with a hash that is in range.
HashFits  == pc = "nonce" => msg \in 1 .. Max - 1
\* Sign returns Signed signatures.
Signature == Returned => Signed(msg, r, s, priv)
\* A signature from elsewhere is only ever checked.
OnlyHere  == forged => pc = "verdict"

\* The inductive invariant: the checked invariants, and what their proofs need of the
\* steps before.
CurveInvariant ==
  TypeOK /\ OnlyHere /\ KeyMade /\ HashFits /\ Signature /\ SignatureVerifies /\ VerifyIsEcdsa

\* The invariant holds at the start.
LEMMA InitCurve == Init => CurveInvariant
<1> SUFFICES ASSUME Init PROVE CurveInvariant
  OBVIOUS
<1>1. 0 \in 0 .. N /\ 0 \in 0 .. MaxSeed
  BY Constants, CurveAssumption
<1>2. TypeOK
  BY <1>1 DEF Init, TypeOK
<1> QED BY <1>2
        DEF Init, CurveInvariant, OnlyHere, KeyMade, HashFits, Signature, SignatureVerifies,
            VerifyIsEcdsa, KeyKnown, Returned

\* Whatever a key is drawn from, the point that is made of it is its multiple.
LEMMA MakeKeyStep ==
  ASSUME CurveInvariant, pc = "start", NEW d \in 0 .. N, MakeKey(d)
  PROVE  CurveInvariant'
<1>1. ~forged
  BY DEF CurveInvariant, OnlyHere
<1>2. d \in Int /\ N \in Int
  BY Constants
<1>3. CASE InRange(d, N)
  <2>1. d \in 1 .. N - 1 /\ pub' = EcMult[d][EcGen] /\ pc' = "key"
    BY <1>2, <1>3, RangesAre DEF MakeKey
  <2>2. pub' = Multiple[d] /\ pub' \in Curve
    BY <2>1, EcMultOfGenerator, MultipleIs
  <2> QED BY <1>1, <2>1, <2>2
          DEF MakeKey, CurveInvariant, TypeOK, OnlyHere, KeyMade, HashFits, Signature,
              SignatureVerifies, VerifyIsEcdsa, KeyKnown, Returned
<1>4. CASE ~InRange(d, N)
  BY <1>1, <1>4
  DEF MakeKey, CurveInvariant, TypeOK, OnlyHere, KeyMade, HashFits, Signature,
      SignatureVerifies, VerifyIsEcdsa, KeyKnown, Returned
<1> QED BY <1>3, <1>4

\* A given private key.
LEMMA PrivateToPointStep == CurveInvariant /\ PrivateToPoint => CurveInvariant'
BY MakeKeyStep DEF PrivateToPoint

\* A drawn private key.
LEMMA GetRandomPrivateKeyStep == CurveInvariant /\ GetRandomPrivateKey => CurveInvariant'
<1> SUFFICES ASSUME CurveInvariant, GetRandomPrivateKey PROVE CurveInvariant'
  OBVIOUS
<1>1. PICK d \in 0 .. Max - 2 : pc = "start" /\ MakeKey(d)
  BY DEF GetRandomPrivateKey
<1>2. d \in 0 .. N
  BY Constants, Pow2Type
<1> QED BY <1>1, <1>2, MakeKeyStep

\* Sign refuses a hash that is out of range.
LEMMA SignStep == CurveInvariant /\ Sign => CurveInvariant'
<1> SUFFICES ASSUME CurveInvariant, Sign PROVE CurveInvariant'
  OBVIOUS
<1>1. PICK h \in Messages :
        msg' = h /\ pc' = IF InRange(h, Max) THEN "nonce" ELSE "invalidBitLength"
  BY DEF Sign
<1>2. h \in Int /\ Max \in Int
  BY Constants, Pow2Type, CurveAssumption
<1>3. pc' = "nonce" => h \in 1 .. Max - 1
  BY <1>1, <1>2, RangesAre
<1> QED BY <1>1, <1>3
        DEF Sign, CurveInvariant, TypeOK, OnlyHere, KeyMade, HashFits, Signature,
            SignatureVerifies, VerifyIsEcdsa, KeyKnown, Returned

\* A round of Sign's loop: it goes on with nothing changed but the seed, or returns.
LEMMA TryNonceStep == CurveInvariant /\ TryNonce => CurveInvariant'
<1> SUFFICES ASSUME CurveInvariant, TryNonce PROVE CurveInvariant'
  OBVIOUS
<1>1. /\ pc = "nonce" /\ ~forged /\ priv \in 1 .. N - 1 /\ pub = Multiple[priv]
      /\ msg \in 1 .. Max - 1
  BY DEF TryNonce, CurveInvariant, OnlyHere, KeyMade, HashFits, KeyKnown
<1>2. seed' \in 0 .. MaxSeed
  BY CurveAssumption DEF TryNonce, CurveInvariant, TypeOK
<1>3. CASE pc' = "signed" /\ pc' # pc
  <2>0. PICK k \in 1 .. N - 1 : \E x, w :
          /\ x = EcMult[k][EcGen][1] /\ w = DivMod(k, x * priv + msg, N)
          /\ InRange(x, Max) /\ (x * priv + msg) % N # 0 /\ InRange(w, Max)
          /\ r' = x /\ s' = InvModCurveSize(w)
    BY <1>3, Zenon DEF TryNonce
  <2>1. PICK x, w :
          /\ x = EcMult[k][EcGen][1] /\ w = DivMod(k, x * priv + msg, N)
          /\ InRange(x, Max) /\ (x * priv + msg) % N # 0 /\ InRange(w, Max)
          /\ r' = x /\ s' = InvModCurveSize(w)
    BY <2>0
  <2>2. x \in 0 .. P - 1 /\ x \in Int /\ priv \in Int /\ msg \in Int /\ Max \in Int /\ k \in Int
    BY <1>1, <2>1, EcMultOfGenerator, MultIsPoint, PointIs, Constants, Pow2Type
  <2>3. PICK a \in Int : a = x * priv + msg
    BY <2>2
  <2>4. w \in 0 .. N - 1
    BY <2>1, <2>2, <2>3, DivModDivides, Constants
  <2>5. x \in 1 .. Max - 1 /\ w \in 1 .. Max - 1
    BY <2>1, <2>2, <2>4, RangesAre, Constants
  <2>6. Signed(msg, r', s', priv)
    BY <1>1, <2>1, <2>5, SignIs
  <2>7. Ecdsa(msg, r', s', Multiple[priv])
    BY <1>1, <2>6, SignedIsEcdsa
  <2>8. r' \in 1 .. Max - 1 /\ s' \in 1 .. N - 1
    BY <2>6, Zenon DEF Signed
  <2> QED BY <1>1, <1>2, <1>3, <2>6, <2>7, <2>8
          DEF TryNonce, CurveInvariant, TypeOK, OnlyHere, KeyMade, HashFits, Signature,
              SignatureVerifies, VerifyIsEcdsa, KeyKnown, Returned
<1>4. CASE pc' = pc
  <2>1. r' = r /\ s' = s
    BY <1>1, <1>4 DEF TryNonce
  <2> QED BY <1>1, <1>2, <1>4, <2>1
          DEF TryNonce, CurveInvariant, TypeOK, OnlyHere, KeyMade, HashFits, Signature,
              SignatureVerifies, VerifyIsEcdsa, KeyKnown, Returned
<1>5. pc' = pc \/ (pc' = "signed" /\ pc' # pc)
  BY <1>1, Zenon DEF TryNonce
<1> QED BY <1>3, <1>4, <1>5

\* Verify's result is a Boolean.
LEMMA VerifyType ==
  ASSUME NEW h, NEW n, NEW t, NEW q
  PROVE  Verify(h, n, t, q) \in BOOLEAN
BY DEF Verify

\* Checking the signature of Sign, with either y.
LEMMA CheckStep == CurveInvariant /\ Check => CurveInvariant'
<1> SUFFICES ASSUME CurveInvariant, Check PROVE CurveInvariant'
  OBVIOUS
<1>1. /\ pc = "signed" /\ ~forged /\ priv \in 1 .. N - 1 /\ pub = Multiple[priv]
      /\ Signed(msg, r, s, priv)
  BY DEF Check, CurveInvariant, OnlyHere, KeyMade, Signature, KeyKnown, Returned
<1>2. PICK y \in {Multiple[priv][2], P - Multiple[priv][2]} :
        /\ key' = <<Multiple[priv][1], y>>
        /\ verdict' = Verify(msg, r, s, <<Multiple[priv][1], y>>)
  BY <1>1 DEF Check
<1>3. /\ key' \in Curve
      /\ ~Clashes(msg, r, InvModCurveSize(s), pub) => verdict'
  BY <1>1, <1>2, SignedVerifies
<1>4. verdict' \in BOOLEAN
  BY <1>2, VerifyType
<1>5. UNCHANGED <<priv, pub, msg, seed, r, s, forged>> /\ pc' = "verdict"
  BY DEF Check
<1>6. TypeOK'
  BY <1>1, <1>3, <1>4, <1>5 DEF CurveInvariant, TypeOK
<1>7. SignatureVerifies'
  <2>1. Ecdsa(msg, r, s, Multiple[priv])
    BY <1>1 DEF CurveInvariant, SignatureVerifies
  <2> QED BY <1>3, <1>5, <2>1 DEF SignatureVerifies
<1> QED BY <1>1, <1>5, <1>6, <1>7
        DEF CurveInvariant, OnlyHere, KeyMade, HashFits, Signature, VerifyIsEcdsa, KeyKnown,
            Returned

\* Checking any numbers for any point.
LEMMA CheckForgedStep == CurveInvariant /\ CheckForged => CurveInvariant'
<1> SUFFICES ASSUME CurveInvariant, CheckForged PROVE CurveInvariant'
  OBVIOUS
<1>1. PICK h \in Messages, n \in 0 .. Max, t \in 0 .. N, q \in PubKeys :
        /\ msg' = h /\ r' = n /\ s' = t /\ key' = q
        /\ verdict' = Verify(h, n, t, q)
  BY DEF CheckForged
<1>2. h \in Nat /\ n \in Nat /\ t \in Nat /\ q \in Points
  BY CurveAssumption, Constants, Pow2Type
<1>3. ASSUME ~Clashes(h, n, InvModCurveSize(t), q), ~Clashes(h, n, InvModCurveSize(t), Neg(q))
      PROVE  Verify(h, n, t, q) <=> Ecdsa(h, n, t, q)
  <2>1. CASE q \in Curve
    BY <1>2, <1>3, <2>1, VerifyOnCurve
  <2>2. CASE q \notin Curve
    BY <1>2, <2>2, VerifyOffCurve
  <2> QED BY <2>1, <2>2
<1>4. forged' /\ pc' = "verdict" /\ UNCHANGED <<priv, pub, seed>> /\ forged' = TRUE
  BY DEF CheckForged
<1>5. TypeOK'
  <2>1. verdict' \in BOOLEAN
    BY <1>1, VerifyType
  <2> QED BY <1>1, <1>4, <2>1 DEF CurveInvariant, TypeOK
<1>6. VerifyIsEcdsa'
  BY <1>1, <1>3, Zenon DEF VerifyIsEcdsa
<1> QED BY <1>4, <1>5, <1>6
        DEF CurveInvariant, OnlyHere, KeyMade, HashFits, Signature, SignatureVerifies, KeyKnown,
            Returned

\* A stuttering step.
LEMMA CurveStutter == CurveInvariant /\ UNCHANGED vars => CurveInvariant'
<1> SUFFICES ASSUME CurveInvariant, UNCHANGED vars PROVE CurveInvariant'
  OBVIOUS
<1>1. UNCHANGED <<pc, priv, pub, msg, seed, r, s, key, forged, verdict>>
  BY DEF vars
<1>2. TypeOK'
  BY <1>1 DEF CurveInvariant, TypeOK
<1>3. SignatureVerifies' /\ VerifyIsEcdsa'
  BY <1>1 DEF CurveInvariant, SignatureVerifies, VerifyIsEcdsa
<1> QED BY <1>1, <1>2, <1>3
        DEF CurveInvariant, OnlyHere, KeyMade, HashFits, Signature, KeyKnown, Returned

\* The inductive invariant holds in every state.
THEOREM CurveInvariantHolds == Spec => []CurveInvariant
<1>1. CurveInvariant /\ [Next]_vars => CurveInvariant'
  BY PrivateToPointStep, GetRandomPrivateKeyStep, SignStep, TryNonceStep, CheckStep,
     CheckForgedStep, CurveStutter DEF Next
<1> QED BY <1>1, InitCurve, PTL DEF Spec

\* Keys and signatures are in their ranges and every key made is on the curve, for every
\* curve of prime order over a prime field and any number of nonces tried.
THEOREM CurveTypeCorrect == Spec => []TypeOK
<1>1. CurveInvariant => TypeOK
  BY DEF CurveInvariant
<1> QED BY <1>1, CurveInvariantHolds, PTL

\* Whatever nonce Sign ends with, the signature is one by ECDSA for the multiple of the
\* private key, and Verify accepts it with either y of the public key unless one of its
\* additions meets two points with one x.
THEOREM SignaturesVerify == Spec => []SignatureVerifies
<1>1. CurveInvariant => SignatureVerifies
  BY DEF CurveInvariant
<1> QED BY <1>1, CurveInvariantHolds, PTL

\* Unless an addition meets two points with one x, Verify accepts a signature, from wherever
\* it comes, for a point, on the curve or not, just when ECDSA does.
THEOREM VerifyIsCorrect == Spec => []VerifyIsEcdsa
<1>1. CurveInvariant => VerifyIsEcdsa
  BY DEF CurveInvariant
<1> QED BY <1>1, CurveInvariantHolds, PTL
=============================================================================
