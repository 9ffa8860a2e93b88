----------------------------- MODULE StarkCurve -----------------------------
(***************************************************************************)
(* The curve arithmetic of package curve, and Sign and Verify, over a      *)
(* prime P, an order N and a Max = 2^Bits that are to each other as those  *)
(* of the Stark curve: Max < N < P.  The deterministic nonce of RFC 6979,  *)
(* a function of HMACs, is any number in its range.                        *)
(*                                                                         *)
(* A point is <<x, y>>.  The code has no point at infinity: Add does not   *)
(* ask whether its points have one x.  On the Stark curve that does not    *)
(* happen but with negligible probability, and the properties leave out    *)
(* the inputs for which it does (Clashes).                                 *)
(***************************************************************************)
EXTENDS Integers

CONSTANTS
  P,         \* the field prime
  N,         \* the order of the curve, a prime
  Beta,      \* y^2 = x^3 + Alpha * x + Beta, where Alpha is 1
  Bits,      \* Max is 2^Bits
  EcGen,     \* the generator of signatures
  Shift,     \* the shift point, sc.Gx and sc.Gy
  Messages,  \* hashes of messages
  PubKeys,   \* points that signatures from elsewhere are checked against
  MaxSeed    \* bound: the nonces that Sign tries

Alpha == 1
Pow2[i \in 0 .. Bits] == IF i = 0 THEN 1 ELSE 2 * Pow2[i - 1]
Max   == Pow2[Bits]
MinusShift == <<Shift[1], P - Shift[2]>>

\* n / m modulo p; DivMod's GCD gives 0 for the inverse of 0.
DivMod(n, m, p) ==
  IF m % p = 0 THEN 0 ELSE (n * CHOOSE x \in 0 .. p - 1 : (m * x) % p = 1) % p

InvModCurveSize(x) == DivMod(1, x, N)

IsOnCurve(q) == (q[2] * q[2]) % P = (q[1] * q[1] * q[1] + Alpha * q[1] + Beta) % P

\* The reflected third point on the line with the slope m through a and b.
Third(m, a, b) ==
  LET x == (m * m - a[1] - b[1]) % P IN <<x, (m * (a[1] - x) - a[2]) % P>>

Add(a, b) == Third(DivMod(a[2] - b[2], a[1] - b[1], P), a, b)

\* Mutant of Double: the slope without Alpha.
FlatDouble(a) == Third(DivMod(3 * a[1] * a[1], 2 * a[2], P), a, a)

Double(a) == Third(DivMod(3 * a[1] * a[1] + Alpha, 2 * a[2], P), a, a)

\* Only for m > 0: of 0 the half is 0, and the code calls itself without end.
Points == (0 .. P - 1) \X (0 .. P - 1)

EcMult[m \in 1 .. N] ==
  [q \in Points |-> IF m = 1 THEN q
                    ELSE IF m % 2 = 0 THEN EcMult[m \div 2][Double(q)]
                    ELSE Add(EcMult[m - 1][q], q)]

Bit(m, i) == (m \div Pow2[i]) % 2

\* MimicEcMultAir(m, q, shift) after i rounds: the sum and the doubled point.  Its
\* test "xs are the same" compares two pointers, which never are.
Round(m, i, last) ==
  [sum |-> IF Bit(m, i) = 1 THEN Add(last.sum, last.point) ELSE last.sum,
   point |-> Double(last.point)]

Rounds(m, q, shift) ==
  LET round[i \in 0 .. Bits] ==
        IF i = 0 THEN [sum |-> shift, point |-> q] ELSE Round(m, i - 1, round[i - 1])
  IN round

MimicEcMultAir(m, q, shift) == Rounds(m, q, shift)[Bits].sum

InRange(x, limit) == 0 < x /\ x < limit

\* The equation that Verify tries with the public key and, if it fails, with the
\* negative of its y.
Equation(h, r, w, q) ==
  LET zG == MimicEcMultAir(h, EcGen, MinusShift)
      rQ == MimicEcMultAir(r, q, Shift)
      wB == MimicEcMultAir(w, Add(zG, rQ), Shift)
  IN  Add(wB, MinusShift)[1] = r

Neg(q) == <<q[1], -q[2]>>

\* Mutant of Verify: the second try is missing.
VerifyOneY(h, r, s, q) ==
  LET w == InvModCurveSize(s)
  IN  /\ InRange(s, N) /\ InRange(r, Max) /\ InRange(w, Max) /\ InRange(h, Max)
      /\ IsOnCurve(q)
      /\ Equation(h, r, w, q)

Verify(h, r, s, q) ==
  LET w == InvModCurveSize(s)
  IN  /\ InRange(s, N) /\ InRange(r, Max) /\ InRange(w, Max) /\ InRange(h, Max)
      /\ IsOnCurve(q)
      /\ Equation(h, r, w, q) \/ Equation(h, r, w, Neg(q))

\* A round of MimicEcMultAir adds points with one x.
Clash(m, q, shift) ==
  \E i \in 0 .. Bits - 1 :
    Bit(m, i) = 1 /\ Rounds(m, q, shift)[i].sum[1] = Rounds(m, q, shift)[i].point[1]

\* So does an addition on the way of Equation.
Clashes(h, r, w, q) ==
  LET zG == MimicEcMultAir(h, EcGen, MinusShift)
      rQ == MimicEcMultAir(r, q, Shift)
      wB == MimicEcMultAir(w, Add(zG, rQ), Shift)
  IN  \/ Clash(h, EcGen, MinusShift) \/ Clash(r, q, Shift) \/ zG[1] = rQ[1]
      \/ Clash(w, Add(zG, rQ), Shift) \/ wB[1] = Shift[1]
-----------------------------------------------------------------------------
(* The reference: the group of the curve, with a point at infinity, in     *)
(* which every point is a multiple of EcGen, and ECDSA over it.            *)

Infinity == <<>>
Curve    == {q \in Points : IsOnCurve(q)}

Slope(a, b) ==
  CHOOSE m \in 0 .. P - 1 :
    IF a = b THEN (2 * a[2] * m) % P = (3 * a[1] * a[1] + Alpha) % P
    ELSE ((a[1] - b[1]) * m) % P = (a[2] - b[2]) % P

Plus(a, b) ==
  IF a = Infinity THEN b
  ELSE IF b = Infinity THEN a
  ELSE IF a[1] = b[1] /\ (a[2] + b[2]) % P = 0 THEN Infinity
  ELSE Third(Slope(a, b), a, b)

Sums[i \in 0 .. N - 1] == IF i = 0 THEN Infinity ELSE Plus(Sums[i - 1], EcGen)
Multiple == [i \in 0 .. N - 1 |-> Sums[i]]
Log(q)   == CHOOSE i \in 0 .. N - 1 : Multiple[i] = q

IsPrime(n) == n \in Nat /\ n > 1 /\ \A d \in 2 .. n - 1 : n % d # 0

\* P and N are primes, and every point of the curve but Infinity is a multiple of EcGen.
ASSUME CurveAssumption ==
  /\ IsPrime(P) /\ IsPrime(N)
  /\ Beta \in Nat /\ Bits \in Nat \ {0}
  /\ Max < N /\ N < P
  /\ {EcGen, Shift} \subseteq Curve
  /\ {Multiple[i] : i \in 1 .. N - 1} = Curve
  /\ Messages \subseteq 0 .. Max
  /\ PubKeys \subseteq Points
  /\ MaxSeed \in Nat

\* The group law of elliptic curves, as far as the proofs need it: EcGen has the order
\* N, and adding EcGen is associative.
ASSUME GroupLaw ==
  /\ Plus(Multiple[N - 1], EcGen) = Infinity
  /\ \A a, b \in Curve \cup {Infinity} : Plus(a, Plus(b, EcGen)) = Plus(Plus(a, b), EcGen)

\* r is the x of (h / s) * G + (r / s) * Q, or of the same with -Q.
Ecdsa(h, r, s, q) ==
  /\ q \in Curve /\ s \in 1 .. N - 1 /\ r \in 1 .. Max - 1 /\ h \in 1 .. Max - 1
  /\ \E w \in 1 .. Max - 1 :
       /\ (w * s) % N = 1
       /\ \E d \in {Log(q), N - Log(q)} :
            LET sum == (w * (h + r * d)) % N IN sum # 0 /\ Multiple[sum][1] = r
-----------------------------------------------------------------------------
VARIABLES
  pc,
  priv,    \* the private key
  pub,     \* the point of the private key
  msg,     \* msgHash
  seed,    \* inSeed: how many nonces have been tried
  r, s,    \* the signature
  key,     \* the point it is checked against
  forged,  \* the signature that is checked is not one that Sign returned
  verdict  \* what Verify returned

vars == <<pc, priv, pub, msg, seed, r, s, key, forged, verdict>>

Init ==
  /\ pc = "start"
  /\ priv = 0 /\ pub = Infinity
  /\ msg = 0 /\ seed = 0
  /\ r = 0 /\ s = 0
  /\ key = Infinity
  /\ forged = FALSE /\ verdict = FALSE

\* The point of a private key, which must be in the range of the curve.
MakeKey(d) ==
  /\ priv' = d
  /\ IF InRange(d, N)
     THEN pub' = EcMult[d][EcGen] /\ pc' = "key"
     ELSE pc' = "notInRange" /\ UNCHANGED pub
  /\ UNCHANGED <<msg, seed, r, s, key, forged, verdict>>

PrivateToPoint ==
  /\ pc = "start"
  /\ \E d \in 0 .. N : MakeKey(d)

\* rand.Int draws a number below its limit, which is Max - 1; 0 is refused then, and
\* so would be a point that is not on the curve.
GetRandomPrivateKey ==
  /\ pc = "start"
  /\ \E d \in 0 .. Max - 2 : MakeKey(d)
  /\ pc' = "key" => IsOnCurve(pub')

\* Sign checks the range of the hash, not that of the private key: the signer of this
\* module has a key that PrivateToPoint or GetRandomPrivateKey accepted.
Sign ==
  /\ pc = "key"
  /\ \E h \in Messages :
       /\ msg' = h
       /\ pc' = IF InRange(h, Max) THEN "nonce" ELSE "invalidBitLength"
  /\ UNCHANGED <<priv, pub, seed, r, s, key, forged, verdict>>

\* Mutant of TryNonce: w is only checked not to be 0.
UncheckedW ==
  /\ pc = "nonce"
  /\ seed < MaxSeed
  /\ seed' = seed + 1
  /\ \E k \in 1 .. N - 1 :
       LET x   == EcMult[k][EcGen][1]
           agg == x * priv + msg
           w   == DivMod(k, agg, N)
       IN  IF InRange(x, Max) /\ agg % N # 0 /\ w # 0
           THEN r' = x /\ s' = InvModCurveSize(w) /\ pc' = "signed"
           ELSE UNCHANGED <<r, s, pc>>
  /\ UNCHANGED <<priv, pub, msg, key, forged, verdict>>

\* One round of the loop of Sign, with the nonce that GenerateSecret gives for seed.
TryNonce ==
  /\ pc = "nonce"
  /\ seed < MaxSeed
  /\ seed' = seed + 1
  /\ \E k \in 1 .. N - 1 :
       LET x   == EcMult[k][EcGen][1]
           agg == x * priv + msg
           w   == DivMod(k, agg, N)
       IN  IF InRange(x, Max) /\ agg % N # 0 /\ InRange(w, Max)
           THEN r' = x /\ s' = InvModCurveSize(w) /\ pc' = "signed"
           ELSE UNCHANGED <<r, s, pc>>
  /\ UNCHANGED <<priv, pub, msg, key, forged, verdict>>

\* The public key is known by its x; GetYCoordinate gives one of the two y.  The x is
\* that of a point here, so that its square has a root: ModSqrt has none to give, and
\* GetYCoordinate returns nil, for the other x.
Check ==
  /\ pc = "signed"
  /\ \E y \in {pub[2], P - pub[2]} :
       /\ key' = <<pub[1], y>>
       /\ verdict' = Verify(msg, r, s, <<pub[1], y>>)
  /\ pc' = "verdict"
  /\ UNCHANGED <<priv, pub, msg, seed, r, s, forged>>

CheckForged ==
  /\ pc = "start"
  /\ \E h \in Messages, rr \in 0 .. Max, ss \in 0 .. N, q \in PubKeys :
       /\ msg' = h /\ r' = rr /\ s' = ss /\ key' = q
       /\ verdict' = Verify(h, rr, ss, q)
  /\ forged' = TRUE
  /\ pc' = "verdict"
  /\ UNCHANGED <<priv, pub, seed>>

Next == PrivateToPoint \/ GetRandomPrivateKey \/ Sign \/ TryNonce \/ Check \/ CheckForged

Spec == Init /\ [][Next]_vars
-----------------------------------------------------------------------------
(* Properties.                                                             *)

\* Keys and signatures are in their ranges, and every key made is on the curve.
TypeOK ==
  /\ pc \in {"start", "notInRange", "key", "invalidBitLength", "nonce", "signed", "verdict"}
  /\ priv \in 0 .. N
  /\ pub \in Curve \cup {Infinity}
  /\ msg \in Messages \cup {0}
  /\ seed \in 0 .. MaxSeed
  /\ pc \in {"signed", "verdict"} /\ ~forged => r \in 1 .. Max - 1 /\ s \in 1 .. N - 1
  /\ key \in PubKeys \cup Curve \cup {Infinity}
  /\ forged \in BOOLEAN /\ verdict \in BOOLEAN

\* A signature that Sign returns is one by ECDSA, for the point that is really
\* the multiple of the private key; and Verify accepts it, whichever of the two y of
\* the public key it is given, if no addition in Verify clashes.
SignatureVerifies ==
  /\ pc \in {"signed", "verdict"} /\ ~forged => Ecdsa(msg, r, s, Multiple[priv])
  /\ pc = "verdict" /\ ~forged /\ ~Clashes(msg, r, InvModCurveSize(s), pub) => verdict

\* Verify accepts exactly the signatures of ECDSA, for any numbers and any point, on
\* the curve or not, if no addition clashes.
VerifyIsEcdsa ==
  pc = "verdict" /\ forged
    /\ ~Clashes(msg, r, InvModCurveSize(s), key) /\ ~Clashes(msg, r, InvModCurveSize(s), Neg(key))
  => (verdict <=> Ecdsa(msg, r, s, key))
=============================================================================
