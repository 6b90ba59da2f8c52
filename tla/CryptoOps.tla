------------------------------- MODULE CryptoOps -------------------------------
(***************************************************************************)
(* The group operations of crypto-ops.c on the twisted Edwards curve       *)
(* -x^2 + y^2 = 1 + d x^2 y^2.  The coordinates are residues modulo P (the *)
(* limbs behind them are FieldLimbs); the formulas, conversions, digit     *)
(* recodings and tables are those of the source.  The prime, the curve and *)
(* the number of digits of a scalar are parameters: any prime that is 5    *)
(* modulo 8 and any curve of order 8 l with the residue symbols of         *)
(* Curve25519 will do.                                                     *)
(***************************************************************************)
EXTENDS Integers, Sequences, TLC

CONSTANTS
    P,         \* the field prime, 5 modulo 8
    Bits,      \* bits of an encoded y coordinate
    A,         \* the Montgomery coefficient, 486662 in the code
    Base,      \* the base point, <<x, y>>
    NB,        \* bits of a scalar passed to slide, 256 in the code
    ND,        \* radix-16 digits of a scalar, 64 in the code
    Points,    \* affine points the calls are made with
    Scales,    \* projective scalings the points come with
    Slides,    \* scalars passed to slide
    Few,       \* affine points that are multiplied
    Pairs,     \* scalars passed to the double multiplications
    Scalars,   \* scalars passed to the single multiplications
    Limbs,     \* limbs of a reduced scalar, even
    LimbBits,  \* bits of a limb
    MinusDelta,\* the signed limbs of -delta, where l = 2^(Limbs LimbBits) + delta
    TopBits,   \* bits of the encoding beyond the Limbs (or 2 Limbs) limbs
    WordBits,  \* bits of a word of sc_check
    Encoded,   \* scalars passed to the 32-byte functions
    Wide,      \* scalars passed to sc_reduce
    Factors    \* scalars that are added, subtracted and multiplied

ASSUME PrimeAssumption == P % 8 = 5 /\ 2^Bits > P /\ ND % 2 = 0
ASSUME LimbAssumption == Limbs % 2 = 0 /\ Len(MinusDelta) * 2 = Limbs /\ LimbBits > 1

VARIABLES
    call,      \* the function called and its arguments
    ret,       \* what it returned
    loop       \* the loop of a multiplication in progress

opsVars == <<call, ret, loop>>

-------------------------------------------------------------------------------
(* The field, as FieldLimbs implements it.                                   *)

Fe == 0..P-1
Pow[x \in Fe, n \in Nat] ==
    IF n = 0 THEN 1
    ELSE LET h == Pow[x, n \div 2] IN (IF n % 2 = 1 THEN h * h * x ELSE h * h) % P
fe_invert(z) == Pow[z, P - 2]
Sqrt(x) == CHOOSE r \in Fe : (r * r - x) % P = 0

fe_d == (- (A - 2) * fe_invert(A + 2)) % P
fe_d2 == (2 * fe_d) % P
fe_sqrtm1 == Sqrt(P - 1)
fe_ma == (- A) % P
fe_ma2 == (- A * A) % P
fe_fffb1 == Sqrt((- 2 * A * (A + 2)) % P)
fe_fffb2 == Sqrt((2 * A * (A + 2)) % P)

fe_fffb3 == Sqrt((- fe_sqrtm1 * A * (A + 2)) % P)
fe_fffb4 == Sqrt((fe_sqrtm1 * A * (A + 2)) % P)

\* u v^3 (u v^7)^((P - 5) / 8), by an addition chain in the code.
fe_divpowm1(u, v) ==
    LET v3 == Pow[v, 3] IN (((u * v3) % P) * Pow[(u * Pow[v, 7]) % P, (P - 5) \div 8]) % P

fe_isnegative(x) == x % 2

-------------------------------------------------------------------------------
(* Coordinates: ge_p2 <<X, Y, Z>>, ge_p3 and ge_p1p1 <<X, Y, Z, T>>,         *)
(* ge_cached [yp, ym, Z, t2d], ge_precomp the same with Z = 1.               *)

ge_p2_0 == <<0, 1, 1>>
ge_p3_0 == <<0, 1, 1, 0>>
ge_cached_0 == [yp |-> 1, ym |-> 1, Z |-> 1, t2d |-> 0]

ge_p1p1_to_p2(p) == <<(p[1] * p[4]) % P, (p[2] * p[3]) % P, (p[3] * p[4]) % P>>
ge_p1p1_to_p3(p) == ge_p1p1_to_p2(p) \o <<(p[1] * p[2]) % P>>
ge_p3_to_p2(p) == SubSeq(p, 1, 3)
ge_p3_to_cached(p) ==
    [yp |-> (p[2] + p[1]) % P, ym |-> (p[2] - p[1]) % P, Z |-> p[3], t2d |-> (p[4] * fe_d2) % P]

ge_p2_dbl(p) ==
    LET xx == p[1] * p[1] yy == p[2] * p[2] zz2 == 2 * p[3] * p[3] s == (p[1] + p[2]) * (p[1] + p[2])
    IN <<(s - (yy + xx)) % P, (yy + xx) % P, (yy - xx) % P, (zz2 - (yy - xx)) % P>>

ge_p3_dbl(p) == ge_p2_dbl(ge_p3_to_p2(p))

\* The common tail of the four additions: a, b and c are the products of the sum,
\* the difference and the T coordinates, dd twice the product of the Zs.
Combine(a, b, c, dd) == <<(a - b) % P, (a + b) % P, (dd + c) % P, (dd - c) % P>>

ge_add(p, q) ==
    Combine((p[2] + p[1]) * q.yp, (p[2] - p[1]) * q.ym, q.t2d * p[4], 2 * p[3] * q.Z)
ge_sub(p, q) ==
    Combine((p[2] + p[1]) * q.ym, (p[2] - p[1]) * q.yp, - q.t2d * p[4], 2 * p[3] * q.Z)
ge_madd(p, q) ==
    Combine((p[2] + p[1]) * q.yp, (p[2] - p[1]) * q.ym, q.t2d * p[4], 2 * p[3])
ge_msub(p, q) ==
    Combine((p[2] + p[1]) * q.ym, (p[2] - p[1]) * q.yp, - q.t2d * p[4], 2 * p[3])

ge_mul8(p) == ge_p2_dbl(ge_p1p1_to_p2(ge_p2_dbl(ge_p1p1_to_p2(ge_p2_dbl(p)))))

Encode(X, Y, Z) ==
    LET recip == fe_invert(Z)
    IN ((Y * recip) % P) + 2^Bits * fe_isnegative((X * recip) % P)
ge_tobytes(h) == Encode(h[1], h[2], h[3])
ge_p3_tobytes(h) == Encode(h[1], h[2], h[3])

\* <<>> stands for the return value -1.
Failed == <<>>

\* The limb pattern of a y that is not below P is refused before anything else.
canonical(y) == y < P

\* Variant: a zero x with the sign bit set is accepted.
sign_ok_lax(x, sign) == TRUE

\* "If x = 0, the sign must be positive."
sign_ok(x, sign) == fe_isnegative(x) = sign \/ x # 0

ge_frombytes_vartime(s) ==
    LET sign == s \div 2^Bits
        y == s % 2^Bits
        u == (y * y - 1) % P
        v == (fe_d * ((y * y) % P) + 1) % P
        root == fe_divpowm1(u, v)
        vxx == (((root * root) % P) * v) % P
        x == IF vxx = u THEN root ELSE (root * fe_sqrtm1) % P
        signed == IF fe_isnegative(x) = sign THEN x ELSE (- x) % P
    IN IF ~ canonical(y) \/ (vxx # u /\ (vxx + u) % P # 0) \/ ~ sign_ok(x, sign) THEN Failed
       ELSE <<signed, y, 1, (signed * y) % P>>

-------------------------------------------------------------------------------
(* Recodings of scalars.                                                    *)

\* The inner loop of slide at position i: b, the digit so far and the digits.
Absorb(r, i, b) ==
    LET top == r[i + b] * 2^b
        free == {k \in (i + b)..(NB - 1) : r[k] = 0}
        first == CHOOSE k \in free : \A j \in free : k <= j
    IN IF r[i + b] = 0 THEN [r |-> r, stop |-> FALSE]
       ELSE IF r[i] + top <= 15 THEN [r |-> [r EXCEPT ![i] = @ + top, ![i + b] = 0], stop |-> FALSE]
       ELSE IF r[i] - top >= -15
            THEN [r |-> [k \in 0..NB-1 |-> IF k = i THEN r[i] - top
                                           ELSE IF k < i + b THEN r[k]
                                           ELSE IF free = {} \/ k < first THEN 0
                                           ELSE IF k = first THEN 1 ELSE r[k]], stop |-> FALSE]
       ELSE [r |-> r, stop |-> TRUE]

slide(a) ==
    LET at[i \in 0..NB] ==
            IF i = 0 THEN [k \in 0..NB-1 |-> (a \div 2^k) % 2]
            ELSE LET r == at[i - 1]
                     last == IF i - 1 + 6 < NB THEN 6 ELSE NB - i
                     in[b \in 0..last] ==
                         IF b = 0 THEN [r |-> r, stop |-> FALSE]
                         ELSE IF in[b - 1].stop THEN in[b - 1]
                         ELSE Absorb(in[b - 1].r, i - 1, b)
                 IN IF r[i - 1] = 0 THEN r ELSE in[last].r
    IN at[NB]

\* The signed radix-16 digits -8..8 of ge_scalarmult and ge_scalarmult_base: both
\* push the carry of digits above 7 upwards; the last digit takes it unchanged.
digits(a) ==
    LET raw == [i \in 0..ND-1 |-> (a \div 16^i) % 16]
        carry[i \in 0..ND] == IF i = 0 THEN 0 ELSE (raw[i - 1] + carry[i - 1] + 8) \div 16
    IN [i \in 0..ND-1 |-> raw[i] + carry[i] - (IF i < ND - 1 THEN 16 * carry[i + 1] ELSE 0)]

abs(b) == IF b < 0 THEN - b ELSE b
equal(b, c) == IF b = c THEN 1 ELSE 0
negative(b) == IF b < 0 THEN 1 ELSE 0
Negated(q) == [q EXCEPT !.yp = q.ym, !.ym = q.yp, !.t2d = (- q.t2d) % P]
ge_cached_cmov(t, u, b) == IF b = 1 THEN u ELSE t

\* Constant-time selection of the b-th table entry, negated for a negative b.
Selected(table, b) ==
    LET moved[j \in 0..8] == IF j = 0 THEN ge_cached_0
                             ELSE ge_cached_cmov(moved[j - 1], table[j], equal(abs(b), j))
    IN ge_cached_cmov(moved[8], Negated(moved[8]), negative(b))

-------------------------------------------------------------------------------
(* Tables and multiplications.                                              *)

Affine(h) == LET recip == fe_invert(h[3]) IN <<(h[1] * recip) % P, (h[2] * recip) % P>>
Project(pt, z) == <<(pt[1] * z) % P, (pt[2] * z) % P, z, (((pt[1] * pt[2]) % P) * z) % P>>
Precomp(h) == ge_p3_to_cached(Project(Affine(h), 1))

\* A, 3A, ..., 15A.
ge_dsm_precomp(s) ==
    LET s2 == ge_p1p1_to_p3(ge_p3_dbl(s))
        odd[k \in 0..7] == IF k = 0 THEN s
                           ELSE ge_p1p1_to_p3(ge_add(s2, ge_p3_to_cached(odd[k - 1])))
    IN [k \in 0..7 |-> ge_p3_to_cached(odd[k])]

\* 1A .. 8A
Multiples(p) ==
    LET first == ge_p3_to_cached(p)
        n[k \in 1..8] == IF k = 1 THEN p ELSE ge_p1p1_to_p3(ge_add(p, ge_p3_to_cached(n[k - 1])))
    IN [k \in 1..8 |-> IF k = 1 THEN first ELSE ge_p3_to_cached(n[k])]

Doubled(p, times) ==
    LET d[k \in 0..times] == IF k = 0 THEN p ELSE ge_p1p1_to_p3(ge_p3_dbl(d[k - 1])) IN d[times]
DoubledP2(p, times) ==
    LET d[k \in 0..times] == IF k = 0 THEN p ELSE ge_p1p1_to_p2(ge_p2_dbl(d[k - 1])) IN d[times]

B == Project(Base, 1)

\* (j + 1) 256^pos B, a constant table in the code.
ge_base ==
    [pos \in 0..(ND \div 2 - 1) |->
        LET m == Doubled(B, 8 * pos)
            n[k \in 1..8] == IF k = 1 THEN m ELSE ge_p1p1_to_p3(ge_add(m, ge_p3_to_cached(n[k - 1])))
        IN [k \in 1..8 |-> Precomp(n[k])]]

\* B, 3B, ..., 15B, a constant table in the code.
ge_Bi ==
    LET b2 == ge_p1p1_to_p3(ge_p3_dbl(B))
        odd[k \in 0..7] == IF k = 0 THEN B ELSE ge_p1p1_to_p3(ge_add(b2, ge_p3_to_cached(odd[k - 1])))
    IN [k \in 0..7 |-> Precomp(odd[k])]

select(pos, b) == Selected(ge_base[pos], b)

\* The odd digits first, four doublings, then the even digits.
ge_scalarmult_base(a) ==
    LET e == digits(a)
        half[k \in 0..ND \div 2] ==
            IF k = 0 THEN ge_p3_0 ELSE ge_p1p1_to_p3(ge_madd(half[k - 1], select(k - 1, e[2 * k - 1])))
        whole[k \in 0..ND \div 2] ==
            IF k = 0 THEN Doubled(half[ND \div 2], 4)
            ELSE ge_p1p1_to_p3(ge_madd(whole[k - 1], select(k - 1, e[2 * k - 2])))
    IN whole[ND \div 2]

\* One digit of ge_scalarmult: four doublings, then the selected multiple.
ScalarmultDigit(r, table, digit) ==
    ge_p1p1_to_p2(ge_add(ge_p1p1_to_p3(ge_p2_dbl(DoubledP2(r, 3))), Selected(table, digit)))

\* One digit of a double multiplication: nothing, an addition or a subtraction.
Digit(t, d, table, Plus(_, _), Minus(_, _)) ==
    IF d > 0 THEN Plus(ge_p1p1_to_p3(t), table[d \div 2])
    ELSE IF d < 0 THEN Minus(ge_p1p1_to_p3(t), table[(- d) \div 2])
    ELSE t

ge_double_scalarmult_base_vartime(r, a, Ai, b) ==
    ge_p1p1_to_p2(Digit(Digit(ge_p2_dbl(r), a, Ai, ge_add, ge_sub), b, ge_Bi, ge_madd, ge_msub))
ge_double_scalarmult_precomp_vartime(r, a, Ai, b, Bi) ==
    ge_p1p1_to_p2(Digit(Digit(ge_p2_dbl(r), a, Ai, ge_add, ge_sub), b, Bi, ge_add, ge_sub))

\* A field element to a point: Elligator-like, one of two x candidates.
ge_fromfe_frombytes_vartime(s) ==
    LET u == s % P
        v == (2 * u * u) % P
        w == (v + 1) % P
        x == (w * w + fe_ma2 * v) % P
        root == fe_divpowm1(w, x)
        x1 == (((root * root) % P) * x) % P
        square == x1 = w \/ (w + x1) % P = 0
        x2 == (x1 * fe_sqrtm1) % P
        X == IF square THEN (((root * (IF x1 = w THEN fe_fffb2 ELSE fe_fffb1)) % P) * u) % P
             ELSE (root * (IF x2 = w THEN fe_fffb4 ELSE fe_fffb3)) % P
        z == IF square THEN (fe_ma * v) % P ELSE fe_ma
        sign == IF square THEN 0 ELSE 1
        Z == (z + w) % P
        signed == IF fe_isnegative(X) = sign THEN X ELSE (- X) % P
    IN [assert |-> (square \/ x2 = w \/ (w + x2) % P = 0) /\ (fe_isnegative(X) = sign \/ X # 0),
        point |-> <<(signed * Z) % P, (z - w) % P, Z>>]

-------------------------------------------------------------------------------
(* Scalars modulo the order l of the base point.  A scalar is split into     *)
(* limbs (twelve of 21 bits in the code); limb Limbs + i is folded onto the  *)
(* limbs from i on with the signed limbs of -delta (666643, 470296, 654183,  *)
(* -997805, 136657, -683901 in the code).  Folds and carries alternate in    *)
(* the order of the source until the value is canonical.                     *)

D == Len(MinusDelta)
Delta == LET d[k \in 0..D] == IF k = 0 THEN 0 ELSE d[k - 1] - MinusDelta[k] * 2^(LimbBits * (k - 1)) IN d[D]
l == 2^(Limbs * LimbBits) + Delta

\* Limb vectors are functions on 0..2 Limbs.
Index == 0..2*Limbs

\* load_3 and load_4 with a mask of LimbBits bits; limb n - 1 of an n-limb scalar keeps
\* all bits above it.
load(a, n) ==
    [i \in Index |-> IF i < n - 1 THEN (a \div 2^(LimbBits * i)) % 2^LimbBits
                     ELSE IF i = n - 1 THEN a \div 2^(LimbBits * i) ELSE 0]

\* The bytes stored at the end of every function.
store(s) == LET v[i \in 0..Limbs] == IF i = 0 THEN 0 ELSE v[i - 1] + s[i - 1] * 2^(LimbBits * (i - 1)) IN v[Limbs]

Carried(s, i, carry) == [s EXCEPT ![i] = @ - carry * 2^LimbBits, ![i + 1] = @ + carry]
Rounded(s, i) == Carried(s, i, (s[i] + 2^(LimbBits - 1)) \div 2^LimbBits)
Plain(s, i)   == Carried(s, i, s[i] \div 2^LimbBits)

\* Adds s_i times -delta to the limbs below limb i and clears it.
Fold(s, i) ==
    [j \in Index |-> IF j = i THEN 0
                     ELSE IF j - (i - Limbs) \in 0..D-1 THEN s[j] + s[i] * MinusDelta[j - (i - Limbs) + 1]
                     ELSE s[j]]

Each(s, Op(_, _), from, to, step) ==
    LET count == IF step > 0 THEN (to - from) \div step + 1 ELSE (from - to) \div (- step) + 1
        run[k \in 0..count] == IF k = 0 THEN s ELSE Op(run[k - 1], from + (k - 1) * step)
    IN run[count]

EvenOdd(s, from, to) == Each(Each(s, Rounded, from, to, 2), Rounded, from + 1, to - 1, 2)

\* The tail of every function: the limb above is folded, plain carries fill it again,
\* and a second fold leaves nothing there.
Settle(s) == Each(Fold(Each(Fold(s, Limbs), Plain, 0, Limbs - 1, 1), Limbs), Plain, 0, Limbs - 2, 1)

\* The rounded carries over all limbs, even limbs first, then the tail.
Shrink(s) == Settle(Each(Each(s, Rounded, 0, Limbs - 2, 2), Rounded, 1, Limbs - 1, 2))

\* The upper half of the upper limbs, carries, the lower half.
Reduce(s) ==
    LET half == Limbs + Limbs \div 2
        high == Each(s, Fold, 2 * Limbs - 1, half, -1)
    IN Shrink(Each(EvenOdd(high, Limbs \div 2, half - 2), Fold, half - 1, Limbs, -1))

sc_0 == 0
sc_reduce(s) == store(Reduce(load(s, 2 * Limbs)))
sc_reduce32(s) == store(Shrink(load(s, Limbs)))

sc_add(a, b) ==
    LET x == load(a, Limbs) y == load(b, Limbs) IN store(Shrink([i \in Index |-> x[i] + y[i]]))

sc_sub(a, b) ==
    LET x == load(a, Limbs) y == load(b, Limbs) IN store(Shrink([i \in Index |-> x[i] - y[i]]))

\* The schoolbook product subtracted from c, in 2 Limbs - 1 limbs.
product(c, x, y) ==
    [k \in Index |->
        LET sum[i \in 0..Limbs] == IF i = 0 THEN c[k]
                               ELSE sum[i - 1] - (IF k - (i - 1) \in 0..Limbs-1 THEN x[i - 1] * y[k - (i - 1)] ELSE 0)
        IN sum[Limbs]]

sc_mulsub(a, b, c) ==
    store(Reduce(EvenOdd(product(load(c, Limbs), load(a, Limbs), load(b, Limbs)), 0, 2 * Limbs - 2)))

signum(x) == IF x > 0 THEN 1 ELSE IF x < 0 THEN -1 ELSE 0

Words == (Limbs * LimbBits + TopBits) \div WordBits
word(s, k) == IF k = Words - 1 THEN s \div 2^(k * WordBits) ELSE (s \div 2^(k * WordBits)) % 2^WordBits

\* The signs of the differences with the words of l - 1, weighted by powers of
\* two, so that the highest difference decides.
sc_check(s) ==
    LET sum[k \in 0..Words] == IF k = 0 THEN 0
                               ELSE sum[k - 1] + signum(word(l - 1, k - 1) - word(s, k - 1)) * 2^(k - 1)
    IN IF sum[Words] < 0 THEN -1 ELSE 0

sc_isnonzero(s) == IF s = 0 THEN 0 ELSE 1

-------------------------------------------------------------------------------
(* One call of every function on every argument.                            *)

Idle == [i |-> -1]
OpsInit == call = <<>> /\ ret = <<>> /\ loop = Idle

Call(f, args, result) ==
    call' = <<f>> \o args /\ ret' = result /\ UNCHANGED loop

\* The multiplications: tables and digits first, from the highest digit down.
StartSingle(a, p, z) ==
    /\ call' = <<"mul", a, p>> /\ ret' = ge_p2_0
    /\ loop' = [i |-> ND - 1, f |-> "single", a |-> digits(a), Ai |-> Multiples(Project(p, z))]

StartDouble(f, a, p, z, b) ==
    LET aslide == slide(a)
        bslide == slide(b)
        used == {i \in 0..NB-1 : aslide[i] # 0 \/ bslide[i] # 0}
    IN /\ call' = <<"dmul", a, p, b>> /\ ret' = ge_p2_0
       /\ loop' = IF used = {} THEN Idle
                  ELSE [i |-> CHOOSE i \in used : \A j \in used : j <= i,
                        f |-> f, a |-> aslide, b |-> bslide, Ai |-> ge_dsm_precomp(Project(p, z)),
                        Bi |-> ge_dsm_precomp(B)]

ge_scalarmult ==
    /\ loop.i >= 0 /\ loop.f = "single"
    /\ ret' = ScalarmultDigit(ret, loop.Ai, loop.a[loop.i])
    /\ loop' = IF loop.i = 0 THEN Idle ELSE [loop EXCEPT !.i = @ - 1]
    /\ UNCHANGED call

ge_double_scalarmult ==
    /\ loop.i >= 0 /\ loop.f \in {"base", "precomp"}
    /\ ret' = IF loop.f = "base"
              THEN ge_double_scalarmult_base_vartime(ret, loop.a[loop.i], loop.Ai, loop.b[loop.i])
              ELSE ge_double_scalarmult_precomp_vartime(ret, loop.a[loop.i], loop.Ai, loop.b[loop.i], loop.Bi)
    /\ loop' = IF loop.i = 0 THEN Idle ELSE [loop EXCEPT !.i = @ - 1]
    /\ UNCHANGED call

GroupCalls ==
    \E p, q \in Points, z \in Scales :
        LET pp == Project(p, z) qq == ge_p3_to_cached(Project(q, P - z)) IN
        \/ Call("add", <<p, q>>, ge_p1p1_to_p3(ge_add(pp, qq)))
        \/ Call("sub", <<p, q>>, ge_p1p1_to_p3(ge_sub(pp, qq)))
        \/ Call("add", <<p, q>>, ge_p1p1_to_p3(ge_madd(pp, Precomp(Project(q, z)))))
        \/ Call("sub", <<p, q>>, ge_p1p1_to_p3(ge_msub(pp, Precomp(Project(q, z)))))

PointCalls ==
    \/ \E p \in Points, z \in Scales :
        LET pp == Project(p, z) IN
        \/ Call("mul", <<2, p>>, ge_p1p1_to_p3(ge_p3_dbl(pp)))
        \/ Call("mul", <<8, p>>, ge_p1p1_to_p3(ge_mul8(ge_p3_to_p2(pp))))
        \/ Call("bytes", <<p>>, ge_frombytes_vartime(ge_p3_tobytes(pp)))
        \/ Call("bytes", <<p>>, ge_frombytes_vartime(ge_tobytes(ge_p3_to_p2(pp))))
    \/ \E s \in 0..(2^(Bits + 1) - 1) : Call("decode", <<s>>, ge_frombytes_vartime(s))
    \/ \E s \in Fe : Call("fromfe", <<s>>, ge_fromfe_frombytes_vartime(s))

Multiplications ==
    \/ \E p \in Few, z \in Scales :
        \/ \E a \in Scalars : StartSingle(a, p, z)
        \/ \E a, b \in Pairs, f \in {"base", "precomp"} : StartDouble(f, a, p, z, b)
    \/ \E a \in Scalars : Call("mul", <<a, Base>>, ge_scalarmult_base(a))
    \/ \E a \in Slides : Call("slide", <<a>>, slide(a))

ScalarCalls ==
    \/ Call("sc_0", <<>>, <<sc_0>>)
    \/ \E s \in Wide : Call("sc_reduce", <<s>>, <<sc_reduce(s)>>)
    \/ \E s \in Encoded : \/ Call("sc_reduce32", <<s>>, <<sc_reduce32(s)>>)
                          \/ Call("sc_check", <<s>>, <<sc_check(s)>>)
                          \/ Call("sc_isnonzero", <<s>>, <<sc_isnonzero(s)>>)
    \/ \E a, b \in Factors : \/ Call("sc_add", <<a, b>>, <<sc_add(a, b)>>)
                             \/ Call("sc_sub", <<a, b>>, <<sc_sub(a, b)>>)
    \/ \E a, b, c \in Factors : Call("sc_mulsub", <<a, b, c>>, <<sc_mulsub(a, b, c)>>)

OpsNext ==
    \/ call = <<>> /\ (GroupCalls \/ PointCalls \/ Multiplications \/ ScalarCalls)
    \/ ge_scalarmult \/ ge_double_scalarmult
    \/ call # <<>> /\ loop = Idle /\ UNCHANGED opsVars

OpsSpec == OpsInit /\ [][OpsNext]_opsVars

-------------------------------------------------------------------------------
(* Properties.                                                              *)

OnCurve(p) == (- p[1] * p[1] + p[2] * p[2] - 1 - ((fe_d * p[1] * p[1]) % P) * ((p[2] * p[2]) % P)) % P = 0

\* The affine group law, the reference of every formula.
Sum(p, q) ==
    LET k == (((fe_d * p[1] * q[1]) % P) * ((p[2] * q[2]) % P)) % P
    IN <<((p[1] * q[2] + p[2] * q[1]) * fe_invert((1 + k) % P)) % P,
         ((p[2] * q[2] + p[1] * q[1]) * fe_invert((1 - k) % P)) % P>>
Minus(p) == <<(- p[1]) % P, p[2]>>
Times(n, p) == LET t[k \in 0..n] == IF k = 0 THEN <<0, 1>>
                                    ELSE LET h == t[k \div 2] d == Sum(h, h)
                                         IN IF k % 2 = 1 THEN Sum(d, p) ELSE d
               IN t[n]

Is(p) == Affine(ret) = p /\ (Len(ret) = 4 => (ret[1] * ret[2] - ret[3] * ret[4]) % P = 0)

\* Every addition, subtraction, doubling and multiplication by eight agrees with
\* the affine group law for all pairs of points, the neutral element, equal and
\* opposite points included, whatever their projective scaling, and the extended
\* coordinate T stays X Y / Z.
GroupLaw ==
    /\ call # <<>> /\ call[1] = "add" => Is(Sum(call[2], call[3]))
    /\ call # <<>> /\ call[1] = "sub" => Is(Sum(call[2], Minus(call[3])))
    /\ call # <<>> /\ loop = Idle /\ call[1] = "mul" /\ call[2] \in {2, 8} => Is(Times(call[2], call[3]))

\* The windowed multiplications compute a A, a B and a A + b B for every scalar
\* below their bound, whatever the signs of the recoded digits.
ScalarMultiples ==
    /\ call # <<>> /\ loop = Idle /\ call[1] = "mul" => Is(Times(call[2], call[3]))
    /\ call # <<>> /\ loop = Idle /\ call[1] = "dmul" => Is(Sum(Times(call[2], call[3]), Times(call[4], Base)))

\* The sliding-window digits of slide stand for the scalar, are zero or odd, and
\* stay within the tables of odd multiples up to 15.
SlideExact ==
    call # <<>> /\ call[1] = "slide" =>
        /\ LET v[k \in 0..NB] == IF k = 0 THEN 0 ELSE v[k - 1] + ret[k - 1] * 2^(k - 1) IN v[NB] = call[2]
        /\ \A k \in 0..NB-1 : ret[k] = 0 \/ (ret[k] % 2 = 1 /\ ret[k] \in -15..15)

\* Encodings are unique: decoding an encoded point gives it back, and decoding
\* accepts exactly the byte strings that encode some point of the curve, so a
\* non-canonical y and a signed zero are refused.
EncodingUnique ==
    /\ call # <<>> /\ call[1] = "bytes" => ret # Failed /\ Is(call[2])
    /\ call # <<>> /\ call[1] = "decode" =>
         ret # Failed <=> \E p \in Fe \X Fe : OnCurve(p) /\ Encode(p[1], p[2], 1) = call[2]

\* Hashing to a point never trips the assertions of ge_fromfe_frombytes_vartime
\* and always gives a point of the curve.
FromFeOnCurve ==
    call # <<>> /\ call[1] = "fromfe" => ret.assert /\ ret.point[3] # 0 /\ OnCurve(Affine(ret.point))

\* What the function called last should give, modulo l.
Expected ==
    CASE call[1] = "sc_0" -> 0
      [] call[1] \in {"sc_reduce", "sc_reduce32"} -> call[2] % l
      [] call[1] = "sc_add" -> (call[2] + call[3]) % l
      [] call[1] = "sc_sub" -> (call[2] - call[3]) % l
      [] call[1] = "sc_mulsub" -> (call[4] - call[2] * call[3]) % l
      [] call[1] = "sc_check" -> IF call[2] < l THEN 0 ELSE -1
      [] call[1] = "sc_isnonzero" -> IF call[2] = 0 THEN 0 ELSE 1

\* The scalar functions return the canonical residue of what they compute: two
\* folds of the top limb are enough to bring every sum, difference, product and
\* 64-byte hash below l, so equal scalars have equal encodings.
Canonical == call # <<>> /\ call[1] \in {"sc_0", "sc_reduce", "sc_reduce32", "sc_add", "sc_sub", "sc_mulsub"} => ret = <<Expected>>

\* sc_check accepts exactly the canonical scalars, the boundary included: l - 1
\* is accepted and l is refused.
ChecksCanonical == call # <<>> /\ call[1] = "sc_check" => ret = <<Expected>>

-----------------------------------------------------------------------------
(* The cryptographic code on small instances.  A behaviour is one of the      *)
(* parts; the variables of the others stay as they are.                       *)
(*                                                                            *)
(*   ops      the group and the scalars of crypto-ops.c: P = 53, A = 14, d =  *)
(*            39, a curve of order 56 = 8 * 7; four limbs of three bits, l =  *)
(*            2^12 + 31 = 4127, -31 = 1 - 4 * 8                               *)
(*   field    its limb vectors: four limbs of 6 and 5 bits, 2^22 - 3          *)
(*   payment  keys, derivation, signatures and rings in a group of order 40   *)
(*   rounds   the round functions of the hashes and ciphers on 4-bit words    *)
(*   streams  buffering and padding on blocks of 6 bytes, counters below 12   *)
(*   pool     two threads drawing from the random pool                        *)
(*   context  the context of oaes_lib.c with blocks of 3 bytes: an empty      *)
(*            message, one of a block that ends like a padding, one of two    *)
(*            blocks whose last bytes look like padding                       *)
(*   slow     the three versions of the slow hash over 8 blocks               *)
CONSTANTS NULL, AesKeys

VARIABLES
  part,
  r, terms, shown, calls,
  stage, hs, view, spend, txkey, output, sent, sig, ok,
  round_alg, round, code, ref,
  alg, phase, msg, ctx, out, got, curstate, random_lock, draws, pc, need, result,
  context, live, ciphers, file, rands, lost, answer,
  versions, step, iteration, seed, hp_state, hp_allocated, hashes, freed

fieldVars == <<r, terms, shown, calls>>
paymentVars == <<stage, hs, view, spend, txkey, output, sent, sig, ok>>
roundVars == <<round_alg, round, code, ref>>
streamVars == <<alg, phase, msg, ctx, out, got, curstate, random_lock, draws, pc, need, result>>
contextVars == <<context, live, ciphers, file, rands, lost, answer>>
slowVars == <<versions, step, iteration, seed, hp_state, hp_allocated, hashes, freed>>
vars == <<part, opsVars, fieldVars, paymentVars, roundVars, streamVars, contextVars, slowVars>>

Parts == {"ops", "field", "payment", "rounds", "streams", "pool", "context", "slow"}

-----------------------------------------------------------------------------
(* The arguments of the functions of crypto-ops.c. *)
CurveBase == <<11, 14>>
CurvePoints == {p \in Fe \X Fe : OnCurve(p)}
FewPoints == {p \in CurvePoints : (p[1] + p[2]) % 5 = 0}
SmallScalars == 0..511
DoubleScalars == {0, 1, 6, 15, 31, 33, 240, 511}
SingleScalars == {0, 1, 2, 6, 7, 8, 9, 15, 16, 55, 56, 127, 128, 135, 136, 137, 255, 256, 2047, 2048,
                  2184, 2185, 4095, 30583, 32767}
MinusThirtyOne == <<1, -4>>
Near(x) == (x - 2)..(x + 2)
ShortScalars == (0..9) \cup UNION {Near(l * k) : k \in 1..3} \cup Near(4096) \cup Near(8190)
                  \cup {97 * k : k \in 1..168}
LongScalars == ShortScalars \cup UNION {Near(l * k) : k \in {7, 8, 63, 64, 511, 512, 4095, 4096, 8129, 16257}}
                 \cup {5003 * k + k * k : k \in 1..2000}
Multiplied == {0, 1, 7, 8, 63, 64, 511, 512, 2048, 4095, 4125, 4126}

Limb == INSTANCE FieldLimbs WITH
  L <- 4, W <- 6, C <- 3, Byte <- 4, Registers <- {"f", "g"},
  Inputs <- {0, 3021377, 4194300}, Excess <- 16, MaxOps <- 3, out <- shown, ops <- calls

(* An arbitrary map of points to points, outside the subgroup for most of them. *)
SomeEcHash == [p \in 0..39 |-> (7 * p + 3) % 40]
Payment == INSTANCE Crypto WITH
  l <- 5, Secrets <- {2, 8, 9}, Decoys <- {4, 11}, Prefixes <- {"p1", "p2"}, EcHash <- SomeEcHash,
  RingSizes <- {1, 2}, phase <- stage, out <- output

Rounds == INSTANCE HashRounds WITH
  Seeds <- {1, 2, 3}, JhLog <- 3, alg <- round_alg, r <- round

Streams == INSTANCE HashStreams WITH
  Algs <- {"skein", "groestl", "md5", "jh", "keccak", "blake256", "blake224", "chacha8", "hmac", "tree"},
  B <- 6, Field <- 2, CountMod <- 12, MaxMsg <- 76, OutLens <- {5, 6, 9, 13}, KeyLens <- {0, 3, 6, 9},
  MaxLeaves <- 33, Threads <- {"t1", "t2"}, None <- "none", Area <- 3, SeedLen <- 4,
  Requests <- {0, 2, 3, 4, 7}, MaxDraws <- 5

BitsOf(s) == [k \in DOMAIN s |-> {<<"bit", j>> : j \in {b \in 0..2 : (s[k] \div 2^b) % 2 = 1}}]
SomeMessages == {<<>>, BitsOf(<<5, 1, 2>>), BitsOf(<<6, 4, 1, 2, 1>>)}
KeySymmetry == Permutations(AesKeys)
Slow == INSTANCE SlowHash WITH
  BS <- 3, Keys <- AesKeys, Messages <- SomeMessages, MaxCipher <- 2, MaxRand <- 2, MaxLost <- 1,
  ctx <- context, sent <- ciphers, out <- answer,
  Word <- 16, Rows <- 4, Iter <- 12, Seeds <- {1, 2, 3, 6}, MaxHashes <- 2,
  v <- versions, phase <- step, i <- iteration

-----------------------------------------------------------------------------
Init ==
    /\ part \in Parts
    /\ OpsInit
    /\ Limb!Init /\ (part = "field" \/ \A h \in DOMAIN r : r[h] = Limb!fe_0)
    /\ Payment!Init /\ view.sec < spend.sec /\ spend.sec < txkey.sec
    /\ Rounds!Init /\ (part = "rounds" \/ round_alg = "columns")
    /\ Streams!StreamInit /\ Streams!PoolInit /\ (part = "streams" \/ alg = "jh")
    /\ Slow!ContextInit
    /\ Slow!Init

OpsPart == part = "ops" /\ UNCHANGED <<part, fieldVars, paymentVars, roundVars, streamVars, contextVars, slowVars>>
FieldPart == part = "field" /\ UNCHANGED <<part, opsVars, paymentVars, roundVars, streamVars, contextVars, slowVars>>
PaymentPart == part = "payment" /\ UNCHANGED <<part, opsVars, fieldVars, roundVars, streamVars, contextVars, slowVars>>
RoundsPart == part = "rounds" /\ UNCHANGED <<part, opsVars, fieldVars, paymentVars, streamVars, contextVars, slowVars>>
StreamsPart == part \in {"streams", "pool"} /\ UNCHANGED <<part, opsVars, fieldVars, paymentVars, roundVars, contextVars, slowVars>>
ContextPart == part = "context" /\ UNCHANGED <<part, opsVars, fieldVars, paymentVars, roundVars, streamVars, slowVars>>
SlowPart == part = "slow" /\ UNCHANGED <<part, opsVars, fieldVars, paymentVars, roundVars, streamVars, contextVars>>

Next ==
  \/ OpsPart /\ OpsNext
  \/ FieldPart /\ Limb!Next
  \/ PaymentPart /\ Payment!Next
  \/ RoundsPart /\ Rounds!Next
  \/ StreamsPart /\ part = "streams" /\ Streams!StreamNext
  \/ StreamsPart /\ part = "pool" /\ Streams!PoolNext
  \/ ContextPart /\ Slow!ContextNext
  \/ SlowPart /\ Slow!Next

Spec == Init /\ [][Next]_vars

-----------------------------------------------------------------------------
(* The cryptographic functions compute what their algorithms say, whatever   *)
(* path the code takes.  The point formulas are the group law, scalars come  *)
(* out canonical, encodings are unique and the limbs stay small; a receiver  *)
(* can spend what a sender derived and signatures verify, for their prefix   *)
(* only; the unrolled rounds and the cut and padded streams give the digests *)
(* of the specifications, tree_hash commits to every leaf once, no random    *)
(* byte is given out twice; a cipher context decrypts what it encrypted and  *)
(* frees what it allocated; and the versions of the slow hash agree.         *)
CryptoExact ==
  CASE part = "ops" -> GroupLaw /\ ScalarMultiples /\ SlideExact /\ EncodingUnique /\ FromFeOnCurve
                         /\ Canonical /\ ChecksCanonical
    [] part = "field" -> Limb!LimbsBounded
    [] part = "payment" -> Payment!ReceiverCanSpend /\ Payment!SignaturesVerify /\ Payment!BoundToPrefix
    [] part = "rounds" -> /\ Rounds!ThreefishMatches /\ Rounds!MD5Matches /\ Rounds!BlakeMatches
                          /\ Rounds!ChaChaMatches /\ Rounds!KeccakMatches /\ Rounds!ColumnsMatch
                          /\ Rounds!BuffersAlternate /\ Rounds!AesRoundMatches /\ Rounds!JhLayersMatch
                          /\ Rounds!FullDiffusion /\ Rounds!CipherMatches
    [] part = "streams" -> /\ Streams!SkeinDigest /\ Streams!GroestlDigest /\ Streams!JhDigest
                           /\ Streams!KeccakDigest /\ Streams!BlakeDigest /\ Streams!MD5Digest
                           /\ Streams!HmacDigest /\ Streams!ChaChaStream /\ Streams!TreeCommits
    [] part = "pool" -> Streams!OneAtATime /\ Streams!NoByteTwice
    [] part = "context" -> Slow!RoundTrip /\ Slow!KeyUsable /\ Slow!NothingLeft
    [] part = "slow" -> Slow!VersionsAgree /\ Slow!NoLeftover /\ Slow!ReleaseMatches

(* The limb vectors of crypto-ops.c implement residues modulo the prime:     *)
(* after any sequence of operations fe_add, fe_sub, fe_neg, fe_mul, fe_sq    *)
(* and fe_sq2 have given vectors for the residues the mathematical           *)
(* operations give, and fe_tobytes, fe_isnegative and fe_isnonzero show the  *)
(* canonical residue.                                                        *)
ImplementsField == Limb!ImplementsField
=============================================================================
