------------------------------ MODULE FieldLimbs ------------------------------
(***************************************************************************)
(* The field arithmetic of crypto-ops.c.  An fe is a vector of signed      *)
(* limbs whose widths alternate between W and W - 1 bits (ten limbs of 26  *)
(* and 25 bits in the code, so that P = 2^255 - 19); additions do not      *)
(* carry, products carry once in a fixed order, and fe_tobytes finds the   *)
(* canonical residue.  The number of limbs L, the width W and the constant *)
(* C (19 in the code) are parameters, so that the carry chains can be run  *)
(* on vectors TLC can enumerate: two chains that start at limb 0 and limb  *)
(* L/2 - 1 and end at limb L - 1, whose carry returns to limb 0 times C.   *)
(***************************************************************************)
EXTENDS Integers, Sequences, SequencesExt

CONSTANTS
    L,         \* number of limbs, even and more than two
    W,         \* width of the even limbs; the odd ones have W - 1 bits
    C,         \* P = 2^(number of bits) - C
    Byte,      \* bits of a byte of the encoding
    Registers, \* the fe variables of a caller
    Inputs,    \* the residues loaded by fe_frombytes
    Excess,    \* what the last carry of a product adds to limb 1 at most
    MaxOps     \* how many operations a caller performs

VARIABLES
    r,         \* [Registers -> limb vectors]
    terms,     \* [Registers -> how many carried vectors a register sums]
    out,       \* the last value an output function returned
    ops        \* operations performed so far

vars == <<r, terms, out, ops>>

Limb == 0..L-1
Width(i) == IF i % 2 = 0 THEN W ELSE W - 1
Offset[i \in 0..L] == IF i = 0 THEN 0 ELSE Offset[i - 1] + Width(i - 1)
Prime == 2^Offset[L] - C

SumLimbs(f) == LET sum[i \in Limb] == f[i] + (IF i = 0 THEN 0 ELSE sum[i - 1]) IN sum[L - 1]
Value(f) == SumLimbs([i \in Limb |-> f[i] * 2^Offset[i]])

-------------------------------------------------------------------------------
(* Carries.                                                                 *)

\* Moves the part of h above limb i's width into the next limb; the last limb
\* carries into limb 0, times C.
Into(h, i, carry) ==
    LET j == (i + 1) % L
    IN [h EXCEPT ![i] = @ - carry * 2^Width(i),
                 ![j] = @ + (IF i = L - 1 THEN C ELSE 1) * carry]

RoundedCarry(h, i) == Into(h, i, (h[i] + 2^(Width(i) - 1)) \div 2^Width(i))

RoundedCarries(h, chain) ==
    LET run[k \in 0..Len(chain)] == IF k = 0 THEN h ELSE RoundedCarry(run[k - 1], chain[k])
    IN run[Len(chain)]

\* fe_mul, fe_sq and fe_sq2: limbs 0, 4, 1, 5, 2, 6, 3, 7, 4, 8, 9, 0 of ten.
ProductChain ==
    LET half == L \div 2 - 1
    IN FlattenSeq([k \in 1..half+1 |-> <<k - 1, k - 1 + half>>]) \o <<L - 1, 0>>

\* fe_frombytes: limbs 9, 1, 3, 5, 7, 0, 2, 4, 6, 8 of ten.
LoadChain ==
    <<L - 1>> \o [k \in 1..(L \div 2 - 1) |-> 2 * k - 1] \o [k \in 1..(L \div 2) |-> 2 * k - 2]

CarryProduct(h) == RoundedCarries(h, ProductChain)

-------------------------------------------------------------------------------
(* The functions.                                                           *)

fe_0 == [i \in Limb |-> 0]
fe_1 == [fe_0 EXCEPT ![0] = 1]
fe_add(f, g) == [i \in Limb |-> f[i] + g[i]]
fe_sub(f, g) == [i \in Limb |-> f[i] - g[i]]
fe_neg(f) == [i \in Limb |-> - f[i]]
fe_copy(f) == f
fe_cmov(f, g, b) == IF b = 1 THEN g ELSE f

\* load_3 and load_4 read whole bytes: limb i starts at the first byte boundary
\* at or above its offset, and is shifted by the difference.
Edge(i) == IF i = L THEN Offset[L] ELSE ((Offset[i] + Byte - 1) \div Byte) * Byte

load(s, i) == ((s \div 2^Edge(i)) % 2^(Edge(i + 1) - Edge(i))) * 2^(Edge(i) - Offset[i])

fe_frombytes(s) == RoundedCarries([i \in Limb |-> load(s, i)], LoadChain)

\* Variant: the products of two odd limbs are not doubled.
product_term_single(f, g, i, j) ==
    f[i] * g[j] * (IF i + j >= L THEN C ELSE 1)

\* f_i g_j lands on limb i + j: twice when both widths are the short ones, and
\* times C when it wraps around.
product_term(f, g, i, j) ==
    f[i] * g[j] * (IF i % 2 = 1 /\ j % 2 = 1 THEN 2 ELSE 1) * (IF i + j >= L THEN C ELSE 1)

products(f, g) ==
    [k \in Limb |-> SumLimbs([i \in Limb |-> product_term(f, g, i, (k - i) % L)])]

fe_mul(f, g) == CarryProduct(products(f, g))

\* The squares share their symmetric products: f_i f_j counts twice for i < j.
squares(f) ==
    [k \in Limb |-> SumLimbs([i \in Limb |->
        LET j == (k - i) % L
        IN IF i > j THEN 0 ELSE (IF i < j THEN 2 ELSE 1) * product_term(f, f, i, j)])]

fe_sq(f) == CarryProduct(squares(f))

fe_sq2(f) == LET s == squares(f) IN CarryProduct([i \in Limb |-> 2 * s[i]])

\* How often P fits: the estimate from the top limb is pushed through all limbs.
quotient(h) ==
    LET top == (C * h[L - 1] + 2^(Width(L - 1) - 1)) \div 2^Width(L - 1)
        q[i \in Limb] == (h[i] + (IF i = 0 THEN top ELSE q[i - 1])) \div 2^Width(i)
    IN q[L - 1]

\* The carries are plain and the one out of the last limb is dropped.
fe_tobytes(h) ==
    LET h0 == [h EXCEPT ![0] = @ + C * quotient(h)]
        carried[i \in Limb] == h0[i] + (IF i = 0 THEN 0 ELSE carried[i - 1] \div 2^Width(i - 1))
    IN Value([i \in Limb |-> carried[i] % 2^Width(i)])

fe_isnegative(f) == fe_tobytes(f) % 2

fe_isnonzero(f) == IF fe_tobytes(f) = 0 THEN 0 ELSE 1

-------------------------------------------------------------------------------
(* A caller: it may sum up to three carried vectors before it multiplies, as *)
(* the point formulas do.                                                    *)

Init ==
    /\ \E x \in [Registers -> Inputs] : r = [i \in Registers |-> fe_frombytes(x[i])]
    /\ terms = [i \in Registers |-> 1]
    /\ out = 0 /\ ops = 0

Step == ops < MaxOps /\ ops' = ops + 1

Store(h, x, n) ==
    /\ Step
    /\ r' = [r EXCEPT ![h] = x]
    /\ terms' = [terms EXCEPT ![h] = n]
    /\ UNCHANGED out

Add(h, f, g) == terms[f] + terms[g] <= 3 /\ Store(h, fe_add(r[f], r[g]), terms[f] + terms[g])
Sub(h, f, g) == terms[f] + terms[g] <= 3 /\ Store(h, fe_sub(r[f], r[g]), terms[f] + terms[g])
Neg(h, f)    == Store(h, fe_neg(r[f]), terms[f])
Copy(h, f)   == Store(h, fe_copy(r[f]), terms[f])
Cmov(h, g)   == \E b \in 0..1 : Store(h, fe_cmov(r[h], r[g], b), IF b = 1 THEN terms[g] ELSE terms[h])
Const(h)     == Store(h, fe_0, 1) \/ Store(h, fe_1, 1)
Mul(h, f, g) == Store(h, fe_mul(r[f], r[g]), 1)
Sq(h, f)     == Store(h, fe_sq(r[f]), 1)
Sq2(h, f)    == Store(h, fe_sq2(r[f]), 1)
Show(f)      == /\ Step /\ terms[f] <= 2
                /\ out' \in {fe_tobytes(r[f]), fe_isnegative(r[f]), fe_isnonzero(r[f])}
                /\ UNCHANGED <<r, terms>>
Finished     == ops = MaxOps /\ UNCHANGED vars

Next ==
    \/ \E h, f, g \in Registers : Add(h, f, g) \/ Sub(h, f, g) \/ Mul(h, f, g)
    \/ \E h, f \in Registers : Neg(h, f) \/ Copy(h, f) \/ Cmov(h, f) \/ Sq(h, f) \/ Sq2(h, f)
    \/ \E h \in Registers : Const(h) \/ Show(h)
    \/ Finished

Spec == Init /\ [][Next]_vars

-------------------------------------------------------------------------------
(* Properties.                                                              *)

\* The limbs stay as small as the "Postconditions" comments of crypto-ops.c say:
\* after a product every limb lies in its rounded range, except limb 1, which
\* the last carry can still enlarge by Excess (1 % of its range in the code),
\* and a sum of n carried vectors lies within n times that, after any sequence
\* of additions, subtractions and products.
LimbsBounded ==
    \A h \in Registers : \A i \in Limb :
        LET bound == terms[h] * (2^(Width(i) - 1) + (IF i = 1 THEN Excess ELSE 0))
        IN - bound <= r[h][i] /\ r[h][i] <= bound

ResidueField == INSTANCE Field WITH P <- Prime,
                                    v <- [h \in Registers |-> Value(r[h]) % Prime]

\* The limb vectors implement residues modulo P: every function of crypto-ops.c
\* returns a vector for the residue the mathematical operation gives, and
\* fe_tobytes, fe_isnegative and fe_isnonzero show the canonical residue.
ImplementsField == ResidueField!Spec
===============================================================================
