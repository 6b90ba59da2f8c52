-------------------------------- MODULE Field --------------------------------
(***************************************************************************)
(* What the field functions of crypto-ops.c promise: registers that hold   *)
(* residues modulo a prime P, and an output that shows the canonical       *)
(* residue, its lowest bit, or whether it is not zero.  FieldLimbs is the  *)
(* detailed specification that implements this one.                        *)
(***************************************************************************)
EXTENDS Integers

CONSTANTS
    P,         \* the modulus, 2^255 - 19 in the code
    Registers, \* the names of the fe variables
    Inputs     \* the residues the registers are loaded with

VARIABLES
    v,         \* [Registers -> 0..P-1]
    out        \* the last value an output function returned

vars == <<v, out>>

\* a * b modulo P by doubling, so that no intermediate value exceeds 3 P.
MulMod(a, b) ==
    LET times[n \in Nat] == IF n = 0 THEN 0 ELSE (2 * times[n \div 2] + a * (n % 2)) % P
    IN times[b]

Init == v \in [Registers -> Inputs] /\ out = 0

Set(h, x) == v' = [v EXCEPT ![h] = x] /\ UNCHANGED out

Add(h, f, g) == Set(h, (v[f] + v[g]) % P)
Sub(h, f, g) == Set(h, (v[f] - v[g]) % P)
Neg(h, f)    == Set(h, (- v[f]) % P)
Copy(h, f)   == Set(h, v[f])
Const(h)     == Set(h, 0) \/ Set(h, 1)
Mul(h, f, g) == Set(h, MulMod(v[f], v[g]))
Sq(h, f)     == Set(h, MulMod(v[f], v[f]))
Sq2(h, f)    == Set(h, (2 * MulMod(v[f], v[f])) % P)
Show(f)      == out' \in {v[f], v[f] % 2, IF v[f] = 0 THEN 0 ELSE 1} /\ UNCHANGED v

Next ==
    \E h, f, g \in Registers :
        \/ Add(h, f, g) \/ Sub(h, f, g) \/ Neg(h, f) \/ Copy(h, f) \/ Const(h)
        \/ Mul(h, f, g) \/ Sq(h, f) \/ Sq2(h, f) \/ Show(f)

Spec == Init /\ [][Next]_vars
==============================================================================
