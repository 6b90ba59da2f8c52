-------------------------------- MODULE Crypto --------------------------------
(***************************************************************************)
(* The key and signature functions of crypto.cpp: keys, key derivation     *)
(* between a sender and a receiver, one-time keys, key images, signatures  *)
(* and ring signatures.  The curve group is cyclic of order 8 l, so a      *)
(* point is its logarithm, a number below 8 l, and the base point G is 8;  *)
(* CryptoOps shows that the point and scalar functions of crypto-ops.c     *)
(* behave like this.  cn_fast_hash is an oracle that answers each new      *)
(* question with a fresh value.                                            *)
(***************************************************************************)
EXTENDS Integers, Sequences, FiniteSets

CONSTANTS
    l,         \* order of the base point, a prime
    Secrets,   \* random scalars drawn for keys
    Decoys,    \* other public keys of a ring, any points of the curve
    Prefixes,  \* transaction prefix hashes
    EcHash,    \* [points -> points], the map behind hash_to_ec before mul8
    RingSizes  \* numbers of members of a ring

VARIABLES
    phase,     \* "keys", "sent", "signed", "checked"
    hs,        \* answers of the hash oracle so far
    view, spend, txkey,  \* the receiver's two key pairs and the sender's
    out,       \* the output: index, public key of the sender, secret key of the receiver
    sent,      \* what is signed: prefix, ring, position of the real key, image
    sig,       \* the signatures
    ok         \* the answer of the last check

vars == <<phase, hs, view, spend, txkey, out, sent, sig, ok>>

Scalar == 0..l-1
G == 8
None == <<>>

sc_reduce32(a) == a % l
sc_check(a) == a \in Scalar
sc_add(a, b) == (a + b) % l
sc_sub(a, b) == (a - b) % l
sc_mulsub(a, b, c) == (c - a * b) % l
scalarmult(a, p) == (a * p) % (8 * l)
ge_add(p, q) == (p + q) % (8 * l)
ge_mul8(p) == (8 * p) % (8 * l)

\* Answers that the oracle may give to question q: the recorded one, or a value
\* not given before.
hash_to_scalar(q) == IF q \in DOMAIN hs THEN {hs[q]} ELSE Scalar \ {hs[x] : x \in DOMAIN hs}
Record(q, h) == hs' = [x \in DOMAIN hs \cup {q} |-> IF x = q THEN h ELSE hs[x]]

-------------------------------------------------------------------------------
(* Keys.                                                                     *)

generate_keys(rng) == [sec |-> sc_reduce32(rng), pub |-> scalarmult(sc_reduce32(rng), G)]
secret_key_to_public_key(sec) == scalarmult(sec, G)

generate_key_derivation(key1, key2) == ge_mul8(scalarmult(key2, key1))

\* The question that derivation_to_scalar asks; output_index is a varint.
derivation_to_scalar(derivation, output_index) == <<"derive", derivation, output_index>>

derive_public_key(h, base) == ge_add(base, scalarmult(h, G))

derive_secret_key(h, base) == sc_add(base, h)

hash_to_ec(key) == ge_mul8(EcHash[key])

generate_key_image(pub, sec) == scalarmult(sec, hash_to_ec(pub))

-------------------------------------------------------------------------------
(* Signatures.                                                               *)

\* a c + b B and the same with precomputed multiples of another point.
double_scalarmult(a, p, b, q) == ge_add(scalarmult(a, p), scalarmult(b, q))

\* s_comm and rs_comm: what is hashed to the challenge.
CommSingle(prefix_hash, pub, comm) == <<"sig", prefix_hash, pub, comm>>
CommRing(prefix_hash, ab) == <<"ring", prefix_hash, ab>>

Response(c, sec, k) == sc_mulsub(c, sec, k)

\* Commitments of a ring: the real member uses its nonce, the others their
\* random challenge and response.
RingComm(ring, image, s) ==
    [i \in DOMAIN ring |->
        <<double_scalarmult(s[i].c, ring[i], s[i].r, G),
          double_scalarmult(s[i].r, hash_to_ec(ring[i]), s[i].c, image)>>]

SumC(s) == LET sum[i \in 0..Len(s)] == IF i = 0 THEN 0 ELSE sc_add(sum[i - 1], s[i].c) IN sum[Len(s)]

NoSig == [c |-> 0, r |-> 0]

\* All results of generate_ring_signature for one ring, nonce k and random
\* signatures rnd of the other members; h answers the challenge question.
RingQuestion(prefix, ring, image, real, k, rnd) ==
    CommRing(prefix, [RingComm(ring, image, rnd) EXCEPT
                          ![real] = <<scalarmult(k, G), scalarmult(k, hash_to_ec(ring[real]))>>])

generate_ring_signature(h, sec, real, k, rnd) ==
    LET c == sc_sub(h, SumC([rnd EXCEPT ![real] = NoSig]))
    IN [rnd EXCEPT ![real] = [c |-> c, r |-> Response(c, sec, k)]]

CheckQuestion(prefix, ring, image, s) == CommRing(prefix, RingComm(ring, image, s))

check_ring_signature(h, s) ==
    /\ \A i \in DOMAIN s : sc_check(s[i].c) /\ sc_check(s[i].r)
    /\ sc_sub(h, SumC(s)) = 0

-------------------------------------------------------------------------------
(* A payment: the receiver's keys, the sender's output, the receiver's       *)
(* spending with a ring, and a verifier.                                     *)

Init ==
    /\ phase = "keys" /\ hs = [x \in {} |-> 0]
    /\ view \in {generate_keys(s) : s \in Secrets}
    /\ spend \in {generate_keys(s) : s \in Secrets}
    /\ txkey \in {generate_keys(s) : s \in Secrets}
    /\ out = None /\ sent = None /\ sig = <<>> /\ ok = FALSE

\* The sender derives with the view key, the receiver with the transaction key.
Pay ==
    /\ phase = "keys"
    /\ \E index \in 0..1 :
        LET send == generate_key_derivation(view.pub, txkey.sec)
            receive == generate_key_derivation(txkey.pub, view.sec)
            q == derivation_to_scalar(send, index)
        IN \E h \in hash_to_scalar(q) :
            /\ Record(q, h)
            /\ out' = [pub |-> derive_public_key(h, spend.pub),
                       sec |-> derive_secret_key(h, spend.sec),
                       agreed |-> send = receive]
    /\ phase' = "sent"
    /\ UNCHANGED <<view, spend, txkey, sent, sig, ok>>

\* A ring with the output at any position among decoys.
SignRing ==
    /\ phase = "sent"
    /\ \E n \in RingSizes, prefix \in Prefixes : \E real \in 1..n, others \in [1..n -> Decoys] :
        LET ring == [others EXCEPT ![real] = out.pub]
            image == generate_key_image(out.pub, out.sec)
        IN \E k \in Scalar, rnd \in [1..n -> [c : Scalar, r : {1}]] :
            /\ rnd[real] = [c |-> 0, r |-> 1]
            /\ LET q == RingQuestion(prefix, ring, image, real, k, rnd)
               IN \E h \in hash_to_scalar(q) :
                    /\ Record(q, h)
                    /\ sig' = generate_ring_signature(h, out.sec, real, k, rnd)
            /\ sent' = [kind |-> "ring", prefix |-> prefix, ring |-> ring, image |-> image]
    /\ phase' = "signed"
    /\ UNCHANGED <<view, spend, txkey, out, ok>>

CheckRing ==
    /\ phase = "signed" /\ sent.kind = "ring"
    /\ \E prefix \in Prefixes :
        LET q == CheckQuestion(prefix, sent.ring, sent.image, sig)
        IN \E h \in hash_to_scalar(q) :
            /\ Record(q, h)
            /\ ok' = check_ring_signature(h, sig)
            /\ sent' = [sent EXCEPT !.kind = IF prefix = sent.prefix THEN "same" ELSE "other"]
    /\ phase' = "checked"
    /\ UNCHANGED <<view, spend, txkey, out, sig>>

\* generate_signature with the one-time key: k G committed, one challenge.
generate_signature ==
    /\ phase = "sent"
    /\ \E k \in Scalar, prefix \in Prefixes :
        LET q == CommSingle(prefix, out.pub, scalarmult(k, G))
        IN \E h \in hash_to_scalar(q) :
            /\ Record(q, h)
            /\ sig' = <<[c |-> h, r |-> Response(h, out.sec, k)]>>
            /\ sent' = [kind |-> "single", prefix |-> prefix, ring |-> <<out.pub>>, image |-> 0]
    /\ phase' = "signed"
    /\ UNCHANGED <<view, spend, txkey, out, ok>>

check_signature ==
    /\ phase = "signed" /\ sent.kind = "single"
    /\ \E prefix \in Prefixes :
        LET q == CommSingle(prefix, out.pub, double_scalarmult(sig[1].c, out.pub, sig[1].r, G))
        IN \E h \in hash_to_scalar(q) :
            /\ Record(q, h)
            /\ ok' = (sc_check(sig[1].c) /\ sc_check(sig[1].r) /\ sc_sub(h, sig[1].c) = 0)
            /\ sent' = [sent EXCEPT !.kind = IF prefix = sent.prefix THEN "same" ELSE "other"]
    /\ phase' = "checked"
    /\ UNCHANGED <<view, spend, txkey, out, sig>>

Next ==
    \/ Pay \/ SignRing \/ CheckRing \/ generate_signature \/ check_signature
    \/ phase = "checked" /\ UNCHANGED vars

Spec == Init /\ [][Next]_vars

-------------------------------------------------------------------------------
(* Properties.                                                              *)

\* Sender and receiver derive the same secret, and the secret key the receiver
\* derives is the one of the public key the sender put into the output.
ReceiverCanSpend ==
    phase # "keys" => out.agreed /\ secret_key_to_public_key(out.sec) = out.pub

\* Every signature that generate_signature or generate_ring_signature makes is
\* accepted, whatever the ring, the position of the real key, the nonce and the
\* random values, decoys outside the subgroup of the base point included.
SignaturesVerify == phase = "checked" /\ sent.kind = "same" => ok

\* A signature is bound to the prefix it was made for: checked against another
\* prefix, whose challenge is another hash, it is refused.
BoundToPrefix == phase = "checked" /\ sent.kind = "other" => ~ ok
===============================================================================
