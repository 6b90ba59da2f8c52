---------------------------- MODULE HashStreams ----------------------------
(* The buffering, counting and padding around the compression functions: skein.c, groestl.c, jh.c,         *)
(* blake256.c, keccak.c and md5_l.inl, the HMAC constructions built on BLAKE and MD5, and chacha8.         *)
(* A compression is recorded, with the counters and flags it is given, in the trace h; a hash is right      *)
(* when its trace is the one the padding rule of the algorithm prescribes for the message.  Then tree_hash  *)
(* over the hashes of any number of leaves, and the pool of random bytes: a permutation like that of a      *)
(* sponge, read from the system in pieces, from which threads draw in steps under random_lock.              *)
(* Scaled: a block has B bytes (64 in the code), a length field Field bytes (8), and a counter word is a   *)
(* number modulo CountMod (2^32 bits), so that blocks fill up and counters wrap.                            *)
EXTENDS Integers, Sequences

CONSTANTS Algs, B, Field, CountMod, MaxMsg, OutLens, KeyLens,
          MaxLeaves,   \* leaves of the tree of hashes
          Threads, None,
          Area,        \* HASH_DATA_AREA
          SeedLen,     \* bytes drawn from the system
          Requests,    \* lengths asked for
          MaxDraws     \* permutations of the pool

VARIABLES alg, phase, msg, ctx, out,
          got,         \* bytes of the pool read from the system so far
          curstate, random_lock, draws,
          pc, need, result   \* per thread

streamVars == <<alg, phase, msg, ctx, out>>
poolVars == <<got, curstate, random_lock, draws, pc, need, result>>
vars == <<streamVars, poolVars>>

(* Bytes are terms.  Message bytes, the zero byte, the byte that starts the padding, a length. *)
M(i) == <<"m", i>>
Zero == <<"0">>
One == <<"80">>
Partial(i) == <<"partial", i>>
Padded(i) == <<"padded", i>>
Zeros(n) == [i \in 1..n |-> Zero]
LenByte(a) == <<"len", a>>

Front(s, n) == SubSeq(s, 1, n)
Drop(s, n) == SubSeq(s, n + 1, Len(s))
Block(s, size, i) == SubSeq(s, (i - 1) * size + 1, i * size)
IsPartial(s) == s # <<>> /\ s[Len(s)][1] = "partial"

Max2(a, b) == IF a > b THEN a ELSE b
Min2(a, b) == IF a < b THEN a ELSE b

-----------------------------------------------------------------------------
(* Skein.  T0 is the position, first, bitpad and final the flags of T1, b the buffered bytes (bCnt = Len(b)). *)

(* Init: up to 512 bits of output the 512-bit version, then the 1024-bit one. *)
SkeinBlock(outlen) == IF outlen <= B THEN B ELSE 2 * B

Skein_Start_New_Type(c, type) == [c EXCEPT !.T0 = 0, !.first = TRUE, !.final = type # "msg", !.bitpad = FALSE, !.type = type, !.b = <<>>]

(* Skein_512_Process_Block: every block advances the position and only the first one carries the flag. *)
Process_Block(c, blocks, byteCntAdd) ==
  LET n == Len(blocks) IN
  IF n = 0 THEN c
  ELSE [c EXCEPT !.T0 = @ + n * byteCntAdd, !.first = FALSE,
                 !.h = @ \o [i \in 1..n |-> [block |-> blocks[i], at |-> c.T0 + i * byteCntAdd, first |-> c.first /\ i = 1,
                                             final |-> c.final, bitpad |-> c.bitpad, type |-> c.type]]]

(* Skein_512_Init, Skein1024_Init: the configuration block, or the precomputed value it gives. *)
Skein_512_Init(outlen) ==
  Skein_Start_New_Type([T0 |-> 0, first |-> TRUE, final |-> FALSE, bitpad |-> FALSE, type |-> "cfg", b |-> <<>>, h |-> <<>>, outlen |-> outlen, size |-> SkeinBlock(outlen)], "msg")

Skein1024_Init(outlen) == Skein_512_Init(outlen)

Skein_Init(outlen) == IF SkeinBlock(outlen) = B THEN Skein_512_Init(outlen) ELSE Skein1024_Init(outlen)

(* Skein_512_Update, Skein1024_Update: the last block stays in the buffer even when it is full. *)
Skein_512_Update(c, m) ==
  LET size == c.size
      n == IF c.b = <<>> THEN 0 ELSE size - Len(c.b)
      buffered == IF c.b = <<>> THEN c ELSE [Process_Block(c, <<c.b \o Front(m, n)>>, size) EXCEPT !.b = <<>>]
      rest == Drop(m, n)
      full == IF Len(rest) > size THEN (Len(rest) - 1) \div size ELSE 0
  IN IF Len(m) + Len(c.b) <= size THEN [c EXCEPT !.b = @ \o m]
     ELSE [Process_Block(buffered, [i \in 1..full |-> Block(rest, size, i)], size) EXCEPT !.b = Drop(rest, full * size)]

(* The same steps with the constants of the wider block, which c.size holds. *)
Skein1024_Update(c, m) == Skein_512_Update(c, m)

Skein_Update(c, m) == IF c.size = B THEN Skein_512_Update(c, m) ELSE Skein1024_Update(c, m)

(* Update: a partial last byte is masked, padded and fed by itself. *)
SkeinUpdate(c, m) ==
  IF ~IsPartial(m) THEN Skein_Update(c, m)
  ELSE [Skein_Update(Skein_Update(c, Front(m, Len(m) - 1)), <<Padded(m[Len(m)][2])>>) EXCEPT !.bitpad = TRUE]

(* Skein_512_Final, Skein1024_Final: the padded last block, then the output in counter mode, always from the same key. *)
Skein_512_Final(c) ==
  LET last == Process_Block([c EXCEPT !.final = TRUE], <<c.b \o Zeros(c.size - Len(c.b))>>, Len(c.b))
      piece(i) == [j \in 1..Min2(c.size, c.outlen - i * c.size) |-> [key |-> last.h, counter |-> i, byte |-> j, at |-> 8]]
      output[i \in 0..3] == IF i * c.size >= c.outlen THEN <<>> ELSE piece(i) \o (IF i < 3 THEN output[i + 1] ELSE <<>>)
  IN output[0]

Skein1024_Final(c) == Skein_512_Final(c)

SkeinFinal(c) == IF c.size = B THEN Skein_512_Final(c) ELSE Skein1024_Final(c)

(* Reference: blocks of the message, the last one padded with zeros; their positions and flags. *)
SkeinRef(m, outlen) ==
  LET size == SkeinBlock(outlen)
      bits == IsPartial(m)
      data == IF bits THEN [m EXCEPT ![Len(m)] = Padded(m[Len(m)][2])] ELSE m
      n == Max2(1, (Len(m) + size - 1) \div size)
      padded == data \o Zeros(n * size - Len(data))
      h == [i \in 1..n |-> [block |-> Block(padded, size, i), at |-> Min2(i * size, Len(data)), first |-> i = 1,
                            final |-> i = n, bitpad |-> i = n /\ bits, type |-> "msg"]]
  IN [j \in 1..outlen |-> [key |-> h, counter |-> (j - 1) \div size, byte |-> ((j - 1) % size) + 1, at |-> 8]]

-----------------------------------------------------------------------------
(* Groestl. *)

GroestlInit == [buf |-> <<>>, c1 |-> 0, c2 |-> 0, bits |-> FALSE, h |-> <<>>]

(* Transform: full blocks only; the low counter word carries into the high one. *)
Transform(c, m) ==
  LET n == Len(m) \div B IN
  [c EXCEPT !.h = @ \o [i \in 1..n |-> Block(m, B, i)], !.c1 = (@ + n) % CountMod, !.c2 = @ + (c.c1 + n) \div CountMod]

GroestlUpdate(c, m) ==
  LET rem == IsPartial(m)
      bytes == IF rem THEN Front(m, Len(m) - 1) ELSE m
      index == IF c.buf = <<>> THEN 0 ELSE Min2(B - Len(c.buf), Len(bytes))
      filled == c.buf \o Front(bytes, index)
      flushed == IF c.buf = <<>> THEN c ELSE Transform([c EXCEPT !.buf = <<>>], filled)
      rest == Drop(bytes, index)
      bulk == Transform(flushed, rest)
      tail == Drop(rest, B * (Len(rest) \div B))
  IN IF c.buf # <<>> /\ Len(filled) < B
     THEN [c EXCEPT !.buf = filled \o (IF rem THEN <<m[Len(m)]>> ELSE <<>>), !.bits = rem]
     ELSE [bulk EXCEPT !.buf = tail \o (IF rem THEN <<m[Len(m)]>> ELSE <<>>), !.bits = rem]

(* Final: the padding may need a block of its own before the one with the number of blocks. *)
GroestlFinal(c) ==
  LET marked == IF c.bits THEN [c.buf EXCEPT ![Len(c.buf)] = Padded(@[2])] ELSE Append(c.buf, One)
      two == Len(marked) > B - Field
      first == IF two THEN Transform(c, marked \o Zeros(B - Len(marked))) ELSE c
      body == IF two THEN Zeros(B - Field) ELSE marked \o Zeros(B - Field - Len(marked))
      c1 == (first.c1 + 1) % CountMod
      c2 == IF c1 = 0 THEN first.c2 + 1 ELSE first.c2
  IN Transform(first, body \o <<LenByte(c2), LenByte(c1)>>).h

GroestlRef(m) ==
  LET marked == IF IsPartial(m) THEN [m EXCEPT ![Len(m)] = Padded(@[2])] ELSE Append(m, One)
      n == (Len(marked) + Field + B - 1) \div B
      padded == marked \o Zeros(n * B - Field - Len(marked)) \o <<LenByte(n \div CountMod), LenByte(n % CountMod)>>
  IN [i \in 1..n |-> Block(padded, B, i)]

-----------------------------------------------------------------------------
(* JH, used in one piece as jh_hash does: the buffer keeps what the last block left in it. *)

JhInit == [bytes |-> 0, part |-> FALSE, buf |-> Zeros(B), h |-> <<>>]

JhUpdate(c, m) ==
  LET part == IsPartial(m)
      n == (IF part THEN Len(m) - 1 ELSE Len(m)) \div B
      tail == Drop(m, n * B)
      last == IF n = 0 THEN c.buf ELSE Block(m, B, n)
  IN [bytes |-> IF part THEN Len(m) - 1 ELSE Len(m), part |-> part, h |-> c.h \o [i \in 1..n |-> Block(m, B, i)],
      buf |-> tail \o SubSeq(last, Len(tail) + 1, B)]

(* Final: a message that fills its last block gets one more block, any other gets two. *)
JhFinal(c) ==
  LET length == Zeros(B - Field) \o <<LenByte(c.bytes), <<"bits", c.part>>>>
      at == (c.bytes % B) + 1
      cleared == [i \in 1..B |-> IF i < at \/ (c.part /\ i = at) THEN c.buf[i] ELSE Zero]
      marked == [cleared EXCEPT ![at] = IF c.part THEN Padded(@[2]) ELSE One]
  IN IF c.bytes % B = 0 /\ ~c.part THEN Append(c.h, <<One>> \o Tail(length)) ELSE c.h \o <<marked, length>>

(* Reference: the bit one, zeros so that a whole block more is used, the length. *)
JhRef(m) ==
  LET part == IsPartial(m)
      bytes == IF part THEN Len(m) - 1 ELSE Len(m)
      marked == IF part THEN [m EXCEPT ![Len(m)] = Padded(@[2])] ELSE Append(m, One)
      n == (Len(m) + B - 1) \div B + 1
      padded == marked \o Zeros(n * B - Field - Len(marked)) \o <<LenByte(bytes), <<"bits", part>>>>
  IN [i \in 1..n |-> Block(padded, B, i)]

-----------------------------------------------------------------------------
(* keccak: the last byte of the padding may be the first one. *)
KeccakLast == <<"|80">>
KeccakBoth == <<"81">>

Keccak(m) ==
  LET n == Len(m) \div B
      tail == Drop(m, n * B)
      temp == [i \in 1..B |-> IF i <= Len(tail) THEN tail[i] ELSE IF i = Len(tail) + 1 THEN <<"01">> ELSE Zero]
  IN [i \in 1..n |-> Block(m, B, i)] \o <<[temp EXCEPT ![B] = IF @ = <<"01">> THEN KeccakBoth ELSE KeccakLast]>>

KeccakRef(m) ==
  LET n == Len(m) \div B + 1
      gap == n * B - Len(m)
      padded == m \o (IF gap = 1 THEN <<KeccakBoth>> ELSE << <<"01">> >> \o Zeros(gap - 2) \o <<KeccakLast>>)
  IN [i \in 1..n |-> Block(padded, B, i)]

-----------------------------------------------------------------------------
(* BLAKE.  t0 and t1 count the message bytes hashed; a block with only padding is compressed without them. *)

blake_init == [t0 |-> 0, t1 |-> 0, nullt |-> FALSE, buf |-> <<>>, h |-> <<>>]

blake256_compress(s, block) == [s EXCEPT !.h = Append(@, [block |-> block, t |-> IF s.nullt THEN <<>> ELSE <<s.t1, s.t0>>])]

(* One block: the counter first, then the compression. *)
blake_block(s, block) ==
  LET t0 == (s.t0 + B) % CountMod IN
  blake256_compress([s EXCEPT !.t0 = t0, !.t1 = IF t0 = 0 THEN @ + 1 ELSE @], block)

blake256_update(s, data) ==
  LET left == Len(s.buf)
      fill == B - left
      fills == left > 0 /\ Len(data) % B >= fill
      first == IF fills THEN blake_block(s, s.buf \o Front(data, fill)) ELSE s
      rest == IF fills THEN Drop(data, fill) ELSE data
      n == Len(rest) \div B
      bulk[i \in 0..n] == IF i = 0 THEN first ELSE blake_block(bulk[i - 1], Block(rest, B, i))
      tail == Drop(rest, n * B)
      kept == IF fills THEN <<>> ELSE s.buf
  IN [bulk[n] EXCEPT !.buf = IF tail = <<>> THEN <<>> ELSE kept \o tail]

minus(s, n) == [s EXCEPT !.t0 = (@ + CountMod - n) % CountMod]

Padding(n) == <<One>> \o Zeros(n - 1)

(* blake256_final_h: what the padding adds to the counter is taken off before it is fed. *)
blake256_final_h(s, pa, pb) ==
  LET buflen == Len(s.buf)
      room == B - Field - 1
      lo == (s.t0 + buflen) % CountMod
      hi == IF lo < buflen THEN s.t1 + 1 ELSE s.t1
      one == blake256_update(minus(s, 1), <<pa>>)
      enough == blake256_update(minus([s EXCEPT !.nullt = IF buflen = 0 THEN TRUE ELSE @], room - buflen), Padding(room - buflen))
      split == blake256_update(minus(blake256_update(minus(s, B - buflen), Padding(B - buflen)), room), Zeros(room))
      tailed == minus(blake256_update(IF buflen < room THEN enough ELSE [split EXCEPT !.nullt = TRUE], <<pb>>), 1)
  IN blake256_update(minus(IF buflen = room THEN one ELSE tailed, Field), <<LenByte(hi), LenByte(lo)>>).h

Last256 == <<"01">>
Both256 == <<"81">>
blake256_final(s) == [v |-> 256, h |-> blake256_final_h(s, Both256, Last256)]
blake224_final(s) == [v |-> 224, h |-> blake256_final_h(s, One, Zero)]
blake256_hash(m) == blake256_final(blake256_update(blake_init, m))
blake224_hash(m) == blake224_final(blake256_update(blake_init, m))

(* Reference: 1, zeros, 1 (256) or 0 (224), the length; a block's counter is the number of message bytes up to its end. *)
BlakeRef(v, m) ==
  LET n == (Len(m) + 1 + Field + B - 1) \div B
      gap == n * B - Field - Len(m)
      last == IF v = 256 THEN Last256 ELSE Zero
      only == IF v = 256 THEN Both256 ELSE One
      pair(k) == <<k \div CountMod, k % CountMod>>
      padded == m \o (IF gap = 1 THEN <<only>> ELSE <<One>> \o Zeros(gap - 2) \o <<last>>) \o <<LenByte(Len(m) \div CountMod), LenByte(Len(m) % CountMod)>>
  IN [v |-> v, h |-> [i \in 1..n |-> [block |-> Block(padded, B, i), t |-> IF (i - 1) * B >= Len(m) THEN <<>> ELSE pair(Min2(i * B, Len(m)))]]]

-----------------------------------------------------------------------------
(* MD5.  The buffer is found by the low counter word; the counter has two words. *)

MD5Init == [c0 |-> 0, c1 |-> 0, buf |-> Zeros(B), h |-> <<>>]

MD5Count(c, n) ==
  LET low == n % CountMod
      c0 == (c.c0 + low) % CountMod
  IN [c EXCEPT !.c0 = c0, !.c1 = @ + (IF c0 < low THEN 1 ELSE 0) + n \div CountMod]

MD5Update(c, m) ==
  LET index == c.c0 % B
      partLen == B - index
      n == IF Len(m) < partLen THEN 0 ELSE (Len(m) - partLen) \div B
      rest == IF Len(m) < partLen THEN m ELSE Drop(m, partLen + n * B)
      at == IF Len(m) < partLen THEN index ELSE 0
      full == Front(c.buf, index) \o Front(m, partLen)
      base == IF Len(m) < partLen THEN c.buf ELSE full
  IN [MD5Count(c, Len(m)) EXCEPT
       !.h = IF Len(m) < partLen THEN @ ELSE @ \o <<full>> \o [i \in 1..n |-> Block(Drop(m, partLen), B, i)],
       !.buf = Front(base, at) \o rest \o SubSeq(base, at + Len(rest) + 1, B)]

MD5Final(c) ==
  LET index == c.c0 % B
      padLen == IF index < B - Field THEN B - Field - index ELSE 2 * B - Field - index
  IN MD5Update(MD5Update(c, Padding(padLen)), <<LenByte(c.c0), LenByte(c.c1)>>).h

MD5Ref(m) ==
  LET n == (Len(m) + 1 + Field + B - 1) \div B
      padded == Append(m, One) \o Zeros(n * B - Field - Len(m) - 1) \o <<LenByte(Len(m) % CountMod), LenByte(Len(m) \div CountMod)>>
  IN [i \in 1..n |-> Block(padded, B, i)]

-----------------------------------------------------------------------------
(* HMAC.  A digest is fed to the next hash as bytes that name it. *)

DigestBytes(d, n) == [i \in 1..n |-> <<"digest", d, i>>]
DigestLen == [md5 |-> 2, blake256 |-> 4, blake224 |-> 3]
Key(n) == [i \in 1..n |-> <<"key", i>>]
Pad(name, key) == [i \in 1..B |-> <<name, IF i <= Len(key) THEN key[i] ELSE Zero>>]

(* hmac_blake256_init: a long key is replaced by its hash. *)
hmac_blake256_init(k) ==
  LET key == IF Len(k) > B THEN DigestBytes(blake256_hash(k), DigestLen.blake256) ELSE k
  IN [inner |-> blake256_update(blake_init, Pad("36", key)), outer |-> blake256_update(blake_init, Pad("5c", key))]

(* hmac_blake224_init hashes a long key with blake256_hash and keeps 28 bytes of it. *)
hmac_blake224_init(k) ==
  LET key == IF Len(k) > B THEN DigestBytes(blake256_hash(k), DigestLen.blake224) ELSE k
  IN [inner |-> blake256_update(blake_init, Pad("36", key)), outer |-> blake256_update(blake_init, Pad("5c", key))]

hmac_blake_update(s, m) == [s EXCEPT !.inner = blake256_update(@, m)]
hmac_blake256_final(s) == blake256_final(blake256_update(s.outer, DigestBytes(blake256_final(s.inner), DigestLen.blake256)))
hmac_blake224_final(s) == blake224_final(blake256_update(s.outer, DigestBytes(blake224_final(s.inner), DigestLen.blake224)))
hmac_blake256_hash(k, m) == hmac_blake256_final(hmac_blake_update(hmac_blake256_init(k), m))
hmac_blake224_hash(k, m) == hmac_blake224_final(hmac_blake_update(hmac_blake224_init(k), m))

md5_key(k) == IF Len(k) > B THEN DigestBytes(MD5Final(MD5Update(MD5Init, k)), DigestLen.md5) ELSE k

hmac_md5_init(k) == [ictx |-> MD5Update(MD5Init, Pad("36", md5_key(k))), octx |-> MD5Update(MD5Init, Pad("5c", md5_key(k)))]

(* The saved state is the chaining value alone. *)
hmac_md5_precalc(k) == [istate |-> hmac_md5_init(k).ictx.h, ostate |-> hmac_md5_init(k).octx.h]

hmac_md5_import(st) == [ictx |-> [MD5Init EXCEPT !.h = st.istate, !.c0 = B], octx |-> [MD5Init EXCEPT !.h = st.ostate, !.c0 = B]]

hmac_md5_final(s) == MD5Final(MD5Update(s.octx, DigestBytes(MD5Final(s.ictx), DigestLen.md5)))

hmac_md5(m, k) ==
  LET digest == MD5Final(MD5Update(MD5Update(MD5Init, Pad("36", md5_key(k))), m))
  IN MD5Final(MD5Update(MD5Update(MD5Init, Pad("5c", md5_key(k))), DigestBytes(digest, DigestLen.md5)))

(* Reference (RFC 2104): H(K xor opad, H(K xor ipad, text)), with K replaced by H(K) when it is longer than a block. *)
HmacRef(H(_), n, k, m) ==
  LET key == IF Len(k) > B THEN DigestBytes(H(k), n) ELSE k
  IN H(Pad("5c", key) \o DigestBytes(H(Pad("36", key) \o m), n))

-----------------------------------------------------------------------------
(* chacha8: every byte is xored with the byte of the key stream that its block counter and offset select. *)

Undefined == <<"undefined">>

chacha8(m) ==
  LET cipher[n \in 0..Len(m)] ==      \* n bytes of the message are left, j the two counter words
        LET done == Len(m) - n
            j == <<(done \div B) \div CountMod, (done \div B) % CountMod>>
            data == IF n < B THEN Drop(m, done) \o [i \in 1..(B - n) |-> Undefined] ELSE SubSeq(m, done + 1, done + B)
            x == [i \in 1..B |-> <<"xor", data[i], j, i - 1>>]
        IN IF n = 0 THEN <<>> ELSE IF n <= B THEN Front(x, n) ELSE x \o cipher[n - B]
  IN cipher[Len(m)]

ChaChaRef(m) == [i \in 1..Len(m) |-> <<"xor", m[i], <<((i - 1) \div B) \div CountMod, ((i - 1) \div B) % CountMod>>, (i - 1) % B>>]

-----------------------------------------------------------------------------
(* The tree of hashes. *)

cn_fast_hash(a, b) == <<"h", a, b>>

(* tree_hash_cnt: the bits of count - 1 decide, the largest power of two below count. *)
tree_hash_cnt(n) ==
  LET halves[t \in 0..MaxLeaves] == IF t = 0 THEN 1 ELSE LET was == halves[t \div 2] IN was + 1
  IN 2^(halves[n - 1] - 2)

Leaf(n) == <<"leaf", n>>

(* tree_hash: the first leaves are copied so that a power of two is need after pairing the others; then level by level. *)
tree_hash(n) ==
  IF n = 1 THEN Leaf(0) ELSE IF n = 2 THEN cn_fast_hash(Leaf(0), Leaf(1))
  ELSE LET cnt == tree_hash_cnt(n)
           from == 2 * cnt - n
           ints == [j \in 0..(cnt - 1) |-> IF j < from THEN Leaf(j) ELSE cn_fast_hash(Leaf(2 * j - from), Leaf(2 * j - from + 1))]
           up[c \in 1..cnt] == IF c = cnt THEN ints ELSE LET was == up[2 * c] IN [j \in 0..(c - 1) |-> cn_fast_hash(was[2 * j], was[2 * j + 1])]
       IN up[1][0]

-----------------------------------------------------------------------------
(* Piece by piece for the hashes whose Update may be called again, in one piece for the others. *)
Piecewise == {"skein", "groestl", "md5"}

NoOut == <<>>

StreamInit ==
  /\ alg \in Algs
  /\ phase = "open" /\ msg = <<>> /\ out = NoOut
  /\ ctx \in CASE alg = "skein" -> {Skein_Init(n) : n \in OutLens} [] alg = "groestl" -> {GroestlInit} [] alg = "md5" -> {MD5Init}
               [] alg = "jh" -> {JhInit} [] alg = "hmac" -> {Key(n) : n \in KeyLens} [] OTHER -> {<<>>}

(* The next n bytes of the message, the last of them partial or not. *)
Piece(n, part) == [i \in 1..n |-> IF part /\ i = n THEN Partial(Len(msg) + i) ELSE M(Len(msg) + i)]

Update(n, part) ==
  /\ phase = "open" /\ Len(msg) + n <= MaxMsg
  /\ alg \notin Piecewise => msg = <<>>
  /\ part => n > 0 /\ alg \in {"skein", "groestl", "jh"}
  /\ alg = "tree" => n \in 1..MaxLeaves
  /\ LET m == Piece(n, part) IN
     /\ msg' = msg \o m
     /\ ctx' = CASE alg = "skein" -> SkeinUpdate(ctx, m) [] alg = "groestl" -> GroestlUpdate(ctx, m) [] alg = "md5" -> MD5Update(ctx, m)
                 [] alg = "jh" -> JhUpdate(ctx, m) [] OTHER -> ctx
  /\ phase' = IF part \/ alg \notin Piecewise THEN "closed" ELSE "open"
  /\ UNCHANGED <<alg, out, poolVars>>

Final ==
  /\ phase \in (IF alg \in Piecewise THEN {"open", "closed"} ELSE {"closed"})
  /\ out' = CASE alg = "skein" -> SkeinFinal(ctx) [] alg = "groestl" -> GroestlFinal(ctx) [] alg = "md5" -> MD5Final(ctx) [] alg = "jh" -> JhFinal(ctx)
              [] alg = "keccak" -> Keccak(msg) [] alg = "blake256" -> blake256_hash(msg) [] alg = "blake224" -> blake224_hash(msg) [] alg = "chacha8" -> chacha8(msg)
              [] alg = "tree" -> tree_hash(Len(msg))
              [] OTHER -> [blake256 |-> hmac_blake256_hash(ctx, msg), blake224 |-> hmac_blake224_hash(ctx, msg), md5 |-> hmac_md5(msg, ctx),
                           steps |-> hmac_md5_final([hmac_md5_init(ctx) EXCEPT !.ictx = MD5Update(@, msg)]),
                           saved |-> hmac_md5_final([hmac_md5_import(hmac_md5_precalc(ctx)) EXCEPT !.ictx = MD5Update(@, msg)])]
  /\ phase' = "done"
  /\ UNCHANGED <<alg, msg, ctx, poolVars>>

StreamNext ==
  \/ \E n \in 0..MaxMsg, part \in BOOLEAN : Update(n, part)
  \/ Final
  \/ phase = "done" /\ UNCHANGED vars

-----------------------------------------------------------------------------
(* The pool of random bytes. *)

(* generate_system_random_bytes: a read may be interrupted, short or complete. *)
generate_system_random_bytes ==
  /\ got < SeedLen /\ curstate = 0
  /\ \E res \in -1..(SeedLen - got) :
       /\ res # 0
       /\ got' = IF res < 0 THEN got ELSE got + res
  /\ UNCHANGED <<streamVars, curstate, random_lock, draws, pc, need, result>>

(* init_random: a constructor, before any thread. *)
init_random ==
  /\ got = SeedLen /\ curstate = 0 /\ curstate' = 1
  /\ UNCHANGED <<streamVars, got, random_lock, draws, pc, need, result>>

(* crypto::rand, and the operations that draw scalars: the lock, then generate_random_bytes. *)
rand(t) ==
  /\ curstate # 0 /\ pc[t] = "idle" /\ draws < MaxDraws
  /\ random_lock = None /\ random_lock' = t
  /\ \E n \in Requests : need' = [need EXCEPT ![t] = n]
  /\ pc' = [pc EXCEPT ![t] = "enter"]
  /\ result' = [result EXCEPT ![t] = <<>>]
  /\ UNCHANGED <<streamVars, got, curstate, draws>>

Enter(t) ==
  /\ pc[t] = "enter"
  /\ curstate' = 2
  /\ pc' = [pc EXCEPT ![t] = IF need[t] = 0 THEN "leave" ELSE "permute"]
  /\ UNCHANGED <<streamVars, got, random_lock, draws, need, result>>

Permute(t) ==
  /\ pc[t] = "permute"
  /\ draws' = draws + 1
  /\ pc' = [pc EXCEPT ![t] = "copy"]
  /\ UNCHANGED <<streamVars, got, curstate, random_lock, need, result>>

Copy(t) ==
  /\ pc[t] = "copy"
  /\ LET n == IF need[t] <= Area THEN need[t] ELSE Area IN
     /\ result' = [result EXCEPT ![t] = @ \o [k \in 1..n |-> <<draws, k>>]]
     /\ need' = [need EXCEPT ![t] = @ - n]
     /\ pc' = [pc EXCEPT ![t] = IF need[t] <= Area THEN "leave" ELSE "permute"]
  /\ UNCHANGED <<streamVars, got, curstate, random_lock, draws>>

Leave(t) ==
  /\ pc[t] = "leave"
  /\ curstate' = 1 /\ random_lock' = None
  /\ pc' = [pc EXCEPT ![t] = "idle"]
  /\ UNCHANGED <<streamVars, got, draws, need, result>>

PoolInit ==
  /\ got = 0 /\ curstate = 0 /\ random_lock = None /\ draws = 0
  /\ pc = [t \in Threads |-> "idle"] /\ need = [t \in Threads |-> 0] /\ result = [t \in Threads |-> <<>>]

PoolNext ==
  \/ generate_system_random_bytes \/ init_random
  \/ \E t \in Threads : rand(t) \/ Enter(t) \/ Permute(t) \/ Copy(t) \/ Leave(t)
  \/ draws >= MaxDraws /\ random_lock = None /\ UNCHANGED vars

-----------------------------------------------------------------------------
(* Skein_512_Update, Skein_512_Final: however the message is cut into pieces, the blocks, their positions and their flags, and the bytes of the output, are those of the message as a whole. *)
SkeinDigest == (alg = "skein" /\ phase = "done") => out = SkeinRef(msg, ctx.outlen)

(* Groestl Update and Final: the padding, one block or two, and the number of blocks, also when the low counter word wraps. *)
GroestlDigest == (alg = "groestl" /\ phase = "done") => out = GroestlRef(msg)

(* jh_hash: nothing of an earlier block is left in the padded one. *)
JhDigest == (alg = "jh" /\ phase = "done") => out = JhRef(msg)

(* keccak: both ends of the padding survive when they fall into one byte. *)
KeccakDigest == (alg = "keccak" /\ phase = "done") => out = KeccakRef(msg)

(* blake256_final_h: the counter of every block is the number of message bytes up to its end and is left out for a block of padding only, also when the subtractions wrap. *)
BlakeDigest ==
  /\ (alg = "blake256" /\ phase = "done") => out = BlakeRef(256, msg)
  /\ (alg = "blake224" /\ phase = "done") => out = BlakeRef(224, msg)

(* MD5Update, MD5Final: the digest does not depend on the cutting, and the length is right when the low word wraps. *)
MD5Digest == (alg = "md5" /\ phase = "done") => out = MD5Ref(msg)

(* hmac_md5, hmac_blake256_hash: RFC 2104; the state saved by hmac_md5_precalc gives what hmac_md5_init gives. *)
HmacDigest ==
  (alg = "hmac" /\ phase = "done") =>
    /\ out.blake256 = HmacRef(LAMBDA m : BlakeRef(256, m), DigestLen.blake256, ctx, msg)
    /\ out.md5 = HmacRef(MD5Ref, DigestLen.md5, ctx, msg)
    /\ out.steps = out.md5 /\ out.saved = out.md5
    /\ Len(ctx) <= B => out.blake224 = HmacRef(LAMBDA m : BlakeRef(224, m), DigestLen.blake224, ctx, msg)

(* chacha8: as many bytes come out as went in, each under its own key stream byte, nothing of the scratch block among them. *)
ChaChaStream == (alg = "chacha8" /\ phase = "done") => out = ChaChaRef(msg)

(* One level of nodes taken apart, and all levels. *)
Expand(s) == LET parts == [k \in DOMAIN s |-> IF s[k][1] = "h" THEN <<s[k][2], s[k][3]>> ELSE <<s[k]>>]
                 cat[n \in 0..Len(s)] == IF n = 0 THEN <<>> ELSE LET was == cat[n - 1] IN was \o parts[n]
             IN cat[Len(s)]
AllLeaves(root) == LET level[d \in 0..6] == IF d = 0 THEN <<root>> ELSE LET was == level[d - 1] IN Expand(was) IN level[6]

(* tree_hash commits to every transaction exactly once, in order, for every count; and tree_hash_cnt satisfies its assertions. *)
TreeCommits ==
  (alg = "tree" /\ phase = "done") =>
    /\ AllLeaves(out) = [k \in 1..Len(msg) |-> Leaf(k - 1)]
    /\ Len(msg) >= 3 => LET cnt == tree_hash_cnt(Len(msg)) IN 2 * cnt >= Len(msg) /\ cnt < Len(msg)

(* The assertions of generate_random_bytes, "To catch thread safety problems": on entry the generator is free, on leaving it is still this thread's. *)
OneAtATime == \A t \in Threads : (pc[t] = "enter" => curstate = 1) /\ (pc[t] = "leave" => curstate = 2)

(* No byte of the pool is given out twice, to one thread or to two: every byte of every result has its own permutation and position, and position within the part of the state that may be shown. *)
NoByteTwice ==
  /\ \A t \in Threads : \A k, n \in DOMAIN result[t] : result[t][k][2] <= Area /\ (k # n => result[t][k] # result[t][n])
  /\ \A t, u \in Threads : t # u => \A k \in DOMAIN result[t], n \in DOMAIN result[u] : result[t][k] # result[u][n]
=============================================================================
