------------------------------ MODULE SlowHash ------------------------------
(* cn_slow_hash three times in step: with the AES instructions, with the table round (both over the        *)
(* thread's scratchpad hp_state), and the portable version over an array on the stack.  The scratchpad      *)
(* starts with whatever was in the memory.  Around it, the scratchpad's allocation by a thread that may     *)
(* allocate it first, hash without it, and free it.  Scaled: blocks of two half words below Word, Rows of   *)
(* two blocks, Iter iterations; the cipher round and its ten-fold are some mixing functions (HashRounds shows *)
(* that the versions of the round agree).                                                                   *)
EXTENDS Integers, Sequences, FiniteSets

CONSTANTS Word,        \* half words are below this, a power of two
          Rows,        \* MEMORY / INIT_SIZE_BYTE, a power of two
          Iter,        \* ITER / 2
          Seeds,       \* inputs
          MaxHashes    \* hashes of one thread

VARIABLES v,           \* version -> its buffers
          phase, i, seed,
          hp_state,    \* how the scratchpad was allocated, or "NULL"
          hp_allocated, hashes, freed

vars == <<v, phase, i, seed, hp_state, hp_allocated, hashes, freed>>

Versions == {"instructions", "tables", "portable"}
INIT_SIZE_BLK == 2
Blocks == Rows * INIT_SIZE_BLK

BitOf(x, k) == (x \div 2^k) % 2
XorWord(a, b) == LET bit(k) == ((BitOf(a, k) + BitOf(b, k)) % 2) * 2^k IN bit(0) + bit(1) + bit(2) + bit(3)
xor_blocks(a, b) == <<XorWord(a[1], b[1]), XorWord(a[2], b[2])>>

(* One round and ten of them, as functions of a block and a key. *)
SingleRound(x, k) == <<(3 * x[2] + k[1] + (x[1] * x[2])) % Word, (5 * x[1] + k[2] + 1) % Word>>
PseudoRound(x, k) == <<(7 * x[2] + k[1] + x[1] * x[1] + 3) % Word, (x[1] + k[2] + 2 * x[2]) % Word>>

(* state_index and e2i: the low half word without its lowest bits picks a block. *)
state_index(a) == (a[1] \div 2) % Blocks
e2i(a) == (a[1] \div 2) % Blocks

(* mul128 and mul: high and low half of the product. *)
mul(a, b) == <<(a[1] * b[1]) \div Word, (a[1] * b[1]) % Word>>
sum_half_blocks(a, b) == <<(a[1] + b[1]) % Word, (a[2] + b[2]) % Word>>

(* hash_process: four blocks of keys and the two initial blocks. *)
HashProcess(s) == [n \in 1..6 |-> <<(s * n + 3 * n * n + s) % Word, (s * s + 5 * n + 1) % Word>>]
Key1 == HashProcess(seed)[1]
Key2 == HashProcess(seed)[3]
InitText == SubSeq(HashProcess(seed), 5, 6)

-----------------------------------------------------------------------------
(* One row of the fill: the text is encrypted in place and copied. *)
FillRow(b) ==
  LET text == [n \in 1..INIT_SIZE_BLK |-> PseudoRound(b.text[n], Key1)]
  IN [b EXCEPT !.text = text, !.mem = [n \in 0..(Blocks - 1) |-> IF n \div INIT_SIZE_BLK = i THEN text[(n % INIT_SIZE_BLK) + 1] ELSE @[n]]]

(* pre_aes, the round and post_aes. *)
pre_aes(b) == b.mem[state_index(b.a)]

post_aes(b, c) ==
  LET first == [b.mem EXCEPT ![state_index(b.a)] = xor_blocks(b.b, c)]
      p == first[state_index(c)]
      a == sum_half_blocks(b.a, mul(c, p))
  IN [b EXCEPT !.mem = [first EXCEPT ![state_index(c)] = a], !.a = xor_blocks(a, p), !.b = c]

MixInstructions(b) == post_aes(b, SingleRound(pre_aes(b), b.a))

(* The portable iteration, with its swaps: (a, b) become (c, a), then (the sum combined with c, a). *)
MixPortable(b) ==
  LET j1 == e2i(b.a)
      c1 == SingleRound(b.mem[j1], b.a)
      mem1 == [b.mem EXCEPT ![j1] = xor_blocks(b.b, c1)]
      a2 == c1
      b2 == b.a
      j2 == e2i(a2)
      sum == sum_half_blocks(b2, mul(a2, mem1[j2]))
  IN [b EXCEPT !.mem = [mem1 EXCEPT ![j2] = sum], !.a = xor_blocks(mem1[j2], sum), !.b = a2]

(* One row of the fold: combined with the row of the scratchpad, then encrypted. *)
FoldRow(b) == [b EXCEPT !.text = [n \in 1..INIT_SIZE_BLK |-> PseudoRound(xor_blocks(@[n], b.mem[i * INIT_SIZE_BLK + n - 1]), Key2)]]

-----------------------------------------------------------------------------

(* slow_hash_allocate_state: huge pages if there are any, else the heap. *)
Allocated(huge) == IF hp_state # "NULL" THEN <<hp_state, hp_allocated>> ELSE IF huge THEN <<"mmap", 1>> ELSE <<"malloc", 0>>

slow_hash_allocate_state ==
  /\ phase = "idle"
  /\ \E huge \in BOOLEAN : LET got == Allocated(huge) IN hp_state' = got[1] /\ hp_allocated' = got[2]
  /\ UNCHANGED <<v, phase, i, seed, hashes, freed>>

(* slow_hash_free_state: the flag tells which release to use. *)
slow_hash_free_state ==
  /\ phase = "idle" /\ hp_state # "NULL"
  /\ freed' = <<hp_state, IF hp_allocated = 0 THEN "malloc" ELSE "mmap">>
  /\ hp_state' = "NULL" /\ hp_allocated' = 0
  /\ UNCHANGED <<v, phase, i, seed, hashes>>

Leftover(w) == [n \in 0..(Blocks - 1) |-> IF w = "portable" THEN <<n % Word, 1>> ELSE <<2, n % Word>>]

(* cn_slow_hash begins: the scratchpad is allocated if the caller has not; its content is what is there. *)
Begin ==
  /\ phase = "idle" /\ hashes < MaxHashes
  /\ \E huge \in BOOLEAN : LET got == Allocated(huge) IN hp_state' = got[1] /\ hp_allocated' = got[2]
  /\ seed' \in Seeds
  /\ LET h == HashProcess(seed') IN
     v' = [w \in Versions |-> [v[w] EXCEPT !.text = SubSeq(h, 5, 6), !.a = xor_blocks(h[1], h[3]), !.b = xor_blocks(h[2], h[4])]]
  /\ phase' = "fill" /\ i' = 0 /\ hashes' = hashes + 1
  /\ UNCHANGED freed

Loop(bound, after) == IF i + 1 < bound THEN i' = i + 1 /\ UNCHANGED phase ELSE i' = 0 /\ phase' = after

Fill ==
  /\ phase = "fill"
  /\ v' = [w \in Versions |-> FillRow(v[w])]
  /\ Loop(Rows, "mix")
  /\ UNCHANGED <<seed, hp_state, hp_allocated, hashes, freed>>

Mix ==
  /\ phase = "mix"
  /\ LET mixed(w) == IF w = "portable" THEN MixPortable(v[w]) ELSE MixInstructions(v[w])
         last == i + 1 = Iter
     IN v' = [w \in Versions |-> IF last THEN [mixed(w) EXCEPT !.text = InitText] ELSE mixed(w)]
  /\ Loop(Iter, "fold")
  /\ UNCHANGED <<seed, hp_state, hp_allocated, hashes, freed>>

Fold ==
  /\ phase = "fold"
  /\ v' = [w \in Versions |-> FoldRow(v[w])]
  /\ Loop(Rows, "done")
  /\ UNCHANGED <<seed, hp_state, hp_allocated, hashes, freed>>

(* The text goes back into the state, whose permutation picks one of the four hash functions. *)
End == phase = "done" /\ phase' = "idle" /\ UNCHANGED <<v, i, seed, hp_state, hp_allocated, hashes, freed>>

Init ==
  /\ v = [w \in Versions |-> [text |-> <<>>, a |-> <<0, 0>>, b |-> <<0, 0>>, mem |-> Leftover(w)]]
  /\ phase = "idle" /\ i = 0 /\ seed = 0
  /\ hp_state = "NULL" /\ hp_allocated = 0 /\ hashes = 0 /\ freed = <<"mmap", "mmap">>

Next == slow_hash_allocate_state \/ slow_hash_free_state \/ Begin \/ Fill \/ Mix \/ Fold \/ End

-----------------------------------------------------------------------------
(* The three versions hold the same text, the same running values and, once it is filled, the same scratchpad after every iteration: nodes with different processors compute the same proof of work. *)
VersionsAgree == \A w \in Versions :
  /\ v[w].text = v["tables"].text /\ v[w].a = v["tables"].a /\ v[w].b = v["tables"].b
  /\ phase \in {"mix", "fold", "done"} => v[w].mem = v["tables"].mem

(* The text that a run over a cleared scratchpad gives. *)
Fresh(s) ==
  LET h == HashProcess(s)
      text[n \in 0..Rows] == IF n = 0 THEN SubSeq(h, 5, 6) ELSE LET was == text[n - 1] IN [k \in 1..2 |-> PseudoRound(was[k], h[1])]
      start == [mem |-> [n \in 0..(Blocks - 1) |-> text[(n \div 2) + 1][(n % 2) + 1]], a |-> xor_blocks(h[1], h[3]), b |-> xor_blocks(h[2], h[4]), text |-> <<>>]
      mix[n \in 0..Iter] == IF n = 0 THEN start ELSE LET was == mix[n - 1] IN MixInstructions(was)
      end == mix[Iter].mem
      fold[n \in 0..Rows] == IF n = 0 THEN SubSeq(h, 5, 6) ELSE LET was == fold[n - 1] IN [k \in 1..2 |-> PseudoRound(xor_blocks(was[k], end[(n - 1) * 2 + k - 1]), h[3])]
  IN fold[Rows]

(* Nothing a previous hash, or the stack, left in the scratchpad reaches the result: it depends on the input alone. *)
NoLeftover == phase = "done" => v["tables"].text = Fresh(seed)

(* slow_hash_free_state releases the scratchpad with the counterpart of what allocated it. *)
ReleaseMatches == freed[1] = freed[2]

-----------------------------------------------------------------------------
(* The context of oaes_lib.c: keys generated, imported, exported and destroyed while allocations fail,      *)
(* options and initialization vectors that change between calls, and messages that are encrypted and        *)
(* decrypted in any order.  A byte is the set of its bits, so that exclusive or is symmetric difference;    *)
(* the block cipher is a free symbol with its inverse (HashRounds).                                          *)
CONSTANTS NULL,
          BS,          \* OAES_BLOCK_SIZE
          Keys,        \* key data, of length KeyLen
          Messages,    \* the messages that are encrypted, sequences of bytes
          MaxCipher,   \* how many ciphertexts are kept
          MaxRand,     \* how many random vectors are drawn
          MaxLost      \* how many failed key generations

VARIABLES ctx,      \* the context: options, iv and key, or NULL
          live,     \* allocations not yet freed
          sent,     \* ciphertexts with the key and the message they were made from
          file,     \* an exported key, or NULL
          rands,    \* random draws so far
          lost,     \* key structures of generations that ran out of memory
          out       \* result of the last call

contextVars == <<ctx, live, sent, file, rands, lost, out>>

ByteOf(n) == {<<"bit", k>> : k \in {j \in 0..2 : (n \div 2^j) % 2 = 1}}
XorByte(a, b) == (a \ b) \cup (b \ a)
XorBlock(s, t) == [k \in 1..BS |-> XorByte(s[k], t[k])]
Zero == [k \in 1..BS |-> {}]
Random(n) == [k \in 1..BS |-> {<<"rand", n, k>>}]

(* The block cipher under one key and its inverse. *)
oaes_encrypt_block(key, b) == [k \in 1..BS |-> {<<"E", key, b, k>>}]
oaes_decrypt_block(key, b) ==
  IF \A k \in 1..BS : \E a \in b[k] : b[k] = {a} /\ a[1] = "E" /\ a[2] = key /\ a[4] = k /\ a[3] = (CHOOSE d \in b[1] : TRUE)[3]
  THEN (CHOOSE d \in b[1] : TRUE)[3] ELSE [k \in 1..BS |-> {<<"D", key, b, k>>}]

Result(ret, m, expected) == [ok |-> ret = "SUCCESS", m |-> m, expected |-> expected]
Return(ret) == out' = Result(ret, <<>>, <<>>)

-----------------------------------------------------------------------------

(* oaes_key_destroy: the data, the expanded key and the structure. *)
oaes_key_destroy(parts) == parts \ {"key", "data", "exp"}

(* oaes_key_expand fails only when exp_data cannot be allocated; key_base, num_keys and exp_data_len are set all the same. *)
oaes_key_expand(key, fails) == [key EXCEPT !.exp = IF fails THEN NULL ELSE <<"expanded", key.data>>]

(* oaes_key_gen: the old key goes when the structure has been allocated, before its data has; a failure there loses the structure. *)
oaes_key_gen(k, fail) ==
  /\ ctx # NULL
  /\ CASE fail = "key" -> Return("MEM") /\ UNCHANGED <<ctx, live, lost>>
       [] fail = "data" -> /\ lost < MaxLost /\ lost' = lost + 1 /\ Return("MEM")
                           /\ ctx' = [ctx EXCEPT !.key = NULL] /\ live' = oaes_key_destroy(live)
       [] fail = "exp" -> Return("1") /\ ctx' = [ctx EXCEPT !.key = NULL] /\ live' = oaes_key_destroy(live) /\ UNCHANGED lost
       [] OTHER -> /\ ctx' = [ctx EXCEPT !.key = oaes_key_expand([data |-> k, exp |-> NULL], FALSE)]
                   /\ live' = oaes_key_destroy(live) \cup {"key", "data", "exp"}
                   /\ Return("SUCCESS") /\ UNCHANGED lost
  /\ UNCHANGED <<sent, file, rands>>

(* The end of both imports: the old key is destroyed first, a failure destroys the new one. *)
ImportedKey(k, fail) ==
  IF fail \in {"key", "data", "exp"} THEN NULL ELSE oaes_key_expand([data |-> k, exp |-> NULL], FALSE)

Import(k, fail) ==
  /\ ctx' = [ctx EXCEPT !.key = ImportedKey(k, fail)]
  /\ live' = oaes_key_destroy(live) \cup (IF fail = "none" THEN {"key", "data", "exp"} ELSE {})
  /\ Return(CASE fail \in {"key", "data"} -> "MEM" [] fail = "exp" -> "1" [] OTHER -> "SUCCESS")

(* oaes_key_import_data: the length decides before anything is touched. *)
oaes_key_import_data(k, rightLength, fail) ==
  /\ ctx # NULL
  /\ IF rightLength THEN Import(k, fail) ELSE Return("ARG3") /\ UNCHANGED <<ctx, live>>
  /\ UNCHANGED <<sent, file, rands, lost>>

(* oaes_key_export: header of type 1 and the key data; needs a key and room. *)
oaes_key_export(room) ==
  /\ ctx # NULL
  /\ CASE ctx.key = NULL -> Return("NOKEY") /\ UNCHANGED file
       [] ctx.key # NULL /\ ~room -> Return("BUF") /\ UNCHANGED file
       [] OTHER -> Return("SUCCESS") /\ file' = [type |-> 1, data |-> ctx.key.data]
  /\ UNCHANGED <<ctx, live, sent, rands, lost>>

(* oaes_key_export_data: the bytes alone; compared by the caller with what was imported. *)
oaes_key_export_data(room) ==
  /\ ctx # NULL
  /\ CASE ctx.key = NULL -> Return("NOKEY")
       [] ctx.key # NULL /\ ~room -> Return("BUF")
       [] OTHER -> out' = Result("SUCCESS", ctx.key.data, ctx.key.exp[2])
  /\ UNCHANGED <<ctx, live, sent, file, rands, lost>>

(* oaes_key_import: from an exported key, or from a ciphertext, whose header has type 2. *)
oaes_key_import(input, fail) ==
  /\ ctx # NULL
  /\ IF input.type # 1 THEN Return("HEADER") /\ UNCHANGED <<ctx, live>> ELSE Import(input.data, fail)
  /\ UNCHANGED <<sent, file, rands, lost>>

-----------------------------------------------------------------------------

(* oaes_set_option: one of the two modes replaces the other; CBC takes the given vector or draws one. *)
SetOption(c, option, value) ==
  IF option = "ECB" THEN [c EXCEPT !.options = (@ \ {"CBC"}) \cup {"ECB"}, !.iv = Zero]
  ELSE [c EXCEPT !.options = (@ \ {"ECB"}) \cup {"CBC"}, !.iv = IF value # NULL THEN value ELSE Random(rands)]

oaes_set_option(option, value) ==
  /\ ctx # NULL /\ rands < MaxRand
  /\ ctx' = SetOption(ctx, option, value)
  /\ rands' = IF option = "CBC" /\ value = NULL THEN rands + 1 ELSE rands
  /\ Return("SUCCESS")
  /\ UNCHANGED <<live, sent, file, lost>>

(* oaes_alloc: CBC with a random vector is the default. *)
oaes_alloc ==
  /\ ctx = NULL /\ rands < MaxRand
  /\ ctx' = SetOption([options |-> {}, iv |-> Zero, key |-> NULL], "CBC", NULL)
  /\ rands' = rands + 1
  /\ live' = live \cup {"ctx"}
  /\ Return("SUCCESS")
  /\ UNCHANGED <<sent, file, lost>>

oaes_free ==
  /\ ctx' = NULL
  /\ live' = IF ctx = NULL THEN live ELSE oaes_key_destroy(live) \ {"ctx"}
  /\ Return("SUCCESS")
  /\ UNCHANGED <<sent, file, rands, lost>>

-----------------------------------------------------------------------------
PadLen(m) == IF Len(m) % BS = 0 THEN 0 ELSE BS - (Len(m) % BS)

(* Block n of the message, padded with 1, 2, ... *)
PlainBlock(m, n) == [k \in 1..BS |-> LET at == (n - 1) * BS + k IN IF at <= Len(m) THEN m[at] ELSE ByteOf(at - Len(m))]

(* The blocks: in CBC mode each is first combined with the one before. *)
CipherBlocks(m) ==
  LET blocks[n \in 0..((Len(m) + PadLen(m)) \div BS)] ==
        IF n = 0 THEN <<>>
        ELSE LET was == blocks[n - 1]
                 p == PlainBlock(m, n)
                 prev == IF n = 1 THEN ctx.iv ELSE was[n - 1]
             IN Append(was, oaes_encrypt_block(ctx.key.exp[2], IF "CBC" \in ctx.options THEN XorBlock(p, prev) ELSE p))
  IN blocks[(Len(m) + PadLen(m)) \div BS]

(* oaes_encrypt: header, vector and blocks; in CBC mode the context goes on from the last block. *)
oaes_encrypt(m, room) ==
  /\ ctx # NULL
  /\ CASE ~room -> Return("BUF") /\ UNCHANGED <<ctx, sent>>
       [] room /\ ctx.key = NULL -> Return("NOKEY") /\ UNCHANGED <<ctx, sent>>
       [] OTHER ->
          LET blocks == CipherBlocks(m)
          IN /\ Cardinality(sent) < MaxCipher
             /\ ctx' = [ctx EXCEPT !.iv = IF "CBC" \in ctx.options /\ blocks # <<>> THEN blocks[Len(blocks)] ELSE @]
             /\ sent' = sent \cup {[type |-> 2, options |-> ctx.options, pad |-> PadLen(m) # 0, iv |-> ctx.iv,
                                    blocks |-> blocks, key |-> ctx.key.data, m |-> m]}
             /\ Return("SUCCESS")
  /\ UNCHANGED <<live, file, rands, lost>>

(* The last byte says how much padding there is; it is taken off when all of it is there.  NULL: the error OAES_RET_HEADER. *)
RemovePad(flag, m) ==
  LET temps == {t \in 1..(BS - 1) : m[Len(m)] = ByteOf(t)}
      t == CHOOSE u \in temps : TRUE
  IN IF ~flag THEN m
     ELSE IF temps = {} THEN NULL
     ELSE IF \A n \in 0..(t - 1) : m[Len(m) - n] = ByteOf(t - n) THEN SubSeq(m, 1, Len(m) - t) ELSE NULL

(* oaes_decrypt: the mode and the vector come from the ciphertext, the key from the context; a key file has the wrong type. *)
oaes_decrypt(c, room) ==
  /\ ctx # NULL
  /\ CASE ~room -> Return("BUF")
       [] room /\ ctx.key = NULL -> Return("NOKEY")
       [] room /\ ctx.key # NULL /\ c.type # 2 -> Return("HEADER")
       [] OTHER ->
          LET plain(n) == LET b == oaes_decrypt_block(ctx.key.exp[2], c.blocks[n])
                          IN IF "CBC" \in c.options THEN XorBlock(b, IF n = 1 THEN c.iv ELSE c.blocks[n - 1]) ELSE b
              m == [k \in 1..(BS * Len(c.blocks)) |-> plain((k - 1) \div BS + 1)[((k - 1) % BS) + 1]]
              bare == IF m = <<>> THEN m ELSE RemovePad(c.pad, m)
          IN IF bare = NULL THEN Return("HEADER") ELSE out' = Result("SUCCESS", bare, IF ctx.key.data = c.key THEN c.m ELSE bare)
  /\ UNCHANGED <<ctx, live, sent, file, rands, lost>>

-----------------------------------------------------------------------------
Fails == {"none", "key", "data", "exp"}

ContextInit == ctx = NULL /\ live = {} /\ sent = {} /\ file = NULL /\ rands = 0 /\ lost = 0 /\ out = Result("none", <<>>, <<>>)

ContextNext ==
  \/ oaes_alloc
  \/ oaes_free
  \/ oaes_set_option("ECB", NULL)
  \/ \E iv \in {NULL, Zero} : oaes_set_option("CBC", iv)
  \/ \E k \in Keys, f \in Fails : oaes_key_gen(k, f)
  \/ \E k \in Keys : oaes_key_import_data(k, FALSE, "none") \/ \E f \in Fails : oaes_key_import_data(k, TRUE, f)
  \/ \E room \in BOOLEAN : oaes_key_export(room)
  \/ \E room \in BOOLEAN : oaes_key_export_data(room)
  \/ \E c \in sent \cup ({file} \ {NULL}), f \in Fails : oaes_key_import(c, f)
  \/ oaes_encrypt(<<>>, FALSE) \/ \E m \in Messages : oaes_encrypt(m, TRUE)
  \/ \E c \in sent \cup ({file} \ {NULL}), room \in BOOLEAN : oaes_decrypt(c, room)

-----------------------------------------------------------------------------
(* What oaes_decrypt returns under the key a message was encrypted with is the message, whatever options, vectors, keys and other messages the context has seen in between, and whether or not the message ends in bytes that look like padding. *)
RoundTrip == out.m = out.expected

(* A key in the context is always expanded, also after a failed allocation: a call finds a usable key or none. *)
KeyUsable == (ctx # NULL /\ ctx.key # NULL) => ctx.key.exp = <<"expanded", ctx.key.data>>

(* Everything allocated is reachable from the context; after oaes_free nothing is left, apart from the structures oaes_key_gen loses when it cannot allocate the data. *)
NothingLeft == live = (IF ctx = NULL THEN {} ELSE {"ctx"}) \cup (IF ctx = NULL \/ ctx.key = NULL THEN {} ELSE {"key", "data", "exp"})
=============================================================================
