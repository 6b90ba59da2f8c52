------------------------ MODULE BinarySerialization ------------------------
(***************************************************************************)
(* The binary form of transactions and blocks: the archive of              *)
(* serialization/binary_archive.h, its strings, vectors and variants, and  *)
(* the fields cryptonote_basic.h lists; and the JSON the same lists print. *)
(*                                                                         *)
(* A byte has three bits here: two of payload and a continuation bit in a  *)
(* varint. Keys, hashes and signatures are one byte long.                  *)
(*                                                                         *)
(* What a value holds is the sequence of its leaves, the numbers and blobs *)
(* in the order of its fields. A reader takes the archive and gives it     *)
(* back with leaves added; after the first failure nothing more is read.   *)
(***************************************************************************)
EXTENDS Integers, Sequences, FiniteSets

More == 4               \* the continuation bit of a varint byte, 0x80
Byte == 0 .. 7
Wide == 4               \* the bits of a 64 bit integer
Narrow == 3             \* the bits of a byte
Version == 1            \* CURRENT_TRANSACTION_VERSION, CURRENT_BLOCK_MAJOR_VERSION

Most(a, b) == IF a > b THEN a ELSE b
Drop(s, n) == SubSeq(s, n + 1, Len(s))
Last(s) == s[Len(s)]
Flat(ss) ==
  LET f[i \in 0 .. Len(ss)] == IF i = 0 THEN <<>> ELSE f[i - 1] \o ss[i] IN f[Len(ss)]

(* The leaves: a number, and a run of bytes. *)
Number(n) == <<<<"n", <<n>>>>>>
Blob(b) == <<<<"b", b>>>>

(* An archive being read: the state of its stream, the bytes left, the     *)
(* leaves read and, for the signatures, the ring size of each input read.  *)
Archive == [good : BOOLEAN, rest : Seq(Nat), out : Seq({"n", "b"} \X Seq(Nat)), rings : Seq(Nat)]
Open(s) == [good |-> TRUE, rest |-> s, out |-> <<>>, rings |-> <<>>]
Bad(ar) == [ar EXCEPT !.good = FALSE]

-----------------------------------------------------------------------------
serialize_blob(from, n) ==
  LET f[ar \in Archive] ==
        IF ~ar.good THEN ar
        ELSE IF Len(ar.rest) < n THEN Bad(ar)
        ELSE [ar EXCEPT !.rest = Drop(@, n), !.out = @ \o Blob(SubSeq(ar.rest, 1, n))]
  IN f[from]

(* What read_varint reports is ignored: a number that is cut off, too large *)
(* or written too long is as much of it as was read.                        *)
serialize_uvarint(from, bits) ==
  LET f[ar \in Archive] ==
        LET stop(k, n) == [ar EXCEPT !.rest = Drop(@, k), !.out = @ \o Number(n)]
            go[i \in Nat, n \in Nat] ==
              LET byte  == ar.rest[i + 1]
                  shift == 2 * i
                  here  == n + (byte % More) * 2 ^ shift
              IN IF i = Len(ar.rest) THEN stop(i, n)
                 ELSE IF shift + 2 >= bits /\ byte >= 2 ^ Most(bits - shift, 0) THEN stop(i + 1, n)
                 ELSE IF byte = 0 /\ shift # 0 THEN stop(i + 1, n)
                 ELSE IF byte < More THEN stop(i + 1, here)
                 ELSE go[i + 1, here]
        IN IF ar.good THEN go[0, 0] ELSE ar
  IN f[from]

write_varint(n) == IF n < More THEN <<n>> ELSE <<More + (n % More), n \div More>>

LastNumber(ar) == Last(ar.out)[2][1]
read_byte(ar) == serialize_blob(ar, 1)
read_key(ar) == serialize_blob(ar, 1)
read_wide(ar) == serialize_uvarint(ar, Wide)

(* A string is its length and its bytes. *)
read_string(ar) ==
  LET body[a \in Archive] == IF a.good THEN serialize_blob(a, LastNumber(a)) ELSE a
  IN body[read_wide(ar)]

(* The bytes of the leaves of a value. *)
Bytes(leaves) ==
  Flat([i \in 1 .. Len(leaves) |->
          IF leaves[i][1] = "n" THEN write_varint(leaves[i][2][1]) ELSE leaves[i][2]])

-----------------------------------------------------------------------------

(* No more elements than there are bytes left: the basic sanity check. *)
CountFits(a) == LastNumber(a) <= Len(a.rest)

(* A vector is its count and its elements; more elements than there are    *)
(* bytes left are refused before any is read.                              *)
read_vector(Elem(_), ar) ==
  LET elems[a \in Archive, n \in Nat] == IF n = 0 \/ ~a.good THEN a ELSE elems[Elem(a), n - 1]
      counted[a \in Archive] ==
        IF ~a.good THEN a
        ELSE IF CountFits(a) THEN elems[a, LastNumber(a)]
        ELSE Bad(a)
  IN counted[read_wide(ar)]

\* A vector of bytes: extra, a script.
read_bytes(ar) == read_vector(read_byte, ar)

leaves_of_vector(Elem(_), v) == Number(Len(v)) \o Flat([i \in 1 .. Len(v) |-> Elem(v[i])])

One(b) == Blob(<<b>>)
Numbers(v) == leaves_of_vector(Number, v)
ByteVector(v) == leaves_of_vector(One, v)

read_txout_to_script(ar) == read_bytes(read_vector(read_key, ar))
txout_to_script(o) == leaves_of_vector(Blob, o.keys) \o ByteVector(o.script)

-----------------------------------------------------------------------------
(* The inputs. The code reads a tag and, for the tag of a type, its fields. *)
Ring(ar, n) == [ar EXCEPT !.rings = Append(@, n)]

read_txin_to_script(ar) == read_bytes(read_wide(read_key(ar)))
read_txin_to_scripthash(ar) ==
  read_bytes(read_txout_to_script(read_wide(read_key(ar))))

(* get_signature_size: the ring is what was counted before its offsets. *)
read_txin_to_key(ar) ==
  LET offsets[a \in Archive] ==
        LET cnt == LastNumber(read_wide(a))
        IN IF a.good THEN Ring(read_key(read_vector(read_wide, a)), cnt) ELSE a
  IN offsets[read_wide(ar)]

read_txin_v(ar) ==
  LET typed[a \in Archive] ==
        IF ~a.good THEN a
        ELSE CASE Last(a.out)[2] = <<7>> -> Ring(read_wide(a), 0)
               [] Last(a.out)[2] = <<0>> -> Ring(read_txin_to_script(a), 0)
               [] Last(a.out)[2] = <<1>> -> Ring(read_txin_to_scripthash(a), 0)
               [] Last(a.out)[2] = <<2>> -> read_txin_to_key(a)
               [] OTHER -> Bad(a)
  IN typed[read_byte(ar)]

txin_v(i) ==
  CASE i.type = "gen" -> Blob(<<7>>) \o Number(i.height)
    [] i.type = "script" -> Blob(<<0>>) \o Blob(i.prev) \o Number(i.prevout) \o ByteVector(i.sigset)
    [] i.type = "scripthash" ->
         Blob(<<1>>) \o Blob(i.prev) \o Number(i.prevout) \o txout_to_script(i.script) \o ByteVector(i.sigset)
    [] i.type = "key" -> Blob(<<2>>) \o Number(i.amount) \o Numbers(i.key_offsets) \o Blob(i.k_image)

(* The outputs: an amount and a target. *)
read_txout_target_v(ar) ==
  LET typed[a \in Archive] ==
        IF ~a.good THEN a
        ELSE CASE Last(a.out)[2] = <<0>> -> read_txout_to_script(a)
               [] Last(a.out)[2] \in {<<1>>, <<2>>} -> read_key(a)
               [] OTHER -> Bad(a)
  IN typed[read_byte(ar)]

read_tx_out(ar) == read_txout_target_v(read_wide(ar))

tx_out(o) ==
  Number(o.amount) \o
  (CASE o.type = "script" -> Blob(<<0>>) \o txout_to_script(o)
     [] o.type = "scripthash" -> Blob(<<1>>) \o Blob(o.hash)
     [] o.type = "key" -> Blob(<<2>>) \o Blob(o.key))

-----------------------------------------------------------------------------
get_signature_size(i) == IF i.type = "key" THEN Len(i.key_offsets) ELSE 0

(* A transaction's signatures carry no counts: they are one list an input  *)
(* with one signature for each output of its ring.                         *)
read_signatures(ar0) ==
  LET lists[ar \in Archive] ==
        IF ~ar.good \/ ar.rings = <<>> THEN ar
        ELSE lists[[serialize_blob(ar, ar.rings[1]) EXCEPT !.rings = Tail(@)]]
  IN lists[ar0]

(* The version is checked as soon as it is read. *)
Versioned(ar0) ==
  LET check[ar \in Archive] == IF ar.good /\ LastNumber(ar) > Version THEN Bad(ar) ELSE ar
  IN check[ar0]

read_transaction_prefix(ar) ==
  read_bytes(read_vector(read_tx_out, read_vector(read_txin_v,
    read_wide(Versioned(read_wide(ar))))))

read_transaction(ar) == read_signatures(read_transaction_prefix(ar))

(* No list at all will do when no input needs a signature. *)
SignaturesFit(tx) ==
  IF tx.signatures = <<>> THEN \A i \in 1 .. Len(tx.vin) : get_signature_size(tx.vin[i]) = 0
  ELSE /\ Len(tx.signatures) = Len(tx.vin)
       /\ \A i \in 1 .. Len(tx.vin) : Len(tx.signatures[i]) = get_signature_size(tx.vin[i])

transaction_prefix(tx) ==
  Number(tx.version) \o Number(tx.unlock_time) \o leaves_of_vector(txin_v, tx.vin)
  \o leaves_of_vector(tx_out, tx.vout) \o ByteVector(tx.extra)

(* Written without a list, the signatures are read as empty lists. *)
transaction(tx) ==
  transaction_prefix(tx) \o
  Flat([i \in 1 .. Len(tx.vin) |-> Blob(IF tx.signatures = <<>> THEN <<>> ELSE tx.signatures[i])])

-----------------------------------------------------------------------------
(* The block: a header, the miner transaction and the hashes of the others. *)

(* Variant: the nonce is read before the previous block. *)
read_block_header_swapped(ar) ==
  LET minor == serialize_uvarint(Versioned(serialize_uvarint(ar, Narrow)), Narrow)
  IN read_key(serialize_blob(read_wide(minor), 2))

read_block_header(ar) ==
  LET minor == serialize_uvarint(Versioned(serialize_uvarint(ar, Narrow)), Narrow)
  IN serialize_blob(read_key(read_wide(minor)), 2)

read_block(ar) == read_vector(read_key, read_transaction(read_block_header(ar)))

block(b) ==
  Number(b.major) \o Number(b.minor) \o Number(b.timestamp) \o Blob(b.prev_id) \o Blob(b.nonce)
  \o transaction(b.miner_tx) \o leaves_of_vector(Blob, b.tx_hashes)

(* A blob is one object and nothing after it. *)
parse_and_validate_tx_from_blob(s) ==
  LET whole[ar \in Archive] == [ar EXCEPT !.good = @ /\ ar.rest = <<>>]
  IN whole[read_transaction(Open(s))]

-----------------------------------------------------------------------------
(* The JSON archive prints the same lists. What it is asked to do is a     *)
(* sequence of calls; a comma goes before a tag unless an object has just  *)
(* begun, and the lists put the commas between their elements.             *)

json_archive(ops) ==
  LET Begun(i) == \E j \in 1 .. i - 1 : ops[j] = "{" /\ \A k \in j + 1 .. i - 1 : ops[k] # "tag"
  IN Flat([i \in 1 .. Len(ops) |->
             CASE ops[i] = "tag" -> IF Begun(i) THEN <<"key">> ELSE <<",", "key">>
               [] ops[i] = "empty" -> <<>>
               [] OTHER -> <<ops[i]>>])

ObjectOps(ops) == <<"{">> \o ops \o <<"}">>
FieldOps(ops) == <<"tag">> \o ops
ArrayOps(elems) ==
  <<"[">> \o Flat([i \in 1 .. Len(elems) |-> IF i = 1 THEN elems[i] ELSE <<",">> \o elems[i]]) \o <<"]">>
ValuesOps(v) == ArrayOps([i \in 1 .. Len(v) |-> <<"val">>])
VariantOps(ops) == ObjectOps(FieldOps(ops))
ScriptOps(o) == ObjectOps(FieldOps(ValuesOps(o.keys)) \o FieldOps(ValuesOps(o.script)))
ValOp == FieldOps(<<"val">>)

txin_ops(i) ==
  VariantOps(
    CASE i.type = "gen" -> ObjectOps(ValOp)
      [] i.type = "script" -> ObjectOps(ValOp \o ValOp \o FieldOps(ValuesOps(i.sigset)))
      [] i.type = "scripthash" ->
           ObjectOps(ValOp \o ValOp \o FieldOps(ScriptOps(i.script)) \o FieldOps(ValuesOps(i.sigset)))
      [] i.type = "key" -> ObjectOps(ValOp \o FieldOps(ValuesOps(i.key_offsets)) \o ValOp))

txout_ops(o) ==
  ObjectOps(ValOp \o FieldOps(VariantOps(IF o.type = "script" THEN ScriptOps(o) ELSE <<"val">>)))

(* The signatures are written by hand: an empty list of them prints        *)
(* nothing, and a comma follows every list but the last.                   *)
signatures_ops(tx) ==
  <<"[">> \o
  (IF tx.signatures = <<>> THEN <<>>
   ELSE Flat([i \in 1 .. Len(tx.vin) |->
                (IF tx.signatures[i] = <<>> THEN <<"empty">> ELSE <<"val">>)
                \o (IF i < Len(tx.vin) THEN <<",">> ELSE <<>>)]))
  \o <<"]">>

transaction_ops(tx) ==
  ObjectOps(ValOp \o ValOp
    \o FieldOps(ArrayOps([i \in 1 .. Len(tx.vin) |-> txin_ops(tx.vin[i])]))
    \o FieldOps(ArrayOps([i \in 1 .. Len(tx.vout) |-> txout_ops(tx.vout[i])]))
    \o FieldOps(ValuesOps(tx.extra)) \o FieldOps(signatures_ops(tx)))

block_ops(b) ==
  ObjectOps(ValOp \o ValOp \o ValOp \o ValOp \o ValOp
    \o FieldOps(transaction_ops(b.miner_tx)) \o FieldOps(ValuesOps(b.tx_hashes)))

-----------------------------------------------------------------------------
(* The extra field of a transaction (tx_extra.h, the functions on it in    *)
(* cryptonote_format_utils.cpp): a run of tagged fields that holds the     *)
(* transaction's public key, a nonce, a payment id inside the nonce, a     *)
(* merge mining tag, and padding. A nonce may be as long as a byte can     *)
(* say, which is more than a varint byte can.                              *)
MaxNonce == 7           \* TX_EXTRA_NONCE_MAX_COUNT, 255
MaxPadding == 7         \* TX_EXTRA_PADDING_MAX_COUNT, 255

Key(k) == [type |-> "pub_key", v |-> <<k>>]
Nonce(n) == [type |-> "nonce", v |-> n]
Padding(n) == [type |-> "padding", v |-> <<n>>]
Zeros(n) == [i \in 1 .. n |-> 0]

Field(ar, type, v) == [ok |-> ar.good, rest |-> ar.rest, field |-> [type |-> type, v |-> v]]
NoField == [ok |-> FALSE, rest |-> <<>>, field |-> Padding(0)]
Content(ar) == IF ar.good THEN Last(ar.out)[2] ELSE <<>>

(* Zeros to the very end, the tag counted among them. *)
tx_extra_padding(s) ==
  IF Len(s) < MaxPadding /\ \A i \in 1 .. Len(s) : s[i] = 0
  THEN [ok |-> TRUE, rest |-> <<>>, field |-> Padding(Len(s) + 1)] ELSE NoField

tx_extra_pub_key(s) == LET ar == read_key(Open(s)) IN Field(ar, "pub_key", Content(ar))

tx_extra_nonce(s) ==
  LET ar == read_string(Open(s))
  IN IF Len(Content(ar)) > MaxNonce THEN NoField ELSE Field(ar, "nonce", Content(ar))

(* A depth and a hash, which must fill a string of their own. *)
tx_extra_merge_mining_tag(s) ==
  LET ar == read_string(Open(s))
      in == read_key(read_wide(Open(Content(ar))))
  IN IF ar.good /\ in.good /\ in.rest = <<>> THEN Field(ar, "mm", Content(ar)) ELSE NoField

tx_extra_field(s) ==
  CASE s[1] = 0 -> tx_extra_padding(Tail(s))
    [] s[1] = 1 -> tx_extra_pub_key(Tail(s))
    [] s[1] = 2 -> tx_extra_nonce(Tail(s))
    [] s[1] = 3 -> tx_extra_merge_mining_tag(Tail(s))
    [] OTHER -> NoField

(* Field by field to the end; what was read before a failure is kept. *)
parse_tx_extra(extra) ==
  LET go[s \in Seq(Nat), fields \in Seq([type : STRING, v : Seq(Nat)])] ==
        IF s = <<>> THEN [ok |-> TRUE, fields |-> fields]
        ELSE LET f == tx_extra_field(s)
             IN IF f.ok THEN go[f.rest, Append(fields, f.field)] ELSE [ok |-> FALSE, fields |-> fields]
  IN go[extra, <<>>]

(* The first field of the type: <<>> for none. *)
find_tx_extra_field_by_type(fields, type) ==
  LET of == SelectSeq(fields, LAMBDA f : f.type = type)
  IN IF of = <<>> THEN <<>> ELSE <<of[1].v>>

(* A field as it is stored. *)
StoredField(f) ==
  CASE f.type = "padding" -> Zeros(f.v[1])
    [] f.type = "pub_key" -> <<1>> \o f.v
    [] f.type = "nonce" -> <<2>> \o write_varint(Len(f.v)) \o f.v
    [] f.type = "mm" -> <<3>> \o write_varint(Len(f.v)) \o f.v

Stored(fields) == Flat([i \in 1 .. Len(fields) |-> StoredField(fields[i])])

(* Whether the extra parses to its end is not asked. *)
get_tx_pub_key_from_extra(extra) ==
  find_tx_extra_field_by_type(parse_tx_extra(extra).fields, "pub_key")

-----------------------------------------------------------------------------

add_tx_pub_key_to_extra(extra, k) == extra \o <<1, k>>

(* The length is one byte, whatever it is. *)
add_extra_nonce_to_tx_extra(extra, n) == extra \o <<2, Len(n)>> \o n

set_payment_id_to_tx_extra_nonce(id) == <<0, id>>

get_payment_id_from_tx_extra_nonce(n) ==
  IF Len(n) = 2 /\ n[1] = 0 THEN <<n[2]>> ELSE <<>>

(* What the receiving wallet finds in the first nonce. *)
payment_id(extra) ==
  LET n == find_tx_extra_field_by_type(parse_tx_extra(extra).fields, "nonce")
  IN IF n = <<>> THEN <<>> ELSE get_payment_id_from_tx_extra_nonce(n[1])

-----------------------------------------------------------------------------
(* The archive after a value was read from it: its leaves, no others, and  *)
(* the bytes that followed.                                                *)
Read(leaves, tail) == [good |-> TRUE, rest |-> tail, out |-> leaves, rings |-> <<>>]
Tails == {<<>>, <<0>>, <<7, 1>>}

(* A transaction is read back from its bytes whatever follows them, and    *)
(* what follows is left alone: the counts and the rings delimit it, so     *)
(* that the miner transaction inside a block ends where it should.         *)
TxSelfDelimiting(tx) ==
  SignaturesFit(tx) =>
    \A tail \in Tails :
      read_transaction(Open(Bytes(transaction(tx)) \o tail)) = Read(transaction(tx), tail)

(* The same for a block.                                                   *)
BlockSelfDelimiting(b) ==
  \A tail \in Tails : read_block(Open(Bytes(block(b)) \o tail)) = Read(block(b), tail)

(* Whatever the bytes, no list that is accepted is longer than the input:  *)
(* what a reader allocates for is bounded by what it was given.            *)
ParseBounded(s) ==
  LET keys == read_vector(read_wide, Open(s))
  IN keys.good => Len(keys.out) <= 1 + Len(s)

(* A transaction that was read, however oddly it was written, is written   *)
(* in a form that reads as the same transaction.                           *)
ReadIsStable(s) ==
  LET r == parse_and_validate_tx_from_blob(s)
  IN r.good => parse_and_validate_tx_from_blob(Bytes(r.out)) = r

(* A transaction whose inputs are those the core accepts: one generating   *)
(* input, or inputs with a ring each.                                      *)
Supported(tx) ==
  \/ Len(tx.vin) = 1 /\ tx.vin[1].type = "gen"
  \/ \A i \in 1 .. Len(tx.vin) : get_signature_size(tx.vin[i]) > 0

(* What may follow a JSON token. *)
MayFollow(t) ==
  CASE t = "{" -> {"key", "}"}
    [] t = "[" -> {"val", "{", "[", "]"}
    [] t = "key" -> {"val", "{", "["}
    [] t = "," -> {"key", "val", "{", "["}
    [] t \in {"val", "}", "]"} -> {",", "}", "]"}

JsonTokens(t) == \A i \in 1 .. Len(t) - 1 : t[i + 1] \in MayFollow(t[i])

(* What obj_to_json_str prints of a transaction or a block is JSON: values *)
(* and keys are separated by one comma, none is missing or left over.      *)
TxJsonWellFormed(tx) ==
  SignaturesFit(tx) /\ Supported(tx) => JsonTokens(json_archive(transaction_ops(tx)))
BlockJsonWellFormed(b) == JsonTokens(json_archive(block_ops(b)))

(* The extra of a miner transaction: its key, its nonce, and the zeros     *)
(* create_block_template pads it with.                                     *)
MinerExtra(k, pad, n) ==
  add_extra_nonce_to_tx_extra(add_tx_pub_key_to_extra(<<>>, k), n) \o Zeros(pad)

(* The miner's wallet finds the key whatever nonce and padding follow it,  *)
(* even when the rest of the extra does not parse.                         *)
MinerKeyFound(k, pad, n) == get_tx_pub_key_from_extra(MinerExtra(k, pad, n)) = <<<<k>>>>

(* Padded no further than allowed, the extra parses into the key, the      *)
(* nonce that was put in and the padding. (For nonces whose length is one  *)
(* varint byte.)                                                           *)
MinerExtraParses(k, pad, n) ==
  Len(n) < More /\ pad <= MaxPadding =>
    parse_tx_extra(MinerExtra(k, pad, n)) =
      [ok |-> TRUE, fields |-> <<Key(k), Nonce(n)>>
                               \o (IF pad = 0 THEN <<>> ELSE <<Padding(pad)>>)]

(* A transfer with a payment id, to which construct_tx adds its key: the   *)
(* receiver finds both.                                                    *)
PaymentIdArrives(k, id) ==
  LET nonce == set_payment_id_to_tx_extra_nonce(id)
      extra == add_tx_pub_key_to_extra(add_extra_nonce_to_tx_extra(<<>>, nonce), k)
  IN get_tx_pub_key_from_extra(extra) = <<<<k>>>> /\ payment_id(extra) = <<id>>

(* A nonce holds a payment id only if it is nothing but one.               *)
PaymentIdExact(n) ==
  LET id == get_payment_id_from_tx_extra_nonce(n)
  IN id # <<>> => set_payment_id_to_tx_extra_nonce(id[1]) = n

(* Fields are stored so that they are read again, whatever was parsed to   *)
(* find them; and in what is stored, the fields of another extra may       *)
(* follow, unless the first ends in padding.                               *)
FieldsCompose(s) ==
  \A p \in {parse_tx_extra(s)} : \A again \in {Stored(p.fields)} :
    LET open == \A i \in 1 .. Len(p.fields) : p.fields[i].type # "padding"
    IN /\ parse_tx_extra(again) = [ok |-> TRUE, fields |-> p.fields]
       /\ open => \A more \in {<<1, 6>>, <<5>>, <<0, 0>>} : \A q \in {parse_tx_extra(more)} :
            parse_tx_extra(again \o more) = [ok |-> q.ok, fields |-> p.fields \o q.fields]
=============================================================================
