----------------------------- MODULE Encodings -----------------------------
(***************************************************************************)
(* The text and byte encodings of the node: the variable length integer    *)
(* of common/varint.h, the block-wise base 58 of common/base58.cpp, the    *)
(* hexadecimal of epee's string_tools.h and the account address built on   *)
(* all three in cryptonote_basic_impl.cpp; and the seed of a wallet as     *)
(* words (mnemonics/electrum-words.cpp and language_base.h).               *)
(*                                                                         *)
(* The algorithms are parameterised by the sizes of their alphabets, so    *)
(* that every input of a few symbols can be enumerated: a byte has two     *)
(* hexadecimal digits of base Hex, a varint byte carries half a byte's     *)
(* values and a continuation bit, a base 58 block has Full bytes.          *)
(***************************************************************************)
EXTENDS Integers, Sequences, FiniteSets

CONSTANTS Hex,        \* the base of a hexadecimal digit, 16 in the code
          Bits,       \* the width of the integer a varint is read into
          Payload,    \* the bits of a varint byte's payload, 7 in the code
          Alpha,      \* the size of the base 58 alphabet
          EncSizes,   \* encoded_block_sizes, from a block of one byte on
          SumSize,    \* addr_checksum_size
          Tags,       \* the address prefixes, of the main and of the test net
          Languages,  \* word lists in the order they are tried: [name, words, prefix]
          Written,    \* how many of them a seed can be written in: all but the last, old one
          GroupSize,  \* the values of the group that three words write, 2^32 in the code
          Groups      \* groups of a key: 8 in the code

Fail == <<-1>>        \* the answer of a conversion that returned false

Byte == 0 .. (Hex * Hex - 1)
More == 2 ^ Payload   \* the continuation bit, 0x80
Max(a, b) == IF a > b THEN a ELSE b
Drop(s, n) == SubSeq(s, n + 1, Len(s))

(* s taken as the digits of a number, the most significant first. *)
Number(s, base) ==
  LET f[i \in 0 .. Len(s)] == IF i = 0 THEN 0 ELSE f[i - 1] * base + s[i]
  IN f[Len(s)]

(* The n digits of a number, the most significant first. *)
Digits(num, base, n) == [i \in 1 .. n |-> (num \div base ^ (n - i)) % base]

-----------------------------------------------------------------------------

(* The low bits of the number first, each byte but the last marked. *)
write_varint(n) ==
  LET w[i \in 0 .. Bits] ==
        IF n \div (More ^ i) >= More
        THEN <<More + ((n \div (More ^ i)) % More)>> \o w[i + 1]
        ELSE <<n \div (More ^ i)>>
  IN w[0]

(* The number of bytes read and the number: -1 when it does not fit, -2   *)
(* when it is not written the shortest way. Input that ends early is read *)
(* as far as it goes.                                                     *)
read_varint(s) ==
  LET go[i \in 0 .. Len(s), n \in 0 .. 2 ^ (Bits + Payload)] ==
        LET shift == Payload * i
        IN IF i = Len(s) THEN [read |-> i, n |-> n]
           ELSE LET byte == s[i + 1]
                    was  == n + (byte % More) * 2 ^ shift
                IN IF shift + Payload >= Bits /\ byte >= 2 ^ Max(Bits - shift, 0)
                   THEN [read |-> -1, n |-> 0]
                   ELSE IF byte = 0 /\ i # 0 THEN [read |-> -2, n |-> 0]
                   ELSE IF byte < More THEN [read |-> i + 1, n |-> was]
                   ELSE go[i + 1, was]
  IN go[0, 0]

-----------------------------------------------------------------------------

(* Two digits for every byte. *)
buff_to_hex_nodelimer(s) ==
  [i \in 1 .. 2 * Len(s) |-> Digits(s[(i + 1) \div 2], Hex, 2)[2 - (i % 2)]]

(* The digits two by two; an odd last digit is a byte of its own; a symbol *)
(* that is no digit ends the conversion.                                   *)
parse_hexstr_to_binbuff(s) ==
  IF \E i \in 1 .. Len(s) : s[i] \notin 0 .. Hex - 1 THEN Fail
  ELSE [i \in 1 .. (Len(s) + 1) \div 2 |->
          IF 2 * i <= Len(s) THEN s[2 * i - 1] * Hex + s[2 * i] ELSE s[2 * i - 1]]

(* A fixed size value from its text: the sizes must agree. *)
parse_tpod_from_hex_string(s, size) ==
  LET buf == parse_hexstr_to_binbuff(s)
  IN IF Len(buf) # size THEN Fail ELSE buf

-----------------------------------------------------------------------------
Full == Len(EncSizes)
encoded_block_size(n) == IF n = 0 THEN 0 ELSE EncSizes[n]
FullEnc == encoded_block_size(Full)

(* decoded_block_sizes: -1 for a length no block has. *)
decoded_block_size(n) ==
  IF \E i \in 0 .. Full : encoded_block_size(i) = n
  THEN CHOOSE i \in 0 .. Full : encoded_block_size(i) = n
  ELSE -1

(* One block: the number its bytes write, in the alphabet, padded. *)
encode_block(block) ==
  Digits(Number(block, Hex * Hex), Alpha, encoded_block_size(Len(block)))

(* Variant: a block shorter than a full one may hold too large a number. *)
decode_block_wrap(block) ==
  LET size == decoded_block_size(Len(block))
      num  == Number(block, Alpha)
  IN IF size <= 0 THEN Fail
     ELSE IF \E i \in 1 .. Len(block) : block[i] \notin 0 .. Alpha - 1 THEN Fail
     ELSE IF size = Full /\ num >= (Hex * Hex) ^ Full THEN Fail
     ELSE Digits(num % (Hex * Hex) ^ size, Hex * Hex, size)

(* One block back: a wrong length, a symbol outside the alphabet and a     *)
(* number the bytes cannot hold are refused.                               *)
decode_block(block) ==
  LET size == decoded_block_size(Len(block))
      num  == Number(block, Alpha)
  IN IF size <= 0 THEN Fail
     ELSE IF \E i \in 1 .. Len(block) : block[i] \notin 0 .. Alpha - 1 THEN Fail
     ELSE IF num >= (Hex * Hex) ^ size THEN Fail
     ELSE Digits(num, Hex * Hex, size)

(* The blocks of s, n symbols each, the last one shorter. *)
Blocks(s, n) ==
  [i \in 1 .. (Len(s) + n - 1) \div n |->
     SubSeq(s, n * (i - 1) + 1, IF n * i < Len(s) THEN n * i ELSE Len(s))]

Join(ss) ==
  LET f[i \in 0 .. Len(ss)] == IF i = 0 THEN <<>> ELSE f[i - 1] \o ss[i]
  IN f[Len(ss)]

encode(data) ==
  LET bs == Blocks(data, Full)
  IN Join([i \in 1 .. Len(bs) |-> encode_block(bs[i])])

decode(enc) ==
  LET bs == Blocks(enc, FullEnc)
      ds == [i \in 1 .. Len(bs) |-> decode_block(bs[i])]
  IN IF enc = <<>> THEN <<>>
     ELSE IF decoded_block_size(Len(enc) % FullEnc) < 0 THEN Fail
     ELSE IF \E i \in 1 .. Len(ds) : ds[i] = Fail THEN Fail
     ELSE Join(ds)

-----------------------------------------------------------------------------
(* The first bytes of the hash of a string: any function of all its bytes. *)
cn_fast_hash(s) ==
  LET f[i \in 0 .. Len(s)] == IF i = 0 THEN 1 ELSE (f[i - 1] * 3 + s[i] * 7 + i) % 251
  IN Digits(f[Len(s)], Hex * Hex, SumSize)

encode_addr(tag, data) ==
  LET buf == write_varint(tag) \o data
  IN encode(buf \o cn_fast_hash(buf))

(* The checksum is the end of the decoded text; the tag comes first. *)
decode_addr(addr) ==
  LET d == decode(addr)
  IN IF d = Fail \/ Len(d) <= SumSize THEN [ok |-> FALSE]
     ELSE LET body == SubSeq(d, 1, Len(d) - SumSize)
              tag  == read_varint(body)
          IN IF cn_fast_hash(body) # Drop(d, Len(body)) \/ tag.read <= 0
             THEN [ok |-> FALSE]
             ELSE [ok |-> TRUE, tag |-> tag.n, data |-> Drop(body, tag.read)]

AddrLen == 2                          \* the spend key and the view key, a byte each
check_key(key) == key % 3 # 2         \* some bytes are no point of the curve
Prefix(testnet) == Tags[IF testnet THEN 2 ELSE 1]

get_account_address_as_str(testnet, adr) == encode_addr(Prefix(testnet), adr)

(* The old text: version, keys and a sum, in hexadecimal. *)
get_account_address_checksum(b) ==
  LET f[i \in 0 .. Len(b) - 1] == IF i = 0 THEN 0 ELSE (f[i - 1] + b[i]) % (Hex * Hex)
  IN f[Len(b) - 1]

(* The length of the text tells the two formats apart. Only the new one    *)
(* names the net and has its keys checked.                                 *)
get_account_address_from_str(testnet, str) ==
  IF Len(str) # 2 * (AddrLen + 2)
  THEN LET d == decode_addr(str)
       IN IF /\ d.ok
             /\ d.tag = Prefix(testnet)
             /\ Len(d.data) = AddrLen
             /\ \A i \in 1 .. AddrLen : check_key(d.data[i])
          THEN d.data ELSE Fail
  ELSE LET b == parse_hexstr_to_binbuff(str)
       IN IF /\ Len(b) = AddrLen + 2
             /\ b[1] = 0
             /\ b[Len(b)] = get_account_address_checksum(b)
          THEN SubSeq(b, 2, AddrLen + 1) ELSE Fail

-----------------------------------------------------------------------------
(* The seed of a wallet: a key is a sequence of groups, each written as     *)
(* three words; a checksum word follows. A word is its bytes; words of a    *)
(* seed with a checksum are recognized by their first bytes.                *)
seed_length == 3 * Groups
Length(l) == Len(Languages[l].words)
Trim(w, n) == SubSeq(w, 1, IF Len(w) < n THEN Len(w) ELSE n)

(* populate_maps: of words that are equal once trimmed, the last is found. *)
word_map(l, w) == CHOOSE i \in 1 .. Length(l) : Languages[l].words[i] = w
trimmed_word_map(l, t) ==
  LET same == {i \in 1 .. Length(l) : Trim(Languages[l].words[i], Languages[l].prefix) = t}
  IN CHOOSE i \in same : \A j \in same : j <= i

HasWord(l, w) == \E i \in 1 .. Length(l) : Languages[l].words[i] = w
HasTrimmed(l, t) == \E i \in 1 .. Length(l) : Trim(Languages[l].words[i], Languages[l].prefix) = t

(* The first language that has all the words. *)
find_seed_language(seed, has_checksum) ==
  LET matches(l) == \A i \in 1 .. Len(seed) :
        IF has_checksum THEN HasTrimmed(l, Trim(seed[i], Languages[l].prefix)) ELSE HasWord(l, seed[i])
      found == {l \in 1 .. Len(Languages) : matches(l)}
  IN IF found = {} THEN 0 ELSE CHOOSE l \in found : \A m \in found : l <= m

(* The checksum of the trimmed words; the code takes their CRC. *)
crc(bytes) ==
  LET f[i \in 0 .. Len(bytes)] == IF i = 0 THEN 5 ELSE (f[i - 1] * 31 + bytes[i]) % 9973 IN f[Len(bytes)]

create_checksum_index(words, n) ==
  (crc(Join([i \in 1 .. Len(words) |-> Trim(words[i], n)])) % seed_length) + 1

checksum_test(seed, n) ==
  LET body == SubSeq(seed, 1, Len(seed) - 1)
  IN Trim(body[create_checksum_index(body, n)], n) = Trim(seed[Len(seed)], n)

-----------------------------------------------------------------------------

(* Three indexes as one group, in the arithmetic of 32 bits. *)
GroupOf(n, w1, w2, w3) ==
  (w1 + n * (((n - w1) + w2) % n) + n * n * (((n - w2) + w3) % n)) % GroupSize

GroupFits(n, val, w1) == val % n = w1

Refused == [ok |-> FALSE]

Fill(groups) == IF Len(groups) = Groups THEN groups ELSE groups \o groups

words_to_bytes(seed) ==
  LET has_checksum == Len(seed) = seed_length + 1
      l == find_seed_language(seed, has_checksum)
      n == Length(l)
      at(i) == (IF has_checksum THEN trimmed_word_map(l, Trim(seed[i], Languages[l].prefix)) ELSE word_map(l, seed[i])) - 1
      count == (Len(seed) - (IF has_checksum THEN 1 ELSE 0)) \div 3
      groups == [k \in 1 .. count |-> GroupOf(n, at(3 * k - 2), at(3 * k - 1), at(3 * k))]
  IN IF Len(seed) \notin {seed_length \div 2, seed_length, seed_length + 1} THEN Refused
     ELSE IF l = 0 THEN Refused
     ELSE IF has_checksum /\ ~checksum_test(seed, Languages[l].prefix) THEN Refused
     ELSE IF \E k \in 1 .. count : ~GroupFits(n, groups[k], at(3 * k - 2)) THEN Refused
     ELSE [ok |-> TRUE, key |-> Fill(groups), language |-> l]

bytes_to_words(key, l) ==
  LET n == Length(l)
      w1(v) == v % n
      w2(v) == ((v \div n) + w1(v)) % n
      w3(v) == (((v \div n) \div n) + w2(v)) % n
      word(i) == Languages[l].words[i + 1]
      words == Join([k \in 1 .. Groups |-> <<word(w1(key[k])), word(w2(key[k])), word(w3(key[k]))>>])
  IN Append(words, words[create_checksum_index(words, Languages[l].prefix)])

get_is_old_style_seed(seed) == Len(seed) # seed_length + 1

-----------------------------------------------------------------------------
(* What write_varint writes is read back, in full and nothing more, also   *)
(* when other bytes follow it.                                             *)
VarintRoundTrip(n) ==
  \A rest \in {<<>>, <<0>>, <<More>>} :
    read_varint(write_varint(n) \o rest) = [read |-> Len(write_varint(n)), n |-> n]

(* A complete varint that read_varint accepts is the one write_varint      *)
(* writes: a number has one encoding, so equal objects have equal hashes.  *)
VarintCanonical(s) ==
  LET got == read_varint(s)
  IN got.read > 0 /\ s[got.read] < More => write_varint(got.n) = SubSeq(s, 1, got.read)

(* Bytes written in hexadecimal are read back: every byte takes two digits, *)
(* the small ones as well.                                                  *)
HexRoundTrip(s) == parse_tpod_from_hex_string(buff_to_hex_nodelimer(s), Len(s)) = s

(* Any bytes survive base 58, whatever their number: a last block keeps    *)
(* its size through the length of its text.                                *)
Base58RoundTrip(s) == decode(encode(s)) = s

(* A text that base 58 accepts is the text it would write: no two texts    *)
(* stand for the same bytes.                                               *)
Base58Canonical(s) == decode(s) # Fail => encode(decode(s)) = s

(* An address is understood by the net it was printed for, if its keys are *)
(* valid, and by that net only.                                            *)
AddressOfItsNet(adr) ==
  \A t \in BOOLEAN :
    LET str == get_account_address_as_str(t, adr)
    IN /\ get_account_address_from_str(~t, str) = Fail
       /\ get_account_address_from_str(t, str)
            = IF check_key(adr[1]) /\ check_key(adr[2]) THEN adr ELSE Fail

(* A mistyped address that is still accepted is not another spelling of an *)
(* address: it is exactly what would be printed for the keys it yields.    *)
AddressUnique(str) ==
  \A t \in BOOLEAN :
    LET got == get_account_address_from_str(t, str)
    IN got # Fail => get_account_address_as_str(t, got) = str

WithoutChecksum(s) == SubSeq(s, 1, Len(s) - 1)

(* The words shown for a key bring back the key and its language, with the *)
(* checksum word.                                                          *)
SeedRoundTrip(key, l) ==
  LET back == words_to_bytes(bytes_to_words(key, l))
  IN back.ok /\ back.key = key /\ back.language = l

(* The same words without the checksum, as older wallets wrote them, bring *)
(* back the key too; half of them give a key whose halves are equal.       *)
OldSeedRoundTrip(key, l) ==
  LET words == WithoutChecksum(bytes_to_words(key, l))
      back == words_to_bytes(words)
      half == words_to_bytes(SubSeq(words, 1, seed_length \div 2))
      first == SubSeq(key, 1, Groups \div 2)
  IN /\ back.ok /\ back.key = key
     /\ half.ok /\ half.key = first \o first
     /\ get_is_old_style_seed(words) /\ ~get_is_old_style_seed(bytes_to_words(key, l))

(* Whatever words are accepted are the words of the key they give: words   *)
(* whose group exceeds 32 bits are noticed by their first word.            *)
SeedCanonical(words) ==
  LET back == words_to_bytes(words)
  IN back.ok => WithoutChecksum(bytes_to_words(back.key, back.language)) = words
=============================================================================
