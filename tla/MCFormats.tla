----------------------------- MODULE MCFormats -----------------------------
(* Inputs for everything the node writes and reads back: text encodings,       *)
(* addresses and seeds (Encodings), amounts (Money), transactions, blocks and  *)
(* their extra (BinarySerialization), and portable storages in their binary    *)
(* and JSON forms and between two versions of a structure (PortableStorage,    *)
(* KeyValue).  A behaviour is one input, or one loading.                       *)
EXTENDS StorageEntries, FiniteSets

VARIABLES
    part,
    kind, input, par,                                  \* an input of a pure conversion
    source, whole, text, it, stack, result, m_root,    \* a storage being loaded
    writer, reader, wire, stored, prior, phase, stg, out    \* a structure on its way

inputVars == <<kind, input, par>>
loadVars == <<source, whole, text, it, stack, result, m_root>>
mapVars == <<writer, reader, wire, stored, prior, phase, stg, out>>
vars == <<part, inputVars, loadVars, mapVars>>

Parts == {"inputs", "binary", "json", "maps"}

SeqUpTo(S, n) == UNION {[1 .. i -> S] : i \in 0 .. n}

-----------------------------------------------------------------------------
(* Lists of seven words, whose three-word groups reach beyond a group's 8  *)
(* bits as 1626^3 reaches beyond 2^32.  Words of a list differ in their    *)
(* first two bytes; the last list is only read.                            *)
WordList(name, first) ==
    [name |-> name, prefix |-> 2,
     words |-> [i \in 1 .. 7 |-> <<first + i, first>> \o (IF i % 2 = 0 THEN <<i>> ELSE <<>>)]]
WordLists == <<WordList("one", 10), WordList("two", 30), WordList("old", 50)>>

(* Bytes of sixteen values; base 58 blocks of up to three bytes in an      *)
(* alphabet of five.                                                       *)
E == INSTANCE Encodings WITH
    Hex <- 4, Bits <- 7, Payload <- 3, Alpha <- 5, EncSizes <- <<2, 4, 6>>, SumSize <- 2,
    Tags <- <<3, 9>>, Languages <- WordLists, Written <- 2, GroupSize <- 256,
    Groups <- 2

M == INSTANCE Money WITH
    Modulus <- 1024, Decimals <- 2, MaxAmount <- 600, Thresholds <- {0, 1, 9, 10, 55, 100}

(* An address with one symbol replaced. *)
AlteredAddresses ==
    {[E!get_account_address_as_str(t, <<a, b>>) EXCEPT ![i] = x] :
       t \in BOOLEAN, a \in {0, 3}, b \in {1, 4}, i \in 1 .. 10, x \in 0 .. 5}

(* Three words of a list, then the list's first word. *)
WordSeeds(l) ==
    LET words == WordLists[l].words
    IN {[i \in 1 .. E!seed_length |-> IF i <= 3 THEN words[t[i]] ELSE words[1]] :
          t \in [1 .. 3 -> 1 .. 7]}

EncodingInputs ==
    \/ kind = "number" /\ input \in 0 .. 127 /\ par = 0
    \/ kind = "bytes"  /\ input \in SeqUpTo(0 .. 15, 2) \cup [1 .. 5 -> {0, 1, 15}] /\ par = 0
    \/ kind = "varint" /\ input \in SeqUpTo({0, 1, 2, 7, 8, 9, 15}, 4) /\ par = 0
    \/ kind = "base58" /\ input \in SeqUpTo(0 .. 5, 4) \cup [1 .. 6 -> {0, 1, 4}] /\ par = 0
    \/ kind = "keys"   /\ input \in [1 .. 2 -> 0 .. 15] /\ par = 0
    \/ kind = "text"   /\ input \in AlteredAddresses /\ par = 0
    \/ kind = "seed"   /\ input \in {<<a, b>> : a \in 0 .. 255, b \in {0, 100, 255}} /\ par \in {1, 2}
    \/ kind = "words"  /\ input \in WordSeeds(1) \cup WordSeeds(2) /\ par = 0

MoneyInputs ==
    \/ kind = "amount" /\ input \in 0 .. 600 /\ par \in {0, 1, 9, 10, 55, 100}
    \/ /\ kind = "price" /\ par = 0
       /\ input \in {[digits |-> ds, point |-> p] : ds \in SeqUpTo({0, 1, 9}, 5), p \in -1 .. 5}
       /\ input.point <= Len(input.digits)
    \/ kind = "sums" /\ input \in SeqUpTo({1, 2, 512, 1022, 1023}, 4) /\ par = 0
    \/ kind = "ring" /\ input \in SeqUpTo(0 .. 5, 4) /\ par = 0
    \/ kind = "split" /\ input \in SeqUpTo({1, 2, 7, 12, 30}, 3) /\ par \in 1 .. 4

-----------------------------------------------------------------------------
B == INSTANCE BinarySerialization

Ins == { [type |-> "gen", height |-> 9],
         [type |-> "script", prev |-> <<3>>, prevout |-> 5, sigset |-> <<1>>],
         [type |-> "scripthash", prev |-> <<3>>, prevout |-> 0, sigset |-> <<7>>,
          script |-> [keys |-> <<<<1>>>>, script |-> <<>>]],
         [type |-> "key", amount |-> 4, key_offsets |-> <<1, 15>>, k_image |-> <<6>>],
         [type |-> "key", amount |-> 0, key_offsets |-> <<>>, k_image |-> <<0>>] }
Outs == { [amount |-> 15, type |-> "key", key |-> <<0>>],
          [amount |-> 1, type |-> "scripthash", hash |-> <<7>>],
          [amount |-> 2, type |-> "script", keys |-> <<<<2>>, <<3>>>>, script |-> <<5>>] }

WithSignatures(tx) ==
    [tx EXCEPT !.signatures =
       [i \in 1 .. Len(tx.vin) |-> [j \in 1 .. B!get_signature_size(tx.vin[i]) |-> 5]]]

BareTxs ==
    [version : {0, 1}, unlock_time : {12}, vin : SeqUpTo(Ins, 2), vout : SeqUpTo(Outs, 2),
     extra : {<<>>, <<1, 0>>}, signatures : {<<>>}]
MinerTx ==
    [version |-> 1, unlock_time |-> 9, vin |-> <<[type |-> "gen", height |-> 3]>>,
     vout |-> <<[amount |-> 15, type |-> "key", key |-> <<0>>]>>, extra |-> <<1, 6>>,
     signatures |-> <<>>]
BlocksToWrite ==
    [major : {0, 1}, minor : {0, 7}, timestamp : {0, 13}, prev_id : {<<0>>, <<7>>},
     nonce : {<<0, 1>>, <<7, 7>>}, miner_tx : {MinerTx, WithSignatures(MinerTx)},
     tx_hashes : SeqUpTo({<<1>>, <<6>>}, 2)]

(* pad is the padding of a miner's extra behind its key and its nonce. *)
ObjectInputs ==
    \/ kind = "tx" /\ input \in BareTxs \cup {WithSignatures(tx) : tx \in BareTxs} /\ par = 0
    \/ kind = "block" /\ input \in BlocksToWrite /\ par = 0
    \/ kind = "raw" /\ input \in SeqUpTo({0, 1, 2, 4, 7}, 6) /\ par = 0
    \/ kind = "extra" /\ input \in SeqUpTo({0, 1, 2, 3, 5}, 4) /\ par = 0
    \/ /\ kind = "nonce" /\ par \in 0 .. 8
       /\ input \in SeqUpTo({0, 2, 5}, 3) \cup {[j \in 1 .. i |-> 0] : i \in 4 .. 7}
    \/ kind = "pay" /\ input \in 0 .. 7 /\ par \in 0 .. 7
-----------------------------------------------------------------------------
(* Storages: every type of value, sizes and counts that need two bytes,    *)
(* characters that are escaped, numbers at the limits, sections nested up  *)
(* to and beyond the recursion limit, and texts no writer wrote.           *)
InArray(name, s) == <<<<name, <<ARRAY, <<OBJECT, <<s>>>>>>>>>>
Storages(a, b, c, scalars, arrays) ==
    LET inner == <<<<a, <<STRING_, <<6>>>>>>>>
        twice == <<<<a, <<OBJECT, inner>>>>>>
    IN {<<<<a, e>>, <<c, <<UINT8, 1>>>>>> : e \in scalars \cup arrays}
         \cup {<<<<a, <<BOOL, 0>>>>, <<b, e>>>> : e \in arrays}
         \cup {twice, <<<<c, <<OBJECT, twice>>>>>>, InArray(b, twice), InArray(b, InArray(b, inner)),
               <<<<a, <<OBJECT, <<<<a, <<OBJECT, twice>>>>>>>>>>>>, InArray(b, InArray(b, InArray(b, inner)))}

BinaryStorages ==
    Storages(<<1>>, <<1, 2>>, <<2>>,
        {<<INT64, -3>>, <<INT16, -512>>, <<INT8, 15>>, <<UINT64, 70000>>, <<UINT32, 32767>>,
         <<UINT16, 1023>>, <<UINT8, 31>>, <<INT32, 0>>, <<DUOBLE, 3>>, <<BOOL, 1>>,
         <<STRING_, <<>>>>, <<STRING_, <<4, 5>>>>, <<STRING_, [i \in 1 .. 9 |-> i]>>},
        {<<ARRAY, <<UINT16, <<1, 600>>>>>>, <<ARRAY, <<BOOL, [i \in 1 .. 8 |-> 1]>>>>,
         <<ARRAY, <<STRING_, <<<<7>>, <<>>>>>>>>, <<ARRAY, <<INT8, <<-16>>>>>>,
         <<ARRAY, <<OBJECT, <<<<<<<<1>>, <<UINT8, 2>>>>>>, <<>>>>>>>>})
OtherBlobs ==
    {Header, <<Signature, 2, 0>>, <<3, FormatVer, 0>>, Header \o <<0>>,
     Header \o <<4, 1, 1, 14, 0>>,                             \* no such type
     Header \o <<4, 1, 1, ARRAY, UINT8 + FLAG_ARRAY, 4, 9>>,   \* a spelled-out array
     Header \o <<4, 1, 1, ARRAY, UINT8, 9>>,
     Header \o <<8, 1, 2, UINT8, 5, 1, 1, UINT8, 6>>,          \* names out of order
     Header \o <<8, 1, 1, UINT8, 5, 1, 1, UINT8, 6, 7>>}       \* a name twice

JsonStorages ==
    Storages(<<11>>, <<11, Quote>>, <<12>>,
        {<<INT8, -16>>, <<INT64, Lowest(INT64)>>, <<UINT64, Highest(UINT64)>>, <<UINT8, 10>>,
         <<INT32, 7>>, <<DUOBLE, 3>>, <<DUOBLE, -1>>, <<BOOL, 1>>, <<BOOL, 0>>,
         <<STRING_, <<>>>>, <<STRING_, <<Backslash>>>>, <<STRING_, <<Newline, LetterN>>>>,
         <<STRING_, <<Backslash, LetterN, Quote, Slash>>>>, <<STRING_, <<Comma, CloseBrace>>>>},
        {<<ARRAY, <<UINT16, <<1, 600>>>>>>, <<ARRAY, <<BOOL, <<1, 0, 1>>>>>>,
         <<ARRAY, <<STRING_, <<<<Quote>>, <<>>>>>>>>, <<ARRAY, <<INT8, <<-16, 3>>>>>>,
         <<ARRAY, <<DUOBLE, <<1, 5>>>>>>, <<ARRAY, <<UINT64, <<1, Highest(INT64) + 1>>>>>>,
         <<ARRAY, <<OBJECT, <<<<<<<<11>>, <<UINT8, 2>>>>>>, <<>>>>>>>>})
OtherTexts ==
    {<<OpenBrace>> \o Quoted(<<11>>) \o <<Colon>> \o v \o <<CloseBrace>> :
       v \in {<<WordNull>>, <<OpenBracket, CloseBracket>>, <<OpenBracket, OpenBracket>>,
              <<OpenBracket, 1, Comma, 2, Dot, 5, CloseBracket>>,
              <<OpenBracket, 1, Dot, 5, Comma, 2, CloseBracket>>,
              <<OpenBracket, 1, Comma, WordTrue, CloseBracket>>,
              <<OpenBracket, WordNull, CloseBracket>>, <<Minus>>, <<LetterN>>,
              Decimal(Highest(UINT64) + 1)}}
      \cup {<<OpenBrace, Space>> \o Quoted(<<11>>) \o <<Space, Space, Colon, OpenBrace>>
              \o Quoted(<<11>>) \o <<Colon, 1, CloseBrace, Comma>> \o Quoted(<<11>>)
              \o <<Colon, OpenBrace>> \o Quoted(<<12>>) \o <<Colon, 2, CloseBrace, CloseBrace>>,
            <<Comma>>, <<OpenBrace, Comma>>, <<OpenBrace>> \o Quoted(<<11>>) \o <<Comma>>}

Storage == INSTANCE PortableStorage WITH
    BinarySections <- BinaryStorages, Blobs <- OtherBlobs, RecursionLimit <- 20,
    JsonSections <- JsonStorages, Texts <- OtherTexts

-----------------------------------------------------------------------------
(* Three versions of a structure, one with structures inside it, and one   *)
(* that gives a name another type.                                         *)
InnerMap == <<<<<<1>>, "val", UINT8>>, <<<<2>>, "vals", UINT16>>>>
FieldMaps ==
    {<<<<<<1>>, "val", UINT16>>, <<<<2>>, "vals", UINT8>>, <<<<3>>, "blob", 2>>>>,
     <<<<<<1>>, "val", INT8>>, <<<<2>>, "vals", INT16>>, <<<<3>>, "blobs", 2>>>>,
     <<<<<<1>>, "val", INT16>>, <<<<2>>, "vals", STRING_>>>>,
     <<<<<<2>>, "obj", InnerMap>>, <<<<3>>, "objs", InnerMap>>>>,
     <<<<<<3>>, "val", STRING_>>, <<<<1>>, "val", BOOL>>>>}

ValuesOf(f) ==
    CASE f[2] = "val" /\ f[3] = STRING_ -> {<<>>, <<4, 5>>, <<6>>}
      [] f[2] = "val" /\ f[3] = BOOL -> {0, 1}
      [] f[2] = "val" /\ f[3] = INT16 -> {-20, 15}
      [] f[2] = "val" /\ f[3] = INT8 -> {-16, 2}
      [] f[2] = "val" /\ f[3] \in Unsigned -> {3, 20}
      [] f[2] = "blob" -> {<<0, 0>>, <<7, 8>>}
      [] f[2] = "blobs" -> {<<>>, <<<<7, 8>>, <<9, 9>>>>}
      [] f[2] = "vals" /\ f[3] = STRING_ -> {<<>>, <<<<1>>, <<>>>>}
      [] f[2] = "vals" /\ f[3] # STRING_ ->
           {<<>>, <<1, 2>>, <<IF f[3] \in Signed THEN -5 ELSE 31>>}
      [] f[2] = "obj" -> {3, 20} \X {<<>>, <<1, 2>>, <<31>>}
      [] f[2] = "objs" -> {<<>>, <<<<3, <<4>>>>, <<20, <<>>>>>>}
StructuresOf(map) ==
    IF Len(map) = 2 THEN ValuesOf(map[1]) \X ValuesOf(map[2])
    ELSE ValuesOf(map[1]) \X ValuesOf(map[2]) \X ValuesOf(map[3])

Fields == INSTANCE KeyValue WITH Maps <- FieldMaps, Structures <- StructuresOf

-----------------------------------------------------------------------------
NoLoad ==
    /\ source = <<>> /\ whole = FALSE /\ text = <<>> /\ it = 0
    /\ stack = <<>> /\ result = "run" /\ m_root = <<>>
NoMap ==
    /\ writer = <<>> /\ reader = <<>> /\ wire = "binary" /\ stored = <<>> /\ prior = <<>>
    /\ phase = "store" /\ stg = <<>> /\ out = <<>>

Init ==
    /\ part \in Parts
    /\ IF part = "inputs" THEN EncodingInputs \/ MoneyInputs \/ ObjectInputs
       ELSE kind = "none" /\ input = 0 /\ par = 0
    /\ IF part = "binary" THEN Storage!BinaryInit
       ELSE IF part = "json" THEN Storage!JsonInit ELSE NoLoad
    /\ IF part = "maps" THEN Fields!Init ELSE NoMap

BinaryPart == part = "binary" /\ UNCHANGED <<part, inputVars, mapVars>>
JsonPart == part = "json" /\ UNCHANGED <<part, inputVars, mapVars>>
MapsPart == part = "maps" /\ UNCHANGED <<part, inputVars, loadVars>>

(* An input stands for itself. *)
Converted == part = "inputs" /\ UNCHANGED vars

Next ==
    \/ Converted
    \/ BinaryPart /\ Storage!BinaryNext
    \/ JsonPart /\ Storage!JsonNext
    \/ MapsPart /\ Fields!Next

(* load_from_json runs to its end once it was called. *)
Spec == Init /\ [][Next]_vars /\ WF_vars(JsonPart /\ Storage!JsonNext)

-----------------------------------------------------------------------------
(* What the node writes it reads back, whatever it wrote: numbers, bytes   *)
(* and addresses as text, the words of a seed, amounts as text and in      *)
(* pieces, transactions and blocks with other bytes behind them, the keys  *)
(* and payment ids in their extra, storages of every type, and structures  *)
(* loaded into an object that held something else.                         *)
WrittenIsRead ==
    /\ kind = "number" => E!VarintRoundTrip(input)
    /\ kind = "bytes" => E!HexRoundTrip(input) /\ E!Base58RoundTrip(input)
    /\ kind = "keys" => E!AddressOfItsNet(input)
    /\ kind = "seed" => E!SeedRoundTrip(input, par) /\ E!OldSeedRoundTrip(input, par)
    /\ kind = "amount" =>
         M!PrintParse(input) /\ M!DecomposeConserves(input, par) /\ M!MinerPaidInFull(input, par)
    /\ kind = "ring" => M!OffsetsRoundTrip(input)
    /\ kind = "split" => M!SplitConserves(input, par) /\ M!StrategiesConserve(input)
    /\ kind = "tx" => B!TxSelfDelimiting(input) /\ B!TxJsonWellFormed(input)
    /\ kind = "block" => B!BlockSelfDelimiting(input) /\ B!BlockJsonWellFormed(input)
    /\ kind = "nonce" =>
         \A k \in {0, 6} : B!MinerKeyFound(k, par, input) /\ B!MinerExtraParses(k, par, input)
    /\ kind = "pay" => B!PaymentIdArrives(input, par)
    /\ part = "binary" => Storage!RoundTrip
    /\ part = "json" => Storage!JsonRoundTrip
    /\ part = "maps" => Fields!LoadedAsStored

(* What the node accepts is what it, or some node, would have written: one *)
(* spelling for a number, a base 58 text, an address and a seed; no amount *)
(* but the one the text says and no sum that wrapped; no list longer than  *)
(* its bytes; no storage that was cut short taken for a whole one, and no  *)
(* value that was not in the text or does not fit the reader's type.       *)
AcceptedIsWritten ==
    /\ kind = "varint" => E!VarintCanonical(input)
    /\ kind = "base58" => E!Base58Canonical(input)
    /\ kind = "text" => E!AddressUnique(input)
    /\ kind = "words" => E!SeedCanonical(input)
    /\ kind = "price" => M!ParseExact(input)
    /\ kind = "sums" => M!OverflowExact(input)
    /\ kind = "raw" => B!ParseBounded(input) /\ B!ReadIsStable(input)
    /\ kind = "extra" => B!FieldsCompose(input)
    /\ kind = "nonce" => B!PaymentIdExact(input)
    /\ part = "binary" => Storage!TruncatedRefused /\ Storage!NamesOrdered
    /\ part = "json" => Storage!NothingMadeUp
    /\ part = "maps" => Fields!VersionsMix

(* Whatever the text, and although an unfinished section sends its caller  *)
(* back to a character that was read before, load_from_json comes to an    *)
(* end.                                                                    *)
LoadReturns == part = "json" => <>(result # "run")
=============================================================================
