--------------------------- MODULE StorageEntries ---------------------------
(***************************************************************************)
(* The values of epee's portable storage, by which every levin command,    *)
(* every RPC and the node's own JSON files are carried: the entries of a   *)
(* section (portable_storage_base.h), the conversion between the integer   *)
(* types when a value is read (portable_storage_val_converters.h), the     *)
(* binary form (portable_storage_to_bin.h) and the JSON form               *)
(* (portable_storage_to_json.h) that they are written in.                  *)
(*                                                                         *)
(* An entry is a pair of its type code and its payload: a number, a        *)
(* sequence of characters, a sequence of <<name, entry>> pairs in the      *)
(* order of the names (a section) or a pair of the element type and the    *)
(* elements (an array).  Widths are scaled: a byte has 5 bits, and the     *)
(* types of 8, 16, 32 and 64 bits have 1, 2, 3 and 4 bytes.  A double is a *)
(* number of halves.                                                       *)
(***************************************************************************)
EXTENDS Integers, Sequences, SequencesExt

INT64 == 1
INT32 == 2
INT16 == 3
INT8 == 4
UINT64 == 5
UINT32 == 6
UINT16 == 7
UINT8 == 8
DUOBLE == 9
STRING_ == 10
BOOL == 11
OBJECT == 12
ARRAY == 13
FLAG_ARRAY == 16
Byte == 32                       \* values of a byte

Signed == INT64..INT8
Unsigned == UINT64..UINT8
Pods == (INT64..DUOBLE) \cup {BOOL}
\* sizeof of a plain type.
SizeOf(t) ==
  CASE t \in {INT64, UINT64, DUOBLE} -> 4
    [] t \in {INT32, UINT32} -> 3
    [] t \in {INT16, UINT16} -> 2
    [] OTHER -> 1
Lowest(t) == IF t \in Signed THEN -((Byte ^ SizeOf(t)) \div 2) ELSE 0
Highest(t) == IF t \in Signed THEN (Byte ^ SizeOf(t)) \div 2 - 1 ELSE Byte ^ SizeOf(t) - 1

\* The order of the names in the map of a section's entries.
NameLess(a, b) ==
  \E i \in 0..Len(a):
    /\ i < Len(b) /\ SubSeq(a, 1, i) = SubSeq(b, 1, i)
    /\ i = Len(a) \/ a[i + 1] < b[i + 1]

-----------------------------------------------------------------------------
(***************************************************************************)
(* convert_t: the same type, or one integer type to another when the value *)
(* fits; anything else throws.                                             *)
(***************************************************************************)
WrongConversion == -(Byte ^ 5)       \* outside every type: the code throws
convert_int_to_uint(from, to) ==
  IF from >= 0 /\ from <= Highest(to) THEN from ELSE WrongConversion
convert_int_to_int(from, to) ==
  IF from >= Lowest(to) /\ from <= Highest(to) THEN from ELSE WrongConversion
convert_uint_to_any_int(from, to) ==
  IF from <= Highest(to) THEN from ELSE WrongConversion
convert_t(entry, to) ==
  LET t == entry[1]
      v == entry[2]
  IN CASE t = to -> v
       [] t # to /\ t \in Signed /\ to \in Signed -> convert_int_to_int(v, to)
       [] t \in Signed /\ to \in Unsigned -> convert_int_to_uint(v, to)
       [] t # to /\ t \in Unsigned /\ to \in Signed \cup Unsigned -> convert_uint_to_any_int(v, to)
       [] OTHER -> WrongConversion

-----------------------------------------------------------------------------
(***************************************************************************)
(* The binary form.                                                        *)
(***************************************************************************)
\* The n low bytes of a number in two's complement, the lowest first.
Bytes(v, n) == [i \in 1..n |-> (v \div (Byte ^ (i - 1))) % Byte]

\* pack_varint: the two low bits tell how many bytes there are.
pack_varint(v) ==
  IF v <= Byte \div 4 - 1 THEN Bytes(4 * v, 1)
  ELSE IF v <= (Byte ^ 2) \div 4 - 1 THEN Bytes(4 * v + 1, 2)
  ELSE IF v <= (Byte ^ 3) \div 4 - 1 THEN Bytes(4 * v + 2, 3)
  ELSE Bytes(4 * v + 3, 4)

put_string(s) == pack_varint(Len(s)) \o s
pack_pod_type(t, v) == Bytes(v, SizeOf(t))

RECURSIVE pack_section(_), pack_entry(_), pack_array_entry(_)
\* pack_entry_to_buff of a section: its size, then each name with its entry.
pack_section(s) ==
  pack_varint(Len(s))
    \o FlattenSeq([i \in 1..Len(s) |-> <<Len(s[i][1])>> \o s[i][1] \o pack_entry(s[i][2])])
\* storage_entry_store_visitor: an array writes its own, flagged, type.
pack_entry(e) ==
  CASE e[1] \in Pods -> <<e[1]>> \o pack_pod_type(e[1], e[2])
    [] e[1] = STRING_ -> <<e[1]>> \o put_string(e[2])
    [] e[1] = OBJECT -> <<e[1]>> \o pack_section(e[2])
    [] e[1] = ARRAY -> pack_array_entry(e[2])
\* array_entry_store_visitor.
pack_array_entry(a) ==
  <<a[1] + FLAG_ARRAY>> \o pack_varint(Len(a[2]))
    \o FlattenSeq([i \in 1..Len(a[2]) |->
         CASE a[1] \in Pods -> pack_pod_type(a[1], a[2][i])
           [] a[1] = STRING_ -> put_string(a[2][i])
           [] a[1] = OBJECT -> pack_section(a[2][i])])

Signature == 9
FormatVer == 1
Header == <<Signature, FormatVer>>
\* store_to_binary.
store_to_binary(root) == Header \o pack_section(root)

-----------------------------------------------------------------------------
(***************************************************************************)
(* The JSON form, a sequence of characters.  Characters of the strings are *)
(* numbers; the ones below stand for the characters that the form uses or  *)
(* escapes.  A word is one character.                                      *)
(***************************************************************************)
Quote == 20
Backslash == 21
Newline == 22        \* a control character, escaped as \n
LetterN == 14
Slash == 23
Minus == 24
Dot == 25
OpenBrace == 26
CloseBrace == 27
OpenBracket == 28
CloseBracket == 29
Colon == 30
Comma == 31
Space == 32
WordTrue == 33
WordFalse == 34
WordNull == 35
Digits == 0..9

\* transform_to_escape_sequence.
transform_to_escape_sequence(s) ==
  FlattenSeq([i \in 1..Len(s) |->
    CASE s[i] = Newline -> <<Backslash, LetterN>>
      [] s[i] \in {Quote, Backslash, Slash} -> <<Backslash, s[i]>>
      [] OTHER -> <<s[i]>>])

RECURSIVE Decimal(_)
\* The decimal digits of a number.
Decimal(n) == IF n < 10 THEN <<n>> ELSE Append(Decimal(n \div 10), n % 10)
\* operator<< of an integer; of a double it writes no point when there is no
\* fraction.
Number(n) == IF n < 0 THEN <<Minus>> \o Decimal(-n) ELSE Decimal(n)
Double(h) ==
  LET abs == IF h < 0 THEN -h ELSE h IN
  (IF h < 0 THEN <<Minus>> ELSE <<>>) \o Decimal(abs \div 2)
    \o IF abs % 2 = 0 THEN <<>> ELSE <<Dot, 5>>

Separated(ss) ==
  FlattenSeq([i \in 1..Len(ss) |-> IF i = Len(ss) THEN ss[i] ELSE ss[i] \o <<Comma>>])
Quoted(s) == <<Quote>> \o transform_to_escape_sequence(s) \o <<Quote>>

RECURSIVE dump_section(_), dump_entry(_)
\* dump_as_json of a section; newlines and indentation are one space each.
dump_section(s) ==
  <<OpenBrace>>
    \o Separated([i \in 1..Len(s) |->
         <<Space>> \o Quoted(s[i][1]) \o <<Colon, Space>> \o dump_entry(s[i][2])])
    \o <<Space, CloseBrace>>
\* dump_as_json of an entry, an array's elements included.
dump_entry(e) ==
  CASE e[1] = STRING_ -> Quoted(e[2])
    [] e[1] = BOOL -> <<IF e[2] = 1 THEN WordTrue ELSE WordFalse>>
    [] e[1] = DUOBLE -> Double(e[2])
    [] e[1] = OBJECT -> dump_section(e[2])
    [] e[1] \in Signed \cup Unsigned -> Number(e[2])
    [] e[1] = ARRAY ->
         <<OpenBracket>>
           \o Separated([i \in 1..Len(e[2][2]) |-> dump_entry(<<e[2][1], e[2][2][i]>>)])
           \o <<CloseBracket>>
=============================================================================
