-------------------------- MODULE PortableStorage --------------------------
(***************************************************************************)
(* Loading a portable storage, from its binary form and from JSON.  Either *)
(* loader calls itself for what is nested in what it reads; its calls are  *)
(* the frames of a stack.                                                  *)
(***************************************************************************)
EXTENDS StorageEntries

CONSTANTS BinarySections,    \* root sections that are stored and loaded
          Blobs,             \* further texts that are loaded from the binary form
          RecursionLimit,    \* EPEE_PORTABLE_STORAGE_RECURSION_LIMIT_INTERNAL
          JsonSections,      \* root sections that are dumped and loaded
          Texts              \* further texts that are loaded from JSON

VARIABLES source,    \* the section that was written, or <<>> for a foreign text
          whole,     \* is text all that was written?
          text,      \* the bytes or characters
          it,        \* bytes consumed, or the index of the character looked at
          stack,     \* sections and arrays being read, the innermost last
          result,    \* "run", or what load_from_binary or load_from_json returned
          m_root     \* the section read

vars == <<source, whole, text, it, stack, result, m_root>>

Top == stack[Len(stack)]
Below == SubSeq(stack, 1, Len(stack) - 1)

\* An exception, which the loaders turn into false.
Throw == result' = "false" /\ UNCHANGED <<source, whole, text, it, stack, m_root>>

\* The loader has returned.
Returned == result # "run" /\ UNCHANGED vars

-----------------------------------------------------------------------------
(***************************************************************************)
(* load_from_binary and throwable_buffer_reader of                         *)
(* portable_storage_from_bin.h.  Sections and arrays being read are        *)
(* frames; a frame remembers the depth of the reader's recursion counter,  *)
(* so that the limit strikes where the code's guards (one per nested call) *)
(* strike.  An array of arrays is not among the inputs: no message of the  *)
(* program holds one.                                                      *)
(***************************************************************************)
\* A frame: a section or an array of a type, the number of entries still to be
\* read, what was read, the name it will get in the section around it and the
\* value of m_recursion_count while it is read.
SectionFrame(count, name, depth) ==
  [type |-> OBJECT, left |-> count, read |-> <<>>, name |-> name, depth |-> depth]
ArrayFrame(type, count, name, depth) ==
  [type |-> type + FLAG_ARRAY, left |-> count, read |-> <<>>, name |-> name, depth |-> depth]

BinaryInit ==
  /\ \/ \E s \in BinarySections:
          /\ source = s
          /\ \E n \in 0..Len(store_to_binary(s)):
               /\ text = SubSeq(store_to_binary(s), 1, n)
               /\ whole = (n = Len(store_to_binary(s)))
     \/ source = <<>> /\ whole = FALSE /\ text \in Blobs
  /\ it = 0 /\ stack = <<>> /\ result = "run" /\ m_root = <<>>

-----------------------------------------------------------------------------
(***************************************************************************)
(* Reading from the buffer.  A reading is what was read, where the buffer  *)
(* goes on and whether the buffer was long enough.                         *)
(***************************************************************************)
Throws == [ok |-> FALSE, v |-> <<>>, next |-> it]
\* read(void*, size_t).
Take(p, n) ==
  IF Len(text) - p >= n THEN [ok |-> TRUE, v |-> SubSeq(text, p + 1, p + n), next |-> p + n]
  ELSE Throws

\* The number in little-endian bytes, and the signed one in two's complement.
Value(bs) == FoldRight(LAMBDA b, v: b + Byte * v, bs, 0)
PodValue(t, bs) ==
  IF t \in Signed /\ Value(bs) > Highest(t) THEN Value(bs) - Byte ^ SizeOf(t) ELSE Value(bs)
read_pod(t, p) ==
  LET r == Take(p, SizeOf(t)) IN
  IF r.ok THEN [r EXCEPT !.v = PodValue(t, r.v)] ELSE r

\* read_varint.
read_varint(p) ==
  IF Len(text) - p < 1 THEN Throws
  ELSE LET r == Take(p, 1 + (text[p + 1] % 4)) IN
       IF r.ok THEN [r EXCEPT !.v = Value(r.v) \div 4] ELSE r

\* read(std::string&).
read_string(p) ==
  LET n == read_varint(p) IN
  IF n.ok THEN Take(n.next, n.v) ELSE n

\* read_sec_name.
read_sec_name(p) ==
  LET n == read_pod(UINT8, p) IN
  IF n.ok THEN Take(n.next, n.v) ELSE n

\* The guards nested in a call when it is made at depth d all hold.
Within(d, calls) == d + calls < RecursionLimit

-----------------------------------------------------------------------------
(***************************************************************************)
(* Steps                                                                   *)
(***************************************************************************)
\* load_from_binary up to the count of the root section: the header is checked,
\* and the reader refuses an empty rest.
load_from_binary ==
  /\ result = "run" /\ stack = <<>>
  /\ IF Len(text) >= Len(Header) /\ SubSeq(text, 1, Len(Header)) = Header /\ Len(text) > Len(Header)
     THEN LET n == read_varint(Len(Header)) IN
          IF n.ok /\ Within(1, 4)
          THEN /\ stack' = <<SectionFrame(n.v, <<>>, 1)>>
               /\ it' = n.next
               /\ UNCHANGED <<source, whole, text, result, m_root>>
          ELSE Throw
     ELSE Throw

\* std::map::insert: the name keeps the entry it has.
Insert(s, name, entry) ==
  IF \E i \in 1..Len(s): s[i][1] = name THEN s
  ELSE SelectSeq(s, LAMBDA x: NameLess(x[1], name)) \o <<<<name, entry>>>>
         \o SelectSeq(s, LAMBDA x: NameLess(name, x[1]))

\* The frame f has read one more entry (of a section) or element (of an array).
Added(f, name, entry) ==
  [f EXCEPT !.left = @ - 1,
            !.read = IF f.type = OBJECT THEN Insert(@, name, entry) ELSE Append(@, entry[2])]

\* A leaf of the innermost frame was read: the reader goes on behind it.
Leaf(r, calls, name, t) ==
  IF r.ok /\ Within(Top.depth, calls)
  THEN /\ stack' = Append(Below, Added(Top, name, <<t, r.v>>))
       /\ it' = r.next
       /\ UNCHANGED <<source, whole, text, result, m_root>>
  ELSE Throw
\* A section or an array begins: its count is read and it becomes the innermost.
Open(frame, n) ==
  IF n.ok /\ Within(frame.depth, 4)
  THEN /\ stack' = Append(stack, frame)
       /\ it' = n.next
       /\ UNCHANGED <<source, whole, text, result, m_root>>
  ELSE Throw

\* load_storage_array_entry of type t, read at position p by calls nested calls.
LoadArray(t, p, name, calls) ==
  LET n == read_varint(p) IN
  IF t \in Pods \cup {STRING_, OBJECT}
  THEN Open(ArrayFrame(t, n.v, name, Top.depth + calls), n)
  ELSE Throw

\* One turn of the loop of read(section&): a name, a type and the entry.
ReadEntry ==
  /\ result = "run" /\ stack # <<>> /\ Top.type = OBJECT /\ Top.left > 0
  /\ LET name == read_sec_name(it)
         type == read_pod(UINT8, name.next)
     IN IF ~(name.ok /\ type.ok /\ Within(Top.depth, 3)) THEN Throw
        ELSE CASE type.v >= FLAG_ARRAY -> LoadArray(type.v - FLAG_ARRAY, type.next, name.v, 3)
               [] type.v \in Pods -> Leaf(read_pod(type.v, type.next), 4, name.v, type.v)
               [] type.v = STRING_ -> Leaf(read_string(type.next), 8, name.v, type.v)
               [] type.v = OBJECT ->
                    LET n == read_varint(type.next) IN
                    Open(SectionFrame(n.v, name.v, Top.depth + 3), n)
               [] type.v = ARRAY ->
                    LET t == read_pod(UINT8, type.next) IN
                    IF t.ok /\ t.v >= FLAG_ARRAY /\ Within(Top.depth, 4)
                    THEN LoadArray(t.v - FLAG_ARRAY, t.next, name.v, 4)
                    ELSE Throw
               [] OTHER -> Throw

\* One turn of the loop of read_ae.
ReadElement ==
  /\ result = "run" /\ stack # <<>> /\ Top.type > FLAG_ARRAY /\ Top.left > 0
  /\ LET t == Top.type - FLAG_ARRAY IN
     CASE t \in Pods -> Leaf(read_pod(t, it), 3, <<>>, t)
       [] t = STRING_ -> Leaf(read_string(it), 6, <<>>, t)
       [] t = OBJECT ->
            LET n == read_varint(it) IN
            Open(SectionFrame(n.v, <<>>, Top.depth + 2), n)

\* The innermost section or array is complete and goes into the one around it.
Close ==
  /\ result = "run" /\ stack # <<>> /\ Top.left = 0
  /\ IF Len(stack) = 1
     THEN m_root' = Top.read /\ result' = "true" /\ UNCHANGED stack
     ELSE LET entry == IF Top.type = OBJECT THEN <<OBJECT, Top.read>>
                       ELSE <<ARRAY, <<Top.type - FLAG_ARRAY, Top.read>>>>
          IN /\ stack' = [Below EXCEPT ![Len(Below)] = Added(@, Top.name, entry)]
             /\ UNCHANGED <<m_root, result>>
  /\ UNCHANGED <<source, whole, text, it>>

BinaryNext == load_from_binary \/ ReadEntry \/ ReadElement \/ Close \/ Returned

-----------------------------------------------------------------------------
RECURSIVE Nesting(_)
\* The levels of sections in sections, through arrays or not.
Nesting(s) ==
  LET inner == {Nesting(s[i][2][2]): i \in {j \in 1..Len(s): s[j][2][1] = OBJECT}}
         \cup UNION {{Nesting(s[i][2][2][2][k]): k \in 1..Len(s[i][2][2][2])}:
                 i \in {j \in 1..Len(s): s[j][2][1] = ARRAY /\ s[j][2][2][1] = OBJECT}}
  IN IF inner = {} THEN 0 ELSE 1 + CHOOSE m \in inner: \A x \in inner: x <= m

\* What store_to_binary wrote is what load_from_binary reads, of whatever types
\* and sizes; only sections nested deeper than the recursion limit allows, which
\* the writer does not know of, may be refused.
RoundTrip ==
  whole /\ result # "run" =>
    /\ result = "true" => m_root = source
    /\ result = "false" => 5 * Nesting(source) + 9 >= RecursionLimit

\* A text that was cut short, wherever, is refused: no count or length ends the
\* reading early.
TruncatedRefused == source # <<>> /\ ~whole => result # "true"

\* A section holds a name once, in the order of the names, whatever was loaded.
NamesOrdered ==
  \A i, j \in 1..Len(m_root): i < j => NameLess(m_root[i][1], m_root[j][1])

-----------------------------------------------------------------------------
(***************************************************************************)
(* json::load_from_json and run_handler of portable_storage_from_json.h,   *)
(* with the matchers of parserse_base_utils.h.  run_handler calls itself   *)
(* for a section in a section or an array; its calls are the frames, and   *)
(* one step is one turn of its loop over the characters.                   *)
(***************************************************************************)
\* A call: its match_state, the name last read, array_md as the type of the
\* elements, the section it fills, and where its text begins.
Call(section, start) ==
  [state |-> "section_start", name |-> <<>>, array_md |-> 0, section |-> section, start |-> start]

JsonInit ==
  /\ \/ \E s \in JsonSections:
          /\ source = s
          /\ \E n \in 0..Len(dump_section(s)):
               /\ text = SubSeq(dump_section(s), 1, n)
               /\ whole = (n = Len(dump_section(s)))
     \/ source = <<>> /\ whole = FALSE /\ text \in Texts
  /\ it = 1 /\ stack = <<Call(<<>>, 1)>> /\ result = "run" /\ m_root = <<>>

-----------------------------------------------------------------------------
(***************************************************************************)
(* The matchers: whether they match, the value and the index of the last   *)
(* character they take.  All of them throw at the end of the text.         *)
(***************************************************************************)
NoMatch == [ok |-> FALSE, v |-> 0, end |-> it]

\* match_string2 on the quote at index p: escape_mode at each index, the closing
\* quote, and the characters between.
match_string2(p) ==
  LET escape_mode[i \in p..Len(text)] ==
        i > p + 1 /\ text[i - 1] = Backslash /\ ~escape_mode[i - 1]
      closing == {i \in (p + 1)..Len(text): text[i] = Quote /\ ~escape_mode[i]}
      end == CHOOSE i \in closing: \A j \in closing: i <= j
      kept == SelectSeq([i \in 1..(end - p - 1) |-> p + i],
                        LAMBDA i: text[i] # Backslash \/ escape_mode[i])
  IN IF closing = {} THEN NoMatch
     ELSE [ok |-> TRUE, end |-> end,
           v |-> [k \in 1..Len(kept) |->
                    IF escape_mode[kept[k]] /\ text[kept[k]] = LetterN THEN Newline
                    ELSE text[kept[k]]]]

\* match_number2 on the digit or sign at index p, without the conversion.
NumberEnd(p) ==
  LET float(i) == \E j \in p..(i - 1): text[j] = Dot
      stops == {i \in p..Len(text):
                  ~(\/ text[i] \in Digits
                    \/ i = p /\ text[i] = Minus
                    \/ i > p /\ text[i] = Dot
                    \/ float(i) /\ text[i] = Minus)}
  IN IF stops = {} THEN 0 ELSE (CHOOSE i \in stops: \A j \in stops: i <= j) - 1

\* The digits at indices a..b as a number.
Natural(a, b) == FoldLeft(LAMBDA v, d: 10 * v + d, 0, SubSeq(text, a, b))
\* boost::lexical_cast to an integer type: the text is a number of the type.
Integer(p, end, t) ==
  LET neg == text[p] = Minus
      first == IF neg THEN p + 1 ELSE p
      v == IF neg THEN -Natural(first, end) ELSE Natural(first, end)
  IN IF first > end \/ v < Lowest(t) \/ v > Highest(t) THEN NoMatch
     ELSE [ok |-> TRUE, v |-> <<t, v>>, end |-> end]
\* boost::lexical_cast to a double, of texts with one digit behind the point.
Real(p, end) ==
  LET neg == text[p] = Minus
      halves == 2 * Natural(IF neg THEN p + 1 ELSE p, end - 2) + IF text[end] = 5 THEN 1 ELSE 0
  IN IF text[end - 1] # Dot THEN NoMatch
     ELSE [ok |-> TRUE, v |-> <<DUOBLE, IF neg THEN -halves ELSE halves>>, end |-> end]

\* A number of a section is signed only with a sign; one of an array always is.
MatchNumber(p, in_array) ==
  LET end == NumberEnd(p) IN
  IF end = 0 THEN NoMatch
  ELSE IF \E i \in p..end: text[i] = Dot THEN Real(p, end)
  ELSE Integer(p, end, IF in_array \/ text[p] = Minus THEN INT64 ELSE UINT64)

\* match_word2: the word must be followed by something.
MatchWord(p) ==
  IF p = Len(text) THEN NoMatch ELSE [ok |-> TRUE, v |-> text[p], end |-> p]

-----------------------------------------------------------------------------
(***************************************************************************)
(* Steps.                                                                  *)
(***************************************************************************)
c == text[it]
Reading == result = "run" /\ it <= Len(text)
IsAlpha(x) == x \in {WordTrue, WordFalse, WordNull, LetterN}
StartsNumber(x) == x \in Digits \cup {Minus}

\* An assignment in the map of the entries.
set_value(s, name, entry) ==
  SelectSeq(s, LAMBDA x: NameLess(x[1], name)) \o <<<<name, entry>>>>
    \o SelectSeq(s, LAMBDA x: NameLess(name, x[1]))
Entry(s, name) == LET i == CHOOSE j \in 1..Len(s): s[j][1] = name IN s[i][2]
Has(s, name) == \E i \in 1..Len(s): s[i][1] = name

\* The innermost call goes on with the character behind index end.
Goto(call, end) ==
  /\ stack' = Append(Below, call)
  /\ it' = end + 1
  /\ UNCHANGED <<source, whole, text, result, m_root>>
\* A section begins at this character; the innermost call waits in `call'.
Enter(call, section) ==
  /\ stack' = Below \o <<call, Call(section, it)>>
  /\ UNCHANGED <<source, whole, text, it, result, m_root>>
\* What CHECK_ISSPACE lets pass.
SkipSpace == IF c = Space THEN Goto(Top, it) ELSE Throw

SectionStart ==
  /\ Reading /\ Top.state = "section_start"
  /\ IF c = OpenBrace THEN Goto([Top EXCEPT !.state = "name"], it) ELSE SkipSpace

\* The innermost call returns: its section goes where the call around it had
\* announced it, and that call goes on behind index end.
Return(end) ==
  LET outer == Below[Len(Below)]
      name == outer.name
      arr == Entry(outer.section, name)[2][2]
      done == [outer EXCEPT !.section =
        IF outer.state = "array_after_value"
        THEN set_value(@, name, <<ARRAY, <<OBJECT, [arr EXCEPT ![Len(arr)] = Top.section]>>>>)
        ELSE set_value(@, name, <<OBJECT, Top.section>>)]
  IN IF Len(stack) = 1
     THEN /\ m_root' = Top.section /\ result' = "true"
          /\ UNCHANGED <<source, whole, text, it, stack>>
     ELSE /\ stack' = [Below EXCEPT ![Len(Below)] = done]
          /\ it' = end + 1
          /\ UNCHANGED <<source, whole, text, result, m_root>>

LookupForName ==
  /\ Reading /\ Top.state = "name"
  /\ LET m == match_string2(it) IN
     CASE c = Quote /\ m.ok -> Goto([Top EXCEPT !.name = m.v, !.state = "separator"], m.end)
       [] c = Quote /\ ~m.ok -> Throw
       [] c = CloseBrace -> Return(it)
       [] OTHER -> SkipSpace

WaitingSeparator ==
  /\ Reading /\ Top.state = "separator"
  /\ IF c = Colon THEN Goto([Top EXCEPT !.state = "after_separator"], it) ELSE SkipSpace

\* A value of the section is set.
Set(entry, end) ==
  Goto([Top EXCEPT !.section = set_value(@, Top.name, entry), !.state = "after_value"], end)

WonderAfterSeparator ==
  /\ Reading /\ Top.state = "after_separator"
  /\ LET s == match_string2(it)
         n == MatchNumber(it, FALSE)
         w == MatchWord(it)
     IN CASE c = Quote -> IF s.ok THEN Set(<<STRING_, s.v>>, s.end) ELSE Throw
          [] StartsNumber(c) -> IF n.ok THEN Set(n.v, n.end) ELSE Throw
          [] IsAlpha(c) ->
               CASE w.ok /\ c = WordNull -> Goto([Top EXCEPT !.state = "after_value"], w.end)
                 [] w.ok /\ c = WordTrue -> Set(<<BOOL, 1>>, w.end)
                 [] w.ok /\ c = WordFalse -> Set(<<BOOL, 0>>, w.end)
                 [] OTHER -> Throw
          [] c = OpenBrace ->     \* open_section: a section of that name goes on
               Enter([Top EXCEPT !.state = "after_value"],
                     IF Has(Top.section, Top.name) /\ Entry(Top.section, Top.name)[1] = OBJECT
                     THEN Entry(Top.section, Top.name)[2] ELSE <<>>)
          [] c = OpenBracket -> Goto([Top EXCEPT !.state = "array"], it)
          [] OTHER -> SkipSpace

WonderAfterValue ==
  /\ Reading /\ Top.state = "after_value"
  /\ CASE c = Comma -> Goto([Top EXCEPT !.state = "name"], it)
       [] c = CloseBrace -> Return(it)
       [] OTHER -> SkipSpace

\* insert_first_value and insert_first_section: the array starts anew.
First(type, v) ==
  [Top EXCEPT !.section = set_value(@, Top.name, <<ARRAY, <<type, <<v>>>>>>),
              !.array_md = type, !.state = "array_after_value"]

WonderArray ==
  /\ Reading /\ Top.state = "array"
  /\ LET s == match_string2(it)
         n == MatchNumber(it, TRUE)
         w == MatchWord(it)
     IN CASE c = OpenBrace -> Enter(First(OBJECT, <<>>), <<>>)
          [] c = Quote -> IF s.ok THEN Goto(First(STRING_, s.v), s.end) ELSE Throw
          [] StartsNumber(c) -> IF n.ok THEN Goto(First(n.v[1], n.v[2]), n.end) ELSE Throw
          [] c = CloseBracket -> Goto([Top EXCEPT !.state = "after_value"], it)
          [] IsAlpha(c) ->
               IF w.ok /\ c \in {WordTrue, WordFalse}
               THEN Goto(First(BOOL, IF c = WordTrue THEN 1 ELSE 0), w.end) ELSE Throw
          [] c = OpenBracket -> Throw
          [] OTHER -> SkipSpace

ArrayAfterValue ==
  /\ Reading /\ Top.state = "array_after_value"
  /\ CASE c = Comma -> Goto([Top EXCEPT !.state = "array_waiting_value"], it)
       [] c = CloseBracket -> Goto([Top EXCEPT !.array_md = 0, !.state = "after_value"], it)
       [] OTHER -> SkipSpace

\* insert_next_value and insert_next_section.
More(type, v) ==
  LET a == Entry(Top.section, Top.name)[2] IN
  [Top EXCEPT !.section = set_value(@, Top.name, <<ARRAY, <<a[1], Append(a[2], v)>>>>),
              !.state = "array_after_value"]
\* insert_next_value refuses a number of another type than the array's.
Fits(type) == Entry(Top.section, Top.name)[2][1] = type

ArrayWaitingValue ==
  /\ Reading /\ Top.state = "array_waiting_value"
  /\ LET s == match_string2(it)
         n == MatchNumber(it, TRUE)
         w == MatchWord(it)
     IN CASE Top.array_md = OBJECT /\ c = OpenBrace -> Enter(More(OBJECT, <<>>), <<>>)
          [] Top.array_md = STRING_ /\ c = Quote ->
               IF s.ok THEN Goto(More(STRING_, s.v), s.end) ELSE Throw
          [] Top.array_md \in {INT64, DUOBLE} /\ StartsNumber(c) ->
               IF n.ok THEN IF Fits(n.v[1]) THEN Goto(More(n.v[1], n.v[2]), n.end) ELSE Throw
               ELSE Throw
          [] Top.array_md = BOOL /\ IsAlpha(c) ->
               IF w.ok /\ c \in {WordTrue, WordFalse}
               THEN Goto(More(BOOL, IF c = WordTrue THEN 1 ELSE 0), w.end) ELSE Throw
          [] OTHER -> SkipSpace

\* Variant: an unfinished call waits for more text.
EndOfText_waits ==
  /\ result = "run" /\ it > Len(text)
  /\ UNCHANGED vars
\* The text ends inside a call, which returns without having moved the start of
\* its caller's text: the caller goes on behind the brace that began the section.
EndOfText ==
  /\ result = "run" /\ it > Len(text)
  /\ Return(Top.start)

JsonNext ==
  \/ SectionStart \/ LookupForName \/ WaitingSeparator \/ WonderAfterSeparator
  \/ WonderAfterValue \/ WonderArray \/ ArrayAfterValue \/ ArrayWaitingValue
  \/ EndOfText \/ Returned

-----------------------------------------------------------------------------
RECURSIVE ReadsAs(_, _)
\* An entry that was loaded, read as the type it had when it was dumped, gives
\* what was dumped.
ReadsAs(dumped, loaded) ==
  CASE dumped[1] \in Pods \cup {STRING_} -> convert_t(loaded, dumped[1]) = dumped[2]
    [] dumped[1] = OBJECT ->
         /\ loaded[1] = OBJECT /\ Len(loaded[2]) = Len(dumped[2])
         /\ \A i \in 1..Len(dumped[2]):
              loaded[2][i][1] = dumped[2][i][1] /\ ReadsAs(dumped[2][i][2], loaded[2][i][2])
    [] dumped[1] = ARRAY ->
         /\ loaded[1] = ARRAY /\ Len(loaded[2][2]) = Len(dumped[2][2])
         /\ \A i \in 1..Len(dumped[2][2]):
              ReadsAs(<<dumped[2][1], dumped[2][2][i]>>, <<loaded[2][1], loaded[2][2][i]>>)

\* A number of an array that a signed integer cannot hold.
TooLarge(s) ==
  \E i \in 1..Len(s): s[i][2][1] = ARRAY /\ s[i][2][2][1] = UINT64
    /\ \E k \in 1..Len(s[i][2][2][2]): s[i][2][2][2][k] > Highest(INT64)

\* Every storage that dump_as_json wrote, with whatever characters in its names
\* and strings, is loaded again, and every value reads back as the type it had;
\* only an array with a number beyond the signed range, which the dump writes
\* and the loader reads as signed, is refused.
JsonRoundTrip ==
  whole /\ result # "run" =>
    IF result = "true" THEN ReadsAs(<<OBJECT, source>>, <<OBJECT, m_root>>) ELSE TooLarge(source)

\* load_from_json accepts some texts that end too early, but it never makes up a
\* value: each entry of the root that it then holds, if it is not a section or an
\* array, is the one of the whole text.
NothingMadeUp ==
  result = "true" /\ source # <<>> =>
    \A i \in 1..Len(m_root):
      /\ Has(source, m_root[i][1])
      /\ m_root[i][2][1] \notin {OBJECT, ARRAY}
           => ReadsAs(Entry(source, m_root[i][1]), m_root[i][2])

=============================================================================
