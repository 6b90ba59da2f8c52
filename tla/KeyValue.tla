------------------------------ MODULE KeyValue ------------------------------
(***************************************************************************)
(* How a structure goes through a portable storage: the maps that          *)
(* BEGIN_KV_SERIALIZE_MAP and KV_SERIALIZE declare for every command of    *)
(* levin and RPC, the (un)serializers they call                            *)
(* (keyvalue_serialization_overloads.h) and the accessors of               *)
(* portable_storage.h.  Writer and reader may be two versions of a         *)
(* structure: what counts is what the reader then holds.                   *)
(*                                                                         *)
(* A map is a sequence of fields, each a name, a kind and a type:          *)
(*   val    KV_SERIALIZE of a number or a string of the type               *)
(*   blob   KV_SERIALIZE_VAL_POD_AS_BLOB, the type being its size          *)
(*   obj    KV_SERIALIZE of a structure, the type being its map            *)
(*   vals, blobs, objs   containers of these                               *)
(* A structure is the sequence of the values of its fields.                *)
(***************************************************************************)
EXTENDS StorageEntries, FiniteSets

CONSTANTS Maps,            \* maps a structure may have
          Structures(_)    \* structures of a map

VARIABLES writer, reader,  \* the maps of the two sides
          wire,            \* "binary" or "json"
          stored,          \* the structure that is stored
          prior,           \* what the reader's structure holds before
          phase,           \* "store", "load", "done"
          stg,             \* the root section of the storage
          out              \* what load returned, and the reader's structure

vars == <<writer, reader, wire, stored, prior, phase, stg, out>>

Name(f) == f[1]
Kind(f) == f[2]
Type(f) == f[3]

-----------------------------------------------------------------------------
(***************************************************************************)
(* portable_storage                                                        *)
(***************************************************************************)
\* find_storage_entry, and an assignment to an entry, which set_value, the
\* insert_first functions and open_section make.
find_storage_entry(s, name) ==
  LET found == {i \in 1..Len(s): s[i][1] = name} IN
  IF found = {} THEN <<>> ELSE s[CHOOSE i \in found: TRUE][2]
set_value(s, name, entry) ==
  SelectSeq(s, LAMBDA x: NameLess(x[1], name)) \o <<<<name, entry>>>>
    \o SelectSeq(s, LAMBDA x: NameLess(name, x[1]))

\* get_value: nothing, or the value as the type, or an exception.
Nothing == <<"nothing">>
Exception == <<"throws">>
Found(v) == <<"found", v>>
get_value(s, name, t) ==
  LET e == find_storage_entry(s, name) IN
  IF e = <<>> THEN Nothing
  ELSE IF e[1] = t THEN Found(e[2])
  ELSE IF convert_t(e, t) = WrongConversion THEN Exception
  ELSE Found(convert_t(e, t))

\* get_first_value: the array, or <<>> as for a name without an entry.
get_first_value(s, name) ==
  LET e == find_storage_entry(s, name) IN
  IF e = <<>> THEN <<>> ELSE IF e[1] = ARRAY THEN e[2] ELSE <<>>

\* get_next_value to the end of an array whose first value was had: the
\* elements as the type, each converted on its own.
get_next_values(array, t) ==
  [i \in 1..Len(array[2]) |->
     IF array[1] = t THEN Found(array[2][i])
     ELSE IF convert_t(<<array[1], array[2][i]>>, t) = WrongConversion THEN Exception
     ELSE Found(convert_t(<<array[1], array[2][i]>>, t))]

\* insert_first_value and insert_next_value, insert_first_section and
\* insert_next_section: the entry of an array.
insert_values(t, v) == <<ARRAY, <<t, v>>>>
insert_sections(sections) == <<ARRAY, <<OBJECT, sections>>>>

\* open_section with create_if_notexist: an entry of another type is replaced by
\* an empty section, as a missing one is created.
open_section(s, name) ==
  LET e == find_storage_entry(s, name) IN
  IF e = <<>> THEN <<>> ELSE IF e[1] = OBJECT THEN e[2] ELSE <<>>

\* get_first_section and get_next_section, to the end of the array.
get_sections(s, name) ==
  LET array == get_first_value(s, name) IN
  IF array = <<>> THEN <<>> ELSE IF array[1] = OBJECT THEN array[2] ELSE <<>>

-----------------------------------------------------------------------------
(***************************************************************************)
(* Storing.  The storer of a field gives its entry, or <<>> for a          *)
(* container without elements, which leaves no entry at all.               *)
(***************************************************************************)
RECURSIVE store(_, _)
serialize_t_val(t, v) == <<t, v>>
serialize_t_val_as_blob(v) == <<STRING_, v>>
serialize_t_obj(map, v) == <<OBJECT, store(map, v)>>
serialize_stl_container_t_val(t, v) == IF v = <<>> THEN <<>> ELSE insert_values(t, v)
serialize_stl_container_pod_val_as_blob(v) ==
  IF v = <<>> THEN <<>> ELSE <<STRING_, FlattenSeq(v)>>
serialize_stl_container_t_obj(map, v) ==
  IF v = <<>> THEN <<>>
  ELSE insert_sections([i \in 1..Len(v) |-> store(map, v[i])])
kv_serialize(f, v) ==
  CASE Kind(f) = "val" -> serialize_t_val(Type(f), v)
    [] Kind(f) = "blob" -> serialize_t_val_as_blob(v)
    [] Kind(f) = "obj" -> serialize_t_obj(Type(f), v)
    [] Kind(f) = "vals" -> serialize_stl_container_t_val(Type(f), v)
    [] Kind(f) = "blobs" -> serialize_stl_container_pod_val_as_blob(v)
    [] Kind(f) = "objs" -> serialize_stl_container_t_obj(Type(f), v)

\* serialize_map<true>: the section of a structure.
store(map, v) ==
  LET section[i \in 0..Len(map)] ==
        IF i = 0 THEN <<>>
        ELSE IF kv_serialize(map[i], v[i]) = <<>> THEN section[i - 1]
        ELSE set_value(section[i - 1], Name(map[i]), kv_serialize(map[i], v[i]))
  IN section[Len(map)]

RECURSIVE Carried(_)
\* What dump_as_json and load_from_json make of the types: a number comes back
\* unsigned, or signed if it has a sign or is in an array.
CarriedEntry(e) ==
  CASE e[1] \in Signed \cup Unsigned -> <<IF e[2] < 0 THEN INT64 ELSE UINT64, e[2]>>
    [] e[1] = OBJECT -> <<OBJECT, Carried(e[2])>>
    [] e[1] = ARRAY /\ e[2][1] \in Signed \cup Unsigned -> <<ARRAY, <<INT64, e[2][2]>>>>
    [] e[1] = ARRAY /\ e[2][1] = OBJECT ->
         <<ARRAY, <<OBJECT, [i \in 1..Len(e[2][2]) |-> Carried(e[2][2][i])]>>>>
    [] OTHER -> e
Carried(s) == [i \in 1..Len(s) |-> <<s[i][1], CarriedEntry(s[i][2])>>]

-----------------------------------------------------------------------------
(***************************************************************************)
(* Loading.  The loader of a field that holds old gives what the field     *)
(* then holds, and whether it got there without an exception; what the     *)
(* loaders return is not looked at by the map.                             *)
(***************************************************************************)
RECURSIVE load(_, _, _)
Holds(v) == [ok |-> TRUE, v |-> v]
Throws(v) == [ok |-> FALSE, v |-> v]

unserialize_t_val(f, old, s) ==
  LET v == get_value(s, Name(f), Type(f)) IN
  IF v = Nothing THEN Holds(old) ELSE IF v = Exception THEN Throws(old) ELSE Holds(v[2])

\* A blob of another size leaves what there was.
unserialize_t_val_as_blob(f, old, s) ==
  LET blob == get_value(s, Name(f), STRING_) IN
  IF blob = Nothing THEN Holds(old)
  ELSE IF blob = Exception THEN Throws(old)
  ELSE Holds(IF Len(blob[2]) = Type(f) THEN blob[2] ELSE old)

unserialize_t_obj(f, old, s) == load(Type(f), old, open_section(s, Name(f)))

\* The elements until one cannot be converted.
unserialize_stl_container_t_val(f, old, s) ==
  LET array == get_first_value(s, Name(f)) IN
  IF array = <<>> THEN Holds(<<>>)
  ELSE LET value == get_next_values(array, Type(f))
           wrong == {i \in DOMAIN value: value[i] = Exception}
           upto == IF wrong = {} THEN Len(value) ELSE Min(wrong) - 1
       IN [ok |-> wrong = {}, v |-> [i \in 1..upto |-> value[i][2]]]

unserialize_stl_container_pod_val_as_blob(f, s) ==
  LET buff == get_value(s, Name(f), STRING_)
      size == Type(f)
  IN IF buff = Exception THEN Throws(<<>>)
     ELSE IF buff = Nothing THEN Holds(<<>>)
     ELSE IF Len(buff[2]) % size # 0 THEN Holds(<<>>)
     ELSE Holds([i \in 1..(Len(buff[2]) \div size) |-> SubSeq(buff[2], size * (i - 1) + 1, size * i)])

RECURSIVE Constructed(_)
\* What value-initialisation gives a field of a new element.
Constructed(f) ==
  CASE Kind(f) = "val" /\ Type(f) # STRING_ -> 0
    [] Kind(f) = "blob" -> [i \in 1..Type(f) |-> 0]
    [] Kind(f) = "obj" -> [k \in 1..Len(Type(f)) |-> Constructed(Type(f)[k])]
    [] OTHER -> <<>>

\* A new element for every section, until one throws.
unserialize_stl_container_t_obj(f, s) ==
  LET sections == get_sections(s, Name(f))
      fresh == [k \in 1..Len(Type(f)) |-> Constructed(Type(f)[k])]
      element == [i \in 1..Len(sections) |-> load(Type(f), fresh, sections[i])]
      wrong == {i \in DOMAIN element: ~element[i].ok}
      values == [i \in DOMAIN element |-> element[i].v]
  IN IF wrong = {} THEN Holds(values) ELSE Throws(SubSeq(values, 1, Min(wrong) - 1))

kv_unserialize(f, old, s) ==
  CASE Kind(f) = "val" -> unserialize_t_val(f, old, s)
    [] Kind(f) = "blob" -> unserialize_t_val_as_blob(f, old, s)
    [] Kind(f) = "obj" -> unserialize_t_obj(f, old, s)
    [] Kind(f) = "vals" -> unserialize_stl_container_t_val(f, old, s)
    [] Kind(f) = "blobs" -> unserialize_stl_container_pod_val_as_blob(f, s)
    [] Kind(f) = "objs" -> unserialize_stl_container_t_obj(f, s)

\* serialize_map<false> under load: the fields in turn up to an exception, for
\* which load returns false; the fields after it keep what they had.
load(map, old, s) ==
  LET field == [i \in 1..Len(map) |-> kv_unserialize(map[i], old[i], s)]
      thrown == {i \in DOMAIN field: ~field[i].ok}
  IN [ok |-> thrown = {},
      v |-> [i \in DOMAIN field |->
               IF \E j \in thrown: j < i THEN old[i] ELSE field[i].v]]

-----------------------------------------------------------------------------
Init ==
  /\ writer \in Maps /\ reader \in Maps
  /\ wire \in {"binary", "json"}
  /\ stored \in Structures(writer) /\ prior \in Structures(reader)
  /\ phase = "store" /\ stg = <<>> /\ out = Throws(<<>>)

\* The structure is stored, written in one of the forms and read from it.
store_t_to_binary ==
  /\ phase = "store" /\ wire = "binary" /\ phase' = "load"
  /\ stg' = store(writer, stored)
  /\ UNCHANGED <<writer, reader, wire, stored, prior, out>>
store_t_to_json ==
  /\ phase = "store" /\ wire = "json" /\ phase' = "load"
  /\ stg' = Carried(store(writer, stored))
  /\ UNCHANGED <<writer, reader, wire, stored, prior, out>>

\* load_t_from_binary and load_t_from_json, once the storage was read.
load_t ==
  /\ phase = "load" /\ phase' = "done"
  /\ out' = load(reader, prior, stg)
  /\ UNCHANGED <<writer, reader, wire, stored, prior, stg>>

Done == phase = "done" /\ UNCHANGED vars

Next == store_t_to_binary \/ store_t_to_json \/ load_t \/ Done

-----------------------------------------------------------------------------
\* A structure that was stored is loaded as it was, from either form and
\* whatever the object that it is loaded into held before: no element of an
\* earlier message stays behind, though an empty container is not stored.
LoadedAsStored == phase = "done" /\ reader = writer => out = Holds(stored)

RECURSIVE Untouched(_, _)
\* A field after a load that found nothing of it.
Untouched(f, old) ==
  CASE Kind(f) \in {"val", "blob"} -> old
    [] Kind(f) = "obj" -> [k \in 1..Len(Type(f)) |-> Untouched(Type(f)[k], old[k])]
    [] OTHER -> <<>>

\* Between two versions of a structure a load that succeeds has changed no
\* number: a value that does not fit the reader's type fails the load
\* (convert_t throws), and a field that the writer does not know keeps its value
\* or is an empty container.
VersionsMix ==
  phase = "done" /\ out.ok =>
    \A k \in 1..Len(reader):
      LET f == reader[k]
          named == {i \in 1..Len(writer): Name(writer[i]) = Name(f)}
      IN /\ \A i \in named:
              Kind(f) \in {"val", "vals"} /\ Kind(writer[i]) = Kind(f) => out.v[k] = stored[i]
         /\ named = {} => out.v[k] = Untouched(f, prior[k])
=============================================================================
