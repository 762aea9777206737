----------------------------- MODULE HashScheme -----------------------------
(***************************************************************************)
(* The hash of a prepared transaction, as the participant computes it from *)
(* the whole transaction: the Canton interactive submission hashing        *)
(* scheme, version 2.  It is a function of a tree that is there as a       *)
(* whole, where HashingParser meets the same fields one callback after     *)
(* another.                                                                *)
(*                                                                         *)
(* A byte is a number, a string is a sequence of bytes.  A digest is the   *)
(* hashed bytes between two markers that are no bytes, so SHA-256 is taken *)
(* to be collision free.  An optional field is a sequence of length 0 or   *)
(* 1, a dotted name is the sequence of its parts.                          *)
(***************************************************************************)
EXTENDS Integers, Sequences, SequencesExt

\* Byte k of n, counted from the least significant one.  Numbers are below 2^23 here,
\* so the bytes from the third on only carry the sign.
ByteOf(n, k) ==
  IF k > 2 THEN (IF n < 0 THEN 255 ELSE 0) ELSE (n \div 256 ^ k) % 256

BigEndian(n, width) == [i \in 1 .. width |-> ByteOf(n, width - i)]

sha256(bytes) == <<300>> \o bytes \o <<301>>

(***************************************************************************)
(* A Daml value.  data holds a scalar or the constructor of an enum; items *)
(* holds the elements of a list, the value of an optional or a variant,    *)
(* the fields of a record and the entries of a map.  A label is the name   *)
(* of a field, a constructor or the key of a text map.                     *)
(***************************************************************************)
Scalars == {"unit", "bool", "int64", "numeric", "timestamp", "date", "party", "text",
            "contract_id"}
Containers == {"optional", "list", "text_map", "gen_map", "record", "variant", "enum"}

Scalar(kind, data) == [kind |-> kind, data |-> data, id |-> <<>>, items |-> <<>>]
Container(kind, id, items) == [kind |-> kind, data |-> <<>>, id |-> id, items |-> items]
Enum(id, constructor) ==
  [kind |-> "enum", data |-> constructor, id |-> id, items |-> <<>>]

Item(value) == [label |-> <<>>, key |-> <<>>, value |-> value]
Labelled(label, value) == [label |-> label, key |-> <<>>, value |-> value]
Keyed(key, value) == [label |-> <<>>, key |-> <<key>>, value |-> value]
-----------------------------------------------------------------------------
Each(f(_), s) == FlattenSeq([i \in DOMAIN s |-> f(s[i])])
Int32(n) == BigEndian(n, 4)
Int64(n) == BigEndian(n, 8)
String(s) == Int32(Len(s)) \o s
Repeated(f(_), s) == Int32(Len(s)) \o Each(f, s)
Optional(f(_), s) == <<Len(s)>> \o Each(f, s)

\* Two hex digits make a byte.
HexBytes(digits) == [i \in 1 .. Len(digits) \div 2 |-> 16 * digits[2 * i - 1] + digits[2 * i]]

Identifier(id) ==
  String(id.package_id) \o Repeated(String, id.module_name) \o Repeated(String, id.entity_name)

RECURSIVE Value(_)
Value(v) ==
  LET Element(item) == Value(item.value)
      Field(item) == <<1>> \o String(item.label) \o Value(item.value)
      TextEntry(item) == String(item.label) \o Value(item.value)
      GenEntry(item) == Value(item.key[1]) \o Value(item.value)
  IN CASE v.kind = "unit" -> <<0>>
       [] v.kind = "bool" -> <<1>> \o v.data
       [] v.kind = "int64" -> <<2>> \o Int64(v.data[1])
       [] v.kind = "numeric" -> <<3>> \o String(v.data)
       [] v.kind = "timestamp" -> <<4>> \o Int64(v.data[1])
       [] v.kind = "date" -> <<5>> \o Int32(v.data[1])
       [] v.kind = "party" -> <<6>> \o String(v.data)
       [] v.kind = "text" -> <<7>> \o String(v.data)
       [] v.kind = "contract_id" -> <<8>> \o String(HexBytes(v.data))
       [] v.kind = "optional" -> <<9>> \o Optional(Element, v.items)
       [] v.kind = "list" -> <<10>> \o Repeated(Element, v.items)
       [] v.kind = "text_map" -> <<11>> \o Repeated(TextEntry, v.items)
       [] v.kind = "record" -> <<12>> \o Optional(Identifier, v.id) \o Repeated(Field, v.items)
       [] v.kind = "variant" -> <<13>> \o Optional(Identifier, v.id) \o Each(TextEntry, v.items)
       [] v.kind = "enum" -> <<14>> \o Optional(Identifier, v.id) \o String(v.data)
       [] v.kind = "gen_map" -> <<15>> \o Repeated(GenEntry, v.items)
-----------------------------------------------------------------------------
(***************************************************************************)
(* Nodes.  seed is the optional seed of the node.                          *)
(***************************************************************************)
Create(n, seed) ==
  <<1>> \o String(n.lf_version) \o <<0>> \o Optional(LAMBDA s : s, seed)
    \o String(HexBytes(n.contract_id)) \o String(n.package_name)
    \o Each(Identifier, n.template_id) \o Each(Value, n.argument)
    \o Repeated(String, n.signatories) \o Repeated(String, n.stakeholders)

Exercise(n, seed, children) ==
  <<1>> \o String(n.lf_version) \o <<1>> \o FlattenSeq(seed)
    \o String(HexBytes(n.contract_id)) \o String(n.package_name)
    \o Each(Identifier, n.template_id)
    \o Repeated(String, n.signatories) \o Repeated(String, n.stakeholders)
    \o Repeated(String, n.acting_parties) \o Optional(Identifier, n.interface_id)
    \o String(n.choice_id) \o Each(Value, n.argument) \o n.consuming
    \o Optional(Value, n.exercise_result) \o Repeated(String, n.choice_observers)
    \o Int32(Len(children)) \o FlattenSeq(children)

Fetch(n) ==
  <<1>> \o String(n.lf_version) \o <<2>>
    \o String(HexBytes(n.contract_id)) \o String(n.package_name)
    \o Each(Identifier, n.template_id)
    \o Repeated(String, n.signatories) \o Repeated(String, n.stakeholders)
    \o Optional(Identifier, n.interface_id) \o Repeated(String, n.acting_parties)

Rollback(children) == <<1, 3>> \o Int32(Len(children)) \o FlattenSeq(children)

\* The digest of the node with this id: a parent holds the digests of its children.
RECURSIVE NodeDigest(_, _, _)
NodeDigest(seeds, nodes, id) ==
  LET n == nodes[CHOOSE i \in DOMAIN nodes : nodes[i].id = id]
      own == SelectSeq(seeds, LAMBDA s : s.node_id = id)
      seed == IF own = <<>> THEN <<>> ELSE <<own[1].seed>>
      children == [i \in DOMAIN n.children |-> NodeDigest(seeds, nodes, n.children[i])]
  IN sha256(CASE n.kind = "create" -> Create(n, seed)
              [] n.kind = "exercise" -> Exercise(n, seed, children)
              [] n.kind = "fetch" -> Fetch(n)
              [] n.kind = "rollback" -> Rollback(children))

Purpose == <<0, 0, 0, 48>>

TransactionDigest(h, nodes) ==
  sha256(Purpose \o String(h.version)
           \o Repeated(LAMBDA id : NodeDigest(h.node_seeds, nodes, id), h.roots))

MetadataDigest(m, contracts) ==
  LET Contract(c) == Int64(c.created_at) \o sha256(Create(c.contract, <<>>))
  IN sha256(Purpose \o <<1>> \o Repeated(String, m.act_as) \o String(m.command_id)
              \o String(m.transaction_uuid) \o Int32(m.mediator_group)
              \o String(m.synchronizer_id) \o Optional(Int64, m.min_ledger_effective_time)
              \o Optional(Int64, m.max_ledger_effective_time) \o Int64(m.preparation_time)
              \o Repeated(Contract, contracts))

PreparedTransactionHash(h, nodes, m, contracts) ==
  sha256(Purpose \o <<2>> \o TransactionDigest(h, nodes) \o MetadataDigest(m, contracts))
=============================================================================
