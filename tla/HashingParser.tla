---------------------------- MODULE HashingParser ----------------------------
(***************************************************************************)
(* How the app computes the hash it signs.                                 *)
(*                                                                         *)
(* The components of a prepared transaction are hashed as nanopb decodes   *)
(* them: pb_hashing_parser.c walks a node with callbacks and hands every   *)
(* field to the encoders of canonical_hash.c, which append bytes to the    *)
(* running hash of the node.  A repeated field is written with its length  *)
(* in front, so its elements are counted by a decoding of their own and    *)
(* the number waits in the static value_elem_count until the encoder takes *)
(* it.  The digest of a node goes into the transaction hash (a root) or    *)
(* into a ring where its parent looks for it; the first error of an        *)
(* encoder is kept in a static that the receive machine reads after each   *)
(* component.                                                              *)
(*                                                                         *)
(* HashScheme says what the hash has to be.  Node ids are numbers here and *)
(* a node arrives once: NodeTree has the spellings and the refusals.  A    *)
(* string field the host leaves out is the empty sequence; serializers do  *)
(* not write an empty string, so one that is on the wire and empty (which  *)
(* nanopb gives a pointer, and the app accepts) is left out.  Fields       *)
(* arrive in the order of their tags.                                      *)
(***************************************************************************)
EXTENDS HashScheme, FiniteSets

CONSTANTS
  MAX_NODE_CHILDREN,           \* slots of the digest ring, and the longest child list
  SHA256_HASH_LEN,             \* bytes of a seed
  DEFAULT_DECODE_BUFFER_SIZE,  \* labels, keys and constructors are read in pieces
  StackRoom,                   \* bound: nested values before stack_has_room says no
  Headers,                     \* DAML transaction components the host may send
  Nodes,                       \* node components
  Metadatas,                   \* metadata components
  Contracts                    \* input contract components

VARIABLES
  phase,            \* receive state, or "signed" and "refused"
  hasher,           \* tx_info.hasher: the bytes hashed so far
  ring,             \* G_hashed_nodes_store
  ring_next,        \* G_hashed_nodes_store_count
  err_code,         \* HASH_ERR_INFO
  partial_tx_hash,  \* digest of the transaction, once its nodes are there
  m_hash,           \* the hash that will be signed
  received          \* history: the components accepted in this transaction

vars == <<phase, hasher, ring, ring_next, err_code, partial_tx_hash, m_hash, received>>

(***************************************************************************)
(* The messages nanopb decodes a component into.  A record field, an       *)
(* element and an entry are items of the value they belong to.             *)
(***************************************************************************)
Bytes == Seq(Nat)
IdentifierMessage ==
  [package_id : Bytes, module_name : Seq(Bytes), entity_name : Seq(Bytes)]

RECURSIVE IsValue(_)
IsItem(item) ==
  /\ item.label \in Bytes
  /\ IsValue(item.value) /\ \A i \in DOMAIN item.key : IsValue(item.key[i])

IsValue(v) ==
  /\ v.kind \in Scalars \cup Containers
  /\ v.data \in Seq(Int) /\ v.id \in Seq(IdentifierMessage)
  /\ \A i \in DOMAIN v.items : IsItem(v.items[i])

IsNode(n) ==
  /\ n.id \in Nat
  /\ {n.lf_version, n.contract_id, n.package_name, n.choice_id} \subseteq Bytes
  /\ n.template_id \in Seq(IdentifierMessage) /\ n.interface_id \in Seq(IdentifierMessage)
  /\ {n.signatories, n.stakeholders, n.acting_parties, n.choice_observers} \subseteq Seq(Bytes)
  /\ n.consuming \in {<<0>>, <<1>>} /\ n.children \in Seq(Nat)
  /\ \A i \in DOMAIN n.argument : IsValue(n.argument[i])
  /\ \A i \in DOMAIN n.exercise_result : IsValue(n.exercise_result[i])

HeaderMessage ==
  [version : Bytes, roots : Seq(Nat), nodes_count : Int,
   node_seeds : Seq([node_id : Int, seed : Bytes])]

MetadataMessage ==
  [act_as : Seq(Bytes), command_id : Bytes, transaction_uuid : Bytes, mediator_group : Int,
   synchronizer_id : Bytes, min_ledger_effective_time : Seq(Int),
   max_ledger_effective_time : Seq(Int), preparation_time : Int, input_contracts_count : Int]

IsContract(c) == c.created_at \in Int /\ IsNode(c.contract)

ASSUME SizesAssumption ==
  /\ MAX_NODE_CHILDREN \in Nat \ {0} /\ SHA256_HASH_LEN \in Nat /\ StackRoom \in Nat
  /\ DEFAULT_DECODE_BUFFER_SIZE \in Nat \ {0, 1}
ASSUME ComponentsAssumption ==
  /\ Headers \subseteq HeaderMessage /\ Metadatas \subseteq MetadataMessage
  /\ \A n \in Nodes : IsNode(n)
  /\ \A c \in Contracts : IsContract(c)

VALUE_ELEM_COUNT_NONE == -1
Slots == 0 .. MAX_NODE_CHILDREN - 1
HashErrors == {"HASH_OK", "MISSING_FIELD", "INVALID_HASH_STRING", "MAX_NODE_CHILDREN_EXCEEDED",
               "FAILED_TO_LOAD_NODE_HASH"}
-----------------------------------------------------------------------------
(***************************************************************************)
(* canonical_hash.c.  A writer is the running hash of a component, with    *)
(* the statics its callbacks touch: value_elem_count, the error, and       *)
(* whether the decoding failed.                                            *)
(***************************************************************************)
hw_init == [out |-> <<>>, count |-> VALUE_ELEM_COUNT_NONE, error |-> err_code, failed |-> FALSE]

set_hash_error(w, e) == IF w.error = "HASH_OK" THEN [w EXCEPT !.error = e] ELSE w

hw_put(w, bytes) == [w EXCEPT !.out = @ \o bytes]
hw_put_byte(w, b) == hw_put(w, <<b>>)
hw_finalize(w) == sha256(w.out)

encode_int32(w, n) == hw_put(w, BigEndian(n, 4))
encode_int64(w, n) == hw_put(w, BigEndian(n, 8))
encode_bytes(w, bytes) == hw_put(encode_int32(w, Len(bytes)), bytes)

\* Mutant: an absent field is written as nothing, and nobody learns of it.
require_field_silent(w, s, encoded) == IF s = <<>> THEN w ELSE encoded

\* A singular field that nanopb left as a NULL pointer is an error and writes nothing.
require_field(w, s, encoded) == IF s = <<>> THEN set_hash_error(w, "MISSING_FIELD") ELSE encoded

encode_string(w, s) == require_field(w, s, encode_bytes(w, s))

encode_hex_string(w, digits) ==
  require_field(w, digits,
    IF Len(digits) % 2 # 0 THEN set_hash_error(w, "INVALID_HASH_STRING")
    ELSE encode_bytes(w, HexBytes(digits)))

\* The presence byte; what is present is folded in behind it.
encode_optional(w, present) == hw_put_byte(w, Len(present))

\* Called for strings only.
encode_repeated(w, s) == FoldLeft(encode_bytes, encode_int32(w, Len(s)), s)

\* Mutant: the number of parts is not written.
split_dot_and_encode_flat(w, name) == require_field(w, name, FoldLeft(encode_bytes, w, name))

\* The parts of a dotted name, each with its length.
split_dot_and_encode(w, name) == require_field(w, name, encode_repeated(w, name))

encode_identifier(w, id) ==
  split_dot_and_encode(
    split_dot_and_encode(encode_string(w, id.package_id), id.module_name), id.entity_name)

init_node_hash_store == [i \in Slots |-> [id |-> -1, hash |-> <<>>]]

\* Mutant: the position does not wrap.
set_node_hash_unwrapped(id, hash) ==
  /\ ring' = [ring EXCEPT ![ring_next] = [id |-> id, hash |-> hash]]
  /\ ring_next' = ring_next + 1

set_node_hash(id, hash) ==
  /\ ring' = [ring EXCEPT ![ring_next] = [id |-> id, hash |-> hash]]
  /\ ring_next' = (ring_next + 1) % MAX_NODE_CHILDREN

\* The first slot with the id, if there is one.
get_node_hash(id) ==
  LET found == {i \in Slots : ring[i].id = id}
  IN IF found = {} THEN <<>> ELSE <<ring[CHOOSE i \in found : \A j \in found : i <= j].hash>>

\* Stops at the first child whose digest is not in the ring.
encode_repeated_node_ids(w, ids) ==
  FoldLeft(LAMBDA acc, id :
             IF acc.error # "HASH_OK" THEN acc
             ELSE IF get_node_hash(id) = <<>>
             THEN set_hash_error(acc, "FAILED_TO_LOAD_NODE_HASH")
             ELSE hw_put(acc, get_node_hash(id)[1]),
           encode_int32(w, Len(ids)), ids)

encode_children(w, children) ==
  IF Len(children) > MAX_NODE_CHILDREN THEN set_hash_error(w, "MAX_NODE_CHILDREN_EXCEEDED")
  ELSE encode_repeated_node_ids(w, children)
-----------------------------------------------------------------------------
(***************************************************************************)
(* pb_hashing_parser.c: values.                                            *)
(***************************************************************************)
\* The elements the counting callbacks find in a value.
ElementCount(v) ==
  IF v.kind \in {"optional", "list", "text_map", "gen_map", "record"} THEN Len(v.items)
  ELSE IF v.kind = "variant" THEN Len(v.id) ELSE 0

\* nanopb calls the callback of the oneof for submessages only: any other scalar leaves
\* the count of whatever came before.
count_value(w, v) ==
  IF v.kind \in Containers \cup {"unit"} THEN [w EXCEPT !.count = ElementCount(v)] ELSE w

\* Mutant: the value of a record field is not counted.
count_item_unless_field(w, v, item) == IF v.kind = "record" THEN w ELSE count_value(w, item.value)

\* The counting pass over an element; of a map entry only the value is counted.
count_item(w, v, item) == count_value(w, item.value)

take_count(w) == [w EXCEPT !.count = VALUE_ELEM_COUNT_NONE]
put_count(w) == take_count(encode_int32(w, w.count))
put_presence(w) == take_count(hw_put_byte(w, IF w.count = 0 THEN 0 ELSE 1))

\* A callback string is handed over in pieces that fit the buffer, none when it is empty.
Pieces(s) ==
  LET size == DEFAULT_DECODE_BUFFER_SIZE - 1
  IN [i \in 1 .. (Len(s) + size - 1) \div size |->
        SubSeq(s, (i - 1) * size + 1, IF i * size < Len(s) THEN i * size ELSE Len(s))]

decode_record_field_label(w, s) ==
  FoldLeft(LAMBDA acc, piece : encode_bytes(hw_put_byte(acc, 1), piece), w, Pieces(s))

\* decode_textmap_key, decode_variant_constructor
decode_callback_string(w, s) == FoldLeft(encode_bytes, w, Pieces(s))

decode_value_primitive_variants(w, v) ==
  CASE v.kind = "unit" -> hw_put_byte(w, 0)
    [] v.kind = "bool" -> hw_put(hw_put_byte(w, 1), v.data)
    [] v.kind = "int64" -> encode_int64(hw_put_byte(w, 2), v.data[1])
    [] v.kind = "numeric" -> encode_bytes(hw_put_byte(w, 3), v.data)
    [] v.kind = "timestamp" -> encode_int64(hw_put_byte(w, 4), v.data[1])
    [] v.kind = "date" -> encode_int32(hw_put_byte(w, 5), v.data[1])
    [] v.kind = "party" -> encode_bytes(hw_put_byte(w, 6), v.data)
    [] v.kind = "text" -> encode_bytes(hw_put_byte(w, 7), v.data)
    [] v.kind = "contract_id" ->
         LET tagged == hw_put_byte(w, 8)
         IN IF Len(v.data) % 2 # 0 THEN set_hash_error(tagged, "INVALID_HASH_STRING")
            ELSE encode_bytes(tagged, HexBytes(v.data))

\* The count goes out behind the id: a record without one writes neither a presence
\* byte nor the number of its fields.
decode_record_id(w, id) ==
  LET named == encode_identifier(hw_put_byte(w, 1), id)
  IN IF w.count = VALUE_ELEM_COUNT_NONE THEN named ELSE put_count(named)

optional_identifier(w, id) == FoldLeft(encode_identifier, encode_optional(w, id), id)

decode_enum(w, v) == encode_string(optional_identifier(w, v.id), v.data)

\* What a value writes before its elements.
decode_value_start(w, v) ==
  CASE v.kind = "optional" -> put_presence(hw_put_byte(w, 9))
    [] v.kind = "list" -> put_count(hw_put_byte(w, 10))
    [] v.kind = "text_map" -> put_count(hw_put_byte(w, 11))
    [] v.kind = "gen_map" -> put_count(hw_put_byte(w, 15))
    [] v.kind = "record" -> FoldLeft(decode_record_id, hw_put_byte(w, 12), v.id)
    [] v.kind = "variant" ->
         FoldLeft(encode_identifier, put_presence(hw_put_byte(w, 13)), v.id)
    [] v.kind = "enum" -> decode_enum(hw_put_byte(w, 14), v)
    [] OTHER -> decode_value_primitive_variants(w, v)

RECURSIVE decode_value_variant(_, _, _)

\* One element: decode_list_elem, decode_value, decode_record_field,
\* decode_text_map_entry and decode_gen_map_entry.
decode_item(w, v, item, room) ==
  LET counted == count_item(w, v, item)
      labelled == IF v.kind = "record" THEN decode_record_field_label(counted, item.label)
                  ELSE decode_callback_string(counted, item.label)
      keyed == IF item.key = <<>> THEN labelled
               ELSE decode_value_variant(labelled, item.key[1], room - 1)
  IN IF w.failed THEN w
     ELSE IF room = 0 THEN [w EXCEPT !.failed = TRUE]
     ELSE decode_value_variant(keyed, item.value, room - 1)

decode_value_variant(w, v, room) ==
  FoldLeft(LAMBDA acc, item : decode_item(acc, v, item, room), decode_value_start(w, v), v.items)

\* The argument of a create, the chosen value or the result of an exercise.
decode_value_field(w, v) == decode_value_variant(count_value(w, v), v, StackRoom)
-----------------------------------------------------------------------------
(***************************************************************************)
(* pb_hashing_parser.c: nodes.                                             *)
(***************************************************************************)
require_identifier(id) ==
  id.package_id # <<>> /\ id.module_name # <<>> /\ id.entity_name # <<>>

\* The elements of a repeated string always have a pointer, so only these can be absent.
create_is_complete(n) ==
  /\ n.lf_version # <<>> /\ n.contract_id # <<>> /\ n.package_name # <<>>
  /\ n.template_id # <<>> /\ require_identifier(n.template_id[1])

optional_interface_is_complete(n) ==
  n.interface_id # <<>> => require_identifier(n.interface_id[1])

fetch_is_complete(n) == create_is_complete(n) /\ optional_interface_is_complete(n)

exercise_is_complete(n) == fetch_is_complete(n) /\ n.choice_id # <<>>

Failed(w) == [w EXCEPT !.failed = TRUE]

\* The first seed of the header with the id of the node.
SeedOf(id) ==
  LET own == SelectSeq(received.header[1].node_seeds, LAMBDA s : s.node_id = id)
  IN IF id < 0 \/ own = <<>> THEN <<>> ELSE <<own[1].seed>>

BadSeed(seed) == seed # <<>> /\ Len(seed[1]) # SHA256_HASH_LEN

encode_create_start(w, n, seed) ==
  LET typed == hw_put_byte(encode_string(hw_put_byte(w, 1), n.lf_version), 0)
      id == encode_hex_string(FoldLeft(hw_put, encode_optional(typed, seed), seed), n.contract_id)
  IN FoldLeft(encode_identifier, encode_string(id, n.package_name), n.template_id)

encode_create_end(w, n) ==
  encode_repeated(encode_repeated(w, n.signatories), n.stakeholders)

decode_create(w, n, id) ==
  IF ~create_is_complete(n) \/ BadSeed(SeedOf(id)) THEN Failed(w)
  ELSE encode_create_end(
         FoldLeft(decode_value_field, encode_create_start(w, n, SeedOf(id)), n.argument), n)

\* The fields exercise and fetch have in common, up to the stakeholders.
encode_action_start(w, n) ==
  LET id == encode_string(encode_hex_string(w, n.contract_id), n.package_name)
  IN encode_create_end(FoldLeft(encode_identifier, id, n.template_id), n)

encode_exercise_start(w, n, seed) ==
  LET typed == hw_put_byte(encode_string(hw_put_byte(w, 1), n.lf_version), 1)
      acted == encode_repeated(encode_action_start(hw_put(typed, seed[1]), n), n.acting_parties)
  IN encode_string(optional_identifier(acted, n.interface_id), n.choice_id)

encode_exercise_middle(w, n) == hw_put(w, n.consuming)

encode_exercise_end(w, n) ==
  encode_children(encode_repeated(w, n.choice_observers), n.children)

\* The presence byte of the result is written whether there is one or not.
decode_exercise(w, n, id) ==
  LET chosen == FoldLeft(decode_value_field, encode_exercise_start(w, n, SeedOf(id)), n.argument)
      middle == hw_put_byte(encode_exercise_middle(chosen, n), 1)
  IN IF ~exercise_is_complete(n) \/ SeedOf(id) = <<>> \/ BadSeed(SeedOf(id)) THEN Failed(w)
     ELSE encode_exercise_end(FoldLeft(decode_value_field, middle, n.exercise_result), n)

encode_fetch(w, n) ==
  LET typed == hw_put_byte(encode_string(hw_put_byte(w, 1), n.lf_version), 2)
  IN encode_repeated(optional_identifier(encode_action_start(typed, n), n.interface_id),
                     n.acting_parties)

decode_fetch(w, n) == IF fetch_is_complete(n) THEN encode_fetch(w, n) ELSE Failed(w)

encode_rollback(w, n) == encode_children(hw_put(w, <<1, 3>>), n.children)

node_decode_callback(w, n) ==
  CASE n.kind = "create" -> decode_create(w, n, n.id)
    [] n.kind = "exercise" -> decode_exercise(w, n, n.id)
    [] n.kind = "fetch" -> decode_fetch(w, n)
    [] n.kind = "rollback" -> encode_rollback(w, n)
    [] OTHER -> Failed(w)
-----------------------------------------------------------------------------
(***************************************************************************)
(* prepared_transaction.c: one action per component.                       *)
(***************************************************************************)
Nothing == [header |-> <<>>, nodes |-> <<>>, metadata |-> <<>>, contracts |-> <<>>]

Init ==
  /\ phase = "TX_PART"
  /\ hasher = <<>>
  /\ ring = [i \in Slots |-> [id |-> 0, hash |-> <<>>]]
  /\ ring_next = 0
  /\ err_code = "HASH_OK"
  /\ partial_tx_hash = <<>>
  /\ m_hash = <<>>
  /\ received = Nothing

\* A first APDU abandons whatever was under way.  The position in the ring is kept.
hash_transaction(h) ==
  LET start == [hw_init EXCEPT !.out = Purpose, !.error = "HASH_OK"]
      w == encode_int32(encode_string(start, h.version), Len(h.roots))
  IN /\ err_code' = w.error
     /\ ring' = init_node_hash_store
     /\ hasher' = w.out
     /\ phase' = IF w.error # "HASH_OK" THEN "refused"
                 ELSE IF h.nodes_count = 0 THEN "METADATA" ELSE "NODES"
     /\ received' = [Nothing EXCEPT !.header = <<h>>]
     /\ partial_tx_hash' = <<>> /\ m_hash' = <<>>
     /\ UNCHANGED ring_next

IsRoot(id) == \E i \in DOMAIN received.header[1].roots : received.header[1].roots[i] = id

Arrived(id) == \E i \in DOMAIN received.nodes : received.nodes[i].id = id

\* The digest of a root goes into the transaction hash, in the order of arrival.
proto_deserialize_node(n) ==
  LET w == node_decode_callback(hw_init, n)
      more == Len(received.nodes) + 1 < received.header[1].nodes_count
  IN /\ phase = "NODES"
     /\ n.id < received.header[1].nodes_count /\ ~Arrived(n.id)
     /\ err_code' = w.error
     /\ IF w.failed THEN UNCHANGED <<hasher, ring, ring_next>>
        ELSE IF IsRoot(n.id)
        THEN hasher' = hasher \o hw_finalize(w) /\ UNCHANGED <<ring, ring_next>>
        ELSE set_node_hash(n.id, hw_finalize(w)) /\ UNCHANGED hasher
     /\ phase' = IF w.failed \/ w.error # "HASH_OK" THEN "refused"
                 ELSE IF more THEN "NODES" ELSE "METADATA"
     /\ received' = [received EXCEPT !.nodes = Append(@, n)]
     /\ UNCHANGED <<partial_tx_hash, m_hash>>

finalize_hash(tx_hash, md_hash) == sha256(Purpose \o <<2>> \o tx_hash \o md_hash)

optional_time(w, t) == FoldLeft(encode_int64, encode_optional(w, t), t)

encode_metadata(w, m) ==
  LET who == encode_string(encode_repeated(hw_put_byte(w, 1), m.act_as), m.command_id)
      which == encode_int32(encode_string(who, m.transaction_uuid), m.mediator_group)
      where == encode_string(which, m.synchronizer_id)
      from == optional_time(where, m.min_ledger_effective_time)
      to == optional_time(from, m.max_ledger_effective_time)
  IN encode_int32(encode_int64(to, m.preparation_time), m.input_contracts_count)

\* The component that completes the transaction also completes its hash.
Finalize(w, last) ==
  /\ hasher' = w.out
  /\ phase' = IF w.failed \/ w.error # "HASH_OK" THEN "refused"
              ELSE IF last THEN "signed" ELSE "CONTRACTS"
  /\ m_hash' = IF phase' = "signed" THEN finalize_hash(partial_tx_hash', hw_finalize(w)) ELSE m_hash

hash_metadata(m) ==
  LET w == encode_metadata([hw_init EXCEPT !.out = Purpose], m)
  IN /\ phase = "METADATA"
     /\ partial_tx_hash' = sha256(hasher)
     /\ err_code' = w.error
     /\ received' = [received EXCEPT !.metadata = <<m>>]
     /\ Finalize(w, m.input_contracts_count = 0)
     /\ UNCHANGED <<ring, ring_next>>

\* A disclosed contract is hashed as a create without a seed.
proto_deserialize_input_contract(c) ==
  LET w == decode_create(hw_init, c.contract, -1)
      entry == hw_put(encode_int64([w EXCEPT !.out = hasher], c.created_at), hw_finalize(w))
      last == Len(received.contracts) + 1 = received.metadata[1].input_contracts_count
  IN /\ phase = "CONTRACTS"
     /\ err_code' = w.error
     /\ received' = [received EXCEPT !.contracts = Append(@, c)]
     /\ UNCHANGED partial_tx_hash
     /\ Finalize(entry, last)
     /\ UNCHANGED <<ring, ring_next>>

Next ==
  \/ \E h \in Headers : hash_transaction(h)
  \/ \E n \in Nodes : proto_deserialize_node(n)
  \/ \E m \in Metadatas : hash_metadata(m)
  \/ \E c \in Contracts : proto_deserialize_input_contract(c)

Spec == Init /\ [][Next]_vars
-----------------------------------------------------------------------------
\* Type correctness of the hashing state; the next slot of the ring is always one of
\* its slots.
TypeOK ==
  /\ phase \in {"TX_PART", "NODES", "METADATA", "CONTRACTS", "signed", "refused"}
  /\ hasher \in Seq(Nat) /\ partial_tx_hash \in Seq(Nat) /\ m_hash \in Seq(Nat)
  /\ ring \in [Slots -> [id : Int, hash : Seq(Nat)]]
  /\ ring_next \in Slots
  /\ err_code \in HashErrors
  /\ DOMAIN received = DOMAIN Nothing

\* Roots that arrived, in the order of their arrival.
RootsReceived ==
  SelectSeq([i \in DOMAIN received.nodes |-> received.nodes[i].id], IsRoot)

\* A value whose records all carry their id and whose labels, constructors and keys fit
\* the buffer they are read into.  A record without an id is written without its presence
\* byte and number of fields (decode_record_id), a longer label as several strings
\* (decode_record_field_label).
RECURSIVE Regular(_)
Regular(v) ==
  /\ v.kind = "record" => v.id # <<>>
  /\ \A i \in DOMAIN v.items :
       /\ Len(v.items[i].label) < DEFAULT_DECODE_BUFFER_SIZE
       /\ Regular(v.items[i].value)
       /\ \A j \in DOMAIN v.items[i].key : Regular(v.items[i].key[j])

RegularNode(n) ==
  \A v \in Range(n.argument) \cup Range(n.exercise_result) : Regular(v)

\* An exercise without a result: decode_exercise writes the presence byte of the result
\* all the same, as 1, where the scheme has 0.
NoResult(n) == n.kind = "exercise" /\ n.exercise_result = <<>>

\* "The app computes the hash of the Canton interactive submission hashing scheme,
\* version 2": what is signed is the hash of the transaction that was received, as the
\* participant computes it, when every root arrived in the order of the header.  It does
\* not hold of an exercise without a result, nor of values that are not regular.  (Nor
\* does it of a generic map that has a container as a key, which the property leaves in.)
HashIsTheScheme ==
  /\ phase = "signed" /\ RootsReceived = received.header[1].roots
  /\ \A i \in DOMAIN received.nodes :
       RegularNode(received.nodes[i]) /\ ~NoResult(received.nodes[i])
  /\ \A i \in DOMAIN received.contracts : RegularNode(received.contracts[i].contract)
  =>
    m_hash = PreparedTransactionHash(received.header[1], received.nodes,
                                     received.metadata[1], received.contracts)

LastNode == received.nodes[Len(received.nodes)]

\* The digest of a node identifies it: no other node the host could have sent in its
\* place would have been written as the same bytes and accepted.  Nodes with values that
\* are not regular are left out: without ids, a record in a record and two neighbours in
\* one are written alike.
DigestIdentifies ==
  (phase \in {"NODES", "METADATA"} /\ received.nodes # <<>> /\ RegularNode(LastNode)) =>
    \A n \in Nodes :
      (n.id = LastNode.id /\ n # LastNode /\ RegularNode(n)) =>
        LET other == node_decode_callback(hw_init, n)
        IN other.failed \/ other.error # "HASH_OK"
             \/ other.out # node_decode_callback(hw_init, LastNode).out

\* The fields the encoding of a node needs, wherever the node is.
Needed(n) ==
  /\ n.lf_version # <<>> /\ n.package_name # <<>> /\ n.template_id # <<>>
  /\ n.contract_id # <<>> /\ Len(n.contract_id) % 2 = 0
  /\ n.kind = "fetch" \/ n.argument # <<>>
  /\ n.kind = "exercise" => n.choice_id # <<>> /\ SeedOf(n.id) # <<>>

NeededOfNode(i) ==
  LET n == received.nodes[i]
  IN /\ n.kind # "rollback" => Needed(n)
     /\ \A c \in Range(n.children) : \E j \in 1 .. i - 1 : received.nodes[j].id = c

\* "If a field that the encoding needs is missing, the app refuses the transaction":
\* whatever was signed had its version, the fields of its nodes, the digest of every
\* child, the strings of the metadata and the fields of its contracts.  (Which status word
\* refuses is not stated here: it is SW_TX_PARSING_FAIL for the fields of a node, whatever
\* the sentence goes on to say.)
MissingIsRefused ==
  phase = "signed" =>
    /\ received.header[1].version # <<>>
    /\ \A i \in DOMAIN received.nodes : NeededOfNode(i)
    /\ LET m == received.metadata[1]
       IN m.command_id # <<>> /\ m.transaction_uuid # <<>> /\ m.synchronizer_id # <<>>
    /\ \A i \in DOMAIN received.contracts : Needed(received.contracts[i].contract)
=============================================================================
