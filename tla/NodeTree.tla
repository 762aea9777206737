------------------------------ MODULE NodeTree ------------------------------
(***************************************************************************)
(* The node tree of a prepared transaction.                                *)
(*                                                                         *)
(* A prepared transaction arrives as a header, its nodes one by one and    *)
(* the metadata.  Nothing is kept of a node but two bits (it arrived, a    *)
(* parent claimed it) and, in a ring of MAX_NODE_CHILDREN slots, its       *)
(* digest, which its parent will need.  This module joins the three pieces *)
(* of the app that work on this stream: the bookkeeping of                 *)
(* node_tree_check.c, the digest ring of canonical_hash.c and the decoding *)
(* of one node in pb_hashing_parser.c, driven by the receive states of     *)
(* prepared_transaction.c up to the verdict on the tree.                   *)
(*                                                                         *)
(* A digest is named by the part it was computed from (SHA-256 is taken to *)
(* be collision free), and a node id string by its value and its spelling. *)
(***************************************************************************)
EXTENDS Integers, Sequences, FiniteSets

CONSTANTS
  MAX_NODE_CHILDREN,  \* slots of the digest ring, and the longest child list
  MAX_TX_NODES,       \* largest node count whose tree is tracked
  MaxParts,           \* bound: node parts per transaction, for a count never met
  Headers,            \* DAML transaction components the host may send
  Nodes               \* node components the host may send

(***************************************************************************)
(* A node id travels as a string.  "plain" is the decimal spelling,        *)
(* "padded" has leading zeros within three characters, "long" is numeric   *)
(* with more than three, "text" has a character that is no digit.          *)
(***************************************************************************)
Spellings == {"plain", "padded", "long", "text"}
IdString == [value : Nat, spelling : Spellings]

\* A node part whose id field is absent.
NoName == [value |-> 0, spelling |-> "absent"]

(***************************************************************************)
(* name_last says that the id field follows the node on the wire, so the   *)
(* node is decoded before its id is known.  decodable is FALSE for a part  *)
(* nanopb or one of the completeness checks rejects, a missing seed        *)
(* included; shown is FALSE for a node whose display parse fails.          *)
(***************************************************************************)
HeaderPart == [roots : Seq(IdString), nodes_count : Int,
               version : BOOLEAN, memory : BOOLEAN]
NodePart == [name : IdString \cup {NoName}, name_last : BOOLEAN,
             kind : {"create", "exercise", "fetch", "rollback"},
             children : Seq(IdString), decodable : BOOLEAN, shown : BOOLEAN]

ASSUME RingAssumption == MAX_NODE_CHILDREN \in Nat \ {0}
ASSUME LimitAssumption == MAX_TX_NODES \in Nat /\ MaxParts \in Nat
ASSUME HeadersAssumption == Headers \subseteq HeaderPart
ASSUME NodesAssumption == Nodes \subseteq NodePart

ImpossibleErrors ==
  {"NODE_ID_OUT_OF_RANGE", "DUPLICATE_NODE", "CHILD_OUT_OF_RANGE",
   "SELF_CHILD", "ROOT_CLAIMED", "DUPLICATE_CLAIM"}
UnexpectedErrors ==
  {"ROOT_COUNT", "ORPHAN_NODE", "MISSING_CHILD", "TOO_MANY_NODES", "NO_MEMORY"}
TreeErrors == ImpossibleErrors \cup UnexpectedErrors
HashErrors == {"MISSING_STRING", "TOO_MANY_CHILDREN", "NODE_HASH_NOT_FOUND"}

VARIABLES
  tx_state,        \* receive state: "TX_PART", "NODES" or "METADATA"
  nodes_count,     \* node count of the header, kept in the DAML transaction
  recv_node_idx,   \* node parts received
  root_names,      \* root id strings of the header
  check_ctx,       \* node_tree_check.c: who arrived, who is claimed, first error
  ring,            \* canonical_hash.c: G_hashed_nodes_store
  ring_next,       \* canonical_hash.c: G_hashed_nodes_store_count
  hash_err,        \* canonical_hash.c: first hash error of the transaction
  tx_hasher,       \* digests written into the transaction hash so far
  verdict,         \* "none", "accepted", "blind" or "refused"
  tx_no,           \* history: transactions are numbered modulo 2 in digests
  parts            \* history: the node parts received while the tree is good

vars == <<tx_state, nodes_count, recv_node_idx, root_names, check_ctx, ring,
          ring_next, hash_err, tx_hasher, verdict, tx_no, parts>>

Slots == 0 .. MAX_NODE_CHILDREN - 1
Digest == [tx : 0 .. 1, part : Nat]
NoDigest == [tx |-> 0, part |-> 0]
-----------------------------------------------------------------------------
(***************************************************************************)
(* Node ids.                                                               *)
(***************************************************************************)
\* The tree check reads a claimed id strictly: -1 when it cannot be one.
node_id_from_str(s) == IF s.spelling \in {"plain", "padded"} THEN s.value ELSE -1

\* The hashing code reads an id leniently: 0 when it is no number.  An id of
\* more than nine digits is left out: atoint does not guard its overflow.
atoint(s) == IF s.spelling = "text" THEN 0 ELSE s.value

\* The id a node part carries: -1 when decode_node_id_field never runs.
NodeId(m) == IF m.name = NoName THEN -1 ELSE atoint(m.name)

\* decode_node_id_field compares the name with the root strings, not the numbers.
IsRootNode(m) == \E i \in DOMAIN root_names : root_names[i] = m.name

\* The id known to the node decoder when it claims the children.
ParentId(m) == IF m.name_last THEN -1 ELSE NodeId(m)

Undecodable(m) ==
  \/ ~m.decodable
  \/ m.name.spelling = "long"
  \/ m.kind = "exercise" /\ ParentId(m) = -1   \* an exercise needs its seed

DeclaresChildren(m) == m.kind \in {"exercise", "rollback"}
-----------------------------------------------------------------------------
(***************************************************************************)
(* node_tree_check.c                                                       *)
(***************************************************************************)
tree_check_reset ==
  [root_id |-> -1, nodes_count |-> 0, seen |-> {}, claimed |-> {}, err |-> "TREE_OK"]

set_tree_error(c, e) == IF c.err = "TREE_OK" THEN [c EXCEPT !.err = e] ELSE c

InRange(c, id) == 0 <= id /\ id < c.nodes_count

tree_check_init(roots, count, memory) ==
  LET fresh == tree_check_reset
      sized == [fresh EXCEPT !.nodes_count = count]
      root_id == node_id_from_str(roots[1])
  IN CASE count < 0 \/ count > MAX_TX_NODES -> set_tree_error(fresh, "TOO_MANY_NODES")
       [] count \in 0 .. MAX_TX_NODES /\ Len(roots) # 1 -> set_tree_error(fresh, "ROOT_COUNT")
       [] count \in 0 .. MAX_TX_NODES /\ Len(roots) = 1 /\ ~memory ->
            set_tree_error(fresh, "NO_MEMORY")
       [] OTHER ->
            IF InRange(sized, root_id)
            THEN [sized EXCEPT !.root_id = root_id, !.claimed = {root_id}]
            ELSE set_tree_error(sized, "NODE_ID_OUT_OF_RANGE")

\* Mutant: a node that arrives twice is not noticed.
tree_mark_seen_twice(c, id) ==
  IF InRange(c, id) THEN [c EXCEPT !.seen = @ \cup {id}]
  ELSE set_tree_error(c, "NODE_ID_OUT_OF_RANGE")

tree_mark_seen(c, id) ==
  CASE ~InRange(c, id) -> set_tree_error(c, "NODE_ID_OUT_OF_RANGE")
    [] InRange(c, id) /\ id \in c.seen -> set_tree_error(c, "DUPLICATE_NODE")
    [] OTHER -> [c EXCEPT !.seen = @ \cup {id}]

\* Mutant: two parents may claim the same child.
ChildErrorTwoParents(c, parent, children, i) ==
  LET id == node_id_from_str(children[i])
  IN IF ~InRange(c, id) THEN "CHILD_OUT_OF_RANGE"
     ELSE IF id = parent THEN "SELF_CHILD"
     ELSE IF id = c.root_id THEN "ROOT_CLAIMED"
     ELSE "TREE_OK"

\* What the claim loop finds at child i, the children before it being claimed.
ChildError(c, parent, children, i) ==
  LET id == node_id_from_str(children[i])
  IN IF ~InRange(c, id) THEN "CHILD_OUT_OF_RANGE"
     ELSE IF id = parent THEN "SELF_CHILD"
     ELSE IF id = c.root_id THEN "ROOT_CLAIMED"
     ELSE IF id \in c.claimed \/ \E j \in 1 .. i - 1 : node_id_from_str(children[j]) = id
     THEN "DUPLICATE_CLAIM"
     ELSE "TREE_OK"

\* The children the loop claims before it stops at the first error.
ClaimedIndexes(c, parent, children) ==
  {i \in DOMAIN children : \A j \in 1 .. i : ChildError(c, parent, children, j) = "TREE_OK"}

tree_claim_children(c, parent, children) ==
  LET good == ClaimedIndexes(c, parent, children)
      bad == DOMAIN children \ good
      after == [c EXCEPT !.claimed = @ \cup {node_id_from_str(children[i]) : i \in good}]
      first == CHOOSE i \in bad : \A j \in bad : i <= j
  IN IF bad = {} THEN after
     ELSE set_tree_error(after, ChildError(c, parent, children, first))

\* Mutant: the sweep looks for missing children only.
tree_verify_no_orphans(c) ==
  LET missing == c.claimed \ c.seen
      swept == IF missing = {} THEN c ELSE set_tree_error(c, "MISSING_CHILD")
  IN [swept EXCEPT !.nodes_count = 0, !.seen = {}, !.claimed = {}]

\* The final sweep stops at the first id whose two bits differ, and frees the array.
tree_verify_complete(c) ==
  LET differ == {i \in 0 .. c.nodes_count - 1 : (i \in c.seen) # (i \in c.claimed)}
      first == CHOOSE i \in differ : \A j \in differ : i <= j
      swept == IF differ = {} THEN c
               ELSE set_tree_error(c, IF first \in c.seen THEN "ORPHAN_NODE"
                                      ELSE "MISSING_CHILD")
  IN [swept EXCEPT !.nodes_count = 0, !.seen = {}, !.claimed = {}]

tree_can_clear_sign(c) == c.err = "TREE_OK"

tree_error_is_impossible(e) == e \in ImpossibleErrors
-----------------------------------------------------------------------------
(***************************************************************************)
(* canonical_hash.c: the ring of node digests.                             *)
(***************************************************************************)
\* Mutant: the slots are zeroed, so every free slot looks like node 0.
zeroed_node_hash_store == [i \in Slots |-> [id |-> 0, digest |-> NoDigest]]

init_node_hash_store == [i \in Slots |-> [id |-> -1, digest |-> NoDigest]]

\* Mutant: the scan misses the first slot.
StoredFromSecond(s) == \E i \in Slots \ {0} : ring[i].id = atoint(s)

Stored(s) == \E i \in Slots : ring[i].id = atoint(s)

\* Mutant: the digest is taken from the slot after the match.
get_next_node_hash(s) ==
  LET match == {i \in Slots : ring[i].id = atoint(s)}
      first == CHOOSE i \in match : \A j \in match : i <= j
  IN ring[(first + 1) % MAX_NODE_CHILDREN].digest

\* The lookup scans the slots upwards and takes the first match.
get_node_hash(s) ==
  LET match == {i \in Slots : ring[i].id = atoint(s)}
  IN ring[CHOOSE i \in match : \A j \in match : i <= j].digest

\* The error encoding the children of m leaves behind.
ChildrenHashError(m) ==
  IF ~DeclaresChildren(m) THEN "HASH_OK"
  ELSE IF Len(m.children) > MAX_NODE_CHILDREN THEN "TOO_MANY_CHILDREN"
  ELSE IF \E i \in DOMAIN m.children : ~Stored(m.children[i]) THEN "NODE_HASH_NOT_FOUND"
  ELSE "HASH_OK"
-----------------------------------------------------------------------------
Init ==
  /\ tx_state = "TX_PART"
  /\ nodes_count = 0
  /\ recv_node_idx = 0
  /\ root_names = << >>
  /\ check_ctx = tree_check_reset
  /\ ring = init_node_hash_store
  /\ ring_next = 0
  /\ hash_err = "HASH_OK"
  /\ tx_hasher = << >>
  /\ verdict = "none"
  /\ tx_no = 0
  /\ parts = << >>

\* A refused transaction: abort_prepared_tx, and sign_tx.c ends the session.
abort_prepared_tx ==
  /\ check_ctx' = tree_check_reset
  /\ verdict' = "refused"

\* RECEIVING_DAML_TX_PART: the header.
DamlTxPart(h) ==
  /\ tx_state = "TX_PART"
  /\ verdict = "none"
  /\ ring' = init_node_hash_store
  /\ hash_err' = IF h.version THEN "HASH_OK" ELSE "MISSING_STRING"
  /\ tx_hasher' = << >>
  /\ nodes_count' = h.nodes_count
  /\ root_names' = h.roots
  /\ tx_no' = 1 - tx_no
  /\ IF h.version
     THEN /\ check_ctx' = tree_check_init(h.roots, h.nodes_count, h.memory)
          /\ recv_node_idx' = 0
          /\ tx_state' = IF h.nodes_count = 0 THEN "METADATA" ELSE "NODES"
          /\ verdict' = verdict
     ELSE /\ abort_prepared_tx
          /\ UNCHANGED <<recv_node_idx, tx_state>>
  /\ UNCHANGED <<ring_next, parts>>

\* The header does not decode.
DamlTxPartFails ==
  /\ tx_state = "TX_PART"
  /\ verdict = "none"
  /\ abort_prepared_tx
  /\ UNCHANGED <<tx_state, nodes_count, recv_node_idx, root_names, ring,
                 ring_next, hash_err, tx_hasher, tx_no, parts>>

ThisDigest == [tx |-> tx_no, part |-> recv_node_idx + 1]

\* The bookkeeping of one node: its children are claimed while it is decoded, then
\* it is marked as arrived.
CheckedNode(m) ==
  tree_mark_seen(IF DeclaresChildren(m)
                 THEN tree_claim_children(check_ctx, ParentId(m), m.children)
                 ELSE check_ctx, NodeId(m))

\* History: what the node part said, and the digests its own digest was made of.
PartRecord(m) ==
  LET kids == IF DeclaresChildren(m) THEN m.children ELSE << >>
  IN [id |-> NodeId(m), root |-> IsRootNode(m),
      children |-> [i \in DOMAIN kids |-> atoint(kids[i])],
      digests |-> [i \in DOMAIN kids |-> IF Stored(kids[i]) THEN get_node_hash(kids[i])
                                         ELSE NoDigest]]

\* Mutant: the ring wraps one slot too late.
KeepDigestPastEnd(m) ==
  IF IsRootNode(m)
  THEN /\ tx_hasher' = Append(tx_hasher, ThisDigest)
       /\ UNCHANGED <<ring, ring_next>>
  ELSE /\ ring' = [ring EXCEPT ![ring_next] = [id |-> NodeId(m), digest |-> ThisDigest]]
       /\ ring_next' = (ring_next + 1) % (MAX_NODE_CHILDREN + 1)
       /\ UNCHANGED tx_hasher

\* Mutant: the root's digest is kept like any other.
KeepDigestInRing(m) ==
  /\ ring' = [ring EXCEPT ![ring_next] = [id |-> NodeId(m), digest |-> ThisDigest]]
  /\ ring_next' = (ring_next + 1) % MAX_NODE_CHILDREN
  /\ UNCHANGED tx_hasher

\* The end of proto_deserialize_node: a root digest goes into the transaction
\* hash, any other into the ring.
KeepDigest(m) ==
  IF IsRootNode(m)
  THEN /\ tx_hasher' = Append(tx_hasher, ThisDigest)
       /\ UNCHANGED <<ring, ring_next>>
  ELSE /\ ring' = [ring EXCEPT ![ring_next] = [id |-> NodeId(m), digest |-> ThisDigest]]
       /\ ring_next' = (ring_next + 1) % MAX_NODE_CHILDREN
       /\ UNCHANGED tx_hasher

\* RECEIVING_DAML_NODES: one node, hashed, checked and parsed for display.
DamlNode(m) ==
  LET c == CheckedNode(m)
      e == ChildrenHashError(m)
      refused == e # "HASH_OK" \/ (tree_can_clear_sign(c) /\ ~m.shown)
  IN /\ tx_state = "NODES"
     /\ verdict = "none"
     /\ recv_node_idx < MaxParts
     /\ ~Undecodable(m)
     /\ KeepDigest(m)
     /\ hash_err' = e
     /\ parts' = IF tree_can_clear_sign(c) THEN Append(parts, PartRecord(m)) ELSE << >>
     /\ IF refused
        THEN /\ abort_prepared_tx
             /\ UNCHANGED <<recv_node_idx, tx_state>>
        ELSE /\ check_ctx' = c
             /\ recv_node_idx' = recv_node_idx + 1
             /\ tx_state' = IF recv_node_idx + 1 = nodes_count THEN "METADATA" ELSE tx_state
             /\ verdict' = verdict
     /\ UNCHANGED <<nodes_count, root_names, tx_no>>

\* The node does not decode.
DamlNodeFails(m) ==
  /\ tx_state = "NODES"
  /\ verdict = "none"
  /\ Undecodable(m)
  /\ abort_prepared_tx
  /\ UNCHANGED <<tx_state, nodes_count, recv_node_idx, root_names, ring,
                 ring_next, hash_err, tx_hasher, tx_no, parts>>

\* RECEIVING_METADATA: apply_node_tree_verdict, before the metadata is parsed.
apply_node_tree_verdict ==
  LET c == tree_verify_complete(check_ctx)
  IN /\ tx_state = "METADATA"
     /\ verdict = "none"
     /\ IF tree_error_is_impossible(c.err)
        THEN abort_prepared_tx
        ELSE /\ check_ctx' = c
             /\ verdict' = IF c.err = "TREE_OK" THEN "accepted" ELSE "blind"
     /\ UNCHANGED <<tx_state, nodes_count, recv_node_idx, root_names, ring,
                    ring_next, hash_err, tx_hasher, tx_no, parts>>

\* A first APDU, at any time: clean_context and process_prepared_tx_init.  The
\* ring and the hash error are only cleared by the next header.
NewSession ==
  /\ tx_state' = "TX_PART"
  /\ nodes_count' = 0
  /\ recv_node_idx' = 0
  /\ root_names' = << >>
  /\ check_ctx' = tree_check_reset
  /\ tx_hasher' = << >>
  /\ verdict' = "none"
  /\ parts' = << >>
  /\ UNCHANGED <<ring, ring_next, hash_err, tx_no>>

Next ==
  \/ \E h \in Headers : DamlTxPart(h)
  \/ DamlTxPartFails
  \/ \E m \in Nodes : DamlNode(m) \/ DamlNodeFails(m)
  \/ apply_node_tree_verdict
  \/ NewSession

Spec == Init /\ [][Next]_vars
-----------------------------------------------------------------------------
(***************************************************************************)
(* Properties.                                                             *)
(***************************************************************************)
PartType == [id : Int, root : BOOLEAN, children : Seq(Nat), digests : Seq(Digest)]

\* The values the receive state, check_ctx, the digest ring and the history take.
TypeOK ==
  /\ tx_state \in {"TX_PART", "NODES", "METADATA"}
  /\ nodes_count \in Int
  /\ recv_node_idx \in Nat
  /\ root_names \in Seq(IdString)
  /\ check_ctx \in [root_id : Int, nodes_count : 0 .. MAX_TX_NODES, seen : SUBSET Nat,
                    claimed : SUBSET Nat, err : TreeErrors \cup {"TREE_OK"}]
  /\ ring \in [Slots -> [id : Int, digest : Digest]]
  /\ ring_next \in Slots
  /\ hash_err \in HashErrors \cup {"HASH_OK"}
  /\ tx_hasher \in Seq(Digest)
  /\ verdict \in {"none", "accepted", "blind", "refused"}
  /\ tx_no \in 0 .. 1
  /\ parts \in Seq(PartType)

\* Part k of ps names the node id as a child.
IsChild(ps, id, k) == \E i \in DOMAIN ps[k].children : ps[k].children[i] = id

\* The two bits per id, the first error and the digest lookups together recognise
\* a tree: behind an accepted verdict every announced id arrived exactly once, the
\* root is nobody's child, and every other node has exactly one parent, which
\* arrived after it (so following parents upwards ends in the root).
AcceptedTree ==
  verdict = "accepted" =>
    /\ Len(parts) = nodes_count
    /\ check_ctx.root_id \in 0 .. nodes_count - 1
    /\ \A id \in 0 .. nodes_count - 1 : \E k \in DOMAIN parts : parts[k].id = id
    /\ \A k, l \in DOMAIN parts : parts[k].id = parts[l].id => k = l
    /\ \A k \in DOMAIN parts : ~IsChild(parts, check_ctx.root_id, k)
    /\ \A l \in DOMAIN parts : parts[l].id # check_ctx.root_id =>
         \E k \in l + 1 .. Len(parts) :
            /\ IsChild(parts, parts[l].id, k)
            /\ \A j \in DOMAIN parts : IsChild(parts, parts[l].id, j) => j = k

\* The graph the node parts declare: an edge leads from a child to its parent.
NodeIds == {parts[k].id : k \in DOMAIN parts}
Edges ==
  UNION {{<<parts[k].children[i], parts[k].id>> : i \in DOMAIN parts[k].children} :
           k \in DOMAIN parts}

\* p follows parents from the node n to the node r.
PathUp(p, len, n, r) ==
  /\ p[1] = n /\ p[len] = r
  /\ \A i \in 1 .. len - 1 : <<p[i], p[i + 1]>> \in Edges

\* Behind an accepted verdict the declared edges are a tree with the header's root, in
\* the graph-theoretic sense: they join nodes that arrived, the root has no parent and
\* no node two, and a path leads from every node to the root.  The two bits per id that
\* tree_verify_complete compares cannot see a cycle; the order the ring imposes can.
AcceptedGraph ==
  verdict = "accepted" =>
    /\ Edges \subseteq NodeIds \X NodeIds
    /\ check_ctx.root_id \in NodeIds
    /\ \A e \in Edges : /\ e[1] # check_ctx.root_id
                        /\ \A f \in Edges : e[1] = f[1] => e = f
    /\ \A n \in NodeIds :
         \E len \in 1 .. Len(parts) : \E p \in [1 .. len -> NodeIds] :
            PathUp(p, len, n, check_ctx.root_id)

\* "... refuses the transaction rather than producing a wrong hash": every digest a
\* node was hashed over is that of the child it names, received earlier in this
\* very transaction, never a stale slot of the ring.
DigestsOfChildren ==
  verdict = "accepted" =>
    \A k \in DOMAIN parts : \A i \in DOMAIN parts[k].children :
      \E l \in 1 .. k - 1 :
         /\ parts[l].id = parts[k].children[i]
         /\ parts[k].digests[i] = [tx |-> tx_no, part |-> l]

\* The transaction hash of an accepted tree covers the root node, once, and with it
\* (DigestsOfChildren) the whole tree, if the root node spells its id as the header does.
\* If it does not ("01" for "1"), decode_node_id_field, which compares strings, finds no
\* root, and the hash covers no node at all although the tree check accepts the numbers.
RootDigest ==
  verdict = "accepted" =>
    \E k \in DOMAIN parts :
       /\ parts[k].id = check_ctx.root_id
       /\ tx_hasher = IF parts[k].root THEN <<[tx |-> tx_no, part |-> k]>> ELSE << >>

\* tree_verify_complete calls its MISSING_CHILD branch one that cannot happen,
\* because the app waits for nodes_count parts.
NeverMissing == check_ctx.err # "MISSING_CHILD"

\* The parts stored in the ring after part l.
StoredSince(l) == {j \in l + 1 .. Len(parts) - 1 : ~parts[j].root}

\* "A hash a parent still needs but that has been overwritten is a lookup failure": a
\* lookup fails only for a child that has not arrived, or one that MAX_NODE_CHILDREN
\* later digests have pushed out of the ring.
LookupFailures ==
  verdict = "refused" /\ hash_err = "NODE_HASH_NOT_FOUND" /\ parts # << >> =>
    LET last == parts[Len(parts)]
    IN \E i \in DOMAIN last.children :
         \A l \in 1 .. Len(parts) - 1 :
            parts[l].id = last.children[i] /\ ~parts[l].root =>
              Cardinality(StoredSince(l)) >= MAX_NODE_CHILDREN

-----------------------------------------------------------------------------
(***************************************************************************)
(* The inductive invariant behind AcceptedTree, DigestsOfChildren and      *)
(* NeverMissing: what the two bits and the ring stand for while no error   *)
(* is known.                                                               *)
(***************************************************************************)
TreeOpen == tx_state # "TX_PART" /\ verdict = "none" /\ check_ctx.err = "TREE_OK"

\* seen is the set of the ids received, each of them received once.
SeenInv ==
  /\ Len(parts) = recv_node_idx
  /\ check_ctx.seen \subseteq 0 .. nodes_count - 1
  /\ check_ctx.seen = {parts[k].id : k \in DOMAIN parts}
  /\ Cardinality(check_ctx.seen) = recv_node_idx
  /\ \A k, l \in DOMAIN parts : parts[k].id = parts[l].id => k = l

\* claimed is the root and the children received so far, each with one parent.
ClaimedInv ==
  /\ check_ctx.nodes_count = nodes_count
  /\ check_ctx.root_id \in check_ctx.claimed
  /\ check_ctx.claimed \subseteq 0 .. nodes_count - 1
  /\ \A id \in check_ctx.claimed :
        id = check_ctx.root_id \/ \E k \in DOMAIN parts : IsChild(parts, id, k)
  /\ \A k \in DOMAIN parts : \A i \in DOMAIN parts[k].children :
        /\ parts[k].children[i] \in check_ctx.claimed
        /\ parts[k].children[i] # check_ctx.root_id
        /\ \A l \in DOMAIN parts : IsChild(parts, parts[k].children[i], l) => l = k

\* d is the digest of part l of ps, which carries the id.
IsDigestOf(ps, tx, d, l, id) == ps[l].id = id /\ d = [tx |-> tx, part |-> l]

\* Every digest in the ring is that of a node of this transaction, under its id,
\* and every node was hashed over the digests of the children it names.
DigestInv ==
  /\ \A s \in Slots : ring[s].id >= 0 =>
        \E l \in DOMAIN parts : IsDigestOf(parts, tx_no, ring[s].digest, l, ring[s].id)
  /\ \A k \in DOMAIN parts : \A i \in DOMAIN parts[k].children :
        \E l \in 1 .. k - 1 : IsDigestOf(parts, tx_no, parts[k].digests[i], l, parts[k].children[i])

\* What holds of the tree check and the ring between two parts.
TreeInv ==
  /\ tx_state = "TX_PART" => parts = << >>
  /\ TreeOpen => /\ SeenInv /\ ClaimedInv /\ DigestInv
                 /\ tx_state = "METADATA" => recv_node_idx = nodes_count
=============================================================================
