--------------------------- MODULE NodeRingProofs ---------------------------
(***************************************************************************)
(* What the ring of digests keeps, and what the transaction hash covers.   *)
(*                                                                         *)
(* The ring is a window on the digests of the node parts that are no root: *)
(* the digest stored c digests ago lies c slots before the last one        *)
(* written, the slots taken around, as long as c is below the number of    *)
(* slots.  The transaction hash gets the digest of the root node when that *)
(* node arrives.                                                           *)
(***************************************************************************)
EXTENDS NodeTreeProofs

\* The parts after part l of ps whose digests went into the ring.
Since(ps, l) == {j \in l + 1 .. Len(ps) : ~ps[j].root}

\* The slot written c digests before the last one.
SlotBack(next, c) == IF c < next THEN next - 1 - c ELSE next - 1 - c + MAX_NODE_CHILDREN

\* The ring as a window on the parts.
WindowInv ==
  TreeOpen =>
    \A l \in DOMAIN parts :
      (~parts[l].root /\ Cardinality(Since(parts, l)) < MAX_NODE_CHILDREN) =>
        ring[SlotBack(ring_next, Cardinality(Since(parts, l)))].id = parts[l].id

\* A hash error ends the transaction.
HashErrorEnds == tx_state # "TX_PART" /\ verdict = "none" => hash_err = "HASH_OK"

RingInv == WindowInv /\ HashErrorEnds /\ LookupFailures

\* The root digest is in the transaction hash once a node with the root's string has arrived.
RootInv ==
  TreeOpen =>
    /\ \E r \in IdString :
         root_names = <<r>> /\ r.spelling \in {"plain", "padded"} /\ r.value = check_ctx.root_id
    /\ \A k \in DOMAIN parts : parts[k].root => parts[k].id = check_ctx.root_id
    /\ \/ tx_hasher = << >> /\ \A k \in DOMAIN parts : ~parts[k].root
       \/ \E k \in DOMAIN parts : parts[k].root /\ tx_hasher = <<[tx |-> tx_no, part |-> k]>>
-----------------------------------------------------------------------------
(***************************************************************************)
(* The window                                                              *)
(***************************************************************************)
\* Writing a digest moves the window on by one slot and touches no slot that is still in it.
LEMMA WindowMoves ==
  ASSUME NEW next \in Slots, NEW c \in Nat, c + 1 < MAX_NODE_CHILDREN
  PROVE  LET then == (next + 1) % MAX_NODE_CHILDREN
         IN /\ SlotBack(then, c + 1) = SlotBack(next, c)
            /\ SlotBack(next, c) \in Slots /\ SlotBack(next, c) # next
<1>1. MAX_NODE_CHILDREN \in Nat \ {0}
  BY RingAssumption
<1>2. CASE next + 1 < MAX_NODE_CHILDREN
  <2>1. (next + 1) % MAX_NODE_CHILDREN = next + 1
    BY <1>1, <1>2 DEF Slots
  <2> QED
    BY <1>1, <1>2, <2>1 DEF SlotBack, Slots
<1>3. CASE next + 1 = MAX_NODE_CHILDREN
  <2>1. (next + 1) % MAX_NODE_CHILDREN = 0
    BY <1>1, <1>3
  <2> QED
    BY <1>1, <1>3, <2>1 DEF SlotBack, Slots
<1> QED
  BY <1>1, <1>2, <1>3 DEF Slots

LEMMA LastWritten ==
  ASSUME NEW next \in Slots
  PROVE  SlotBack((next + 1) % MAX_NODE_CHILDREN, 0) = next
<1>1. MAX_NODE_CHILDREN \in Nat \ {0}
  BY RingAssumption
<1>2. CASE next + 1 < MAX_NODE_CHILDREN
  <2>1. (next + 1) % MAX_NODE_CHILDREN = next + 1
    BY <1>1, <1>2 DEF Slots
  <2> QED
    BY <1>1, <1>2, <2>1 DEF SlotBack, Slots
<1>3. CASE next + 1 = MAX_NODE_CHILDREN
  <2>1. (next + 1) % MAX_NODE_CHILDREN = 0
    BY <1>1, <1>3
  <2> QED
    BY <1>1, <1>3, <2>1 DEF SlotBack, Slots
<1> QED
  BY <1>1, <1>2, <1>3 DEF Slots

\* A part that is appended is behind all the others.
LEMMA SinceAppended ==
  ASSUME NEW ps \in Seq(PartType), NEW p \in PartType, NEW l \in DOMAIN ps
  PROVE  /\ Since(Append(ps, p), l) = IF p.root THEN Since(ps, l)
                                      ELSE Since(ps, l) \cup {Len(ps) + 1}
         /\ Len(ps) + 1 \notin Since(ps, l) /\ IsFiniteSet(Since(ps, l))
         /\ Cardinality(Since(ps, l)) \in Nat
<1>1. Len(ps) \in Nat /\ l \in Nat /\ Len(Append(ps, p)) = Len(ps) + 1 /\ l <= Len(ps)
  OBVIOUS
<1>2. /\ \A j \in l + 1 .. Len(ps) : Append(ps, p)[j] = ps[j]
      /\ Append(ps, p)[Len(ps) + 1] = p
  BY <1>1
<1>3. l + 1 .. Len(ps) + 1 = (l + 1 .. Len(ps)) \cup {Len(ps) + 1}
  BY <1>1
<1>4. Len(ps) + 1 \notin l + 1 .. Len(ps)
  BY <1>1
<1>5. IsFiniteSet(l + 1 .. Len(ps))
  BY <1>1, FS_Interval
<1>6. IsFiniteSet(Since(ps, l)) /\ Cardinality(Since(ps, l)) \in Nat
  <2>1. Since(ps, l) \in SUBSET (l + 1 .. Len(ps))
    BY DEF Since
  <2> QED
    BY <1>5, <2>1, FS_Subset, FS_CardinalityType
<1>7. Since(Append(ps, p), l) = IF p.root THEN Since(ps, l) ELSE Since(ps, l) \cup {Len(ps) + 1}
  BY <1>1, <1>2, <1>3, <1>4 DEF Since
<1> QED
  BY <1>4, <1>6, <1>7 DEF Since

\* The part just stored has nothing behind it.
LEMMA SinceLast ==
  ASSUME NEW ps \in Seq(PartType), NEW p \in PartType
  PROVE  Since(Append(ps, p), Len(ps) + 1) = {}
<1>1. Len(ps) \in Nat /\ Len(Append(ps, p)) = Len(ps) + 1
  OBVIOUS
<1>2. Len(ps) + 1 + 1 .. Len(ps) + 1 = {}
  BY <1>1
<1> QED
  BY <1>1, <1>2 DEF Since

-----------------------------------------------------------------------------
(***************************************************************************)
(* Lookups that fail                                                       *)
(***************************************************************************)
\* A node part that leaves the tree good came while the tree was open.
LEMMA GoodPart ==
  ASSUME IndInv, NEW m \in NodePart, DamlNode(m), CheckedNode(m).err = "TREE_OK"
  PROVE  /\ TreeOpen /\ parts' = Append(parts, PartRecord(m))
         /\ PartRecord(m) \in PartType /\ PartRecord(m).root = IsRootNode(m)
         /\ PartRecord(m).id = NodeId(m)
         /\ Len(parts) \in Nat /\ DOMAIN parts = 1 .. Len(parts) /\ parts \in Seq(PartType)
         /\ Len(parts) = recv_node_idx
<1>1. tx_state = "NODES" /\ verdict = "none" /\ parts' = Append(parts, PartRecord(m))
  BY DEF DamlNode, tree_can_clear_sign
<1>2. check_ctx.err = "TREE_OK"
  BY NodeOutcome DEF IndInv
<1>3. PartRecord(m) \in PartType /\ PartRecord(m).id = NodeId(m)
  BY PartFacts DEF IndInv
<1>4. PartRecord(m).root = IsRootNode(m)
  BY DEF PartRecord
<1>5. TreeOpen
  BY <1>1, <1>2 DEF TreeOpen
<1>6. parts \in Seq(PartType) /\ Len(parts) = recv_node_idx
  BY <1>5 DEF IndInv, TypeOK, TreeInv, SeenInv
<1> QED
  BY <1>1, <1>3, <1>4, <1>5, <1>6

\* The window after a node part.
LEMMA WindowStep ==
  ASSUME IndInv, RingInv, NEW m \in NodePart, DamlNode(m)
  PROVE  WindowInv'
<1> SUFFICES ASSUME TreeOpen', NEW l \in DOMAIN parts', ~parts'[l].root,
                    Cardinality(Since(parts', l)) < MAX_NODE_CHILDREN
             PROVE  ring'[SlotBack(ring_next', Cardinality(Since(parts', l)))].id = parts'[l].id
  BY DEF WindowInv
<1> DEFINE p == PartRecord(m)
           n == Len(parts) + 1
<1>1. CheckedNode(m).err = "TREE_OK"
  BY DEF DamlNode, TreeOpen, abort_prepared_tx
<1>2. /\ TreeOpen /\ parts' = Append(parts, p)
      /\ p \in PartType /\ p.root = IsRootNode(m) /\ p.id = NodeId(m)
      /\ Len(parts) \in Nat /\ DOMAIN parts = 1 .. Len(parts) /\ parts \in Seq(PartType)
  BY <1>1, GoodPart
<1>3. /\ ring \in [Slots -> [id : Int, digest : Digest]] /\ ring_next \in Slots
  BY DEF IndInv, TypeOK
<1>4. /\ p.root => ring' = ring /\ ring_next' = ring_next
      /\ ~p.root =>
           /\ ring' = [ring EXCEPT ![ring_next] = [id |-> NodeId(m), digest |-> ThisDigest]]
           /\ ring_next' = (ring_next + 1) % MAX_NODE_CHILDREN
  BY <1>2 DEF DamlNode, KeepDigest
<1>5. /\ parts'[n] = p /\ \A k \in DOMAIN parts : parts'[k] = parts[k]
      /\ l = n \/ l \in DOMAIN parts
  <2> HIDE DEF p
  <2> QED BY <1>2
<1> HIDE DEF p
<1>6. CASE l = n
  <2>1. ~p.root /\ Since(parts', l) = {}
    BY <1>2, <1>5, <1>6, SinceLast
  <2>2. Cardinality(Since(parts', l)) = 0
    BY <2>1, FS_EmptySet
  <2>3. ring'[ring_next].id = p.id
    BY <1>2, <1>3, <1>4, <2>1
  <2> QED
    BY <1>3, <1>4, <1>5, <1>6, <2>1, <2>2, <2>3, LastWritten
<1>7. CASE l \in DOMAIN parts
  <2>1. /\ Since(parts', l) = IF p.root THEN Since(parts, l) ELSE Since(parts, l) \cup {n}
        /\ n \notin Since(parts, l) /\ IsFiniteSet(Since(parts, l))
        /\ Cardinality(Since(parts, l)) \in Nat
    BY <1>2, <1>7, SinceAppended
  <2>2. /\ ~parts[l].root
        /\ Cardinality(Since(parts, l)) < MAX_NODE_CHILDREN =>
             ring[SlotBack(ring_next, Cardinality(Since(parts, l)))].id = parts[l].id
    BY <1>2, <1>5, <1>7 DEF RingInv, WindowInv
  <2>3. CASE p.root
    BY <1>4, <1>5, <1>7, <2>1, <2>2, <2>3
  <2>4. CASE ~p.root
    <3> DEFINE c == Cardinality(Since(parts, l))
    <3>1. Cardinality(Since(parts', l)) = c + 1 /\ c \in Nat
      BY <2>1, <2>4, FS_AddElement
    <3> HIDE DEF c
    <3>2. c + 1 < MAX_NODE_CHILDREN
      BY <3>1
    <3>3. /\ SlotBack(ring_next', c + 1) = SlotBack(ring_next, c)
          /\ SlotBack(ring_next, c) \in Slots /\ SlotBack(ring_next, c) # ring_next
      BY <1>3, <1>4, <2>4, <3>1, <3>2, WindowMoves
    <3>4. ring'[SlotBack(ring_next, c)] = ring[SlotBack(ring_next, c)]
      BY <1>3, <1>4, <2>4, <3>3
    <3>5. ring[SlotBack(ring_next, c)].id = parts[l].id
      BY <2>2, <3>1, <3>2, RingAssumption DEF c
    <3> QED
      BY <1>5, <1>7, <3>1, <3>3, <3>4, <3>5
  <2> QED
    BY <2>3, <2>4
<1> QED
  BY <1>5, <1>6, <1>7

\* A node part that is refused for a digest that is not there.
LEMMA FailedLookup ==
  ASSUME IndInv, RingInv, NEW m \in NodePart, DamlNode(m)
  PROVE  LookupFailures'
<1> DEFINE p == PartRecord(m)
           kids == IF DeclaresChildren(m) THEN m.children ELSE << >>
           n == Len(parts) + 1
<1> SUFFICES ASSUME verdict' = "refused", hash_err' = "NODE_HASH_NOT_FOUND", parts' # << >>
             PROVE  LET last == parts'[Len(parts')]
                    IN \E i \in DOMAIN last.children :
                         \A l \in 1 .. Len(parts') - 1 :
                            parts'[l].id = last.children[i] /\ ~parts'[l].root =>
                              Cardinality(StoredSince(l)') >= MAX_NODE_CHILDREN
  BY DEF LookupFailures
<1>1. CheckedNode(m).err = "TREE_OK"
  BY DEF DamlNode, tree_can_clear_sign
<1>2. /\ TreeOpen /\ parts' = Append(parts, p) /\ p \in PartType
      /\ Len(parts) \in Nat /\ DOMAIN parts = 1 .. Len(parts) /\ parts \in Seq(PartType)
  BY <1>1, GoodPart
<1>3. /\ kids \in Seq(IdString) /\ DOMAIN p.children = DOMAIN kids
      /\ \A i \in DOMAIN kids : p.children[i] = atoint(kids[i])
  BY PartFacts DEF IndInv
<1>4. PICK i \in DOMAIN kids : ~Stored(kids[i])
  BY DEF DamlNode, ChildrenHashError
<1> HIDE DEF p, kids
<1>5. Len(parts') = n /\ parts'[n] = p /\ \A k \in DOMAIN parts : parts'[k] = parts[k]
  BY <1>2
<1>6. \A l \in DOMAIN parts : StoredSince(l)' = Since(parts, l)
  <2> SUFFICES ASSUME NEW l \in DOMAIN parts PROVE StoredSince(l)' = Since(parts, l)
    OBVIOUS
  <2>1. StoredSince(l)' = {j \in l + 1 .. Len(parts') - 1 : ~parts'[j].root}
    BY DEF StoredSince
  <2>2. l + 1 .. Len(parts') - 1 = l + 1 .. Len(parts)
    BY <1>2, <1>5
  <2>3. \A j \in l + 1 .. Len(parts) : parts'[j] = parts[j]
    BY <1>2, <1>5
  <2> QED
    BY <2>1, <2>2, <2>3 DEF Since
<1>7. ASSUME NEW l \in 1 .. Len(parts') - 1, parts'[l].id = p.children[i], ~parts'[l].root
      PROVE  Cardinality(StoredSince(l)') >= MAX_NODE_CHILDREN
  <2>1. l \in DOMAIN parts
    BY <1>2, <1>5
  <2>2. Cardinality(Since(parts, l)) \in Nat
    BY <1>2, <2>1, SinceAppended
  <2>3. SUFFICES ASSUME Cardinality(Since(parts, l)) < MAX_NODE_CHILDREN PROVE FALSE
    BY <1>6, <2>1, <2>2, RingAssumption
  <2>4. ring[SlotBack(ring_next, Cardinality(Since(parts, l)))].id = parts[l].id
    BY <1>2, <1>5, <1>7, <2>1, <2>3 DEF RingInv, WindowInv
  <2>5. SlotBack(ring_next, Cardinality(Since(parts, l))) \in Slots
    <3>1. ring_next \in Slots
      BY DEF IndInv, TypeOK
    <3> HIDE DEF Since
    <3> QED
      BY <2>2, <2>3, <3>1, RingAssumption DEF SlotBack, Slots
  <2> QED
    BY <1>3, <1>4, <1>5, <1>7, <2>1, <2>4, <2>5 DEF Stored
<1> QED
  BY <1>3, <1>5, <1>7

LEMMA RingStep ==
  ASSUME IndInv, RingInv, [Next]_vars
  PROVE  RingInv'
<1>1. ASSUME NEW h \in Headers, DamlTxPart(h)
      PROVE  RingInv'
  <2>1. parts' = << >>
    BY <1>1 DEF DamlTxPart, IndInv, TreeInv
  <2>2. HashErrorEnds'
    BY <1>1 DEF DamlTxPart, abort_prepared_tx, HashErrorEnds
  <2> QED
    BY <2>1, <2>2 DEF RingInv, WindowInv, LookupFailures
<1>2. CASE DamlTxPartFails
  BY <1>2 DEF DamlTxPartFails, abort_prepared_tx, IndInv, TreeInv, RingInv, WindowInv,
              HashErrorEnds, LookupFailures, TreeOpen
<1>3. ASSUME NEW m \in Nodes, DamlNode(m)
      PROVE  RingInv'
  <2>1. m \in NodePart
    BY NodesAssumption
  <2>2. HashErrorEnds'
    BY <1>3 DEF DamlNode, abort_prepared_tx, HashErrorEnds
  <2> QED
    BY <1>3, <2>1, <2>2, WindowStep, FailedLookup DEF RingInv
<1>4. ASSUME NEW m \in Nodes, DamlNodeFails(m)
      PROVE  RingInv'
  <2>1. hash_err' = "HASH_OK" /\ verdict' = "refused"
    BY <1>4 DEF DamlNodeFails, abort_prepared_tx, RingInv, HashErrorEnds
  <2> QED
    BY <2>1 DEF RingInv, WindowInv, HashErrorEnds, LookupFailures, TreeOpen
<1>5. CASE apply_node_tree_verdict
  <2>1. hash_err' = "HASH_OK" /\ verdict' # "none"
    BY <1>5 DEF apply_node_tree_verdict, abort_prepared_tx, RingInv, HashErrorEnds
  <2> QED
    BY <2>1 DEF RingInv, WindowInv, HashErrorEnds, LookupFailures, TreeOpen
<1>6. CASE NewSession
  BY <1>6 DEF NewSession, RingInv, WindowInv, HashErrorEnds, LookupFailures, TreeOpen
<1>7. CASE UNCHANGED vars
  <2>1. TreeOpen' = TreeOpen
    BY <1>7 DEF vars, TreeOpen
  <2>2. WindowInv'
    BY <1>7, <2>1 DEF vars, RingInv, WindowInv
  <2>3. \A l : StoredSince(l)' = StoredSince(l)
    BY <1>7 DEF vars, StoredSince
  <2> QED
    BY <1>7, <2>2, <2>3 DEF vars, RingInv, HashErrorEnds, LookupFailures
<1> QED
  BY <1>1, <1>2, <1>3, <1>4, <1>5, <1>6, <1>7 DEF Next

\* "A hash a parent still needs but that has been overwritten is a lookup failure", and there
\* is no other: a lookup fails only for a child that has not arrived or that MAX_NODE_CHILDREN
\* later digests have pushed out, for every ring size and stream of parts.
THEOREM OnlyOverwrittenIsLost == Spec => []LookupFailures
<1>1. Init => RingInv
  BY DEF Init, RingInv, WindowInv, HashErrorEnds, LookupFailures, TreeOpen
<1>2. IndInv /\ RingInv /\ [Next]_vars => RingInv'
  BY RingStep
<1>3. RingInv => LookupFailures
  BY DEF RingInv
<1> QED
  BY <1>1, <1>2, <1>3, Invariance, PTL DEF Spec

-----------------------------------------------------------------------------
(***************************************************************************)
(* The root in the transaction hash                                        *)
(***************************************************************************)
\* A good header names one root, by the id the tree check reads from it.
LEMMA HeaderRoot ==
  ASSUME NEW roots \in Seq(IdString), NEW n \in Int, NEW memory \in BOOLEAN,
         tree_check_init(roots, n, memory).err = "TREE_OK"
  PROVE  /\ Len(roots) = 1 /\ node_id_from_str(roots[1]) # -1
         /\ tree_check_init(roots, n, memory).root_id = node_id_from_str(roots[1])
<1> DEFINE root_id == node_id_from_str(roots[1])
           sized == [tree_check_reset EXCEPT !.nodes_count = n]
           c == tree_check_init(roots, n, memory)
<1>1. CASE n < 0 \/ n > MAX_TX_NODES
  BY <1>1, LimitAssumption DEF tree_check_init, set_tree_error, tree_check_reset
<1>2. CASE n \in 0 .. MAX_TX_NODES /\ Len(roots) # 1
  BY <1>2, LimitAssumption DEF tree_check_init, set_tree_error, tree_check_reset
<1>3. CASE n \in 0 .. MAX_TX_NODES /\ Len(roots) = 1 /\ ~memory
  BY <1>3, LimitAssumption DEF tree_check_init, set_tree_error, tree_check_reset
<1>4. CASE n \in 0 .. MAX_TX_NODES /\ Len(roots) = 1 /\ memory
  <2>1. c = IF InRange(sized, root_id) THEN [sized EXCEPT !.root_id = root_id, !.claimed = {root_id}]
            ELSE set_tree_error(sized, "NODE_ID_OUT_OF_RANGE")
    BY <1>4, LimitAssumption DEF tree_check_init
  <2>2. InRange(sized, root_id)
    BY <2>1 DEF set_tree_error, tree_check_reset
  <2>3. c.root_id = root_id
    BY <2>1, <2>2 DEF tree_check_reset
  <2>4. root_id # -1
    BY <2>2 DEF InRange
  <2> QED
    BY <1>4, <2>3, <2>4
<1> QED
  BY <1>1, <1>2, <1>3, <1>4, LimitAssumption

\* A node with the root's string has the root's number; the converse fails for padded ids.
LEMMA RootByNumber ==
  ASSUME RootInv, TreeOpen, NEW m \in NodePart, IsRootNode(m)
  PROVE  NodeId(m) = check_ctx.root_id
<1>1. PICK r \in IdString : /\ root_names = <<r>> /\ r.spelling \in {"plain", "padded"}
                            /\ r.value = check_ctx.root_id
  BY DEF RootInv
<1>2. m.name = r
  BY <1>1 DEF IsRootNode
<1>3. m.name # NoName
  BY <1>1, <1>2 DEF NoName
<1> QED
  BY <1>1, <1>2, <1>3 DEF NodeId, atoint

\* A node part that leaves the tree good.
LEMMA RootNodeStep ==
  ASSUME IndInv, RootInv, NEW m \in Nodes, DamlNode(m), TreeOpen'
  PROVE  RootInv'
<1> DEFINE p == PartRecord(m)
           n == Len(parts) + 1
<1>1. m \in NodePart
  BY NodesAssumption
<1>2. CheckedNode(m).err = "TREE_OK" /\ check_ctx' = CheckedNode(m)
  BY DEF DamlNode, TreeOpen, abort_prepared_tx
<1>3. /\ TreeOpen /\ parts' = Append(parts, p) /\ p \in PartType /\ p.id = NodeId(m)
      /\ p.root = IsRootNode(m)
      /\ Len(parts) \in Nat /\ DOMAIN parts = 1 .. Len(parts) /\ parts \in Seq(PartType)
      /\ Len(parts) = recv_node_idx
  BY <1>1, <1>2, GoodPart
<1>4. check_ctx'.root_id = check_ctx.root_id /\ p.id \notin check_ctx.seen
  BY <1>1, <1>2, NodeOutcome DEF IndInv
<1>5. root_names' = root_names /\ tx_no' = tx_no
  BY DEF DamlNode
<1>6. tx_hasher' = IF p.root THEN Append(tx_hasher, [tx |-> tx_no, part |-> n]) ELSE tx_hasher
  BY <1>3 DEF DamlNode, KeepDigest, ThisDigest
<1>7. p.root => p.id = check_ctx.root_id
  BY <1>1, <1>3, RootByNumber
<1> HIDE DEF p
<1>8. /\ n \in DOMAIN parts' /\ parts'[n] = p
      /\ \A k \in DOMAIN parts : k \in DOMAIN parts' /\ parts'[k] = parts[k]
      /\ \A k \in DOMAIN parts' : k = n \/ k \in DOMAIN parts
  BY <1>3
<1>9. \A k \in DOMAIN parts' : parts'[k].root => parts'[k].id = check_ctx'.root_id
  BY <1>3, <1>4, <1>7, <1>8 DEF RootInv
<1>10. \/ tx_hasher' = << >> /\ \A k \in DOMAIN parts' : ~parts'[k].root
       \/ \E k \in DOMAIN parts' :
            parts'[k].root /\ tx_hasher' = <<[tx |-> tx_no', part |-> k]>>
  <2>1. CASE p.root
    <3>1. \A k \in DOMAIN parts : parts[k].id # check_ctx.root_id
      BY <1>3, <1>4, <1>7, <2>1 DEF IndInv, TreeInv, SeenInv
    <3>2. tx_hasher = << >>
      BY <1>3, <3>1 DEF RootInv
    <3>3. tx_hasher' = <<[tx |-> tx_no, part |-> n]>>
      BY <1>6, <2>1, <3>2
    <3> QED
      BY <1>5, <1>8, <2>1, <3>3
  <2>2. CASE ~p.root
    BY <1>3, <1>5, <1>6, <1>8, <2>2 DEF RootInv
  <2> QED
    BY <2>1, <2>2
<1>11. \E r \in IdString : /\ root_names' = <<r>> /\ r.spelling \in {"plain", "padded"}
                            /\ r.value = check_ctx'.root_id
  BY <1>3, <1>4, <1>5 DEF RootInv
<1> QED
  BY <1>9, <1>10, <1>11 DEF RootInv

\* The header of a good tree.
LEMMA RootHeaderStep ==
  ASSUME IndInv, NEW h \in Headers, DamlTxPart(h), TreeOpen'
  PROVE  RootInv'
<1>1. /\ h.roots \in Seq(IdString) /\ h.nodes_count \in Int /\ h.memory \in BOOLEAN
  BY HeadersAssumption DEF HeaderPart
<1>2. /\ parts' = << >> /\ tx_hasher' = << >> /\ root_names' = h.roots
      /\ check_ctx' = tree_check_init(h.roots, h.nodes_count, h.memory)
      /\ check_ctx'.err = "TREE_OK"
  BY DEF DamlTxPart, TreeOpen, abort_prepared_tx, IndInv, TreeInv
<1>3. /\ Len(h.roots) = 1 /\ check_ctx'.root_id = node_id_from_str(h.roots[1])
      /\ node_id_from_str(h.roots[1]) # -1
  BY <1>1, <1>2, HeaderRoot
<1>4. h.roots[1] \in IdString /\ h.roots = <<h.roots[1]>>
  BY <1>1, <1>3
<1>5. h.roots[1].spelling \in {"plain", "padded"} /\ h.roots[1].value = check_ctx'.root_id
  BY <1>3, <1>4 DEF node_id_from_str
<1> QED
  BY <1>2, <1>4, <1>5 DEF RootInv

RootInvariant == RootInv /\ RootDigest

LEMMA RootStep ==
  ASSUME IndInv, RootInvariant, [Next]_vars, IndInv'
  PROVE  RootInvariant'
<1>1. ASSUME NEW h \in Headers, DamlTxPart(h)
      PROVE  RootInvariant'
  <2>1. verdict' # "accepted"
    BY <1>1 DEF DamlTxPart, abort_prepared_tx
  <2>2. RootInv'
    BY <1>1, RootHeaderStep DEF RootInv
  <2> QED
    BY <2>1, <2>2 DEF RootInvariant, RootDigest
<1>2. CASE DamlTxPartFails
  BY <1>2 DEF DamlTxPartFails, abort_prepared_tx, RootInvariant, RootInv, RootDigest, TreeOpen
<1>3. ASSUME NEW m \in Nodes, DamlNode(m)
      PROVE  RootInvariant'
  <2>1. verdict' # "accepted"
    BY <1>3 DEF DamlNode, abort_prepared_tx
  <2>2. RootInv'
    BY <1>3, RootNodeStep DEF RootInv, RootInvariant
  <2> QED
    BY <2>1, <2>2 DEF RootInvariant, RootDigest
<1>4. ASSUME NEW m \in Nodes, DamlNodeFails(m)
      PROVE  RootInvariant'
  BY <1>4 DEF DamlNodeFails, abort_prepared_tx, RootInvariant, RootInv, RootDigest, TreeOpen
<1>5. CASE apply_node_tree_verdict
  <2>1. RootInv'
    BY <1>5 DEF apply_node_tree_verdict, abort_prepared_tx, RootInv, TreeOpen
  <2>2. ASSUME verdict' = "accepted"
        PROVE  RootDigest'
    <3> DEFINE c == tree_verify_complete(check_ctx)
    <3>1. /\ tx_state = "METADATA" /\ verdict = "none" /\ c.err = "TREE_OK" /\ check_ctx' = c
          /\ UNCHANGED <<parts, tx_hasher, tx_no, nodes_count>>
      BY <1>5, <2>2 DEF apply_node_tree_verdict, abort_prepared_tx
    <3>2. c.root_id = check_ctx.root_id /\ check_ctx.err = "TREE_OK"
      <4>1. check_ctx \in CheckType /\ check_ctx.err # "MISSING_CHILD"
        BY DEF IndInv, TypeOK, CheckType, NeverMissing
      <4> QED
        BY <3>1, <4>1, VerifyOutcome
    <3> HIDE DEF c
    <3>3. TreeOpen /\ ClaimedInv
      BY <3>1, <3>2 DEF TreeOpen, IndInv, TreeInv
    <3>4. check_ctx.root_id \in 0 .. nodes_count - 1
      BY <3>3 DEF ClaimedInv
    <3>5. PICK k \in DOMAIN parts : parts[k].id = check_ctx.root_id
      BY <2>2, <3>1, <3>4 DEF IndInv, AcceptedTree
    <3>6. \A l \in DOMAIN parts : parts[l].root => l = k
      BY <3>3, <3>5 DEF RootInvariant, RootInv, IndInv, TreeInv, SeenInv
    <3>7. tx_hasher = IF parts[k].root THEN <<[tx |-> tx_no, part |-> k]>> ELSE << >>
      BY <3>3, <3>6 DEF RootInvariant, RootInv
    <3> QED
      BY <3>1, <3>2, <3>5, <3>7 DEF RootDigest
  <2> QED
    BY <2>1, <2>2 DEF RootInvariant, RootDigest
<1>6. CASE NewSession
  BY <1>6 DEF NewSession, RootInvariant, RootInv, RootDigest, TreeOpen
<1>7. CASE UNCHANGED vars
  BY <1>7 DEF vars, RootInvariant, RootInv, RootDigest, TreeOpen
<1> QED
  BY <1>1, <1>2, <1>3, <1>4, <1>5, <1>6, <1>7 DEF Next

\* The transaction hash of an accepted tree is made of the digest of the root node and of no
\* other, unless the root node spells its id otherwise than the header (decode_node_id_field
\* looks for the root by its string, the tree check by its number): then it covers no node.
THEOREM HashCoversRoot == Spec => []RootDigest
<1>1. Init => RootInvariant
  BY DEF Init, RootInvariant, RootInv, RootDigest, TreeOpen
<1>2. IndInv /\ RootInvariant /\ [Next]_vars /\ IndInv' => RootInvariant'
  BY RootStep
<1>3. RootInvariant => RootDigest
  BY DEF RootInvariant
<1> QED
  BY <1>1, <1>2, <1>3, Invariance, PTL DEF Spec
=============================================================================
