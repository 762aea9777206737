--------------------------- MODULE NodeTreeProofs ---------------------------
(***************************************************************************)
(* Proofs about NodeTree, for every ring size, node limit and set of parts *)
(* a host may send.                                                        *)
(***************************************************************************)
EXTENDS NodeTree, TLAPS, FiniteSetTheorems, WellFoundedInduction

CheckType == [root_id : Int, nodes_count : 0 .. MAX_TX_NODES, seen : SUBSET Nat,
              claimed : SUBSET Nat, err : TreeErrors \cup {"TREE_OK"}]

\* A non-empty set of naturals has a least element, which the scans of the code
\* stop at.
LEMMA LeastElement ==
  ASSUME NEW T \in SUBSET Nat, T # {}
  PROVE  \E x \in T : \A y \in T : x <= y
<1>1. IsWellFoundedOn(OpToRel(<, Nat), Nat)
  BY NatLessThanWellFounded
<1>2. PICK x \in T : \A y \in T : ~ (<<y, x>> \in OpToRel(<, Nat))
  BY <1>1, WFMin
<1>3. \A y \in T : ~(y < x)
  BY <1>2 DEF OpToRel
<1> QED
  BY <1>3

\* How an id string is read, strictly and leniently, and that the two readings
\* agree on every id the strict one accepts.
LEMMA IdReadings ==
  ASSUME NEW s \in IdString
  PROVE  /\ node_id_from_str(s) \in Nat \cup {-1}
         /\ atoint(s) \in Nat
         /\ node_id_from_str(s) >= 0 => atoint(s) = node_id_from_str(s)
BY DEF IdString, Spellings, node_id_from_str, atoint

\* The id a part carries is a natural number, or -1 when it has none.
LEMMA NodeIdType ==
  ASSUME NEW m \in NodePart
  PROVE  NodeId(m) \in Nat \cup {-1}
BY IdReadings DEF NodePart, NodeId, NoName

LEMMA ResetType == tree_check_reset \in CheckType
BY LimitAssumption DEF tree_check_reset, CheckType

LEMMA SetErrorType ==
  ASSUME NEW c \in CheckType, NEW e \in TreeErrors
  PROVE  /\ set_tree_error(c, e) \in CheckType
         /\ set_tree_error(c, e).err # "TREE_OK"
BY DEF CheckType, set_tree_error, TreeErrors, ImpossibleErrors, UnexpectedErrors

\* tree_check_init keeps the types, and a tree it finds good has its root claimed
\* and nothing else.
LEMMA InitOutcome ==
  ASSUME NEW roots \in Seq(IdString), NEW n \in Int, NEW memory \in BOOLEAN
  PROVE  LET c == tree_check_init(roots, n, memory)
         IN /\ c \in CheckType
            /\ c.err # "MISSING_CHILD"
            /\ c.err = "TREE_OK" => /\ c.nodes_count = n
                                    /\ c.root_id \in 0 .. n - 1
                                    /\ c.seen = {} /\ c.claimed = {c.root_id}
<1> DEFINE root_id == node_id_from_str(roots[1])
           sized == [tree_check_reset EXCEPT !.nodes_count = n]
           rooted == [sized EXCEPT !.root_id = root_id, !.claimed = {root_id}]
           c == tree_check_init(roots, n, memory)
<1>1. CASE n < 0 \/ n > MAX_TX_NODES
  <2>1. c = set_tree_error(tree_check_reset, "TOO_MANY_NODES")
    BY <1>1, LimitAssumption DEF tree_check_init
  <2> QED
    BY <2>1, LimitAssumption
    DEF set_tree_error, tree_check_reset, CheckType, TreeErrors, UnexpectedErrors
<1>2. CASE n \in 0 .. MAX_TX_NODES /\ Len(roots) # 1
  <2>1. c = set_tree_error(tree_check_reset, "ROOT_COUNT")
    BY <1>2, LimitAssumption DEF tree_check_init
  <2> QED
    BY <2>1, LimitAssumption
    DEF set_tree_error, tree_check_reset, CheckType, TreeErrors, UnexpectedErrors
<1>3. CASE n \in 0 .. MAX_TX_NODES /\ Len(roots) = 1 /\ ~memory
  <2>1. c = set_tree_error(tree_check_reset, "NO_MEMORY")
    BY <1>3, LimitAssumption DEF tree_check_init
  <2> QED
    BY <2>1, LimitAssumption
    DEF set_tree_error, tree_check_reset, CheckType, TreeErrors, UnexpectedErrors
<1>4. CASE n \in 0 .. MAX_TX_NODES /\ Len(roots) = 1 /\ memory
  <2>1. c = IF InRange(sized, root_id) THEN rooted
            ELSE set_tree_error(sized, "NODE_ID_OUT_OF_RANGE")
    BY <1>4, LimitAssumption DEF tree_check_init
  <2>2. root_id \in Nat \cup {-1}
    <3>1. roots[1] \in IdString
      BY <1>4
    <3> QED
      BY <3>1, IdReadings
  <2>3. sized \in CheckType /\ sized.nodes_count = n /\ sized.seen = {}
        /\ sized.claimed = {} /\ sized.err = "TREE_OK"
    BY <1>4, LimitAssumption DEF tree_check_reset, CheckType
  <2>4. CASE InRange(sized, root_id)
    <3>1. root_id \in 0 .. n - 1
      <4> HIDE DEF root_id, sized
      <4> QED BY <2>2, <2>3, <2>4, <1>4 DEF InRange
    <3>2. c = rooted
      BY <2>1, <2>4
    <3>3. /\ rooted \in CheckType /\ rooted.err = "TREE_OK" /\ rooted.nodes_count = n
          /\ rooted.root_id = root_id /\ rooted.seen = {} /\ rooted.claimed = {root_id}
      <4>1. root_id \in Int /\ {root_id} \in SUBSET Nat
        <5> HIDE DEF root_id
        <5> QED BY <3>1, <1>4
      <4> HIDE DEF root_id, sized
      <4> QED BY <2>3, <4>1 DEF CheckType
    <3> HIDE DEF rooted, c, root_id
    <3> QED
      BY <3>1, <3>2, <3>3 DEF c
  <2>5. CASE ~InRange(sized, root_id)
    <3>1. c = set_tree_error(sized, "NODE_ID_OUT_OF_RANGE")
      BY <2>1, <2>5
    <3>2. c \in CheckType /\ c.err # "TREE_OK"
      <4> HIDE DEF sized, c
      <4> QED BY <2>3, <3>1, SetErrorType DEF TreeErrors, ImpossibleErrors
    <3>3. c.err # "MISSING_CHILD"
      <4> HIDE DEF sized, c
      <4> QED BY <2>3, <3>1 DEF set_tree_error, CheckType
    <3> QED
      BY <3>2, <3>3
  <2> QED
    BY <2>4, <2>5
<1> QED
  BY <1>1, <1>2, <1>3, <1>4, LimitAssumption

\* What the claim loop does: it keeps the types and every field but the claimed
\* set and the error, and if it ends without an error it claimed every child, each
\* of them in range, unclaimed before and named once.
LEMMA ClaimOutcome ==
  ASSUME NEW c \in CheckType, NEW parent, NEW kids \in Seq(IdString),
         c.err # "MISSING_CHILD"
  PROVE  LET d == tree_claim_children(c, parent, kids)
             id(i) == node_id_from_str(kids[i])
         IN /\ d \in CheckType
            /\ d.err # "MISSING_CHILD"
            /\ d.err = "TREE_OK" =>
                 /\ c.err = "TREE_OK"
                 /\ d.nodes_count = c.nodes_count /\ d.root_id = c.root_id
                 /\ d.seen = c.seen
                 /\ d.claimed = c.claimed \cup {id(i) : i \in DOMAIN kids}
                 /\ \A i \in DOMAIN kids :
                      /\ id(i) \in 0 .. c.nodes_count - 1
                      /\ id(i) # c.root_id /\ id(i) \notin c.claimed
<1> DEFINE id(i) == node_id_from_str(kids[i])
           error(i) == ChildError(c, parent, kids, i)
           good == ClaimedIndexes(c, parent, kids)
           bad == DOMAIN kids \ good
           after == [c EXCEPT !.claimed = @ \cup {id(i) : i \in good}]
           first == CHOOSE i \in bad : \A j \in bad : i <= j
           d == tree_claim_children(c, parent, kids)
<1>1. /\ DOMAIN kids = 1 .. Len(kids) /\ Len(kids) \in Nat
      /\ \A i \in DOMAIN kids : id(i) \in Nat \cup {-1}
  BY IdReadings
<1>2. \A i \in DOMAIN kids : error(i) \in ImpossibleErrors \cup {"TREE_OK"}
  BY DEF ChildError, ImpossibleErrors
<1>3. \A i \in DOMAIN kids : error(i) = "TREE_OK" =>
        /\ id(i) \in 0 .. c.nodes_count - 1
        /\ id(i) # c.root_id /\ id(i) \notin c.claimed
  BY <1>1 DEF ChildError, InRange, CheckType
<1>4. good \subseteq DOMAIN kids /\ \A i \in good : error(i) = "TREE_OK"
  BY <1>1 DEF ClaimedIndexes
<1>5. /\ after \in CheckType /\ after.root_id = c.root_id
      /\ after.nodes_count = c.nodes_count /\ after.seen = c.seen /\ after.err = c.err
      /\ after.claimed = c.claimed \cup {id(i) : i \in good}
  <2> DEFINE more == {id(i) : i \in good}
  <2>1. more \subseteq Nat
    BY <1>1, <1>3, <1>4
  <2>2. after = [c EXCEPT !.claimed = @ \cup more]
    OBVIOUS
  <2> HIDE DEF more, after
  <2>3. /\ after \in CheckType /\ after.root_id = c.root_id
        /\ after.nodes_count = c.nodes_count /\ after.seen = c.seen /\ after.err = c.err
        /\ after.claimed = c.claimed \cup more
    BY <2>1, <2>2 DEF CheckType
  <2> QED
    BY <2>3 DEF more
<1>6. CASE bad = {}
  <2>1. d = after
    BY <1>6 DEF tree_claim_children
  <2>2. good = DOMAIN kids
    BY <1>6, <1>4
  <2>3. d \in CheckType /\ d.err # "MISSING_CHILD" /\ d.err = c.err
        /\ d.nodes_count = c.nodes_count /\ d.root_id = c.root_id /\ d.seen = c.seen
        /\ d.claimed = c.claimed \cup {id(i) : i \in DOMAIN kids}
    <3> HIDE DEF good, after, d, id
    <3> QED BY <2>1, <2>2, <1>5
  <2>4. \A i \in DOMAIN kids : /\ id(i) \in 0 .. c.nodes_count - 1
                               /\ id(i) # c.root_id /\ id(i) \notin c.claimed
    <3> HIDE DEF good, id, error
    <3> QED BY <2>2, <1>3, <1>4
  <2> QED
    BY <2>3, <2>4, Zenon
<1>7. CASE bad # {}
  <2>1. first \in bad /\ \A j \in bad : first <= j
    <3>1. \E i \in bad : \A j \in bad : i <= j
      <4>1. bad \in SUBSET Nat
        BY <1>1
      <4> HIDE DEF bad
      <4> QED BY <4>1, <1>7, LeastElement
    <3> QED
      BY <3>1, Zenon
  <2>2. error(first) # "TREE_OK"
    <3>1. PICK j \in 1 .. first : error(j) # "TREE_OK"
      BY <2>1, <1>1 DEF ClaimedIndexes
    <3>2. j \in bad
      BY <3>1, <2>1, <1>1, <1>4
    <3> QED
      BY <3>1, <3>2, <2>1, <1>1
  <2>3. d = set_tree_error(after, error(first))
    BY <1>7 DEF tree_claim_children
  <2>4. error(first) \in TreeErrors /\ error(first) # "MISSING_CHILD"
    BY <2>1, <2>2, <1>2 DEF TreeErrors, ImpossibleErrors
  <2> HIDE DEF after, first, error, bad, good
  <2>5. d \in CheckType /\ d.err # "TREE_OK"
    BY <2>3, <2>4, <1>5, SetErrorType
  <2>6. d.err # "MISSING_CHILD"
    BY <2>3, <2>4, <1>5 DEF set_tree_error, CheckType
  <2> QED
    BY <2>5, <2>6
<1> QED
  BY <1>6, <1>7

\* Marking a node: types kept, and without an error the id is new and in range.
LEMMA MarkOutcome ==
  ASSUME NEW c \in CheckType, NEW id \in Nat \cup {-1}, c.err # "MISSING_CHILD"
  PROVE  LET d == tree_mark_seen(c, id)
         IN /\ d \in CheckType
            /\ d.err # "MISSING_CHILD"
            /\ d.err = "TREE_OK" =>
                 /\ c.err = "TREE_OK"
                 /\ d.nodes_count = c.nodes_count /\ d.root_id = c.root_id
                 /\ d.seen = c.seen \cup {id} /\ d.claimed = c.claimed
                 /\ id \in 0 .. c.nodes_count - 1 /\ id \notin c.seen
<1> DEFINE d == tree_mark_seen(c, id)
<1>1. CASE ~InRange(c, id) \/ id \in c.seen
  <2>1. PICK e \in {"NODE_ID_OUT_OF_RANGE", "DUPLICATE_NODE"} : d = set_tree_error(c, e)
    BY <1>1 DEF tree_mark_seen
  <2>2. d \in CheckType /\ d.err # "TREE_OK"
    BY <2>1, SetErrorType DEF TreeErrors, ImpossibleErrors
  <2> QED
    BY <2>1, <2>2 DEF set_tree_error, CheckType
<1>2. CASE InRange(c, id) /\ id \notin c.seen
  <2>1. d = [c EXCEPT !.seen = @ \cup {id}]
    BY <1>2 DEF tree_mark_seen
  <2>2. id \in 0 .. c.nodes_count - 1
    BY <1>2 DEF InRange, CheckType
  <2> QED
    BY <2>1, <2>2, <1>2 DEF CheckType
<1> QED
  BY <1>1, <1>2

\* The final sweep keeps the root and clears the rest.
LEMMA VerifyOutcome ==
  ASSUME NEW c \in CheckType, c.err # "MISSING_CHILD"
  PROVE  LET d == tree_verify_complete(c)
         IN /\ d \in CheckType
            /\ d.root_id = c.root_id
            /\ d.err = "TREE_OK" =>
                 /\ c.err = "TREE_OK"
                 /\ \A i \in 0 .. c.nodes_count - 1 : i \in c.seen <=> i \in c.claimed
            /\ d.err = "MISSING_CHILD" =>
                 /\ c.err = "TREE_OK"
                 /\ \E i \in 0 .. c.nodes_count - 1 : i \notin c.seen
<1> DEFINE differ == {i \in 0 .. c.nodes_count - 1 : (i \in c.seen) # (i \in c.claimed)}
           first == CHOOSE i \in differ : \A j \in differ : i <= j
           e == IF first \in c.seen THEN "ORPHAN_NODE" ELSE "MISSING_CHILD"
           swept == IF differ = {} THEN c ELSE set_tree_error(c, e)
           d == tree_verify_complete(c)
<1>1. d = [swept EXCEPT !.nodes_count = 0, !.seen = {}, !.claimed = {}]
  BY DEF tree_verify_complete
<1>2. c.nodes_count \in Nat /\ differ \in SUBSET Nat
  BY LimitAssumption DEF CheckType
<1>3. e \in TreeErrors
  BY DEF TreeErrors, UnexpectedErrors
<1>4. swept \in CheckType /\ swept.root_id = c.root_id
  <2> HIDE DEF e, differ
  <2>1. set_tree_error(c, e) \in CheckType /\ set_tree_error(c, e).root_id = c.root_id
    BY <1>3, SetErrorType DEF set_tree_error, CheckType
  <2>2. CASE differ = {}
    BY <2>2
  <2>3. CASE differ # {}
    BY <2>1, <2>3
  <2> QED BY <2>2, <2>3
<1>5. d \in CheckType /\ d.root_id = c.root_id /\ d.err = swept.err
  <2>1. 0 \in 0 .. MAX_TX_NODES
    BY LimitAssumption
  <2> HIDE DEF swept, d
  <2> QED BY <1>1, <1>4, <2>1 DEF CheckType
<1>6. CASE differ = {}
  <2>1. d.err = c.err
    <3> HIDE DEF differ, d
    <3> QED BY <1>5, <1>6
  <2>2. \A i \in 0 .. c.nodes_count - 1 : i \in c.seen <=> i \in c.claimed
    BY <1>6
  <2> QED
    BY <1>5, <2>1, <2>2
<1>7. CASE differ # {}
  <2>1. first \in differ
    <3>1. \E i \in differ : \A j \in differ : i <= j
      <4> HIDE DEF differ
      <4> QED BY <1>2, <1>7, LeastElement
    <3> QED
      BY <3>1, Zenon
  <2>2. d.err = set_tree_error(c, e).err
    <3> HIDE DEF differ, d, e
    <3> QED BY <1>5, <1>7
  <2>3. d.err # "TREE_OK"
    <3> HIDE DEF d, e
    <3> QED BY <2>2, <1>3, SetErrorType
  <2>4. ASSUME d.err = "MISSING_CHILD"
        PROVE  c.err = "TREE_OK" /\ first \notin c.seen
    <3> HIDE DEF d, first
    <3> QED BY <2>2, <2>4 DEF set_tree_error, CheckType
  <2>5. first \in 0 .. c.nodes_count - 1
    BY <2>1
  <2> HIDE DEF first, d
  <2> QED
    BY <1>5, <2>3, <2>4, <2>5 DEF d
<1> QED
  BY <1>6, <1>7

\* The ring lookup returns the digest of a slot that holds the id it was given.
LEMMA LookupOutcome ==
  ASSUME NEW s \in IdString, Stored(s)
  PROVE  \E i \in Slots : ring[i].id = atoint(s) /\ get_node_hash(s) = ring[i].digest
<1> DEFINE match == {i \in Slots : ring[i].id = atoint(s)}
           first == CHOOSE i \in match : \A j \in match : i <= j
<1>1. match \in SUBSET Nat /\ match # {}
  BY RingAssumption DEF Stored, Slots
<1>2. first \in match
  <2>1. \E i \in match : \A j \in match : i <= j
    <3> HIDE DEF match
    <3> QED BY <1>1, LeastElement
  <2> QED BY <2>1, Zenon
<1>3. get_node_hash(s) = ring[first].digest
  BY DEF get_node_hash
<1> HIDE DEF first
<1> QED
  BY <1>2, <1>3

\* The history record of a part is well typed, and lists the ids of the children
\* the part declares.
LEMMA PartFacts ==
  ASSUME TypeOK, NEW m \in NodePart
  PROVE  LET p == PartRecord(m)
             kids == IF DeclaresChildren(m) THEN m.children ELSE << >>
         IN /\ p \in PartType
            /\ p.id = NodeId(m)
            /\ kids \in Seq(IdString)
            /\ DOMAIN p.children = DOMAIN kids
            /\ \A i \in DOMAIN kids :
                 /\ p.children[i] = atoint(kids[i])
                 /\ Stored(kids[i]) => p.digests[i] = get_node_hash(kids[i])
<1> DEFINE p == PartRecord(m)
           kids == IF DeclaresChildren(m) THEN m.children ELSE << >>
           ids == [i \in DOMAIN kids |-> atoint(kids[i])]
           digests == [i \in DOMAIN kids |->
                         IF Stored(kids[i]) THEN get_node_hash(kids[i]) ELSE NoDigest]
<1>1. kids \in Seq(IdString)
  BY DEF NodePart
<1>2. DOMAIN kids = 1 .. Len(kids) /\ Len(kids) \in Nat
  BY <1>1
<1>3. ids \in Seq(Nat)
  <2>1. \A i \in DOMAIN kids : atoint(kids[i]) \in Nat
    BY <1>1, <1>2, IdReadings
  <2> HIDE DEF kids
  <2> QED BY <1>2, <2>1
<1>4. digests \in Seq(Digest)
  <2>1. \A i \in DOMAIN kids : Stored(kids[i]) => get_node_hash(kids[i]) \in Digest
    <3> SUFFICES ASSUME NEW i \in DOMAIN kids, Stored(kids[i])
                 PROVE  get_node_hash(kids[i]) \in Digest
      OBVIOUS
    <3>1. kids[i] \in IdString
      BY <1>1, <1>2
    <3>2. PICK j \in Slots : get_node_hash(kids[i]) = ring[j].digest
      <4> HIDE DEF kids
      <4> QED BY <3>1, LookupOutcome
    <3> QED
      BY <3>2 DEF TypeOK
  <2>2. NoDigest \in Digest
    BY DEF NoDigest, Digest
  <2> HIDE DEF kids
  <2> QED BY <1>2, <2>1, <2>2
<1>5. p = [id |-> NodeId(m), root |-> IsRootNode(m),
           children |-> ids, digests |-> digests]
  BY DEF PartRecord
<1>6. NodeId(m) \in Int /\ IsRootNode(m) \in BOOLEAN
  BY NodeIdType DEF IsRootNode
<1>7. p \in PartType /\ p.id = NodeId(m) /\ p.children = ids /\ p.digests = digests
  <2> HIDE DEF p, ids, digests
  <2> QED BY <1>3, <1>4, <1>5, <1>6 DEF PartType
<1> HIDE DEF p, kids
<1> QED
  BY <1>1, <1>7 DEF p, kids

\* A part that leaves the tree good is new and in range, and so are its claims.
LEMMA NodeOutcome ==
  ASSUME TypeOK, NeverMissing, NEW m \in NodePart
  PROVE  LET c == CheckedNode(m)
             p == PartRecord(m)
         IN /\ c \in CheckType
            /\ c.err # "MISSING_CHILD"
            /\ c.err = "TREE_OK" =>
                 /\ check_ctx.err = "TREE_OK"
                 /\ c.nodes_count = check_ctx.nodes_count /\ c.root_id = check_ctx.root_id
                 /\ c.seen = check_ctx.seen \cup {p.id}
                 /\ p.id \in 0 .. check_ctx.nodes_count - 1 /\ p.id \notin check_ctx.seen
                 /\ c.claimed = check_ctx.claimed
                                   \cup {p.children[i] : i \in DOMAIN p.children}
                 /\ \A i \in DOMAIN p.children :
                      /\ p.children[i] \in 0 .. check_ctx.nodes_count - 1
                      /\ p.children[i] # check_ctx.root_id
                      /\ p.children[i] \notin check_ctx.claimed
<1> DEFINE c == CheckedNode(m)
           p == PartRecord(m)
           kids == IF DeclaresChildren(m) THEN m.children ELSE << >>
           b == IF DeclaresChildren(m)
                THEN tree_claim_children(check_ctx, ParentId(m), m.children) ELSE check_ctx
           id(i) == node_id_from_str(kids[i])
<1>1. check_ctx \in CheckType /\ check_ctx.err # "MISSING_CHILD"
  BY DEF TypeOK, CheckType, NeverMissing
<1>2. NodeId(m) \in Nat \cup {-1} /\ p.id = NodeId(m) /\ kids \in Seq(IdString)
      /\ DOMAIN p.children = DOMAIN kids
      /\ \A i \in DOMAIN kids : p.children[i] = atoint(kids[i])
  BY NodeIdType, PartFacts
<1>3. /\ b \in CheckType /\ b.err # "MISSING_CHILD"
      /\ b.err = "TREE_OK" =>
           /\ check_ctx.err = "TREE_OK"
           /\ b.nodes_count = check_ctx.nodes_count /\ b.root_id = check_ctx.root_id
           /\ b.seen = check_ctx.seen
           /\ b.claimed = check_ctx.claimed \cup {id(i) : i \in DOMAIN kids}
           /\ \A i \in DOMAIN kids :
                /\ id(i) \in 0 .. check_ctx.nodes_count - 1
                /\ id(i) # check_ctx.root_id /\ id(i) \notin check_ctx.claimed
  <2>1. CASE DeclaresChildren(m)
    <3>1. kids = m.children /\ b = tree_claim_children(check_ctx, ParentId(m), kids)
      BY <2>1
    <3> HIDE DEF kids, b
    <3> QED BY <1>1, <1>2, <3>1, ClaimOutcome
  <2>2. CASE ~DeclaresChildren(m)
    <3>1. kids = << >> /\ b = check_ctx /\ DOMAIN kids = {}
      BY <2>2
    <3> HIDE DEF kids, b
    <3> QED BY <1>1, <3>1
  <2> QED
    BY <2>1, <2>2
<1>4. c = tree_mark_seen(b, NodeId(m))
  BY DEF CheckedNode
<1>5. /\ c \in CheckType /\ c.err # "MISSING_CHILD"
      /\ c.err = "TREE_OK" =>
           /\ b.err = "TREE_OK"
           /\ c.nodes_count = b.nodes_count /\ c.root_id = b.root_id
           /\ c.seen = b.seen \cup {NodeId(m)} /\ c.claimed = b.claimed
           /\ NodeId(m) \in 0 .. b.nodes_count - 1 /\ NodeId(m) \notin b.seen
  <2> HIDE DEF b, c
  <2> QED BY <1>2, <1>3, <1>4, MarkOutcome
<1>6. ASSUME c.err = "TREE_OK"
      PROVE  \A i \in DOMAIN kids : p.children[i] = id(i)
  <2>1. \A i \in DOMAIN kids : kids[i] \in IdString
    <3> HIDE DEF kids
    <3> QED BY <1>2
  <2>2. \A i \in DOMAIN kids : id(i) \in 0 .. check_ctx.nodes_count - 1
    <3> HIDE DEF b, c, kids
    <3> QED BY <1>3, <1>5, <1>6
  <2>3. check_ctx.nodes_count \in Int
    BY <1>1, LimitAssumption DEF CheckType
  <2> HIDE DEF kids
  <2> QED BY <2>1, <2>2, <2>3, <1>2, IdReadings
<1>7. ASSUME c.err = "TREE_OK"
      PROVE  {id(i) : i \in DOMAIN kids} = {p.children[i] : i \in DOMAIN p.children}
  <2> HIDE DEF kids, p, c, id
  <2> QED BY <1>2, <1>6, <1>7
<1> HIDE DEF b, c, p, kids, id
<1>8. ASSUME c.err = "TREE_OK"
      PROVE  /\ check_ctx.err = "TREE_OK"
             /\ c.nodes_count = check_ctx.nodes_count /\ c.root_id = check_ctx.root_id
             /\ c.seen = check_ctx.seen \cup {p.id}
             /\ p.id \in 0 .. check_ctx.nodes_count - 1 /\ p.id \notin check_ctx.seen
             /\ c.claimed = check_ctx.claimed \cup {p.children[i] : i \in DOMAIN p.children}
             /\ \A i \in DOMAIN p.children :
                  /\ p.children[i] \in 0 .. check_ctx.nodes_count - 1
                  /\ p.children[i] # check_ctx.root_id
                  /\ p.children[i] \notin check_ctx.claimed
  BY <1>2, <1>3, <1>5, <1>6, <1>7, <1>8
<1> QED
  BY <1>5, <1>8 DEF c, p

IndInv == TypeOK /\ NeverMissing /\ TreeInv /\ AcceptedTree /\ DigestsOfChildren

LEMMA RingInitType == init_node_hash_store \in [Slots -> [id : Int, digest : Digest]]
BY DEF init_node_hash_store, NoDigest, Digest

LEMMA InitInv == Init => IndInv
<1> SUFFICES ASSUME Init PROVE IndInv
  OBVIOUS
<1>1. TypeOK
  <2>1. 0 \in Slots
    BY RingAssumption DEF Slots
  <2>2. check_ctx \in CheckType
    BY ResetType DEF Init
  <2> QED
    BY <2>1, <2>2, RingInitType DEF Init, TypeOK, CheckType
<1>2. NeverMissing
  BY DEF Init, NeverMissing, tree_check_reset
<1>3. TreeInv /\ AcceptedTree /\ DigestsOfChildren
  BY DEF Init, TreeInv, TreeOpen, AcceptedTree, DigestsOfChildren
<1> QED
  BY <1>1, <1>2, <1>3 DEF IndInv

\* Where the digest of a node goes is well typed.
LEMMA KeepDigestType ==
  ASSUME TypeOK, NEW m \in NodePart, KeepDigest(m)
  PROVE  /\ ring' \in [Slots -> [id : Int, digest : Digest]]
         /\ ring_next' \in Slots
         /\ tx_hasher' \in Seq(Digest)
<1>1. ThisDigest \in Digest /\ NodeId(m) \in Int
  BY NodeIdType DEF ThisDigest, Digest, TypeOK
<1>2. CASE IsRootNode(m)
  <2>1. tx_hasher \in Seq(Digest)
    BY DEF TypeOK
  <2>2. tx_hasher' = Append(tx_hasher, ThisDigest) /\ ring' = ring /\ ring_next' = ring_next
    BY <1>2 DEF KeepDigest
  <2>3. tx_hasher' \in Seq(Digest)
    BY <1>1, <2>1, <2>2
  <2> QED
    BY <2>2, <2>3 DEF TypeOK
<1>3. CASE ~IsRootNode(m)
  <2>1. (ring_next + 1) % MAX_NODE_CHILDREN \in Slots
    BY RingAssumption DEF TypeOK, Slots
  <2>2. [id |-> NodeId(m), digest |-> ThisDigest] \in [id : Int, digest : Digest]
    BY <1>1
  <2> QED
    BY <2>1, <2>2, <1>3 DEF KeepDigest, TypeOK
<1> QED
  BY <1>2, <1>3

LEMMA TypeStep ==
  ASSUME IndInv, [Next]_vars
  PROVE  TypeOK'
<1> USE DEF IndInv
<1>1. ASSUME NEW h \in Headers, DamlTxPart(h)
      PROVE  TypeOK'
  <2>1. h \in HeaderPart
    BY HeadersAssumption
  <2>2. /\ h.roots \in Seq(IdString) /\ h.nodes_count \in Int
        /\ h.version \in BOOLEAN /\ h.memory \in BOOLEAN
    BY <2>1 DEF HeaderPart
  <2>3. check_ctx' \in CheckType
    BY <1>1, <2>2, ResetType, InitOutcome DEF DamlTxPart, abort_prepared_tx
  <2>4. /\ recv_node_idx' \in Nat /\ tx_state' \in {"TX_PART", "NODES", "METADATA"}
        /\ verdict' \in {"none", "accepted", "blind", "refused"}
    BY <1>1 DEF DamlTxPart, abort_prepared_tx, TypeOK
  <2>5. ring' \in [Slots -> [id : Int, digest : Digest]]
    BY <1>1, RingInitType DEF DamlTxPart
  <2> QED
    BY <1>1, <2>2, <2>3, <2>4, <2>5 DEF DamlTxPart, TypeOK, CheckType, HashErrors
<1>2. CASE DamlTxPartFails
  BY <1>2, ResetType DEF DamlTxPartFails, abort_prepared_tx, TypeOK, CheckType
<1>3. ASSUME NEW m \in Nodes, DamlNode(m)
      PROVE  TypeOK'
  <2>1. m \in NodePart
    BY NodesAssumption
  <2>2. check_ctx' \in CheckType
    BY <1>3, <2>1, ResetType, NodeOutcome DEF DamlNode, abort_prepared_tx
  <2>3. parts' \in Seq(PartType)
    <3>1. PartRecord(m) \in PartType
      BY <2>1, PartFacts
    <3> QED
      BY <1>3, <3>1 DEF DamlNode, TypeOK
  <2>4. /\ ring' \in [Slots -> [id : Int, digest : Digest]]
        /\ ring_next' \in Slots /\ tx_hasher' \in Seq(Digest)
    BY <1>3, <2>1, KeepDigestType DEF DamlNode
  <2>5. hash_err' \in HashErrors \cup {"HASH_OK"}
    BY <1>3 DEF DamlNode, ChildrenHashError, HashErrors
  <2>6. /\ recv_node_idx' \in Nat /\ tx_state' \in {"TX_PART", "NODES", "METADATA"}
        /\ verdict' \in {"none", "accepted", "blind", "refused"}
    BY <1>3 DEF DamlNode, abort_prepared_tx, TypeOK
  <2> QED
    BY <1>3, <2>2, <2>3, <2>4, <2>5, <2>6 DEF DamlNode, TypeOK, CheckType
<1>4. ASSUME NEW m \in Nodes, DamlNodeFails(m)
      PROVE  TypeOK'
  BY <1>4, ResetType DEF DamlNodeFails, abort_prepared_tx, TypeOK, CheckType
<1>5. CASE apply_node_tree_verdict
  <2>1. check_ctx \in CheckType /\ check_ctx.err # "MISSING_CHILD"
    BY DEF TypeOK, CheckType, NeverMissing
  <2>2. check_ctx' \in CheckType
    BY <1>5, <2>1, ResetType, VerifyOutcome DEF apply_node_tree_verdict, abort_prepared_tx
  <2> QED
    BY <1>5, <2>2 DEF apply_node_tree_verdict, abort_prepared_tx, TypeOK, CheckType
<1>6. CASE NewSession
  BY <1>6, ResetType DEF NewSession, TypeOK, CheckType
<1>7. CASE UNCHANGED vars
  BY <1>7 DEF vars, TypeOK
<1> QED
  BY <1>1, <1>2, <1>3, <1>4, <1>5, <1>6, <1>7 DEF Next

\* There are n node ids below n.
LEMMA IdRange ==
  ASSUME NEW n \in Nat
  PROVE  IsFiniteSet(0 .. n - 1) /\ Cardinality(0 .. n - 1) = n
<1>1. n - 1 \in Int /\ 0 \in Int
  OBVIOUS
<1>2. /\ IsFiniteSet(0 .. (n - 1))
      /\ Cardinality(0 .. (n - 1)) = IF 0 > n - 1 THEN 0 ELSE (n - 1) - 0 + 1
  BY <1>1, FS_Interval, Zenon
<1> QED
  BY <1>2

\* Once nodes_count parts have arrived without an error, every announced id has.
LEMMA AllSeen ==
  ASSUME TypeOK, TreeInv, TreeOpen, tx_state = "METADATA"
  PROVE  check_ctx.seen = 0 .. nodes_count - 1
<1>1. /\ check_ctx.seen \subseteq 0 .. nodes_count - 1
      /\ Cardinality(check_ctx.seen) = nodes_count /\ nodes_count \in Nat
  BY DEF TreeInv, SeenInv, TypeOK
<1>2. IsFiniteSet(0 .. nodes_count - 1) /\ Cardinality(0 .. nodes_count - 1) = nodes_count
  BY <1>1, IdRange
<1> QED
  BY <1>1, <1>2, FS_Subset

\* A node part that leaves the transaction open and the tree good keeps the
\* invariant of the open tree.
LEMMA GoodNode ==
  ASSUME IndInv, TypeOK', NEW m \in NodePart, DamlNode(m), TreeOpen'
  PROVE  (SeenInv /\ ClaimedInv /\ DigestInv)'
<1>1. PICK p, n, c, kids : /\ p = PartRecord(m) /\ n = Len(parts) + 1 /\ c = CheckedNode(m)
                          /\ kids = IF DeclaresChildren(m) THEN m.children ELSE << >>
  OBVIOUS
<1>2. /\ tx_state = "NODES" /\ verdict = "none"
      /\ ChildrenHashError(m) = "HASH_OK" /\ check_ctx' = c /\ c.err = "TREE_OK"
      /\ recv_node_idx' = recv_node_idx + 1
      /\ parts' = Append(parts, p)
      /\ nodes_count' = nodes_count /\ tx_no' = tx_no
  BY <1>1 DEF DamlNode, TreeOpen, abort_prepared_tx, tree_can_clear_sign
<1>3. /\ check_ctx.err = "TREE_OK"
      /\ c.nodes_count = check_ctx.nodes_count /\ c.root_id = check_ctx.root_id
      /\ c.seen = check_ctx.seen \cup {p.id}
      /\ p.id \in 0 .. check_ctx.nodes_count - 1 /\ p.id \notin check_ctx.seen
      /\ c.claimed = check_ctx.claimed \cup {p.children[i] : i \in DOMAIN p.children}
      /\ \A i \in DOMAIN p.children :
           /\ p.children[i] \in 0 .. check_ctx.nodes_count - 1
           /\ p.children[i] # check_ctx.root_id
           /\ p.children[i] \notin check_ctx.claimed
  BY <1>1, <1>2, NodeOutcome DEF IndInv
<1>4. SeenInv /\ ClaimedInv /\ DigestInv
  BY <1>2, <1>3 DEF IndInv, TreeInv, TreeOpen
<1>5. /\ p \in PartType /\ p.id = NodeId(m) /\ kids \in Seq(IdString)
      /\ DOMAIN p.children = DOMAIN kids
      /\ \A i \in DOMAIN kids :
           /\ p.children[i] = atoint(kids[i])
           /\ Stored(kids[i]) => p.digests[i] = get_node_hash(kids[i])
  BY <1>1, PartFacts DEF IndInv
<1>6. /\ parts \in Seq(PartType) /\ Len(parts) \in Nat /\ DOMAIN parts = 1 .. Len(parts)
      /\ Len(parts) = recv_node_idx /\ recv_node_idx \in Nat
      /\ check_ctx.nodes_count = nodes_count /\ nodes_count \in Nat
  BY <1>4, <1>3, LimitAssumption DEF IndInv, TypeOK, SeenInv, ClaimedInv
<1>7. /\ Len(parts') = n /\ n \in DOMAIN parts' /\ parts'[n] = p /\ n \notin DOMAIN parts
      /\ \A k \in DOMAIN parts : k \in 1 .. n - 1 /\ k \in DOMAIN parts' /\ parts'[k] = parts[k]
      /\ \A k \in DOMAIN parts' : k = n \/ k \in DOMAIN parts
  BY <1>1, <1>2, <1>5, <1>6
<1>8. SeenInv'
  <2>1. IsFiniteSet(check_ctx.seen)
    <3>1. check_ctx.seen \in SUBSET (0 .. nodes_count - 1)
      BY <1>4 DEF SeenInv
    <3> QED
      BY <3>1, <1>6, IdRange, FS_Subset
  <2>2. Cardinality(check_ctx.seen \cup {p.id}) = recv_node_idx + 1
    BY <1>3, <1>4, <2>1, FS_AddElement DEF SeenInv
  <2>3. Len(parts') = recv_node_idx'
    BY <1>1, <1>2, <1>6, <1>7
  <2>4. check_ctx'.seen = {parts'[k].id : k \in DOMAIN parts'}
    BY <1>2, <1>3, <1>4, <1>7 DEF SeenInv
  <2>5. \A k, l \in DOMAIN parts' : parts'[k].id = parts'[l].id => k = l
    BY <1>3, <1>4, <1>7 DEF SeenInv
  <2>6. check_ctx'.seen \subseteq 0 .. nodes_count' - 1
    BY <1>2, <1>3, <1>4, <1>6 DEF SeenInv
  <2>7. Cardinality(check_ctx'.seen) = recv_node_idx'
    BY <1>2, <1>3, <2>2
  <2> QED
    BY <2>3, <2>4, <2>5, <2>6, <2>7 DEF SeenInv
<1>9. ClaimedInv'
  <2>1. \A id : \A k \in DOMAIN parts : IsChild(parts', id, k) <=> IsChild(parts, id, k)
    BY <1>7 DEF IsChild
  <2>2. \A id : IsChild(parts', id, n) <=> \E i \in DOMAIN p.children : p.children[i] = id
    BY <1>7 DEF IsChild
  <2>3. \A id \in check_ctx.claimed :
          id = check_ctx.root_id \/ \E k \in DOMAIN parts' : IsChild(parts', id, k)
    BY <1>4, <1>7, <2>1 DEF ClaimedInv
  <2>4. \A id \in check_ctx'.claimed :
          id = check_ctx'.root_id \/ \E k \in DOMAIN parts' : IsChild(parts', id, k)
    BY <1>2, <1>3, <1>7, <2>2, <2>3
  <2>5. \A k \in DOMAIN parts : \A i \in DOMAIN parts[k].children :
          ~IsChild(parts', parts[k].children[i], n)
    BY <1>3, <1>4, <2>2 DEF ClaimedInv
  <2>6. \A i \in DOMAIN p.children : \A l \in DOMAIN parts : ~IsChild(parts, p.children[i], l)
    BY <1>3, <1>4 DEF ClaimedInv, IsChild
  <2>7. \A k \in DOMAIN parts' : \A i \in DOMAIN parts'[k].children :
          /\ parts'[k].children[i] \in check_ctx'.claimed
          /\ parts'[k].children[i] # check_ctx'.root_id
          /\ \A l \in DOMAIN parts' : IsChild(parts', parts'[k].children[i], l) => l = k
    <3> SUFFICES ASSUME NEW k \in DOMAIN parts', NEW i \in DOMAIN parts'[k].children
                 PROVE  /\ parts'[k].children[i] \in check_ctx'.claimed
                        /\ parts'[k].children[i] # check_ctx'.root_id
                        /\ \A l \in DOMAIN parts' :
                             IsChild(parts', parts'[k].children[i], l) => l = k
      OBVIOUS
    <3>1. CASE k = n
      BY <3>1, <1>2, <1>3, <1>7, <2>1, <2>6
    <3>2. CASE k \in DOMAIN parts
      BY <3>2, <1>2, <1>3, <1>4, <1>7, <2>1, <2>5 DEF ClaimedInv
    <3> QED
      BY <3>1, <3>2, <1>7
  <2>8. /\ check_ctx'.nodes_count = nodes_count'
        /\ check_ctx'.root_id \in check_ctx'.claimed
        /\ check_ctx'.claimed \subseteq 0 .. nodes_count' - 1
    BY <1>2, <1>3, <1>4 DEF ClaimedInv
  <2> QED
    BY <2>4, <2>7, <2>8 DEF ClaimedInv
<1>10. DigestInv'
  <2>1. \A d, l, id : l \in DOMAIN parts /\ IsDigestOf(parts, tx_no, d, l, id) =>
                        l \in DOMAIN parts' /\ IsDigestOf(parts', tx_no, d, l, id)
    BY <1>7 DEF IsDigestOf
  <2>2. IsDigestOf(parts', tx_no, ThisDigest, n, p.id)
    BY <1>1, <1>6, <1>7 DEF IsDigestOf, ThisDigest
  <2>3. \A s \in Slots : ring'[s].id >= 0 =>
          \E l \in DOMAIN parts' : IsDigestOf(parts', tx_no, ring'[s].digest, l, ring'[s].id)
    <3>1. \A s \in Slots : \/ ring'[s] = ring[s]
                           \/ ring'[s].id = p.id /\ ring'[s].digest = ThisDigest
      BY <1>5, SMTT(60) DEF DamlNode, KeepDigest, IndInv, TypeOK
    <3>2. \A s \in Slots : ring[s].id >= 0 =>
            \E l \in DOMAIN parts : IsDigestOf(parts, tx_no, ring[s].digest, l, ring[s].id)
      BY <1>4 DEF DigestInv
    <3> QED
      BY <3>1, <3>2, <1>7, <2>1, <2>2
  <2>4. \A i \in DOMAIN p.children :
          \E l \in DOMAIN parts : IsDigestOf(parts, tx_no, p.digests[i], l, p.children[i])
    <3> SUFFICES ASSUME NEW i \in DOMAIN p.children
                 PROVE  \E l \in DOMAIN parts :
                           IsDigestOf(parts, tx_no, p.digests[i], l, p.children[i])
      OBVIOUS
    <3>1. Stored(kids[i]) /\ kids[i] \in IdString
      BY <1>1, <1>2, <1>5 DEF ChildrenHashError
    <3>2. PICK s \in Slots : ring[s].id = atoint(kids[i])
                             /\ get_node_hash(kids[i]) = ring[s].digest
      BY <3>1, LookupOutcome
    <3>3. ring[s].id = p.children[i] /\ ring[s].digest = p.digests[i] /\ ring[s].id >= 0
      BY <3>1, <3>2, <1>5, IdReadings
    <3> QED
      BY <3>3, <1>4 DEF DigestInv
  <2>5. \A k \in DOMAIN parts' : \A i \in DOMAIN parts'[k].children :
          \E l \in 1 .. k - 1 :
             IsDigestOf(parts', tx_no, parts'[k].digests[i], l, parts'[k].children[i])
    <3> SUFFICES ASSUME NEW k \in DOMAIN parts', NEW i \in DOMAIN parts'[k].children
                 PROVE  \E l \in 1 .. k - 1 :
                   IsDigestOf(parts', tx_no, parts'[k].digests[i], l, parts'[k].children[i])
      OBVIOUS
    <3>1. CASE k = n
      BY <3>1, <1>7, <2>1, <2>4
    <3>2. CASE k \in DOMAIN parts
      <4>1. PICK l \in 1 .. k - 1 :
                   IsDigestOf(parts, tx_no, parts[k].digests[i], l, parts[k].children[i])
        BY <3>2, <1>4, <1>7 DEF DigestInv
      <4>2. l \in DOMAIN parts
        BY <3>2, <4>1, <1>6
      <4> QED
        BY <3>2, <4>1, <4>2, <1>7, <2>1
    <3> QED
      BY <3>1, <3>2, <1>7
  <2> QED
    BY <2>3, <2>5, <1>2 DEF DigestInv
<1> QED
  BY <1>8, <1>9, <1>10

\* The header starts the invariant of the open tree.
LEMMA GoodHeader ==
  ASSUME IndInv, NEW h \in HeaderPart, DamlTxPart(h), TreeOpen'
  PROVE  (/\ SeenInv /\ ClaimedInv /\ DigestInv
          /\ tx_state = "METADATA" => recv_node_idx = nodes_count)'
<1>1. /\ h.roots \in Seq(IdString) /\ h.nodes_count \in Int /\ h.memory \in BOOLEAN
  BY DEF HeaderPart
<1>2. /\ parts = << >> /\ parts' = << >> /\ recv_node_idx' = 0
      /\ check_ctx' = tree_check_init(h.roots, h.nodes_count, h.memory)
      /\ nodes_count' = h.nodes_count /\ ring' = init_node_hash_store
      /\ tx_state' = IF h.nodes_count = 0 THEN "METADATA" ELSE "NODES"
  BY DEF DamlTxPart, TreeOpen, abort_prepared_tx, IndInv, TreeInv
<1>3. /\ check_ctx'.nodes_count = nodes_count'
      /\ check_ctx'.root_id \in 0 .. nodes_count' - 1
      /\ check_ctx'.seen = {} /\ check_ctx'.claimed = {check_ctx'.root_id}
  BY <1>1, <1>2, InitOutcome DEF TreeOpen
<1>4. SeenInv'
  BY <1>2, <1>3, FS_EmptySet DEF SeenInv
<1>5. ClaimedInv'
  BY <1>2, <1>3 DEF ClaimedInv
<1>6. DigestInv'
  BY <1>2 DEF DigestInv, init_node_hash_store
<1> QED
  BY <1>2, <1>4, <1>5, <1>6

\* The verdict turns the invariant of the open tree into AcceptedTree.
LEMMA GoodVerdict ==
  ASSUME IndInv, apply_node_tree_verdict
  PROVE  NeverMissing' /\ AcceptedTree' /\ DigestsOfChildren'
<1>1. PICK c : c = tree_verify_complete(check_ctx)
  OBVIOUS
<1>2. check_ctx \in CheckType /\ check_ctx.err # "MISSING_CHILD"
  BY DEF IndInv, TypeOK, CheckType, NeverMissing
<1>3. /\ tx_state = "METADATA" /\ verdict = "none"
      /\ UNCHANGED <<parts, nodes_count, tx_no>>
  BY DEF apply_node_tree_verdict
<1>4. /\ c.root_id = check_ctx.root_id
      /\ c.err = "TREE_OK" =>
           /\ check_ctx.err = "TREE_OK"
           /\ \A i \in 0 .. check_ctx.nodes_count - 1 :
                i \in check_ctx.seen <=> i \in check_ctx.claimed
      /\ c.err = "MISSING_CHILD" =>
           /\ check_ctx.err = "TREE_OK"
           /\ \E i \in 0 .. check_ctx.nodes_count - 1 : i \notin check_ctx.seen
  BY <1>1, <1>2, VerifyOutcome
<1>5. ASSUME check_ctx.err = "TREE_OK"
      PROVE  /\ SeenInv /\ ClaimedInv /\ DigestInv /\ recv_node_idx = nodes_count
             /\ check_ctx.seen = 0 .. nodes_count - 1
  BY <1>3, <1>5, AllSeen DEF IndInv, TreeInv, TreeOpen
<1>6. NeverMissing'
  <2>1. c.err # "MISSING_CHILD"
    BY <1>4, <1>5 DEF ClaimedInv
  <2>2. check_ctx'.err = "TREE_OK" \/ check_ctx' = c
    BY <1>1 DEF apply_node_tree_verdict, abort_prepared_tx, tree_check_reset
  <2> QED
    BY <2>1, <2>2 DEF NeverMissing
<1>7. CASE verdict' = "accepted"
  <2>1. c.err = "TREE_OK" /\ check_ctx' = c
    BY <1>1, <1>7 DEF apply_node_tree_verdict, abort_prepared_tx
  <2>2. /\ SeenInv /\ ClaimedInv /\ DigestInv /\ recv_node_idx = nodes_count
        /\ check_ctx.seen = 0 .. nodes_count - 1 /\ check_ctx.claimed = check_ctx.seen
    BY <1>4, <1>5, <2>1 DEF SeenInv, ClaimedInv
  <2>3. \A l \in DOMAIN parts : parts[l].id # check_ctx.root_id =>
          \E k \in l + 1 .. Len(parts) :
             /\ IsChild(parts, parts[l].id, k)
             /\ \A j \in DOMAIN parts : IsChild(parts, parts[l].id, j) => j = k
    <3> SUFFICES ASSUME NEW l \in DOMAIN parts, parts[l].id # check_ctx.root_id
                 PROVE  \E k \in l + 1 .. Len(parts) :
                          /\ IsChild(parts, parts[l].id, k)
                          /\ \A j \in DOMAIN parts : IsChild(parts, parts[l].id, j) => j = k
      OBVIOUS
    <3>1. parts[l].id \in check_ctx.claimed
      BY <2>2 DEF SeenInv
    <3>2. PICK k \in DOMAIN parts : IsChild(parts, parts[l].id, k)
      BY <2>2, <3>1 DEF ClaimedInv
    <3>3. PICK i \in DOMAIN parts[k].children : parts[k].children[i] = parts[l].id
      BY <3>2 DEF IsChild
    <3>4. PICK j \in 1 .. k - 1 : parts[j].id = parts[l].id
      <4>1. \E j \in 1 .. k - 1 :
              IsDigestOf(parts, tx_no, parts[k].digests[i], j, parts[k].children[i])
        BY <2>2 DEF DigestInv
      <4> QED
        BY <3>3, <4>1 DEF IsDigestOf
    <3>5. parts \in Seq(PartType) /\ DOMAIN parts = 1 .. Len(parts) /\ Len(parts) \in Nat
      BY DEF IndInv, TypeOK
    <3>6. j = l
      <4>1. j \in DOMAIN parts
        BY <3>4, <3>5
      <4> QED
        BY <2>2, <3>4, <4>1 DEF SeenInv
    <3>7. k \in l + 1 .. Len(parts)
      BY <3>4, <3>5, <3>6
    <3>8. \A q \in DOMAIN parts : IsChild(parts, parts[l].id, q) => q = k
      BY <2>2, <3>3 DEF ClaimedInv
    <3> QED
      BY <3>2, <3>7, <3>8
  <2>4. \A id \in 0 .. nodes_count - 1 : \E k \in DOMAIN parts : parts[k].id = id
    <3>1. \A id \in check_ctx.seen : \E k \in DOMAIN parts : parts[k].id = id
      BY <2>2 DEF SeenInv
    <3> QED
      BY <2>2, <3>1
  <2>5. \A k \in DOMAIN parts : ~IsChild(parts, check_ctx.root_id, k)
    BY <2>2 DEF ClaimedInv, IsChild
  <2>6. /\ Len(parts) = nodes_count
        /\ \A k, l \in DOMAIN parts : parts[k].id = parts[l].id => k = l
    BY <2>2 DEF SeenInv
  <2>7. AcceptedTree'
    <3>1. check_ctx.root_id \in 0 .. nodes_count - 1
      BY <2>2 DEF ClaimedInv
    <3> QED
      BY <1>3, <1>4, <2>1, <2>3, <2>4, <2>5, <2>6, <3>1 DEF AcceptedTree
  <2>8. DigestsOfChildren'
    <3>1. \A k \in DOMAIN parts : \A i \in DOMAIN parts[k].children :
            \E l \in 1 .. k - 1 : /\ parts[l].id = parts[k].children[i]
                                 /\ parts[k].digests[i] = [tx |-> tx_no, part |-> l]
      BY <2>2 DEF DigestInv, IsDigestOf
    <3> QED
      BY <1>3, <3>1 DEF DigestsOfChildren
  <2> QED
    BY <1>6, <2>7, <2>8
<1>8. CASE verdict' # "accepted"
  BY <1>6, <1>8 DEF AcceptedTree, DigestsOfChildren
<1> QED
  BY <1>7, <1>8

LEMMA InvStep ==
  ASSUME IndInv, [Next]_vars
  PROVE  IndInv'
<1>1. TypeOK'
  BY TypeStep
<1>2. ASSUME NEW h \in Headers, DamlTxPart(h)
      PROVE  IndInv'
  <2>1. h \in HeaderPart
    BY HeadersAssumption
  <2>2. /\ h.roots \in Seq(IdString) /\ h.nodes_count \in Int /\ h.memory \in BOOLEAN
    BY <2>1 DEF HeaderPart
  <2>3. NeverMissing'
    BY <1>2, <2>2, InitOutcome DEF DamlTxPart, abort_prepared_tx, tree_check_reset, NeverMissing
  <2>4. parts' = << >> /\ verdict' # "accepted"
    BY <1>2 DEF DamlTxPart, abort_prepared_tx, IndInv, TreeInv
  <2>5. TreeInv'
    BY <1>2, <2>1, <2>4, GoodHeader DEF TreeInv
  <2> QED
    BY <1>1, <2>3, <2>4, <2>5 DEF IndInv, AcceptedTree, DigestsOfChildren
<1>3. CASE DamlTxPartFails
  BY <1>1, <1>3 DEF DamlTxPartFails, abort_prepared_tx, tree_check_reset, IndInv, TreeInv,
                    TreeOpen, NeverMissing, AcceptedTree, DigestsOfChildren
<1>4. ASSUME NEW m \in Nodes, DamlNode(m)
      PROVE  IndInv'
  <2>1. m \in NodePart
    BY NodesAssumption
  <2>2. verdict' # "accepted" /\ tx_state' # "TX_PART"
    BY <1>4 DEF DamlNode, abort_prepared_tx
  <2>3. NeverMissing'
    BY <1>4, <2>1, NodeOutcome DEF DamlNode, abort_prepared_tx, tree_check_reset,
                                   NeverMissing, IndInv
  <2>4. ASSUME TreeOpen', tx_state' = "METADATA"
        PROVE  recv_node_idx' = nodes_count'
    BY <1>4, <2>4 DEF DamlNode, TreeOpen, abort_prepared_tx
  <2>5. TreeInv'
    BY <1>1, <1>4, <2>1, <2>2, <2>4, GoodNode DEF TreeInv
  <2> QED
    BY <1>1, <2>2, <2>3, <2>5 DEF IndInv, AcceptedTree, DigestsOfChildren
<1>5. ASSUME NEW m \in Nodes, DamlNodeFails(m)
      PROVE  IndInv'
  BY <1>1, <1>5 DEF DamlNodeFails, abort_prepared_tx, tree_check_reset, IndInv, TreeInv,
                    TreeOpen, NeverMissing, AcceptedTree, DigestsOfChildren
<1>6. CASE apply_node_tree_verdict
  <2>1. tx_state' = "METADATA" /\ verdict' # "none"
    BY <1>6 DEF apply_node_tree_verdict, abort_prepared_tx
  <2>2. TreeInv'
    BY <2>1 DEF TreeInv, TreeOpen
  <2> QED
    BY <1>1, <1>6, <2>2, GoodVerdict DEF IndInv
<1>7. CASE NewSession
  BY <1>1, <1>7 DEF NewSession, tree_check_reset, IndInv, TreeInv, TreeOpen, NeverMissing,
                    AcceptedTree, DigestsOfChildren
<1>8. CASE UNCHANGED vars
  <2>1. NeverMissing' /\ AcceptedTree' /\ DigestsOfChildren'
    BY <1>8 DEF vars, IndInv, NeverMissing, AcceptedTree, DigestsOfChildren
  <2>2. SeenInv' = SeenInv /\ ClaimedInv' = ClaimedInv
    BY <1>8 DEF vars, SeenInv, ClaimedInv
  <2>3. DigestInv' = DigestInv
    BY <1>8 DEF vars, DigestInv
  <2>4. TreeInv'
    BY <1>8, <2>2, <2>3 DEF vars, IndInv, TreeInv, TreeOpen
  <2> QED
    BY <1>1, <2>1, <2>4 DEF IndInv
<1> QED
  BY <1>2, <1>3, <1>4, <1>5, <1>6, <1>7, <1>8 DEF Next

\* For every ring size, node limit and host: the types, the meaning of the two bits
\* and of the ring, and the verdict's guarantees hold in every reachable state.
THEOREM Invariance == Spec => []IndInv
<1>1. IndInv /\ [Next]_vars => IndInv'
  BY InvStep
<1> QED
  BY InitInv, <1>1, PTL DEF Spec

\* Type correctness of the receive state, the tree check and the digest ring.
THEOREM TypeCorrect == Spec => []TypeOK
<1>1. IndInv => TypeOK
  BY DEF IndInv
<1> QED
  BY Invariance, <1>1, PTL

\* Between two parts of a good tree the two bits of check_ctx and the ring tell which nodes
\* arrived, which are claimed and by whom, and whose digests are stored.
THEOREM BitsAndRing == Spec => []TreeInv
<1>1. IndInv => TreeInv
  BY DEF IndInv
<1> QED
  BY Invariance, <1>1, PTL

\* A transaction the tree check accepts is one tree under the header's root, however
\* many nodes it has and in whatever order they arrive.
THEOREM AcceptedTreeHolds == Spec => []AcceptedTree
<1>1. IndInv => AcceptedTree
  BY DEF IndInv
<1> QED
  BY Invariance, <1>1, PTL

-----------------------------------------------------------------------------
(***************************************************************************)
(* The accepted parts as a graph                                           *)
(***************************************************************************)
\* An edge is a child a part names, with the id of that part.
LEMMA EdgeIsChild ==
  ASSUME NEW e \in Edges
  PROVE  \E k \in DOMAIN parts : \E i \in DOMAIN parts[k].children :
           e = <<parts[k].children[i], parts[k].id>>
BY DEF Edges

LEMMA ChildIsEdge ==
  ASSUME NEW k \in DOMAIN parts, NEW id, IsChild(parts, id, k)
  PROVE  <<id, parts[k].id>> \in Edges
BY DEF Edges, IsChild

\* Every part reaches the root in at most as many nodes as arrived from it on: its parent
\* arrived later, so the last part without such a path would have a parent with one.
LEMMA ReachesRoot ==
  ASSUME IndInv, verdict = "accepted", NEW l \in DOMAIN parts
  PROVE  \E len \in 1 .. Len(parts) - l + 1 : \E p \in [1 .. len -> NodeIds] :
           PathUp(p, len, parts[l].id, check_ctx.root_id)
<1> DEFINE Reaches(k) == \E len \in 1 .. Len(parts) - k + 1 : \E p \in [1 .. len -> NodeIds] :
                           PathUp(p, len, parts[k].id, check_ctx.root_id)
           Lost == {d \in Nat : Len(parts) - d \in DOMAIN parts /\ ~Reaches(Len(parts) - d)}
<1>1. DOMAIN parts = 1 .. Len(parts) /\ Len(parts) \in Nat
  BY DEF IndInv, TypeOK
<1>2. \A k \in DOMAIN parts : parts[k].id \in NodeIds
  BY DEF NodeIds
<1>3. ASSUME NEW k \in DOMAIN parts, parts[k].id = check_ctx.root_id
      PROVE  Reaches(k)
  <2> DEFINE p == [i \in 1 .. 1 |-> parts[k].id]
  <2>1. 1 \in 1 .. Len(parts) - k + 1
    BY <1>1
  <2>2. p \in [1 .. 1 -> NodeIds]
    BY <1>2
  <2>3. PathUp(p, 1, parts[k].id, check_ctx.root_id)
    BY <1>3 DEF PathUp
  <2> QED
    BY <2>1, <2>2, <2>3
<1>4. ASSUME NEW k \in DOMAIN parts, NEW q \in k + 1 .. Len(parts),
             IsChild(parts, parts[k].id, q), Reaches(q)
      PROVE  Reaches(k)
  <2>0. PICK len \in 1 .. Len(parts) - q + 1 : \E p \in [1 .. len -> NodeIds] :
          PathUp(p, len, parts[q].id, check_ctx.root_id)
    BY <1>4
  <2>1. PICK p \in [1 .. len -> NodeIds] : PathUp(p, len, parts[q].id, check_ctx.root_id)
    BY <2>0
  <2> DEFINE u == [i \in 1 .. len + 1 |-> IF i = 1 THEN parts[k].id ELSE p[i - 1]]
  <2>2. q \in DOMAIN parts /\ len \in Nat /\ len >= 1 /\ len + 1 \in 1 .. Len(parts) - k + 1
    BY <1>1
  <2>3. u \in [1 .. len + 1 -> NodeIds]
    BY <1>2, <2>2
  <2>4. u[1] = parts[k].id /\ \A i \in 1 .. len : u[i + 1] = p[i]
    BY <2>2
  <2>5. <<parts[k].id, parts[q].id>> \in Edges
    BY <1>4, <2>2, ChildIsEdge
  <2> HIDE DEF u
  <2>6. \A i \in 1 .. len : <<u[i], u[i + 1]>> \in Edges
    <3> SUFFICES ASSUME NEW i \in 1 .. len PROVE <<u[i], u[i + 1]>> \in Edges
      OBVIOUS
    <3>1. CASE i = 1
      BY <2>1, <2>2, <2>4, <2>5, <3>1 DEF PathUp
    <3>2. CASE i # 1
      <4>1. i - 1 \in 1 .. len - 1 /\ i - 1 \in 1 .. len /\ (i - 1) + 1 = i
        BY <2>2, <3>2
      <4>2. <<p[i - 1], p[(i - 1) + 1]>> \in Edges
        BY <2>1, <4>1 DEF PathUp
      <4>3. u[i] = p[i - 1] /\ u[i + 1] = p[i]
        BY <2>4, <4>1
      <4> QED
        BY <4>1, <4>2, <4>3
    <3> QED
      BY <3>1, <3>2
  <2>7. PathUp(u, len + 1, parts[k].id, check_ctx.root_id)
    BY <2>1, <2>2, <2>4, <2>6 DEF PathUp
  <2> QED
    BY <2>2, <2>3, <2>7
<1> HIDE DEF Reaches
<1>5. Lost = {}
  <2> SUFFICES ASSUME Lost # {} PROVE FALSE
    OBVIOUS
  <2>1. PICK d \in Lost : \A c \in Lost : d <= c
    BY LeastElement
  <2> DEFINE k == Len(parts) - d
  <2>2. d \in Nat /\ k \in DOMAIN parts /\ ~Reaches(k)
    BY <2>1
  <2>3. parts[k].id # check_ctx.root_id
    BY <1>3, <2>2
  <2>4. PICK q \in k + 1 .. Len(parts) : IsChild(parts, parts[k].id, q)
    BY <2>2, <2>3 DEF IndInv, AcceptedTree
  <2>5. ~Reaches(q)
    BY <1>4, <2>2, <2>4
  <2>6. /\ Len(parts) - q \in Nat /\ Len(parts) - q < d
        /\ Len(parts) - (Len(parts) - q) = q /\ q \in DOMAIN parts
    BY <1>1, <2>2
  <2>7. Len(parts) - q \in Lost
    BY <2>5, <2>6
  <2> QED
    BY <2>1, <2>2, <2>6, <2>7
<1>6. Len(parts) - l \in Nat /\ Len(parts) - (Len(parts) - l) = l
  BY <1>1
<1>7. Reaches(l)
  BY <1>5, <1>6
<1> QED
  BY <1>7 DEF Reaches

\* What the verdict knows about the parts makes their edges a tree.
LEMMA AcceptedIsTree == IndInv => AcceptedGraph
<1> SUFFICES ASSUME IndInv, verdict = "accepted" PROVE AcceptedGraph
  BY DEF AcceptedGraph
<1>1. DOMAIN parts = 1 .. Len(parts) /\ Len(parts) \in Nat
  BY DEF IndInv, TypeOK
<1>2. ASSUME NEW e \in Edges
      PROVE  /\ e \in NodeIds \X NodeIds
             /\ e[1] # check_ctx.root_id
             /\ \A f \in Edges : e[1] = f[1] => e = f
  <2>0. PICK k \in DOMAIN parts : \E i \in DOMAIN parts[k].children :
          e = <<parts[k].children[i], parts[k].id>>
    BY EdgeIsChild
  <2>1. PICK i \in DOMAIN parts[k].children : e = <<parts[k].children[i], parts[k].id>>
    BY <2>0
  <2>2. PICK l \in 1 .. k - 1 : parts[l].id = parts[k].children[i]
    BY DEF IndInv, DigestsOfChildren
  <2>3. l \in DOMAIN parts
    BY <1>1
  <2>4. e \in NodeIds \X NodeIds
    BY <2>1, <2>2, <2>3 DEF NodeIds
  <2>5. IsChild(parts, e[1], k) /\ e[1] = parts[l].id
    BY <2>1, <2>2 DEF IsChild
  <2>6. e[1] # check_ctx.root_id
    BY <2>5 DEF IndInv, AcceptedTree
  <2>7. ASSUME NEW f \in Edges, e[1] = f[1] PROVE e = f
    <3>0. PICK q \in DOMAIN parts : \E j \in DOMAIN parts[q].children :
            f = <<parts[q].children[j], parts[q].id>>
      BY EdgeIsChild
    <3>1. PICK j \in DOMAIN parts[q].children : f = <<parts[q].children[j], parts[q].id>>
      BY <3>0
    <3>2. IsChild(parts, parts[l].id, q)
      BY <2>5, <2>7, <3>1 DEF IsChild
    <3>3. q = k
      BY <2>3, <2>5, <2>6, <3>2 DEF IndInv, AcceptedTree
    <3> QED
      BY <2>1, <2>7, <3>1, <3>3
  <2> QED
    BY <2>4, <2>6, <2>7
<1>3. check_ctx.root_id \in NodeIds
  BY DEF IndInv, AcceptedTree, NodeIds
<1>4. ASSUME NEW n \in NodeIds
      PROVE  \E len \in 1 .. Len(parts) : \E p \in [1 .. len -> NodeIds] :
               PathUp(p, len, n, check_ctx.root_id)
  <2>1. PICK l \in DOMAIN parts : n = parts[l].id
    BY DEF NodeIds
  <2>2. PICK len \in 1 .. Len(parts) - l + 1 : \E p \in [1 .. len -> NodeIds] :
          PathUp(p, len, n, check_ctx.root_id)
    BY <2>1, ReachesRoot
  <2>3. len \in 1 .. Len(parts)
    BY <1>1
  <2> QED
    BY <2>2, <2>3
<1> QED
  BY <1>2, <1>3, <1>4 DEF AcceptedGraph

\* For every ring size, node limit and stream of parts: the edges behind an accepted verdict
\* form a tree, every node reaching the header's root, although tree_verify_complete only
\* compares two bits per id.
THEOREM AcceptedGraphHolds == Spec => []AcceptedGraph
  BY Invariance, AcceptedIsTree, PTL

\* No node of an accepted transaction is hashed over a digest that is not its
\* child's, although the ring overwrites digests and is never emptied between
\* sessions.
THEOREM DigestsHold == Spec => []DigestsOfChildren
<1>1. IndInv => DigestsOfChildren
  BY DEF IndInv
<1> QED
  BY Invariance, <1>1, PTL

\* The MISSING_CHILD branch of tree_verify_complete is dead, as its comment says.
THEOREM MissingChildUnreachable == Spec => []NeverMissing
<1>1. IndInv => NeverMissing
  BY DEF IndInv
<1> QED
  BY Invariance, <1>1, PTL
=============================================================================
