----------------------------- MODULE MCNodeTree -----------------------------
(***************************************************************************)
(* Small instances of NodeTree.                                            *)
(***************************************************************************)
EXTENDS NodeTree, SequencesExt

CONSTANTS
  Ids,          \* values of node ids
  Forms,        \* spellings of a node's own id and of the roots
  ChildForms,   \* spellings of child ids
  MaxChildren,  \* longest child list
  Kinds,        \* node kinds
  Counts,       \* announced node counts; a damaged header may announce -1
  RootLists,    \* "one": the single root 0; "any": also none, two, one out of range
  Faults        \* whether parts may be damaged: absent or late ids, decode and display failures

Names(forms) ==
  {s \in [value : Ids, spelling : forms] : s.spelling = "text" => s.value = 0}

Zero == [value |-> 0, spelling |-> "plain"]
One == [value |-> 1, spelling |-> "plain"]

MCHeaders ==
  [roots : {<<Zero>>} \cup (IF RootLists = "any" THEN {<<One>>, << >>, <<Zero, One>>}
                                                      \cup {<<n>> : n \in Names(Forms)}
                            ELSE {}),
   nodes_count : Counts \cup (IF Faults THEN {-1} ELSE {}),
   version : {TRUE} \cup (IF Faults THEN {FALSE} ELSE {}),
   memory : {TRUE} \cup (IF Faults THEN {FALSE} ELSE {})]

ChildLists == BoundedSeq(Names(ChildForms), MaxChildren)

Childless == [name : Names(Forms), name_last : {FALSE}, kind : Kinds \cap {"create", "fetch"},
            children : {<< >>}, decodable : {TRUE}, shown : {TRUE}]
Inner == [name : Names(Forms), name_last : {FALSE}, kind : Kinds \cap {"exercise", "rollback"},
          children : ChildLists, decodable : {TRUE}, shown : {TRUE}]

\* Damaged versions of a few parts: enough for every early return.
Damaged ==
  IF ~Faults THEN {}
  ELSE LET base == [name |-> One, name_last |-> FALSE, kind |-> "rollback",
                    children |-> << >>, decodable |-> TRUE, shown |-> TRUE]
       IN {[base EXCEPT !.decodable = FALSE], [base EXCEPT !.shown = FALSE],
           [base EXCEPT !.name = NoName],
           [base EXCEPT !.name_last = TRUE, !.children = <<One>>],
           [base EXCEPT !.name_last = TRUE, !.children = <<[value |-> 2, spelling |-> "plain"]>>],
           [base EXCEPT !.name_last = TRUE, !.kind = "exercise"]}

MCNodes == Childless \cup Inner \cup Damaged
=============================================================================
