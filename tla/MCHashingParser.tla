--------------------------- MODULE MCHashingParser ---------------------------
(***************************************************************************)
(* Components for HashingParser: a good component of each kind, and        *)
(* components in which one field is different or missing.                  *)
(***************************************************************************)
EXTENDS HashingParser

A == <<65>>
B == <<66>>
Named(package, module, entity) ==
  [package_id |-> package, module_name |-> module, entity_name |-> entity]
Plain == Named(A, <<A>>, <<B>>)
DottedModule == Named(A, <<A, A>>, <<B>>)
DottedEntity == Named(A, <<A>>, <<A, B>>)
Unnamed == Named(<<>>, <<A>>, <<B>>)

Text(s) == Scalar("text", s)
List(items) == Container("list", <<>>, items)
Record(id, fields) == Container("record", <<id>>, fields)
BareRecord(fields) == Container("record", <<>>, fields)
TextMap(entries) == Container("text_map", <<>>, entries)
GenMap(entries) == Container("gen_map", <<>>, entries)
OptionalValue(items) == Container("optional", <<>>, items)
Variant(id, value) == Container("variant", id, <<Labelled(A, value)>>)

MCLeaves ==
  {Scalar("unit", <<>>), Scalar("bool", <<0>>), Scalar("bool", <<1>>), Scalar("int64", <<-1>>),
   Scalar("int64", <<300>>), Scalar("timestamp", <<300>>), Scalar("date", <<-1>>),
   Scalar("numeric", A), Scalar("party", A), Text(<<>>), Text(A), Text(<<65, 66>>),
   Scalar("contract_id", <<10, 11>>), Scalar("contract_id", <<10>>)}

\* Containers next to, and inside of, one another.
MCContainers ==
  {List(<<>>), List(<<Item(Text(A))>>), List(<<Item(Text(A)), Item(Text(B))>>),
   List(<<Item(List(<<>>)), Item(List(<<Item(Text(A))>>))>>),
   List(<<Item(List(<<Item(Text(A))>>)), Item(List(<<>>))>>),
   OptionalValue(<<>>), OptionalValue(<<Item(Text(A))>>),
   OptionalValue(<<Item(OptionalValue(<<>>))>>),
   TextMap(<<>>), TextMap(<<Labelled(A, List(<<Item(Text(B))>>)), Labelled(B, Text(A))>>),
   GenMap(<<>>), GenMap(<<Keyed(Text(A), List(<<Item(Text(B))>>))>>),
   GenMap(<<Keyed(Scalar("int64", <<1>>), Text(A)), Keyed(Text(B), Scalar("unit", <<>>))>>),
   Record(Plain, <<>>), Record(Plain, <<Labelled(A, Text(B))>>),
   Record(Plain, <<Labelled(B, Text(A))>>),
   Record(DottedModule, <<Labelled(A, Record(Plain, <<>>)), Labelled(B, List(<<>>))>>),
   Record(DottedEntity, <<Labelled(A, Record(Plain, <<>>)), Labelled(B, List(<<>>))>>),
   Record(Plain, <<Labelled(A, Enum(<<Plain>>, A)), Labelled(B, Variant(<<>>, Text(B)))>>),
   Record(Unnamed, <<>>), Record(Plain, <<Labelled(A, Enum(<<>>, <<>>))>>),
   Variant(<<Plain>>, OptionalValue(<<Item(Text(A))>>)), Variant(<<>>, List(<<>>)),
   Enum(<<>>, A), Enum(<<>>, B), Enum(<<Plain>>, A),
   List(<<Item(List(<<Item(List(<<Item(List(<<Item(Text(A))>>))>>))>>))>>)}

\* Two neighbours in a record: what one leaves in the count meets the other.
MCPairs ==
  LET parts == {Text(A), List(<<Item(Text(A))>>), OptionalValue(<<>>), Enum(<<>>, A),
                Record(Plain, <<Labelled(A, Text(A))>>)}
  IN {Record(Plain, <<Labelled(A, x), Labelled(B, y)>>) : x \in parts, y \in parts}

\* Records without an id, the first two of them written alike, and a label that is longer than
\* the buffer.
MCIrregular ==
  {BareRecord(<<Labelled(A, BareRecord(<<Labelled(B, Text(A))>>))>>),
   BareRecord(<<Labelled(A, BareRecord(<<>>)), Labelled(B, Text(A))>>),
   Record(Plain, <<Labelled(<<65, 65, 65, 65>>, Text(A))>>)}

\* A map key that is a container itself.
MCContainerKey == GenMap(<<Keyed(List(<<Item(Text(A))>>), Text(A))>>)

MCCreate ==
  [id |-> 0, kind |-> "create", lf_version |-> A, contract_id |-> <<1, 2>>,
   package_name |-> A, template_id |-> <<Plain>>, argument |-> <<Text(A)>>,
   exercise_result |-> <<>>, signatories |-> <<A>>, stakeholders |-> <<A, B>>,
   acting_parties |-> <<>>, interface_id |-> <<>>, choice_id |-> <<>>, consuming |-> <<0>>,
   choice_observers |-> <<>>, children |-> <<>>]
MCExercise ==
  [MCCreate EXCEPT !.kind = "exercise", !.exercise_result = <<Text(B)>>,
     !.acting_parties = <<A>>, !.choice_id = A, !.children = <<1>>]
MCFetch == [MCCreate EXCEPT !.kind = "fetch", !.argument = <<>>, !.acting_parties = <<A>>]
MCRollback == [MCFetch EXCEPT !.kind = "rollback", !.children = <<1>>]

\* The fields that creates, exercises and fetches have in common, changed or left out one at a
\* time.
Deviations(n) ==
  {[n EXCEPT !.lf_version = <<>>], [n EXCEPT !.contract_id = <<1>>],
   [n EXCEPT !.contract_id = <<>>], [n EXCEPT !.package_name = B], [n EXCEPT !.package_name = <<>>],
   [n EXCEPT !.template_id = <<DottedModule>>], [n EXCEPT !.template_id = <<DottedEntity>>],
   [n EXCEPT !.template_id = <<>>], [n EXCEPT !.template_id = <<Unnamed>>],
   [n EXCEPT !.signatories = <<>>, !.stakeholders = <<A, A, B>>]}

MCArguments == MCLeaves \cup MCContainers \cup MCPairs \cup MCIrregular

MCRoots ==
  {[MCCreate EXCEPT !.argument = <<v>>] : v \in MCArguments}
    \cup {[MCExercise EXCEPT !.children = c] : c \in {<<>>, <<1>>, <<1, 2>>, <<2, 1>>, <<1, 2, 3>>}}
    \cup {[MCExercise EXCEPT !.argument = <<v>>] :
            v \in {List(<<>>), Text(B), Record(Plain, <<Labelled(A, Text(B))>>)}}
    \cup {[MCExercise EXCEPT !.exercise_result = <<v>>] :
            v \in {List(<<>>), Variant(<<Plain>>, Text(A)), Scalar("unit", <<>>)}}
    \cup {[MCExercise EXCEPT !.exercise_result = <<>>], [MCExercise EXCEPT !.consuming = <<1>>], [MCExercise EXCEPT !.choice_id = <<>>],
          [MCExercise EXCEPT !.interface_id = <<Plain>>],
          [MCExercise EXCEPT !.interface_id = <<Unnamed>>],
          [MCExercise EXCEPT !.choice_observers = <<A>>], [MCCreate EXCEPT !.kind = "other"],
          MCFetch, [MCFetch EXCEPT !.interface_id = <<Plain>>], MCRollback,
          [MCRollback EXCEPT !.children = <<1, 2>>]}
    \cup Deviations(MCCreate) \cup Deviations(MCExercise) \cup Deviations(MCFetch)

MCChildren ==
  {[MCCreate EXCEPT !.id = i] : i \in {1, 2}}
    \cup {[MCRollback EXCEPT !.id = 2], [MCFetch EXCEPT !.id = 1],
          [MCExercise EXCEPT !.id = 2], [MCExercise EXCEPT !.id = 1, !.children = <<>>]}

MCNodes == MCRoots \cup MCChildren

Seed(i, s) == [node_id |-> i, seed |-> s]
MCHeader == [version |-> A, roots |-> <<0>>, nodes_count |-> 2,
             node_seeds |-> <<Seed(1, <<1, 1>>), Seed(0, <<2, 2>>)>>]
MCHeaders ==
  {MCHeader, [MCHeader EXCEPT !.nodes_count = 1],
   [MCHeader EXCEPT !.nodes_count = 3, !.node_seeds = <<Seed(0, <<2, 2>>), Seed(2, <<3, 3>>)>>],
   [MCHeader EXCEPT !.version = <<>>], [MCHeader EXCEPT !.roots = <<1, 0>>],
   [MCHeader EXCEPT !.nodes_count = 1, !.node_seeds = <<Seed(0, <<2>>)>>],
   [MCHeader EXCEPT !.nodes_count = 0, !.roots = <<>>]}

MCMetadata ==
  [act_as |-> <<A>>, command_id |-> A, transaction_uuid |-> B, mediator_group |-> 0,
   synchronizer_id |-> A, min_ledger_effective_time |-> <<>>,
   max_ledger_effective_time |-> <<5>>, preparation_time |-> 7, input_contracts_count |-> 0]
MCMetadatas ==
  {MCMetadata, [MCMetadata EXCEPT !.input_contracts_count = 2],
   [MCMetadata EXCEPT !.command_id = <<>>], [MCMetadata EXCEPT !.transaction_uuid = <<>>],
   [MCMetadata EXCEPT !.synchronizer_id = <<>>],
   [MCMetadata EXCEPT !.min_ledger_effective_time = <<5>>, !.max_ledger_effective_time = <<>>]}

MCContracts ==
  {[created_at |-> 1, contract |-> MCCreate],
   [created_at |-> 1, contract |-> [MCCreate EXCEPT !.argument = <<List(<<Item(Text(B))>>)>>]],
   [created_at |-> 1, contract |-> [MCCreate EXCEPT !.package_name = <<>>]]}

\* Nodes for the two runs that leave these bounds.
MCKeyNodes == {MCCreate, [MCCreate EXCEPT !.argument = <<MCContainerKey>>]}
MCEmptyNodes ==
  {MCCreate, [MCCreate EXCEPT !.argument = <<>>], [MCExercise EXCEPT !.argument = <<>>]}
=============================================================================
