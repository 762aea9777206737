----------------------------- MODULE PreparedTx -----------------------------
(***************************************************************************)
(* The receive machine of a prepared transaction, as operators.            *)
(*                                                                         *)
(* A prepared transaction arrives as components: the header, its nodes,    *)
(* the metadata and its input contracts.  process_prepared_tx_part hashes  *)
(* each one, keeps three verdicts about it (the node tree, the values it   *)
(* moves, the screen it can be shown on) and decides at the end whether    *)
(* the details may be reviewed.                                            *)
(*                                                                         *)
(* A component is abstracted to what those verdicts make of it:            *)
(*   decodes  nanopb and the completeness checks accept it                 *)
(*   hashes   no field its encoding needs is missing                       *)
(*   count    nodes or input contracts it announces                        *)
(*   tree     what it does to the node tree; "orphan" is a node that no    *)
(*            node of the transaction names as a child, which is nothing   *)
(*            strange for the only node of a transaction                   *)
(*   values   its value movements agree with the screen, and a disclosed   *)
(*            contract is one that a node used                             *)
(*   screen   what the display parser makes of it: no screen, a complete   *)
(*            one, one it cannot render, one with a mandatory field        *)
(*            missing, a decoding error, or an action whose screen waits   *)
(*            for an input contract                                        *)
(* NodeTree is the detailed model behind "tree".                           *)
(***************************************************************************)
EXTENDS Integers

Component ==
  [decodes : BOOLEAN, hashes : BOOLEAN, count : Int,
   tree : {"ok", "unexpected", "impossible", "orphan"}, values : BOOLEAN,
   screen : {"none", "shown", "unreadable", "incomplete", "broken", "deferred"}]

(***************************************************************************)
(* The part of the global state that belongs to a transaction: tx_info,    *)
(* tx_state, and the static state of the tree check, of the values check   *)
(* and of the display parser.  signature also holds the public key an      *)
(* onboarding is checked against.  m_hash is "final" from the completion   *)
(* of the transaction until another component comes, and "stale" then.     *)
(* lost and late are history: a live array of pairs was overwritten, and   *)
(* the screen came from an input contract.                                 *)
(***************************************************************************)
TxState ==
  [tx_state : {"TX_PART", "NODES", "METADATA", "INPUT_CONTRACTS"},
   recv_node_idx : Nat, expected : Int,
   tree : {"ok", "unexpected", "impossible"}, orphan : BOOLEAN,
   values : BOOLEAN, bound : BOOLEAN, used : BOOLEAN,
   clear : BOOLEAN, display_failed : BOOLEAN, deferred : BOOLEAN,
   pairs : {"none", "empty", "details", "hash"},
   m_hash : {"none", "final", "stale"}, signature : STRING, challenge_signature : BOOLEAN,
   lost : BOOLEAN, late : BOOLEAN]

BootTx ==
  [tx_state |-> "TX_PART", recv_node_idx |-> 0, expected |-> 0,
   tree |-> "ok", orphan |-> FALSE, values |-> FALSE, bound |-> FALSE, used |-> FALSE,
   clear |-> FALSE, display_failed |-> FALSE, deferred |-> FALSE,
   pairs |-> "none", m_hash |-> "none", signature |-> "none",
   challenge_signature |-> FALSE,
   lost |-> FALSE, late |-> FALSE]
-----------------------------------------------------------------------------
cleanup_display_items(tx) == [tx EXCEPT !.pairs = "none"]

\* A new array of pairs: the pointer to a live one is overwritten.
AllocatePairs(tx, pairs) ==
  [tx EXCEPT !.pairs = pairs, !.lost = @ \/ tx.pairs # "none"]

reset_display_parser_state(tx) == [tx EXCEPT !.deferred = FALSE]

tree_check_reset(tx) == [tx EXCEPT !.tree = "ok", !.orphan = FALSE]

values_check_reset(tx) == [tx EXCEPT !.values = TRUE, !.bound = FALSE, !.used = FALSE]

\* A new flow clears everything but tx_state, which is static to its file.
clean_context(tx) ==
  [values_check_reset(BootTx) EXCEPT !.tx_state = tx.tx_state, !.lost = tx.lost]

process_prepared_tx_init(tx) == [tx EXCEPT !.tx_state = "TX_PART"]

Accept(tx) == [tx |-> tx, sw |-> "OK"]

abort_prepared_tx(tx, sw) == [tx |-> values_check_reset(tree_check_reset(tx)), sw |-> sw]
-----------------------------------------------------------------------------
(***************************************************************************)
(* pb_node_display_parser.c                                                *)
(***************************************************************************)
\* A screen configuration matched: the values check binds to it, the pairs are
\* allocated, and the fields are formatted or given up.
format_and_populate_display_items(tx, screen) ==
  LET matched == reset_display_parser_state(
                   [AllocatePairs(tx, "details") EXCEPT !.bound = TRUE])
      dropped == cleanup_display_items([matched EXCEPT !.clear = FALSE])
  IN IF screen = "shown" THEN Accept([matched EXCEPT !.clear = TRUE])
     ELSE IF screen = "unreadable" THEN Accept([dropped EXCEPT !.display_failed = TRUE])
     ELSE [tx |-> dropped, sw |-> "SW_TX_PARSING_FAIL"]

process_display_parsing(tx, screen) ==
  IF screen = "broken"
  THEN [tx |-> reset_display_parser_state(cleanup_display_items(tx)),
        sw |-> "SW_TX_PARSING_FAIL"]
  ELSE IF screen = "none" THEN Accept([tx EXCEPT !.clear = FALSE])
  ELSE IF screen = "deferred" THEN Accept([tx EXCEPT !.clear = FALSE, !.deferred = TRUE])
  ELSE format_and_populate_display_items(tx, screen)

parse_node_for_display(tx, screen) ==
  IF tx.clear \/ tx.display_failed \/ tx.deferred THEN Accept(tx)
  ELSE process_display_parsing(reset_display_parser_state(tx), screen)

parse_input_contract_for_display(tx, screen) ==
  IF tx.clear \/ tx.display_failed \/ ~tx.deferred THEN Accept(tx)
  ELSE process_display_parsing([tx EXCEPT !.late = TRUE], screen)
-----------------------------------------------------------------------------
(***************************************************************************)
(* prepared_transaction.c                                                  *)
(***************************************************************************)
\* What a node moves is noted, and the contracts it acts on.
values_collect_from_node(tx, p) ==
  [tx EXCEPT !.values = @ /\ p.values, !.used = TRUE]

\* A disclosed contract must be one that a node used; the list of those is gone once
\* the transaction was finalized.
values_check_disclosed_contract(tx, p) ==
  [tx EXCEPT !.values = @ /\ p.values /\ tx.used]

values_can_clear_sign(tx) == tx.values /\ tx.bound

\* parsed says that the host marked the component as the last one.
process_prepared_tx_finalize(tx, parsed) ==
  LET checked == IF tx.clear /\ ~values_can_clear_sign(tx)
                 THEN cleanup_display_items([tx EXCEPT !.clear = FALSE])
                 ELSE tx
  IN IF ~parsed THEN abort_prepared_tx(tx, "SW_BAD_STATE")
     ELSE Accept(reset_display_parser_state(
            [checked EXCEPT !.used = FALSE, !.m_hash = "final"]))

\* RECEIVING_DAML_TX_PART.  A root is out of range when no node is announced.
DamlTxPart(tx, p) ==
  IF ~p.decodes THEN abort_prepared_tx(tx, "SW_TX_PARSING_FAIL")
  ELSE IF ~p.hashes THEN abort_prepared_tx(tx, "SW_TX_HASH_FAIL")
  ELSE Accept([tx EXCEPT
         !.tree = IF p.tree \in {"unexpected", "impossible"} THEN p.tree
                  ELSE IF p.count = 0 THEN "impossible" ELSE "ok",
         !.orphan = FALSE, !.recv_node_idx = 0, !.expected = p.count,
         !.tx_state = IF p.count = 0 THEN "METADATA" ELSE "NODES"])

\* RECEIVING_DAML_NODES: the first tree error is kept, and a bad tree is not parsed
\* for display any more.
DamlNode(tx, p) ==
  LET noted == [values_collect_from_node(tx, p) EXCEPT
        !.tree = IF @ = "ok" /\ p.tree = "impossible" THEN "impossible" ELSE @,
        !.orphan = @ \/ (p.tree = "orphan" /\ tx.expected > 1)]
      shown == IF noted.tree = "ok" THEN parse_node_for_display(noted, p.screen)
               ELSE Accept(noted)
  IN IF ~p.decodes THEN abort_prepared_tx(tx, "SW_TX_PARSING_FAIL")
     ELSE IF ~p.hashes THEN abort_prepared_tx(tx, "SW_TX_HASH_FAIL")
     ELSE IF shown.sw # "OK" THEN abort_prepared_tx(shown.tx, shown.sw)
     ELSE Accept([shown.tx EXCEPT
            !.recv_node_idx = @ + 1,
            !.tx_state = IF tx.recv_node_idx + 1 = tx.expected THEN "METADATA" ELSE @])

\* Mutant: an unexpected tree leaves clear signing on.
apply_node_tree_verdict_silent(tx) ==
  LET tree == IF tx.tree = "ok" /\ tx.orphan THEN "unexpected" ELSE tx.tree
      judged == [tx EXCEPT !.tree = tree, !.orphan = FALSE]
  IN IF tree = "impossible" THEN abort_prepared_tx(judged, "SW_TX_INVALID_NODE_TREE")
     ELSE Accept(judged)

\* Mutant: an unexpected tree turns clear signing off and forgets the pairs.
apply_node_tree_verdict_leaky(tx) ==
  LET tree == IF tx.tree = "ok" /\ tx.orphan THEN "unexpected" ELSE tx.tree
      judged == [tx EXCEPT !.tree = tree, !.orphan = FALSE]
  IN IF tree = "ok" THEN Accept(judged)
     ELSE IF tree = "impossible" THEN abort_prepared_tx(judged, "SW_TX_INVALID_NODE_TREE")
     ELSE Accept([judged EXCEPT !.clear = FALSE])

\* The verdict on the tree, once every node has arrived.
apply_node_tree_verdict(tx) ==
  LET tree == IF tx.tree = "ok" /\ tx.orphan THEN "unexpected" ELSE tx.tree
      judged == [tx EXCEPT !.tree = tree, !.orphan = FALSE]
  IN IF tree = "ok" THEN Accept(judged)
     ELSE IF tree = "impossible" THEN abort_prepared_tx(judged, "SW_TX_INVALID_NODE_TREE")
     ELSE Accept(cleanup_display_items([judged EXCEPT !.clear = FALSE]))

\* RECEIVING_METADATA
MetadataPart(tx, p, parsed) ==
  LET verdict == apply_node_tree_verdict(tx)
      counted == [verdict.tx EXCEPT !.recv_node_idx = 0, !.expected = p.count]
  IN IF verdict.sw # "OK" THEN abort_prepared_tx(verdict.tx, verdict.sw)
     ELSE IF ~p.decodes THEN abort_prepared_tx(verdict.tx, "SW_TX_PARSING_FAIL")
     ELSE IF ~p.hashes THEN abort_prepared_tx(verdict.tx, "SW_TX_HASH_FAIL")
     ELSE IF p.count = 0 THEN process_prepared_tx_finalize(counted, parsed)
     ELSE Accept([counted EXCEPT !.tx_state = "INPUT_CONTRACTS"])

\* RECEIVING_METADATA_INPUT_CONTRACTS
InputContract(tx, p, parsed) ==
  LET noted == values_check_disclosed_contract(tx, p)
      shown == parse_input_contract_for_display(noted, p.screen)
      counted == [shown.tx EXCEPT !.recv_node_idx = @ + 1]
  IN IF ~p.decodes THEN abort_prepared_tx(tx, "SW_TX_PARSING_FAIL")
     ELSE IF ~p.hashes THEN abort_prepared_tx(tx, "SW_TX_HASH_FAIL")
     ELSE IF shown.sw # "OK" THEN abort_prepared_tx(shown.tx, shown.sw)
     ELSE IF counted.recv_node_idx = tx.expected
     THEN process_prepared_tx_finalize(counted, parsed)
     ELSE Accept(counted)

\* A component that comes after the transaction was completed is not behind its hash,
\* until the transaction is completed once more.
Outdated(tx) == [tx EXCEPT !.m_hash = IF @ = "none" THEN "none" ELSE "stale"]

process_prepared_tx_part(tx, p, parsed) ==
  LET t == Outdated(tx)
  IN IF t.tx_state = "TX_PART" THEN DamlTxPart(t, p)
     ELSE IF t.tx_state = "NODES" THEN DamlNode(t, p)
     ELSE IF t.tx_state = "METADATA" THEN MetadataPart(t, p, parsed)
     ELSE IF t.tx_state = "INPUT_CONTRACTS" THEN InputContract(t, p, parsed)
     ELSE abort_prepared_tx(t, "SW_BAD_STATE")
=============================================================================
