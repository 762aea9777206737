-------------------------- MODULE PreparedTxProofs --------------------------
(***************************************************************************)
(* What the receive machine of a prepared transaction promises, for every  *)
(* number and kind of components: a clear review of a transaction received *)
(* to its end follows all its checks, and no array of pairs is lost.       *)
(*                                                                         *)
(* The machine is made of operators on a record, so each of them gets a    *)
(* lemma: it keeps the type, and it keeps what the verdicts rest on.       *)
(***************************************************************************)
EXTENDS SignTxProofs

\* Pairs are there only together with the decision to show them.
PairsFit(t) == t.pairs = "none" \/ (t.pairs = "details" /\ t.clear)

\* What will be shown is there, and the display parser has not failed on it.
ShownFits(t) == t.clear => t.pairs = "details" /\ ~t.display_failed

\* The same once an answer has freed the pairs.
Rendered(t) == t.clear => ~t.display_failed

\* Behind the metadata only an input contract can turn clear signing on again.
Judged(t) == t.tx_state = "INPUT_CONTRACTS" /\ t.clear => t.tree = "ok" \/ t.late

\* The fields the display parser leaves alone.
SameFlow(t, u) ==
  /\ u.m_hash = t.m_hash /\ u.tx_state = t.tx_state /\ u.tree = t.tree
  /\ u.expected = t.expected /\ u.recv_node_idx = t.recv_node_idx

LEMMA BootType == BootTx \in TxState
<1>1. "none" \in STRING
  BY StringsAssumption
<1> QED BY <1>1 DEF TxState, BootTx

\* The small steps keep the type.
LEMMA SmallSteps ==
  ASSUME NEW t \in TxState
  PROVE  /\ cleanup_display_items(t) \in TxState
         /\ \A ps \in {"empty", "details", "hash"} : AllocatePairs(t, ps) \in TxState
         /\ reset_display_parser_state(t) \in TxState
         /\ tree_check_reset(t) \in TxState
         /\ values_check_reset(t) \in TxState
         /\ process_prepared_tx_init(t) \in TxState
<1>1. cleanup_display_items(t) \in TxState
  BY DEF TxState, cleanup_display_items
<1>2. ASSUME NEW ps \in {"empty", "details", "hash"} PROVE AllocatePairs(t, ps) \in TxState
  <2>1. (t.lost \/ t.pairs # "none") \in BOOLEAN
    OBVIOUS
  <2> QED BY <2>1, ZenonT(60) DEF TxState, AllocatePairs
<1>3. reset_display_parser_state(t) \in TxState
  BY DEF TxState, reset_display_parser_state
<1>4. tree_check_reset(t) \in TxState
  BY DEF TxState, tree_check_reset
<1>5. values_check_reset(t) \in TxState
  BY DEF TxState, values_check_reset
<1>6. process_prepared_tx_init(t) \in TxState
  BY DEF TxState, process_prepared_tx_init
<1> QED BY <1>1, <1>2, <1>3, <1>4, <1>5, <1>6

\* What a new flow starts from.
LEMMA CleanContext ==
  ASSUME NEW t \in TxState
  PROVE  LET c == clean_context(t)
         IN /\ c \in TxState
            /\ c.clear = FALSE /\ c.m_hash = "none" /\ c.pairs = "none" /\ c.lost = t.lost
            /\ c.challenge_signature = FALSE
<1> DEFINE b == values_check_reset(BootTx)
<1>1. b \in TxState
  BY BootType, SmallSteps
<1>2. b.clear = FALSE /\ b.m_hash = "none" /\ b.pairs = "none" /\ b.challenge_signature = FALSE
  BY DEF BootTx, values_check_reset
<1>3. clean_context(t) = [b EXCEPT !.tx_state = t.tx_state, !.lost = t.lost]
  BY DEF clean_context
<1> HIDE DEF b
<1>4. clean_context(t) \in TxState
  BY <1>1, <1>3, ZenonT(60) DEF TxState
<1> QED BY <1>1, <1>2, <1>3, <1>4 DEF TxState

\* A refused component leaves the pairs to refuse_tx.
LEMMA Aborted ==
  ASSUME NEW t \in TxState, NEW sw
  PROVE  /\ abort_prepared_tx(t, sw).tx \in TxState
         /\ abort_prepared_tx(t, sw).tx.lost = t.lost
         /\ abort_prepared_tx(t, sw).sw = sw
<1> DEFINE r == tree_check_reset(t)
<1>1. r \in TxState /\ r.lost = t.lost
  BY DEF TxState, tree_check_reset
<1>2. abort_prepared_tx(t, sw) = [tx |-> values_check_reset(r), sw |-> sw]
  BY DEF abort_prepared_tx
<1> HIDE DEF r
<1>3. values_check_reset(r) \in TxState /\ values_check_reset(r).lost = r.lost
  BY <1>1 DEF TxState, values_check_reset
<1> QED BY <1>1, <1>2, <1>3
-----------------------------------------------------------------------------
(***************************************************************************)
(* The display parser                                                      *)
(***************************************************************************)
\* A screen configuration matched: pairs and decision come and go together.
LEMMA Formatted ==
  ASSUME NEW t \in TxState, NEW s
  PROVE  LET r == format_and_populate_display_items(t, s)
         IN /\ r.tx \in TxState /\ r.sw \in {"OK", "SW_TX_PARSING_FAIL"}
            /\ SameFlow(t, r.tx) /\ r.tx.late = t.late
            /\ t.pairs = "none" => r.tx.lost = t.lost
            /\ r.tx.pairs \in {"none", "details"} /\ (r.tx.pairs = "details" <=> r.tx.clear)
            /\ r.tx.clear => r.tx.display_failed = t.display_failed
<1> DEFINE a == AllocatePairs(t, "details")
           b == [a EXCEPT !.bound = TRUE]
           matched == reset_display_parser_state(b)
           off == [matched EXCEPT !.clear = FALSE]
           dropped == cleanup_display_items(off)
           on == [matched EXCEPT !.clear = TRUE]
           bad == [dropped EXCEPT !.display_failed = TRUE]
           Same(u) == /\ SameFlow(t, u) /\ u.late = t.late
                      /\ t.pairs = "none" => u.lost = t.lost
<1>1. a \in TxState /\ Same(a) /\ a.pairs = "details" /\ a.display_failed = t.display_failed
  <2>1. a \in TxState
    BY SmallSteps
  <2> QED BY <2>1 DEF TxState, AllocatePairs, SameFlow
<1>2. /\ matched \in TxState /\ Same(matched)
      /\ matched.pairs = "details" /\ matched.display_failed = t.display_failed
  <2> HIDE DEF a
  <2>1. b \in TxState
    BY <1>1, ZenonT(60) DEF TxState
  <2>2. /\ Same(b) /\ b.pairs = "details" /\ b.display_failed = t.display_failed
    BY <1>1 DEF TxState, SameFlow
  <2> HIDE DEF b
  <2>3. matched \in TxState
    BY <2>1, SmallSteps
  <2> QED BY <2>1, <2>2, <2>3 DEF TxState, reset_display_parser_state, SameFlow
<1> HIDE DEF matched
<1>3. on \in TxState /\ Same(on) /\ on.pairs = "details" /\ on.clear
      /\ on.display_failed = t.display_failed
  <2>1. on \in TxState
    BY <1>2, ZenonT(60) DEF TxState
  <2> QED BY <1>2, <2>1 DEF TxState, SameFlow
<1>4. dropped \in TxState /\ Same(dropped) /\ dropped.pairs = "none" /\ ~dropped.clear
  <2>1. off \in TxState
    BY <1>2, ZenonT(60) DEF TxState
  <2>2. Same(off) /\ ~off.clear
    BY <1>2 DEF TxState, SameFlow
  <2> HIDE DEF off
  <2>3. dropped \in TxState
    BY <2>1, SmallSteps
  <2> QED BY <2>1, <2>2, <2>3 DEF TxState, cleanup_display_items, SameFlow
<1> HIDE DEF dropped
<1>5. bad \in TxState /\ Same(bad) /\ bad.pairs = "none" /\ ~bad.clear
  <2>1. bad \in TxState
    BY <1>4, ZenonT(60) DEF TxState
  <2> QED BY <1>4, <2>1 DEF TxState, SameFlow
<1> USE DEF matched, dropped
<1>6. format_and_populate_display_items(t, s) \in
        {[tx |-> on, sw |-> "OK"], [tx |-> bad, sw |-> "OK"],
         [tx |-> dropped, sw |-> "SW_TX_PARSING_FAIL"]}
  BY DEF format_and_populate_display_items, Accept
<1> HIDE DEF on, bad, dropped
<1> QED BY <1>3, <1>4, <1>5, <1>6

\* A component parsed for display while nothing is shown yet.
LEMMA DisplayParsed ==
  ASSUME NEW t \in TxState, NEW s, ~t.clear, ~t.display_failed
  PROVE  LET r == process_display_parsing(t, s)
         IN /\ r.tx \in TxState /\ r.sw \in {"OK", "SW_TX_PARSING_FAIL"}
            /\ SameFlow(t, r.tx) /\ r.tx.late = t.late
            /\ t.pairs = "none" => r.tx.lost = t.lost /\ PairsFit(r.tx)
            /\ ShownFits(r.tx)
<1> DEFINE c == cleanup_display_items(t)
           broken == reset_display_parser_state(c)
           none == [t EXCEPT !.clear = FALSE]
           waits == [t EXCEPT !.clear = FALSE, !.deferred = TRUE]
           Good(u) == /\ u \in TxState /\ SameFlow(t, u) /\ u.late = t.late
                      /\ t.pairs = "none" => u.lost = t.lost /\ PairsFit(u)
                      /\ ShownFits(u)
<1>1. c \in TxState /\ c.pairs = "none" /\ c.lost = t.lost /\ ~c.clear /\ SameFlow(t, c)
      /\ c.late = t.late
  BY DEF TxState, cleanup_display_items, SameFlow
<1>2. Good(broken)
  <2> HIDE DEF c
  <2> QED BY <1>1 DEF TxState, reset_display_parser_state, SameFlow, PairsFit, ShownFits, Rendered
<1>3. Good(none) /\ Good(waits)
  BY DEF TxState, SameFlow, PairsFit, ShownFits, Rendered
<1>4. Good(format_and_populate_display_items(t, s).tx)
  BY Formatted DEF PairsFit, ShownFits, Rendered
<1>5. process_display_parsing(t, s) \in
        {[tx |-> broken, sw |-> "SW_TX_PARSING_FAIL"], [tx |-> none, sw |-> "OK"],
         [tx |-> waits, sw |-> "OK"], format_and_populate_display_items(t, s)}
  BY Zenon DEF process_display_parsing, Accept
<1>6. format_and_populate_display_items(t, s).sw \in {"OK", "SW_TX_PARSING_FAIL"}
  BY Formatted
<1> HIDE DEF broken, none, waits
<1> QED BY <1>2, <1>3, <1>4, <1>5, <1>6

\* What a parse for display may do to a transaction: nothing, or what DisplayParsed says.
DisplayStep(t, r) ==
  /\ r.tx \in TxState /\ r.sw \in {"OK", "SW_TX_PARSING_FAIL"}
  /\ SameFlow(t, r.tx)
  /\ PairsFit(t) => r.tx.lost = t.lost /\ PairsFit(r.tx)
  /\ ShownFits(t) => ShownFits(r.tx)
  /\ Rendered(t) => Rendered(r.tx)

LEMMA NodeDisplayed ==
  ASSUME NEW t \in TxState, NEW s
  PROVE  /\ DisplayStep(t, parse_node_for_display(t, s))
         /\ parse_node_for_display(t, s).tx.late = t.late
<1> DEFINE u == reset_display_parser_state(t)
<1>1. CASE t.clear \/ t.display_failed \/ t.deferred
  <2>1. parse_node_for_display(t, s) = [tx |-> t, sw |-> "OK"]
    BY <1>1 DEF parse_node_for_display, Accept
  <2> QED BY <2>1 DEF DisplayStep, SameFlow
<1>2. CASE ~(t.clear \/ t.display_failed \/ t.deferred)
  <2>1. parse_node_for_display(t, s) = process_display_parsing(u, s)
    BY <1>2 DEF parse_node_for_display
  <2>2. /\ u \in TxState /\ ~u.clear /\ ~u.display_failed /\ SameFlow(t, u) /\ u.late = t.late
        /\ u.lost = t.lost /\ u.pairs = t.pairs
    BY <1>2 DEF TxState, reset_display_parser_state, SameFlow
  <2> HIDE DEF u
  <2>3. /\ process_display_parsing(u, s).tx \in TxState
        /\ process_display_parsing(u, s).sw \in {"OK", "SW_TX_PARSING_FAIL"}
        /\ SameFlow(u, process_display_parsing(u, s).tx)
        /\ process_display_parsing(u, s).tx.late = u.late
        /\ u.pairs = "none" => process_display_parsing(u, s).tx.lost = u.lost
                                /\ PairsFit(process_display_parsing(u, s).tx)
        /\ ShownFits(process_display_parsing(u, s).tx)
    BY <2>2, DisplayParsed
  <2>4. PairsFit(t) => u.pairs = "none"
    BY <1>2, <2>2 DEF PairsFit
  <2> QED BY <2>1, <2>2, <2>3, <2>4, Zenon DEF DisplayStep, SameFlow, ShownFits, Rendered
<1> QED BY <1>1, <1>2

LEMMA ContractDisplayed ==
  ASSUME NEW t \in TxState, NEW s
  PROVE  /\ DisplayStep(t, parse_input_contract_for_display(t, s))
         /\ \/ parse_input_contract_for_display(t, s).tx = t
            \/ parse_input_contract_for_display(t, s).tx.late
<1> DEFINE u == [t EXCEPT !.late = TRUE]
<1>1. CASE t.clear \/ t.display_failed \/ ~t.deferred
  <2>1. parse_input_contract_for_display(t, s) = [tx |-> t, sw |-> "OK"]
    BY <1>1 DEF parse_input_contract_for_display, Accept
  <2> QED BY <2>1 DEF DisplayStep, SameFlow
<1>2. CASE ~(t.clear \/ t.display_failed \/ ~t.deferred)
  <2>1. parse_input_contract_for_display(t, s) = process_display_parsing(u, s)
    BY <1>2 DEF parse_input_contract_for_display
  <2>2. /\ u \in TxState /\ ~u.clear /\ ~u.display_failed /\ SameFlow(t, u) /\ u.late
        /\ u.lost = t.lost /\ u.pairs = t.pairs
    BY <1>2 DEF TxState, SameFlow
  <2> HIDE DEF u
  <2>3. /\ process_display_parsing(u, s).tx \in TxState
        /\ process_display_parsing(u, s).sw \in {"OK", "SW_TX_PARSING_FAIL"}
        /\ SameFlow(u, process_display_parsing(u, s).tx)
        /\ process_display_parsing(u, s).tx.late = u.late
        /\ u.pairs = "none" => process_display_parsing(u, s).tx.lost = u.lost
                                /\ PairsFit(process_display_parsing(u, s).tx)
        /\ ShownFits(process_display_parsing(u, s).tx)
    BY <2>2, DisplayParsed
  <2>4. PairsFit(t) => u.pairs = "none"
    BY <1>2, <2>2 DEF PairsFit
  <2> QED BY <2>1, <2>2, <2>3, <2>4, Zenon DEF DisplayStep, SameFlow, ShownFits, Rendered
<1> QED BY <1>1, <1>2
-----------------------------------------------------------------------------
(***************************************************************************)
(* The four states of the receive machine                                  *)
(***************************************************************************)
PreparedStatuses ==
  {"OK", "SW_TX_PARSING_FAIL", "SW_TX_HASH_FAIL", "SW_TX_INVALID_NODE_TREE", "SW_BAD_STATE"}

\* What a component may do to a transaction.
PartStep(t, r) ==
  /\ r.tx \in TxState /\ r.sw \in PreparedStatuses
  /\ PairsFit(t) => r.tx.lost = t.lost /\ (r.sw = "OK" => PairsFit(r.tx))
  /\ r.sw = "OK" => /\ ShownFits(t) => ShownFits(r.tx)
                    /\ Rendered(t) => Rendered(r.tx)
                    /\ Judged(t) => Judged(r.tx)

\* What a final hash stands for.
Final(u, parsed) ==
  u.m_hash = "final" => parsed /\ (u.clear => values_can_clear_sign(u)
                                              /\ (u.tree = "ok" \/ u.late))

LEMMA AbortStep ==
  ASSUME NEW t \in TxState, NEW u \in TxState, NEW sw \in PreparedStatuses \ {"OK"},
         PairsFit(t) => u.lost = t.lost
  PROVE  PartStep(t, abort_prepared_tx(u, sw))
BY Aborted DEF PartStep

LEMMA HeaderStep ==
  ASSUME NEW t \in TxState, NEW p \in Component
  PROVE  /\ PartStep(t, DamlTxPart(t, p))
         /\ DamlTxPart(t, p).sw = "OK" => DamlTxPart(t, p).tx.m_hash = t.m_hash
<1> DEFINE tree == IF p.tree \in {"unexpected", "impossible"} THEN p.tree
                   ELSE IF p.count = 0 THEN "impossible" ELSE "ok"
           next == IF p.count = 0 THEN "METADATA" ELSE "NODES"
           u == [t EXCEPT !.tree = tree, !.orphan = FALSE, !.recv_node_idx = 0,
                          !.expected = p.count, !.tx_state = next]
<1>1. /\ tree \in {"ok", "unexpected", "impossible"} /\ next \in {"METADATA", "NODES"}
      /\ p.count \in Int
  BY DEF Component
<1>2. DamlTxPart(t, p) \in {abort_prepared_tx(t, "SW_TX_PARSING_FAIL"),
                            abort_prepared_tx(t, "SW_TX_HASH_FAIL"), [tx |-> u, sw |-> "OK"]}
  BY DEF DamlTxPart, Accept
<1> HIDE DEF tree, next
<1>3. /\ u \in TxState /\ u.lost = t.lost /\ u.pairs = t.pairs /\ u.clear = t.clear
      /\ u.display_failed = t.display_failed /\ u.m_hash = t.m_hash
      /\ u.tx_state # "INPUT_CONTRACTS"
  <2>1. u \in TxState
    BY <1>1, ZenonT(60) DEF TxState
  <2> QED BY <1>1, <2>1 DEF TxState
<1> HIDE DEF u
<1>4. PartStep(t, [tx |-> u, sw |-> "OK"])
  BY <1>3 DEF PartStep, PreparedStatuses, PairsFit, ShownFits, Rendered, Judged
<1>5. /\ PartStep(t, abort_prepared_tx(t, "SW_TX_PARSING_FAIL"))
      /\ PartStep(t, abort_prepared_tx(t, "SW_TX_HASH_FAIL"))
  BY AbortStep DEF PreparedStatuses
<1>6. /\ abort_prepared_tx(t, "SW_TX_PARSING_FAIL").sw # "OK"
      /\ abort_prepared_tx(t, "SW_TX_HASH_FAIL").sw # "OK"
  BY Aborted
<1> QED BY <1>2, <1>3, <1>4, <1>5, <1>6

LEMMA NodeStep ==
  ASSUME NEW t \in TxState, NEW p \in Component, t.tx_state = "NODES"
  PROVE  /\ PartStep(t, DamlNode(t, p))
         /\ DamlNode(t, p).sw = "OK" => DamlNode(t, p).tx.m_hash = t.m_hash
<1> DEFINE a == values_collect_from_node(t, p)
           tree == IF a.tree = "ok" /\ p.tree = "impossible" THEN "impossible" ELSE a.tree
           noted == [a EXCEPT !.tree = tree, !.orphan = @ \/ (p.tree = "orphan" /\ t.expected > 1)]
           shown == IF noted.tree = "ok" THEN parse_node_for_display(noted, p.screen)
                    ELSE [tx |-> noted, sw |-> "OK"]
           next == IF t.recv_node_idx + 1 = t.expected THEN "METADATA" ELSE shown.tx.tx_state
           u == [shown.tx EXCEPT !.recv_node_idx = @ + 1, !.tx_state = next]
           Same(v) == /\ v \in TxState /\ v.m_hash = t.m_hash /\ v.tx_state = "NODES"
                      /\ v.pairs = t.pairs /\ v.clear = t.clear /\ v.lost = t.lost
                      /\ v.display_failed = t.display_failed
<1>1. Same(a)
  <2>1. (t.values /\ p.values) \in BOOLEAN
    OBVIOUS
  <2>2. a \in TxState
    BY <2>1, ZenonT(60) DEF values_collect_from_node, TxState
  <2> QED BY <2>2 DEF values_collect_from_node, TxState
<1>2. \/ DamlNode(t, p) = abort_prepared_tx(t, "SW_TX_PARSING_FAIL")
      \/ DamlNode(t, p) = abort_prepared_tx(t, "SW_TX_HASH_FAIL")
      \/ shown.sw # "OK" /\ DamlNode(t, p) = abort_prepared_tx(shown.tx, shown.sw)
      \/ DamlNode(t, p) = [tx |-> u, sw |-> "OK"]
  BY Zenon DEF DamlNode, Accept
<1> HIDE DEF a
<1>3. Same(noted)
  <2>1. tree \in {"ok", "unexpected", "impossible"} /\ a.orphan \in BOOLEAN
    BY <1>1 DEF TxState
  <2>2. (a.orphan \/ (p.tree = "orphan" /\ t.expected > 1)) \in BOOLEAN
    OBVIOUS
  <2> HIDE DEF tree
  <2>3. noted \in TxState
    BY <1>1, <2>1, <2>2, ZenonT(60) DEF TxState
  <2> QED BY <1>1, <2>3 DEF TxState
<1> HIDE DEF noted
<1>4. DisplayStep(noted, shown)
  BY <1>3, NodeDisplayed DEF DisplayStep, SameFlow
<1> HIDE DEF shown
<1>5. /\ shown.tx \in TxState /\ shown.sw \in {"OK", "SW_TX_PARSING_FAIL"}
      /\ shown.tx.m_hash = t.m_hash /\ shown.tx.tx_state = "NODES"
      /\ PairsFit(t) => shown.tx.lost = t.lost /\ PairsFit(shown.tx)
      /\ ShownFits(t) => ShownFits(shown.tx)
      /\ Rendered(t) => Rendered(shown.tx)
  BY <1>3, <1>4 DEF DisplayStep, SameFlow, PairsFit, ShownFits, Rendered
<1>6. next \in {"METADATA", "NODES"} /\ shown.tx.recv_node_idx + 1 \in Nat
  <2>1. shown.tx.recv_node_idx \in Nat
    BY <1>5 DEF TxState
  <2> QED BY <1>5, <2>1
<1> HIDE DEF next
<1>7. /\ u \in TxState /\ u.lost = shown.tx.lost /\ u.pairs = shown.tx.pairs
      /\ u.clear = shown.tx.clear /\ u.display_failed = shown.tx.display_failed
      /\ u.m_hash = shown.tx.m_hash /\ u.tx_state # "INPUT_CONTRACTS"
  <2>1. u \in TxState
    BY <1>5, <1>6, ZenonT(60) DEF TxState
  <2> QED BY <1>5, <1>6, <2>1 DEF TxState
<1> HIDE DEF u
<1>8. PartStep(t, [tx |-> u, sw |-> "OK"])
  BY <1>5, <1>7 DEF PartStep, PreparedStatuses, PairsFit, ShownFits, Rendered, Judged
<1>9. /\ PartStep(t, abort_prepared_tx(t, "SW_TX_PARSING_FAIL"))
      /\ PartStep(t, abort_prepared_tx(t, "SW_TX_HASH_FAIL"))
      /\ shown.sw # "OK" => PartStep(t, abort_prepared_tx(shown.tx, shown.sw))
  BY <1>5, AbortStep DEF PreparedStatuses
<1>10. /\ abort_prepared_tx(t, "SW_TX_PARSING_FAIL").sw # "OK"
       /\ abort_prepared_tx(t, "SW_TX_HASH_FAIL").sw # "OK"
       /\ shown.sw # "OK" => abort_prepared_tx(shown.tx, shown.sw).sw # "OK"
  BY <1>5, Aborted
<1> QED BY <1>2, <1>5, <1>7, <1>8, <1>9, <1>10

\* Finalizing keeps the pairs only if the values check agrees.
LEMMA FinalizeStep ==
  ASSUME NEW t \in TxState, NEW parsed \in BOOLEAN
  PROVE  LET r == process_prepared_tx_finalize(t, parsed)
         IN /\ PartStep(t, r)
            /\ r.sw = "OK" => /\ parsed
                              /\ r.tx.clear => values_can_clear_sign(r.tx)
                              /\ r.tx.tree = t.tree /\ r.tx.late = t.late
                              /\ r.tx.clear => t.clear
<1> DEFINE off == cleanup_display_items([t EXCEPT !.clear = FALSE])
           checked == IF t.clear /\ ~values_can_clear_sign(t) THEN off ELSE t
           hashed == [checked EXCEPT !.used = FALSE, !.m_hash = "final"]
           u == reset_display_parser_state(hashed)
<1>1. off \in TxState /\ off.pairs = "none" /\ ~off.clear /\ off.lost = t.lost
      /\ SameFlow(t, off) /\ off.late = t.late
  BY DEF TxState, cleanup_display_items, SameFlow
<1>2. process_prepared_tx_finalize(t, parsed) =
        IF ~parsed THEN abort_prepared_tx(t, "SW_BAD_STATE") ELSE [tx |-> u, sw |-> "OK"]
  BY Zenon DEF process_prepared_tx_finalize, Accept
<1> HIDE DEF off
<1>3. /\ checked \in TxState /\ SameFlow(t, checked) /\ checked.lost = t.lost
      /\ checked.late = t.late
      /\ checked.clear => t.clear /\ values_can_clear_sign(checked)
      /\ PairsFit(t) => PairsFit(checked)
      /\ ShownFits(t) => ShownFits(checked)
      /\ Rendered(t) => Rendered(checked)
  BY <1>1 DEF SameFlow, PairsFit, ShownFits, Rendered
<1> HIDE DEF checked
<1>5. /\ hashed \in TxState /\ hashed.m_hash = "final" /\ hashed.tx_state = t.tx_state
      /\ hashed.tree = t.tree /\ hashed.late = t.late /\ hashed.lost = t.lost
      /\ hashed.clear = checked.clear /\ hashed.pairs = checked.pairs
      /\ hashed.values = checked.values /\ hashed.bound = checked.bound
      /\ hashed.display_failed = checked.display_failed
  <2>1. hashed \in TxState
    BY <1>3, ZenonT(60) DEF TxState
  <2>2. /\ checked.tx_state = t.tx_state /\ checked.tree = t.tree
        /\ checked.late = t.late /\ checked.lost = t.lost
    BY <1>3 DEF SameFlow
  <2> QED BY <1>3, <2>1, <2>2 DEF TxState
<1> HIDE DEF hashed
<1>6. /\ u \in TxState /\ u.m_hash = "final" /\ u.tx_state = t.tx_state
      /\ u.tree = t.tree /\ u.late = t.late /\ u.lost = t.lost
      /\ u.clear = checked.clear /\ u.pairs = checked.pairs
      /\ u.values = checked.values /\ u.bound = checked.bound
      /\ u.display_failed = checked.display_failed
  BY <1>5 DEF TxState, reset_display_parser_state
<1> HIDE DEF u
<1>7. CASE parsed
  <2>1. process_prepared_tx_finalize(t, parsed) = [tx |-> u, sw |-> "OK"]
    BY <1>2, <1>7
  <2>2. PartStep(t, [tx |-> u, sw |-> "OK"])
    BY <1>3, <1>6 DEF PartStep, PreparedStatuses, PairsFit, ShownFits, Rendered, Judged
  <2>3. (u.clear => values_can_clear_sign(u)) /\ (u.clear => t.clear)
    BY <1>3, <1>6 DEF values_can_clear_sign
  <2> DEFINE r == process_prepared_tx_finalize(t, parsed)
  <2>4. r.tx = u /\ r.sw = "OK"
    BY <2>1
  <2>5. PartStep(t, r)
    BY <2>1, <2>2
  <2> QED BY <1>6, <1>7, <2>3, <2>4, <2>5, Zenon
<1>8. CASE ~parsed
  <2>1. process_prepared_tx_finalize(t, parsed) = abort_prepared_tx(t, "SW_BAD_STATE")
    BY <1>2, <1>8
  <2>2. PartStep(t, abort_prepared_tx(t, "SW_BAD_STATE"))
    BY AbortStep DEF PreparedStatuses
  <2>3. abort_prepared_tx(t, "SW_BAD_STATE").sw = "SW_BAD_STATE"
    BY Aborted
  <2> QED BY <2>1, <2>2, <2>3
<1> QED BY <1>7, <1>8

\* The verdict on the tree: behind it, details are only shown of one tree.
LEMMA VerdictStep ==
  ASSUME NEW t \in TxState
  PROVE  LET r == apply_node_tree_verdict(t)
         IN /\ r.tx \in TxState /\ r.sw \in {"OK", "SW_TX_INVALID_NODE_TREE"}
            /\ PairsFit(t) => r.tx.lost = t.lost
            /\ r.sw = "OK" => /\ PairsFit(t) => PairsFit(r.tx)
                              /\ ShownFits(t) => ShownFits(r.tx)
                              /\ Rendered(t) => Rendered(r.tx)
                              /\ r.tx.m_hash = t.m_hash
                              /\ r.tx.clear => r.tx.tree = "ok"
<1> DEFINE tree == IF t.tree = "ok" /\ t.orphan THEN "unexpected" ELSE t.tree
           judged == [t EXCEPT !.tree = tree, !.orphan = FALSE]
           hidden == [judged EXCEPT !.clear = FALSE]
           off == cleanup_display_items(hidden)
<1>1. \/ tree = "ok" /\ apply_node_tree_verdict(t) = [tx |-> judged, sw |-> "OK"]
      \/ apply_node_tree_verdict(t) = abort_prepared_tx(judged, "SW_TX_INVALID_NODE_TREE")
      \/ apply_node_tree_verdict(t) = [tx |-> off, sw |-> "OK"]
  BY Zenon DEF apply_node_tree_verdict, Accept
<1>2. tree \in {"ok", "unexpected", "impossible"}
  BY DEF TxState
<1> HIDE DEF tree
<1>3. /\ judged \in TxState /\ judged.tree = tree /\ judged.lost = t.lost
      /\ judged.pairs = t.pairs /\ judged.clear = t.clear /\ judged.m_hash = t.m_hash
      /\ judged.display_failed = t.display_failed
  BY <1>2 DEF TxState
<1> HIDE DEF judged
<1>4. /\ hidden \in TxState /\ hidden.clear = FALSE /\ hidden.lost = judged.lost
      /\ hidden.m_hash = judged.m_hash
  BY <1>3 DEF TxState
<1> HIDE DEF hidden
<1>5. /\ off \in TxState /\ off.pairs = "none" /\ off.clear = FALSE /\ off.lost = t.lost
      /\ off.m_hash = t.m_hash
  BY <1>3, <1>4 DEF TxState, cleanup_display_items
<1> HIDE DEF off
<1>6. /\ abort_prepared_tx(judged, "SW_TX_INVALID_NODE_TREE").tx \in TxState
      /\ abort_prepared_tx(judged, "SW_TX_INVALID_NODE_TREE").tx.lost = judged.lost
      /\ abort_prepared_tx(judged, "SW_TX_INVALID_NODE_TREE").sw = "SW_TX_INVALID_NODE_TREE"
  BY <1>3, Aborted
<1> QED BY <1>1, <1>3, <1>5, <1>6 DEF PairsFit, ShownFits, Rendered

LEMMA MetadataStep ==
  ASSUME NEW t \in TxState, NEW p \in Component, NEW parsed \in BOOLEAN
  PROVE  LET r == MetadataPart(t, p, parsed)
         IN /\ PartStep(t, r)
            /\ r.sw = "OK" /\ t.m_hash # "final" => Final(r.tx, parsed)
<1> DEFINE verdict == apply_node_tree_verdict(t)
           v == verdict.tx
           counted == [v EXCEPT !.recv_node_idx = 0, !.expected = p.count]
           u == [counted EXCEPT !.tx_state = "INPUT_CONTRACTS"]
           f == process_prepared_tx_finalize(counted, parsed)
           r == MetadataPart(t, p, parsed)
<1>1. \/ verdict.sw # "OK" /\ r = abort_prepared_tx(v, verdict.sw)
      \/ verdict.sw = "OK" /\ r = abort_prepared_tx(v, "SW_TX_PARSING_FAIL")
      \/ verdict.sw = "OK" /\ r = abort_prepared_tx(v, "SW_TX_HASH_FAIL")
      \/ verdict.sw = "OK" /\ r = f
      \/ verdict.sw = "OK" /\ r = [tx |-> u, sw |-> "OK"]
  BY Zenon DEF MetadataPart, Accept
<1>2. /\ v \in TxState /\ verdict.sw \in {"OK", "SW_TX_INVALID_NODE_TREE"}
      /\ PairsFit(t) => v.lost = t.lost
      /\ verdict.sw = "OK" => /\ PairsFit(t) => PairsFit(v)
                              /\ ShownFits(t) => ShownFits(v)
                              /\ Rendered(t) => Rendered(v)
                              /\ v.m_hash = t.m_hash
                              /\ v.clear => v.tree = "ok"
  BY VerdictStep
<1> HIDE DEF r, verdict, v
<1>3. /\ counted \in TxState /\ counted.lost = v.lost /\ counted.pairs = v.pairs
      /\ counted.clear = v.clear /\ counted.m_hash = v.m_hash /\ counted.tree = v.tree
      /\ counted.display_failed = v.display_failed /\ counted.late = v.late
  <2>1. p.count \in Int
    BY DEF Component
  <2> QED BY <1>2, <2>1 DEF TxState
<1> HIDE DEF counted
<1>4. /\ u \in TxState /\ u.lost = v.lost /\ u.pairs = v.pairs
      /\ u.clear = v.clear /\ u.m_hash = v.m_hash /\ u.tree = v.tree
      /\ u.display_failed = v.display_failed
  BY <1>3 DEF TxState
<1> HIDE DEF u
<1>5. CASE verdict.sw = "OK" /\ r = f
  <2>1. /\ PartStep(counted, f)
        /\ f.sw = "OK" => /\ parsed
                          /\ f.tx.clear => values_can_clear_sign(f.tx)
                          /\ f.tx.tree = counted.tree /\ f.tx.late = counted.late
                          /\ f.tx.clear => counted.clear
    BY <1>3, FinalizeStep
  <2> HIDE DEF f
  <2>2. /\ PairsFit(t) => PairsFit(counted) /\ counted.lost = t.lost
        /\ ShownFits(t) => ShownFits(counted)
        /\ Rendered(t) => Rendered(counted)
        /\ Judged(counted) /\ (counted.clear => counted.tree = "ok")
        /\ counted.m_hash = t.m_hash
    BY <1>2, <1>3, <1>5 DEF PairsFit, ShownFits, Rendered, Judged
  <2>3. PartStep(t, f)
    BY <2>1, <2>2 DEF PartStep
  <2>4. f.sw = "OK" => Final(f.tx, parsed)
    BY <2>1, <2>2 DEF Final
  <2> QED BY <1>5, <2>3, <2>4 DEF r
<1>6. CASE verdict.sw = "OK" /\ r = [tx |-> u, sw |-> "OK"]
  <2>1. PartStep(t, [tx |-> u, sw |-> "OK"])
    BY <1>2, <1>4, <1>6 DEF PartStep, PreparedStatuses, PairsFit, ShownFits, Rendered, Judged
  <2>2. u.m_hash = t.m_hash
    BY <1>2, <1>4, <1>6
  <2> QED BY <1>6, <2>1, <2>2 DEF r, Final
<1>7. CASE \E sw \in PreparedStatuses \ {"OK"} : r = abort_prepared_tx(v, sw)
  <2>1. PICK sw \in PreparedStatuses \ {"OK"} : r = abort_prepared_tx(v, sw)
    BY <1>7
  <2>2. PartStep(t, r) /\ r.sw # "OK"
    BY <1>2, <2>1, AbortStep, Aborted
  <2> QED BY <2>2 DEF r
<1> QED BY <1>1, <1>2, <1>5, <1>6, <1>7 DEF PreparedStatuses

LEMMA ContractStep ==
  ASSUME NEW t \in TxState, NEW p \in Component, NEW parsed \in BOOLEAN,
         t.tx_state = "INPUT_CONTRACTS"
  PROVE  LET r == InputContract(t, p, parsed)
         IN /\ PartStep(t, r)
            /\ r.sw = "OK" /\ t.m_hash # "final" /\ Judged(t) => Final(r.tx, parsed)
<1> DEFINE noted == values_check_disclosed_contract(t, p)
           shown == parse_input_contract_for_display(noted, p.screen)
           v == shown.tx
           counted == [v EXCEPT !.recv_node_idx = @ + 1]
           f == process_prepared_tx_finalize(counted, parsed)
           r == InputContract(t, p, parsed)
<1>1. \/ r = abort_prepared_tx(t, "SW_TX_PARSING_FAIL")
      \/ r = abort_prepared_tx(t, "SW_TX_HASH_FAIL")
      \/ shown.sw # "OK" /\ r = abort_prepared_tx(v, shown.sw)
      \/ r = f
      \/ r = [tx |-> counted, sw |-> "OK"]
  BY Zenon DEF InputContract, Accept
<1>2. /\ noted \in TxState /\ noted.lost = t.lost /\ noted.pairs = t.pairs
      /\ noted.clear = t.clear /\ noted.m_hash = t.m_hash /\ noted.tree = t.tree
      /\ noted.display_failed = t.display_failed /\ noted.late = t.late
      /\ noted.tx_state = t.tx_state
  <2>1. (t.values /\ p.values /\ t.used) \in BOOLEAN
    OBVIOUS
  <2> QED BY <2>1 DEF TxState, values_check_disclosed_contract
<1> HIDE DEF noted
<1>3. DisplayStep(noted, shown) /\ (v = noted \/ v.late)
  BY <1>2, ContractDisplayed
<1> HIDE DEF r, shown
<1>4. /\ v \in TxState /\ shown.sw \in {"OK", "SW_TX_PARSING_FAIL"}
      /\ v.m_hash = t.m_hash /\ v.tx_state = t.tx_state /\ v.tree = t.tree
      /\ PairsFit(t) => v.lost = t.lost /\ PairsFit(v)
      /\ ShownFits(t) => ShownFits(v)
      /\ Rendered(t) => Rendered(v)
      /\ Judged(t) => Judged(v)
  BY <1>2, <1>3 DEF DisplayStep, SameFlow, PairsFit, ShownFits, Rendered, Judged
<1> HIDE DEF v
<1>5. /\ counted \in TxState /\ counted.lost = v.lost /\ counted.pairs = v.pairs
      /\ counted.clear = v.clear /\ counted.m_hash = v.m_hash /\ counted.tree = v.tree
      /\ counted.display_failed = v.display_failed /\ counted.late = v.late
      /\ counted.tx_state = v.tx_state
  <2>1. v.recv_node_idx + 1 \in Nat
    BY <1>4 DEF TxState
  <2> QED BY <1>4, <2>1 DEF TxState
<1> HIDE DEF counted
<1>6. /\ counted.m_hash = t.m_hash /\ counted.tx_state = "INPUT_CONTRACTS"
      /\ PairsFit(t) => PairsFit(counted) /\ counted.lost = t.lost
      /\ ShownFits(t) => ShownFits(counted)
      /\ Rendered(t) => Rendered(counted)
      /\ Judged(t) => Judged(counted)
  BY <1>4, <1>5 DEF PairsFit, ShownFits, Rendered, Judged
<1>7. CASE r = f
  <2>1. /\ PartStep(counted, f)
        /\ f.sw = "OK" => /\ parsed
                          /\ f.tx.clear => values_can_clear_sign(f.tx)
                          /\ f.tx.tree = counted.tree /\ f.tx.late = counted.late
                          /\ f.tx.clear => counted.clear
    BY <1>5, FinalizeStep
  <2> HIDE DEF f
  <2>2. PartStep(t, f)
    BY <1>6, <2>1 DEF PartStep
  <2>3. f.sw = "OK" /\ Judged(t) => Final(f.tx, parsed)
    BY <1>6, <2>1 DEF Final, Judged
  <2> QED BY <1>7, <2>2, <2>3 DEF r
<1>8. CASE r = [tx |-> counted, sw |-> "OK"]
  <2>1. PartStep(t, [tx |-> counted, sw |-> "OK"])
    BY <1>5, <1>6 DEF PartStep, PreparedStatuses
  <2> QED BY <1>6, <1>8, <2>1 DEF r, Final
<1>9. CASE \E u \in {t, v}, sw \in PreparedStatuses \ {"OK"} : r = abort_prepared_tx(u, sw)
  <2>1. PICK u \in {t, v}, sw \in PreparedStatuses \ {"OK"} : r = abort_prepared_tx(u, sw)
    BY <1>9
  <2>2. PartStep(t, r) /\ r.sw # "OK"
    BY <1>4, <2>1, AbortStep, Aborted
  <2> QED BY <2>2 DEF r
<1> QED BY <1>1, <1>4, <1>7, <1>8, <1>9 DEF PreparedStatuses

\* Any component, in any state of the machine: a hash that is final comes of this component.
LEMMA PreparedPart ==
  ASSUME NEW t \in TxState, NEW p \in Component, NEW parsed \in BOOLEAN
  PROVE  LET r == process_prepared_tx_part(t, p, parsed)
         IN /\ PartStep(t, r)
            /\ r.sw = "OK" /\ Judged(t) => Final(r.tx, parsed)
<1> DEFINE o == Outdated(t)
           r == process_prepared_tx_part(t, p, parsed)
           Step(q) == /\ PartStep(o, q)
                      /\ q.sw = "OK" /\ Judged(o) => Final(q.tx, parsed)
<1>1. /\ o \in TxState /\ o.m_hash # "final" /\ o.tx_state = t.tx_state /\ o.lost = t.lost
      /\ o.pairs = t.pairs /\ o.clear = t.clear /\ o.display_failed = t.display_failed
      /\ o.tree = t.tree /\ o.late = t.late
  BY DEF TxState, Outdated
<1>2. r = IF o.tx_state = "TX_PART" THEN DamlTxPart(o, p)
          ELSE IF o.tx_state = "NODES" THEN DamlNode(o, p)
          ELSE IF o.tx_state = "METADATA" THEN MetadataPart(o, p, parsed)
          ELSE IF o.tx_state = "INPUT_CONTRACTS" THEN InputContract(o, p, parsed)
          ELSE abort_prepared_tx(o, "SW_BAD_STATE")
  BY Zenon DEF process_prepared_tx_part
<1> HIDE DEF o, r
<1>3. ASSUME o.tx_state = "TX_PART" PROVE Step(r)
  <2>1. Step(DamlTxPart(o, p))
    BY <1>1, HeaderStep DEF Final
  <2> QED BY <1>2, <1>3, <2>1
<1>4. ASSUME o.tx_state = "NODES" PROVE Step(r)
  <2>1. Step(DamlNode(o, p))
    BY <1>1, <1>4, NodeStep DEF Final
  <2> QED BY <1>2, <1>4, <2>1
<1>5. ASSUME o.tx_state = "METADATA" PROVE Step(r)
  <2>1. Step(MetadataPart(o, p, parsed))
    BY <1>1, MetadataStep
  <2> QED BY <1>2, <1>5, <2>1
<1>6. ASSUME o.tx_state = "INPUT_CONTRACTS" PROVE Step(r)
  <2>1. Step(InputContract(o, p, parsed))
    BY <1>1, <1>6, ContractStep
  <2> QED BY <1>2, <1>6, <2>1
<1>7. Step(r)
  BY <1>1, <1>3, <1>4, <1>5, <1>6 DEF TxState
<1>8. /\ PairsFit(o) <=> PairsFit(t)
      /\ ShownFits(o) <=> ShownFits(t)
      /\ Rendered(o) <=> Rendered(t)
      /\ Judged(o) <=> Judged(t)
  BY <1>1 DEF PairsFit, ShownFits, Rendered, Judged
<1>9. PartStep(t, r) /\ (r.sw = "OK" /\ Judged(t) => Final(r.tx, parsed))
  BY <1>1, <1>7, <1>8 DEF PartStep
<1> QED BY <1>9 DEF r
-----------------------------------------------------------------------------
(***************************************************************************)
(* The steps of the app, by what they do to a flow                         *)
(***************************************************************************)
\* The flow is left alone, and no review comes or goes.
Quiet ==
  /\ UNCHANGED <<req_type, signing_type, path, tx, ob, asked, flow_path, answered>>
  /\ screen \notin Reviews /\ screen' \notin Reviews

LEMMA Idle == SessionInv /\ io_recv_command => screen \notin Reviews \cup {"address"}
BY DEF SessionInv, ReplyOwed, io_recv_command

LEMMA QuietSteps ==
  ASSUME SessionInv,
         \/ RejectedCommand \/ GetInfo \/ DerivationAssertion
         \/ \E type \in SigningTypes : SignTxTypeMismatch(type) \/ SignTxChunk(type)
         \/ \E m \in TopologyMessages, more \in BOOLEAN : HashStoreAssertion(m, more)
         \/ \E choice \in BOOLEAN : AddressChoice(choice)
         \/ DismissScreen \/ settings_controls_callback
  PROVE  Quiet
<1>1. ASSUME NEW sw, JustReply(sw) PROVE Quiet
  BY <1>1, Idle DEF JustReply, context, history, Quiet
<1>2. CASE RejectedCommand \/ GetInfo \/ \E type \in SigningTypes : SignTxTypeMismatch(type)
  BY <1>1, <1>2 DEF RejectedCommand, GetInfo, SignTxTypeMismatch
<1>3. CASE DerivationAssertion
  BY <1>3, Idle DEF DerivationAssertion, context, history, Quiet
<1>4. CASE \E type \in SigningTypes : SignTxChunk(type)
  BY <1>4, Idle DEF SignTxChunk, SignTxContinues, history, Quiet
<1>5. CASE \E m \in TopologyMessages, more \in BOOLEAN : HashStoreAssertion(m, more)
  BY <1>5, Idle DEF HashStoreAssertion, MessageEnds, SignTxContinues, Quiet
<1>6. CASE \E choice \in BOOLEAN : AddressChoice(choice)
  BY <1>6 DEF AddressChoice, context, history, Quiet, Reviews
<1>7. CASE DismissScreen \/ settings_controls_callback
  BY <1>7 DEF DismissScreen, settings_controls_callback, context, history, Quiet, Reviews
<1> QED BY <1>2, <1>3, <1>4, <1>5, <1>6, <1>7

\* The steps that are left.
LEMMA NextCases ==
  ASSUME SessionInv, [Next]_vars
  PROVE  \/ UNCHANGED vars \/ Quiet
         \/ \E p \in Paths, display \in BOOLEAN : handler_get_public_key(p, display)
         \/ \E type \in SigningTypes, p \in Paths, c \in Challenges : SignTxFirst(type, p, c)
         \/ \E type \in SigningTypes : SignTxRefused(type)
         \/ \E p \in Components, more \in BOOLEAN : PreparedMessage(p, more)
         \/ \E sized \in BOOLEAN, more \in BOOLEAN : HashMessage(sized, more)
         \/ \E m \in TopologyMessages, more \in BOOLEAN : TopologyMsg(m, more)
         \/ \E choice \in BOOLEAN : ReviewChoice(choice)
         \/ Restart
BY QuietSteps DEF Next

LEMMA PathsAreStrings == Paths \subseteq STRING
BY StringsAssumption DEF Paths

\* The first APDU of a flow opens it with a clean context.
LEMMA Opened ==
  ASSUME tx \in TxState, NEW type \in SigningTypes, NEW p \in Paths, NEW c \in Challenges,
         SignTxFirst(type, p, c)
  PROVE  /\ tx' \in TxState /\ tx'.clear = FALSE /\ tx'.m_hash = "none"
         /\ tx'.challenge_signature = FALSE /\ tx'.lost = tx.lost
         /\ type # "SIGN_UNTYPED_VERSIONED_MESSAGE" => tx'.pairs = "none"
         /\ type = "SIGN_UNTYPED_VERSIONED_MESSAGE" /\ p # "malformed" => tx'.signature = p
<1> DEFINE c0 == clean_context(tx)
           a == AllocatePairs(c0, "empty")
           named == [a EXCEPT !.signature = p]
           first == process_prepared_tx_init(c0)
<1>1. /\ c0 \in TxState /\ c0.clear = FALSE /\ c0.m_hash = "none" /\ c0.pairs = "none"
      /\ c0.lost = tx.lost /\ c0.challenge_signature = FALSE
  BY CleanContext
<1>2. tx' = IF p = "malformed" THEN c0
            ELSE IF type = "SIGN_UNTYPED_VERSIONED_MESSAGE" THEN named
            ELSE IF type = "SIGN_PREPARED_TRANSACTION" THEN first ELSE c0
  BY Zenon DEF SignTxFirst
<1> HIDE DEF c0
<1>3. /\ a \in TxState /\ a.clear = FALSE /\ a.m_hash = "none" /\ a.lost = tx.lost
      /\ a.challenge_signature = FALSE
  <2>1. a \in TxState
    BY <1>1, SmallSteps
  <2> QED BY <1>1, <2>1 DEF TxState, AllocatePairs
<1> HIDE DEF a
<1>4. /\ named \in TxState /\ named.clear = FALSE /\ named.m_hash = "none"
      /\ named.lost = tx.lost /\ named.challenge_signature = FALSE /\ named.signature = p
  <2>1. p \in STRING
    BY PathsAreStrings
  <2>2. named \in TxState
    BY <1>3, <2>1, ZenonT(60) DEF TxState
  <2> QED BY <1>3, <2>2 DEF TxState
<1>5. /\ first \in TxState /\ first.clear = FALSE /\ first.m_hash = "none"
      /\ first.lost = tx.lost /\ first.challenge_signature = FALSE /\ first.pairs = "none"
  BY <1>1 DEF TxState, process_prepared_tx_init
<1> HIDE DEF named, first
<1> QED BY <1>1, <1>2, <1>4, <1>5

\* The answer to a review frees the pairs.
LEMMA Answered ==
  ASSUME tx \in TxState, NEW choice \in BOOLEAN, ReviewChoice(choice)
  PROVE  /\ tx' \in TxState /\ tx'.pairs = "none" /\ tx'.lost = tx.lost
         /\ screen' = "status" /\ answered' # "no"
         /\ tx'.clear = tx.clear /\ tx'.display_failed = tx.display_failed
         /\ tx'.tx_state = tx.tx_state /\ tx'.tree = tx.tree /\ tx'.late = tx.late
<1> DEFINE c == cleanup_display_items(tx)
<1>1. /\ c \in TxState /\ c.pairs = "none" /\ c.lost = tx.lost
      /\ c.clear = tx.clear /\ c.display_failed = tx.display_failed
      /\ c.tx_state = tx.tx_state /\ c.tree = tx.tree /\ c.late = tx.late
  BY DEF TxState, cleanup_display_items
<1>2. /\ tx' \in {c, [c EXCEPT !.signature = "signature"], [c EXCEPT !.signature = "none"]}
      /\ screen' = "status" /\ answered' # "no"
  BY DEF ReviewChoice, validate_transaction
<1>3. "signature" \in STRING /\ "none" \in STRING
  BY StringsAssumption
<1> HIDE DEF c
<1> QED BY <1>1, <1>2, <1>3 DEF TxState

\* What becomes of a processed message.
LEMMA Processed ==
  ASSUME NEW result, NEW more \in BOOLEAN, AfterMessage(result, more), result.tx \in TxState
  PROVE  /\ tx' \in TxState
         /\ \/ /\ result.sw # "OK" /\ req_type' = "CONFIRM_ADDRESS" /\ screen' = screen
               /\ tx'.pairs = "none" /\ tx'.lost = result.tx.lost
            \/ /\ result.sw = "OK" /\ more /\ tx' = result.tx
               /\ UNCHANGED <<req_type, screen, answered>>
            \/ /\ result.sw = "OK" /\ ~more /\ result.tx.clear /\ tx' = result.tx
               /\ screen' = "clear" /\ UNCHANGED <<req_type, answered>>
            \/ /\ result.sw = "OK" /\ ~more /\ ~result.tx.clear /\ answered' = "blind_refused"
               /\ screen' = "blind_error" /\ tx'.clear = FALSE /\ tx'.pairs = "none" /\ tx'.lost = result.tx.lost
               /\ req_type' = req_type
            \/ /\ result.sw = "OK" /\ ~more /\ ~result.tx.clear /\ answered' = answered
               /\ screen' = "blind" /\ tx' = AllocatePairs(result.tx, "hash")
               /\ req_type' = req_type
<1> DEFINE c == cleanup_display_items(result.tx)
           h == AllocatePairs(result.tx, "hash")
<1>1. /\ c \in TxState /\ c.pairs = "none" /\ c.lost = result.tx.lost /\ h \in TxState
      /\ c.clear = result.tx.clear
  BY SmallSteps DEF cleanup_display_items, TxState
<1>2. CASE result.sw # "OK"
  BY <1>1, <1>2 DEF AfterMessage, refuse_tx
<1>3. CASE result.sw = "OK" /\ more
  BY <1>3 DEF AfterMessage
<1>4. CASE result.sw = "OK" /\ ~more
  <2>1. Present(result.tx)
    BY <1>4 DEF AfterMessage
  <2> HIDE DEF c, h
  <2>2. \/ result.tx.clear /\ tx' = result.tx /\ screen' = "clear" /\ UNCHANGED <<req_type, answered>>
        \/ /\ ~result.tx.clear /\ answered' = "blind_refused" /\ screen' = "blind_error"
           /\ tx' = c /\ req_type' = req_type
        \/ /\ ~result.tx.clear /\ answered' = answered /\ screen' = "blind"
           /\ tx' = h /\ req_type' = req_type
    BY <2>1 DEF Present, c, h
  <2> QED BY <1>1, <1>4, <2>2 DEF h
<1> QED BY <1>2, <1>3, <1>4

\* The host's own hash.
LEMMA HashProcessed ==
  ASSUME NEW t \in TxState, NEW sized \in BOOLEAN, NEW more \in BOOLEAN
  PROVE  LET r == process_transaction_hash(t, sized, more)
         IN /\ r.tx \in TxState /\ r.sw \in {"OK", "SW_BAD_STATE", "SW_WRONG_DATA_LENGTH"}
            /\ r.tx.lost = t.lost /\ (PairsFit(t) => PairsFit(r.tx))
<1> DEFINE u == [t EXCEPT !.m_hash = "final"]
<1>1. u \in TxState /\ u.lost = t.lost /\ u.pairs = t.pairs /\ u.clear = t.clear
  BY DEF TxState
<1>2. process_transaction_hash(t, sized, more) \in
        {[tx |-> t, sw |-> "SW_BAD_STATE"], [tx |-> t, sw |-> "SW_WRONG_DATA_LENGTH"],
         [tx |-> u, sw |-> "OK"]}
  BY DEF process_transaction_hash, Accept
<1> HIDE DEF u
<1> QED BY <1>1, <1>2 DEF PairsFit

\* A topology message changes pairs, hash and decision of the transaction, no more.
LEMMA TopologyShown ==
  ASSUME NEW t \in TxState, NEW o, NEW m
  PROVE  parse_topology_transaction_for_display(t, o, m).tx \in TxState
<1>1. cleanup_display_items(t) \in TxState /\ [t EXCEPT !.pairs = "details"] \in TxState
  BY DEF TxState, cleanup_display_items
<1>2. process_namespace_delegation(t, o, m).tx = t
  BY Zenon DEF process_namespace_delegation
<1>3. process_party_to_key_mapping(t, o, m).tx \in {t, cleanup_display_items(t)}
  BY Zenon DEF process_party_to_key_mapping
<1>4. process_party_to_participant(t, o, m).tx \in
        {t, cleanup_display_items(t), [t EXCEPT !.pairs = "details"]}
  BY Zenon DEF process_party_to_participant
<1>5. /\ process_namespace_delegation(t, o, m).tx \in TxState
      /\ process_party_to_key_mapping(t, o, m).tx \in TxState
      /\ process_party_to_participant(t, o, m).tx \in TxState
  BY <1>1, <1>2, <1>3, <1>4
<1> QED BY <1>5, Zenon DEF parse_topology_transaction_for_display

LEMMA TopologyProcessed ==
  ASSUME NEW t \in TxState, NEW o, NEW m, NEW finished \in BOOLEAN
  PROVE  process_untyped_versioned_msg_tx(t, o, m, finished).tx \in TxState
<1>1. ASSUME NEW u \in TxState, NEW n PROVE FinishOnboarding(u, n).tx \in TxState
  <2> DEFINE hashed == [u EXCEPT !.m_hash = "final", !.challenge_signature = @ \/ n.challenge]
             on == [hashed EXCEPT !.clear = TRUE]
  <2>1. FinishOnboarding(u, n).tx \in {hashed, on}
    BY Zenon DEF FinishOnboarding
  <2>2. (u.challenge_signature \/ n.challenge) \in BOOLEAN
    OBVIOUS
  <2>3. hashed \in TxState
    BY <2>2, ZenonT(60) DEF TxState
  <2> HIDE DEF hashed
  <2>4. on \in TxState
    BY <2>3, ZenonT(60) DEF TxState
  <2> QED BY <2>1, <2>3, <2>4
<1> QED BY <1>1, TopologyShown, Zenon DEF process_untyped_versioned_msg_tx
-----------------------------------------------------------------------------
(***************************************************************************)
(* The state of a transaction keeps its type.                              *)
(***************************************************************************)
TxType == tx \in TxState

LEMMA MessageResults ==
  ASSUME tx \in TxState
  PROVE  /\ \A p \in Components, more \in BOOLEAN :
              process_prepared_tx_part(tx, p, ~more).tx \in TxState
         /\ \A sized, more \in BOOLEAN : process_transaction_hash(tx, sized, more).tx \in TxState
         /\ \A m \in TopologyMessages, more \in BOOLEAN :
              process_untyped_versioned_msg_tx(tx, ob, m, ~more).tx \in TxState
<1>1. ASSUME NEW p \in Components, NEW more \in BOOLEAN
      PROVE  process_prepared_tx_part(tx, p, ~more).tx \in TxState
  <2>1. p \in Component /\ (~more) \in BOOLEAN
    BY ComponentsAssumption
  <2> QED BY <2>1, PreparedPart DEF PartStep
<1>2. ASSUME NEW sized \in BOOLEAN, NEW more \in BOOLEAN
      PROVE  process_transaction_hash(tx, sized, more).tx \in TxState
  BY HashProcessed
<1>3. ASSUME NEW m \in TopologyMessages, NEW more \in BOOLEAN
      PROVE  process_untyped_versioned_msg_tx(tx, ob, m, ~more).tx \in TxState
  BY TopologyProcessed
<1> QED BY <1>1, <1>2, <1>3

LEMMA TxTypeInductive == SessionInv /\ TxType /\ [Next]_vars => TxType'
<1> SUFFICES ASSUME SessionInv, tx \in TxState, [Next]_vars
             PROVE  tx' \in TxState
  BY DEF TxType
<1>1. CASE UNCHANGED vars \/ Quiet \/ \E type \in SigningTypes : SignTxRefused(type)
  BY <1>1 DEF vars, Quiet, SignTxRefused
<1>2. CASE \E p \in Paths, display \in BOOLEAN : handler_get_public_key(p, display)
  BY <1>2, CleanContext DEF handler_get_public_key
<1>3. CASE \E type \in SigningTypes, p \in Paths, c \in Challenges : SignTxFirst(type, p, c)
  BY <1>3, Opened
<1>4. CASE \E p \in Components, more \in BOOLEAN : PreparedMessage(p, more)
  BY <1>4, Processed, MessageResults DEF PreparedMessage
<1>5. CASE \E sized \in BOOLEAN, more \in BOOLEAN : HashMessage(sized, more)
  BY <1>5, Processed, MessageResults DEF HashMessage
<1>6. CASE \E m \in TopologyMessages, more \in BOOLEAN : TopologyMsg(m, more)
  BY <1>6, Processed, MessageResults DEF TopologyMsg
<1>7. CASE \E choice \in BOOLEAN : ReviewChoice(choice)
  BY <1>7, Answered
<1>8. CASE Restart
  BY <1>8, BootType DEF Restart
<1> QED BY <1>1, <1>2, <1>3, <1>4, <1>5, <1>6, <1>7, <1>8, NextCases
-----------------------------------------------------------------------------
(***************************************************************************)
(* Clear signing of a prepared transaction                                 *)
(***************************************************************************)
OpenPrepared ==
  signing_type = "SIGN_PREPARED_TRANSACTION" /\ req_type = "CONFIRM_TRANSACTION"

\* In an open flow what would be shown rests on the verdicts so far, and it is there unless
\* the flow has been answered.
PreparedInv ==
  /\ OpenPrepared => Rendered(tx) /\ Judged(tx) /\ (answered = "no" => ShownFits(tx))
  /\ ClearMeansChecked

LEMMA PreparedInductive == SessionInv /\ TxType /\ PreparedInv /\ [Next]_vars => PreparedInv'
<1> SUFFICES ASSUME SessionInv, TxType, PreparedInv, [Next]_vars
             PROVE  PreparedInv'
  OBVIOUS
<1> USE DEF TxType
<1>1. CASE UNCHANGED vars
  BY <1>1 DEF vars, PreparedInv, OpenPrepared, ClearMeansChecked, Rendered, Judged, ShownFits
<1>2. CASE Quiet
  BY <1>2 DEF Quiet, PreparedInv, OpenPrepared, ClearMeansChecked, Reviews, Rendered, Judged, ShownFits
<1>3. CASE \E p \in Paths, display \in BOOLEAN : handler_get_public_key(p, display)
  <2>1. req_type' = "CONFIRM_ADDRESS" /\ screen' \notin Reviews
    BY <1>3, Idle DEF handler_get_public_key, AnswerPublicKey, Reviews
  <2> QED BY <2>1 DEF PreparedInv, OpenPrepared, ClearMeansChecked, Reviews
<1>4. CASE \E type \in SigningTypes, p \in Paths, c \in Challenges : SignTxFirst(type, p, c)
  <2>1. tx'.m_hash = "none" /\ tx'.clear = FALSE
    BY <1>4, Opened
  <2> QED BY <2>1 DEF PreparedInv, ClearMeansChecked, Rendered, Judged, ShownFits
<1>5. CASE \E type \in SigningTypes : SignTxRefused(type)
  <2>1. req_type' = "CONFIRM_ADDRESS" /\ screen' = screen /\ screen \notin Reviews
    BY <1>5, Idle DEF SignTxRefused, refuse_tx
  <2> QED BY <2>1 DEF PreparedInv, OpenPrepared, ClearMeansChecked, Reviews
<1>6. ASSUME NEW p \in Components, NEW more \in BOOLEAN, PreparedMessage(p, more)
      PROVE  PreparedInv'
  <2> DEFINE r == process_prepared_tx_part(tx, p, ~more)
  <2>1. /\ AfterMessage(r, more) /\ signing_type' = signing_type
        /\ signing_type = "SIGN_PREPARED_TRANSACTION" /\ req_type = "CONFIRM_TRANSACTION"
        /\ screen \notin Reviews
    BY <1>6, Idle DEF PreparedMessage, MessageEnds, SignTxContinues
  <2>2. p \in Component /\ (~more) \in BOOLEAN
    BY ComponentsAssumption
  <2>3. PartStep(tx, r) /\ (r.sw = "OK" /\ Judged(tx) => Final(r.tx, ~more))
    BY <2>2, PreparedPart
  <2>4. Rendered(tx) /\ Judged(tx) /\ (answered = "no" => ShownFits(tx))
    BY <2>1 DEF PreparedInv, OpenPrepared
  <2> HIDE DEF r
  <2>5. /\ r.tx \in TxState
        /\ r.sw = "OK" => /\ Rendered(r.tx) /\ Judged(r.tx) /\ Final(r.tx, ~more)
                          /\ answered = "no" => ShownFits(r.tx)
    BY <2>3, <2>4 DEF PartStep
  <2>6. CASE req_type' = "CONFIRM_ADDRESS" /\ screen' = screen
    BY <2>1, <2>6 DEF PreparedInv, OpenPrepared, ClearMeansChecked, Reviews
  <2>7. CASE /\ r.sw = "OK" /\ more /\ tx' = r.tx
             /\ UNCHANGED <<req_type, screen, answered>>
    BY <2>1, <2>5, <2>7 DEF PreparedInv, ClearMeansChecked, Reviews, Rendered, Judged, ShownFits
  <2>8. CASE /\ r.sw = "OK" /\ ~more /\ r.tx.clear /\ tx' = r.tx
             /\ screen' = "clear" /\ UNCHANGED <<req_type, answered>>
    <3>1. Rendered(tx)' /\ Judged(tx)' /\ (answered' = "no" => ShownFits(tx)')
      BY <2>5, <2>8 DEF Rendered, Judged, ShownFits
    <3>2. ClearMeansChecked'
      BY <2>5, <2>8 DEF ClearMeansChecked, Final, Rendered, ShownFits, values_can_clear_sign
    <3> QED BY <3>1, <3>2 DEF PreparedInv
  <2>9. CASE ~tx'.clear /\ screen' # "clear"
    BY <2>9 DEF PreparedInv, ClearMeansChecked, Rendered, Judged, ShownFits
  <2>10. /\ ~r.tx.clear => /\ ~AllocatePairs(r.tx, "hash").clear
                           /\ ~cleanup_display_items(r.tx).clear
    BY <2>5 DEF AllocatePairs, cleanup_display_items, TxState
  <2> QED BY <2>1, <2>5, <2>6, <2>7, <2>8, <2>9, <2>10, Processed
<1>7. CASE \/ \E sized \in BOOLEAN, more \in BOOLEAN : HashMessage(sized, more)
           \/ \E m \in TopologyMessages, more \in BOOLEAN : TopologyMsg(m, more)
  <2>1. signing_type' # "SIGN_PREPARED_TRANSACTION"
    BY <1>7 DEF HashMessage, TopologyMsg, MessageEnds, SignTxContinues
  <2> QED BY <2>1 DEF PreparedInv, OpenPrepared, ClearMeansChecked
<1>8. CASE \E choice \in BOOLEAN : ReviewChoice(choice)
  <2>1. /\ tx'.clear = tx.clear /\ tx'.display_failed = tx.display_failed
        /\ tx'.tx_state = tx.tx_state /\ tx'.tree = tx.tree /\ tx'.late = tx.late
        /\ screen' = "status" /\ answered' # "no"
        /\ UNCHANGED <<signing_type, req_type>>
    BY <1>8, Answered DEF ReviewChoice
  <2> QED BY <2>1 DEF PreparedInv, OpenPrepared, ClearMeansChecked, Rendered, Judged
<1>9. CASE Restart
  BY <1>9 DEF Restart, PreparedInv, OpenPrepared, ClearMeansChecked
<1> QED BY <1>1, <1>2, <1>3, <1>4, <1>5, <1>6, <1>7, <1>8, <1>9, NextCases

\* A clear review that comes of the completion of a prepared transaction follows its checks
\* (process_prepared_tx_finalize, apply_node_tree_verdict), the first time and after the flow
\* has been answered, whatever components the host sends, in whatever order and number.
\* A clear review of a transaction that was not just completed is not covered: the code
\* gives it without the checks (DetailsAfterVerdicts is violated).
THEOREM ClearFollowsChecks == Spec => []ClearMeansChecked
<1>1. Init => TxType /\ PreparedInv
  BY BootType DEF Init, TxType, PreparedInv, OpenPrepared, ClearMeansChecked
<1>2. PreparedInv => ClearMeansChecked
  BY DEF PreparedInv
<1> QED BY <1>1, <1>2, SessionInvariance, TxTypeInductive, PreparedInductive, PTL DEF Spec
-----------------------------------------------------------------------------
(***************************************************************************)
(* The pairs of the review screens                                         *)
(***************************************************************************)
\* Pairs come with the decision to show them, except those of a blind review.
PairsInv ==
  /\ signing_type # "SIGN_UNTYPED_VERSIONED_MESSAGE"
  /\ ~tx.lost
  /\ PairsFit(tx) \/ (tx.pairs = "hash" /\ screen = "blind")

LEMMA PairsInductive ==
  ASSUME "SIGN_UNTYPED_VERSIONED_MESSAGE" \notin SigningTypes
  PROVE  SessionInv /\ TxType /\ PairsInv /\ [Next]_vars => PairsInv'
<1> SUFFICES ASSUME SessionInv, TxType, PairsInv, [Next]_vars
             PROVE  PairsInv'
  OBVIOUS
<1> USE DEF TxType
<1>0. ASSUME io_recv_command PROVE PairsFit(tx)
  BY <1>0, Idle DEF PairsInv, Reviews
<1>1. CASE UNCHANGED vars
  BY <1>1 DEF vars, PairsInv, PairsFit
<1>2. CASE Quiet
  BY <1>2 DEF Quiet, PairsInv, PairsFit, Reviews
<1>3. CASE \E p \in Paths, display \in BOOLEAN : handler_get_public_key(p, display)
  BY <1>3, CleanContext DEF handler_get_public_key, PairsInv, PairsFit
<1>4. CASE \E type \in SigningTypes, p \in Paths, c \in Challenges : SignTxFirst(type, p, c)
  <2>1. PICK type \in SigningTypes, p \in Paths, c \in Challenges : SignTxFirst(type, p, c)
    BY <1>4
  <2>2. signing_type' \in {type, "SIGN_HASH"}
    BY <2>1 DEF SignTxFirst
  <2>3. tx'.lost = tx.lost /\ tx'.pairs = "none"
    BY <2>1, Opened
  <2> QED BY <2>2, <2>3 DEF PairsInv, PairsFit
<1>5. CASE \E type \in SigningTypes : SignTxRefused(type)
  BY <1>5 DEF SignTxRefused, PairsInv, PairsFit
<1>6. ASSUME NEW r, NEW more \in BOOLEAN, AfterMessage(r, more), r.tx \in TxState,
             io_recv_command, signing_type' = signing_type,
             r.tx.lost = tx.lost, r.sw = "OK" => PairsFit(r.tx)
      PROVE  PairsInv'
  <2>1. ~r.tx.clear /\ PairsFit(r.tx) => /\ AllocatePairs(r.tx, "hash").lost = r.tx.lost
                                        /\ AllocatePairs(r.tx, "hash").pairs = "hash"
    BY <1>6 DEF PairsFit, AllocatePairs, TxState
  <2> QED BY <1>6, <2>1, Processed DEF PairsInv, PairsFit
<1>7. CASE \E p \in Components, more \in BOOLEAN : PreparedMessage(p, more)
  <2>1. PICK p \in Components, more \in BOOLEAN : PreparedMessage(p, more)
    BY <1>7
  <2>2. p \in Component /\ (~more) \in BOOLEAN
    BY ComponentsAssumption
  <2>3. io_recv_command /\ signing_type' = signing_type
    BY <2>1 DEF PreparedMessage, MessageEnds, SignTxContinues
  <2>4. PartStep(tx, process_prepared_tx_part(tx, p, ~more))
    BY <2>2, PreparedPart
  <2> QED BY <1>0, <1>6, <2>1, <2>3, <2>4 DEF PartStep, PreparedMessage
<1>8. CASE \E sized \in BOOLEAN, more \in BOOLEAN : HashMessage(sized, more)
  <2>1. PICK sized \in BOOLEAN, more \in BOOLEAN : HashMessage(sized, more)
    BY <1>8
  <2>2. io_recv_command /\ signing_type' = signing_type
    BY <2>1 DEF HashMessage, MessageEnds, SignTxContinues
  <2> QED BY <1>0, <1>6, <2>1, <2>2, HashProcessed DEF HashMessage
<1>9. CASE \E m \in TopologyMessages, more \in BOOLEAN : TopologyMsg(m, more)
  BY <1>9 DEF TopologyMsg, MessageEnds, SignTxContinues, PairsInv
<1>10. CASE \E choice \in BOOLEAN : ReviewChoice(choice)
  BY <1>10, Answered DEF ReviewChoice, PairsInv, PairsFit
<1>11. CASE Restart
  BY <1>11 DEF Restart, BootTx, PairsInv, PairsFit
<1> QED BY <1>1, <1>2, <1>3, <1>4, <1>5, <1>7, <1>8, <1>9, <1>10, <1>11, NextCases

\* Outside an onboarding no array of pairs is overwritten while it is allocated
\* (cleanup_display_items before every error and after every review), whatever order
\* the flows are cut short, restarted and continued in.
THEOREM PairsAreFreed ==
  ASSUME "SIGN_UNTYPED_VERSIONED_MESSAGE" \notin SigningTypes
  PROVE  Spec => []NoPairsLost
<1>1. Init => TxType /\ PairsInv
  BY BootType DEF Init, BootTx, TxType, PairsInv, PairsFit
<1>2. PairsInv => NoPairsLost
  BY DEF PairsInv, NoPairsLost
<1> QED BY <1>1, <1>2, SessionInvariance, TxTypeInductive, PairsInductive, PTL DEF Spec
=============================================================================
