----------------------------- MODULE NodeValues -----------------------------
(***************************************************************************)
(* The values check of a prepared transaction, with the parts of the       *)
(* parsers that feed it.                                                   *)
(*                                                                         *)
(* Every create of a holding template is recorded as a holding (owner,     *)
(* amount, issuer and, for some templates, instrument), every contract a   *)
(* node acts on is listed, and the first node whose action the display     *)
(* configuration knows chooses the screen.  Accept, reject and withdraw    *)
(* leave the screen to the input contract they exercise.  Once all parts   *)
(* have arrived the recorded holdings are compared with the screen.        *)
(*                                                                         *)
(* A part is abstracted to the names and values those steps compare:       *)
(*   kind      the node; an input contract is a create                     *)
(*   contract  its contract id                                             *)
(*   template  its template; choice, for an exercise, the choice           *)
(*   record    the name of the record that may choose a screen, one in an  *)
(*             argument                                                    *)
(*   holding   the values at the configured paths, fields says whether the *)
(*             holding parser locates each exactly once                    *)
(*   screen    the displayed values, renders says that all are shown       *)
(* Nodes are those of a tree without errors (see NodeTree); a part that is *)
(* refused ends the transaction, which NewTransaction covers.              *)
(***************************************************************************)
EXTENDS Integers, Sequences, FiniteSets

CONSTANTS
  Accounts, Amounts, Admins, Instruments, Contracts,
  MAX_HOLDINGS,         \* holdings the store has room for
  MAX_USED_CONTRACTS,   \* contracts the list has room for
  NodeParts,            \* the nodes the host may send
  ContractParts,        \* the input contracts the host may send
  MaxNodes,             \* bound: nodes in a transaction
  MaxContracts          \* bound: input contracts in a transaction

\* Templates a holding is read from, and those that name an instrument.
HOLDING_TEMPLATES == {"amulet", "holding", "offer"}
NamesInstrument == {"holding", "offer"}
NON_HOLDING_TEMPLATES == {"reward", "preapproval"}

(***************************************************************************)
(* The display configurations: the templates the node may act on, the      *)
(* fields shown, whether the screen is left to an input contract, where    *)
(* the value goes and whether the amount is comparable.  The versions of a *)
(* choice are alike.                                                       *)
(***************************************************************************)
TokenFields == {"sender", "amount", "receiver", "instrument", "admin"}

Config(templates, fields, deferred, destination, comparable) ==
  [node_identifiers |-> templates, fields |-> fields, deferred |-> deferred,
   destination |-> destination, comparable |-> comparable]

Actions == {"transfer", "native", "preapproval", "accept", "reject", "withdraw"}

DISPLAY_CONFIGS ==
  [transfer    |-> Config({"amulet_rules", "factory"}, TokenFields, FALSE, "RECEIVER", TRUE),
   native      |-> Config({"amulet_rules"}, {"sender", "amount", "receiver"},
                          FALSE, "RECEIVER", TRUE),
   preapproval |-> Config({}, {"receiver"}, FALSE, "NONE", FALSE),
   accept      |-> Config({"offer"}, TokenFields, TRUE, "RECEIVER", TRUE),
   reject      |-> Config({"offer"}, TokenFields, TRUE, "SENDER", FALSE),
   withdraw    |-> Config({"offer"}, TokenFields \ {"receiver"}, TRUE, "SENDER", FALSE)]

\* An unlisted template may carry any name, that of a choice included.
Templates ==
  HOLDING_TEMPLATES \cup NON_HOLDING_TEMPLATES \cup {"amulet_rules", "factory", "other"} \cup Actions

Holding ==
  [owner : Accounts, amount : Amounts, admin : Admins, instrument : Instruments]
Screen ==
  [sender : Accounts, receiver : Accounts, amount : Amounts, admin : Admins,
   instrument : Instruments]
Part ==
  [kind : {"create", "exercise", "fetch", "rollback"}, contract : Contracts,
   template : Templates, choice : Actions \cup {"none", "other"}, record : Templates,
   holding : Holding, fields : {"located", "unlocated", "unparsed"},
   screen : Screen, renders : BOOLEAN]

ASSUME LimitsAssumption == MAX_HOLDINGS \in Nat /\ MAX_USED_CONTRACTS \in Nat
ASSUME BoundsAssumption == MaxNodes \in Nat /\ MaxContracts \in Nat
ASSUME PartsAssumption ==
  /\ NodeParts \subseteq Part
  /\ ContractParts \subseteq {p \in Part : p.kind = "create"}
ASSUME NotShownAssumption ==
  "none" \notin Accounts \cup Amounts \cup Admins \cup Instruments \cup Contracts

VARIABLES
  store,           \* the store of the values check
  clear,           \* tx_info.clear_signing_available
  display_failed,  \* tx_info.display_failed
  deferred,        \* the action whose screen waits, and the contract it exercises
  phase,           \* receiving nodes or input contracts, or finalized
  received,        \* parts received in this phase
  verdict,         \* what finalization decided
  written,         \* history: the holdings the nodes write
  opaque,          \* history: a create whose holdings nobody can tell was seen
  performed,       \* history: the known actions of the nodes
  acted,           \* history: the contracts the nodes act on
  disclosed,       \* history: the input contracts
  shown,           \* history: the action on the screen, its values and their contract
  starved          \* history: the contract list could not be allocated

vars == <<store, clear, display_failed, deferred, phase, received, verdict, written, opaque,
          performed, acted, disclosed, shown, starved>>
nodes == <<written, opaque, performed, acted>>
history == <<nodes, disclosed, shown, starved>>
-----------------------------------------------------------------------------
(***************************************************************************)
(* node_values_check.c.  "none" stands for a has_ flag that is false.      *)
(***************************************************************************)
Unbound ==
  [destination |-> "none", sender |-> "none", amount |-> "none", admin |-> "none",
   instrument |-> "none", bound_destination |-> "none"]

values_check_reset ==
  [ok |-> TRUE, holdings |-> <<>>, holdings_instrument |-> "none", used |-> {}, bound |-> Unbound]

give_up(s) == [s EXCEPT !.ok = FALSE]

values_release_used_contracts(s) == [s EXCEPT !.used = {}]

\* memory: the list can be allocated, which the first contract asks for.
values_record_used_contract(s, contract, memory) ==
  CASE ~s.ok -> s
    [] s.ok /\ s.used = {} /\ ~memory -> give_up(s)
    [] s.ok /\ contract \in s.used -> s
    [] s.ok /\ contract \notin s.used /\ (s.used # {} \/ memory) ->
         IF Cardinality(s.used) >= MAX_USED_CONTRACTS THEN give_up(s)
         ELSE [s EXCEPT !.used = @ \cup {contract}]

values_check_disclosed_contract(s, contract) ==
  IF s.ok /\ contract \notin s.used THEN give_up(s) ELSE s

\* Mutant: a holding that repeats one already recorded is collapsed.
values_report_holding_once(s, h) ==
  IF h \in {s.holdings[k] : k \in DOMAIN s.holdings} THEN s
  ELSE IF Len(s.holdings) >= MAX_HOLDINGS THEN give_up(s)
  ELSE [s EXCEPT !.holdings = Append(@, h), !.holdings_instrument = h.instrument]

\* Mutant: the room is not tested before the holding is written.
values_report_holding_unbounded(s, h) ==
  IF Len(s.holdings) > MAX_HOLDINGS THEN give_up(s)
  ELSE [s EXCEPT !.holdings = Append(@, h), !.holdings_instrument = h.instrument]

\* Every holding is recorded, repeats too; one that names another instrument than the
\* holdings before it is given up on.
values_report_holding(s, h) ==
  LET recorded == [s EXCEPT !.holdings = Append(@, h)]
  IN IF Len(s.holdings) >= MAX_HOLDINGS THEN give_up(s)
     ELSE IF h.instrument = "none" THEN recorded
     ELSE IF s.holdings_instrument = "none"
     THEN [recorded EXCEPT !.holdings_instrument = h.instrument]
     ELSE IF s.holdings_instrument # h.instrument THEN give_up(recorded)
     ELSE recorded

\* What the check keeps of a screen.
BoundValues(action, screen) ==
  LET c == DISPLAY_CONFIGS[action]
      Shown(f, v) == IF f \in c.fields THEN v ELSE "none"
  IN [destination |-> IF c.destination = "SENDER" THEN Shown("sender", screen.sender)
                      ELSE IF c.destination = "RECEIVER" THEN Shown("receiver", screen.receiver)
                      ELSE "none",
      sender |-> Shown("sender", screen.sender),
      amount |-> IF c.comparable THEN Shown("amount", screen.amount) ELSE "none",
      admin |-> Shown("admin", screen.admin),
      instrument |-> Shown("instrument", screen.instrument),
      bound_destination |-> c.destination]

\* A screen replaces what an earlier one left.
values_bind_from_display(s, action, screen) ==
  [s EXCEPT !.bound = BoundValues(action, screen)]

is_transfer_to_self(s) ==
  /\ s.bound.bound_destination = "RECEIVER"
  /\ s.bound.sender # "none" /\ s.bound.sender = s.bound.destination

\* Mutant: a second holding of the destination is let through.
destination_holds_any(s) ==
  LET owned == {k \in DOMAIN s.holdings : s.holdings[k].owner = s.bound.destination}
  IN /\ \A k \in DOMAIN s.holdings \ owned : s.holdings[k].owner = s.bound.sender
     /\ owned # {}
     /\ s.bound.amount = "none" \/ \E k \in owned : s.holdings[k].amount = s.bound.amount

destination_holds_value(s) ==
  LET owned == {k \in DOMAIN s.holdings : s.holdings[k].owner = s.bound.destination}
  IN /\ \A k \in DOMAIN s.holdings \ owned :
          s.bound.sender # "none" /\ s.holdings[k].owner = s.bound.sender
     /\ Cardinality(owned) # 0
     /\ Cardinality(owned) > 1 => is_transfer_to_self(s) /\ Cardinality(owned) <= 2
     /\ \E k \in owned : s.bound.amount = "none" \/ s.holdings[k].amount = s.bound.amount

holdings_match_displayed_instrument(s) ==
  \A k \in DOMAIN s.holdings : s.holdings[k].admin = s.bound.admin

holdings_match_displayed_id(s) ==
  s.holdings_instrument # "none" =>
    s.bound.instrument # "none" /\ s.holdings_instrument = s.bound.instrument

\* Mutant: a holding that names no instrument is refused too.
values_can_clear_sign_named(s) ==
  /\ s.ok
  /\ s.bound.bound_destination # "none"
  /\ IF s.bound.bound_destination = "NONE" THEN s.holdings = <<>>
     ELSE /\ s.bound.destination # "none"
          /\ destination_holds_value(s)
          /\ s.bound.admin # "none" => holdings_match_displayed_instrument(s)
          /\ s.holdings_instrument = s.bound.instrument

values_can_clear_sign(s) ==
  /\ s.ok
  /\ s.bound.bound_destination # "none"
  /\ IF s.bound.bound_destination = "NONE" THEN s.holdings = <<>>
     ELSE /\ s.bound.destination # "none"
          /\ destination_holds_value(s)
          /\ s.bound.admin # "none" => holdings_match_displayed_instrument(s)
          /\ holdings_match_displayed_id(s)
-----------------------------------------------------------------------------
(***************************************************************************)
(* pb_holding_parser.c                                                     *)
(***************************************************************************)
\* A holding as it is reported: without an instrument when its template names none.
Written(p) ==
  [p.holding EXCEPT !.instrument = IF p.template \in NamesInstrument THEN @ ELSE "none"]

\* A create is recorded as a holding, known to hold nothing, or given up on.
DecodeCreate(s, p) ==
  IF p.fields = "unparsed" THEN give_up(s)
  ELSE IF p.template \in NON_HOLDING_TEMPLATES THEN s
  ELSE IF p.template \in HOLDING_TEMPLATES /\ p.fields = "located"
  THEN values_report_holding(s, Written(p))
  ELSE give_up(s)

values_collect_from_node(s, p) ==
  IF s.ok /\ p.kind = "create" THEN DecodeCreate(s, p) ELSE s
-----------------------------------------------------------------------------
(***************************************************************************)
(* pb_node_display_parser.c                                                *)
(***************************************************************************)
NotDeferred == [action |-> "none", contract |-> "none"]
NothingShown == [action |-> "none", contract |-> "none"]

\* A create's record is its own template.  An exercise acts on one of the templates of
\* the configuration, and its record names the choice.
config_matches_node_action(p, action) ==
  IF p.kind = "create" THEN p.template = action
  ELSE /\ p.kind = "exercise"
       /\ p.template \in DISPLAY_CONFIGS[action].node_identifiers
       /\ p.choice = action

\* The action whose screen this part chooses, or "none".
MatchedAction(p) ==
  IF p.record \in Actions /\ config_matches_node_action(p, p.record) THEN p.record ELSE "none"

\* Mutant: the exercised contract is not compared.
IsAwaitedContract_any(p, waiting) ==
  waiting.action # "none" /\ p.record = "offer" /\ p.template = "offer"

\* The input contract that the deferred action exercises.
IsAwaitedContract(p, waiting) ==
  /\ waiting.action # "none"
  /\ p.record = "offer" /\ p.template = "offer"
  /\ p.contract = waiting.contract

\* The action to show now, and the action left waiting.
find_tx_type_and_config(p, waiting) ==
  LET action == MatchedAction(p)
  IN IF IsAwaitedContract(p, waiting) THEN [show |-> waiting.action, waiting |-> waiting]
     ELSE IF action = "none" THEN [show |-> "none", waiting |-> waiting]
     ELSE IF DISPLAY_CONFIGS[action].deferred
     THEN [show |-> "none", waiting |-> [action |-> action, contract |-> p.contract]]
     ELSE [show |-> action, waiting |-> waiting]

\* The screen is bound, then shown or given up; without one the action keeps waiting.
process_display_parsing(s, p, waiting) ==
  LET found == find_tx_type_and_config(p, waiting)
  IN IF found.show = "none"
     THEN /\ store' = s
          /\ clear' = FALSE /\ display_failed' = display_failed
          /\ deferred' = found.waiting
          /\ shown' = shown
     ELSE /\ store' = values_bind_from_display(s, found.show, p.screen)
          /\ clear' = p.renders /\ display_failed' = ~p.renders
          /\ deferred' = NotDeferred
          /\ shown' = [action |-> found.show, contract |-> p.contract, screen |-> p.screen]

\* No screen is looked for.
NoDisplayParsing(s) ==
  store' = s /\ UNCHANGED <<clear, display_failed, deferred, shown>>
-----------------------------------------------------------------------------
(***************************************************************************)
(* prepared_transaction.c                                                  *)
(***************************************************************************)
Init ==
  /\ store = values_check_reset
  /\ clear = FALSE /\ display_failed = FALSE /\ deferred = NotDeferred
  /\ phase = "nodes" /\ received = 0 /\ verdict = "none"
  /\ written = <<>> /\ opaque = FALSE /\ performed = {} /\ acted = {}
  /\ disclosed = {} /\ shown = NothingShown /\ starved = FALSE

\* A first APDU, whatever became of the last transaction.
NewTransaction ==
  /\ store' = values_check_reset
  /\ clear' = FALSE /\ display_failed' = FALSE /\ deferred' = NotDeferred
  /\ phase' = "nodes" /\ received' = 0 /\ verdict' = "none"
  /\ written' = <<>> /\ opaque' = FALSE /\ performed' = {} /\ acted' = {}
  /\ disclosed' = {} /\ shown' = NothingShown /\ starved' = FALSE

\* History: what a node does, told without the limits of the store.
WritesHolding(p) ==
  p.kind = "create" /\ p.fields = "located" /\ p.template \in HOLDING_TEMPLATES

\* A create that is neither a located holding nor known to hold nothing.
Opaque(p) ==
  /\ p.kind = "create" /\ ~WritesHolding(p)
  /\ ~(p.fields # "unparsed" /\ p.template \in NON_HOLDING_TEMPLATES)

Observe(p) ==
  /\ written' = IF WritesHolding(p) THEN Append(written, Written(p)) ELSE written
  /\ opaque' = (opaque \/ Opaque(p))
  /\ performed' = IF MatchedAction(p) = "none" THEN performed
                  ELSE performed \cup {[action |-> MatchedAction(p), contract |-> p.contract]}
  /\ acted' = IF p.kind = "rollback" THEN acted ELSE acted \cup {p.contract}

\* A node: the hashing parser lists its contract, its values are collected, and it is
\* parsed for display until a screen is chosen or given up.
DamlNode(p, memory) ==
  LET listed == IF p.kind = "rollback" THEN store
                ELSE values_record_used_contract(store, p.contract, memory)
      collected == values_collect_from_node(listed, p)
  IN /\ phase = "nodes" /\ received < MaxNodes
     /\ memory \/ (store.ok /\ store.used = {} /\ p.kind # "rollback")
     /\ received' = received + 1
     /\ IF clear \/ display_failed \/ deferred # NotDeferred THEN NoDisplayParsing(collected)
        ELSE process_display_parsing(collected, p, NotDeferred)
     /\ Observe(p)
     /\ starved' = (starved \/ ~memory)
     /\ UNCHANGED <<phase, verdict, disclosed>>

Metadata ==
  /\ phase = "nodes"
  /\ phase' = "contracts" /\ received' = 0
  /\ UNCHANGED <<store, clear, display_failed, deferred, verdict, history>>

InputContract(p) ==
  LET checked == values_check_disclosed_contract(store, p.contract)
  IN /\ phase = "contracts" /\ received < MaxContracts
     /\ received' = received + 1
     /\ IF clear \/ display_failed \/ deferred = NotDeferred THEN NoDisplayParsing(checked)
        ELSE process_display_parsing(checked, p, deferred)
     /\ disclosed' = disclosed \cup {p.contract}
     /\ UNCHANGED <<phase, verdict, nodes, starved>>

process_prepared_tx_finalize ==
  LET agrees == values_can_clear_sign(store)
  IN /\ phase = "contracts"
     /\ phase' = "done" /\ received' = 0
     /\ verdict' = IF clear /\ agrees THEN "clear" ELSE "blind"
     /\ clear' = (clear /\ agrees)
     /\ store' = values_release_used_contracts(IF clear /\ ~agrees THEN give_up(store) ELSE store)
     /\ deferred' = NotDeferred
     /\ UNCHANGED <<display_failed, history>>

Next ==
  \/ NewTransaction
  \/ \E p \in NodeParts, memory \in BOOLEAN : DamlNode(p, memory)
  \/ Metadata
  \/ \E p \in ContractParts : InputContract(p)
  \/ process_prepared_tx_finalize

Spec == Init /\ [][Next]_vars
-----------------------------------------------------------------------------
(***************************************************************************)
(* Properties                                                              *)
(***************************************************************************)
OrNone(S) == S \cup {"none"}
ReportedHolding ==
  [owner : Accounts, amount : Amounts, admin : Admins, instrument : OrNone(Instruments)]
BoundScreen ==
  [destination : OrNone(Accounts), sender : OrNone(Accounts), amount : OrNone(Amounts),
   admin : OrNone(Admins), instrument : OrNone(Instruments),
   bound_destination : {"none", "NONE", "SENDER", "RECEIVER"}]
ShownScreen == [action : Actions, contract : Contracts, screen : Screen] \cup {NothingShown}

Store ==
  [ok : BOOLEAN, holdings : Seq(ReportedHolding), holdings_instrument : OrNone(Instruments),
   used : SUBSET Contracts, bound : BoundScreen]
WithinLimits(s) ==
  /\ Len(s.holdings) <= MAX_HOLDINGS
  /\ IsFiniteSet(s.used) /\ Cardinality(s.used) <= MAX_USED_CONTRACTS

\* The store keeps its types and its two limits, MAX_HOLDINGS and MAX_USED_CONTRACTS.
TypeOK ==
  /\ store \in Store /\ WithinLimits(store)
  /\ clear \in BOOLEAN /\ display_failed \in BOOLEAN
  /\ deferred \in [action : OrNone(Actions), contract : OrNone(Contracts)]
  /\ phase \in {"nodes", "contracts", "done"} /\ received \in Nat
  /\ verdict \in {"none", "clear", "blind"}
  /\ written \in Seq(ReportedHolding) /\ opaque \in BOOLEAN
  /\ performed \subseteq [action : Actions, contract : Contracts]
  /\ acted \subseteq Contracts /\ disclosed \subseteq Contracts
  /\ shown \in ShownScreen
  /\ starved \in BOOLEAN

\* What the review promises about the values, over everything the nodes wrote and not
\* over what the store kept.
Agreement ==
  LET config == DISPLAY_CONFIGS[shown.action]
      screen == shown.screen
      destination == IF config.destination = "SENDER" THEN screen.sender ELSE screen.receiver
      paid == {k \in DOMAIN written : written[k].owner = destination}
      to_self == config.destination = "RECEIVER" /\ screen.sender = screen.receiver
  IN /\ ~opaque
     /\ disclosed \subseteq acted
     /\ config.destination = "NONE" => written = <<>>
     /\ config.destination # "NONE" =>
          /\ \A k \in DOMAIN written : written[k].owner \in {destination, screen.sender}
          /\ Cardinality(paid) = 1 \/ (to_self /\ Cardinality(paid) = 2)
          /\ config.comparable => \E k \in paid : written[k].amount = screen.amount
          /\ "admin" \in config.fields =>
               \A k \in DOMAIN written : written[k].admin = screen.admin
          /\ \A k \in DOMAIN written : written[k].instrument # "none" =>
               "instrument" \in config.fields /\ written[k].instrument = screen.instrument

(***************************************************************************)
(* The inductive invariant behind the soundness of the check: while it has *)
(* not given up, the store tells everything the nodes did.                 *)
(***************************************************************************)
StoreIsHistory ==
  store.ok =>
    /\ store.holdings = written
    /\ ~opaque
    /\ phase # "done" => store.used = acted
    /\ disclosed \subseteq acted
    /\ \A k \in DOMAIN written :
         written[k].instrument # "none" => written[k].instrument = store.holdings_instrument

\* While details may be shown, the bound values are those of the screen.
BoundIsShown ==
  clear => /\ shown \in [action : Actions, contract : Contracts, screen : Screen]
           /\ store.bound = BoundValues(shown.action, shown.screen)

DoneHasVerdict == verdict # "none" => phase = "done"

ValuesInv ==
  /\ StoreIsHistory /\ BoundIsShown /\ DoneHasVerdict
  /\ verdict = "clear" => Agreement

\* "Values: the holdings that the transaction creates must agree with the screen": a
\* clear review implies the agreement, whatever the nodes, their order, the screen that
\* was bound last and the transactions before.
ClearMeansAgreement == verdict = "clear" => Agreement

\* The check has no false alarms within its limits: a transaction that agrees with the
\* screen that was shown is reviewed with its details.
AgreementMeansClear ==
  verdict = "blind" /\ shown # NothingShown /\ Agreement =>
    \/ display_failed
    \/ Len(written) > MAX_HOLDINGS
    \/ Cardinality(acted) > MAX_USED_CONTRACTS
    \/ starved

\* In Daml an accept, reject or withdraw is a choice, so no disclosed contract is a
\* create of a template with that name.  The app has no check of its own for this.
ChoicesAreNoTemplates ==
  \A p \in ContractParts : MatchedAction(p) # "none" => ~DISPLAY_CONFIGS[MatchedAction(p)].deferred

\* "Bind the accept, reject and withdraw screens to the contract the transaction
\* exercises": the values of such a screen are those of a contract on which a node
\* performs the action shown, whichever contracts are disclosed before it.
ScreenOfExercised ==
  ChoicesAreNoTemplates /\ verdict = "clear" /\ DISPLAY_CONFIGS[shown.action].deferred =>
    [action |-> shown.action, contract |-> shown.contract] \in performed
=============================================================================
