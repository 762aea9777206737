-------------------------- MODULE NodeValuesProofs --------------------------
(***************************************************************************)
(* The values check is sound for every set of accounts, amounts, issuers,  *)
(* instruments, contracts and parts, and for every size of its store.      *)
(*                                                                         *)
(* The argument: as long as the check has not given up, the store tells    *)
(* the whole history of the nodes (StoreIsHistory); as long as details may *)
(* be shown, the bound values are those of the screen (BoundIsShown).  The *)
(* comparison at finalization then speaks about the history and the screen.*)
(***************************************************************************)
EXTENDS NodeValues, FiniteSetTheorems, TLAPS

\* Giving up only turns the check off.
LEMMA GivingUp ==
  ASSUME NEW s \in Store, WithinLimits(s)
  PROVE  /\ give_up(s) \in Store /\ WithinLimits(give_up(s))
         /\ ~give_up(s).ok /\ give_up(s).bound = s.bound
BY DEF give_up, Store, WithinLimits

\* values_record_used_contract: unless it gives up, the contract is on the list and
\* nothing else changed.
LEMMA RecordUsed ==
  ASSUME NEW s \in Store, WithinLimits(s), NEW c \in Contracts, NEW memory \in BOOLEAN
  PROVE  LET r == values_record_used_contract(s, c, memory)
         IN /\ r \in Store /\ WithinLimits(r) /\ r.bound = s.bound
            /\ r.ok => /\ s.ok /\ r.holdings = s.holdings
                       /\ r.holdings_instrument = s.holdings_instrument
                       /\ r.used = s.used \cup {c}
<1> DEFINE r == values_record_used_contract(s, c, memory)
<1>1. CASE ~s.ok
  BY <1>1 DEF values_record_used_contract
<1>2. CASE s.ok /\ s.used = {} /\ ~memory
  <2>1. r = give_up(s)
    BY <1>2 DEF values_record_used_contract
  <2> QED BY <2>1, GivingUp
<1>3. CASE s.ok /\ c \in s.used
  <2>1. r = s
    BY <1>3 DEF values_record_used_contract
  <2>2. s.used = s.used \cup {c}
    BY <1>3
  <2> QED BY <2>1, <2>2, <1>3
<1>4. CASE s.ok /\ c \notin s.used /\ (s.used # {} \/ memory)
  <2>1. CASE Cardinality(s.used) >= MAX_USED_CONTRACTS
    <3>1. r = give_up(s)
      BY <1>4, <2>1 DEF values_record_used_contract
    <3> QED BY <3>1, GivingUp
  <2>2. CASE ~(Cardinality(s.used) >= MAX_USED_CONTRACTS)
    <3>1. r = [s EXCEPT !.used = @ \cup {c}]
      BY <1>4, <2>2 DEF values_record_used_contract
    <3>2. IsFiniteSet(s.used) /\ Cardinality(s.used) \in Nat
      BY FS_CardinalityType DEF WithinLimits
    <3>3. IsFiniteSet(s.used \cup {c}) /\ Cardinality(s.used \cup {c}) = Cardinality(s.used) + 1
      BY <3>2, <1>4, FS_AddElement
    <3>4. Cardinality(s.used \cup {c}) <= MAX_USED_CONTRACTS
      BY <3>2, <3>3, <2>2, LimitsAssumption
    <3>5. r \in Store /\ r.used = s.used \cup {c} /\ r.holdings = s.holdings
           /\ r.holdings_instrument = s.holdings_instrument /\ r.bound = s.bound
      BY <3>1 DEF Store
    <3>6. WithinLimits(r)
      BY <3>3, <3>4, <3>5 DEF WithinLimits
    <3> QED BY <3>5, <3>6, <1>4
  <2> QED BY <2>1, <2>2
<1> QED BY <1>1, <1>2, <1>3, <1>4

\* values_report_holding: unless it gives up, the holding is the last of the store, and
\* the instruments named so far are one.
LEMMA ReportHolding ==
  ASSUME NEW s \in Store, WithinLimits(s), s.ok, NEW h \in ReportedHolding
  PROVE  LET r == values_report_holding(s, h)
         IN /\ r \in Store /\ WithinLimits(r) /\ r.bound = s.bound
            /\ r.ok => /\ r.holdings = Append(s.holdings, h) /\ r.used = s.used
                       /\ \/ h.instrument = "none"
                             /\ r.holdings_instrument = s.holdings_instrument
                          \/ h.instrument = r.holdings_instrument
                             /\ s.holdings_instrument \in {"none", r.holdings_instrument}
<1> DEFINE recorded == [s EXCEPT !.holdings = Append(@, h)]
           named == [recorded EXCEPT !.holdings_instrument = h.instrument]
           r == values_report_holding(s, h)
<1>1. CASE Len(s.holdings) >= MAX_HOLDINGS
  <2>1. r = give_up(s)
    BY <1>1 DEF values_report_holding
  <2> QED BY <2>1, GivingUp
<1>2. CASE ~(Len(s.holdings) >= MAX_HOLDINGS)
  <2>1. /\ s.holdings \in Seq(ReportedHolding) /\ Len(s.holdings) \in Nat
        /\ h.instrument \in OrNone(Instruments)
    BY DEF Store, ReportedHolding
  <2>2. /\ Append(s.holdings, h) \in Seq(ReportedHolding)
        /\ Len(Append(s.holdings, h)) <= MAX_HOLDINGS
    BY <2>1, <1>2, LimitsAssumption
  <2>3. /\ recorded \in Store /\ recorded.holdings = Append(s.holdings, h) /\ recorded.ok
        /\ recorded.used = s.used /\ recorded.bound = s.bound
        /\ recorded.holdings_instrument = s.holdings_instrument
    BY <2>2 DEF Store
  <2>4. WithinLimits(recorded)
    BY <2>2, <2>3 DEF WithinLimits
  <2>5. /\ named \in Store /\ named.holdings = Append(s.holdings, h) /\ named.ok
        /\ named.used = s.used /\ named.bound = s.bound
        /\ named.holdings_instrument = h.instrument
    BY <2>1, <2>3 DEF Store
  <2>6. WithinLimits(named)
    BY <2>2, <2>3, <2>5, <2>4 DEF WithinLimits
  <2>7. CASE h.instrument = "none"
    <3>1. r = recorded
      BY <1>2, <2>7 DEF values_report_holding
    <3> QED BY <3>1, <2>3, <2>4, <2>7
  <2>8. CASE h.instrument # "none" /\ s.holdings_instrument = "none"
    <3>1. r = named
      BY <1>2, <2>8 DEF values_report_holding
    <3> QED BY <3>1, <2>5, <2>6, <2>8
  <2>9. CASE h.instrument # "none" /\ s.holdings_instrument \notin {"none", h.instrument}
    <3>1. r = give_up(recorded)
      BY <1>2, <2>9 DEF values_report_holding
    <3> QED BY <3>1, <2>3, <2>4, GivingUp
  <2>10. CASE h.instrument # "none" /\ s.holdings_instrument = h.instrument
    <3>1. r = recorded
      BY <1>2, <2>10 DEF values_report_holding
    <3> QED BY <3>1, <2>3, <2>4, <2>10
  <2> QED BY <2>7, <2>8, <2>9, <2>10
<1> QED BY <1>1, <1>2

\* A holding as it is reported has the type of a reported holding.
LEMMA WrittenType ==
  ASSUME NEW p \in Part
  PROVE  Written(p) \in ReportedHolding
<1>1. p.holding \in Holding
  BY DEF Part
<1>2. PICK x : x = IF p.template \in NamesInstrument THEN p.holding.instrument ELSE "none"
  OBVIOUS
<1>3. x \in OrNone(Instruments)
  BY <1>1, <1>2 DEF Holding, OrNone
<1>4. Written(p) = [p.holding EXCEPT !.instrument = x]
  BY <1>2 DEF Written
<1> QED BY <1>1, <1>3, <1>4 DEF Holding, ReportedHolding

\* values_collect_from_node: unless the check gives up, the node was no puzzle, and the
\* holding it writes, if any, was recorded.
LEMMA Collected ==
  ASSUME NEW s \in Store, WithinLimits(s), NEW p \in Part
  PROVE  LET r == values_collect_from_node(s, p)
         IN /\ r \in Store /\ WithinLimits(r) /\ r.bound = s.bound
            /\ r.ok => /\ s.ok /\ ~Opaque(p) /\ r.used = s.used
                       /\ WritesHolding(p) => r = values_report_holding(s, Written(p))
                       /\ ~WritesHolding(p) => r = s
<1> DEFINE r == values_collect_from_node(s, p)
<1>0. p.fields \in {"located", "unlocated", "unparsed"}
  BY DEF Part
<1>d. NON_HOLDING_TEMPLATES \cap HOLDING_TEMPLATES = {}
  BY DEF NON_HOLDING_TEMPLATES, HOLDING_TEMPLATES
<1>1. CASE ~(s.ok /\ p.kind = "create")
  <2>1. r = s
    BY <1>1 DEF values_collect_from_node
  <2> QED BY <2>1, <1>1 DEF Opaque, WritesHolding
<1>2. CASE s.ok /\ p.kind = "create"
  <2>0. r = DecodeCreate(s, p)
    BY <1>2 DEF values_collect_from_node
  <2>1. CASE WritesHolding(p)
    <3>1. r = values_report_holding(s, Written(p))
      BY <2>0, <2>1, <1>d DEF DecodeCreate, WritesHolding
    <3>2. Written(p) \in ReportedHolding
      BY WrittenType
    <3> QED BY <3>1, <3>2, <1>2, <2>1, ReportHolding DEF Opaque
  <2>2. CASE p.fields # "unparsed" /\ p.template \in NON_HOLDING_TEMPLATES
    <3>1. r = s
      BY <2>0, <2>2 DEF DecodeCreate
    <3>2. ~WritesHolding(p) /\ ~Opaque(p)
      BY <2>2, <1>d DEF WritesHolding, Opaque
    <3> QED BY <3>1, <3>2, <1>2
  <2>3. CASE ~WritesHolding(p) /\ ~(p.fields # "unparsed" /\ p.template \in NON_HOLDING_TEMPLATES)
    <3>1. r = give_up(s)
      BY <2>0, <2>3, <1>0, <1>2 DEF DecodeCreate, WritesHolding
    <3> QED BY <3>1, GivingUp
  <2> QED BY <2>1, <2>2, <2>3
<1> QED BY <1>1, <1>2

\* The configurations, one by one.
LEMMA Configs ==
  ASSUME NEW a \in Actions
  PROVE  /\ DISPLAY_CONFIGS[a].destination \in {"NONE", "SENDER", "RECEIVER"}
         /\ DISPLAY_CONFIGS[a].comparable \in BOOLEAN /\ DISPLAY_CONFIGS[a].deferred \in BOOLEAN
         /\ DISPLAY_CONFIGS[a].destination # "NONE" =>
              "sender" \in DISPLAY_CONFIGS[a].fields /\ "amount" \in DISPLAY_CONFIGS[a].fields
         /\ DISPLAY_CONFIGS[a].destination = "RECEIVER" => "receiver" \in DISPLAY_CONFIGS[a].fields
<1>1. CASE a = "transfer"
  BY <1>1 DEF DISPLAY_CONFIGS, Config, TokenFields
<1>2. CASE a = "native"
  BY <1>2 DEF DISPLAY_CONFIGS, Config, TokenFields
<1>3. CASE a = "preapproval"
  BY <1>3 DEF DISPLAY_CONFIGS, Config, TokenFields
<1>4. CASE a = "accept"
  BY <1>4 DEF DISPLAY_CONFIGS, Config, TokenFields
<1>5. CASE a = "reject"
  BY <1>5 DEF DISPLAY_CONFIGS, Config, TokenFields
<1>6. CASE a = "withdraw"
  BY <1>6 DEF DISPLAY_CONFIGS, Config, TokenFields
<1> QED BY <1>1, <1>2, <1>3, <1>4, <1>5, <1>6 DEF Actions

\* values_bind_from_display: only the bound values change.
LEMMA Bind ==
  ASSUME NEW s \in Store, WithinLimits(s), NEW a \in Actions, NEW screen \in Screen
  PROVE  LET r == values_bind_from_display(s, a, screen)
         IN /\ r \in Store /\ WithinLimits(r) /\ r.bound = BoundValues(a, screen)
            /\ r.ok = s.ok /\ r.holdings = s.holdings /\ r.used = s.used
            /\ r.holdings_instrument = s.holdings_instrument
<1> DEFINE b == BoundValues(a, screen)
<1>1. b \in BoundScreen
  <2>1. DISPLAY_CONFIGS[a].destination \in {"NONE", "SENDER", "RECEIVER"}
    BY Configs
  <2> QED BY <2>1 DEF BoundValues, BoundScreen, Screen, OrNone
<1>2. values_bind_from_display(s, a, screen) = [s EXCEPT !.bound = b]
  BY DEF values_bind_from_display
<1>3. PICK x : x = b
  OBVIOUS
<1> HIDE DEF b
<1>4. LET r == [s EXCEPT !.bound = x]
      IN /\ r \in Store /\ WithinLimits(r) /\ r.bound = x
         /\ r.ok = s.ok /\ r.holdings = s.holdings /\ r.used = s.used
         /\ r.holdings_instrument = s.holdings_instrument
  BY <1>1, <1>3 DEF Store, WithinLimits
<1> USE DEF b
<1> QED BY <1>2, <1>3, <1>4

\* What a part leaves once it was, or was not, parsed for display: the recorded history of
\* s, and bound values that are those of the screen.
Presented(s) ==
  /\ store' \in Store /\ WithinLimits(store')
  /\ store'.ok = s.ok /\ store'.holdings = s.holdings /\ store'.used = s.used
  /\ store'.holdings_instrument = s.holdings_instrument
  /\ clear' \in BOOLEAN /\ display_failed' \in BOOLEAN
  /\ deferred' \in [action : OrNone(Actions), contract : OrNone(Contracts)]
  /\ shown' \in ShownScreen
  /\ BoundIsShown'

LEMMA NotParsed ==
  ASSUME TypeOK, BoundIsShown, NEW s \in Store, WithinLimits(s), s.bound = store.bound,
         NoDisplayParsing(s)
  PROVE  Presented(s)
BY DEF TypeOK, BoundIsShown, NoDisplayParsing, Presented

\* find_tx_type_and_config: it shows a known action or none.
LEMMA Found ==
  ASSUME NEW p \in Part,
         NEW w \in [action : OrNone(Actions), contract : OrNone(Contracts)]
  PROVE  /\ find_tx_type_and_config(p, w).show \in OrNone(Actions)
         /\ find_tx_type_and_config(p, w).waiting
              \in [action : OrNone(Actions), contract : OrNone(Contracts)]
<1>1. w.action \in OrNone(Actions)
  OBVIOUS
<1>2. MatchedAction(p) \in OrNone(Actions)
  BY DEF MatchedAction, OrNone
<1>3. p.contract \in OrNone(Contracts)
  BY DEF Part, OrNone
<1>4. CASE IsAwaitedContract(p, w)
  BY <1>1, <1>4 DEF find_tx_type_and_config
<1>5. CASE ~IsAwaitedContract(p, w) /\ MatchedAction(p) = "none"
  BY <1>5 DEF find_tx_type_and_config, OrNone
<1>6. CASE /\ ~IsAwaitedContract(p, w) /\ MatchedAction(p) # "none"
           /\ DISPLAY_CONFIGS[MatchedAction(p)].deferred
  BY <1>2, <1>3, <1>6 DEF find_tx_type_and_config, OrNone
<1>7. CASE /\ ~IsAwaitedContract(p, w) /\ MatchedAction(p) # "none"
           /\ ~DISPLAY_CONFIGS[MatchedAction(p)].deferred
  BY <1>2, <1>7 DEF find_tx_type_and_config, OrNone
<1> QED BY <1>4, <1>5, <1>6, <1>7

LEMMA Parsed ==
  ASSUME TypeOK, NEW s \in Store, WithinLimits(s), NEW p \in Part,
         NEW w \in [action : OrNone(Actions), contract : OrNone(Contracts)],
         process_display_parsing(s, p, w)
  PROVE  Presented(s)
<1> DEFINE found == find_tx_type_and_config(p, w)
<1>1. /\ found.show \in OrNone(Actions)
      /\ found.waiting \in [action : OrNone(Actions), contract : OrNone(Contracts)]
  BY Found
<1>2. p.screen \in Screen /\ p.renders \in BOOLEAN /\ p.contract \in Contracts
  BY DEF Part
<1> PICK show : show = found.show
  OBVIOUS
<1>3. CASE show = "none"
  BY <1>1, <1>3 DEF process_display_parsing, Presented, TypeOK, BoundIsShown
<1>4. CASE show # "none"
  <2>1. show \in Actions
    BY <1>1, <1>4 DEF OrNone
  <2>2. /\ store' = values_bind_from_display(s, show, p.screen)
        /\ clear' = p.renders /\ display_failed' = ~p.renders /\ deferred' = NotDeferred
        /\ shown' = [action |-> show, contract |-> p.contract, screen |-> p.screen]
    BY <1>4 DEF process_display_parsing
  <2>3. /\ store' \in Store /\ WithinLimits(store')
        /\ store'.bound = BoundValues(show, p.screen)
        /\ store'.ok = s.ok /\ store'.holdings = s.holdings /\ store'.used = s.used
        /\ store'.holdings_instrument = s.holdings_instrument
    BY <1>2, <2>1, <2>2, Bind
  <2>4. /\ shown' \in [action : Actions, contract : Contracts, screen : Screen]
        /\ shown'.action = show /\ shown'.screen = p.screen
    BY <1>2, <2>1, <2>2
  <2>5. BoundIsShown'
    BY <2>3, <2>4 DEF BoundIsShown
  <2>6. deferred' \in [action : OrNone(Actions), contract : OrNone(Contracts)]
    BY <2>2 DEF NotDeferred, OrNone
  <2> QED BY <1>2, <2>2, <2>3, <2>4, <2>5, <2>6 DEF Presented, ShownScreen
<1> QED BY <1>3, <1>4

\* A node: the store is led through the list of contracts and the values of the node.
LEMMA NodeStep ==
  ASSUME TypeOK, ValuesInv, NEW p \in Part, NEW memory \in BOOLEAN, DamlNode(p, memory)
  PROVE  TypeOK' /\ ValuesInv'
<1> DEFINE listed == IF p.kind = "rollback" THEN store
                     ELSE values_record_used_contract(store, p.contract, memory)
           collected == values_collect_from_node(listed, p)
<1>0. /\ store \in Store /\ WithinLimits(store)
      /\ p.contract \in Contracts /\ Written(p) \in ReportedHolding
  BY WrittenType DEF TypeOK, Part
<1>1. /\ listed \in Store /\ WithinLimits(listed) /\ listed.bound = store.bound
      /\ listed.ok => /\ store.ok /\ listed.holdings = store.holdings
                      /\ listed.holdings_instrument = store.holdings_instrument
                      /\ listed.used = IF p.kind = "rollback" THEN store.used
                                       ELSE store.used \cup {p.contract}
  <2>1. CASE p.kind = "rollback"
    BY <1>0, <2>1
  <2>2. CASE p.kind # "rollback"
    BY <1>0, <2>2, RecordUsed
  <2> QED BY <2>1, <2>2
<1>2. PICK l : l = listed
  OBVIOUS
<1>3. PICK c : c = values_collect_from_node(l, p)
  OBVIOUS
<1>4. c = collected
  BY <1>2, <1>3
<1> HIDE DEF listed
<1>5. /\ c \in Store /\ WithinLimits(c) /\ c.bound = l.bound
      /\ c.ok => /\ l.ok /\ ~Opaque(p) /\ c.used = l.used
                 /\ WritesHolding(p) => c = values_report_holding(l, Written(p))
                 /\ ~WritesHolding(p) => c = l
  BY <1>1, <1>2, <1>3, Collected
<1>6. Presented(c)
  <2>1. CASE clear \/ display_failed \/ deferred # NotDeferred
    <3>1. NoDisplayParsing(c)
      BY <2>1, <1>4 DEF DamlNode, listed
    <3> QED BY <3>1, <1>1, <1>2, <1>5, NotParsed DEF ValuesInv
  <2>2. CASE ~(clear \/ display_failed \/ deferred # NotDeferred)
    <3>1. process_display_parsing(c, p, NotDeferred)
      BY <2>2, <1>4 DEF DamlNode, listed
    <3>2. NotDeferred \in [action : OrNone(Actions), contract : OrNone(Contracts)]
      BY DEF NotDeferred, OrNone
    <3> QED BY <3>1, <3>2, <1>5, Parsed
  <2> QED BY <2>1, <2>2
<1>7. /\ phase = "nodes" /\ received' = received + 1 /\ Observe(p)
      /\ starved' = (starved \/ ~memory)
      /\ phase' = phase /\ verdict' = verdict /\ disclosed' = disclosed
  BY DEF DamlNode
<1>8. MatchedAction(p) \in OrNone(Actions)
  BY DEF MatchedAction, OrNone
<1>9. TypeOK'
  <2>1. /\ written' \in Seq(ReportedHolding) /\ opaque' \in BOOLEAN
        /\ acted' \subseteq Contracts
    BY <1>0, <1>7 DEF TypeOK, Observe, Opaque, WritesHolding
  <2>2. performed' \subseteq [action : Actions, contract : Contracts]
    BY <1>0, <1>7, <1>8 DEF TypeOK, Observe, OrNone
  <2>3. received' \in Nat /\ starved' \in BOOLEAN
    BY <1>7 DEF TypeOK
  <2> QED BY <1>6, <1>7, <2>1, <2>2, <2>3 DEF TypeOK, Presented
<1>10. StoreIsHistory'
  <2> SUFFICES ASSUME c.ok
               PROVE  /\ c.holdings = written' /\ ~opaque' /\ c.used = acted'
                      /\ disclosed' \subseteq acted'
                      /\ \A k \in DOMAIN written' : written'[k].instrument # "none" =>
                           written'[k].instrument = c.holdings_instrument
    BY <1>6 DEF StoreIsHistory, Presented
  <2>1. /\ l.ok /\ store.ok /\ ~Opaque(p) /\ c.used = l.used
        /\ l.holdings = written /\ l.holdings_instrument = store.holdings_instrument
        /\ store.used = acted /\ disclosed \subseteq acted /\ ~opaque
    BY <1>1, <1>2, <1>5, <1>7 DEF ValuesInv, StoreIsHistory
  <2>2. \A k \in DOMAIN written :
          written[k].instrument # "none" => written[k].instrument = l.holdings_instrument
    BY <2>1 DEF ValuesInv, StoreIsHistory
  <2>3. ~opaque' /\ c.used = acted' /\ disclosed' \subseteq acted'
    BY <1>1, <1>2, <1>7, <2>1 DEF Observe
  <2>4. CASE ~WritesHolding(p)
    <3>1. c = l /\ written' = written
      BY <1>5, <1>7, <2>4 DEF Observe
    <3> QED BY <3>1, <2>1, <2>2, <2>3
  <2>5. CASE WritesHolding(p)
    <3>1. c = values_report_holding(l, Written(p)) /\ written' = Append(written, Written(p))
      BY <1>5, <1>7, <2>5 DEF Observe
    <3>2. l \in Store /\ WithinLimits(l)
      BY <1>1, <1>2
    <3>3. PICK h \in ReportedHolding : h = Written(p)
      BY <1>0
    <3>4. /\ c.holdings = Append(written, h)
          /\ \/ h.instrument = "none" /\ c.holdings_instrument = l.holdings_instrument
             \/ /\ h.instrument = c.holdings_instrument
                /\ l.holdings_instrument \in {"none", c.holdings_instrument}
      BY <3>1, <3>2, <3>3, <2>1, ReportHolding
    <3>5. written \in Seq(ReportedHolding)
      BY DEF TypeOK
    <3>6. \A k \in DOMAIN Append(written, h) : Append(written, h)[k].instrument # "none" =>
            Append(written, h)[k].instrument = c.holdings_instrument
      BY <3>4, <3>5, <2>2
    <3> QED BY <3>1, <3>3, <3>4, <3>6, <2>3
  <2> QED BY <2>4, <2>5
<1>11. verdict' = "none" /\ DoneHasVerdict'
  BY <1>7 DEF ValuesInv, DoneHasVerdict
<1> QED BY <1>6, <1>9, <1>10, <1>11 DEF ValuesInv, Presented

\* An input contract: it must be one a node acts on.
LEMMA ContractStep ==
  ASSUME TypeOK, ValuesInv, NEW p \in Part, InputContract(p)
  PROVE  TypeOK' /\ ValuesInv'
<1>1. PICK c : c = values_check_disclosed_contract(store, p.contract)
  OBVIOUS
<1>2. store \in Store /\ WithinLimits(store) /\ p.contract \in Contracts
  BY DEF TypeOK, Part
<1>3. /\ c \in Store /\ WithinLimits(c) /\ c.bound = store.bound
      /\ c.ok => c = store /\ p.contract \in store.used
  <2>1. CASE store.ok /\ p.contract \notin store.used
    BY <1>1, <1>2, <2>1, GivingUp DEF values_check_disclosed_contract
  <2>2. CASE ~(store.ok /\ p.contract \notin store.used)
    BY <1>1, <1>2, <2>2 DEF values_check_disclosed_contract
  <2> QED BY <2>1, <2>2
<1>4. Presented(c)
  <2>1. CASE clear \/ display_failed \/ deferred = NotDeferred
    <3>1. NoDisplayParsing(c)
      BY <2>1, <1>1 DEF InputContract
    <3> QED BY <3>1, <1>3, NotParsed DEF ValuesInv
  <2>2. CASE ~(clear \/ display_failed \/ deferred = NotDeferred)
    <3>1. process_display_parsing(c, p, deferred)
      BY <2>2, <1>1 DEF InputContract
    <3>2. deferred \in [action : OrNone(Actions), contract : OrNone(Contracts)]
      BY DEF TypeOK
    <3> QED BY <3>1, <3>2, <1>3, Parsed
  <2> QED BY <2>1, <2>2
<1>5. /\ phase = "contracts" /\ received' = received + 1
      /\ disclosed' = disclosed \cup {p.contract}
      /\ UNCHANGED <<phase, verdict, nodes, starved>>
  BY DEF InputContract
<1>6. TypeOK'
  BY <1>2, <1>4, <1>5 DEF TypeOK, Presented, nodes
<1>7. StoreIsHistory'
  <2> SUFFICES ASSUME c.ok
               PROVE  /\ c.holdings = written /\ ~opaque /\ c.used = acted
                      /\ disclosed' \subseteq acted
                      /\ \A k \in DOMAIN written : written[k].instrument # "none" =>
                           written[k].instrument = c.holdings_instrument
    BY <1>4, <1>5 DEF StoreIsHistory, Presented, nodes
  <2>1. c = store /\ p.contract \in store.used
    BY <1>3
  <2> QED BY <2>1, <1>5 DEF ValuesInv, StoreIsHistory
<1>8. verdict' = "none" /\ DoneHasVerdict'
  BY <1>5 DEF ValuesInv, DoneHasVerdict
<1> QED BY <1>4, <1>6, <1>7, <1>8 DEF ValuesInv, Presented

\* The bound values of a screen, one by one.
LEMMA Bound ==
  ASSUME NEW a \in Actions, NEW screen \in Screen
  PROVE  LET b == BoundValues(a, screen)
             config == DISPLAY_CONFIGS[a]
         IN /\ b.bound_destination = config.destination
            /\ config.destination = "SENDER" => b.destination = screen.sender
            /\ config.destination = "RECEIVER" => b.destination = screen.receiver
            /\ config.destination # "NONE" => b.sender = screen.sender
            /\ config.destination # "NONE" /\ config.comparable => b.amount = screen.amount
            /\ "admin" \in config.fields => b.admin = screen.admin
            /\ "instrument" \in config.fields => b.instrument = screen.instrument
            /\ "instrument" \notin config.fields => b.instrument = "none"
<1>1. /\ DISPLAY_CONFIGS[a].destination \in {"NONE", "SENDER", "RECEIVER"}
      /\ DISPLAY_CONFIGS[a].destination # "NONE" =>
           "sender" \in DISPLAY_CONFIGS[a].fields /\ "amount" \in DISPLAY_CONFIGS[a].fields
      /\ DISPLAY_CONFIGS[a].destination = "RECEIVER" => "receiver" \in DISPLAY_CONFIGS[a].fields
  BY Configs
<1> QED BY <1>1 DEF BoundValues

\* The indices of a sequence that have some property are finitely many.
LEMMA FinitelyMany ==
  ASSUME NEW n \in Nat, NEW S \in SUBSET (1..n)
  PROVE  IsFiniteSet(S) /\ Cardinality(S) \in Nat
<1>1. IsFiniteSet(1..n)
  BY FS_Interval
<1>2. IsFiniteSet(S)
  BY <1>1, FS_Subset
<1> QED BY <1>2, FS_CardinalityType

\* values_can_clear_sign: its comparison of the store with the bound values is the
\* agreement of what the nodes wrote with the screen.
LEMMA Compared ==
  ASSUME TypeOK, ValuesInv, clear, values_can_clear_sign(store)
  PROVE  Agreement
<1>1. /\ store.ok /\ store.holdings = written /\ ~opaque /\ disclosed \subseteq acted
      /\ \A k \in DOMAIN written :
           written[k].instrument # "none" => written[k].instrument = store.holdings_instrument
  BY DEF ValuesInv, StoreIsHistory, values_can_clear_sign
<1>2. PICK a \in Actions, screen \in Screen :
        shown.action = a /\ shown.screen = screen /\ store.bound = BoundValues(a, screen)
  BY DEF ValuesInv, BoundIsShown
<1>3. PICK config : config = DISPLAY_CONFIGS[a]
  OBVIOUS
<1>4. PICK b : b = store.bound
  OBVIOUS
<1>5. /\ b.bound_destination = config.destination
      /\ config.destination = "SENDER" => b.destination = screen.sender
      /\ config.destination = "RECEIVER" => b.destination = screen.receiver
      /\ config.destination # "NONE" => b.sender = screen.sender
      /\ config.destination # "NONE" /\ config.comparable => b.amount = screen.amount
      /\ "admin" \in config.fields => b.admin = screen.admin
      /\ "instrument" \in config.fields => b.instrument = screen.instrument
      /\ "instrument" \notin config.fields => b.instrument = "none"
  BY <1>2, <1>3, <1>4, Bound
<1>6. /\ config.destination \in {"NONE", "SENDER", "RECEIVER"}
      /\ config.comparable \in BOOLEAN
  BY <1>3, Configs
<1>7. screen.amount # "none" /\ screen.admin # "none"
  BY NotShownAssumption DEF Screen
<1>8. CASE config.destination = "NONE"
  BY <1>1, <1>2, <1>3, <1>4, <1>5, <1>8 DEF values_can_clear_sign, Agreement
<1>9. CASE config.destination # "NONE"
  <2> DEFINE destination == IF config.destination = "SENDER" THEN screen.sender
                            ELSE screen.receiver
             paid == {k \in DOMAIN written : written[k].owner = destination}
  <2>0. b.destination = destination
    BY <1>5, <1>6, <1>9
  <2>1. /\ destination_holds_value(store) /\ holdings_match_displayed_id(store)
        /\ "admin" \in config.fields => holdings_match_displayed_instrument(store)
    BY <1>4, <1>5, <1>7, <1>9 DEF values_can_clear_sign
  <2>2. /\ \A k \in DOMAIN written \ paid : written[k].owner = screen.sender
        /\ Cardinality(paid) # 0
        /\ Cardinality(paid) > 1 => is_transfer_to_self(store) /\ Cardinality(paid) <= 2
        /\ \E k \in paid : b.amount = "none" \/ written[k].amount = b.amount
    BY <1>1, <1>4, <1>5, <1>9, <2>0, <2>1 DEF destination_holds_value
  <2>3. Cardinality(paid) \in Nat
    <3>1. Len(written) \in Nat /\ paid \in SUBSET (1..Len(written))
      BY DEF TypeOK
    <3> QED BY <3>1, FinitelyMany
  <2>4. \/ Cardinality(paid) = 1
        \/ /\ config.destination = "RECEIVER" /\ screen.sender = screen.receiver
           /\ Cardinality(paid) = 2
    <3>1. is_transfer_to_self(store) =>
            config.destination = "RECEIVER" /\ screen.sender = screen.receiver
      BY <1>4, <1>5, <1>9 DEF is_transfer_to_self
    <3> HIDE DEF paid
    <3> QED BY <2>2, <2>3, <3>1
  <2>5. \A k \in DOMAIN written : written[k].owner \in {destination, screen.sender}
    BY <2>2
  <2>6. config.comparable => \E k \in paid : written[k].amount = screen.amount
    BY <2>2, <1>5, <1>7, <1>9
  <2>7. "admin" \in config.fields =>
          \A k \in DOMAIN written : written[k].admin = screen.admin
    BY <2>1, <1>1, <1>4, <1>5 DEF holdings_match_displayed_instrument
  <2>8. \A k \in DOMAIN written : written[k].instrument # "none" =>
          "instrument" \in config.fields /\ written[k].instrument = screen.instrument
    BY <2>1, <1>1, <1>4, <1>5 DEF holdings_match_displayed_id
  <2> HIDE DEF paid, destination
  <2>9. /\ ~opaque /\ disclosed \subseteq acted
        /\ DISPLAY_CONFIGS[shown.action] = config /\ shown.screen = screen
    BY <1>1, <1>2, <1>3
  <2> QED BY <2>4, <2>5, <2>6, <2>7, <2>8, <2>9, <1>9 DEF Agreement, paid, destination
<1> QED BY <1>8, <1>9

LEMMA FinalizeStep ==
  ASSUME TypeOK, ValuesInv, process_prepared_tx_finalize
  PROVE  TypeOK' /\ ValuesInv'
<1>1. PICK s : s = IF clear /\ ~values_can_clear_sign(store) THEN give_up(store) ELSE store
  OBVIOUS
<1>2. store \in Store /\ WithinLimits(store)
  BY DEF TypeOK
<1>3. /\ s \in Store /\ WithinLimits(s) /\ s.bound = store.bound
      /\ s.ok => s = store
  BY <1>1, <1>2, GivingUp
<1>4. store' = [s EXCEPT !.used = {}]
  BY <1>1 DEF process_prepared_tx_finalize, values_release_used_contracts
<1>5. /\ store' \in Store /\ store'.ok = s.ok /\ store'.holdings = s.holdings
      /\ store'.used = {} /\ store'.bound = s.bound
      /\ store'.holdings_instrument = s.holdings_instrument
  BY <1>3, <1>4 DEF Store
<1>6. WithinLimits(store')
  BY <1>3, <1>5, FS_EmptySet, LimitsAssumption DEF WithinLimits
<1>7. /\ phase' = "done" /\ received' = 0 /\ deferred' = NotDeferred
      /\ verdict' \in {"clear", "blind"}
      /\ verdict' = "clear" => clear /\ values_can_clear_sign(store)
      /\ clear' => clear
      /\ UNCHANGED <<display_failed, written, opaque, performed, acted, disclosed, shown, starved>>
  BY DEF process_prepared_tx_finalize, history, nodes
<1>8. TypeOK'
  <2>1. deferred' \in [action : OrNone(Actions), contract : OrNone(Contracts)]
    BY <1>7 DEF NotDeferred, OrNone
  <2>2. clear' \in BOOLEAN
    BY DEF process_prepared_tx_finalize, TypeOK, values_can_clear_sign
  <2> QED BY <1>5, <1>6, <1>7, <2>1, <2>2 DEF TypeOK
<1>9. StoreIsHistory'
  BY <1>3, <1>5, <1>7 DEF ValuesInv, StoreIsHistory
<1>10. BoundIsShown'
  BY <1>3, <1>5, <1>7 DEF ValuesInv, BoundIsShown
<1>11. verdict' = "clear" => Agreement'
  <2> SUFFICES ASSUME verdict' = "clear" PROVE Agreement'
    OBVIOUS
  <2>1. Agreement
    BY <1>7, Compared
  <2> QED BY <2>1, <1>7 DEF Agreement
<1> QED BY <1>7, <1>8, <1>9, <1>10, <1>11 DEF ValuesInv, DoneHasVerdict

\* The store after values_check_reset.
LEMMA Reset ==
  /\ values_check_reset \in Store /\ WithinLimits(values_check_reset)
  /\ values_check_reset.ok /\ values_check_reset.holdings = <<>>
  /\ values_check_reset.used = {}
<1>1. Unbound \in BoundScreen
  BY DEF Unbound, BoundScreen, OrNone
<1>2. PICK u : u = Unbound
  OBVIOUS
<1>3. values_check_reset =
        [ok |-> TRUE, holdings |-> <<>>, holdings_instrument |-> "none", used |-> {}, bound |-> u]
  BY <1>2 DEF values_check_reset
<1>4. <<>> \in Seq(ReportedHolding) /\ Len(<<>>) = 0
  OBVIOUS
<1>5. values_check_reset \in Store
  BY <1>1, <1>2, <1>3, <1>4 DEF Store, OrNone
<1> QED BY <1>3, <1>4, <1>5, FS_EmptySet, LimitsAssumption DEF WithinLimits

\* A transaction starts with an empty store and an empty history.
LEMMA Initially ==
  ASSUME Init
  PROVE  TypeOK /\ ValuesInv
<1>1. NotDeferred \in [action : OrNone(Actions), contract : OrNone(Contracts)]
  BY DEF NotDeferred, OrNone
<1>2. <<>> \in Seq(ReportedHolding) /\ DOMAIN <<>> = {}
  OBVIOUS
<1>3. TypeOK
  BY <1>1, <1>2, Reset DEF Init, TypeOK, ShownScreen
<1>4. StoreIsHistory /\ BoundIsShown /\ DoneHasVerdict
  BY <1>2, Reset DEF Init, StoreIsHistory, BoundIsShown, DoneHasVerdict
<1> QED BY <1>3, <1>4 DEF ValuesInv, Init

LEMMA NewStep ==
  ASSUME NewTransaction
  PROVE  TypeOK' /\ ValuesInv'
<1>1. NotDeferred \in [action : OrNone(Actions), contract : OrNone(Contracts)]
  BY DEF NotDeferred, OrNone
<1>2. <<>> \in Seq(ReportedHolding) /\ DOMAIN <<>> = {}
  OBVIOUS
<1>3. TypeOK'
  BY <1>1, <1>2, Reset DEF NewTransaction, TypeOK, ShownScreen
<1>4. StoreIsHistory' /\ BoundIsShown' /\ DoneHasVerdict'
  BY <1>2, Reset DEF NewTransaction, StoreIsHistory, BoundIsShown, DoneHasVerdict
<1> QED BY <1>3, <1>4 DEF ValuesInv, NewTransaction

\* Every step of a transaction, and every first APDU, keeps the invariant.
LEMMA Inductive ==
  TypeOK /\ ValuesInv /\ [Next]_vars => TypeOK' /\ ValuesInv'
<1> SUFFICES ASSUME TypeOK, ValuesInv, [Next]_vars
             PROVE  TypeOK' /\ ValuesInv'
  OBVIOUS
<1>1. CASE NewTransaction
  BY <1>1, NewStep
<1>2. ASSUME NEW p \in NodeParts, NEW memory \in BOOLEAN, DamlNode(p, memory)
      PROVE  TypeOK' /\ ValuesInv'
  <2>1. p \in Part
    BY PartsAssumption
  <2> QED BY <1>2, <2>1, NodeStep
<1>3. CASE Metadata
  <2>1. /\ phase = "nodes" /\ phase' = "contracts" /\ received' = 0
        /\ UNCHANGED <<store, clear, display_failed, deferred, verdict, written, opaque,
                       performed, acted, disclosed, shown, starved>>
    BY <1>3 DEF Metadata, history, nodes
  <2>2. TypeOK'
    BY <2>1 DEF TypeOK
  <2>3. StoreIsHistory' /\ BoundIsShown'
    BY <2>1 DEF ValuesInv, StoreIsHistory, BoundIsShown
  <2>4. verdict' = "none"
    BY <2>1 DEF ValuesInv, DoneHasVerdict
  <2> QED BY <2>2, <2>3, <2>4 DEF ValuesInv, DoneHasVerdict
<1>4. ASSUME NEW p \in ContractParts, InputContract(p)
      PROVE  TypeOK' /\ ValuesInv'
  <2>1. p \in Part
    BY PartsAssumption
  <2> QED BY <1>4, <2>1, ContractStep
<1>5. CASE process_prepared_tx_finalize
  BY <1>5, FinalizeStep
<1>6. CASE UNCHANGED vars
  <2>1. TypeOK'
    BY <1>6 DEF vars, TypeOK
  <2>2. StoreIsHistory' /\ BoundIsShown' /\ DoneHasVerdict' /\ (Agreement' <=> Agreement)
    BY <1>6 DEF vars, ValuesInv, StoreIsHistory, BoundIsShown, DoneHasVerdict, Agreement
  <2> QED BY <2>1, <2>2, <1>6 DEF ValuesInv, vars
<1> QED BY <1>1, <1>2, <1>3, <1>4, <1>5, <1>6 DEF Next

\* values_record_used_contract and values_report_holding keep the store within
\* MAX_USED_CONTRACTS and MAX_HOLDINGS, whatever the nodes of however many transactions.
THEOREM StoreKeepsItsLimits == Spec => []TypeOK
<1>1. Init => TypeOK /\ ValuesInv
  BY Initially
<1>2. TypeOK /\ ValuesInv /\ [Next]_vars => (TypeOK /\ ValuesInv)'
  BY Inductive
<1> QED BY <1>1, <1>2, PTL DEF Spec

\* While the check has not given up, the store is the history of the nodes; while details
\* may be shown, the bound values are those of the screen.
THEOREM StoreTellsTheHistory == Spec => []ValuesInv
<1>1. Init => TypeOK /\ ValuesInv
  BY Initially
<1>2. TypeOK /\ ValuesInv /\ [Next]_vars => (TypeOK /\ ValuesInv)'
  BY Inductive
<1> QED BY <1>1, <1>2, PTL DEF Spec

\* A clear review shows the values that the transaction writes (values_can_clear_sign).
THEOREM ClearReviewAgrees == Spec => []ClearMeansAgreement
<1>1. ValuesInv => ClearMeansAgreement
  BY DEF ValuesInv, ClearMeansAgreement
<1> QED BY <1>1, StoreTellsTheHistory, PTL
-----------------------------------------------------------------------------
(***************************************************************************)
(* The screens that are left to an input contract.                         *)
(***************************************************************************)
\* A screen that waits, waits for an action a node performed, and a deferred screen that
\* may be shown is that of such an action.
DeferredInv ==
  /\ deferred # NotDeferred => deferred \in performed
  /\ clear /\ DISPLAY_CONFIGS[shown.action].deferred =>
       [action |-> shown.action, contract |-> shown.contract] \in performed
  /\ verdict = "clear" => clear

\* find_tx_type_and_config: what it shows or leaves waiting is the action of the part,
\* or the awaited action on the awaited contract.
LEMMA FoundAction ==
  ASSUME NEW p \in Part,
         NEW w \in [action : OrNone(Actions), contract : OrNone(Contracts)]
  PROVE  LET found == find_tx_type_and_config(p, w)
             this == [action |-> MatchedAction(p), contract |-> p.contract]
         IN /\ found.show # "none" /\ DISPLAY_CONFIGS[found.show].deferred =>
                 /\ w.action # "none"
                 /\ [action |-> found.show, contract |-> p.contract] = w
            /\ found.show = "none" => \/ found.waiting = w
                                      \/ /\ found.waiting = this
                                         /\ MatchedAction(p) # "none"
                                         /\ DISPLAY_CONFIGS[MatchedAction(p)].deferred
<1> DEFINE found == find_tx_type_and_config(p, w)
<1>1. CASE IsAwaitedContract(p, w)
  <2>1. found.show = w.action /\ w.action # "none" /\ p.contract = w.contract
    BY <1>1 DEF find_tx_type_and_config, IsAwaitedContract
  <2>2. [action |-> w.action, contract |-> w.contract] = w
    OBVIOUS
  <2> QED BY <2>1, <2>2
<1>2. CASE ~IsAwaitedContract(p, w) /\ MatchedAction(p) = "none"
  BY <1>2 DEF find_tx_type_and_config
<1>3. CASE /\ ~IsAwaitedContract(p, w) /\ MatchedAction(p) # "none"
           /\ DISPLAY_CONFIGS[MatchedAction(p)].deferred
  BY <1>3 DEF find_tx_type_and_config
<1>4. CASE /\ ~IsAwaitedContract(p, w) /\ MatchedAction(p) # "none"
           /\ ~DISPLAY_CONFIGS[MatchedAction(p)].deferred
  BY <1>4 DEF find_tx_type_and_config
<1> QED BY <1>1, <1>2, <1>3, <1>4

LEMMA DeferredNode ==
  ASSUME TypeOK, ValuesInv, DeferredInv, NEW p \in Part, NEW memory \in BOOLEAN,
         DamlNode(p, memory)
  PROVE  DeferredInv'
<1>1. PICK c : IF clear \/ display_failed \/ deferred # NotDeferred THEN NoDisplayParsing(c)
               ELSE process_display_parsing(c, p, NotDeferred)
  BY Zenon DEF DamlNode
<1>2. /\ verdict' = "none" /\ performed \subseteq performed'
      /\ MatchedAction(p) # "none" =>
           [action |-> MatchedAction(p), contract |-> p.contract] \in performed'
  BY DEF DamlNode, Observe, ValuesInv, DoneHasVerdict
<1>3. CASE clear \/ display_failed \/ deferred # NotDeferred
  <2>1. UNCHANGED <<clear, deferred, shown>>
    BY <1>1, <1>3 DEF NoDisplayParsing
  <2> QED BY <2>1, <1>2 DEF DeferredInv
<1>4. CASE ~(clear \/ display_failed \/ deferred # NotDeferred)
  <2>1. PICK found : found = find_tx_type_and_config(p, NotDeferred)
    OBVIOUS
  <2>2. NotDeferred \in [action : OrNone(Actions), contract : OrNone(Contracts)]
        /\ NotDeferred.action = "none"
    BY DEF NotDeferred, OrNone
  <2>3. /\ found.show # "none" => ~DISPLAY_CONFIGS[found.show].deferred
        /\ found.show = "none" =>
             \/ found.waiting = NotDeferred
             \/ /\ found.waiting = [action |-> MatchedAction(p), contract |-> p.contract]
                /\ MatchedAction(p) # "none"
    BY <2>1, <2>2, FoundAction
  <2>4. CASE found.show = "none"
    <3>1. clear' = FALSE /\ deferred' = found.waiting
      BY <1>1, <1>4, <2>1, <2>4 DEF process_display_parsing
    <3> QED BY <3>1, <1>2, <2>3, <2>4 DEF DeferredInv
  <2>5. CASE found.show # "none"
    <3>1. /\ deferred' = NotDeferred
          /\ shown' = [action |-> found.show, contract |-> p.contract, screen |-> p.screen]
      BY <1>1, <1>4, <2>1, <2>5 DEF process_display_parsing
    <3>2. shown'.action = found.show
      BY <3>1
    <3> QED BY <3>1, <3>2, <1>2, <2>3, <2>5 DEF DeferredInv
  <2> QED BY <2>4, <2>5
<1> QED BY <1>3, <1>4

LEMMA DeferredContract ==
  ASSUME TypeOK, ValuesInv, DeferredInv, ChoicesAreNoTemplates, NEW p \in ContractParts,
         InputContract(p)
  PROVE  DeferredInv'
<1>0. p \in Part
  BY PartsAssumption
<1>1. PICK c : IF clear \/ display_failed \/ deferred = NotDeferred THEN NoDisplayParsing(c)
               ELSE process_display_parsing(c, p, deferred)
  BY Zenon DEF InputContract
<1>2. verdict' = "none" /\ performed' = performed
  BY DEF InputContract, nodes, ValuesInv, DoneHasVerdict
<1>3. CASE clear \/ display_failed \/ deferred = NotDeferred
  <2>1. UNCHANGED <<clear, deferred, shown>>
    BY <1>1, <1>3 DEF NoDisplayParsing
  <2> QED BY <2>1, <1>2 DEF DeferredInv
<1>4. CASE ~(clear \/ display_failed \/ deferred = NotDeferred)
  <2>1. PICK found : found = find_tx_type_and_config(p, deferred)
    OBVIOUS
  <2>2. deferred \in [action : OrNone(Actions), contract : OrNone(Contracts)]
        /\ deferred \in performed
    BY <1>4 DEF TypeOK, DeferredInv
  <2>3. /\ found.show # "none" /\ DISPLAY_CONFIGS[found.show].deferred =>
             [action |-> found.show, contract |-> p.contract] = deferred
        /\ found.show = "none" => found.waiting = deferred
    BY <1>0, <2>1, <2>2, FoundAction, ZenonT(60) DEF ChoicesAreNoTemplates
  <2>4. CASE found.show = "none"
    <3>1. clear' = FALSE /\ deferred' = found.waiting
      BY <1>1, <1>4, <2>1, <2>4 DEF process_display_parsing
    <3> QED BY <3>1, <1>2, <2>2, <2>3, <2>4 DEF DeferredInv
  <2>5. CASE found.show # "none"
    <3>1. /\ deferred' = NotDeferred
          /\ shown' = [action |-> found.show, contract |-> p.contract, screen |-> p.screen]
      BY <1>1, <1>4, <2>1, <2>5 DEF process_display_parsing
    <3>2. shown'.action = found.show /\ shown'.contract = p.contract
      BY <3>1
    <3> QED BY <3>1, <3>2, <1>2, <2>2, <2>3, <2>5 DEF DeferredInv
  <2> QED BY <2>4, <2>5
<1> QED BY <1>3, <1>4

LEMMA DeferredInductive ==
  ASSUME ChoicesAreNoTemplates
  PROVE  TypeOK /\ ValuesInv /\ DeferredInv /\ [Next]_vars => DeferredInv'
<1> SUFFICES ASSUME TypeOK, ValuesInv, DeferredInv, [Next]_vars
             PROVE  DeferredInv'
  OBVIOUS
<1>1. CASE NewTransaction
  BY <1>1 DEF NewTransaction, DeferredInv
<1>2. ASSUME NEW p \in NodeParts, NEW memory \in BOOLEAN, DamlNode(p, memory)
      PROVE  DeferredInv'
  <2>1. p \in Part
    BY PartsAssumption
  <2> QED BY <1>2, <2>1, DeferredNode
<1>3. CASE Metadata
  BY <1>3 DEF Metadata, history, nodes, DeferredInv
<1>4. ASSUME NEW p \in ContractParts, InputContract(p)
      PROVE  DeferredInv'
  BY <1>4, DeferredContract
<1>5. CASE process_prepared_tx_finalize
  <2>1. /\ deferred' = NotDeferred /\ performed' = performed /\ shown' = shown
        /\ clear' => clear
        /\ verdict' = "clear" => clear'
    BY <1>5, Zenon DEF process_prepared_tx_finalize, history, nodes
  <2> QED BY <2>1 DEF DeferredInv
<1>6. CASE UNCHANGED vars
  BY <1>6 DEF vars, DeferredInv
<1> QED BY <1>1, <1>2, <1>3, <1>4, <1>5, <1>6 DEF Next

\* An accept, reject or withdraw screen carries the values of a contract on which a node
\* performs that action (find_tx_type_and_config, global_expected_contract_id).
THEOREM DeferredScreenIsBound == Spec => []ScreenOfExercised
<1>1. CASE ChoicesAreNoTemplates
  <2>1. Init => TypeOK /\ ValuesInv /\ DeferredInv
    BY Initially DEF Init, DeferredInv
  <2>2. TypeOK /\ ValuesInv /\ DeferredInv /\ [Next]_vars => (TypeOK /\ ValuesInv /\ DeferredInv)'
    BY <1>1, Inductive, DeferredInductive
  <2>3. DeferredInv => ScreenOfExercised
    BY DEF DeferredInv, ScreenOfExercised
  <2> QED BY <2>1, <2>2, <2>3, PTL DEF Spec
<1>2. CASE ~ChoicesAreNoTemplates
  <2>1. ScreenOfExercised
    BY <1>2 DEF ScreenOfExercised
  <2> QED BY <2>1, PTL
<1> QED BY <1>1, <1>2
-----------------------------------------------------------------------------
(***************************************************************************)
(* No false alarms.  A check that has given up had a reason, and none of   *)
(* the reasons but the limits goes together with agreement.                *)
(***************************************************************************)
\* Two of the holdings written name different instruments.
Mixed ==
  \E j, k \in DOMAIN written :
    written[j].instrument # "none" /\ written[k].instrument \notin {"none", written[j].instrument}

TooMuch == Len(written) > MAX_HOLDINGS \/ Cardinality(acted) > MAX_USED_CONTRACTS \/ starved

Reason == opaque \/ ~(disclosed \subseteq acted) \/ Mixed \/ TooMuch

\* What holds until the transaction is finalized.
ReasonInv ==
  /\ IsFiniteSet(acted)
  /\ phase = "nodes" => disclosed = {}
  /\ phase # "done" /\ ~store.ok => Reason
  /\ store.ok /\ store.holdings_instrument # "none" =>
       \E k \in DOMAIN written : written[k].instrument = store.holdings_instrument
  /\ phase # "done" /\ shown # NothingShown => clear \/ display_failed

\* The reasons of values_record_used_contract.
LEMMA ListGivesUp ==
  ASSUME NEW s \in Store, NEW c \in Contracts, NEW memory \in BOOLEAN,
         ~values_record_used_contract(s, c, memory).ok, s.ok
  PROVE  ~memory \/ (c \notin s.used /\ Cardinality(s.used) >= MAX_USED_CONTRACTS)
<1> SUFFICES ASSUME memory,
                    c \in s.used \/ ~(Cardinality(s.used) >= MAX_USED_CONTRACTS)
             PROVE  FALSE
  OBVIOUS
<1>1. CASE c \in s.used
  <2>1. values_record_used_contract(s, c, memory) = s
    BY <1>1 DEF values_record_used_contract
  <2> QED BY <2>1
<1>2. CASE c \notin s.used
  <2>1. values_record_used_contract(s, c, memory) = [s EXCEPT !.used = @ \cup {c}]
    BY <1>2 DEF values_record_used_contract
  <2> QED BY <2>1 DEF Store
<1> QED BY <1>1, <1>2

\* The reasons of values_report_holding.
LEMMA HoldingGivesUp ==
  ASSUME NEW s \in Store, NEW h \in ReportedHolding, s.ok, ~values_report_holding(s, h).ok
  PROVE  \/ Len(s.holdings) >= MAX_HOLDINGS
         \/ /\ h.instrument # "none" /\ s.holdings_instrument # "none"
            /\ s.holdings_instrument # h.instrument
<1> SUFFICES ASSUME ~(Len(s.holdings) >= MAX_HOLDINGS),
                    \/ h.instrument = "none" \/ s.holdings_instrument = "none"
                    \/ s.holdings_instrument = h.instrument
             PROVE  FALSE
  OBVIOUS
<1> DEFINE recorded == [s EXCEPT !.holdings = Append(@, h)]
<1>1. recorded.ok
  BY DEF Store
<1>2. [recorded EXCEPT !.holdings_instrument = h.instrument].ok
  BY DEF Store
<1> QED BY <1>1, <1>2 DEF values_report_holding

\* The reasons of values_collect_from_node.
LEMMA CollectGivesUp ==
  ASSUME NEW s \in Store, NEW p \in Part, s.ok, ~values_collect_from_node(s, p).ok
  PROVE  Opaque(p) \/ (WritesHolding(p) /\ ~values_report_holding(s, Written(p)).ok)
<1>1. p.kind = "create"
  BY DEF values_collect_from_node
<1>2. ~DecodeCreate(s, p).ok
  BY <1>1 DEF values_collect_from_node
<1> SUFFICES ASSUME ~Opaque(p)
             PROVE  WritesHolding(p) /\ ~values_report_holding(s, Written(p)).ok
  OBVIOUS
<1>3. ~(p.fields # "unparsed" /\ p.template \in NON_HOLDING_TEMPLATES)
  BY <1>2 DEF DecodeCreate
<1>4. WritesHolding(p)
  BY <1>1, <1>3 DEF Opaque
<1>5. DecodeCreate(s, p) = values_report_holding(s, Written(p))
  BY <1>3, <1>4 DEF DecodeCreate, WritesHolding
<1> QED BY <1>2, <1>4, <1>5

\* A screen that was chosen is shown or given up.
LEMMA ScreenChosen ==
  ASSUME NEW s, NEW p, NEW w, shown # NothingShown => clear \/ display_failed,
         \/ NoDisplayParsing(s)
         \/ ~clear /\ ~display_failed /\ process_display_parsing(s, p, w)
  PROVE  shown' # NothingShown => clear' \/ display_failed'
<1>1. CASE NoDisplayParsing(s)
  BY <1>1 DEF NoDisplayParsing
<1>2. CASE ~clear /\ ~display_failed /\ process_display_parsing(s, p, w)
  BY <1>2 DEF process_display_parsing
<1> QED BY <1>1, <1>2

\* Parsing for display records nothing.
LEMMA BindKeeps ==
  ASSUME NEW s \in Store, NEW p, NEW w, NoDisplayParsing(s) \/ process_display_parsing(s, p, w)
  PROVE  store'.ok = s.ok /\ store'.holdings_instrument = s.holdings_instrument
<1>1. ASSUME NEW a
      PROVE  LET r == values_bind_from_display(s, a, p.screen)
             IN r.ok = s.ok /\ r.holdings_instrument = s.holdings_instrument
  <2>1. PICK x : x = BoundValues(a, p.screen)
    OBVIOUS
  <2>2. values_bind_from_display(s, a, p.screen) = [s EXCEPT !.bound = x]
    BY <2>1 DEF values_bind_from_display
  <2> QED BY <2>2 DEF Store
<1>2. store' = s \/ \E a : store' = values_bind_from_display(s, a, p.screen)
  BY DEF process_display_parsing, NoDisplayParsing
<1> QED BY <1>1, <1>2

LEMMA ReasonNode ==
  ASSUME TypeOK, ValuesInv, ReasonInv, NEW p \in Part, NEW memory \in BOOLEAN, DamlNode(p, memory)
  PROVE  ReasonInv'
<1>1. PICK l, c : /\ l = IF p.kind = "rollback" THEN store
                         ELSE values_record_used_contract(store, p.contract, memory)
                  /\ c = values_collect_from_node(l, p)
  OBVIOUS
<1>2. /\ store \in Store /\ WithinLimits(store)
      /\ p.contract \in Contracts /\ Written(p) \in ReportedHolding
      /\ written \in Seq(ReportedHolding) /\ Len(written) \in Nat /\ opaque \in BOOLEAN
  BY WrittenType DEF TypeOK, Part
<1>3. /\ l \in Store /\ WithinLimits(l)
      /\ l.ok => /\ store.ok /\ l.holdings = store.holdings
                 /\ l.holdings_instrument = store.holdings_instrument
  BY <1>1, <1>2, RecordUsed
<1>4. /\ c \in Store
      /\ c.ok => /\ l.ok
                 /\ WritesHolding(p) => c = values_report_holding(l, Written(p))
                 /\ ~WritesHolding(p) => c = l
  BY <1>1, <1>3, Collected
<1>5. /\ \/ NoDisplayParsing(c)
         \/ ~clear /\ ~display_failed /\ process_display_parsing(c, p, NotDeferred)
      /\ phase = "nodes" /\ phase' = "nodes" /\ disclosed' = disclosed /\ Observe(p)
  BY <1>1 DEF DamlNode
<1>13. /\ starved => starved'
       /\ ~memory => starved'
  BY DEF DamlNode
<1>6. store'.ok = c.ok /\ store'.holdings_instrument = c.holdings_instrument
  BY <1>4, <1>5, BindKeeps
<1>7. /\ acted' = IF p.kind = "rollback" THEN acted ELSE acted \cup {p.contract}
      /\ opaque' = (opaque \/ Opaque(p))
      /\ written' = IF WritesHolding(p) THEN Append(written, Written(p)) ELSE written
  BY <1>5 DEF Observe
<1>8. /\ IsFiniteSet(acted) /\ IsFiniteSet(acted') /\ Cardinality(acted) \in Nat
      /\ Cardinality(acted) <= Cardinality(acted') /\ Cardinality(acted') \in Nat
      /\ (p.kind # "rollback" /\ p.contract \notin acted) => Cardinality(acted') = Cardinality(acted) + 1
  <2>1. IsFiniteSet(acted) /\ Cardinality(acted) \in Nat
    BY FS_CardinalityType DEF ReasonInv
  <2> QED BY <1>7, <2>1, FS_AddElement
<1>9. /\ Len(written') \in Nat /\ Len(written) <= Len(written')
      /\ WritesHolding(p) => /\ Len(written') = Len(written) + 1
                             /\ Len(written) + 1 \in DOMAIN written'
                             /\ written'[Len(written) + 1] = Written(p)
      /\ \A k \in DOMAIN written : k \in DOMAIN written' /\ written'[k] = written[k]
  BY <1>2, <1>7
<1>10. ASSUME ~c.ok PROVE Reason'
  <2>1. CASE ~store.ok
    <3>1. opaque \/ Mixed \/ TooMuch
      BY <1>5, <2>1 DEF ReasonInv, Reason
    <3>2. opaque => opaque'
      BY <1>7
    <3>3. Mixed => Mixed'
      BY <1>9 DEF Mixed
    <3>4. TooMuch => TooMuch'
      <4>1. Len(written) > MAX_HOLDINGS => Len(written') > MAX_HOLDINGS
        BY <1>2, <1>9, LimitsAssumption
      <4>2. Cardinality(acted) > MAX_USED_CONTRACTS => Cardinality(acted') > MAX_USED_CONTRACTS
        BY <1>8, LimitsAssumption
      <4> QED BY <1>13, <4>1, <4>2, Zenon DEF TooMuch
    <3> QED BY <3>1, <3>2, <3>3, <3>4 DEF Reason
  <2>2. CASE store.ok /\ ~l.ok
    <3>1. store.used = acted /\ p.kind # "rollback"
      BY <1>1, <1>5, <2>2 DEF ValuesInv, StoreIsHistory
    <3>2. ~memory \/ (p.contract \notin acted /\ Cardinality(acted) >= MAX_USED_CONTRACTS)
      BY <1>1, <1>2, <2>2, <3>1, ListGivesUp
    <3>3. TooMuch'
      <4>1. p.contract \notin acted /\ Cardinality(acted) >= MAX_USED_CONTRACTS =>
              Cardinality(acted') > MAX_USED_CONTRACTS
        BY <1>8, <3>1, LimitsAssumption
      <4> QED BY <1>13, <3>2, <4>1, Zenon DEF TooMuch
    <3> QED BY <3>3 DEF Reason
  <2>3. CASE store.ok /\ l.ok
    <3>1. Opaque(p) \/ (WritesHolding(p) /\ ~values_report_holding(l, Written(p)).ok)
      BY <1>1, <1>3, <1>10, <2>3, CollectGivesUp
    <3>2. CASE Opaque(p)
      BY <1>7, <3>2 DEF Reason
    <3>3. CASE WritesHolding(p) /\ ~values_report_holding(l, Written(p)).ok
      <4>1. \/ Len(written) >= MAX_HOLDINGS
            \/ /\ Written(p).instrument # "none" /\ store.holdings_instrument # "none"
               /\ store.holdings_instrument # Written(p).instrument
        <5>1. l.holdings = written
          BY <1>3, <2>3 DEF ValuesInv, StoreIsHistory
        <5> QED BY <1>2, <1>3, <2>3, <3>3, <5>1, HoldingGivesUp
      <4>2. CASE Len(written) >= MAX_HOLDINGS
        <5>1. TooMuch'
          BY <1>2, <1>9, <3>3, <4>2, LimitsAssumption DEF TooMuch
        <5> QED BY <5>1 DEF Reason
      <4>3. CASE /\ Written(p).instrument # "none" /\ store.holdings_instrument # "none"
                 /\ store.holdings_instrument # Written(p).instrument
        <5>1. PICK k \in DOMAIN written : written[k].instrument = store.holdings_instrument
          BY <2>3, <4>3 DEF ReasonInv
        <5>2. Mixed'
          BY <1>9, <3>3, <4>3, <5>1 DEF Mixed
        <5> QED BY <5>2 DEF Reason
      <4> QED BY <4>1, <4>2, <4>3
    <3> QED BY <3>1, <3>2, <3>3
  <2> QED BY <2>1, <2>2, <2>3
<1>11. ASSUME c.ok, c.holdings_instrument # "none"
       PROVE  \E k \in DOMAIN written' : written'[k].instrument = c.holdings_instrument
  <2>1. l.ok /\ store.ok /\ l.holdings_instrument = store.holdings_instrument
    BY <1>3, <1>4, <1>11
  <2>2. l.holdings_instrument # "none" =>
          \E k \in DOMAIN written' : written'[k].instrument = l.holdings_instrument
    BY <1>9, <2>1 DEF ReasonInv
  <2>3. CASE WritesHolding(p)
    <3>1. \/ c.holdings_instrument = l.holdings_instrument
          \/ Written(p).instrument = c.holdings_instrument
      BY <1>2, <1>3, <1>4, <1>11, <2>1, <2>3, ReportHolding
    <3> QED BY <1>9, <1>11, <2>2, <2>3, <3>1
  <2>4. CASE ~WritesHolding(p)
    BY <1>4, <1>11, <2>2, <2>4
  <2> QED BY <2>3, <2>4
<1>12. shown' # NothingShown => clear' \/ display_failed'
  BY <1>5, ScreenChosen DEF ReasonInv
<1> QED BY <1>5, <1>6, <1>8, <1>10, <1>11, <1>12 DEF ReasonInv

\* values_can_clear_sign asks for no more than the agreement.
LEMMA Agreed ==
  ASSUME TypeOK, ValuesInv, ReasonInv, clear, store.ok, Agreement
  PROVE  values_can_clear_sign(store)
<1>1. /\ store.holdings = written
      /\ \A k \in DOMAIN written :
           written[k].instrument # "none" => written[k].instrument = store.holdings_instrument
  BY DEF ValuesInv, StoreIsHistory
<1>2. PICK a \in Actions, screen \in Screen :
        shown.action = a /\ shown.screen = screen /\ store.bound = BoundValues(a, screen)
  BY DEF ValuesInv, BoundIsShown
<1>3. PICK config, b : config = DISPLAY_CONFIGS[a] /\ b = store.bound
  OBVIOUS
<1>4. /\ b.bound_destination = config.destination
      /\ config.destination = "SENDER" => b.destination = screen.sender
      /\ config.destination = "RECEIVER" => b.destination = screen.receiver
      /\ config.destination # "NONE" => b.sender = screen.sender
      /\ config.destination # "NONE" /\ config.comparable => b.amount = screen.amount
      /\ "admin" \in config.fields => b.admin = screen.admin
      /\ "instrument" \in config.fields => b.instrument = screen.instrument
  BY <1>2, <1>3, Bound
<1>5. /\ ~config.comparable => b.amount = "none"
      /\ "admin" \notin config.fields => b.admin = "none"
  BY <1>2, <1>3 DEF BoundValues
<1>6. config.destination \in {"NONE", "SENDER", "RECEIVER"} /\ config.comparable \in BOOLEAN
  BY <1>3, Configs
<1>7. screen.sender # "none" /\ screen.receiver # "none" /\ screen.instrument # "none"
  BY NotShownAssumption DEF Screen
<1>8. b.bound_destination # "none"
  BY <1>4, <1>6
<1>9. CASE config.destination = "NONE"
  <2>1. written = <<>>
    BY <1>2, <1>3, <1>9 DEF Agreement
  <2> QED BY <1>1, <1>3, <1>4, <1>8, <1>9, <2>1 DEF values_can_clear_sign
<1>10. CASE config.destination # "NONE"
  <2> DEFINE destination == IF config.destination = "SENDER" THEN screen.sender
                            ELSE screen.receiver
             paid == {k \in DOMAIN written : written[k].owner = destination}
             to_self == config.destination = "RECEIVER" /\ screen.sender = screen.receiver
  <2>1. /\ \A k \in DOMAIN written : written[k].owner \in {destination, screen.sender}
        /\ Cardinality(paid) = 1 \/ (to_self /\ Cardinality(paid) = 2)
        /\ config.comparable => \E k \in paid : written[k].amount = screen.amount
        /\ "admin" \in config.fields =>
             \A k \in DOMAIN written : written[k].admin = screen.admin
        /\ \A k \in DOMAIN written : written[k].instrument # "none" =>
             "instrument" \in config.fields /\ written[k].instrument = screen.instrument
    BY <1>2, <1>3, <1>10, Zenon DEF Agreement
  <2>2. b.destination = destination /\ b.destination # "none" /\ b.sender = screen.sender
    BY <1>4, <1>6, <1>7, <1>10
  <2>3. to_self => is_transfer_to_self(store)
    BY <1>3, <1>4, <1>7, <1>10, <2>2 DEF is_transfer_to_self
  <2>4. paid # {}
    <3> HIDE DEF paid, to_self
    <3> QED BY <2>1, FS_EmptySet
  <2>5. \E k \in paid : b.amount = "none" \/ written[k].amount = b.amount
    BY <1>4, <1>5, <1>6, <1>10, <2>1, <2>4
  <2>6. {k \in DOMAIN store.holdings : store.holdings[k].owner = store.bound.destination} = paid
    BY <1>1, <1>3, <2>2
  <2>7. \A k \in DOMAIN written \ paid : b.sender # "none" /\ written[k].owner = b.sender
    BY <1>7, <2>1, <2>2
  <2>8. /\ Cardinality(paid) # 0
        /\ Cardinality(paid) > 1 => is_transfer_to_self(store) /\ Cardinality(paid) <= 2
    <3> HIDE DEF paid
    <3> QED BY <2>1, <2>3
  <2> HIDE DEF paid, destination, to_self
  <2>9. destination_holds_value(store)
    BY <1>1, <1>3, <2>5, <2>6, <2>7, <2>8 DEF destination_holds_value
  <2>10. b.admin # "none" => holdings_match_displayed_instrument(store)
    BY <1>1, <1>3, <1>4, <1>5, <2>1 DEF holdings_match_displayed_instrument
  <2>11. holdings_match_displayed_id(store)
    <3>1. store.holdings_instrument # "none" =>
            \E k \in DOMAIN written : written[k].instrument = store.holdings_instrument
      BY DEF ReasonInv
    <3> QED BY <1>3, <1>4, <1>7, <2>1, <3>1 DEF holdings_match_displayed_id
  <2> QED BY <1>3, <1>4, <1>8, <1>10, <2>2, <2>9, <2>10, <2>11 DEF values_can_clear_sign
<1> QED BY <1>9, <1>10

\* Agreement leaves only the limits as a reason.
LEMMA AgreementReason ==
  ASSUME TypeOK, Reason, Agreement, shown # NothingShown
  PROVE  TooMuch
<1>1. ~opaque /\ disclosed \subseteq acted
  BY DEF Agreement
<1>2. PICK config, screen : config = DISPLAY_CONFIGS[shown.action] /\ screen = shown.screen
  OBVIOUS
<1>3. /\ config.destination = "NONE" => written = <<>>
      /\ config.destination # "NONE" =>
           \A k \in DOMAIN written : written[k].instrument # "none" =>
             written[k].instrument = screen.instrument
  BY <1>2, Zenon DEF Agreement
<1>4. ~Mixed
  BY <1>3 DEF Mixed
<1> QED BY <1>1, <1>4 DEF Reason

LEMMA ReasonFinalize ==
  ASSUME TypeOK, ValuesInv, ReasonInv, process_prepared_tx_finalize
  PROVE  ReasonInv' /\ AgreementMeansClear'
<1>1. /\ phase = "contracts" /\ phase' = "done"
      /\ clear /\ values_can_clear_sign(store) => verdict' = "clear"
      /\ UNCHANGED <<display_failed, written, opaque, performed, acted, disclosed, shown, starved>>
  BY DEF process_prepared_tx_finalize, history, nodes
<1>2. PICK s : s = IF clear /\ ~values_can_clear_sign(store) THEN give_up(store) ELSE store
  OBVIOUS
<1>3. s \in Store /\ (s.ok => s = store)
  BY <1>2, GivingUp DEF TypeOK
<1>4. store' = [s EXCEPT !.used = {}]
  BY <1>2 DEF process_prepared_tx_finalize, values_release_used_contracts
<1>5. store'.ok = s.ok /\ store'.holdings_instrument = s.holdings_instrument
  BY <1>3, <1>4 DEF Store
<1>6. ReasonInv'
  BY <1>1, <1>3, <1>5 DEF ReasonInv
<1>7. ASSUME verdict' = "blind", shown # NothingShown, Agreement
      PROVE  display_failed \/ TooMuch
  <2>1. clear \/ display_failed
    BY <1>1, <1>7 DEF ReasonInv
  <2>2. CASE clear
    <3>1. ~store.ok
      BY <1>1, <1>7, <2>2, Agreed
    <3>2. Reason
      BY <1>1, <3>1 DEF ReasonInv
    <3> QED BY <1>7, <3>2, AgreementReason
  <2> QED BY <2>1, <2>2
<1>8. Agreement' <=> Agreement
  BY <1>1 DEF Agreement
<1> QED BY <1>1, <1>6, <1>7, <1>8 DEF AgreementMeansClear, TooMuch

LEMMA ReasonInductive ==
  ASSUME TypeOK, ValuesInv, ReasonInv, AgreementMeansClear, [Next]_vars
  PROVE  ReasonInv' /\ AgreementMeansClear'
<1>1. CASE NewTransaction
  BY <1>1, FS_EmptySet, Reset DEF NewTransaction, ReasonInv, AgreementMeansClear, values_check_reset
<1>2. ASSUME NEW p \in NodeParts, NEW memory \in BOOLEAN, DamlNode(p, memory)
      PROVE  ReasonInv' /\ AgreementMeansClear'
  <2>1. p \in Part
    BY PartsAssumption
  <2>2. verdict' = "none"
    BY <1>2 DEF DamlNode, ValuesInv, DoneHasVerdict
  <2> QED BY <1>2, <2>1, <2>2, ReasonNode DEF AgreementMeansClear
<1>3. CASE Metadata
  <2>1. /\ phase = "nodes" /\ phase' = "contracts"
        /\ UNCHANGED <<store, clear, display_failed, deferred, verdict, written, opaque,
                       performed, acted, disclosed, shown, starved>>
    BY <1>3 DEF Metadata, history, nodes
  <2>2. verdict' = "none"
    BY <2>1 DEF ValuesInv, DoneHasVerdict
  <2>3. Reason' <=> Reason
    BY <2>1 DEF Reason, Mixed, TooMuch
  <2> QED BY <2>1, <2>2, <2>3 DEF ReasonInv, AgreementMeansClear
<1>4. ASSUME NEW p \in ContractParts, InputContract(p)
      PROVE  ReasonInv' /\ AgreementMeansClear'
  <2>1. PICK c : c = values_check_disclosed_contract(store, p.contract)
    OBVIOUS
  <2>2. p \in Part /\ p.contract \in Contracts /\ store \in Store /\ WithinLimits(store)
    BY PartsAssumption DEF Part, TypeOK
  <2>3. /\ c \in Store /\ (c.ok => c = store)
        /\ ~c.ok => (~store.ok \/ p.contract \notin store.used)
    BY <2>1, <2>2, GivingUp DEF values_check_disclosed_contract
  <2>4. /\ \/ NoDisplayParsing(c)
           \/ ~clear /\ ~display_failed /\ process_display_parsing(c, p, deferred)
        /\ phase = "contracts" /\ phase' = "contracts" /\ verdict' = verdict
        /\ disclosed' = disclosed \cup {p.contract}
        /\ UNCHANGED <<written, opaque, performed, acted, starved>>
    BY <1>4, <2>1 DEF InputContract, nodes
  <2>5. store'.ok = c.ok /\ store'.holdings_instrument = c.holdings_instrument
    BY <2>3, <2>4, BindKeeps
  <2>6. ~c.ok => Reason'
    <3>1. CASE ~store.ok
      BY <2>4, <3>1 DEF ReasonInv, Reason, Mixed, TooMuch
    <3>2. CASE store.ok /\ ~c.ok
      <4>1. p.contract \notin acted
        BY <2>3, <2>4, <3>2 DEF ValuesInv, StoreIsHistory
      <4> QED BY <2>4, <4>1 DEF Reason
    <3> QED BY <3>1, <3>2
  <2>7. shown' # NothingShown => clear' \/ display_failed'
    BY <2>4, ScreenChosen DEF ReasonInv
  <2>8. verdict' = "none"
    BY <2>4 DEF ValuesInv, DoneHasVerdict
  <2>9. c.ok /\ c.holdings_instrument # "none" =>
          \E k \in DOMAIN written' : written'[k].instrument = c.holdings_instrument
    BY <2>3, <2>4 DEF ReasonInv
  <2> QED BY <2>4, <2>5, <2>6, <2>7, <2>8, <2>9 DEF ReasonInv, AgreementMeansClear
<1>5. CASE process_prepared_tx_finalize
  BY <1>5, ReasonFinalize
<1>6. CASE UNCHANGED vars
  <2>1. (Reason' <=> Reason) /\ (Agreement' <=> Agreement)
    BY <1>6 DEF vars, Reason, Mixed, TooMuch, Agreement
  <2> QED BY <1>6, <2>1 DEF vars, ReasonInv, AgreementMeansClear
<1> QED BY <1>1, <1>2, <1>3, <1>4, <1>5, <1>6 DEF Next

\* The values check raises no false alarm: a transaction that agrees with the screen it chose
\* is reviewed with its details unless a limit of the store or the memory stands in the way.
THEOREM NoFalseAlarm == Spec => []AgreementMeansClear
<1>1. Init => ReasonInv /\ AgreementMeansClear
  BY FS_EmptySet, Reset DEF Init, ReasonInv, AgreementMeansClear, values_check_reset
<1>2. TypeOK /\ ValuesInv /\ ReasonInv /\ AgreementMeansClear /\ [Next]_vars =>
        (ReasonInv /\ AgreementMeansClear)'
  BY ReasonInductive
<1> QED BY <1>1, <1>2, StoreKeepsItsLimits, StoreTellsTheHistory, PTL DEF Spec
=============================================================================
