---------------------------- MODULE SignTxProofs ----------------------------
(***************************************************************************)
(* What the command loop promises for every buffer size, every number of   *)
(* messages, every set of paths and whatever the host sends.               *)
(*                                                                         *)
(* The reply that is owed is the lock of the app: while a review waits for *)
(* the user no command is handed over, so neither the path of the flow nor *)
(* the setting can change under it.  The promises are inductive only       *)
(* together, and together they make the app a signing device in the sense  *)
(* of Signer.                                                              *)
(***************************************************************************)
EXTENDS SignTx, TLAPS

\* A flow answered with an error is closed, and only an open flow is under review.
RefusalCloses ==
  /\ answered = "refused" => req_type = "CONFIRM_ADDRESS"
  /\ screen \in Reviews => req_type = "CONFIRM_TRANSACTION"

\* The path in the context is that of the open or reviewed flow.
PathOfFlow ==
  req_type = "CONFIRM_TRANSACTION" \/ screen \in Reviews => path = flow_path

\* No reply is owed when an assertion has stopped the app.
AssertionIdles == asserted # "none" => reply # "pending"

\* The inductive invariant of the command loop.
SessionInv == ReplyOwed /\ BlindNeedsSetting /\ RefusalCloses /\ PathOfFlow /\ AssertionIdles

\* Presenting an accepted message puts up a review, and then owes a reply, or replies.
LEMMA Presenting ==
  ASSUME NEW t, SessionInv, io_recv_command, req_type = "CONFIRM_TRANSACTION", Present(t)
  PROVE  /\ reply' = "pending" <=> screen' \in Reviews \cup {"address"}
         /\ screen' = "blind" => allow_blind_sign
         /\ answered' # "refused" /\ req_type' = "CONFIRM_TRANSACTION"
BY DEF SessionInv, RefusalCloses, Present, Reviews

LEMMA AfterMessageStep ==
  ASSUME NEW result, NEW more \in BOOLEAN, SessionInv, io_recv_command,
         req_type = "CONFIRM_TRANSACTION", result.sw \notin {"pending", "signature"},
         AfterMessage(result, more),
         UNCHANGED <<path, flow_path, allow_blind_sign>>, asserted' = asserted
  PROVE  SessionInv'
<1>0. screen \notin Reviews \cup {"address"} /\ path = flow_path
  BY DEF SessionInv, ReplyOwed, PathOfFlow, AssertionIdles, io_recv_command
<1>1. CASE result.sw # "OK"
  BY <1>0, <1>1 DEF AfterMessage, refuse_tx, SessionInv, ReplyOwed, BlindNeedsSetting,
                    RefusalCloses, PathOfFlow, AssertionIdles, Reviews
<1>2. CASE result.sw = "OK" /\ more
  BY <1>0, <1>2 DEF AfterMessage, SessionInv, ReplyOwed, BlindNeedsSetting, RefusalCloses,
                    PathOfFlow, AssertionIdles, Reviews
<1>3. CASE result.sw = "OK" /\ ~more
  <2>1. Present(result.tx)
    BY <1>3 DEF AfterMessage
  <2>2. /\ reply' = "pending" <=> screen' \in Reviews \cup {"address"}
        /\ screen' = "blind" => allow_blind_sign
        /\ answered' # "refused" /\ req_type' = "CONFIRM_TRANSACTION"
    BY <2>1, Presenting
  <2> QED BY <2>2, <1>0 DEF SessionInv, ReplyOwed, BlindNeedsSetting, RefusalCloses, PathOfFlow,
                            AssertionIdles, io_recv_command
<1> QED BY <1>1, <1>2, <1>3

-----------------------------------------------------------------------------
(***************************************************************************)
(* Processing a message yields a status word, whatever the message.        *)
(***************************************************************************)
LEMMA Outcomes ==
  ASSUME NEW t, NEW sw
  PROVE  Accept(t).sw = "OK" /\ abort_prepared_tx(t, sw).sw = sw
BY DEF Accept, abort_prepared_tx

LEMMA DisplayStatus ==
  ASSUME NEW t, NEW s
  PROVE  /\ process_display_parsing(t, s).sw \in {"OK", "SW_TX_PARSING_FAIL"}
         /\ parse_node_for_display(t, s).sw \in {"OK", "SW_TX_PARSING_FAIL"}
         /\ parse_input_contract_for_display(t, s).sw \in {"OK", "SW_TX_PARSING_FAIL"}
<1>1. ASSUME NEW u PROVE format_and_populate_display_items(u, s).sw \in {"OK", "SW_TX_PARSING_FAIL"}
  BY Outcomes, Zenon DEF format_and_populate_display_items
<1>2. ASSUME NEW u PROVE process_display_parsing(u, s).sw \in {"OK", "SW_TX_PARSING_FAIL"}
  BY <1>1, Outcomes, Zenon DEF process_display_parsing
<1> QED BY <1>2, Outcomes, Zenon DEF parse_node_for_display, parse_input_contract_for_display

LEMMA PartStatus ==
  ASSUME NEW t, NEW p, NEW parsed
  PROVE  /\ DamlTxPart(t, p).sw \notin {"pending", "signature"}
         /\ DamlNode(t, p).sw \notin {"pending", "signature"}
         /\ MetadataPart(t, p, parsed).sw \notin {"pending", "signature"}
         /\ InputContract(t, p, parsed).sw \notin {"pending", "signature"}
<1>1. DamlTxPart(t, p).sw \notin {"pending", "signature"}
  BY Outcomes, Zenon DEF DamlTxPart
<1>2. DamlNode(t, p).sw \notin {"pending", "signature"}
  <2> DEFINE noted == [values_collect_from_node(t, p) EXCEPT
                !.tree = IF @ = "ok" /\ p.tree = "impossible" THEN "impossible" ELSE @,
                !.orphan = @ \/ (p.tree = "orphan" /\ t.expected > 1)]
             shown == IF noted.tree = "ok" THEN parse_node_for_display(noted, p.screen)
                      ELSE Accept(noted)
             counted == [shown.tx EXCEPT
                !.recv_node_idx = @ + 1,
                !.tx_state = IF t.recv_node_idx + 1 = t.expected THEN "METADATA" ELSE @]
  <2>1. DamlNode(t, p) =
          IF ~p.decodes THEN abort_prepared_tx(t, "SW_TX_PARSING_FAIL")
          ELSE IF ~p.hashes THEN abort_prepared_tx(t, "SW_TX_HASH_FAIL")
          ELSE IF shown.sw # "OK" THEN abort_prepared_tx(shown.tx, shown.sw)
          ELSE Accept(counted)
    BY Zenon DEF DamlNode
  <2> HIDE DEF noted, counted
  <2>2. shown.sw \notin {"pending", "signature"}
    BY Outcomes, DisplayStatus, Zenon
  <2> HIDE DEF shown
  <2> QED BY <2>1, <2>2, Outcomes, SMT
<1>3. ASSUME NEW u PROVE process_prepared_tx_finalize(u, parsed).sw \notin {"pending", "signature"}
  BY Outcomes, Zenon DEF process_prepared_tx_finalize
<1>4. ASSUME NEW u PROVE apply_node_tree_verdict(u).sw \notin {"pending", "signature"}
  BY Outcomes, Zenon DEF apply_node_tree_verdict
<1>5. MetadataPart(t, p, parsed).sw \notin {"pending", "signature"}
  BY <1>3, <1>4, Outcomes, Zenon DEF MetadataPart
<1>6. InputContract(t, p, parsed).sw \notin {"pending", "signature"}
  <2> DEFINE shown == parse_input_contract_for_display(
                        values_check_disclosed_contract(t, p), p.screen)
             counted == [shown.tx EXCEPT !.recv_node_idx = @ + 1]
  <2>1. InputContract(t, p, parsed) =
          IF ~p.decodes THEN abort_prepared_tx(t, "SW_TX_PARSING_FAIL")
          ELSE IF ~p.hashes THEN abort_prepared_tx(t, "SW_TX_HASH_FAIL")
          ELSE IF shown.sw # "OK" THEN abort_prepared_tx(shown.tx, shown.sw)
          ELSE IF counted.recv_node_idx = t.expected
          THEN process_prepared_tx_finalize(counted, parsed)
          ELSE Accept(counted)
    BY Zenon DEF InputContract
  <2> HIDE DEF counted
  <2>2. shown.sw \notin {"pending", "signature"}
    BY DisplayStatus, Zenon
  <2> HIDE DEF shown
  <2> QED BY <2>1, <2>2, <1>3, Outcomes, SMT
<1> QED BY <1>1, <1>2, <1>5, <1>6

LEMMA PreparedStatus ==
  ASSUME NEW t, NEW p, NEW parsed
  PROVE  process_prepared_tx_part(t, p, parsed).sw \notin {"pending", "signature"}
BY PartStatus, Outcomes, Zenon DEF process_prepared_tx_part

LEMMA HashStatus ==
  ASSUME NEW t, NEW sized \in BOOLEAN, NEW more \in BOOLEAN
  PROVE  process_transaction_hash(t, sized, more).sw \notin {"pending", "signature"}
BY Outcomes DEF process_transaction_hash

LEMMA MappingStatus ==
  ASSUME NEW t, NEW o, NEW m
  PROVE  /\ process_namespace_delegation(t, o, m).sw \notin {"pending", "signature"}
         /\ process_party_to_key_mapping(t, o, m).sw \notin {"pending", "signature"}
         /\ process_party_to_participant(t, o, m).sw \notin {"pending", "signature"}
<1>1. ASSUME NEW k PROVE check_party_key_value(t, k) \notin {"pending", "signature"}
  BY Zenon DEF check_party_key_value
<1>2. PartyToKeyStatus(t, m) \notin {"pending", "signature"}
  BY <1>1, Zenon DEF PartyToKeyStatus
<1>3. /\ HostingStatus(t, m) \notin {"pending", "signature"}
      /\ ParticipantsStatus(m.participants) \notin {"pending", "signature"}
  BY Zenon DEF HostingStatus, ParticipantsStatus
<1>4. process_namespace_delegation(t, o, m).sw \notin {"pending", "signature"}
  BY <1>1, Zenon DEF process_namespace_delegation
<1>5. process_party_to_key_mapping(t, o, m).sw \notin {"pending", "signature"}
  BY <1>2, Zenon DEF process_party_to_key_mapping
<1>6. process_party_to_participant(t, o, m).sw \notin {"pending", "signature"}
  BY <1>3, Zenon DEF process_party_to_participant
<1> QED BY <1>4, <1>5, <1>6

LEMMA TopologyStatus ==
  ASSUME NEW t, NEW o, NEW m, NEW finished
  PROVE  process_untyped_versioned_msg_tx(t, o, m, finished).sw \notin {"pending", "signature"}
<1>1. ASSUME NEW u PROVE add_hash(u, m).sw \notin {"pending", "signature"}
  BY Zenon DEF add_hash
<1>2. ASSUME NEW u
      PROVE  parse_topology_transaction_for_display(t, u, m).sw \notin {"pending", "signature"}
  BY MappingStatus, Zenon DEF parse_topology_transaction_for_display
<1>3. ASSUME NEW u, NEW v PROVE FinishOnboarding(v, u).sw \notin {"pending", "signature"}
  BY Zenon DEF FinishOnboarding
<1> QED BY <1>1, <1>2, <1>3, Zenon DEF process_untyped_versioned_msg_tx
-----------------------------------------------------------------------------
(***************************************************************************)
(* The steps.                                                              *)
(***************************************************************************)
LEMMA SessionInitially == Init => SessionInv
BY DEF Init, SessionInv, ReplyOwed, BlindNeedsSetting, RefusalCloses, PathOfFlow, AssertionIdles,
       Reviews

\* Commands that leave the flows alone, and GET_PUBLIC_KEY, which closes them.
LEMMA OtherCommandStep ==
  ASSUME SessionInv,
         \/ RejectedCommand \/ GetInfo \/ DerivationAssertion
         \/ \E type \in SigningTypes : SignTxTypeMismatch(type)
         \/ \E p \in Paths, display \in BOOLEAN : handler_get_public_key(p, display)
  PROVE  SessionInv'
<1>0. io_recv_command
  BY DEF RejectedCommand, GetInfo, DerivationAssertion, SignTxTypeMismatch, JustReply,
         handler_get_public_key
<1>1. screen \notin Reviews \cup {"address"}
  BY <1>0 DEF SessionInv, ReplyOwed, io_recv_command
<1>2. ASSUME NEW sw, sw # "pending", JustReply(sw) PROVE SessionInv'
  BY <1>1, <1>2 DEF JustReply, context, history, SessionInv, ReplyOwed, BlindNeedsSetting,
                    RefusalCloses, PathOfFlow, AssertionIdles, Reviews
<1>3. CASE RejectedCommand
  BY <1>2, <1>3 DEF RejectedCommand
<1>4. CASE GetInfo
  BY <1>2, <1>4 DEF GetInfo
<1>5. CASE \E type \in SigningTypes : SignTxTypeMismatch(type)
  BY <1>2, <1>5 DEF SignTxTypeMismatch
<1>6. CASE DerivationAssertion
  BY <1>1, <1>6 DEF DerivationAssertion, context, history, SessionInv, ReplyOwed,
                    BlindNeedsSetting, RefusalCloses, PathOfFlow, AssertionIdles, Reviews
<1>7. CASE \E p \in Paths, display \in BOOLEAN : handler_get_public_key(p, display)
  BY <1>0, <1>1, <1>7 DEF io_recv_command, handler_get_public_key, AnswerPublicKey, history,
                    SessionInv, ReplyOwed, BlindNeedsSetting, RefusalCloses, PathOfFlow,
                    AssertionIdles, Reviews
<1> QED BY <1>3, <1>4, <1>5, <1>6, <1>7

\* The first APDU, a chunk and a refusal.
LEMMA FlowStep ==
  ASSUME SessionInv,
         \/ \E type \in SigningTypes, p \in Paths, c \in Challenges : SignTxFirst(type, p, c)
         \/ \E type \in SigningTypes : SignTxRefused(type) \/ SignTxChunk(type)
  PROVE  SessionInv'
<1>0. io_recv_command
  BY DEF SignTxFirst, SignTxRefused, SignTxChunk, SignTxContinues
<1>1. screen \notin Reviews \cup {"address"}
  BY <1>0 DEF SessionInv, ReplyOwed, io_recv_command
<1>2. ASSUME NEW type \in SigningTypes, NEW p \in Paths, NEW c \in Challenges,
             SignTxFirst(type, p, c)
      PROVE  SessionInv'
  <2>1. /\ path' = p /\ flow_path' = p /\ screen' = screen /\ reply' \notin {"pending", "signature"}
        /\ allow_blind_sign' = allow_blind_sign
        /\ answered' = "refused" => req_type' = "CONFIRM_ADDRESS"
    BY <1>2, Zenon DEF SignTxFirst, refuse_tx
  <2> QED BY <1>1, <2>1 DEF SessionInv, ReplyOwed, BlindNeedsSetting, RefusalCloses, PathOfFlow,
                            AssertionIdles, Reviews
<1>3. ASSUME NEW type \in SigningTypes, SignTxRefused(type) PROVE SessionInv'
  BY <1>1, <1>3 DEF SignTxRefused, refuse_tx, SessionInv, ReplyOwed, BlindNeedsSetting,
                    RefusalCloses, PathOfFlow, AssertionIdles, Reviews
<1>4. ASSUME NEW type \in SigningTypes, SignTxChunk(type) PROVE SessionInv'
  BY <1>1, <1>4 DEF SignTxChunk, SignTxContinues, history, SessionInv, ReplyOwed,
                    BlindNeedsSetting, RefusalCloses, PathOfFlow, AssertionIdles, Reviews
<1> QED BY <1>2, <1>3, <1>4

\* A complete message.
LEMMA MessageStep ==
  ASSUME SessionInv,
         \/ \E p \in Components, more \in BOOLEAN : PreparedMessage(p, more)
         \/ \E sized \in BOOLEAN, more \in BOOLEAN : HashMessage(sized, more)
         \/ \E m \in TopologyMessages, more \in BOOLEAN :
               TopologyMsg(m, more) \/ HashStoreAssertion(m, more)
  PROVE  SessionInv'
<1>1. ASSUME NEW p \in Components, NEW more \in BOOLEAN, PreparedMessage(p, more)
      PROVE  SessionInv'
  BY <1>1, AfterMessageStep, PreparedStatus
     DEF PreparedMessage, MessageEnds, SignTxContinues
<1>2. ASSUME NEW sized \in BOOLEAN, NEW more \in BOOLEAN, HashMessage(sized, more)
      PROVE  SessionInv'
  BY <1>2, AfterMessageStep, HashStatus DEF HashMessage, MessageEnds, SignTxContinues
<1>3. ASSUME NEW m \in TopologyMessages, NEW more \in BOOLEAN, TopologyMsg(m, more)
      PROVE  SessionInv'
  BY <1>3, AfterMessageStep, TopologyStatus DEF TopologyMsg, MessageEnds, SignTxContinues
<1>4. ASSUME NEW m \in TopologyMessages, NEW more \in BOOLEAN, HashStoreAssertion(m, more)
      PROVE  SessionInv'
  BY <1>4 DEF HashStoreAssertion, MessageEnds, SignTxContinues, io_recv_command, SessionInv,
              ReplyOwed, BlindNeedsSetting, RefusalCloses, PathOfFlow, AssertionIdles, Reviews
<1> QED BY <1>1, <1>2, <1>3, <1>4

\* The user: answers, the way back to the menu, the setting, quitting.
LEMMA UserStep ==
  ASSUME SessionInv,
         \/ \E choice \in BOOLEAN : ReviewChoice(choice) \/ AddressChoice(choice)
         \/ DismissScreen \/ settings_controls_callback \/ Restart
  PROVE  SessionInv'
<1>1. ASSUME NEW choice \in BOOLEAN, ReviewChoice(choice) PROVE SessionInv'
  BY <1>1 DEF ReviewChoice, validate_transaction, SessionInv, ReplyOwed, BlindNeedsSetting,
              RefusalCloses, PathOfFlow, AssertionIdles, Reviews
<1>2. ASSUME NEW choice \in BOOLEAN, AddressChoice(choice) PROVE SessionInv'
  BY <1>2 DEF AddressChoice, context, history, SessionInv, ReplyOwed, BlindNeedsSetting,
              RefusalCloses, PathOfFlow, AssertionIdles, Reviews
<1>3. CASE DismissScreen
  BY <1>3 DEF DismissScreen, context, history, SessionInv, ReplyOwed, BlindNeedsSetting,
              RefusalCloses, PathOfFlow, AssertionIdles, Reviews
<1>4. CASE settings_controls_callback
  BY <1>4 DEF settings_controls_callback, context, history, SessionInv, ReplyOwed,
              BlindNeedsSetting, RefusalCloses, PathOfFlow, AssertionIdles, Reviews
<1>5. CASE Restart
  BY <1>5 DEF Restart, SessionInv, ReplyOwed, BlindNeedsSetting, RefusalCloses, PathOfFlow,
              AssertionIdles, Reviews
<1> QED BY <1>1, <1>2, <1>3, <1>4, <1>5

LEMMA SessionInductive == SessionInv /\ [Next]_vars => SessionInv'
<1> SUFFICES ASSUME SessionInv, [Next]_vars
             PROVE  SessionInv'
  OBVIOUS
<1>1. CASE UNCHANGED vars
  BY <1>1 DEF vars, SessionInv, ReplyOwed, BlindNeedsSetting, RefusalCloses, PathOfFlow,
              AssertionIdles
<1>2. CASE Next
  BY <1>2, OtherCommandStep, FlowStep, MessageStep, UserStep DEF Next
<1> QED BY <1>1, <1>2

\* The promises of the command loop hold together in every reachable state.
THEOREM SessionInvariance == Spec => []SessionInv
BY SessionInitially, SessionInductive, PTL DEF Spec

\* Every command is answered once: a reply is owed exactly while a review waits
\* (io_send_sw in the handlers, review_choice for the reviews).
THEOREM ReplyIsOwedForReviews == Spec => []ReplyOwed
<1>1. SessionInv => ReplyOwed
  BY DEF SessionInv
<1> QED BY <1>1, SessionInvariance, PTL

\* A blind review is only on the screen while N_storage.allow_blind_sign is set.
THEOREM BlindReviewNeedsSetting == Spec => []BlindNeedsSetting
<1>1. SessionInv => BlindNeedsSetting
  BY DEF SessionInv
<1> QED BY <1>1, SessionInvariance, PTL

\* refuse_tx ends the session: no review before the next first APDU.
THEOREM RefusalEndsFlow == Spec => []RefusedStaysClosed
<1>1. SessionInv => RefusedStaysClosed
  BY DEF SessionInv, RefusalCloses, RefusedStaysClosed
<1> QED BY <1>1, SessionInvariance, PTL

\* The reviewed flow is signed with the key of the path its first APDU named.
THEOREM ReviewedPath == Spec => []FlowPath
<1>1. SessionInv => FlowPath
  BY DEF SessionInv, PathOfFlow, FlowPath
<1> QED BY <1>1, SessionInvariance, PTL
-----------------------------------------------------------------------------
(***************************************************************************)
(* The app implements the signing device.                                  *)
(***************************************************************************)
\* What the user is asked, as the refinement mapping reads it.
Asking == IF screen \in Reviews \cup {"address"} THEN screen ELSE "nothing"

\* A command is handed over only while the user is asked nothing.
LEMMA CommandIdles == SessionInv /\ io_recv_command => Asking = "nothing"
BY DEF SessionInv, ReplyOwed, io_recv_command, Asking

\* A reply that leaves the flow and the screen alone.
LEMMA Responding ==
  ASSUME Asking = "nothing", reply' # "signature",
         UNCHANGED <<req_type, flow_path, screen, allow_blind_sign>>
  PROVE  Device!Respond
BY DEF Device!Respond, Device!Idle, Asking

\* A reply that leaves no flow open.
LEMMA Closing ==
  ASSUME Asking = "nothing", Asking' = "nothing", reply' # "signature",
         req_type' = "CONFIRM_ADDRESS", allow_blind_sign' = allow_blind_sign
  PROVE  Device!Close
BY DEF Device!Close, Device!Idle, Asking

\* Presenting a flow asks, blindly only with the setting, or replies.
LEMMA PresentingAsks ==
  ASSUME NEW t, Asking = "nothing", req_type = "CONFIRM_TRANSACTION", Present(t),
         UNCHANGED <<flow_path, allow_blind_sign>>
  PROVE  Device!AskClear \/ Device!AskBlind \/ Device!Respond
<1>1. req_type' = req_type /\ Asking = "nothing"
  BY DEF Present
<1>2. CASE t.clear /\ screen' = "clear" /\ reply' = "pending"
  BY <1>1, <1>2 DEF Device!AskClear, Device!Idle, Asking, Reviews
<1>3. CASE ~allow_blind_sign /\ screen' = "blind_error" /\ reply' = "SWO_INCORRECT_DATA"
  BY <1>1, <1>3 DEF Device!Respond, Device!Idle, Asking, Reviews
<1>4. CASE allow_blind_sign /\ screen' = "blind" /\ reply' = "pending"
  BY <1>1, <1>4 DEF Device!AskBlind, Device!Idle, Asking, Reviews
<1> QED BY <1>2, <1>3, <1>4 DEF Present

\* A complete message closes the flow, asks, or is answered.
LEMMA MessageAsks ==
  ASSUME NEW result, NEW more \in BOOLEAN, Asking = "nothing", req_type = "CONFIRM_TRANSACTION",
         result.sw \notin {"pending", "signature"}, AfterMessage(result, more),
         UNCHANGED <<flow_path, allow_blind_sign>>
  PROVE  Device!Next
<1>1. CASE result.sw # "OK"
  <2>1. reply' = result.sw /\ req_type' = "CONFIRM_ADDRESS" /\ screen' = screen
    BY <1>1 DEF AfterMessage, refuse_tx
  <2>2. Asking' = "nothing"
    BY <2>1 DEF Asking
  <2> QED BY <2>1, <2>2, Closing DEF Device!Next
<1>2. CASE result.sw = "OK" /\ more
  <2>1. reply' = "OK" /\ req_type' = req_type /\ screen' = screen
    BY <1>2 DEF AfterMessage
  <2> QED BY <2>1, Responding DEF Device!Next
<1>3. CASE result.sw = "OK" /\ ~more
  <2>1. Present(result.tx)
    BY <1>3 DEF AfterMessage
  <2> QED BY <2>1, PresentingAsks DEF Device!Next
<1> QED BY <1>1, <1>2, <1>3

\* The user's answers sign or dismiss; the setting changes only while nothing is asked.
LEMMA UserRefines ==
  ASSUME SessionInv,
         \/ \E choice \in BOOLEAN : ReviewChoice(choice) \/ AddressChoice(choice)
         \/ DismissScreen \/ settings_controls_callback \/ Restart
  PROVE  Device!Next \/ UNCHANGED Device!vars
<1>1. ASSUME NEW choice \in BOOLEAN, ReviewChoice(choice) PROVE Device!Next
  <2>1. /\ screen \in Reviews /\ screen' = "status"
        /\ req_type = "CONFIRM_TRANSACTION" /\ path = flow_path
        /\ UNCHANGED <<req_type, path, flow_path, allow_blind_sign>>
    BY <1>1 DEF ReviewChoice, SessionInv, RefusalCloses, PathOfFlow
  <2>2. \/ path \in GoodPaths /\ reply' = "signature"
        \/ reply' = "SW_SIGNATURE_FAIL" \/ reply' = "SW_DENY"
    BY <1>1 DEF ReviewChoice, validate_transaction
  <2>3. CASE path \in GoodPaths /\ reply' = "signature"
    <3>1. Device!Sign
      BY <2>1, <2>3 DEF Device!Sign, Reviews
    <3> QED BY <3>1 DEF Device!Next
  <2>4. CASE reply' # "signature"
    <3>1. Device!Dismiss
      BY <2>1, <2>4 DEF Device!Dismiss, Device!Idle, Reviews
    <3> QED BY <3>1 DEF Device!Next
  <2> QED BY <2>2, <2>3, <2>4
<1>2. ASSUME NEW choice \in BOOLEAN, AddressChoice(choice) PROVE Device!Next
  <2>1. /\ screen = "address" /\ screen' = "status" /\ reply' # "signature"
        /\ UNCHANGED <<req_type, flow_path, allow_blind_sign>>
    BY <1>2 DEF AddressChoice, context, history
  <2>2. Device!Dismiss
    BY <2>1 DEF Device!Dismiss, Device!Idle, Reviews
  <2> QED BY <2>2 DEF Device!Next
<1>3. CASE DismissScreen
  <2>1. /\ screen \notin Reviews \cup {"address"} /\ screen' \notin Reviews \cup {"address"}
        /\ UNCHANGED <<req_type, path, flow_path, reply, allow_blind_sign>>
    BY <1>3 DEF DismissScreen, context, history, Reviews
  <2> QED BY <2>1 DEF Device!vars
<1>4. CASE settings_controls_callback
  <2>1. /\ screen = "menu" /\ allow_blind_sign' = ~allow_blind_sign
        /\ UNCHANGED <<req_type, path, flow_path, screen, reply>>
    BY <1>4 DEF settings_controls_callback, context, history
  <2>2. Device!Toggle
    BY <2>1 DEF Device!Toggle, Device!Idle, Reviews
  <2> QED BY <2>2 DEF Device!Next
<1>5. CASE Restart
  <2>1. /\ screen' = "menu" /\ req_type' = "CONFIRM_ADDRESS" /\ reply' = "none"
        /\ allow_blind_sign' = allow_blind_sign
    BY <1>5 DEF Restart
  <2>2. screen \notin Reviews \cup {"address"}
    BY <1>5 DEF Restart, SessionInv, ReplyOwed, AssertionIdles, Reviews
  <2>3. Asking = "nothing" /\ Asking' = "nothing"
    BY <2>1, <2>2 DEF Asking, Reviews
  <2> QED BY <2>1, <2>3, Closing DEF Device!Next
<1> QED BY <1>1, <1>2, <1>3, <1>4, <1>5

\* Each command is a step of the device.
LEMMA CommandRefines ==
  ASSUME SessionInv, Next, io_recv_command
  PROVE  Device!Next \/ UNCHANGED Device!vars
<1>1. Asking = "nothing"
  BY CommandIdles
<1>2. ASSUME NEW sw, sw # "signature", JustReply(sw) PROVE Device!Next
  <2>1. reply' = sw /\ UNCHANGED <<req_type, flow_path, screen, allow_blind_sign>>
    BY <1>2 DEF JustReply, context, history
  <2> QED BY <1>1, <1>2, <2>1, Responding DEF Device!Next
<1>3. CASE RejectedCommand \/ GetInfo \/ \E type \in SigningTypes : SignTxTypeMismatch(type)
  BY <1>2, <1>3 DEF RejectedCommand, GetInfo, SignTxTypeMismatch
<1>4. CASE DerivationAssertion
  <2>1. reply' = "none" /\ UNCHANGED <<req_type, flow_path, screen, allow_blind_sign>>
    BY <1>4 DEF DerivationAssertion, context, history
  <2> QED BY <1>1, <2>1, Responding DEF Device!Next
<1>5. ASSUME NEW p \in Paths, NEW display \in BOOLEAN, handler_get_public_key(p, display)
      PROVE  Device!Next
  <2>1. /\ req_type' = "CONFIRM_ADDRESS" /\ allow_blind_sign' = allow_blind_sign
        /\ reply' # "signature" /\ (screen' = screen \/ screen' = "address")
    BY <1>5 DEF handler_get_public_key, AnswerPublicKey
  <2>2. CASE screen' = screen
    <3>1. Asking' = "nothing"
      BY <1>1, <2>2 DEF Asking
    <3> QED BY <1>1, <2>1, <3>1, Closing DEF Device!Next
  <2>3. CASE screen' = "address"
    <3>1. Device!AskAddress
      BY <1>1, <2>1, <2>3 DEF Device!AskAddress, Device!Idle, Asking, Reviews
    <3> QED BY <3>1 DEF Device!Next
  <2> QED BY <2>1, <2>2, <2>3
<1>6. ASSUME NEW type \in SigningTypes, NEW p \in Paths, NEW c \in Challenges,
             SignTxFirst(type, p, c)
      PROVE  Device!Next
  <2>1. /\ flow_path' = p /\ screen' = screen /\ allow_blind_sign' = allow_blind_sign
        /\ reply' # "signature"
        /\ req_type' = "CONFIRM_ADDRESS" \/ req_type' = "CONFIRM_TRANSACTION"
    BY <1>6, Zenon DEF SignTxFirst, refuse_tx
  <2>2. Asking' = "nothing"
    BY <1>1, <2>1 DEF Asking
  <2>3. CASE req_type' = "CONFIRM_ADDRESS"
    BY <1>1, <2>1, <2>2, <2>3, Closing DEF Device!Next
  <2>4. CASE req_type' = "CONFIRM_TRANSACTION"
    <3>1. Device!Request(p)
      BY <1>1, <2>1, <2>2, <2>4 DEF Device!Request, Device!Idle, Asking
    <3> QED BY <3>1 DEF Device!Next
  <2> QED BY <2>1, <2>3, <2>4
<1>7. ASSUME NEW type \in SigningTypes, SignTxRefused(type) PROVE Device!Next
  <2>1. /\ req_type' = "CONFIRM_ADDRESS" /\ reply' # "signature"
        /\ UNCHANGED <<screen, allow_blind_sign>>
    BY <1>7 DEF SignTxRefused, refuse_tx
  <2>2. Asking' = "nothing"
    BY <1>1, <2>1 DEF Asking
  <2> QED BY <1>1, <2>1, <2>2, Closing DEF Device!Next
<1>8. ASSUME NEW type \in SigningTypes, SignTxChunk(type) PROVE Device!Next
  <2>1. reply' = "OK" /\ UNCHANGED <<req_type, flow_path, screen, allow_blind_sign>>
    BY <1>8 DEF SignTxChunk, history
  <2> QED BY <1>1, <2>1, Responding DEF Device!Next
<1>9. ASSUME NEW type, NEW more, NEW result, more \in BOOLEAN, MessageEnds(type, more),
             result.sw \notin {"pending", "signature"}, AfterMessage(result, more)
      PROVE  Device!Next
  <2>1. req_type = "CONFIRM_TRANSACTION" /\ UNCHANGED <<flow_path, allow_blind_sign>>
    BY <1>9 DEF MessageEnds, SignTxContinues
  <2> QED BY <1>1, <1>9, <2>1, MessageAsks
<1>10. CASE \E p \in Components, more \in BOOLEAN : PreparedMessage(p, more)
  BY <1>9, <1>10, PreparedStatus DEF PreparedMessage
<1>11. CASE \E sized \in BOOLEAN, more \in BOOLEAN : HashMessage(sized, more)
  BY <1>9, <1>11, HashStatus DEF HashMessage
<1>12. ASSUME NEW m \in TopologyMessages, NEW more \in BOOLEAN,
              TopologyMsg(m, more) \/ HashStoreAssertion(m, more)
       PROVE  Device!Next
  <2>1. CASE TopologyMsg(m, more)
    BY <1>9, <2>1, TopologyStatus DEF TopologyMsg
  <2>2. CASE HashStoreAssertion(m, more)
    <3>1. reply' = "none" /\ UNCHANGED <<req_type, flow_path, screen, allow_blind_sign>>
      BY <2>2 DEF HashStoreAssertion, MessageEnds
    <3> QED BY <1>1, <3>1, Responding DEF Device!Next
  <2> QED BY <1>12, <2>1, <2>2
<1>13. CASE \/ \E choice \in BOOLEAN : ReviewChoice(choice) \/ AddressChoice(choice)
            \/ DismissScreen \/ settings_controls_callback \/ Restart
  BY <1>13, UserRefines
<1> QED BY <1>3, <1>4, <1>5, <1>6, <1>7, <1>8, <1>10, <1>11, <1>12, <1>13 DEF Next

\* Every step of the app is a step of the device or a stutter.
LEMMA StepRefines == SessionInv /\ [Next]_vars => [Device!Next]_(Device!vars)
<1> SUFFICES ASSUME SessionInv, [Next]_vars
             PROVE  Device!Next \/ UNCHANGED Device!vars
  OBVIOUS
<1>1. CASE UNCHANGED vars
  BY <1>1 DEF vars, Device!vars
<1>2. CASE Next /\ io_recv_command
  BY <1>2, CommandRefines
<1>3. CASE Next /\ ~io_recv_command
  <2>1. \/ \E choice \in BOOLEAN : ReviewChoice(choice) \/ AddressChoice(choice)
        \/ DismissScreen \/ settings_controls_callback \/ Restart
    BY <1>3 DEF Next, RejectedCommand, GetInfo, JustReply, handler_get_public_key, SignTxFirst,
                DerivationAssertion, SignTxTypeMismatch, SignTxRefused, SignTxChunk,
                SignTxContinues, PreparedMessage, HashMessage, TopologyMsg, HashStoreAssertion,
                MessageEnds
  <2> QED BY <2>1, UserRefines
<1> QED BY <1>1, <1>2, <1>3

\* The app keeps the promise of a signing device, for every set of paths, size of the buffer
\* and message: no signature without an approved review of the flow and without its own key.
THEOREM SignsOnlyAsAsked == Spec => SignsAsAsked
<1>1. Init => Device!Init
  BY DEF Init, Device!Init, Reviews
<1>2. SessionInv /\ [Next]_vars => [Device!Next]_(Device!vars)
  BY StepRefines
<1> QED BY <1>1, <1>2, SessionInvariance, PTL DEF Spec, SignsAsAsked, Device!Spec
=============================================================================
