------------------------------- MODULE SignTx -------------------------------
(***************************************************************************)
(* The app as its host and its user see it: the command loop, the          *)
(* dispatcher, the two handlers with state, the review screens, the answer *)
(* the user gives and the blind-signing setting.                           *)
(*                                                                         *)
(* One command is in flight at a time.  A handler either replies at once   *)
(* or puts up a review, whose callback replies later; the io library holds *)
(* back further commands until then.  What the host sends is unconstrained *)
(* within what apdu_parser accepts, so flows may be cut short, restarted,  *)
(* mixed or continued after they were answered.                            *)
(***************************************************************************)
EXTENDS Onboarding

CONSTANTS
  MAX_TRANSACTION_LEN,  \* size of the message buffer, counted in chunks
  MaxMessages,          \* bound: messages in one flow
  GoodPaths,            \* derivation paths the OS derives a key for
  SigningTypes,         \* the P1 values the host uses
  Components,           \* prepared transaction components the host may send
  TopologyMessages      \* topology messages the host may send

AllSigningTypes ==
  {"SIGN_HASH", "SIGN_UNTYPED_VERSIONED_MESSAGE", "SIGN_PREPARED_TRANSACTION"}

ASSUME BufferAssumption == MAX_TRANSACTION_LEN \in Nat \ {0} /\ MaxMessages \in Nat
ASSUME PathsAssumption == GoodPaths # {} /\ {"malformed", "forbidden"} \cap GoodPaths = {}
ASSUME TypesAssumption == SigningTypes \subseteq AllSigningTypes
ASSUME ComponentsAssumption == Components \subseteq Component
\* The target key of a delegation is a field that is not repeated.
ASSUME MessagesAssumption ==
  /\ TopologyMessages \subseteq TopologyMessage
  /\ \A m \in TopologyMessages : m.mapping = "namespace_delegation" => Len(m.keys) <= 1
\* Paths name keys and parties; the other names are those of this module.
ASSUME StringsAssumption ==
  GoodPaths \cup {"malformed", "forbidden", "signature", "none", ""} \subseteq STRING

\* "forbidden": well formed, but the OS derives no key for it.
Paths == GoodPaths \cup {"malformed", "forbidden"}
Challenges == {"none", "good", "malformed"}

VARIABLES
  state,             \* G_context.state
  req_type,          \* G_context.req_type
  signing_type,      \* G_context.signing_type
  path,              \* G_context.bip32_path
  raw_tx_len,        \* G_context.tx_info.raw_tx_len, in chunks
  tx,                \* tx_info and the static state of a prepared transaction
  ob,                \* static state of the onboarding flow
  screen,            \* what the device shows
  reply,             \* last reply to the host; "pending" while one is owed
  allow_blind_sign,  \* N_storage.allow_blind_sign, in flash
  asserted,          \* the assertion that stopped the app, or "none"
  messages,          \* history: messages accepted in this flow
  asked,             \* history: the flow started with a challenge
  flow_path,         \* history: the path the flow's first APDU gave
  answered           \* history: how the flow has been answered so far

vars == <<state, req_type, signing_type, path, raw_tx_len, tx, ob, screen, reply,
          allow_blind_sign, asserted, messages, asked, flow_path, answered>>
context == <<state, req_type, signing_type, path, raw_tx_len, tx, ob>>
history == <<messages, asked, flow_path, answered>>

Reviews == {"clear", "blind"}
-----------------------------------------------------------------------------
(***************************************************************************)
(* The app starts with its memory cleared and the setting it had.          *)
(***************************************************************************)
Init ==
  /\ state = "NONE" /\ req_type = "CONFIRM_ADDRESS" /\ signing_type = "SIGN_HASH"
  /\ path = "forbidden" /\ raw_tx_len = 0
  /\ tx = BootTx /\ ob = BootFlow
  /\ screen = "menu" /\ reply = "none" /\ asserted = "none"
  /\ messages = 0 /\ asked = FALSE /\ flow_path = "forbidden" /\ answered = "no"
  /\ allow_blind_sign = FALSE

\* The io library hands a command over only when no reply is owed.
io_recv_command == reply # "pending" /\ asserted = "none"

\* A reply that changes nothing else.
JustReply(sw) ==
  /\ io_recv_command
  /\ reply' = sw
  /\ UNCHANGED <<context, history, screen, allow_blind_sign, asserted>>

\* A command the parser or the dispatcher turns down.
RejectedCommand ==
  \E sw \in {"SW_WRONG_DATA_LENGTH", "SW_CLA_NOT_SUPPORTED", "SW_INS_NOT_SUPPORTED",
             "SW_WRONG_P1P2"} : JustReply(sw)

\* GET_VERSION and GET_APP_NAME
GetInfo == JustReply("info")

\* What GET_PUBLIC_KEY answers, or the address review it puts up.  A party id that cannot be
\* made of a derived key (SW_DISPLAY_ADDRESS_FAIL) is left out.
AnswerPublicKey(p, display) ==
  \/ p = "malformed" /\ reply' = "SW_WRONG_DATA_LENGTH" /\ screen' = screen
  \/ p = "forbidden" /\ reply' = "cx_error" /\ screen' = screen
  \/ p \in GoodPaths /\ display /\ reply' = "pending" /\ screen' = "address"
  \/ p \in GoodPaths /\ ~display /\ reply' = "pubkey" /\ screen' = screen

\* Mutant: the context of an open flow is not cleared.
get_public_key_in_flow(p, display) ==
  /\ io_recv_command
  /\ path' = p
  /\ AnswerPublicKey(p, display)
  /\ UNCHANGED <<state, req_type, signing_type, raw_tx_len, tx, ob, allow_blind_sign, asserted,
                 history>>

\* GET_PUBLIC_KEY ends whatever flow is open: it needs the context, path included.
handler_get_public_key(p, display) ==
  /\ io_recv_command
  /\ req_type' = "CONFIRM_ADDRESS" /\ state' = "NONE" /\ signing_type' = "SIGN_HASH"
  /\ path' = p /\ raw_tx_len' = 0
  /\ tx' = clean_context(tx)
  /\ AnswerPublicKey(p, display)
  /\ UNCHANGED <<ob, allow_blind_sign, asserted, history>>
-----------------------------------------------------------------------------
(***************************************************************************)
(* SIGN_TX                                                                 *)
(***************************************************************************)
\* Mutant: a refused flow stays open.
refuse_tx_open(sw) ==
  /\ req_type' = req_type /\ state' = "NONE"
  /\ reply' = sw
  /\ answered' = "refused"

refuse_tx(sw) ==
  /\ req_type' = "CONFIRM_ADDRESS" /\ state' = "NONE"
  /\ reply' = sw
  /\ answered' = "refused"

\* The first APDU of a flow: path, then the flow's own initialisation.
SignTxFirst(type, p, challenge) ==
  LET onboarding == type = "SIGN_UNTYPED_VERSIONED_MESSAGE"
      opened == clean_context(tx)
  IN /\ io_recv_command
     /\ ~(onboarding /\ p = "forbidden")
     /\ raw_tx_len' = 0
     /\ path' = p /\ flow_path' = p
     /\ messages' = 0
     /\ asked' = (onboarding /\ challenge = "good")
     /\ ob' = IF onboarding /\ p # "malformed"
              THEN process_untyped_versioned_msg_tx_init(ob, challenge) ELSE ob
     /\ tx' = IF p = "malformed" THEN opened
              ELSE IF onboarding
              THEN [AllocatePairs(opened, "empty") EXCEPT !.signature = p]
              ELSE IF type = "SIGN_PREPARED_TRANSACTION"
              THEN process_prepared_tx_init(opened)
              ELSE opened
     /\ IF p = "malformed" \/ (onboarding /\ challenge = "malformed")
        THEN /\ refuse_tx("SW_WRONG_DATA_LENGTH")
             /\ signing_type' = "SIGN_HASH"
        ELSE /\ req_type' = "CONFIRM_TRANSACTION" /\ state' = "EXPECTING_MORE"
             /\ signing_type' = type
             /\ reply' = "OK"
             /\ answered' = "no"
     /\ UNCHANGED <<screen, allow_blind_sign, asserted>>

\* An onboarding flow derives the public key it is checked against, and asserts that
\* the OS gives it.
DerivationAssertion ==
  /\ io_recv_command
  /\ "SIGN_UNTYPED_VERSIONED_MESSAGE" \in SigningTypes
  /\ asserted' = "derive_public_key"
  /\ reply' = "none"
  /\ UNCHANGED <<context, history, screen, allow_blind_sign>>

\* A later APDU of another type changes nothing.
SignTxTypeMismatch(type) == type # signing_type /\ JustReply("SW_BAD_STATE")

\* A later APDU outside a flow, or one the buffer has no room for.
SignTxRefused(type) ==
  /\ io_recv_command
  /\ type = signing_type
  /\ \/ req_type # "CONFIRM_TRANSACTION" /\ refuse_tx("SW_BAD_STATE")
     \/ /\ req_type = "CONFIRM_TRANSACTION" /\ raw_tx_len + 1 > MAX_TRANSACTION_LEN
        /\ refuse_tx("SW_WRONG_TX_LENGTH")
  /\ UNCHANGED <<signing_type, path, raw_tx_len, tx, ob, screen, allow_blind_sign, asserted,
                 messages, asked, flow_path>>

\* Mutant: the room left is measured before the APDU is added.
SignTxContinues_late(type) ==
  /\ io_recv_command
  /\ type = signing_type
  /\ req_type = "CONFIRM_TRANSACTION"
  /\ raw_tx_len <= MAX_TRANSACTION_LEN

\* A later APDU of this flow that fits.
SignTxContinues(type) ==
  /\ io_recv_command
  /\ type = signing_type
  /\ req_type = "CONFIRM_TRANSACTION"
  /\ raw_tx_len + 1 <= MAX_TRANSACTION_LEN

\* P2_MORE without P2_MSG_END: the message goes on.
SignTxChunk(type) ==
  /\ SignTxContinues(type)
  /\ raw_tx_len' = raw_tx_len + 1
  /\ state' = "EXPECTING_MORE"
  /\ reply' = "OK"
  /\ UNCHANGED <<req_type, signing_type, path, tx, ob, screen, allow_blind_sign, asserted, history>>

\* Mutant: the setting is not looked at.
PresentAlways(t) ==
  /\ req_type' = req_type
  /\ IF t.clear
     THEN screen' = "clear" /\ reply' = "pending" /\ tx' = t
     ELSE screen' = "blind" /\ reply' = "pending" /\ tx' = AllocatePairs(t, "hash")
  /\ answered' = answered

\* The last message has been processed: which screen it leads to.  Refusing a blind
\* signature replies and frees the pairs, but neither state nor req_type change.
Present(t) ==
  /\ req_type' = req_type
  /\ \/ /\ t.clear
        /\ screen' = "clear" /\ reply' = "pending" /\ tx' = t /\ answered' = answered
     \/ /\ ~t.clear /\ ~allow_blind_sign
        /\ screen' = "blind_error" /\ reply' = "SWO_INCORRECT_DATA"
        /\ tx' = cleanup_display_items(t) /\ answered' = "blind_refused"
     \/ /\ ~t.clear /\ allow_blind_sign
        /\ screen' = "blind" /\ reply' = "pending"
        /\ tx' = AllocatePairs(t, "hash") /\ answered' = answered

\* The end of handler_sign_tx for a complete message; more is P2_MORE.
AfterMessage(result, more) ==
  /\ messages' = messages + 1
  /\ IF result.sw # "OK"
     THEN /\ refuse_tx(result.sw)
          /\ tx' = cleanup_display_items(result.tx)
          /\ screen' = screen
     ELSE IF more
     THEN /\ state' = "MSG_COMPLETE" /\ req_type' = req_type
          /\ tx' = result.tx /\ screen' = screen /\ reply' = "OK" /\ answered' = answered
     ELSE state' = "PARSED" /\ Present(result.tx)

\* P2_MSG_END: a message is complete, and with P2_MORE another one follows.  The
\* buffer is only emptied in the second case.
MessageEnds(type, more) ==
  /\ SignTxContinues(type)
  /\ messages < MaxMessages
  /\ raw_tx_len' = IF more THEN 0 ELSE raw_tx_len + 1
  /\ UNCHANGED <<signing_type, path, allow_blind_sign, asked, flow_path>>

PreparedMessage(p, more) ==
  /\ MessageEnds("SIGN_PREPARED_TRANSACTION", more)
  /\ AfterMessage(process_prepared_tx_part(tx, p, ~more), more)
  /\ UNCHANGED <<ob, asserted>>

\* The host's own hash: 32 or 34 bytes when sized.
process_transaction_hash(t, sized, more) ==
  IF more THEN [tx |-> t, sw |-> "SW_BAD_STATE"]
  ELSE IF ~sized THEN [tx |-> t, sw |-> "SW_WRONG_DATA_LENGTH"]
  ELSE Accept([t EXCEPT !.m_hash = "final"])

HashMessage(sized, more) ==
  /\ MessageEnds("SIGN_HASH", more)
  /\ AfterMessage(process_transaction_hash(tx, sized, more), more)
  /\ UNCHANGED <<ob, asserted>>

TopologyMsg(m, more) ==
  LET result == process_untyped_versioned_msg_tx(tx, ob, m, ~more)
  IN /\ MessageEnds("SIGN_UNTYPED_VERSIONED_MESSAGE", more)
     /\ ob.stored
     /\ AfterMessage(result, more)
     /\ ob' = result.ob
     /\ asserted' = asserted

\* add_hash asserts that the hash store is allocated.
HashStoreAssertion(m, more) ==
  /\ MessageEnds("SIGN_UNTYPED_VERSIONED_MESSAGE", more)
  /\ ~ob.stored
  /\ asserted' = "hash_store"
  /\ reply' = "none"
  /\ UNCHANGED <<state, req_type, tx, ob, screen, messages, answered>>
-----------------------------------------------------------------------------
(***************************************************************************)
(* The user                                                                *)
(***************************************************************************)
\* Mutant: a failed signature is not reported.
validate_transaction_silent(choice) ==
  \/ /\ choice /\ path \in GoodPaths
     /\ state' = "APPROVED" /\ reply' = "signature" /\ answered' = "signed"
     /\ tx' = [cleanup_display_items(tx) EXCEPT !.signature = "signature"]
  \/ /\ choice
     /\ state' = "NONE" /\ reply' = reply /\ answered' = "unsigned"
     /\ tx' = [cleanup_display_items(tx) EXCEPT !.signature = "none"]
  \/ /\ ~choice
     /\ state' = "NONE" /\ reply' = "SW_DENY" /\ answered' = "unsigned"
     /\ tx' = cleanup_display_items(tx)

\* The answer to a transaction review.  Signing fails for a forbidden path and may
\* fail for any other; either way it overwrites the key an onboarding kept.
validate_transaction(choice) ==
  \/ /\ choice /\ path \in GoodPaths
     /\ state' = "APPROVED" /\ reply' = "signature" /\ answered' = "signed"
     /\ tx' = [cleanup_display_items(tx) EXCEPT !.signature = "signature"]
  \/ /\ choice
     /\ state' = "NONE" /\ reply' = "SW_SIGNATURE_FAIL" /\ answered' = "unsigned"
     /\ tx' = [cleanup_display_items(tx) EXCEPT !.signature = "none"]
  \/ /\ ~choice
     /\ state' = "NONE" /\ reply' = "SW_DENY" /\ answered' = "unsigned"
     /\ tx' = cleanup_display_items(tx)

ReviewChoice(choice) ==
  /\ screen \in Reviews /\ reply = "pending"
  /\ validate_transaction(choice)
  /\ screen' = "status"
  /\ UNCHANGED <<req_type, signing_type, path, raw_tx_len, ob, allow_blind_sign, asserted,
                 messages, asked, flow_path>>

\* The answer to an address review.
AddressChoice(choice) ==
  /\ screen = "address" /\ reply = "pending"
  /\ reply' = IF choice THEN "pubkey" ELSE "SW_DENY"
  /\ screen' = "status"
  /\ UNCHANGED <<context, history, allow_blind_sign, asserted>>

\* The status page and the blind-signing error lead back to the menu or its settings.
DismissScreen ==
  /\ screen \in {"status", "blind_error"} /\ asserted = "none"
  /\ screen' = "menu"
  /\ UNCHANGED <<context, history, reply, allow_blind_sign, asserted>>

\* The switch in the settings.
settings_controls_callback ==
  /\ screen = "menu" /\ asserted = "none"
  /\ allow_blind_sign' = ~allow_blind_sign
  /\ UNCHANGED <<context, history, screen, reply, asserted>>

\* The user quits the app, or an assertion ends it, and it is started again.
Restart ==
  /\ screen = "menu" \/ asserted # "none"
  /\ state' = "NONE" /\ req_type' = "CONFIRM_ADDRESS" /\ signing_type' = "SIGN_HASH"
  /\ path' = "forbidden" /\ raw_tx_len' = 0
  /\ tx' = BootTx /\ ob' = BootFlow
  /\ screen' = "menu" /\ reply' = "none" /\ asserted' = "none"
  /\ messages' = 0 /\ asked' = FALSE /\ flow_path' = "forbidden" /\ answered' = "no"
  /\ UNCHANGED allow_blind_sign

Next ==
  \/ RejectedCommand
  \/ GetInfo
  \/ \E p \in Paths, display \in BOOLEAN : handler_get_public_key(p, display)
  \/ \E type \in SigningTypes, p \in Paths, c \in Challenges : SignTxFirst(type, p, c)
  \/ DerivationAssertion
  \/ \E type \in SigningTypes : \/ SignTxTypeMismatch(type)
                                \/ SignTxRefused(type)
                                \/ SignTxChunk(type)
  \/ \E p \in Components, more \in BOOLEAN : PreparedMessage(p, more)
  \/ \E sized \in BOOLEAN, more \in BOOLEAN : HashMessage(sized, more)
  \/ \E m \in TopologyMessages, more \in BOOLEAN :
        TopologyMsg(m, more) \/ HashStoreAssertion(m, more)
  \/ \E choice \in BOOLEAN : ReviewChoice(choice) \/ AddressChoice(choice)
  \/ DismissScreen
  \/ settings_controls_callback
  \/ Restart

\* A user who sees a review answers it in the end; nothing else is promised.
Fairness == WF_vars(\E choice \in BOOLEAN : ReviewChoice(choice) \/ AddressChoice(choice))

Spec == Init /\ [][Next]_vars
LiveSpec == Spec /\ Fairness
-----------------------------------------------------------------------------
(***************************************************************************)
(* Properties                                                              *)
(***************************************************************************)
Statuses ==
  {"none", "pending", "OK", "info", "pubkey", "signature", "cx_error", "VALUE_PARSING_ERROR",
   "SW_WRONG_DATA_LENGTH", "SW_CLA_NOT_SUPPORTED", "SW_INS_NOT_SUPPORTED", "SW_WRONG_P1P2",
   "SW_BAD_STATE", "SW_WRONG_TX_LENGTH", "SW_TX_PARSING_FAIL", "SW_TX_HASH_FAIL",
   "SW_TX_INVALID_NODE_TREE", "SWO_INCORRECT_DATA", "SW_DENY", "SW_SIGNATURE_FAIL",
   "SW_TOPOLOGY_TOO_MANY_MESSAGES",
   "SW_TOPOLOGY_MISSING_TARGET_KEY", "SW_TOPOLOGY_MISSING_PARTY_KEY",
   "SW_TOPOLOGY_PARTY_KEY_WRONG_FORMAT", "SW_TOPOLOGY_PARTY_KEY_MISMATCH",
   "SW_TOPOLOGY_PARTY_ID_MISMATCH", "SW_TOPOLOGY_MISSING_PARTY",
   "SW_TOPOLOGY_UNEXPECTED_PARTY_TO_KEY_THRESHOLD_VALUE",
   "SW_TOPOLOGY_UNEXPECTED_PARTY_TO_KEY_SIGNING_KEYS_COUNT",
   "SW_TOPOLOGY_UNEXPECTED_NUMBER_OF_PARTICIPANTS", "SW_TOPOLOGY_UNEXPECTED_THRESHOLD_VALUE",
   "SW_TOPOLOGY_UNEXPECTED_PARTY_SIGNING_KEYS", "SW_TOPOLOGY_MISSING_PARTICIPANT_DATA",
   "SW_TOPOLOGY_UNEXPECTED_DUPLICATE_PARTICIPANT", "SW_TOPOLOGY_UNEXPECTED_PARTICIPANT_ID",
   "SW_TOPOLOGY_MULTIPLE_NAMESPACE_DELEGATIONS", "SW_TOPOLOGY_MULTIPLE_PARTY_TO_KEY_MAPPINGS",
   "SW_TOPOLOGY_MULTIPLE_PARTY_TO_PARTICIPANTS", "SW_TOPOLOGY_MANDATORY_FIELD_MISSING",
   "SW_TOPOLOGY_UNSUPPORTED_OPERATION", "SW_TOPOLOGY_UNKNOWN_MAPPING_TYPE"}

\* How a flow may have been answered: not at all, by refuse_tx, by the blind-signing error,
\* by a review that the user turned down or whose signature failed, or with a signature.
Answers == {"no", "refused", "blind_refused", "unsigned", "signed"}

\* The values G_context, the static state of the flows, the screen and the reply take;
\* the message buffer never holds more than MAX_TRANSACTION_LEN.
TypeOK ==
  /\ state \in {"NONE", "EXPECTING_MORE", "MSG_COMPLETE", "PARSED", "APPROVED"}
  /\ req_type \in {"CONFIRM_ADDRESS", "CONFIRM_TRANSACTION"}
  /\ signing_type \in AllSigningTypes
  /\ path \in Paths /\ flow_path \in Paths
  /\ raw_tx_len \in 0 .. MAX_TRANSACTION_LEN
  /\ tx \in TxState
  /\ ob \in FlowState
  /\ screen \in Reviews \cup {"menu", "address", "blind_error", "status"}
  /\ reply \in Statuses
  /\ allow_blind_sign \in BOOLEAN
  /\ asserted \in {"none", "derive_public_key", "hash_store"}
  /\ messages \in 0 .. MaxMessages
  /\ asked \in BOOLEAN
  /\ answered \in Answers

\* Every command gets exactly one reply: one is owed precisely while a review waits
\* for the user, whichever way the flow came there.
ReplyOwed == reply = "pending" <=> screen \in Reviews \cup {"address"}

\* A hash is only reviewed blindly while the setting allows it, although the flow may
\* outlive a change of the setting and a restart keeps it.
BlindNeedsSetting == screen = "blind" => allow_blind_sign

\* "A refused transaction ends the session. More parts are refused until a new first
\* APDU": a flow that refuse_tx has refused reaches no review.  This is narrower than the
\* words.  Four error status words leave the flow open for further parts and reviews:
\* SWO_INCORRECT_DATA, with which ui_error_blind_signing refuses the transaction while the
\* setting is off; SW_BAD_STATE for a part of another signing type; SW_SIGNATURE_FAIL; and
\* SW_DENY.
RefusedStaysClosed == screen \in Reviews => answered # "refused"

\* The key that will sign is the one the flow's first APDU named, whatever commands
\* came between.
FlowPath == screen \in Reviews => path = flow_path

\* A clear review that comes of the completion of a prepared transaction follows its checks:
\* the values check and the display parser agree and, unless the screen was left to an input
\* contract, the tree check does.  The details are there to be shown unless the flow was
\* answered before: an answer frees the pairs and leaves the decision to show them.  Clear
\* reviews that come of no completion are what DetailsAfterVerdicts is about.
ClearMeansChecked ==
  screen = "clear" /\ signing_type = "SIGN_PREPARED_TRANSACTION" /\ tx.m_hash = "final" =>
    /\ values_can_clear_sign(tx)
    /\ ~tx.display_failed
    /\ tx.tree = "ok" \/ tx.late
    /\ answered = "no" => tx.pairs = "details"

\* A mapping gives rights to the key k only: the target key, the one signing key, or
\* the party of k hosted by both validators of one network.
GrantsOnlyTo(m, k) ==
  CASE m.mapping = "namespace_delegation" -> {m.keys[i].key : i \in DOMAIN m.keys} = {k}
    [] m.mapping = "party_to_key" ->
         m.party = k /\ Len(m.keys) = 1 /\ m.keys[1].key = k /\ m.threshold = 1
    [] m.mapping = "party_to_participant" ->
         /\ m.party = k /\ ~m.party_signing_keys /\ m.threshold = 2
         /\ Len(m.participants) = 2
         /\ {m.participants[1], m.participants[2]} \in VALID_PARTICIPANTS_CONFIGS
    [] OTHER -> FALSE

\* An onboarding reviewed with its details consists of exactly the three mappings, all
\* received in this flow; none gives a right to another key than the one that will
\* sign; and the screen shows what the hosting mapping says, in its order.
OnboardingComplete ==
  screen = "clear" /\ signing_type = "SIGN_UNTYPED_VERSIONED_MESSAGE" =>
    /\ tx.pairs = "details"
    /\ Len(ob.brought) = Cardinality(Mappings)
    /\ \A i \in DOMAIN ob.brought : ob.brought[i].add /\ GrantsOnlyTo(ob.brought[i], path)
    /\ {ob.brought[i].mapping : i \in DOMAIN ob.brought} = Mappings
    /\ \E i \in DOMAIN ob.brought :
          /\ ob.brought[i].mapping = "party_to_participant"
          /\ ob.display = [party |-> path, participants |-> ob.brought[i].participants,
                           threshold |-> ob.brought[i].threshold]

\* Every message of an onboarding is behind the multi-hash that is reviewed, blindly
\* or not, as often as it came; a challenge is signed with it only if this flow
\* brought one.
MultiHashCovers ==
  screen \in Reviews /\ signing_type = "SIGN_UNTYPED_VERSIONED_MESSAGE" =>
    /\ ob.multi_hash = compute_multi_hash(ob.brought)
    /\ tx.challenge_signature <=> asked

\* "Frees any remaining allocated memory for display items": no array of pairs is
\* overwritten while it is allocated.
NoPairsLost == ~tx.lost

\* The app as a signing device: a flow between its first APDU and its end is the open
\* request, a review on the screen the question, and the last reply may be a signature.
Device == INSTANCE Signer WITH
  Names <- Paths,
  Keys <- GoodPaths,
  open <- req_type = "CONFIRM_TRANSACTION",
  key <- IF req_type = "CONFIRM_TRANSACTION" THEN flow_path ELSE "none",
  asking <- IF screen \in Reviews \cup {"address"} THEN screen ELSE "nothing",
  allowed <- allow_blind_sign,
  signer <- IF reply = "signature" THEN path ELSE "none"

\* The app keeps the promise of a signing device: every signature comes from an approved
\* review of the open flow and from the key its first APDU named, a blind one only with
\* the setting, and nothing but the user's answer takes a review away or changes what is
\* behind it, across refusals, address requests, assertions, restarts and flows that go
\* on after they were answered.
SignsAsAsked == Device!Spec

\* A review ends in a reply to the host.
ReviewsAreAnswered == reply = "pending" ~> reply # "pending"

\* "The app shows the transaction details only if all the checks below pass": details
\* are shown only of a transaction that was completed, with all its verdicts read, by the
\* very component that asks for the review.
DetailsAfterVerdicts ==
  screen = "clear" /\ signing_type = "SIGN_PREPARED_TRANSACTION" => tx.m_hash = "final"

\* "Node tree: the nodes must form one tree with exactly one root" before details are
\* shown, for a transaction received to its end.
DetailsOfOneTree ==
  screen = "clear" /\ signing_type = "SIGN_PREPARED_TRANSACTION" /\ tx.m_hash = "final" =>
    tx.tree = "ok"
=============================================================================
