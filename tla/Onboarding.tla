----------------------------- MODULE Onboarding -----------------------------
(***************************************************************************)
(* The onboarding flow of untyped_versioned_msg.c, as operators.           *)
(*                                                                         *)
(* The host sends topology transactions, one per message; the app hashes   *)
(* each, checks the mapping it carries against the device's own key and    *)
(* party, and signs the hash of all of them.                               *)
(*                                                                         *)
(* A key is named by the derivation path it belongs to, and so is the      *)
(* party id made of it; the hash of a message is the message itself.       *)
(***************************************************************************)
EXTENDS PreparedTx, Sequences, FiniteSets

CONSTANT MAX_HASHES   \* topology messages one flow may carry

ASSUME HashesAssumption == MAX_HASHES \in Nat \ {0}

Mappings == {"namespace_delegation", "party_to_key", "party_to_participant"}

\* The two validators of each network.
VALID_PARTICIPANTS_CONFIGS ==
  {{"ledger", "kiln"}, {"ledger_testnet", "kiln_testnet"}, {"ledger_devnet", "kiln_devnet"}}

EXPECTED_PARTICIPANTS_NB == 2

(***************************************************************************)
(* A public key on the wire: the format it declares, and what its bytes    *)
(* are: none, 32 bytes, 44 bytes with or without the DER prefix, or        *)
(* another number of them.                                                 *)
(***************************************************************************)
SigningPublicKey ==
  [format : {"RAW", "DER_X509", "other"}, bytes : {"none", "raw", "der", "unprefixed", "odd"},
   key : STRING]

(***************************************************************************)
(* A message: whether nanopb accepts it, whether its operation is          *)
(* ADD_REPLACE, and its mapping ("none" without one, "other" for a kind    *)
(* the app does not know) with the fields the app reads.  keys is the      *)
(* target key of a delegation, if any, and the signing keys of a           *)
(* party-to-key mapping; a party or a participant may be "".               *)
(***************************************************************************)
TopologyMessage ==
  [decodes : BOOLEAN, add : BOOLEAN, mapping : Mappings \cup {"none", "other"},
   party : STRING, keys : Seq(SigningPublicKey), threshold : Nat,
   participants : Seq(STRING), party_signing_keys : BOOLEAN]

Fields == {"party", "participant_1", "participant_2", "threshold"}
MandatoryFields == {"party", "participant_1"}

\* What the pairs of the review say.
Display == [party : STRING, participants : Seq(STRING), threshold : Nat]
NoDisplay == [party |-> "", participants |-> << >>, threshold |-> 0]

(***************************************************************************)
(* The static state of the flow: stored says that tx_hashes is allocated,  *)
(* parsed is the set of the three has_parsed flags, found that of the      *)
(* field states, display the contents of the pairs, multi_hash what m_hash *)
(* was computed from.  brought is history: the messages of the open flow.  *)
(***************************************************************************)
FlowState ==
  [stored : BOOLEAN, tx_hashes : Seq(TopologyMessage), parsed : SUBSET Mappings,
   found : SUBSET Fields, display : Display, challenge : BOOLEAN,
   multi_hash : SUBSET (TopologyMessage \X Nat), brought : Seq(TopologyMessage)]

BootFlow ==
  [stored |-> FALSE, tx_hashes |-> << >>, parsed |-> {}, found |-> {}, display |-> NoDisplay,
   challenge |-> FALSE, multi_hash |-> {}, brought |-> << >>]
-----------------------------------------------------------------------------
init_hash_storage(ob) == [ob EXCEPT !.stored = TRUE, !.tx_hashes = << >>]

cleanup_hash_storage(ob) ==
  IF ob.stored THEN [ob EXCEPT !.stored = FALSE, !.tx_hashes = << >>] ELSE ob

\* What a first APDU resets; the challenge is optional.
process_untyped_versioned_msg_tx_init(ob, challenge) ==
  [init_hash_storage(ob) EXCEPT !.parsed = {}, !.found = {}, !.display = NoDisplay,
                                !.challenge = (challenge = "good"), !.multi_hash = {},
                                !.brought = << >>]

\* Mutant: the store takes one message too many and overwrites its last slot.
add_hash_at_limit(ob, m) ==
  IF Len(ob.tx_hashes) > MAX_HASHES THEN [ob |-> ob, sw |-> "SW_TOPOLOGY_TOO_MANY_MESSAGES"]
  ELSE [ob |-> IF Len(ob.tx_hashes) = MAX_HASHES THEN [ob EXCEPT !.tx_hashes[MAX_HASHES] = m]
               ELSE [ob EXCEPT !.tx_hashes = Append(@, m)],
        sw |-> "OK"]

add_hash(ob, m) ==
  IF Len(ob.tx_hashes) >= MAX_HASHES THEN [ob |-> ob, sw |-> "SW_TOPOLOGY_TOO_MANY_MESSAGES"]
  ELSE [ob |-> [ob EXCEPT !.tx_hashes = Append(@, m)], sw |-> "OK"]

\* The hashes are sorted first: the result depends on which messages came and how
\* often, and not on their order.
compute_multi_hash(hashes) ==
  {<<hashes[i], Cardinality({j \in DOMAIN hashes : hashes[j] = hashes[i]})>> :
     i \in DOMAIN hashes}
-----------------------------------------------------------------------------
(***************************************************************************)
(* The three mappings, checked against the key the flow derived, which     *)
(* waits in the signature field of tx_info.                                *)
(***************************************************************************)
check_party_key_value(tx, k) ==
  IF k.bytes = "none" THEN "SW_TOPOLOGY_MISSING_PARTY_KEY"
  ELSE IF <<k.format, k.bytes>> \notin {<<"RAW", "raw">>, <<"DER_X509", "der">>}
  THEN "SW_TOPOLOGY_PARTY_KEY_WRONG_FORMAT"
  ELSE IF k.key # tx.signature THEN "SW_TOPOLOGY_PARTY_KEY_MISMATCH"
  ELSE "OK"

check_party_id_value(tx, party) == party = tx.signature

\* A delegation counts as parsed even when it disagrees, the other two do not.
process_namespace_delegation(tx, ob, m) ==
  IF m.mapping \in ob.parsed
  THEN [tx |-> tx, ob |-> ob, sw |-> "SW_TOPOLOGY_MULTIPLE_NAMESPACE_DELEGATIONS"]
  ELSE [tx |-> tx, ob |-> [ob EXCEPT !.parsed = @ \cup {m.mapping}],
        sw |-> IF m.keys = << >> THEN "SW_TOPOLOGY_MISSING_TARGET_KEY"
               ELSE check_party_key_value(tx, m.keys[1])]

PartyToKeyStatus(tx, m) ==
  IF ~check_party_id_value(tx, m.party) THEN "SW_TOPOLOGY_PARTY_ID_MISMATCH"
  ELSE IF m.threshold # Len(m.keys)
  THEN "SW_TOPOLOGY_UNEXPECTED_PARTY_TO_KEY_THRESHOLD_VALUE"
  ELSE IF Len(m.keys) # 1 THEN "SW_TOPOLOGY_UNEXPECTED_PARTY_TO_KEY_SIGNING_KEYS_COUNT"
  ELSE check_party_key_value(tx, m.keys[1])

process_party_to_key_mapping(tx, ob, m) ==
  LET sw == PartyToKeyStatus(tx, m)
  IN IF m.mapping \in ob.parsed
     THEN [tx |-> tx, ob |-> ob, sw |-> "SW_TOPOLOGY_MULTIPLE_PARTY_TO_KEY_MAPPINGS"]
     ELSE IF sw # "OK" THEN [tx |-> cleanup_display_items(tx), ob |-> ob, sw |-> sw]
     ELSE [tx |-> tx, ob |-> [ob EXCEPT !.parsed = @ \cup {m.mapping}], sw |-> "OK"]

\* The checks before the party is put into the pairs.
HostingStatus(tx, m) ==
  IF m.party = "" THEN "SW_TOPOLOGY_MISSING_PARTY"
  ELSE IF ~check_party_id_value(tx, m.party) THEN "SW_TOPOLOGY_PARTY_ID_MISMATCH"
  ELSE IF Len(m.participants) # EXPECTED_PARTICIPANTS_NB
  THEN "SW_TOPOLOGY_UNEXPECTED_NUMBER_OF_PARTICIPANTS"
  ELSE IF m.threshold # Len(m.participants) THEN "SW_TOPOLOGY_UNEXPECTED_THRESHOLD_VALUE"
  ELSE IF m.party_signing_keys THEN "SW_TOPOLOGY_UNEXPECTED_PARTY_SIGNING_KEYS"
  ELSE "OK"

\* Mutant: it is enough that every participant is a validator of one network.
ParticipantsStatus_any(ps) ==
  IF \E c \in VALID_PARTICIPANTS_CONFIGS : \A i \in DOMAIN ps : ps[i] \in c THEN "OK"
  ELSE "SW_TOPOLOGY_UNEXPECTED_PARTICIPANT_ID"

\* The participants are the validators of one network, each named once.
ParticipantsStatus(ps) ==
  IF \E i \in DOMAIN ps : ps[i] = "" THEN "SW_TOPOLOGY_MISSING_PARTICIPANT_DATA"
  ELSE IF \E c \in VALID_PARTICIPANTS_CONFIGS : \E i, j \in DOMAIN ps :
             i # j /\ ps[i] = ps[j] /\ ps[i] \in c
  THEN "SW_TOPOLOGY_UNEXPECTED_DUPLICATE_PARTICIPANT"
  ELSE IF \E c \in VALID_PARTICIPANTS_CONFIGS : c = {ps[i] : i \in DOMAIN ps} THEN "OK"
  ELSE "SW_TOPOLOGY_UNEXPECTED_PARTICIPANT_ID"

\* The party is shown first, then the names of the validators as they are listed.
process_party_to_participant(tx, ob, m) ==
  LET before == HostingStatus(tx, m)
      listed == ParticipantsStatus(m.participants)
      started == [ob EXCEPT !.found = @ \cup {"party"}]
  IN IF m.mapping \in ob.parsed
     THEN [tx |-> tx, ob |-> ob, sw |-> "SW_TOPOLOGY_MULTIPLE_PARTY_TO_PARTICIPANTS"]
     ELSE IF before # "OK" THEN [tx |-> cleanup_display_items(tx), ob |-> ob, sw |-> before]
     ELSE IF listed # "OK" THEN [tx |-> cleanup_display_items(tx), ob |-> started, sw |-> listed]
     ELSE [tx |-> [tx EXCEPT !.pairs = "details"],
           ob |-> [ob EXCEPT !.parsed = @ \cup {m.mapping}, !.found = Fields,
                             !.display = [party |-> m.party, participants |-> m.participants,
                                          threshold |-> m.threshold]],
           sw |-> "OK"]

parse_topology_transaction_for_display(tx, ob, m) ==
  IF ~m.decodes THEN [tx |-> tx, ob |-> ob, sw |-> "VALUE_PARSING_ERROR"]
  ELSE IF m.mapping = "none" THEN [tx |-> tx, ob |-> ob, sw |-> "OK"]
  ELSE IF ~m.add THEN [tx |-> tx, ob |-> ob, sw |-> "SW_TOPOLOGY_UNSUPPORTED_OPERATION"]
  ELSE CASE m.mapping = "namespace_delegation" -> process_namespace_delegation(tx, ob, m)
         [] m.mapping = "party_to_participant" -> process_party_to_participant(tx, ob, m)
         [] m.mapping = "party_to_key" -> process_party_to_key_mapping(tx, ob, m)
         [] OTHER -> [tx |-> tx, ob |-> ob, sw |-> "SW_TOPOLOGY_UNKNOWN_MAPPING_TYPE"]

\* The last message: the hash of all of them, the challenge signed with it, and the
\* details if all three mappings came.  A signature of the challenge that fails with a key
\* that was derived before (SW_CHALLENGE_SIGNATURE_FAIL) is left out.
FinishOnboarding(tx, ob) ==
  LET closed == [cleanup_hash_storage(ob) EXCEPT !.multi_hash = compute_multi_hash(ob.tx_hashes)]
      hashed == [tx EXCEPT !.m_hash = "final", !.challenge_signature = @ \/ ob.challenge]
  IN IF ob.parsed # Mappings THEN [tx |-> hashed, ob |-> closed, sw |-> "OK"]
     ELSE IF ~(MandatoryFields \subseteq ob.found)
     THEN [tx |-> hashed, ob |-> closed, sw |-> "SW_TOPOLOGY_MANDATORY_FIELD_MISSING"]
     ELSE [tx |-> [hashed EXCEPT !.clear = TRUE], ob |-> closed, sw |-> "OK"]

\* One message; finished says that the host marked it as the last one.  An error ends
\* the flow, and with it the history.
process_untyped_versioned_msg_tx(tx, ob, m, finished) ==
  LET added == add_hash([ob EXCEPT !.brought = Append(@, m)], m)
      shown == parse_topology_transaction_for_display(tx, added.ob, m)
      refused == [cleanup_hash_storage(shown.ob) EXCEPT !.display = NoDisplay, !.brought = << >>]
  IN IF added.sw # "OK"
     THEN [tx |-> tx, ob |-> [cleanup_hash_storage(ob) EXCEPT !.brought = << >>], sw |-> added.sw]
     ELSE IF shown.sw # "OK" THEN [tx |-> shown.tx, ob |-> refused, sw |-> shown.sw]
     ELSE IF ~finished THEN shown
     ELSE FinishOnboarding(shown.tx, shown.ob)
=============================================================================
