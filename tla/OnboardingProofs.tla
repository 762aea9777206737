-------------------------- MODULE OnboardingProofs --------------------------
(***************************************************************************)
(* What the onboarding flow promises, for every set of topology messages:  *)
(* every message is behind the multi-hash, and an onboarding reviewed with *)
(* its details gives no right to another key than the one that signs.      *)
(* With it, the type invariant of the app.                                 *)
(***************************************************************************)
EXTENDS PreparedTxProofs, FiniteSetTheorems

-----------------------------------------------------------------------------
(***************************************************************************)
(* The store of hashes and the multi-hash                                  *)
(***************************************************************************)
LEMMA EmptyNames == "" \in STRING /\ NoDisplay \in Display
<1>1. "" \in STRING
  BY StringsAssumption
<1>2. << >> \in Seq(STRING)
  OBVIOUS
<1> QED BY <1>1, <1>2 DEF NoDisplay, Display

LEMMA BootFlowType == BootFlow \in FlowState
<1>1. << >> \in Seq(TopologyMessage) /\ {} \in SUBSET (TopologyMessage \X Nat)
  OBVIOUS
<1> QED BY <1>1, EmptyNames DEF BootFlow, FlowState

LEMMA MultiHashType ==
  ASSUME NEW s \in Seq(TopologyMessage)
  PROVE  compute_multi_hash(s) \in SUBSET (TopologyMessage \X Nat)
<1>1. ASSUME NEW i \in DOMAIN s
      PROVE  /\ s[i] \in TopologyMessage
             /\ Cardinality({j \in DOMAIN s : s[j] = s[i]}) \in Nat
  <2>1. s[i] \in TopologyMessage
    OBVIOUS
  <2>2. DOMAIN s = 1 .. Len(s) /\ Len(s) \in Nat
    OBVIOUS
  <2>3. IsFiniteSet(DOMAIN s)
    BY <2>2, FS_Interval
  <2>4. IsFiniteSet({j \in DOMAIN s : s[j] = s[i]})
    BY <2>3, FS_Subset
  <2> QED BY <2>1, <2>4, FS_CardinalityType
<1>2. ASSUME NEW x \in compute_multi_hash(s) PROVE x \in TopologyMessage \X Nat
  <2>1. PICK i \in DOMAIN s : x = <<s[i], Cardinality({j \in DOMAIN s : s[j] = s[i]})>>
    BY DEF compute_multi_hash
  <2> QED BY <1>1, <2>1
<1> QED BY <1>2

\* The fields of the flow a first APDU resets, and those that survive the end of it.
LEMMA StoreSteps ==
  ASSUME NEW o \in FlowState
  PROVE  /\ \A c \in Challenges :
              LET u == process_untyped_versioned_msg_tx_init(o, c)
              IN /\ u \in FlowState /\ u.stored = TRUE /\ u.tx_hashes = << >> /\ u.brought = << >>
                 /\ u.parsed = {} /\ u.challenge = (c = "good")
         /\ LET u == cleanup_hash_storage(o)
            IN /\ u \in FlowState /\ u.stored = FALSE /\ u.brought = o.brought
               /\ u.display = o.display
<1>1. << >> \in Seq(TopologyMessage) /\ {} \in SUBSET (TopologyMessage \X Nat)
  OBVIOUS
<1>2. ASSUME NEW c \in Challenges
      PROVE  LET u == process_untyped_versioned_msg_tx_init(o, c)
             IN /\ u \in FlowState /\ u.stored = TRUE /\ u.tx_hashes = << >>
                /\ u.brought = << >> /\ u.parsed = {} /\ u.challenge = (c = "good")
  <2> DEFINE i == init_hash_storage(o)
             g == c = "good"
             v == [i EXCEPT !.parsed = {}, !.found = {}, !.display = NoDisplay, !.challenge = g,
                            !.multi_hash = {}, !.brought = << >>]
  <2>1. process_untyped_versioned_msg_tx_init(o, c) = v
    BY DEF process_untyped_versioned_msg_tx_init
  <2>2. i \in FlowState /\ i.stored = TRUE /\ i.tx_hashes = << >>
    BY <1>1 DEF init_hash_storage, FlowState
  <2>3. g \in BOOLEAN
    OBVIOUS
  <2> HIDE DEF i, g
  <2>4. /\ v \in FlowState /\ v.stored = TRUE /\ v.tx_hashes = << >> /\ v.brought = << >>
        /\ v.parsed = {} /\ v.challenge = g
    BY <1>1, <2>2, <2>3, EmptyNames DEF FlowState
  <2> QED BY <2>1, <2>4 DEF g
<1>3. LET u == cleanup_hash_storage(o)
      IN /\ u \in FlowState /\ u.stored = FALSE /\ u.brought = o.brought /\ u.display = o.display
  <2>1. CASE o.stored
    BY <1>1, <2>1 DEF cleanup_hash_storage, FlowState
  <2>2. CASE ~o.stored
    BY <2>2 DEF cleanup_hash_storage, FlowState
  <2> QED BY <2>1, <2>2
<1> QED BY <1>2, <1>3
-----------------------------------------------------------------------------
(***************************************************************************)
(* The mappings                                                            *)
(***************************************************************************)
\* A message as the host can encode it: a delegation has one target key at most.
Encodable(m) == m.mapping = "namespace_delegation" => Len(m.keys) <= 1

\* The outcome of a mapping's handler that accepts it.
Checked(t, o, m, r) ==
  /\ m.add /\ GrantsOnlyTo(m, t.signature)
  /\ r.ob.parsed = o.parsed \cup {m.mapping}
  /\ r.ob.stored = o.stored /\ r.ob.tx_hashes = o.tx_hashes /\ r.ob.brought = o.brought
  /\ r.ob.challenge = o.challenge
  /\ r.tx.signature = t.signature /\ r.tx.clear = t.clear
  /\ r.tx.challenge_signature = t.challenge_signature
  /\ \/ /\ m.mapping = "party_to_participant" /\ r.tx.pairs = "details"
        /\ r.ob.display = [party |-> t.signature, participants |-> m.participants,
                           threshold |-> m.threshold]
     \/ /\ m.mapping # "party_to_participant" /\ r.tx = t /\ r.ob.display = o.display

\* Every status word of the flow is one the app has.
KeyStatuses ==
  {"OK", "SW_TOPOLOGY_MISSING_PARTY_KEY", "SW_TOPOLOGY_PARTY_KEY_WRONG_FORMAT",
   "SW_TOPOLOGY_PARTY_KEY_MISMATCH"}

LEMMA KeyChecked ==
  ASSUME NEW t, NEW k
  PROVE  /\ check_party_key_value(t, k) \in KeyStatuses
         /\ check_party_key_value(t, k) = "OK" => k.key = t.signature
<1>1. check_party_key_value(t, k) \in KeyStatuses
  BY Zenon DEF check_party_key_value, KeyStatuses
<1>2. check_party_key_value(t, k) = "OK" => k.key = t.signature
  BY DEF check_party_key_value
<1> QED BY <1>1, <1>2

LEMMA DelegationChecked ==
  ASSUME NEW t \in TxState, NEW o \in FlowState, NEW m \in TopologyMessage, Encodable(m),
         m.mapping = "namespace_delegation", m.add
  PROVE  LET r == process_namespace_delegation(t, o, m)
         IN /\ r.ob \in FlowState /\ r.sw \in Statuses \ {"pending"}
            /\ r.sw = "OK" => Checked(t, o, m, r)
<1> DEFINE sw == IF m.keys = << >> THEN "SW_TOPOLOGY_MISSING_TARGET_KEY"
                 ELSE check_party_key_value(t, m.keys[1])
           u == [o EXCEPT !.parsed = @ \cup {m.mapping}]
           r == process_namespace_delegation(t, o, m)
<1>1. \/ r = [tx |-> t, ob |-> o, sw |-> "SW_TOPOLOGY_MULTIPLE_NAMESPACE_DELEGATIONS"]
      \/ r = [tx |-> t, ob |-> u, sw |-> sw]
  BY Zenon DEF process_namespace_delegation
<1>2. sw \in Statuses \ {"pending"}
  BY KeyChecked DEF KeyStatuses, Statuses
<1>3. sw = "OK" => m.keys # << >> /\ m.keys[1].key = t.signature
  BY KeyChecked
<1>4. sw = "OK" => GrantsOnlyTo(m, t.signature)
  <2> SUFFICES ASSUME sw = "OK" PROVE GrantsOnlyTo(m, t.signature)
    OBVIOUS
  <2>1. m.keys \in Seq(SigningPublicKey) /\ Len(m.keys) <= 1
    BY DEF TopologyMessage, Encodable
  <2>2. DOMAIN m.keys = {1}
    BY <1>3, <2>1
  <2>3. {m.keys[i].key : i \in DOMAIN m.keys} = {t.signature}
    BY <1>3, <2>2
  <2> QED BY <2>3 DEF GrantsOnlyTo
<1>5. /\ u \in FlowState /\ u.parsed = o.parsed \cup {m.mapping} /\ u.stored = o.stored
      /\ u.tx_hashes = o.tx_hashes /\ u.brought = o.brought /\ u.challenge = o.challenge
      /\ u.display = o.display
  <2>1. o.parsed \cup {m.mapping} \in SUBSET Mappings
    BY DEF FlowState, Mappings
  <2> QED BY <2>1 DEF FlowState
<1> HIDE DEF sw, u, r
<1>6. CASE r = [tx |-> t, ob |-> o, sw |-> "SW_TOPOLOGY_MULTIPLE_NAMESPACE_DELEGATIONS"]
  <2>1. r.ob \in FlowState /\ r.sw \in Statuses \ {"pending"} /\ r.sw # "OK"
    BY <1>6 DEF Statuses
  <2> QED BY <2>1 DEF r
<1>7. CASE r = [tx |-> t, ob |-> u, sw |-> sw]
  <2>1. r.tx = t /\ r.ob = u /\ r.sw = sw
    BY <1>7
  <2>2. r.sw = "OK" => Checked(t, o, m, r)
    BY <1>4, <1>5, <2>1 DEF Checked
  <2> QED BY <1>2, <1>5, <2>1, <2>2 DEF r
<1> QED BY <1>1, <1>6, <1>7

LEMMA PartyToKeyChecked ==
  ASSUME NEW t \in TxState, NEW o \in FlowState, NEW m \in TopologyMessage,
         m.mapping = "party_to_key", m.add
  PROVE  LET r == process_party_to_key_mapping(t, o, m)
         IN /\ r.ob \in FlowState /\ r.sw \in Statuses \ {"pending"}
            /\ r.sw = "OK" => Checked(t, o, m, r)
<1> DEFINE sw == PartyToKeyStatus(t, m)
           u == [o EXCEPT !.parsed = @ \cup {m.mapping}]
           r == process_party_to_key_mapping(t, o, m)
<1>1. \/ r = [tx |-> t, ob |-> o, sw |-> "SW_TOPOLOGY_MULTIPLE_PARTY_TO_KEY_MAPPINGS"]
      \/ sw # "OK" /\ r = [tx |-> cleanup_display_items(t), ob |-> o, sw |-> sw]
      \/ sw = "OK" /\ r = [tx |-> t, ob |-> u, sw |-> "OK"]
  BY Zenon DEF process_party_to_key_mapping
<1>2. sw \in Statuses \ {"pending"}
  <2>1. sw \in KeyStatuses \cup {"SW_TOPOLOGY_PARTY_ID_MISMATCH",
                "SW_TOPOLOGY_UNEXPECTED_PARTY_TO_KEY_THRESHOLD_VALUE",
                "SW_TOPOLOGY_UNEXPECTED_PARTY_TO_KEY_SIGNING_KEYS_COUNT"}
    BY KeyChecked, Zenon DEF PartyToKeyStatus
  <2> QED BY <2>1 DEF KeyStatuses, Statuses
<1>3. sw = "OK" => GrantsOnlyTo(m, t.signature)
  <2> SUFFICES ASSUME sw = "OK" PROVE GrantsOnlyTo(m, t.signature)
    OBVIOUS
  <2>1. /\ m.party = t.signature /\ m.threshold = Len(m.keys) /\ Len(m.keys) = 1
        /\ m.keys[1].key = t.signature
    BY KeyChecked DEF PartyToKeyStatus, check_party_id_value
  <2> QED BY <2>1 DEF GrantsOnlyTo
<1>4. /\ u \in FlowState /\ u.parsed = o.parsed \cup {m.mapping} /\ u.stored = o.stored
      /\ u.tx_hashes = o.tx_hashes /\ u.brought = o.brought /\ u.challenge = o.challenge
      /\ u.display = o.display
  <2>1. o.parsed \cup {m.mapping} \in SUBSET Mappings
    BY DEF FlowState, Mappings
  <2> QED BY <2>1 DEF FlowState
<1> HIDE DEF sw, u, r
<1>5. CASE \/ r = [tx |-> t, ob |-> o, sw |-> "SW_TOPOLOGY_MULTIPLE_PARTY_TO_KEY_MAPPINGS"]
           \/ sw # "OK" /\ r = [tx |-> cleanup_display_items(t), ob |-> o, sw |-> sw]
  <2>1. r.ob \in FlowState /\ r.sw \in Statuses \ {"pending"} /\ r.sw # "OK"
    BY <1>2, <1>5 DEF Statuses
  <2> QED BY <2>1 DEF r
<1>6. CASE sw = "OK" /\ r = [tx |-> t, ob |-> u, sw |-> "OK"]
  <2>1. r.tx = t /\ r.ob = u /\ r.sw = sw
    BY <1>6
  <2>2. r.sw = "OK" => Checked(t, o, m, r)
    BY <1>3, <1>4, <2>1 DEF Checked
  <2> QED BY <1>2, <1>4, <2>1, <2>2 DEF r
<1> QED BY <1>1, <1>5, <1>6

LEMMA HostingChecked ==
  ASSUME NEW t \in TxState, NEW o \in FlowState, NEW m \in TopologyMessage,
         m.mapping = "party_to_participant", m.add
  PROVE  LET r == process_party_to_participant(t, o, m)
         IN /\ r.ob \in FlowState /\ r.sw \in Statuses \ {"pending"}
            /\ r.sw = "OK" => Checked(t, o, m, r)
<1> DEFINE before == HostingStatus(t, m)
           listed == ParticipantsStatus(m.participants)
           started == [o EXCEPT !.found = @ \cup {"party"}]
           shown == [party |-> m.party, participants |-> m.participants,
                     threshold |-> m.threshold]
           u == [o EXCEPT !.parsed = @ \cup {m.mapping}, !.found = Fields, !.display = shown]
           v == [t EXCEPT !.pairs = "details"]
           r == process_party_to_participant(t, o, m)
<1>1. \/ r = [tx |-> t, ob |-> o, sw |-> "SW_TOPOLOGY_MULTIPLE_PARTY_TO_PARTICIPANTS"]
      \/ before # "OK" /\ r = [tx |-> cleanup_display_items(t), ob |-> o, sw |-> before]
      \/ listed # "OK" /\ r = [tx |-> cleanup_display_items(t), ob |-> started, sw |-> listed]
      \/ before = "OK" /\ listed = "OK" /\ r = [tx |-> v, ob |-> u, sw |-> "OK"]
  BY Zenon DEF process_party_to_participant
<1>2. before \in Statuses \ {"pending"} /\ listed \in Statuses \ {"pending"}
  <2>1. before \in {"OK", "SW_TOPOLOGY_MISSING_PARTY", "SW_TOPOLOGY_PARTY_ID_MISMATCH",
                    "SW_TOPOLOGY_UNEXPECTED_NUMBER_OF_PARTICIPANTS",
                    "SW_TOPOLOGY_UNEXPECTED_THRESHOLD_VALUE",
                    "SW_TOPOLOGY_UNEXPECTED_PARTY_SIGNING_KEYS"}
    BY Zenon DEF HostingStatus
  <2>2. listed \in {"OK", "SW_TOPOLOGY_MISSING_PARTICIPANT_DATA",
                    "SW_TOPOLOGY_UNEXPECTED_DUPLICATE_PARTICIPANT",
                    "SW_TOPOLOGY_UNEXPECTED_PARTICIPANT_ID"}
    BY Zenon DEF ParticipantsStatus
  <2> QED BY <2>1, <2>2 DEF Statuses
<1>3. /\ m.participants \in Seq(STRING) /\ m.party \in STRING /\ m.threshold \in Nat
      /\ m.party_signing_keys \in BOOLEAN
  BY DEF TopologyMessage
<1>4. before = "OK" =>
        /\ m.party = t.signature /\ Len(m.participants) = 2 /\ m.threshold = 2
        /\ ~m.party_signing_keys
  BY DEF HostingStatus, check_party_id_value, EXPECTED_PARTICIPANTS_NB
<1>5. before = "OK" /\ listed = "OK" => GrantsOnlyTo(m, t.signature)
  <2> SUFFICES ASSUME before = "OK", listed = "OK" PROVE GrantsOnlyTo(m, t.signature)
    OBVIOUS
  <2>1. PICK c \in VALID_PARTICIPANTS_CONFIGS :
          c = {m.participants[i] : i \in DOMAIN m.participants}
    BY Zenon DEF ParticipantsStatus
  <2>2. DOMAIN m.participants = {1, 2}
    BY <1>3, <1>4
  <2>3. c = {m.participants[1], m.participants[2]}
    BY <2>1, <2>2
  <2> QED BY <1>4, <2>3 DEF GrantsOnlyTo
<1>6. started \in FlowState
  <2>1. o.found \cup {"party"} \in SUBSET Fields
    BY DEF FlowState, Fields
  <2> QED BY <2>1 DEF FlowState
<1>7. v.pairs = "details" /\ v.signature = t.signature /\ v.clear = t.clear
      /\ v.challenge_signature = t.challenge_signature
  BY DEF TxState
<1>8. shown \in Display
  BY <1>3 DEF Display
<1>9. before = "OK" => shown = [party |-> t.signature, participants |-> m.participants,
                                threshold |-> m.threshold]
  BY <1>4
<1> HIDE DEF before, listed, started, shown, v
<1>10. /\ u \in FlowState /\ u.parsed = o.parsed \cup {m.mapping} /\ u.stored = o.stored
       /\ u.tx_hashes = o.tx_hashes /\ u.brought = o.brought /\ u.challenge = o.challenge
       /\ u.display = shown
  <2>1. o.parsed \cup {m.mapping} \in SUBSET Mappings /\ Fields \in SUBSET Fields
    BY DEF FlowState, Mappings
  <2> QED BY <1>8, <2>1 DEF FlowState
<1> HIDE DEF u, r
<1>11. CASE \/ r = [tx |-> t, ob |-> o, sw |-> "SW_TOPOLOGY_MULTIPLE_PARTY_TO_PARTICIPANTS"]
            \/ before # "OK" /\ r = [tx |-> cleanup_display_items(t), ob |-> o, sw |-> before]
            \/ listed # "OK" /\ r = [tx |-> cleanup_display_items(t), ob |-> started, sw |-> listed]
  <2>1. r.ob \in FlowState /\ r.sw \in Statuses \ {"pending"} /\ r.sw # "OK"
    BY <1>2, <1>6, <1>11 DEF Statuses
  <2> QED BY <2>1 DEF r
<1>12. CASE before = "OK" /\ listed = "OK" /\ r = [tx |-> v, ob |-> u, sw |-> "OK"]
  <2>1. r.tx = v /\ r.ob = u /\ r.sw = "OK"
    BY <1>12
  <2>2. Checked(t, o, m, r)
    BY <1>5, <1>7, <1>9, <1>10, <1>12, <2>1 DEF Checked
  <2>3. r.sw \in Statuses \ {"pending"}
    BY <2>1 DEF Statuses
  <2> QED BY <1>10, <2>1, <2>2, <2>3 DEF r
<1> QED BY <1>1, <1>11, <1>12

\* A message parsed for display: accepted, its mapping gives rights to the key only.
LEMMA TopologyChecked ==
  ASSUME NEW t \in TxState, NEW o \in FlowState, NEW m \in TopologyMessage, Encodable(m)
  PROVE  LET r == parse_topology_transaction_for_display(t, o, m)
         IN /\ r.ob \in FlowState /\ r.sw \in Statuses \ {"pending"}
            /\ r.sw = "OK" => \/ m.mapping = "none" /\ r.tx = t /\ r.ob = o
                              \/ m.mapping \in Mappings /\ Checked(t, o, m, r)
<1> DEFINE r == parse_topology_transaction_for_display(t, o, m)
<1>1. \/ r = [tx |-> t, ob |-> o, sw |-> "VALUE_PARSING_ERROR"]
      \/ m.mapping = "none" /\ r = [tx |-> t, ob |-> o, sw |-> "OK"]
      \/ r = [tx |-> t, ob |-> o, sw |-> "SW_TOPOLOGY_UNSUPPORTED_OPERATION"]
      \/ m.add /\ m.mapping = "namespace_delegation" /\ r = process_namespace_delegation(t, o, m)
      \/ m.add /\ m.mapping = "party_to_participant" /\ r = process_party_to_participant(t, o, m)
      \/ m.add /\ m.mapping = "party_to_key" /\ r = process_party_to_key_mapping(t, o, m)
      \/ r = [tx |-> t, ob |-> o, sw |-> "SW_TOPOLOGY_UNKNOWN_MAPPING_TYPE"]
  BY DEF parse_topology_transaction_for_display
<1> HIDE DEF r
<1>2. CASE m.add /\ m.mapping = "namespace_delegation" /\ r = process_namespace_delegation(t, o, m)
  BY <1>2, DelegationChecked DEF r, Mappings
<1>3. CASE m.add /\ m.mapping = "party_to_key" /\ r = process_party_to_key_mapping(t, o, m)
  BY <1>3, PartyToKeyChecked DEF r, Mappings
<1>4. CASE m.add /\ m.mapping = "party_to_participant" /\ r = process_party_to_participant(t, o, m)
  BY <1>4, HostingChecked DEF r, Mappings
<1>5. CASE \/ r = [tx |-> t, ob |-> o, sw |-> "VALUE_PARSING_ERROR"]
           \/ m.mapping = "none" /\ r = [tx |-> t, ob |-> o, sw |-> "OK"]
           \/ r = [tx |-> t, ob |-> o, sw |-> "SW_TOPOLOGY_UNSUPPORTED_OPERATION"]
           \/ r = [tx |-> t, ob |-> o, sw |-> "SW_TOPOLOGY_UNKNOWN_MAPPING_TYPE"]
  BY <1>5 DEF r, Statuses
<1> QED BY <1>1, <1>2, <1>3, <1>4, <1>5
-----------------------------------------------------------------------------
(***************************************************************************)
(* A message                                                               *)
(***************************************************************************)
\* The flow while it gathers messages for the key k; a says that a challenge was given.
Gathering(t, o, k, a) ==
  /\ o.tx_hashes = o.brought /\ Len(o.brought) <= MAX_HASHES
  /\ o.challenge = a /\ t.challenge_signature = FALSE
  /\ t.signature = k /\ t.clear = FALSE
  /\ \A i \in DOMAIN o.brought : o.brought[i].mapping \in Mappings =>
        o.brought[i].add /\ GrantsOnlyTo(o.brought[i], k)
  /\ \A x \in o.parsed : \E i \in DOMAIN o.brought : o.brought[i].mapping = x
  /\ "party_to_participant" \in o.parsed =>
        /\ t.pairs = "details"
        /\ \E i \in DOMAIN o.brought :
              /\ o.brought[i].mapping = "party_to_participant"
              /\ o.display = [party |-> k, participants |-> o.brought[i].participants,
                              threshold |-> o.brought[i].threshold]

\* The flow once its last message was accepted.
Gathered(t, o, k, a) ==
  /\ o.multi_hash = compute_multi_hash(o.brought)
  /\ t.challenge_signature = a
  /\ t.clear => /\ t.pairs = "details"
                /\ Len(o.brought) <= MAX_HASHES
                /\ \A i \in DOMAIN o.brought : o.brought[i].mapping \in Mappings =>
                      o.brought[i].add /\ GrantsOnlyTo(o.brought[i], k)
                /\ \A x \in Mappings : \E i \in DOMAIN o.brought : o.brought[i].mapping = x
                /\ \E i \in DOMAIN o.brought :
                      /\ o.brought[i].mapping = "party_to_participant"
                      /\ o.display = [party |-> k, participants |-> o.brought[i].participants,
                                      threshold |-> o.brought[i].threshold]

\* The message is put into the store and into the history.
LEMMA Stored ==
  ASSUME NEW o \in FlowState, NEW m \in TopologyMessage
  PROVE  LET b == [o EXCEPT !.brought = Append(@, m)]
             r == add_hash(b, m)
         IN /\ r.ob \in FlowState /\ r.sw \in {"OK", "SW_TOPOLOGY_TOO_MANY_MESSAGES"}
            /\ r.sw = "OK" =>
                 /\ Len(o.tx_hashes) < MAX_HASHES
                 /\ r.ob.tx_hashes = Append(o.tx_hashes, m) /\ r.ob.brought = Append(o.brought, m)
                 /\ r.ob.stored = o.stored /\ r.ob.challenge = o.challenge
                 /\ r.ob.parsed = o.parsed /\ r.ob.display = o.display
<1> DEFINE b == [o EXCEPT !.brought = Append(@, m)]
           u == [b EXCEPT !.tx_hashes = Append(@, m)]
<1>1. /\ Append(o.brought, m) \in Seq(TopologyMessage)
      /\ Append(o.tx_hashes, m) \in Seq(TopologyMessage) /\ Len(o.tx_hashes) \in Nat
  BY DEF FlowState
<1>2. /\ b \in FlowState /\ b.tx_hashes = o.tx_hashes /\ b.brought = Append(o.brought, m)
      /\ b.stored = o.stored /\ b.challenge = o.challenge
      /\ b.parsed = o.parsed /\ b.display = o.display
  BY <1>1 DEF FlowState
<1>3. \/ add_hash(b, m) = [ob |-> b, sw |-> "SW_TOPOLOGY_TOO_MANY_MESSAGES"]
      \/ /\ ~(Len(b.tx_hashes) >= MAX_HASHES)
         /\ add_hash(b, m) = [ob |-> u, sw |-> "OK"]
  BY Zenon DEF add_hash
<1> HIDE DEF b
<1>4. /\ u \in FlowState /\ u.tx_hashes = Append(o.tx_hashes, m)
      /\ u.brought = Append(o.brought, m) /\ u.stored = o.stored
      /\ u.challenge = o.challenge /\ u.parsed = o.parsed /\ u.display = o.display
  BY <1>1, <1>2 DEF FlowState
<1> HIDE DEF u
<1>5. ~(Len(b.tx_hashes) >= MAX_HASHES) => Len(o.tx_hashes) < MAX_HASHES
  BY <1>1, <1>2, HashesAssumption
<1> DEFINE r == add_hash(b, m)
<1> HIDE DEF r
<1>6. /\ r.ob \in FlowState /\ r.sw \in {"OK", "SW_TOPOLOGY_TOO_MANY_MESSAGES"}
      /\ r.sw = "OK" => Len(o.tx_hashes) < MAX_HASHES /\ r.ob = u
  BY <1>2, <1>3, <1>4, <1>5 DEF r
<1> QED BY <1>4, <1>6, Zenon DEF r, b

\* The last message computes the multi-hash over the store and closes it.
LEMMA Finished ==
  ASSUME NEW t \in TxState, NEW o \in FlowState
  PROVE  LET r == FinishOnboarding(t, o)
         IN /\ r.ob \in FlowState /\ r.ob.stored = FALSE /\ r.sw \in Statuses \ {"pending"}
            /\ r.ob.multi_hash = compute_multi_hash(o.tx_hashes)
            /\ r.ob.brought = o.brought /\ r.ob.display = o.display
            /\ r.tx.challenge_signature = (t.challenge_signature \/ o.challenge)
            /\ r.tx.pairs = t.pairs
            /\ r.tx.clear => t.clear \/ o.parsed = Mappings
<1> DEFINE c == cleanup_hash_storage(o)
           closed == [c EXCEPT !.multi_hash = compute_multi_hash(o.tx_hashes)]
           sign == t.challenge_signature \/ o.challenge
           hashed == [t EXCEPT !.m_hash = "final", !.challenge_signature = sign]
           on == [hashed EXCEPT !.clear = TRUE]
           r == FinishOnboarding(t, o)
<1>1. \/ r = [tx |-> hashed, ob |-> closed, sw |-> "OK"]
      \/ r = [tx |-> hashed, ob |-> closed, sw |-> "SW_TOPOLOGY_MANDATORY_FIELD_MISSING"]
      \/ o.parsed = Mappings /\ r = [tx |-> on, ob |-> closed, sw |-> "OK"]
  BY Zenon DEF FinishOnboarding
<1>2. c \in FlowState /\ c.stored = FALSE /\ c.brought = o.brought /\ c.display = o.display
  BY StoreSteps
<1>3. compute_multi_hash(o.tx_hashes) \in SUBSET (TopologyMessage \X Nat)
  <2>1. o.tx_hashes \in Seq(TopologyMessage)
    BY DEF FlowState
  <2> QED BY <2>1, MultiHashType
<1> HIDE DEF c
<1>4. /\ closed \in FlowState /\ closed.multi_hash = compute_multi_hash(o.tx_hashes)
      /\ closed.stored = FALSE /\ closed.brought = o.brought /\ closed.display = o.display
  BY <1>2, <1>3 DEF FlowState
<1>5. sign \in BOOLEAN
  OBVIOUS
<1> HIDE DEF sign
<1>6. /\ hashed \in TxState /\ hashed.challenge_signature = sign /\ hashed.pairs = t.pairs
      /\ hashed.clear = t.clear
  BY <1>5 DEF TxState
<1> HIDE DEF hashed
<1>7. on.challenge_signature = sign /\ on.pairs = t.pairs
  BY <1>6 DEF TxState
<1> HIDE DEF on, closed, r
<1>8. /\ r.ob = closed /\ r.tx.challenge_signature = sign /\ r.tx.pairs = t.pairs
      /\ r.sw \in {"OK", "SW_TOPOLOGY_MANDATORY_FIELD_MISSING"}
      /\ r.tx.clear => t.clear \/ o.parsed = Mappings
  BY <1>1, <1>6, <1>7
<1>9. r.sw \in Statuses \ {"pending"}
  BY <1>8 DEF Statuses
<1> QED BY <1>4, <1>8, <1>9 DEF r, sign

LEMMA Parsed ==
  ASSUME NEW t \in TxState, NEW o \in FlowState, NEW m \in TopologyMessage, Encodable(m),
         NEW k, NEW a, NEW s,
         Gathering(t, o, k, a), Len(o.tx_hashes) < MAX_HASHES,
         s.ob.tx_hashes = Append(o.tx_hashes, m), s.ob.brought = Append(o.brought, m),
         s.ob.challenge = o.challenge,
         \/ m.mapping = "none" /\ s.tx = t /\ s.ob.parsed = o.parsed /\ s.ob.display = o.display
         \/ /\ m.mapping \in Mappings
            /\ m.add /\ GrantsOnlyTo(m, t.signature)
            /\ s.ob.parsed = o.parsed \cup {m.mapping}
            /\ s.tx.signature = t.signature /\ s.tx.clear = t.clear
            /\ s.tx.challenge_signature = t.challenge_signature
            /\ \/ /\ m.mapping = "party_to_participant" /\ s.tx.pairs = "details"
                  /\ s.ob.display = [party |-> t.signature, participants |-> m.participants,
                                     threshold |-> m.threshold]
               \/ m.mapping # "party_to_participant" /\ s.tx = t /\ s.ob.display = o.display
  PROVE  Gathering(s.tx, s.ob, k, a)
<1> DEFINE b == o.brought
           n == s.ob.brought
<1>1. /\ b \in Seq(TopologyMessage) /\ n = Append(b, m) /\ o.tx_hashes = b
      /\ Len(b) < MAX_HASHES /\ Len(b) \in Nat
  BY DEF Gathering, FlowState
<1>2. /\ DOMAIN b = 1 .. Len(b) /\ DOMAIN n = 1 .. Len(b) + 1 /\ n[Len(b) + 1] = m
      /\ \A i \in DOMAIN b : i \in DOMAIN n /\ n[i] = b[i]
      /\ Len(n) = Len(b) + 1
  BY <1>1
<1>3. \A i \in DOMAIN n : i \in DOMAIN b \/ i = Len(b) + 1
  BY <1>1, <1>2
<1>4. Len(n) <= MAX_HASHES
  BY <1>1, <1>2, HashesAssumption
<1> HIDE DEF b, n
<1>5. /\ \A i \in DOMAIN b : b[i].mapping \in Mappings => b[i].add /\ GrantsOnlyTo(b[i], k)
      /\ \A x \in o.parsed : \E i \in DOMAIN b : b[i].mapping = x
      /\ t.signature = k
      /\ "party_to_participant" \in o.parsed =>
           /\ t.pairs = "details"
           /\ \E i \in DOMAIN b :
              /\ b[i].mapping = "party_to_participant"
              /\ o.display = [party |-> k, participants |-> b[i].participants,
                              threshold |-> b[i].threshold]
  BY Zenon DEF Gathering, b
<1>6. /\ s.ob.tx_hashes = n /\ s.ob.challenge = a /\ s.tx.challenge_signature = FALSE
      /\ s.tx.signature = k /\ s.tx.clear = FALSE
  BY <1>1 DEF Gathering, n, b
<1>7. m.mapping \in Mappings => m.add /\ GrantsOnlyTo(m, k)
  BY <1>5 DEF Mappings
<1>8. \A i \in DOMAIN n : n[i].mapping \in Mappings => n[i].add /\ GrantsOnlyTo(n[i], k)
  BY <1>2, <1>3, <1>5, <1>7
<1>9. \A x \in s.ob.parsed : \E i \in DOMAIN n : n[i].mapping = x
  <2>1. ASSUME NEW x \in o.parsed PROVE \E i \in DOMAIN n : n[i].mapping = x
    BY <1>2, <1>5
  <2>2. \E i \in DOMAIN n : n[i].mapping = m.mapping
    BY <1>1, <1>2
  <2> QED BY <2>1, <2>2
<1>10. "party_to_participant" \in s.ob.parsed =>
           /\ s.tx.pairs = "details"
           /\ \E i \in DOMAIN n :
              /\ n[i].mapping = "party_to_participant"
              /\ s.ob.display = [party |-> k, participants |-> n[i].participants,
                                 threshold |-> n[i].threshold]
  <2>1. CASE m.mapping = "party_to_participant"
    <3>1. /\ s.tx.pairs = "details"
          /\ s.ob.display = [party |-> k, participants |-> m.participants,
                             threshold |-> m.threshold]
      BY <1>5, <2>1
    <3>2. Len(b) + 1 \in DOMAIN n
      BY <1>1, <1>2
    <3> QED BY <1>2, <2>1, <3>1, <3>2
  <2>2. CASE m.mapping # "party_to_participant"
    <3>1. s.tx = t /\ s.ob.display = o.display
      BY <2>2
    <3>2. "party_to_participant" \in s.ob.parsed => "party_to_participant" \in o.parsed
      BY <2>2
    <3> SUFFICES ASSUME "party_to_participant" \in o.parsed
                 PROVE  /\ s.tx.pairs = "details"
                        /\ \E i \in DOMAIN n :
                             /\ n[i].mapping = "party_to_participant"
                             /\ s.ob.display = [party |-> k, participants |-> n[i].participants,
                                                threshold |-> n[i].threshold]
      BY <3>2
    <3>3. PICK i \in DOMAIN b :
              /\ b[i].mapping = "party_to_participant"
              /\ o.display = [party |-> k, participants |-> b[i].participants,
                              threshold |-> b[i].threshold]
      BY <1>5
    <3>4. i \in DOMAIN n /\ n[i] = b[i]
      BY <1>2
    <3> QED BY <1>5, <3>1, <3>3, <3>4
  <2> QED BY <2>1, <2>2
<1> QED BY <1>4, <1>6, <1>8, <1>9, <1>10 DEF Gathering, n

\* One message of an open flow: what it leaves, whether it is the last one or not.
LEMMA TopologyPart ==
  ASSUME NEW t \in TxState, NEW o \in FlowState, NEW m \in TopologyMessage, Encodable(m),
         NEW finished \in BOOLEAN, NEW k, NEW a \in BOOLEAN
  PROVE  LET r == process_untyped_versioned_msg_tx(t, o, m, finished)
         IN /\ r.ob \in FlowState /\ r.sw \in Statuses \ {"pending"}
            /\ r.sw = "OK" /\ finished => ~r.ob.stored
            /\ r.sw = "OK" /\ Gathering(t, o, k, a) =>
                 \/ finished /\ Gathered(r.tx, r.ob, k, a)
                 \/ ~finished /\ Gathering(r.tx, r.ob, k, a)
<1> DEFINE added == add_hash([o EXCEPT !.brought = Append(@, m)], m)
           s == parse_topology_transaction_for_display(t, added.ob, m)
           gone == cleanup_hash_storage(s.ob)
           refused == [gone EXCEPT !.display = NoDisplay, !.brought = << >>]
           none == cleanup_hash_storage(o)
           full == [none EXCEPT !.brought = << >>]
           f == FinishOnboarding(s.tx, s.ob)
           r == process_untyped_versioned_msg_tx(t, o, m, finished)
<1>1. \/ added.sw # "OK" /\ r = [tx |-> t, ob |-> full, sw |-> added.sw]
      \/ added.sw = "OK" /\ s.sw # "OK" /\ r = [tx |-> s.tx, ob |-> refused, sw |-> s.sw]
      \/ added.sw = "OK" /\ s.sw = "OK" /\ ~finished /\ r = s
      \/ added.sw = "OK" /\ s.sw = "OK" /\ finished /\ r = f
  BY Zenon DEF process_untyped_versioned_msg_tx
<1>2. /\ added.ob \in FlowState /\ added.sw \in {"OK", "SW_TOPOLOGY_TOO_MANY_MESSAGES"}
      /\ added.sw = "OK" =>
           /\ Len(o.tx_hashes) < MAX_HASHES
           /\ added.ob.tx_hashes = Append(o.tx_hashes, m)
           /\ added.ob.brought = Append(o.brought, m)
           /\ added.ob.stored = o.stored /\ added.ob.challenge = o.challenge
           /\ added.ob.parsed = o.parsed /\ added.ob.display = o.display
  BY Stored
<1> HIDE DEF added, r
<1>3. /\ s.ob \in FlowState /\ s.sw \in Statuses \ {"pending"}
      /\ s.sw = "OK" => \/ m.mapping = "none" /\ s.tx = t /\ s.ob = added.ob
                        \/ m.mapping \in Mappings /\ Checked(t, added.ob, m, s)
  BY <1>2, TopologyChecked
<1>4. s.tx \in TxState
  BY TopologyShown
<1> HIDE DEF s
<1>5. ASSUME added.sw = "OK", s.sw = "OK", Gathering(t, o, k, a)
      PROVE  Gathering(s.tx, s.ob, k, a)
  <2>1. CASE m.mapping = "none" /\ s.tx = t /\ s.ob = added.ob
    <3>1. /\ s.ob.tx_hashes = Append(o.tx_hashes, m) /\ s.ob.brought = Append(o.brought, m)
          /\ s.ob.challenge = o.challenge /\ Len(o.tx_hashes) < MAX_HASHES
          /\ s.ob.parsed = o.parsed /\ s.ob.display = o.display
      BY <1>2, <1>5, <2>1
    <3> QED BY <1>5, <2>1, <3>1, Parsed
  <2>2. CASE m.mapping \in Mappings /\ Checked(t, added.ob, m, s)
    <3>1. /\ s.ob.tx_hashes = Append(o.tx_hashes, m) /\ s.ob.brought = Append(o.brought, m)
          /\ s.ob.challenge = o.challenge /\ Len(o.tx_hashes) < MAX_HASHES
          /\ m.add /\ GrantsOnlyTo(m, t.signature)
          /\ s.ob.parsed = o.parsed \cup {m.mapping}
          /\ s.tx.signature = t.signature /\ s.tx.clear = t.clear
          /\ s.tx.challenge_signature = t.challenge_signature
          /\ \/ /\ m.mapping = "party_to_participant" /\ s.tx.pairs = "details"
                /\ s.ob.display = [party |-> t.signature, participants |-> m.participants,
                                   threshold |-> m.threshold]
             \/ m.mapping # "party_to_participant" /\ s.tx = t /\ s.ob.display = o.display
      BY <1>2, <1>5, <2>2 DEF Checked
    <3> QED BY <1>5, <2>2, <3>1, Parsed
  <2> QED BY <1>3, <1>5, <2>1, <2>2
<1>6. CASE added.sw # "OK" /\ r = [tx |-> t, ob |-> full, sw |-> added.sw]
  <2>0. << >> \in Seq(TopologyMessage)
    OBVIOUS
  <2>1. none \in FlowState
    BY StoreSteps
  <2> HIDE DEF none
  <2>2. full \in FlowState
    BY <2>0, <2>1 DEF FlowState
  <2> HIDE DEF full
  <2>3. r.ob = full /\ r.sw \in Statuses \ {"pending"} /\ r.sw # "OK"
    BY <1>2, <1>6 DEF Statuses
  <2> QED BY <2>2, <2>3 DEF r
<1>7. CASE added.sw = "OK" /\ s.sw # "OK" /\ r = [tx |-> s.tx, ob |-> refused, sw |-> s.sw]
  <2>0. << >> \in Seq(TopologyMessage)
    OBVIOUS
  <2>1. gone \in FlowState
    BY <1>3, StoreSteps
  <2> HIDE DEF gone
  <2>2. refused \in FlowState
    BY <2>0, <2>1, EmptyNames DEF FlowState
  <2> HIDE DEF refused
  <2>3. r.ob = refused /\ r.sw \in Statuses \ {"pending"} /\ r.sw # "OK"
    BY <1>3, <1>7
  <2> QED BY <2>2, <2>3 DEF r
<1>8. CASE added.sw = "OK" /\ s.sw = "OK" /\ ~finished /\ r = s
  BY <1>3, <1>5, <1>8 DEF r
<1>9. CASE added.sw = "OK" /\ s.sw = "OK" /\ finished /\ r = f
  <2>1. /\ f.ob \in FlowState /\ f.ob.stored = FALSE /\ f.sw \in Statuses \ {"pending"}
        /\ f.ob.multi_hash = compute_multi_hash(s.ob.tx_hashes)
        /\ f.ob.brought = s.ob.brought /\ f.ob.display = s.ob.display
        /\ f.tx.challenge_signature = (s.tx.challenge_signature \/ s.ob.challenge)
        /\ f.tx.pairs = s.tx.pairs
        /\ f.tx.clear => s.tx.clear \/ s.ob.parsed = Mappings
    BY <1>3, <1>4, Finished
  <2> HIDE DEF f
  <2>2. ASSUME Gathering(t, o, k, a) PROVE Gathered(f.tx, f.ob, k, a)
    <3>1. Gathering(s.tx, s.ob, k, a)
      BY <1>5, <1>9, <2>2
    <3>2. f.ob.multi_hash = compute_multi_hash(f.ob.brought)
      BY <2>1, <3>1 DEF Gathering
    <3>3. f.tx.challenge_signature = a
      <4>1. s.tx.challenge_signature = FALSE /\ s.ob.challenge = a
        BY <3>1 DEF Gathering
      <4> QED BY <2>1, <4>1
    <3>4. f.tx.clear => s.ob.parsed = Mappings
      BY <2>1, <3>1 DEF Gathering
    <3>5. "party_to_participant" \in Mappings
      BY DEF Mappings
    <3> QED BY <2>1, <3>1, <3>2, <3>3, <3>4, <3>5, SMTT(60) DEF Gathering, Gathered
  <2> QED BY <1>9, <2>1, <2>2 DEF r
<1> QED BY <1>1, <1>6, <1>7, <1>8, <1>9
-----------------------------------------------------------------------------
(***************************************************************************)
(* Type correctness                                                        *)
(***************************************************************************)
\* Everything but the two flows.
LoopType ==
  /\ state \in {"NONE", "EXPECTING_MORE", "MSG_COMPLETE", "PARSED", "APPROVED"}
  /\ req_type \in {"CONFIRM_ADDRESS", "CONFIRM_TRANSACTION"}
  /\ signing_type \in AllSigningTypes
  /\ path \in Paths /\ flow_path \in Paths
  /\ raw_tx_len \in 0 .. MAX_TRANSACTION_LEN
  /\ screen \in Reviews \cup {"menu", "address", "blind_error", "status"}
  /\ reply \in Statuses
  /\ allow_blind_sign \in BOOLEAN
  /\ asserted \in {"none", "derive_public_key", "hash_store"}
  /\ messages \in 0 .. MaxMessages
  /\ asked \in BOOLEAN
  /\ answered \in Answers

FlowType == ob \in FlowState

LEMMA TypeParts == TypeOK <=> LoopType /\ TxType /\ FlowType
BY DEF TypeOK, LoopType, TxType, FlowType

\* The words the loop itself replies with.
LEMMA LoopWords ==
  {"none", "pending", "OK", "info", "pubkey", "signature", "cx_error", "SW_WRONG_DATA_LENGTH",
   "SW_CLA_NOT_SUPPORTED", "SW_INS_NOT_SUPPORTED", "SW_WRONG_P1P2", "SW_BAD_STATE",
   "SW_WRONG_TX_LENGTH", "SWO_INCORRECT_DATA", "SW_DENY", "SW_SIGNATURE_FAIL"} \subseteq Statuses
  /\ PreparedStatuses \subseteq Statuses
BY DEF Statuses, PreparedStatuses

LEMMA LoopStart ==
  /\ "forbidden" \in Paths /\ 0 \in 0 .. MAX_TRANSACTION_LEN /\ 0 \in 0 .. MaxMessages
  /\ "SIGN_HASH" \in AllSigningTypes /\ "none" \in Statuses
<1>1. "forbidden" \in Paths
  BY Zenon DEF Paths
<1>2. 0 \in 0 .. MAX_TRANSACTION_LEN /\ 0 \in 0 .. MaxMessages
  BY BufferAssumption
<1>3. "SIGN_HASH" \in AllSigningTypes /\ "none" \in Statuses
  BY Zenon DEF AllSigningTypes, Statuses
<1> QED BY <1>1, <1>2, <1>3

LEMMA LoopInitially == Init => LoopType
BY LoopStart DEF Init, LoopType, Answers

\* A processed message leads to a state and a screen of the loop.
LEMMA MessageLoopType ==
  ASSUME LoopType, NEW result, NEW type, NEW more \in BOOLEAN, MessageEnds(type, more),
         AfterMessage(result, more), result.sw \in Statuses, asserted' = asserted
  PROVE  LoopType'
<1>1. /\ raw_tx_len' \in 0 .. MAX_TRANSACTION_LEN /\ messages' \in 0 .. MaxMessages
      /\ UNCHANGED <<signing_type, path, allow_blind_sign, asked, flow_path, asserted>>
  BY BufferAssumption DEF LoopType, MessageEnds, SignTxContinues, AfterMessage
<1>2. /\ state' \in {"NONE", "MSG_COMPLETE", "PARSED"}
      /\ req_type' \in {req_type, "CONFIRM_ADDRESS"}
      /\ screen' \in {screen, "clear", "blind", "blind_error"}
      /\ reply' \in {result.sw, "OK", "pending", "SWO_INCORRECT_DATA"}
      /\ answered' \in {answered, "refused", "blind_refused"}
  BY DEF AfterMessage, refuse_tx, Present
<1> QED BY <1>1, <1>2, LoopWords DEF LoopType, Reviews, Answers

LEMMA LoopTypeCommands ==
  ASSUME LoopType,
         \/ RejectedCommand \/ GetInfo \/ DerivationAssertion
         \/ \E p \in Paths, display \in BOOLEAN : handler_get_public_key(p, display)
         \/ \E type \in SigningTypes, p \in Paths, c \in Challenges : SignTxFirst(type, p, c)
         \/ \E type \in SigningTypes : \/ SignTxTypeMismatch(type)
                                       \/ SignTxRefused(type) \/ SignTxChunk(type)
  PROVE  LoopType'
<1>1. ASSUME NEW sw \in Statuses, JustReply(sw) PROVE LoopType'
  BY <1>1 DEF JustReply, context, history, LoopType
<1>2. CASE RejectedCommand \/ GetInfo \/ \E type \in SigningTypes : SignTxTypeMismatch(type)
  BY <1>1, <1>2, LoopWords DEF RejectedCommand, GetInfo, SignTxTypeMismatch
<1>3. CASE DerivationAssertion
  BY <1>3, LoopWords DEF DerivationAssertion, context, history, LoopType
<1>4. ASSUME NEW p \in Paths, NEW display \in BOOLEAN, handler_get_public_key(p, display)
      PROVE  LoopType'
  <2>1. /\ screen' \in {screen, "address"}
        /\ reply' \in {"SW_WRONG_DATA_LENGTH", "cx_error", "pending", "pubkey"}
    BY <1>4 DEF handler_get_public_key, AnswerPublicKey
  <2> QED BY <1>4, <2>1, LoopWords, BufferAssumption
             DEF handler_get_public_key, history, LoopType, AllSigningTypes
<1>5. ASSUME NEW type \in SigningTypes, NEW p \in Paths, NEW c \in Challenges,
             SignTxFirst(type, p, c)
      PROVE  LoopType'
  <2>1. /\ state' \in {"NONE", "EXPECTING_MORE"}
        /\ req_type' \in {"CONFIRM_ADDRESS", "CONFIRM_TRANSACTION"}
        /\ signing_type' \in {"SIGN_HASH", type}
        /\ reply' \in {"SW_WRONG_DATA_LENGTH", "OK"} /\ answered' \in {"refused", "no"}
        /\ raw_tx_len' = 0 /\ path' = p /\ flow_path' = p /\ messages' = 0
        /\ UNCHANGED <<screen, allow_blind_sign, asserted>>
    BY <1>5, Zenon DEF SignTxFirst, refuse_tx
  <2>2. asked' \in BOOLEAN
    BY <1>5 DEF SignTxFirst
  <2> QED BY <2>1, <2>2, LoopWords, BufferAssumption, TypesAssumption DEF LoopType, AllSigningTypes, Answers
<1>6. CASE \E type \in SigningTypes : SignTxRefused(type)
  BY <1>6, LoopWords DEF SignTxRefused, refuse_tx, LoopType, Answers
<1>7. CASE \E type \in SigningTypes : SignTxChunk(type)
  BY <1>7, LoopWords, BufferAssumption DEF SignTxChunk, SignTxContinues, history, LoopType
<1> QED BY <1>2, <1>3, <1>4, <1>5, <1>6, <1>7

LEMMA LoopTypeUser ==
  ASSUME LoopType,
         \/ \E choice \in BOOLEAN : ReviewChoice(choice) \/ AddressChoice(choice)
         \/ DismissScreen \/ settings_controls_callback \/ Restart
  PROVE  LoopType'
<1>1. ASSUME NEW choice \in BOOLEAN, ReviewChoice(choice) PROVE LoopType'
  BY <1>1, LoopWords DEF ReviewChoice, validate_transaction, LoopType, Answers
<1>2. ASSUME NEW choice \in BOOLEAN, AddressChoice(choice) PROVE LoopType'
  BY <1>2, LoopWords DEF AddressChoice, context, history, LoopType
<1>3. CASE DismissScreen
  BY <1>3 DEF DismissScreen, context, history, LoopType
<1>4. CASE settings_controls_callback
  BY <1>4 DEF settings_controls_callback, context, history, LoopType
<1>5. CASE Restart
  BY <1>5, LoopStart DEF Restart, LoopType, Answers
<1> QED BY <1>1, <1>2, <1>3, <1>4, <1>5

\* A message the host may send is one of the protocol.
LEMMA HostMessages ==
  ASSUME NEW m \in TopologyMessages
  PROVE  m \in TopologyMessage /\ Encodable(m)
BY MessagesAssumption DEF Encodable

LEMMA TypeInductive == SessionInv /\ TypeOK /\ [Next]_vars => TypeOK'
<1> SUFFICES ASSUME SessionInv, LoopType, TxType, FlowType, [Next]_vars
             PROVE  LoopType' /\ TxType' /\ FlowType'
  BY DEF TypeOK, LoopType, TxType, FlowType
<1>0. tx \in TxState /\ ob \in FlowState
  BY DEF TxType, FlowType
<1>1. TxType'
  BY TxTypeInductive
<1>2. LoopType'
  <2>1. CASE \E p \in Components, more \in BOOLEAN : PreparedMessage(p, more)
    <3>1. PICK p \in Components, more \in BOOLEAN : PreparedMessage(p, more)
      BY <2>1
    <3>2. p \in Component /\ (~more) \in BOOLEAN
      BY ComponentsAssumption
    <3>3. process_prepared_tx_part(tx, p, ~more).sw \in Statuses
      BY <1>0, <3>2, PreparedPart, LoopWords DEF PartStep
    <3> QED BY <3>1, <3>3, MessageLoopType DEF PreparedMessage
  <2>2. CASE \E sized \in BOOLEAN, more \in BOOLEAN : HashMessage(sized, more)
    <3>1. PICK sized \in BOOLEAN, more \in BOOLEAN : HashMessage(sized, more)
      BY <2>2
    <3>2. process_transaction_hash(tx, sized, more).sw \in Statuses
      BY <1>0, HashProcessed, LoopWords
    <3> QED BY <3>1, <3>2, MessageLoopType DEF HashMessage
  <2>3. CASE \E m \in TopologyMessages, more \in BOOLEAN : TopologyMsg(m, more)
    <3>1. PICK m \in TopologyMessages, more \in BOOLEAN : TopologyMsg(m, more)
      BY <2>3
    <3>2. process_untyped_versioned_msg_tx(tx, ob, m, ~more).sw \in Statuses
      BY <1>0, HostMessages, TopologyPart
    <3> QED BY <3>1, <3>2, MessageLoopType DEF TopologyMsg
  <2>4. CASE \E m \in TopologyMessages, more \in BOOLEAN : HashStoreAssertion(m, more)
    BY <2>4, LoopWords, BufferAssumption
       DEF HashStoreAssertion, MessageEnds, SignTxContinues, LoopType
  <2>5. CASE UNCHANGED vars
    BY <2>5 DEF vars, LoopType
  <2> QED BY <2>1, <2>2, <2>3, <2>4, <2>5, LoopTypeCommands, LoopTypeUser DEF Next
<1>3. FlowType'
  <2>1. CASE \E m \in TopologyMessages, more \in BOOLEAN : TopologyMsg(m, more)
    <3>1. PICK m \in TopologyMessages, more \in BOOLEAN : TopologyMsg(m, more)
      BY <2>1
    <3>2. ob' = process_untyped_versioned_msg_tx(tx, ob, m, ~more).ob
      BY <3>1 DEF TopologyMsg
    <3> QED BY <1>0, <3>2, HostMessages, TopologyPart DEF FlowType
  <2>2. CASE \E type \in SigningTypes, p \in Paths, c \in Challenges : SignTxFirst(type, p, c)
    <3>1. PICK type \in SigningTypes, p \in Paths, c \in Challenges : SignTxFirst(type, p, c)
      BY <2>2
    <3>2. ob' \in {ob, process_untyped_versioned_msg_tx_init(ob, c)}
      BY <3>1, Zenon DEF SignTxFirst
    <3> QED BY <1>0, <3>2, StoreSteps DEF FlowType
  <2>3. CASE Restart
    BY <2>3, BootFlowType DEF Restart, FlowType
  <2>4. CASE \/ UNCHANGED vars \/ Quiet
             \/ \E p \in Paths, display \in BOOLEAN : handler_get_public_key(p, display)
             \/ \E type \in SigningTypes : SignTxRefused(type)
             \/ \E p \in Components, more \in BOOLEAN : PreparedMessage(p, more)
             \/ \E sized \in BOOLEAN, more \in BOOLEAN : HashMessage(sized, more)
             \/ \E choice \in BOOLEAN : ReviewChoice(choice)
    BY <2>4 DEF vars, Quiet, handler_get_public_key, SignTxRefused, PreparedMessage,
                HashMessage, ReviewChoice, FlowType
  <2> QED BY <2>1, <2>2, <2>3, <2>4, NextCases
<1> QED BY <1>1, <1>2, <1>3

\* The variables keep their types whatever the host sends, the status words included,
\* and the message buffer is never written past its end (handler_sign_tx).
THEOREM TypeCorrect == Spec => []TypeOK
<1>1. Init => TypeOK
  BY LoopInitially, BootType, BootFlowType, TypeParts DEF Init, TxType, FlowType
<1> QED BY <1>1, TypeInductive, SessionInvariance, PTL DEF Spec
-----------------------------------------------------------------------------
(***************************************************************************)
(* What an onboarding signs                                                *)
(***************************************************************************)
\* An open flow whose store is allocated gathers; the store is gone when a review
\* comes, and the flow has gathered what is reviewed.  A flow that was answered is
\* still open, but without its store no further message gets anywhere.
OnboardingInv ==
  signing_type = "SIGN_UNTYPED_VERSIONED_MESSAGE" =>
    /\ req_type = "CONFIRM_TRANSACTION" /\ screen \notin Reviews /\ ob.stored =>
         Gathering(tx, ob, path, asked)
    /\ screen \in Reviews => ~ob.stored /\ Gathered(tx, ob, path, asked)
    /\ screen = "clear" => tx.clear

\* A blind review keeps what was gathered.
LEMMA BlindGathered ==
  ASSUME NEW t \in TxState, NEW o, NEW k, NEW a, ~t.clear, Gathered(t, o, k, a)
  PROVE  Gathered(AllocatePairs(t, "hash"), o, k, a)
<1>1. /\ AllocatePairs(t, "hash").clear = t.clear
      /\ AllocatePairs(t, "hash").challenge_signature = t.challenge_signature
  BY DEF AllocatePairs, TxState
<1> QED BY <1>1 DEF Gathered

LEMMA OnboardingInductive ==
  SessionInv /\ TypeOK /\ OnboardingInv /\ [Next]_vars => OnboardingInv'
<1> SUFFICES ASSUME SessionInv, TypeOK, OnboardingInv, [Next]_vars
             PROVE  OnboardingInv'
  OBVIOUS
<1>0. tx \in TxState /\ ob \in FlowState /\ asked \in BOOLEAN
  BY DEF TypeOK
<1>1. CASE UNCHANGED vars
  BY <1>1 DEF vars, OnboardingInv
<1>2. CASE Quiet
  BY <1>2 DEF Quiet, OnboardingInv, Reviews
<1>3. CASE \E p \in Paths, display \in BOOLEAN : handler_get_public_key(p, display)
  BY <1>3 DEF handler_get_public_key, OnboardingInv
<1>4. ASSUME NEW type \in SigningTypes, NEW p \in Paths, NEW c \in Challenges,
             SignTxFirst(type, p, c)
      PROVE  OnboardingInv'
  <2>1. /\ screen' = screen /\ screen \notin Reviews /\ path' = p
        /\ signing_type' = "SIGN_UNTYPED_VERSIONED_MESSAGE" =>
             /\ type = "SIGN_UNTYPED_VERSIONED_MESSAGE" /\ p # "malformed"
             /\ ob' = process_untyped_versioned_msg_tx_init(ob, c)
             /\ asked' = (c = "good")
    BY <1>4, Idle DEF SignTxFirst
  <2>2. SUFFICES ASSUME signing_type' = "SIGN_UNTYPED_VERSIONED_MESSAGE"
                 PROVE  Gathering(tx', ob', p, asked')
    BY <2>1 DEF OnboardingInv, Reviews
  <2>3. /\ tx'.clear = FALSE /\ tx'.challenge_signature = FALSE /\ tx'.signature = p
    BY <1>0, <1>4, <2>1, <2>2, Opened
  <2>4. /\ ob'.tx_hashes = << >> /\ ob'.brought = << >> /\ ob'.parsed = {}
        /\ ob'.challenge = asked'
    <3> DEFINE u == process_untyped_versioned_msg_tx_init(ob, c)
    <3>1. u.tx_hashes = << >> /\ u.brought = << >> /\ u.parsed = {} /\ u.challenge = (c = "good")
      BY <1>0, StoreSteps
    <3> HIDE DEF u
    <3>2. ob' = u /\ asked' = (c = "good")
      BY <2>1, <2>2 DEF u
    <3> QED BY <3>1, <3>2
  <2>5. Len(ob'.brought) <= MAX_HASHES /\ DOMAIN ob'.brought = {}
    BY <2>4, HashesAssumption
  <2> QED BY <2>3, <2>4, <2>5 DEF Gathering
<1>5. CASE \E type \in SigningTypes : SignTxRefused(type)
  BY <1>5, Idle DEF SignTxRefused, refuse_tx, OnboardingInv
<1>6. CASE \/ \E p \in Components, more \in BOOLEAN : PreparedMessage(p, more)
           \/ \E sized \in BOOLEAN, more \in BOOLEAN : HashMessage(sized, more)
  BY <1>6 DEF PreparedMessage, HashMessage, MessageEnds, SignTxContinues, OnboardingInv
<1>7. ASSUME NEW m \in TopologyMessages, NEW more \in BOOLEAN, TopologyMsg(m, more)
      PROVE  OnboardingInv'
  <2> DEFINE r == process_untyped_versioned_msg_tx(tx, ob, m, ~more)
  <2>1. /\ AfterMessage(r, more) /\ ob' = r.ob /\ ob.stored /\ screen \notin Reviews
        /\ signing_type = "SIGN_UNTYPED_VERSIONED_MESSAGE" /\ req_type = "CONFIRM_TRANSACTION"
        /\ path' = path /\ asked' = asked
    BY <1>7, Idle DEF TopologyMsg, MessageEnds, SignTxContinues
  <2>2. Gathering(tx, ob, path, asked)
    BY <2>1 DEF OnboardingInv
  <2>3. (~more) \in BOOLEAN
    OBVIOUS
  <2>4. /\ r.sw = "OK" /\ ~more => ~r.ob.stored
        /\ r.sw = "OK" => \/ ~more /\ Gathered(r.tx, r.ob, path, asked)
                          \/ more /\ Gathering(r.tx, r.ob, path, asked)
    <3> DEFINE finished == ~more
    <3>1. finished \in BOOLEAN /\ m \in TopologyMessage /\ Encodable(m)
      BY HostMessages
    <3> HIDE DEF finished
    <3> DEFINE q == process_untyped_versioned_msg_tx(tx, ob, m, finished)
    <3>2. /\ q.sw = "OK" /\ finished => ~q.ob.stored
          /\ q.sw = "OK" /\ Gathering(tx, ob, path, asked) =>
               \/ finished /\ Gathered(q.tx, q.ob, path, asked)
               \/ ~finished /\ Gathering(q.tx, q.ob, path, asked)
      BY <1>0, <3>1, TopologyPart
    <3> QED BY <2>2, <3>2 DEF finished
  <2>5. r.tx \in TxState
    BY <1>0, <2>3, TopologyProcessed
  <2> HIDE DEF r
  <2>6. CASE req_type' = "CONFIRM_ADDRESS" /\ screen' = screen
    BY <2>1, <2>6 DEF OnboardingInv, Reviews
  <2>7. CASE /\ r.sw = "OK" /\ more /\ tx' = r.tx /\ UNCHANGED <<req_type, screen, answered>>
    BY <2>1, <2>4, <2>7 DEF OnboardingInv, Reviews
  <2>8. CASE /\ r.sw = "OK" /\ ~more /\ r.tx.clear /\ tx' = r.tx /\ screen' = "clear"
    BY <2>1, <2>4, <2>8 DEF OnboardingInv, Reviews
  <2>9. CASE r.sw = "OK" /\ ~more /\ screen' = "blind_error"
    BY <2>1, <2>4, <2>9 DEF OnboardingInv, Reviews
  <2>10. CASE /\ r.sw = "OK" /\ ~more /\ ~r.tx.clear /\ screen' = "blind"
              /\ tx' = AllocatePairs(r.tx, "hash")
    <3>1. Gathered(tx', ob', path, asked)
      BY <2>1, <2>4, <2>5, <2>10, BlindGathered
    <3> QED BY <2>1, <2>4, <2>10, <3>1 DEF OnboardingInv, Reviews
  <2> QED BY <2>1, <2>5, <2>6, <2>7, <2>8, <2>9, <2>10, Processed
<1>8. CASE \E choice \in BOOLEAN : ReviewChoice(choice)
  BY <1>8 DEF ReviewChoice, OnboardingInv, Reviews
<1>9. CASE Restart
  BY <1>9 DEF Restart, OnboardingInv
<1> QED BY <1>1, <1>2, <1>3, <1>4, <1>5, <1>6, <1>7, <1>8, <1>9, NextCases

LEMMA OnboardingInvariance == Spec => [](TypeOK /\ OnboardingInv)
<1>1. Init => OnboardingInv
  BY DEF Init, OnboardingInv
<1> QED BY <1>1, SessionInvariance, TypeCorrect, OnboardingInductive, PTL DEF Spec

\* The signature of an onboarding covers every message of its flow, as often as it came
\* (compute_multi_hash over the store add_hash fills), and a challenge exactly if the
\* flow brought one; for every size of the store and every set of messages.
THEOREM MultiHashOfFlow == Spec => []MultiHashCovers
<1>1. TypeOK /\ OnboardingInv => MultiHashCovers
  <2> SUFFICES ASSUME TypeOK, OnboardingInv, screen \in Reviews,
                      signing_type = "SIGN_UNTYPED_VERSIONED_MESSAGE"
               PROVE  /\ ob.multi_hash = compute_multi_hash(ob.brought)
                      /\ tx.challenge_signature <=> asked
    BY DEF MultiHashCovers
  <2>1. Gathered(tx, ob, path, asked)
    BY DEF OnboardingInv
  <2> QED BY <2>1 DEF Gathered
<1> QED BY <1>1, OnboardingInvariance, PTL

LEMMA ThreeMappings == Cardinality(Mappings) = 3
<1> DEFINE a == "namespace_delegation"
           b == "party_to_key"
           c == "party_to_participant"
<1>1. IsFiniteSet({}) /\ Cardinality({}) = 0
  BY FS_EmptySet
<1>2. IsFiniteSet({a}) /\ Cardinality({a}) = 1
  BY FS_Singleton
<1>3. IsFiniteSet({a, b}) /\ Cardinality({a, b}) = 2
  <2>1. {a, b} = {a} \cup {b} /\ b \notin {a}
    OBVIOUS
  <2> QED BY <1>2, <2>1, FS_AddElement
<1>4. Cardinality({a, b, c}) = 3
  <2>1. {a, b, c} = {a, b} \cup {c} /\ c \notin {a, b}
    OBVIOUS
  <2> QED BY <1>3, <2>1, FS_AddElement
<1> QED BY <1>4 DEF Mappings

\* Three mappings in a store of three: every message carries one of them.
LEMMA StoreFull ==
  ASSUME NEW s \in Seq(TopologyMessage), Len(s) <= 3,
         \A x \in Mappings : \E i \in DOMAIN s : s[i].mapping = x
  PROVE  Len(s) = 3 /\ \A i \in DOMAIN s : s[i].mapping \in Mappings
<1>1. PICK i \in DOMAIN s : s[i].mapping = "namespace_delegation"
  BY DEF Mappings
<1>2. PICK j \in DOMAIN s : s[j].mapping = "party_to_key"
  BY DEF Mappings
<1>3. PICK k \in DOMAIN s : s[k].mapping = "party_to_participant"
  BY DEF Mappings
<1>4. i # j /\ j # k /\ i # k
  BY <1>1, <1>2, <1>3
<1>5. DOMAIN s = 1 .. Len(s) /\ Len(s) \in Nat
  OBVIOUS
<1>6. Len(s) = 3
  BY <1>4, <1>5
<1>7. \A n \in DOMAIN s : n = i \/ n = j \/ n = k
  BY <1>4, <1>5, <1>6
<1> QED BY <1>1, <1>2, <1>3, <1>6, <1>7 DEF Mappings

\* With a store of MAX_HASHES no larger than the number of mappings, an onboarding is
\* reviewed with its details only if the flow brought exactly the three mappings, each
\* adding and each for the key of the flow (process_namespace_delegation,
\* process_party_to_key_mapping, process_party_to_participant), and the pairs show the
\* hosting mapping.
THEOREM OnboardingReviewed ==
  ASSUME MAX_HASHES <= Cardinality(Mappings)
  PROVE  Spec => []OnboardingComplete
<1>1. TypeOK /\ OnboardingInv => OnboardingComplete
  <2> SUFFICES ASSUME TypeOK, OnboardingInv, screen = "clear",
                      signing_type = "SIGN_UNTYPED_VERSIONED_MESSAGE"
               PROVE  OnboardingComplete
    BY DEF OnboardingComplete
  <2> DEFINE b == ob.brought
  <2>1. /\ tx.pairs = "details" /\ Len(b) <= MAX_HASHES
        /\ \A i \in DOMAIN b : b[i].mapping \in Mappings => b[i].add /\ GrantsOnlyTo(b[i], path)
        /\ \A x \in Mappings : \E i \in DOMAIN b : b[i].mapping = x
        /\ \E i \in DOMAIN b :
              /\ b[i].mapping = "party_to_participant"
              /\ ob.display = [party |-> path, participants |-> b[i].participants,
                               threshold |-> b[i].threshold]
    BY DEF OnboardingInv, Reviews, Gathered
  <2>2. b \in Seq(TopologyMessage)
    BY DEF TypeOK, FlowState
  <2> HIDE DEF b
  <2>3. Len(b) <= 3
    BY <2>1, <2>2, ThreeMappings, HashesAssumption
  <2>4. Len(b) = 3 /\ \A i \in DOMAIN b : b[i].mapping \in Mappings
    BY <2>1, <2>2, <2>3, StoreFull
  <2>5. {b[i].mapping : i \in DOMAIN b} = Mappings
    BY <2>1, <2>4
  <2>6. Len(b) = Cardinality(Mappings)
    BY <2>4, ThreeMappings
  <2> QED BY <2>1, <2>4, <2>5, <2>6, Zenon DEF OnboardingComplete, b
<1> QED BY <1>1, OnboardingInvariance, PTL
=============================================================================
