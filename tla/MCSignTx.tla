------------------------------ MODULE MCSignTx ------------------------------
(***************************************************************************)
(* Small instances of SignTx: the components and the topology messages the *)
(* host may send, each with every outcome but one fault at a time.         *)
(***************************************************************************)
EXTENDS SignTx

CONSTANTS
  Screens,   \* what the display parser may make of a component
  Trees,     \* what a component may do to the tree
  Counts,    \* announced node and input contract counts
  Damage     \* whether components may fail to decode or to hash

Good == [decodes |-> TRUE, hashes |-> TRUE, count |-> 1, tree |-> "ok", values |-> TRUE,
         screen |-> "none"]

\* The header and the metadata are read for count and tree, a node and an input contract
\* for tree, values and screen: no step sees more than one of the two sets.
MCComponents ==
  {[Good EXCEPT !.count = n, !.tree = t] : n \in Counts, t \in Trees}
  \cup {[Good EXCEPT !.tree = t, !.values = v, !.screen = s] :
            t \in Trees, v \in BOOLEAN, s \in Screens}
  \cup IF Damage THEN {[Good EXCEPT !.decodes = FALSE], [Good EXCEPT !.hashes = FALSE]} ELSE {}

Key(k) == [format |-> "RAW", bytes |-> "raw", key |-> k]
DerKey(k) == [Key(k) EXCEPT !.format = "DER_X509", !.bytes = "der"]

Delegation(k) ==
  [decodes |-> TRUE, add |-> TRUE, mapping |-> "namespace_delegation", party |-> "",
   keys |-> <<k>>, threshold |-> 0, participants |-> << >>, party_signing_keys |-> FALSE]
PartyToKey(p) ==
  [Delegation(Key(p)) EXCEPT !.mapping = "party_to_key", !.party = p, !.threshold = 1]
PartyToParticipant(p) ==
  [Delegation(Key(p)) EXCEPT !.mapping = "party_to_participant", !.party = p, !.keys = << >>,
                             !.threshold = 2, !.participants = <<"ledger", "kiln">>]
Others(p) == {[PartyToKey(p) EXCEPT !.mapping = "none"], [PartyToKey(p) EXCEPT !.mapping = "other"]}

\* The messages of an honest host for every path, and one deviation at a time for one.
MCTopologyMessages ==
  UNION {{Delegation(Key(p)), PartyToKey(p), PartyToParticipant(p)} : p \in GoodPaths}
  \cup LET p == CHOOSE q \in GoodPaths : TRUE
           delegation == Delegation(Key(p))
           keyed == PartyToKey(p)
           hosted == PartyToParticipant(p)
       IN Others(p)
          \cup {[delegation EXCEPT !.decodes = FALSE], [delegation EXCEPT !.keys = << >>],
                [keyed EXCEPT !.keys = <<DerKey(p)>>], [keyed EXCEPT !.add = FALSE], [keyed EXCEPT !.threshold = 2],
                [keyed EXCEPT !.keys = << >>, !.threshold = 0],
                [keyed EXCEPT !.keys = <<Key(p), Key("stranger")>>, !.threshold = 2],
                [keyed EXCEPT !.party = ""], [keyed EXCEPT !.keys = <<Key("stranger")>>],
                [hosted EXCEPT !.party = ""], [hosted EXCEPT !.threshold = 1],
                [hosted EXCEPT !.party_signing_keys = TRUE]}
          \cup {[delegation EXCEPT !.keys[1].format = f, !.keys[1].bytes = b] :
                  f \in {"RAW", "DER_X509", "other"}, b \in {"none", "raw", "unprefixed", "odd"}}
          \cup {[hosted EXCEPT !.participants = ps] :
                  ps \in {<<"kiln_testnet", "ledger_testnet">>,
                          <<"ledger", "kiln_testnet">>, <<"kiln", "kiln">>, <<"ledger", "">>,
                          <<"stranger", "stranger">>, <<"ledger", "stranger">>, <<"ledger">>,
                          <<"ledger", "kiln", "ledger">>}}
=============================================================================
