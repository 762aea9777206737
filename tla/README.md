# A TLA+ verification of the Canton app

The app runs on a Ledger device. A host sends it commands (APDUs); it shows what
is about to be signed and signs it when the user agrees. This directory models the
app's own logic in TLA+, model-checks it with TLC on small instances and proves
the main results with TLAPS for all instances. `PROJECT.json` maps every definition
to the lines of source it stands for, and lists runs, mutants, hazards and theorems.

## The system

One command is handled at a time. A handler either replies at once or puts up a
review whose callback replies later. All state is global or static to a file, and
the host is free to cut flows short, to mix them and to restart them. There are no
threads: what makes this code hard is the *order* in which legal messages come, the
static state that outlives them, and the small fixed stores that stand in for a
transaction the device cannot hold.

| Component | State | Operations | Works with | What makes it correct |
| --- | --- | --- | --- | --- |
| command loop, dispatcher (`app_main.c`, `dispatcher.c`) | none but the owed reply | parse, dispatch, refuse | every handler | one reply per command |
| `sign_tx.c` | `G_context`: state, request and signing type, path, message buffer | first APDU, chunk, end of message, `refuse_tx` | the three flows, the reviews | a transaction refused by `refuse_tx` stays refused; blind signing needs the setting; the reviewed path is the flow's |
| prepared transaction (`prepared_transaction.c`) | receive state, counters, flags for clear signing | header, node, metadata, input contract, finalize, abort | hashing parser, tree check, values check, display parser | details only after the checks |
| node tree check (`node_tree_check.c`) | two bits per node id, the root, the first error | init, mark seen, claim children, verify, reset | called while a node is decoded and when the metadata comes | accepted nodes are one tree |
| canonical encoding (`canonical_hash.c`) | running hash of a node, last `MAX_NODE_CHILDREN` digests, the first error | put bytes, one encoder per type, init, set and get a digest | hashing parser | the bytes are those of the hashing scheme; a parent is hashed over its own children |
| hashing parser (`pb_hashing_parser.c`) | element count between the two passes, context of one component | count, decode, check completeness, one handler per kind of node | canonical encoding, tree check | the signed hash is the scheme's hash of what was received |
| values check (`node_values_check.c`) | holdings, used contracts, bound screen | record, report, bind, compare, give up, release, reset | holding parser, display parser, hashing parser | a clear review agrees with what the nodes write |
| display parser, display table (`pb_node_display_parser.c`, `hashed_display.h`) | path, fields, the action that waits for a contract | match a configuration, walk an argument, match and store a value, defer, bind, format | values check | the screen is that of an action performed, and each row is the only value at its path |
| holding parser (`pb_holding_parser.c`) | path, three fields | walk an argument, report or give up | values check | a reported holding is the only one the argument can mean |
| onboarding (`untyped_versioned_msg.c`) | hash store, three flags, challenge, the derived key | init, one message, three mappings, last message | `sign_tx.c` | the three mappings grant rights to the signing key only; the multi-hash covers exactly this flow's messages |
| reviews, menu (`ui/`) | the screen, pairs, the setting in flash | put up, answer, dismiss, toggle, quit | `sign_tx.c`, `get_public_key.c` | every review is answered, pairs are freed |
| `get_public_key.c`, `get_version.c`, `get_app_name.c` | path and key in the shared context | one command each | address review | no effect on a flow but to end it |
| response encoding, party id, heap, nanopb | buffers | formatting, allocation, decoding | all | not modelled as such, see below |

The hazards this code is exposed to are in `PROJECT.json`, each at its line, with
the properties that would catch it.

## The modules

| Module | Models | Kind |
| --- | --- | --- |
| `NodeTree` | tree check + digest ring + decoding of one node + the receive states up to the tree verdict | state machine |
| `NodeValues` | values check + what the holding and display parsers feed it + finalization | state machine |
| `FieldReader` | what a reader of configured fields promises | abstract specification |
| `ArgumentWalk` | the walks of display and holding parser over an argument, up to the verdict on the screen or the holding | state machine, implements `FieldReader` |
| `HashScheme` | the hash of a whole transaction, as the participant computes it | reference functions |
| `HashingParser` | hashing parser + encoders + ring + receive states up to the signed hash, byte by byte | state machine, checked against `HashScheme` |
| `PreparedTx` | the whole receive machine, with a component reduced to what the verdicts make of it | operators on one state record |
| `Onboarding` | the onboarding flow and its three mappings, field by field | operators |
| `Signer` | what a signing device promises its user | abstract specification |
| `SignTx` | commands, `sign_tx.c`, reviews, user, setting, restart; composes `PreparedTx` and `Onboarding` | state machine, implements `Signer` |
| `MC…` | finite sets of parts, components, values and messages | instances |
| `…Proofs` | lemmas and theorems, one module per component; `NodeRingProofs` builds on `NodeTreeProofs`, `PreparedTxProofs` and `OnboardingProofs` on `SignTxProofs`, `ArgumentReadProofs` on `ArgumentWalkProofs` | proofs |

`SignTx` has the breadth (every command in every order). The others have the depth:
`NodeTree` and `NodeValues` say what a "tree" or "values" verdict of `PreparedTx`
really is, `ArgumentWalk` where the values come from that `NodeValues` compares, and
`HashingParser` what the signature is over.

### NodeTree

Variables carry the names of the code (`check_ctx`, `recv_node_idx`, `tx_hasher`);
`ring` and `ring_next` are `G_hashed_nodes_store` and its counter. `DamlTxPart`,
`DamlNode` and `apply_node_tree_verdict` are the branches of
`process_prepared_tx_part`, their `…Fails` variants the parts that do not decode, and
`NewSession` is a first APDU at any moment. `parts` is history: what every node
part said and the digests it was hashed over, which the code does not keep.

* A node id is a value *and a spelling*, because the code reads it in three ways: as
  a string (is it a root), strictly (`node_id_from_str`, at most three digits) and
  leniently (`atoint`, 0 for text).
* A digest is named by the transaction and the part it was computed from: SHA-256 is
  taken to be collision free, nothing else is assumed about it. Transactions are
  numbered modulo 2, so a digest of the previous one is told apart from a current one.
* A node whose id field follows it on the wire, or is absent, is decoded without an id.

### NodeValues

`store` is the store of the values check; `clear`, `display_failed` and `deferred`
are the flags of the display parser. `DamlNode`, `Metadata`, `InputContract` and
`process_prepared_tx_finalize` are the receive states. `written`, `opaque`,
`performed`, `acted`, `disclosed` and `shown` are history without the limits of the
store, so a property over them says more than what the store remembers.

* Digests of names and amounts are the values themselves.
* An argument has one record that may choose a screen (`record`) and may have any
  name; how its fields are found is the subject of `ArgumentWalk`.
* Every part has a contract id; the nodes are those of a tree without errors
  (otherwise the code does not parse them for display). Refused parts end a
  transaction, which `NewTransaction` covers at any moment.
* The versions of one choice in the display table are one action.

### ArgumentWalk and FieldReader

Both parsers see an argument as nanopb decodes it: a stream of openings, labels,
scalars and closings. `stack` has a frame for each message under decoding, with the
path to restore (`parent`) and the value of a slot, which the callback of the field
handles after the value has been walked (`CloseSlot`). `ctx` is the context of
the walk under way: path, flags, fields. `Begin` starts the display walk or the
holding walk; `OpenValue`, `RecordId`, `OpenSlot`, `Label`, `Scalar`, `CloseSlot`
and `CloseValue` are the callbacks, shared where the two parsers agree and
different where they do not (escaping of dots, descent, what overflows);
`Finish` is `format_and_populate_display_items` or the report of a holding.
`truth`, `misplaced` and `cut` are history: what really stands at each path, whether a
value came before its label, and whether a path of the holding parser did not fit.

`FieldReader` is the promise: values are met one by one, and at the end the reader
gives up or tells, for each name, the value that stood alone at its path, with
none of the mandatory ones left out. `ReadsFields` is the refinement
(`truth` is what was met, `outcome` what is told); `ShownStandsAlone`,
`TokenIsKnown` and `HoldingStandsAlone` say more about each walk. `ReadsFields` and
`HoldingStandsAlone` are about arguments all of whose paths fit in the holding parser;
what happens to the others is the subject of the run `walk_cut`.

* The argument is a record whose id comes first, and a label and a value are written
  once in a slot. A label may come after the value, be absent, or not fit.
* Lists, maps with any key, variants, enums and units are opaque: no walk enters them.

### HashScheme and HashingParser

A byte is a number and an encoding a sequence of them; a digest is the hashed bytes
between two markers that are no bytes (SHA-256 is taken to be injective, nothing
else). `HashScheme` defines the hash by recursion over a whole transaction.
`HashingParser` follows the code: the encoders append to the running hash of a
component, a repeated field is counted by a decoding of its own
(`value_elem_count`), labels are read in pieces of the decode buffer, nesting
ends when the stack has no room, an absent field writes nothing and sets an error
that is read after the component. One action per component kind, and
`hash_transaction` may come at any moment. `received` is history.

* Fields arrive in the order of their tags, as protobuf serializers write them, and
  roots in the order of the header (several roots in another order give the hash
  of another transaction, which the ledger refuses).
* Records without an id, labels longer than the decode buffer and exercises without a
  result are in the passing run. The bytes hashed for them are not those of the scheme,
  and the properties name them as exceptions (`Regular`, `NoResult`). Map keys are
  scalars in the passing run; `hash_map` has the others.
* A string that is on the wire but empty is not told apart from an absent one: protobuf
  serializers do not write it.
* A node arrives once, with a number for its id; `NodeTree` has the rest.

### PreparedTx, Onboarding, SignTx

The state record `tx` holds `tx_info` and the static state of the checks; `pairs`
tells which array of pairs is allocated and `lost` that a live one was overwritten.
A component carries its effect on the tree, on the values and on the screen, and
whether it decodes and hashes.

An onboarding message carries a mapping with its party, keys, threshold and
participants; `process_namespace_delegation`,
`process_party_to_key_mapping` and `process_party_to_participant` are the checks of
the code in their order, with their status words, and `VALID_PARTICIPANTS_CONFIGS`
the three networks with their validators. A key and the party id made from it are
named by the derivation path; the key waits in the `signature` field of the shared
context, as in the code. The code sorts the hashes before it hashes them, so the
multi-hash is named by the messages it covers and how often.

In `SignTx` a message arrives in chunks, and its end
is one action per flow: the parse, the verdicts, the reply and the choice of the
review are one step, as in the code. `reply = "pending"` stands for a command that is
still unanswered; the io library of the SDK hands over no command meanwhile
(`io_recv_command`, external). `DerivationAssertion` and `HashStoreAssertion` are
the two `LEDGER_ASSERT`s a host can reach; the app then ends and starts again.

`Signer` is the promise to the user: a request names a key, the device asks about the
open request, a blind question needs the user's leave, and a signature is the answer to
a question, with the key the request named. `SignTx` implements it (`SignsAsAsked`): an
open flow is the request, its first path the key, a review on the screen the question,
and a signature the reply that has just been sent. A reply, a refusal, a chunk that is
kept and an answer without a signature are `Respond` or stutters; whatever resets
`req_type` is a `Close`. What a clear question shows is left to the other modules.

## The runs

Passing runs:

| Run | Bounds | What it shows |
| --- | --- | --- |
| `tree` | up to 4 parts, 4 ids, ring of 2, at most 4 nodes, counts 0 to 5, plain, zero-padded and long ids, children named in plain or by text, damaged parts, any number of sessions | type, the inductive invariant `TreeInv`, `AcceptedTree`, `AcceptedGraph` (the tree in the sense of graph theory), `DigestsOfChildren`, `RootDigest`, `NeverMissing`, and `LookupFailures` while the ring wraps |
| `values_agree` | 4 nodes, 1 input contract, 3 holdings, list of 2 contracts out of 3 | `ValuesInv`, a clear review agrees with the writes, agreement is never refused within the limits, and a deferred screen is bound to the contract exercised (`ScreenOfExercised`) |
| `walk` | arguments of up to 8 messages, 3 labels of which one fills the path, display paths of 8 characters (overflow happens), holding paths of 14 (all just fit), holding depth 2, 4 display fields, 3 holding fields | `ReadsFields` (refinement of `FieldReader`), `PathFits`, `ShownStandsAlone`, `TokenIsKnown`, `HoldingStandsAlone` |
| `hash` | up to 3 nodes and 2 input contracts, every kind of value, one field changed or absent per component (strings, ids and seed of a node, version, strings of the metadata, exercise result), records without id, a label longer than the buffer, ring of 2, seeds of 2 bytes, nesting of 3 | `HashIsTheScheme`, `DigestIdentifies`, `MissingIsRefused` |
| `session_prepared` | 6 messages, buffer of 2 chunks, counts 0 to 2, every outcome of a component | replies, setting, refusals (`RefusedStaysClosed`), path, `ClearMeansChecked`, pairs, `SignsAsAsked` (refinement of `Signer`), and that reviews are answered |
| `session_onboarding` | two keys, 5 messages for a store of 3, mappings that fail each check in turn | `OnboardingComplete`, `MultiHashCovers` |

Why these bounds are enough to be interesting: with a ring of 2 and 4 nodes the ring
wraps inside a transaction; four ids allow duplicate, orphan, missing, self-claiming and
out-of-range nodes together; 4 nodes exceed a store of 3 holdings and 3 contracts a
list of 2; 8 messages hold a record inside a record with a repeated, late or
unlabelled field, and a label that fits alone but not behind another; 3 nodes with 2
input contracts have a root over two children, each of any kind, and one component
that deviates is enough to shift its bytes against its neighbours; 6 messages
complete a transaction with two nodes and an input contract and still leave room for
a message too many; 5 messages exceed a hash store of 3, and two keys let a mapping
of one flow meet the key of another. All the runs contain restarts, so every
property is also one about a flow that follows an unfinished one.

Runs that show the code and a statement of the repository to disagree (each
is a finding in `PROJECT.json`, with the quotation):

| Run | Statement | What the code does |
| --- | --- | --- |
| `session_early` | details only if all checks pass | a transaction the host ends early is reviewed with the details found so far; so is one that goes on after it was completed and answered |
| `session_deferred` | … if the nodes form one tree | a screen taken from an input contract is set after the tree verdict |
| `walk_cut` | a create with a path that does not fit reports an unreadable holding | if its fields were already found, the holding is reported, whatever stands after that path |
| `walk_type` | a value of a type the app cannot show means blind signing | a timestamp in the place of a text is stored as its raw bytes and shown |
| `hash_map` | the hash is that of the scheme, version 2 | the count of a map entry's value goes to its key when the key is a container |
| `hash_missing` | a missing field refuses the transaction | a create without its argument, or an exercise without its chosen value, is hashed and signed |

In the cases of the two hash runs the signature is over a hash that a participant does
not compute for that transaction, so the ledger refuses it. `DigestIdentifies` shows,
for the nodes of the passing run, that no other node has the same bytes, records
without an id and labels longer than the buffer excepted.

`ClearMeansChecked` states what does hold in spite of the first two session
findings: a clear review that comes of the completion of a transaction follows a values
check and a display parser without complaint and, unless the screen came from an input
contract, a tree in order. This includes transactions completed once more after an
answer. Clear reviews that come of no completion (a part with `P2_MSG_END` before the
transaction is complete, or a metadata part or input contract after the answer, when the
request type and the decision to show details are still set) are what `session_early` is
about.

More behaviours are worth knowing, and are in the models without a run of their own.

* *Refusals that leave the flow open.* `sign_tx.c:51` and `test_sign_cmd.py:768` say
  that a refused transaction ends the session. That holds of `refuse_tx`, and
  `RefusedStaysClosed` says no more. A transaction refused because blind signing is off
  (a refusal in the words of `TRANSACTION.md:68`; `blind_signing.c:39`) leaves the flow open: further parts are taken, and
  once the setting is on the same flow can be reviewed. So do `SW_BAD_STATE` for a part
  of another signing type, `SW_SIGNATURE_FAIL`, and a review the user rejects.
* *Root spelled otherwise.* A root node spelled with a leading zero passes the tree check,
  but its digest is left out of the hash (`RootDigest` states it); an id that is no
  number is read as node 0.
* *Bytes that are not the scheme's.* The presence byte of an exercise result is always
  written as 1 (`pb_hashing_parser.c:1057`), where the scheme has 0 for an absent one. A
  record without an id is hashed without its presence byte and field count, and a label
  longer than the buffer as several strings. The ledger refuses such signatures.
* *Status of a missing field.* A node with a missing field is refused with
  `SW_TX_PARSING_FAIL`; `TRANSACTION.md:61` says `SW_TX_HASH_FAIL`. `MissingIsRefused` is
  about the refusal, not the status word.
* *Late labels after a cut path.* The test for a missing label in the holding parser
  (`pb_holding_parser.c:278`) asks for a configuration, which an overflowing path has
  cleared. A value taken from a field that turns out to be unnamed is then reported, which
  is one more way to meet the case of `walk_cut`.
* *Screen of a pre-approval.* A disclosed pre-approval proposal can choose the screen
  while another is awaited (the values check then requires that nothing is written).
* *Eviction.* A correct tree can be refused: a child is evicted when `MAX_NODE_CHILDREN`
  digests come between it and its parent; `LookupFailures` states exactly when.
* *Onboarding.* A message after the last one runs into an assertion, and a blind review
  overwrites the pairs its first APDU allocated (`nbgl_display_transaction.c:67`), so
  `NoPairsLost` is checked for the two other flows only.

Every property of a passing run has a mutant: a plausible slip in one modelled
function (operators commented "Mutant" beside the original) under which TLC finds it
violated.

**Fairness.** `LiveSpec` assumes one thing: a user who has a review on the screen
answers it (weak fairness on the two answers together). The code cannot promise more;
nothing is assumed about the host, nor that the user approves. `ReviewsAreAnswered`
then depends on every branch of the callbacks replying.

**Deadlock** is checked in all runs but `walk`, `walk_cut` and `walk_type`, where an
argument that has used up its messages (`MaxSize`, a bound of the model) may have nowhere to go.

## The proofs

Assumptions on constants are named `ASSUME`s in the modules, and TLC evaluates them in
the runs: sizes are natural numbers (ring, buffer and paths not empty), sets of parts,
messages and leaves are of their types, `"none"` is no account, amount, issuer,
instrument or contract. Two say something about the wire or the tables: a namespace
delegation has at most one target key, since the field is singular
(`MessagesAssumption`); each screen has a mandatory row of its own, and a screen with a
token amount asks for issuer and instrument (`FieldsAssumption`).

**`NodeTreeProofs`**: for every ring size, node limit and stream of parts,
`TypeCorrect`, `BitsAndRing`, `AcceptedTreeHolds`, `AcceptedGraphHolds`, `DigestsHold`,
`MissingChildUnreachable`. None of the last four is inductive by itself: the verdict is
read off two sets of ids at the very end. `TreeInv` says what they stand for while no
error is cached: `seen` is exactly the ids received, each once (`SeenInv`); `claimed` is
the root and the children received so far, each with one parent (`ClaimedInv`); ring
slots hold digests of this transaction under their ids (`DigestInv`). That every child
precedes its parent comes from the lookups, not from the tree check, which is why ring
and tree check are one module. `NeverMissing` needs a counting argument: `nodes_count`
different ids in `0 .. nodes_count - 1` are all of them.

`AcceptedGraphHolds` (`AcceptedGraph`) goes from the two bits per id to a tree: the edges
join received nodes, no node has two parents, and a path of parents leads from every
node to the root. The lemma `ReachesRoot` takes the last part received without such a
path: it is not the root, so some part claims it, that parent came later and has a path,
and the path grows by one edge. This is a least-element argument over the positions of
the parts, so no induction principle is instantiated.

**`NodeRingProofs`**: `OnlyOverwrittenIsLost` (`LookupFailures`) and `HashCoversRoot`
(`RootDigest`). The first needs the ring as a sliding window: the digest stored `c`
nodes ago is in the slot `c` places behind the counter, for every `c` up to the ring
size (`WindowInv`), so a lookup fails for what was overwritten or never came and for
nothing else. The second says of every accepted tree which digest the transaction hash
covers: the root's, once, or none when the root node spells its id otherwise than the
header does.

**`NodeValuesProofs`**: `StoreKeepsItsLimits`, `StoreTellsTheHistory`,
`ClearReviewAgrees`, `NoFalseAlarm`, `DeferredScreenIsBound`. `ValuesInv` is the
inductive invariant: while the check has not given up, the store is the complete history
(`StoreIsHistory`), and while details may be shown the bound values are those on
the screen (`BoundIsShown`). `NoFalseAlarm` (`AgreementMeansClear`) is the converse and
needs its own: whenever the check has given up, a limit was hit or the history
disagrees (`ReasonInv`). The deferred screens need `DeferredInv`: an action
that waits is one a node performed. `ScreenOfExercised` has one hypothesis about
the input, `ChoicesAreNoTemplates`: no disclosed contract is a create of a template
named like an accept, reject or withdraw choice. Daml gives it; the app has no test
of its own.

**`SignTxProofs`**: `ReplyIsOwedForReviews`, `BlindReviewNeedsSetting`,
`RefusalEndsFlow` (`RefusedStaysClosed`: refusals by `refuse_tx`, not the ones listed above
that leave the flow open), `ReviewedPath`, for any number of messages, paths and components.
They are inductive only together (`SessionInv`): the owed reply is what keeps
commands away from a flow under review, so neither path nor setting can change under
it. `SignsOnlyAsAsked` (`SignsAsAsked`) is the refinement of `Signer`, step by step: one
lemma for the user (`UserRefines`), one for the end of a message (`MessageAsks`), one
for the commands (`CommandRefines`). It needs two more facts in the same invariant: only
an open flow is under review (in `RefusalCloses`), and an app that stopped at an assertion
shows no review and owes no reply (`AssertionIdles`), or the restart would take a
question away that nobody answered.

**`PreparedTxProofs`**: `ClearFollowsChecks` (`ClearMeansChecked`) and `PairsAreFreed`
(`NoPairsLost`). The first is about reviews that come of a completion, first or repeated,
and about no others (see `session_early`). It relates the verdict flags to what the components did, at each
receive state; the second follows the two arrays of pairs through every review and
abort, under the hypothesis that no onboarding is signed (that flow does lose them).

**`OnboardingProofs`**: `TypeCorrect` (the type invariant of the session),
`MultiHashOfFlow` (`MultiHashCovers`) and `OnboardingReviewed` (`OnboardingComplete`).
The invariant ties hash store, flags and derived key to the messages of the
current flow; that the hash store is exactly as full as the flow is long is what makes
the multi-hash one of this flow alone. `OnboardingReviewed` assumes that the store is no
larger than the number of mappings (three of three in the code): then a full store
whose mappings were all different has seen each.

**`ArgumentWalkProofs`**: `WalkTypes` and `PathsFit`, for arguments of any shape and
size. The buffers need more than the push's own test: the path is also assigned back
from a frame, so every `parent` on the stack must fit (`FitsInv`); and that the depth
never falls below 0 needs it to be the number of entered records on the stack
(`DepthInv`).

**`ArgumentReadProofs`**: `ScreenStandsAlone` (`ShownStandsAlone`) and `TickerIsKnown`
(`TokenIsKnown`), for every configuration of paths and arguments of any shape and size,
under one hypothesis on the argument, `RecordArguments`: it is a record whose id comes
before its fields, as serializers write it. The argument is about clean walks: the path
is tracked, nothing has given the walk up, and no label is overdue, that is, still owed
by a slot the walk has been inside. On a clean walk the path is where the walk stands
(`PathInv`), and what is kept for a name is what was met at its path (`ShownInv`). A
walk that is not clean stays so: an overdue label makes it unreadable when it comes and
when its slot ends without it. That needs to know that a walk inside a slot has opened a
value since the slot began (`OpenedInv`, `EnteredInv`), which is what the comparison of
`opened` with `before` in the code rests on.

`HoldingIsReported` (`HoldingStandsAlone`) is the same for the holding walk, for labels
without dots and arguments whose paths all fit, both stated in the property; of a path
that does not fit nothing of the kind holds (`walk_cut`). A record's id plays no part in
it. The holding walk has two more
ways to lose its place. It does not descend below `MAX_LABEL_DEPTH` records: `LevelInv`
says that it is in exactly the plain frames down to that depth, and that its depth
counter is that of the innermost frame it is in. And it stops matching when a path does
not fit, so `HeldInv` is about sound walks: not given up, never cut, and with no label
overdue while matching.

`FieldsAreRead` (`ReadsFields`) is the refinement of `FieldReader`, under
`RecordArguments`, for labels without dots, of behaviours in which no path of the holding
parser is cut (`Spec /\ []~cut => ReadsFields`). Opening, labelling and closing a
container are stutters; a slot that ends is a value met for at most one name, as no two
names have one path, and never a container's own mark (`FillInv`); the end of an
argument is a `Tell` or a `GiveUp` by what the two invariants say of a walk that shows or
reports; the next argument is a `Restart`, the very first one a stutter (`FreshInv`).

**Only model-checked**: `ReviewsAreAnswered` (liveness under fairness is out of the
prover's reach); everything about `HashingParser`: its encoding of values and its
reference are recursive operators, and even its types and that an error stays
(`MissingIsRefused`) need induction over the sequences its encoders fold.

## What is not modelled

* SHA-256, Ed25519 and key derivation themselves; nanopb, and the generated protobuf
  code beyond the messages the callbacks see. A part that nanopb cannot decode is an
  input of every model.
* Formatting of amounts, timestamps and party ids: a value formats or it does not.
* Arguments whose record does not start with its id, and a screen chosen by a record
  below the argument.
* Heap sizes. Allocation failure is an input where the code handles it (tree
  array, contract list, copies of timestamps, preset values, formatters); elsewhere the code asserts.
* Two failures on data the app has itself made: `SW_DISPLAY_ADDRESS_FAIL` (no party id from
  the key it has just derived) and `SW_CHALLENGE_SIGNATURE_FAIL` (the challenge cannot be
  signed at the end of an onboarding).
* Strings that are on the wire but empty (`HashingParser` takes them for absent).
* Ids of ten and more digits, where `atoint` overflows.
* Layout of replies (`send_reponse.c`, `bytewriter.c`), of screens and of the menu;
  the Python client and the emulator tests (the models allow any host).

## Plan

Built, in this order because a wrong clear review is what the app exists to prevent:
the tree and the digests, the command loop with both flows, the values; then the walk
over an argument with its abstract specification, the encoding against the hashing
scheme, and the mappings of an onboarding; then the proofs, component by component, up
to the refinements of `FieldReader` and `Signer`. What the runs check and no theorem
states is listed above, with the reason.
