---------------------------- MODULE ArgumentWalk ----------------------------
(***************************************************************************)
(* The walks over the argument of a node: the display parser looks for the *)
(* fields of a screen, the holding parser for the fields of a holding.     *)
(* Both follow the protobuf messages as they stand on the wire, keep the   *)
(* labels on the way in a path and compare that path with the configured   *)
(* ones; neither ever has the argument as a whole.                         *)
(*                                                                         *)
(* An argument is a stream of openings, labels, scalars and closings that  *)
(* the host chooses.  The stack holds one frame for each message that is   *)
(* being decoded: slots (the argument, a record field, an optional's       *)
(* value, a map entry) hold one value each, containers (record, optional,  *)
(* text_map) hold slots.  Lists, maps with any key, variants, enums and    *)
(* units are opaque: neither walk enters them.  A record choosing the      *)
(* screen is an input here, NodeValues says which one does.                *)
(*                                                                         *)
(* Paths are sequences of labels with the length of their text.  A label   *)
(* and a value are written at most once in a slot, as protobuf serializers *)
(* do.                                                                     *)
(***************************************************************************)
EXTENDS Integers, Sequences, FiniteSets

CONSTANTS
  Labels,               \* labels and keys that can be read
  Width,                \* characters of a label
  Segments,             \* a label cut at its dots
  MAX_FIELD_PATH_LEN,   \* room for the path of the display parser
  MAX_LABEL_PATH_LEN,   \* room for the path of the holding parser
  MAX_LABEL_DEPTH,      \* records the holding parser descends into
  FieldOrder,           \* names of the fields of the screen, in their order
  Fields,               \* their path, whether they are mandatory, their format
  Preset,               \* the names whose value comes with the screen
  HoldingPaths,         \* paths of a holding's fields
  KnownTokens,          \* the <<admin, instrument>> pairs that have a ticker
  Leaves,               \* scalars the host may send
  ArgumentKinds,        \* values an argument may be; in Daml it is a record
  LateId,               \* whether a record may carry fields before its id
  MaxSize               \* bound: the messages of an argument

DisplayNames == DOMAIN Fields
HoldingNames == DOMAIN HoldingPaths
Names == DisplayNames \cup HoldingNames

NoValue == [type |-> "unset", value |-> "none"]
Container(k) == [type |-> k, value |-> "none"]

ASSUME NamesAssumption ==
  /\ DisplayNames \cap HoldingNames = {} /\ Preset \subseteq DisplayNames
  /\ FieldOrder \in Seq(DisplayNames) /\ {FieldOrder[i] : i \in DOMAIN FieldOrder} = DisplayNames
  /\ {"owner", "amount", "admin"} \subseteq HoldingNames
ASSUME PathsAssumption ==
  /\ \A m, n \in DisplayNames : m # n => Fields[m].path # Fields[n].path
  /\ \A m, n \in HoldingNames : m # n => HoldingPaths[m] # HoldingPaths[n]
  /\ \A n \in HoldingNames : Len(HoldingPaths[n]) <= MAX_LABEL_DEPTH
\* Every screen has a mandatory row that does not come with it, and the screen of a token's
\* amount asks for the amount, the issuer and the instrument.
ASSUME FieldsAssumption ==
  /\ \A n \in DisplayNames :
       /\ Fields[n].path \in Seq(Labels) /\ Fields[n].mandatory \in BOOLEAN
       /\ Fields[n].format \in {"plain", "native", "timestamp", "token"}
       /\ Fields[n].format = "token" =>
            /\ Fields[n].mandatory
            /\ \A m \in {"ADMIN", "INSTRUMENT"} : m \in DisplayNames \ Preset /\ Fields[m].mandatory
  /\ \E n \in DisplayNames \ Preset : Fields[n].mandatory
  /\ \A n \in HoldingNames : HoldingPaths[n] \in Seq(Labels)
\* A timestamp is eight bytes: it is never empty.
ASSUME LeavesAssumption ==
  \A leaf \in Leaves :
    /\ leaf \in [type : {"party", "numeric", "text", "timestamp", "scalar"}, value : STRING]
    /\ leaf.type = "timestamp" => leaf.value # "empty"
ASSUME BoundsAssumption ==
  /\ {MAX_FIELD_PATH_LEN, MAX_LABEL_PATH_LEN, MAX_LABEL_DEPTH, MaxSize} \subseteq Nat \ {0}
  /\ LateId \in BOOLEAN
ASSUME LabelsAssumption ==
  /\ "?" \notin Labels
  /\ Width \in [Labels -> Nat \ {0}] /\ Segments \in [Labels -> Seq(Labels)]

VARIABLES
  reader,    \* the walk under way: "display", "holding" or "idle"
  stack,     \* the messages being decoded
  ctx,       \* the state of the walk
  outcome,   \* how the last walk ended, and the values it ended with
  truth,     \* history: what stands at the configured paths: nothing, a value, or Many
  misplaced, \* history: a label came after the value it names was entered
  cut,       \* history: a path of the holding parser did not fit
  size       \* the messages of the argument so far

vars == <<reader, stack, ctx, outcome, truth, misplaced, cut, size>>
history == <<truth, misplaced, cut>>
-----------------------------------------------------------------------------
(***************************************************************************)
(* Paths                                                                   *)
(***************************************************************************)
EmptyPath == [labels |-> <<>>, length |-> 0]
Joined(path, labels, width) ==
  [labels |-> path.labels \o labels,
   length |-> path.length + width + (IF path.length > 0 THEN 1 ELSE 0)]

EscapedWidth(l) == Width[l] + Len(Segments[l]) - 1

\* Mutant: the terminator is forgotten.
push_path_full(c, l) ==
  IF ~c.active \/ ~c.tracked THEN c
  ELSE IF c.path.length + 1 + EscapedWidth(l) > MAX_FIELD_PATH_LEN
  THEN [c EXCEPT !.unreadable = TRUE]
  ELSE [c EXCEPT !.path = Joined(@, <<l>>, EscapedWidth(l))]

\* The display parser escapes dots: a label is one segment of its path.
push_path(c, l) ==
  IF ~c.active \/ ~c.tracked THEN c
  ELSE IF c.path.length + 1 + EscapedWidth(l) >= MAX_FIELD_PATH_LEN
  THEN [c EXCEPT !.unreadable = TRUE]
  ELSE [c EXCEPT !.path = Joined(@, <<l>>, EscapedWidth(l))]

\* The holding parser does not escape, and stops matching when a path does not fit: its
\* configuration is dropped for the rest of the create.
path_push(c, l) ==
  LET pushed == Joined(c.path, Segments[l], Width[l])
  IN IF pushed.length >= MAX_LABEL_PATH_LEN THEN [c EXCEPT !.active = FALSE]
     ELSE [c EXCEPT !.path = pushed]
-----------------------------------------------------------------------------
(***************************************************************************)
(* Fields: what a walk keeps for a name                                    *)
(***************************************************************************)
Unmatched == [matched |-> FALSE, failed |-> FALSE, leaf |-> NoValue]
PresetValue == [type |-> "text", value |-> "preset"]

\* The screen is chosen.  The pre-approval screen names its asset by itself, if there is
\* memory for the copy.
set_display_config(memory) ==
  [n \in DisplayNames |->
     IF n \notin Preset THEN Unmatched
     ELSE IF memory THEN [matched |-> TRUE, failed |-> FALSE, leaf |-> PresetValue]
     ELSE [matched |-> TRUE, failed |-> TRUE, leaf |-> NoValue]]

\* The name configured for a path, as a set.
find_field_by_path(path) == {n \in DisplayNames : Fields[n].path = path}

\* A value the screen keeps: once, not empty, not too long; a timestamp is copied.
StoreValue(slot, leaf, memory) ==
  IF slot.matched THEN [slot EXCEPT !.failed = TRUE]
  ELSE IF leaf.type # "timestamp" /\ leaf.value = "empty" THEN [slot EXCEPT !.matched = TRUE]
  ELSE IF (leaf.type # "timestamp" /\ leaf.value = "long") \/ (leaf.type = "timestamp" /\ ~memory)
  THEN [slot EXCEPT !.matched = TRUE, !.failed = TRUE]
  ELSE [slot EXCEPT !.matched = TRUE, !.leaf = leaf]

\* The value of an optional was handled on the same path already.
find_tx_field(c, leaf, memory) ==
  LET found == IF c.active /\ c.tracked THEN find_field_by_path(c.path.labels) ELSE {}
  IN [c EXCEPT !.fields =
        [n \in DOMAIN @ |->
           IF n \notin found \/ leaf.type = "optional" THEN @[n]
           ELSE IF leaf.type \in {"party", "numeric", "text", "timestamp"}
           THEN StoreValue(@[n], leaf, memory)
           ELSE [@[n] EXCEPT !.failed = TRUE]]]

\* The name a holding has for a scalar at a path, as a set: a text is the instrument, a
\* party or a number anything but the instrument.
HoldingName(path, leaf) ==
  {n \in HoldingNames :
     /\ HoldingPaths[n] = path
     /\ IF n = "instrument" THEN leaf.type = "text" ELSE leaf.type \in {"party", "numeric"}}

find_holding_field(c, leaf) ==
  LET found == IF c.active THEN HoldingName(c.path.labels, leaf) ELSE {}
  IN [c EXCEPT !.unreadable = @ \/ \E n \in found : c.fields[n].matched,
               !.fields = [n \in DOMAIN @ |->
                             IF n \in found THEN [matched |-> TRUE, failed |-> FALSE, leaf |-> leaf]
                             ELSE @[n]]]
-----------------------------------------------------------------------------
(***************************************************************************)
(* Frames                                                                  *)
(***************************************************************************)
Slots == {"argument", "field", "inner", "entry"}
SlotOf == [record |-> "field", optional |-> "inner", text_map |-> "entry"]

Top == stack[Len(stack)]
Below == SubSeq(stack, 1, Len(stack) - 1)
InSlot == stack # <<>> /\ Top.kind \in Slots
InContainer == stack # <<>> /\ Top.kind \in DOMAIN SlotOf
SetTop(frame) == Append(Below, frame)

\* where: the labels that lead to this frame, "?" for one that is not known;
\* plain: no optional and no map on the way.
Frame(kind, visited, where, plain) ==
  [kind |-> kind, visited |-> visited, where |-> where, plain |-> plain, parent |-> ctx.path,
   before |-> ctx.opened, labelled |-> FALSE, value |-> NoValue]

\* Where the value of a slot stands.
Where(frame) ==
  IF frame.kind \in {"field", "entry"} /\ ~frame.labelled THEN Append(frame.where, "?")
  ELSE frame.where

\* Does the walk enter this value?  The holding parser descends only into records.
Enters(k) ==
  /\ Top.visited
  /\ reader = "holding" => k = "record" /\ ctx.depth < MAX_LABEL_DEPTH

\* Without a screen the display parser skips the fields of a record.
EntersSlot == Top.visited /\ (reader = "display" /\ Top.kind = "record" => ctx.active)
-----------------------------------------------------------------------------
NewContext(names, active, tracked) ==
  [active |-> active, tracked |-> tracked, path |-> EmptyPath, depth |-> 0, opened |-> 0,
   unreadable |-> FALSE, fields |-> [n \in names |-> Unmatched]]
Idle == NewContext({}, FALSE, FALSE)
NoOutcome == [kind |-> "none", values |-> [n \in Names |-> NoValue]]
Many == <<NoValue, NoValue>>
NoTruth == [n \in Names |-> <<>>]

Init ==
  /\ reader = "idle" /\ stack = <<>> /\ ctx = Idle /\ outcome = NoOutcome
  /\ truth = NoTruth /\ misplaced = FALSE /\ cut = FALSE /\ size = 0

\* tracked: there is memory for the path.  A holding is read only from a create whose
\* template has paths.
Begin(r, tracked) ==
  /\ reader = "idle"
  /\ reader' = r
  /\ ctx' = IF r = "display" THEN NewContext({}, FALSE, tracked)
            ELSE NewContext(HoldingNames, TRUE, TRUE)
  /\ stack' = <<[kind |-> "argument", visited |-> TRUE, where |-> <<>>, plain |-> TRUE,
                 parent |-> EmptyPath, before |-> 0, labelled |-> FALSE, value |-> NoValue]>>
  /\ outcome' = NoOutcome
  /\ truth' = NoTruth /\ misplaced' = FALSE /\ cut' = FALSE /\ size' = 1

\* Bound: an argument has MaxSize messages, and none is added once a walk has given up:
\* nothing clears the flags that say so.
Room == size < MaxSize /\ ~ctx.unreadable /\ \A n \in DOMAIN ctx.fields : ~ctx.fields[n].failed

\* decode_value_variant, decode_value: a value that is a message of its own.
OpenValue(k) ==
  LET enters == Enters(k)
  IN /\ InSlot /\ Top.value = NoValue
     /\ Len(stack) = 1 => k \in ArgumentKinds
     /\ Room /\ size' = size + 1
     /\ stack' = SetTop([Top EXCEPT !.value = Container(k)])
                   \o (IF k = "opaque" THEN <<>>
                       ELSE <<Frame(k, enters, Where(Top), Top.plain /\ k = "record")>>)
     /\ ctx' = IF ~enters THEN ctx
               ELSE [ctx EXCEPT !.opened = @ + 1, !.depth = IF k = "record" THEN @ + 1 ELSE @]
     /\ UNCHANGED <<reader, outcome, history>>

\* decode_record_id_field: the id of the outermost record chooses the screen.
RecordId(chooses) ==
  /\ InContainer /\ Top.kind = "record"
  /\ LateId \/ Top.value = NoValue
  /\ reader = "display" /\ Top.visited /\ ctx.depth = 1 /\ ~ctx.active
  /\ ctx' \in IF ~chooses THEN {ctx}
              ELSE {[ctx EXCEPT !.active = TRUE, !.fields = set_display_config(memory)] :
                       memory \in BOOLEAN}
  /\ stack' = SetTop([Top EXCEPT !.labelled = TRUE])
  /\ ~Top.labelled
  /\ UNCHANGED <<reader, outcome, history, size>>

\* decode_record_field, decode_value, decode_value_text_map: a slot begins.
OpenSlot ==
  /\ InContainer /\ Room /\ size' = size + 1
  /\ stack' = Append(SetTop([Top EXCEPT !.value = Container("slots")]),
                     Frame(SlotOf[Top.kind], EntersSlot, Top.where, Top.plain))
  /\ UNCHANGED <<reader, ctx, outcome, history>>

Scalar(leaf) ==
  /\ InSlot /\ Top.value = NoValue
  /\ stack' = SetTop([Top EXCEPT !.value = leaf])
  /\ UNCHANGED <<reader, ctx, outcome, history, size>>

\* Mutant: a label is pushed although its value was read before it.
read_label_anytime(c, frame, l) ==
  IF l = "?" THEN [c EXCEPT !.unreadable = TRUE]
  ELSE IF reader = "display" THEN push_path(c, l) ELSE path_push(c, l)

\* A value entered before its label was matched under the parent's path; a label that is
\* empty, holds a NUL or does not fit the buffer ("?") is not pushed.
read_path_segment(c, frame, l) ==
  LET late == [c EXCEPT !.unreadable = @ \/ c.opened # frame.before]
  IN IF l = "?" THEN [late EXCEPT !.unreadable = TRUE]
     ELSE IF reader = "display" THEN push_path(late, l)
     ELSE path_push(late, l)

\* History: the walk has been inside the value of this slot.
Entered(frame) ==
  IF reader = "display" THEN frame.value.type \in {"record", "optional", "text_map"}
  ELSE frame.value.type = "record" /\ frame.plain /\ Len(frame.where) + 1 < MAX_LABEL_DEPTH

Label(l) ==
  LET read == read_path_segment(ctx, Top, l)
      overflows == reader = "holding" /\ Top.visited /\ ctx.active /\ ~read.active
  IN /\ InSlot /\ Top.kind \in {"field", "entry"} /\ ~Top.labelled
     /\ ctx' = IF Top.visited THEN read ELSE ctx
     /\ stack' = SetTop([Top EXCEPT !.labelled = TRUE, !.where = Append(@, l)])
     /\ misplaced' = (misplaced \/ Entered(Top))
     /\ cut' = (cut \/ overflows)
     /\ UNCHANGED <<reader, outcome, truth, size>>

\* History: the names for what this slot holds, whatever the walk made of it.
TrueNames(frame, where) ==
  IF reader = "display"
  THEN {n \in DisplayNames : Fields[n].path = where /\ frame.value.type # "optional"}
  ELSE {n \in HoldingName(where, frame.value) : frame.plain}

Met(frame) ==
  truth' = [n \in Names |-> IF n \notin TrueNames(frame, Where(frame)) THEN truth[n]
                            ELSE IF truth[n] = <<>> THEN <<frame.value>> ELSE Many]

\* A slot that should have carried a label.
MissingLabel(frame) ==
  frame.kind \in {"field", "entry"} /\ ~frame.labelled /\ ctx.active

\* A slot ends: its value is matched, then the path is cut back.
CloseSlot(memory) ==
  LET c == [ctx EXCEPT !.unreadable = @ \/ MissingLabel(Top)]
      matched == IF reader = "display" THEN find_tx_field(c, Top.value, memory)
                 ELSE find_holding_field(c, Top.value)
  IN /\ InSlot /\ Len(stack) > 1
     /\ ctx' = IF Top.visited THEN [matched EXCEPT !.path = Top.parent] ELSE ctx
     /\ stack' = Below
     /\ Met(Top)
     /\ UNCHANGED <<reader, outcome, misplaced, cut, size>>

\* Mutant: the depth is counted down for every container.
CloseValue_unbalanced ==
  /\ InContainer
  /\ ctx' = [ctx EXCEPT !.depth = @ - 1]
  /\ stack' = Below
  /\ UNCHANGED <<reader, outcome, history, size>>

CloseValue ==
  /\ InContainer
  /\ ctx' = IF Top.kind = "record" /\ Top.visited THEN [ctx EXCEPT !.depth = @ - 1] ELSE ctx
  /\ stack' = Below
  /\ UNCHANGED <<reader, outcome, history, size>>
-----------------------------------------------------------------------------
(***************************************************************************)
(* The end of a walk                                                       *)
(***************************************************************************)
ValueOf(n) == ctx.fields[n].leaf.value
IsSet(n) == n \in DisplayNames /\ ctx.fields[n].leaf # NoValue

\* The amount of a token needs its ticker.  Without the instrument the formatter returns
\* early: the mandatory check of the instrument comes later.
UnknownToken ==
  /\ IsSet("INSTRUMENT") /\ IsSet("ADMIN")
  /\ <<ValueOf("ADMIN"), ValueOf("INSTRUMENT")>> \notin KnownTokens

\* Mutant: the amount is shown without a ticker when the token is not known.
FormatFails_lenient(n, starved) == Fields[n].format # "plain" /\ n \in starved

\* starved: the formatters that find no memory, or a time out of range.
FormatFails(n, starved) ==
  CASE Fields[n].format = "plain" -> FALSE
    [] Fields[n].format \in {"native", "timestamp"} -> n \in starved
    [] Fields[n].format = "token" ->
         UnknownToken \/ (IsSet("INSTRUMENT") /\ IsSet("ADMIN") /\ n \in starved)

FieldVerdict(n, starved) ==
  IF ctx.fields[n].failed THEN "failed"
  ELSE IF Fields[n].mandatory /\ ~IsSet(n) THEN "refused"
  ELSE IF IsSet(n) /\ FormatFails(n, starved) THEN "failed"
  ELSE "ok"

\* The fields are looked at in their order and the first one that is not fine decides.
format_and_populate_display_items(starved) ==
  LET Bad == {i \in DOMAIN FieldOrder : FieldVerdict(FieldOrder[i], starved) # "ok"}
      first == CHOOSE i \in Bad : \A j \in Bad : i <= j
  IN IF ctx.unreadable THEN "failed"
     ELSE IF Bad = {} THEN "shown"
     ELSE FieldVerdict(FieldOrder[first], starved)

DisplayOutcome(starved) ==
  IF ctx.active THEN format_and_populate_display_items(starved) ELSE "unmatched"

\* Mutant: an unreadable holding is reported.
HoldingOutcome_lenient ==
  IF \A n \in HoldingNames : ctx.fields[n].matched THEN "reported" ELSE "unreadable"

\* Mutant: a field that was not located is not missed.
HoldingOutcome_partial == IF ctx.unreadable THEN "unreadable" ELSE "reported"

HoldingOutcome ==
  IF ~ctx.unreadable /\ \A n \in HoldingNames : ctx.fields[n].matched THEN "reported"
  ELSE "unreadable"

End(kind) ==
  /\ reader' = "idle" /\ stack' = <<>> /\ ctx' = Idle
  /\ outcome' = [kind |-> kind,
                 values |-> [n \in Names |-> IF kind \in {"shown", "reported"} /\ n \in DOMAIN ctx.fields
                                             THEN ctx.fields[n].leaf ELSE NoValue]]
  /\ size' = 0 /\ UNCHANGED history

Finish(starved) ==
  /\ InSlot /\ Len(stack) = 1
  /\ End(IF reader = "display" THEN DisplayOutcome(starved) ELSE HoldingOutcome)

\* Damaged bytes, or no stack left for another level: the callbacks return false and the
\* walk unwinds.
DecodeFails ==
  /\ reader # "idle"
  /\ End(IF reader = "display" THEN "refused" ELSE "unparsed")

Next ==
  \/ \E r \in {"display", "holding"}, tracked \in BOOLEAN : Begin(r, tracked)
  \/ \E k \in {"record", "optional", "text_map", "opaque"} : OpenValue(k)
  \/ \E chooses \in BOOLEAN : RecordId(chooses)
  \/ OpenSlot
  \/ \E leaf \in Leaves : Scalar(leaf)
  \/ \E l \in Labels \cup {"?"} : Label(l)
  \/ \E memory \in BOOLEAN : CloseSlot(memory)
  \/ CloseValue
  \/ \E starved \in SUBSET DisplayNames : Finish(starved)
  \/ DecodeFails

Spec == Init /\ [][Next]_vars
-----------------------------------------------------------------------------
(***************************************************************************)
(* Properties                                                              *)
(***************************************************************************)
Path == [labels : Seq(Labels), length : Nat]
Leaf == [type : {"unset", "party", "numeric", "text", "timestamp", "scalar", "record", "optional",
                 "text_map", "opaque", "slots"},
         value : {v.value : v \in Leaves \cup {NoValue, PresetValue}}]

TypeOK ==
  /\ reader \in {"idle", "display", "holding"}
  /\ stack \in Seq([kind : Slots \cup DOMAIN SlotOf, visited : BOOLEAN,
                    where : Seq(Labels \cup {"?"}), plain : BOOLEAN, parent : Path,
                    before : Nat, labelled : BOOLEAN, value : Leaf])
  /\ ctx.path \in Path /\ ctx.depth \in Nat /\ ctx.opened \in Nat
  /\ ctx.active \in BOOLEAN /\ ctx.tracked \in BOOLEAN /\ ctx.unreadable \in BOOLEAN
  /\ DOMAIN ctx.fields \in {{}, DisplayNames, HoldingNames}
  /\ \A n \in DOMAIN ctx.fields :
       ctx.fields[n] \in [matched : BOOLEAN, failed : BOOLEAN, leaf : Leaf]
  /\ outcome.kind \in {"none", "shown", "failed", "refused", "unmatched", "reported",
                       "unreadable", "unparsed"}
  /\ outcome.values \in [Names -> Leaf] /\ truth \in [Names -> Seq(Leaf)]
  /\ misplaced \in BOOLEAN /\ cut \in BOOLEAN
  /\ size \in 0..MaxSize

\* The buffers of the two paths are never written past their end, the terminator included.
PathFits ==
  /\ reader = "display" => ctx.path.length < MAX_FIELD_PATH_LEN
  /\ reader = "holding" => ctx.path.length < MAX_LABEL_PATH_LEN

\* What an argument really holds at the path of n is told by its only value, or by nothing
\* when there is none or an empty one.
OnlyValue(n) ==
  /\ Len(truth[n]) <= 1
  /\ outcome.values[n] = IF truth[n] = <<>> \/ truth[n][1].value = "empty" THEN NoValue
                         ELSE truth[n][1]

\* "A value appears twice on the same path, or the app has no memory to store it: blind
\* signing" and "A mandatory field is missing or empty: the app refuses": a screen is shown
\* only if each of its rows is the one value that stands at its path, with every label read
\* before the value it names, whatever is unlabelled, too long, empty or out of order.
ShownStandsAlone ==
  outcome.kind = "shown" =>
    /\ ~misplaced
    /\ \A n \in DisplayNames \ Preset :
         OnlyValue(n) /\ (Fields[n].mandatory => outcome.values[n] # NoValue)
    /\ \A n \in Preset : truth[n] = <<>>

\* "Known token: the instrument (admin and ID) must be in the app's list of known tokens":
\* a token amount is shown only with the ticker of the instrument in the argument.
TokenIsKnown ==
  outcome.kind = "shown" /\ (\E n \in DisplayNames : Fields[n].format = "token") =>
    \E t \in KnownTokens :
      truth["ADMIN"][1].value = t[1] /\ truth["INSTRUMENT"][1].value = t[2]

\* Daml names have no dots: a label is one segment of a path.
NoDots == \A l \in Labels : Segments[l] = <<l>>

\* "One contract has one owner, one amount and one admin": a holding is reported only from
\* an argument in which exactly one value stands at each of its paths, that value being the
\* one reported, with every label read before the value it names.  A create with a path that
\* does not fit (cut) is left out: it can be reported whatever comes after that path, and
\* with a label that came late, which is what CutIsUnreadable is about.
HoldingStandsAlone ==
  outcome.kind = "reported" /\ ~cut /\ NoDots =>
    ~misplaced /\ \A n \in HoldingNames : Len(truth[n]) = 1 /\ outcome.values[n] = truth[n][1]

\* path_push, on a path that cannot be written down: "Stop matching for the rest of this create
\* rather than read the fields under it at a depth they do not have.  The create then reports
\* an unreadable holding."
CutIsUnreadable == outcome.kind = "reported" => ~cut

\* "A value has a type that the app cannot show: blind signing": the row of a text is a
\* text, that of a time is a time.
ShownInItsType ==
  outcome.kind = "shown" =>
    \A n \in DisplayNames : outcome.values[n] # NoValue =>
      (outcome.values[n].type = "timestamp") = (Fields[n].format = "timestamp")

Standing == Leaves \cup {NoValue} \cup {Container(k) : k \in {"record", "text_map", "opaque"}}

(***************************************************************************)
(* Both walks implement the abstract reader of fields.                     *)
(***************************************************************************)
Told == Names \ Preset

Reader == INSTANCE FieldReader WITH
  Names <- Told,
  Layouts <- {{n \in DisplayNames \ Preset : Fields[n].mandatory}, HoldingNames},
  Values <- Standing, Blank <- NoValue,
  found <- [n \in Told |-> truth[n]],
  report <- [kind |-> CASE outcome.kind = "none" -> "reading"
                        [] outcome.kind \in {"shown", "reported"} -> "told"
                        [] OTHER -> "gave_up",
             values |-> [n \in Told |-> outcome.values[n]]]

\* The two walks, step by step: they meet values one at a time and end by giving up or by
\* telling, for each name, what stood alone at its path, the mandatory fields of a screen
\* or all the fields of a holding.  It holds of walks in which every path of the holding
\* parser fits its buffer: see CutIsUnreadable for the others.
ReadsFields == Reader!Spec
=============================================================================
