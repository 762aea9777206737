------------------------- MODULE ArgumentWalkProofs -------------------------
(***************************************************************************)
(* Type correctness and path bounds of the two walks.  The frames are      *)
(* typed together with the context, whose depth is the number of records   *)
(* being decoded, so that it can be counted down when one of them ends;    *)
(* and every frame keeps a path that fits, so that cutting the path back   *)
(* to it keeps it fitting.                                                 *)
(***************************************************************************)
EXTENDS ArgumentWalk, TLAPS, FiniteSetTheorems, WellFoundedInduction

FrameType ==
  [kind : Slots \cup DOMAIN SlotOf, visited : BOOLEAN, where : Seq(Labels \cup {"?"}),
   plain : BOOLEAN, parent : Path, before : Nat, labelled : BOOLEAN, value : Leaf]
FieldState == [matched : BOOLEAN, failed : BOOLEAN, leaf : Leaf]
Context(D) ==
  [active : BOOLEAN, tracked : BOOLEAN, path : Path, depth : Nat, opened : Nat,
   unreadable : BOOLEAN, fields : [D -> FieldState]]
OutcomeType ==
  [kind : {"none", "shown", "failed", "refused", "unmatched", "reported", "unreadable", "unparsed"},
   values : [Names -> Leaf]]

\* The names a walk keeps something for.
Kept ==
  IF reader = "holding" THEN HoldingNames
  ELSE IF reader = "display" /\ ctx.active THEN DisplayNames ELSE {}

Records == {i \in DOMAIN stack : stack[i].kind = "record" /\ stack[i].visited}

TypeInv ==
  /\ reader \in {"idle", "display", "holding"}
  /\ stack \in Seq(FrameType)
  /\ (reader = "idle") = (stack = <<>>)
  /\ ctx \in Context(Kept)
  /\ outcome \in OutcomeType
  /\ truth \in [Names -> Seq(Leaf)]
  /\ misplaced \in BOOLEAN /\ cut \in BOOLEAN /\ size \in 0..MaxSize

DepthInv == ctx.depth = Cardinality(Records)
-----------------------------------------------------------------------------
(***************************************************************************)
(* Constants and frames                                                    *)
(***************************************************************************)
\* The slots and containers.
LEMMA Kinds ==
  /\ DOMAIN SlotOf = {"record", "optional", "text_map"}
  /\ SlotOf["record"] = "field" /\ SlotOf["optional"] = "inner" /\ SlotOf["text_map"] = "entry"
  /\ \A k \in DOMAIN SlotOf : SlotOf[k] \in Slots \ {"argument"} /\ k \notin Slots
BY DEF SlotOf, Slots

\* What a slot may hold is a leaf.
LEMMA LeafTypes ==
  /\ NoValue \in Leaf /\ PresetValue \in Leaf
  /\ \A k \in {"record", "optional", "text_map", "opaque", "slots"} : Container(k) \in Leaf
  /\ \A leaf \in Leaves : leaf \in Leaf
<1>1. "none" \in {v.value : v \in Leaves \cup {NoValue, PresetValue}}
  <2>1. NoValue.value = "none"
    BY DEF NoValue
  <2> QED
    BY <2>1
<1>2. "preset" \in {v.value : v \in Leaves \cup {NoValue, PresetValue}}
  <2>1. PresetValue.value = "preset"
    BY DEF PresetValue
  <2> QED
    BY <2>1
<1>3. \A leaf \in Leaves : leaf \in Leaf
  <2> SUFFICES ASSUME NEW leaf \in Leaves PROVE leaf \in Leaf
    OBVIOUS
  <2>1. leaf.value \in {v.value : v \in Leaves \cup {NoValue, PresetValue}}
    OBVIOUS
  <2>2. leaf \in [type : {"party", "numeric", "text", "timestamp", "scalar"}, value : STRING]
    BY LeavesAssumption
  <2> QED
    BY <2>1, <2>2 DEF Leaf
<1> QED
  BY <1>1, <1>2, <1>3 DEF Leaf, NoValue, PresetValue, Container

\* A stack, its frames but the last, and the stack with the last one replaced.
LEMMA StackOps ==
  ASSUME NEW S, NEW s \in Seq(S), s # <<>>
  PROVE /\ Len(s) \in Nat \ {0} /\ DOMAIN s = 1..Len(s)
        /\ s[Len(s)] \in S
        /\ SubSeq(s, 1, Len(s) - 1) \in Seq(S)
        /\ Len(SubSeq(s, 1, Len(s) - 1)) = Len(s) - 1
        /\ \A i \in 1..Len(s) - 1 : SubSeq(s, 1, Len(s) - 1)[i] = s[i]
<1>1. Len(s) \in Nat /\ Len(s) # 0 /\ DOMAIN s = 1..Len(s)
  OBVIOUS
<1> QED
  BY <1>1

LEMMA AppendOps ==
  ASSUME NEW S, NEW s \in Seq(S), NEW f \in S
  PROVE /\ Append(s, f) \in Seq(S) /\ Append(s, f) # <<>>
        /\ Len(Append(s, f)) = Len(s) + 1 /\ DOMAIN Append(s, f) = 1..Len(s) + 1
        /\ \A i \in 1..Len(s) : Append(s, f)[i] = s[i]
        /\ Append(s, f)[Len(s) + 1] = f
        /\ s \o <<f>> = Append(s, f)
<1>1. /\ Append(s, f) \in Seq(S) /\ Append(s, f) # <<>>
      /\ Len(Append(s, f)) = Len(s) + 1 /\ DOMAIN Append(s, f) = 1..Len(s) + 1
      /\ \A i \in 1..Len(s) : Append(s, f)[i] = s[i]
      /\ Append(s, f)[Len(s) + 1] = f
  OBVIOUS
<1>2. s \o <<f>> = Append(s, f)
  OBVIOUS
<1> QED
  BY <1>1, <1>2

\* SetTop(f): the frames below stay.
LEMMA SetTopOps ==
  ASSUME NEW S, stack \in Seq(S), stack # <<>>, NEW f \in S
  PROVE /\ SetTop(f) \in Seq(S) /\ SetTop(f) # <<>>
        /\ Len(SetTop(f)) = Len(stack) /\ DOMAIN SetTop(f) = 1..Len(stack)
        /\ \A i \in 1..Len(stack) - 1 : SetTop(f)[i] = stack[i]
        /\ SetTop(f)[Len(stack)] = f
<1>1. /\ Len(stack) \in Nat \ {0} /\ Below \in Seq(S) /\ Len(Below) = Len(stack) - 1
      /\ \A i \in 1..Len(stack) - 1 : Below[i] = stack[i]
  BY StackOps DEF Below
<1> QED
  BY <1>1, AppendOps DEF SetTop

\* Popping the top frame.
LEMMA BelowOps ==
  ASSUME NEW S, stack \in Seq(S), stack # <<>>
  PROVE /\ Below \in Seq(S) /\ Len(Below) = Len(stack) - 1 /\ DOMAIN Below = 1..Len(stack) - 1
        /\ \A i \in 1..Len(stack) - 1 : Below[i] = stack[i]
        /\ Top \in S /\ Top = stack[Len(stack)]
        /\ Len(stack) \in Nat \ {0} /\ DOMAIN stack = 1..Len(stack)
        /\ (Below = <<>>) = (Len(stack) = 1)
<1>1. /\ Len(stack) \in Nat \ {0} /\ Below \in Seq(S) /\ Len(Below) = Len(stack) - 1
      /\ \A i \in 1..Len(stack) - 1 : Below[i] = stack[i] /\ DOMAIN stack = 1..Len(stack)
      /\ stack[Len(stack)] \in S
  BY StackOps DEF Below
<1>2. DOMAIN Below = 1..Len(stack) - 1
  BY <1>1
<1>3. (Below = <<>>) = (Len(stack) = 1)
  BY <1>1
<1> QED
  BY <1>1, <1>2, <1>3 DEF Top
-----------------------------------------------------------------------------
(***************************************************************************)
(* Paths                                                                   *)
(***************************************************************************)
LEMMA LabelWidths ==
  ASSUME NEW l \in Labels
  PROVE /\ Width[l] \in Nat \ {0} /\ EscapedWidth(l) \in Nat
        /\ Segments[l] \in Seq(Labels)
<1>1. Width[l] \in Nat \ {0} /\ Segments[l] \in Seq(Labels)
  BY LabelsAssumption
<1>2. Len(Segments[l]) \in Nat
  BY <1>1
<1> QED
  BY <1>1, <1>2 DEF EscapedWidth

\* A path grows by labels and by at most one dot more than their width.
LEMMA JoinedPath ==
  ASSUME NEW path \in Path, NEW labels \in Seq(Labels), NEW w \in Nat
  PROVE /\ Joined(path, labels, w) \in Path
        /\ Joined(path, labels, w).labels = path.labels \o labels
        /\ Joined(path, labels, w).length <= path.length + 1 + w
<1>1. path.labels \in Seq(Labels) /\ path.length \in Nat
  BY DEF Path
<1>2. path.labels \o labels \in Seq(Labels)
  BY <1>1
<1> QED
  BY <1>1, <1>2 DEF Joined, Path

LEMMA EmptyIsPath == EmptyPath \in Path /\ EmptyPath.labels = <<>> /\ EmptyPath.length = 0
<1>1. << >> \in Seq(Labels)
  OBVIOUS
<1> QED
  BY <1>1 DEF EmptyPath, Path

\* push_path leaves the context alone, gives the walk up or lengthens the path within its room.
LEMMA push_pathEffect ==
  ASSUME NEW D, NEW c \in Context(D), NEW l \in Labels
  PROVE \/ push_path(c, l) = c /\ (~c.active \/ ~c.tracked)
        \/ push_path(c, l) = [c EXCEPT !.unreadable = TRUE]
        \/ /\ c.path.length + 1 + EscapedWidth(l) < MAX_FIELD_PATH_LEN
           /\ push_path(c, l) = [c EXCEPT !.path = Joined(c.path, <<l>>, EscapedWidth(l))]
<1>1. c.path.length \in Nat /\ EscapedWidth(l) \in Nat /\ MAX_FIELD_PATH_LEN \in Nat
  BY LabelWidths, BoundsAssumption DEF Context, Path
<1>2. (c.path.length + 1 + EscapedWidth(l) >= MAX_FIELD_PATH_LEN)
      \/ c.path.length + 1 + EscapedWidth(l) < MAX_FIELD_PATH_LEN
  BY <1>1
<1> QED
  BY <1>2, Zenon DEF push_path

\* path_push lengthens the path within its room or stops the matching.
LEMMA path_pushEffect ==
  ASSUME NEW D, NEW c \in Context(D), NEW l \in Labels
  PROVE \/ path_push(c, l) = [c EXCEPT !.active = FALSE]
        \/ /\ Joined(c.path, Segments[l], Width[l]).length < MAX_LABEL_PATH_LEN
           /\ path_push(c, l) = [c EXCEPT !.path = Joined(c.path, Segments[l], Width[l])]
<1> DEFINE pushed == Joined(c.path, Segments[l], Width[l])
<1>1. pushed.length \in Nat /\ MAX_LABEL_PATH_LEN \in Nat
  BY LabelWidths, JoinedPath, BoundsAssumption DEF Context, Path
<1>2. pushed.length >= MAX_LABEL_PATH_LEN \/ pushed.length < MAX_LABEL_PATH_LEN
  BY <1>1
<1> QED
  BY <1>2, Zenon DEF path_push

\* The updates of a context keep its type.
LEMMA ContextUpdates ==
  ASSUME NEW D, NEW c \in Context(D)
  PROVE /\ \A b \in BOOLEAN : [c EXCEPT !.unreadable = b] \in Context(D)
        /\ \A b \in BOOLEAN : [c EXCEPT !.active = b] \in Context(D)
        /\ \A p \in Path : [c EXCEPT !.path = p] \in Context(D)
        /\ \A f \in [D -> FieldState] : [c EXCEPT !.fields = f] \in Context(D)
BY DEF Context

\* What reading a label does to the context, in the terms of both walks: the flags that give
\* a walk up only rise, and a path that is replaced grew by the segments of the label.
Reading(c, r, before, l, pushed, width) ==
  /\ r.tracked = c.tracked /\ r.depth = c.depth /\ r.opened = c.opened /\ r.fields = c.fields
  /\ ~r.unreadable => ~c.unreadable /\ l # "?" /\ c.opened = before
  /\ r.active => c.active
  /\ r.path = c.path \/ (l # "?" /\ r.path = Joined(c.path, pushed, width))
  /\ (r.active /\ r.tracked /\ ~r.unreadable) => r.path = Joined(c.path, pushed, width)
LEMMA DisplayLabel ==
  ASSUME NEW D, NEW c \in Context(D), NEW frame \in FrameType, NEW l \in Labels \cup {"?"},
         reader = "display"
  PROVE LET r == read_path_segment(c, frame, l)
        IN /\ r \in Context(D) /\ r.active = c.active
           /\ Reading(c, r, frame.before, l, <<l>>, EscapedWidth(l))
           /\ r.path = c.path \/ r.path.length < MAX_FIELD_PATH_LEN
<1> DEFINE late == [c EXCEPT !.unreadable = @ \/ c.opened # frame.before]
           r == read_path_segment(c, frame, l)
<1>1. late \in Context(D)
  BY ContextUpdates DEF Context
<1>2. /\ late.active = c.active /\ late.tracked = c.tracked /\ late.depth = c.depth
      /\ late.opened = c.opened /\ late.fields = c.fields /\ late.path = c.path
      /\ late.unreadable = (c.unreadable \/ c.opened # frame.before)
  BY DEF Context
<1>3. CASE l = "?"
  <2>1. r = [late EXCEPT !.unreadable = TRUE]
    BY <1>3 DEF read_path_segment
  <2>2. r \in Context(D)
    BY <1>1, <2>1, ContextUpdates
  <2> HIDE DEF late
  <2>3. /\ r.active = late.active /\ r.tracked = late.tracked /\ r.depth = late.depth
        /\ r.opened = late.opened /\ r.fields = late.fields /\ r.path = late.path /\ r.unreadable
    BY <1>1, <2>1 DEF Context
  <2> HIDE DEF r
  <2>4. Reading(c, r, frame.before, l, <<l>>, EscapedWidth(l))
    BY <1>2, <2>3, Zenon DEF Reading
  <2> QED
    BY <1>2, <2>2, <2>3, <2>4 DEF r
<1>4. CASE l # "?"
  <2>1. l \in Labels
    BY <1>4
  <2>2. r = push_path(late, l)
    BY <1>4, Zenon DEF read_path_segment
  <2> DEFINE pushed == Joined(c.path, <<l>>, EscapedWidth(l))
  <2>3. pushed \in Path /\ pushed.length <= c.path.length + 1 + EscapedWidth(l)
    <3>1. <<l>> \in Seq(Labels) /\ c.path \in Path /\ EscapedWidth(l) \in Nat
      BY <2>1, LabelWidths DEF Context
    <3> QED
      BY <3>1, JoinedPath
  <2>4. c.path.length \in Nat /\ EscapedWidth(l) \in Nat /\ MAX_FIELD_PATH_LEN \in Nat /\ pushed.length \in Nat
    BY <2>1, <2>3, LabelWidths, BoundsAssumption DEF Context, Path
  <2> HIDE DEF late, pushed, r
  <2>5. \/ r = late /\ (~late.active \/ ~late.tracked)
        \/ r = [late EXCEPT !.unreadable = TRUE]
        \/ /\ late.path.length + 1 + EscapedWidth(l) < MAX_FIELD_PATH_LEN
           /\ r = [late EXCEPT !.path = Joined(late.path, <<l>>, EscapedWidth(l))]
    BY <1>1, <2>1, <2>2, push_pathEffect
  <2>6. CASE r = late /\ (~late.active \/ ~late.tracked)
    <3>1. Reading(c, r, frame.before, l, <<l>>, EscapedWidth(l))
      BY <1>2, <1>4, <2>6, Zenon DEF Reading
    <3> QED
      BY <3>1, <1>1, <1>2, <2>6 DEF r
  <2>7. CASE r = [late EXCEPT !.unreadable = TRUE]
    <3>1. /\ r \in Context(D) /\ r.active = late.active /\ r.tracked = late.tracked /\ r.depth = late.depth
          /\ r.opened = late.opened /\ r.fields = late.fields /\ r.path = late.path /\ r.unreadable
      BY <1>1, <2>7 DEF Context
    <3>2. Reading(c, r, frame.before, l, <<l>>, EscapedWidth(l))
      BY <1>2, <1>4, <3>1, Zenon DEF Reading
    <3> QED
      BY <1>2, <3>1, <3>2 DEF r
  <2>8. CASE /\ late.path.length + 1 + EscapedWidth(l) < MAX_FIELD_PATH_LEN
             /\ r = [late EXCEPT !.path = Joined(late.path, <<l>>, EscapedWidth(l))]
    <3>1. r = [late EXCEPT !.path = pushed]
      BY <1>2, <2>8 DEF pushed
    <3>2. /\ r \in Context(D) /\ r.active = late.active /\ r.tracked = late.tracked /\ r.depth = late.depth
          /\ r.opened = late.opened /\ r.fields = late.fields /\ r.unreadable = late.unreadable
          /\ r.path = pushed
      BY <1>1, <2>3, <3>1 DEF Context
    <3>3. Reading(c, r, frame.before, l, <<l>>, EscapedWidth(l))
      BY <1>2, <1>4, <3>2, Zenon DEF Reading, pushed
    <3>4. pushed.length < MAX_FIELD_PATH_LEN
      BY <1>2, <2>3, <2>4, <2>8
    <3> QED
      BY <1>2, <3>2, <3>3, <3>4 DEF r
  <2> QED
    BY <2>5, <2>6, <2>7, <2>8
<1> QED
  BY <1>3, <1>4

LEMMA HoldingLabel ==
  ASSUME NEW D, NEW c \in Context(D), NEW frame \in FrameType, NEW l \in Labels \cup {"?"},
         reader = "holding"
  PROVE LET r == read_path_segment(c, frame, l)
        IN /\ r \in Context(D)
           /\ Reading(c, r, frame.before, l, Segments[l], Width[l])
           /\ r.path = c.path \/ r.path.length < MAX_LABEL_PATH_LEN
<1> DEFINE late == [c EXCEPT !.unreadable = @ \/ c.opened # frame.before]
           r == read_path_segment(c, frame, l)
<1>1. late \in Context(D)
  BY ContextUpdates DEF Context
<1>2. /\ late.active = c.active /\ late.tracked = c.tracked /\ late.depth = c.depth
      /\ late.opened = c.opened /\ late.fields = c.fields /\ late.path = c.path
      /\ late.unreadable = (c.unreadable \/ c.opened # frame.before)
  BY DEF Context
<1>3. CASE l = "?"
  <2>1. r = [late EXCEPT !.unreadable = TRUE]
    BY <1>3 DEF read_path_segment
  <2>2. r \in Context(D)
    BY <1>1, <2>1, ContextUpdates
  <2> HIDE DEF late
  <2>3. /\ r.active = late.active /\ r.tracked = late.tracked /\ r.depth = late.depth
        /\ r.opened = late.opened /\ r.fields = late.fields /\ r.path = late.path /\ r.unreadable
    BY <1>1, <2>1 DEF Context
  <2> HIDE DEF r
  <2>4. Reading(c, r, frame.before, l, Segments[l], Width[l])
    BY <1>2, <2>3, Zenon DEF Reading
  <2> QED
    BY <1>2, <2>2, <2>3, <2>4 DEF r
<1>4. CASE l # "?"
  <2>1. l \in Labels
    BY <1>4
  <2>2. r = path_push(late, l)
    <3>1. reader # "display"
      OBVIOUS
    <3> QED
      BY <1>4, <3>1, Zenon DEF read_path_segment
  <2> DEFINE pushed == Joined(c.path, Segments[l], Width[l])
  <2>3. pushed \in Path
    BY <2>1, LabelWidths, JoinedPath DEF Context
  <2> HIDE DEF late, pushed, r
  <2>4. \/ r = [late EXCEPT !.active = FALSE]
        \/ /\ Joined(late.path, Segments[l], Width[l]).length < MAX_LABEL_PATH_LEN
           /\ r = [late EXCEPT !.path = Joined(late.path, Segments[l], Width[l])]
    BY <1>1, <2>1, <2>2, path_pushEffect
  <2>5. CASE r = [late EXCEPT !.active = FALSE]
    <3>1. /\ r \in Context(D) /\ ~r.active /\ r.tracked = late.tracked /\ r.depth = late.depth
          /\ r.opened = late.opened /\ r.fields = late.fields /\ r.path = late.path
          /\ r.unreadable = late.unreadable
      BY <1>1, <2>5 DEF Context
    <3>2. Reading(c, r, frame.before, l, Segments[l], Width[l])
      BY <1>2, <1>4, <3>1, Zenon DEF Reading
    <3> QED
      BY <1>2, <3>1, <3>2 DEF r
  <2>6. CASE /\ Joined(late.path, Segments[l], Width[l]).length < MAX_LABEL_PATH_LEN
             /\ r = [late EXCEPT !.path = Joined(late.path, Segments[l], Width[l])]
    <3>1. r = [late EXCEPT !.path = pushed] /\ pushed.length < MAX_LABEL_PATH_LEN
      BY <1>2, <2>6 DEF pushed
    <3>2. /\ r \in Context(D) /\ r.active = late.active /\ r.tracked = late.tracked /\ r.depth = late.depth
          /\ r.opened = late.opened /\ r.fields = late.fields /\ r.unreadable = late.unreadable
          /\ r.path = pushed
      BY <1>1, <2>3, <3>1 DEF Context
    <3>3. Reading(c, r, frame.before, l, Segments[l], Width[l])
      BY <1>2, <1>4, <3>2, Zenon DEF Reading, pushed
    <3> QED
      BY <3>1, <3>2, <3>3 DEF r
  <2> QED
    BY <2>4, <2>5, <2>6
<1> QED
  BY <1>3, <1>4
-----------------------------------------------------------------------------
(***************************************************************************)
(* Fields                                                                  *)
(***************************************************************************)
\* A value is stored once, and a failure stays one.
LEMMA StoreValueEffect ==
  ASSUME NEW slot \in FieldState, NEW leaf \in Leaf, NEW memory \in BOOLEAN
  PROVE LET r == StoreValue(slot, leaf, memory)
        IN /\ r \in FieldState
           /\ ~r.failed =>
                /\ ~slot.failed /\ ~slot.matched /\ r.matched
                /\ r.leaf = IF leaf.type # "timestamp" /\ leaf.value = "empty" THEN slot.leaf ELSE leaf
<1> DEFINE r == StoreValue(slot, leaf, memory)
<1>1. slot.matched \in BOOLEAN /\ slot.failed \in BOOLEAN /\ slot.leaf \in Leaf
  BY DEF FieldState
<1>2. \/ slot.matched /\ r = [slot EXCEPT !.failed = TRUE]
      \/ /\ ~slot.matched /\ leaf.type # "timestamp" /\ leaf.value = "empty"
         /\ r = [slot EXCEPT !.matched = TRUE]
      \/ r = [slot EXCEPT !.matched = TRUE, !.failed = TRUE]
      \/ /\ ~slot.matched /\ ~(leaf.type # "timestamp" /\ leaf.value = "empty")
         /\ r = [slot EXCEPT !.matched = TRUE, !.leaf = leaf]
  BY <1>1, Zenon DEF StoreValue
<1> HIDE DEF r
<1>3. r \in FieldState
  BY <1>1, <1>2 DEF FieldState
<1>4. ~r.failed =>
        /\ ~slot.failed /\ ~slot.matched /\ r.matched
        /\ r.leaf = IF leaf.type # "timestamp" /\ leaf.value = "empty" THEN slot.leaf ELSE leaf
  BY <1>1, <1>2 DEF FieldState
<1> QED
  BY <1>3, <1>4 DEF r

\* The names found for a path on the display walk.
Located(c) == IF c.active /\ c.tracked THEN find_field_by_path(c.path.labels) ELSE {}
\* The values the screen can hold.
Showable == {"party", "numeric", "text", "timestamp"}

\* Only the fields change, and of them only the ones at the path.
LEMMA find_tx_fieldEffect ==
  ASSUME NEW D, NEW c \in Context(D), NEW leaf \in Leaf, NEW memory \in BOOLEAN
  PROVE LET r == find_tx_field(c, leaf, memory)
        IN /\ r \in Context(D)
           /\ r.active = c.active /\ r.tracked = c.tracked /\ r.path = c.path /\ r.depth = c.depth
           /\ r.opened = c.opened /\ r.unreadable = c.unreadable
           /\ \A n \in D :
                /\ (n \notin Located(c) \/ leaf.type = "optional") => r.fields[n] = c.fields[n]
                /\ (n \in Located(c) /\ leaf.type \in Showable) =>
                     r.fields[n] = StoreValue(c.fields[n], leaf, memory)
                /\ (n \in Located(c) /\ leaf.type \notin Showable \cup {"optional"}) => r.fields[n].failed
<1> DEFINE f == [n \in D |->
                   IF n \notin Located(c) \/ leaf.type = "optional" THEN c.fields[n]
                   ELSE IF leaf.type \in Showable THEN StoreValue(c.fields[n], leaf, memory)
                   ELSE [c.fields[n] EXCEPT !.failed = TRUE]]
           r == find_tx_field(c, leaf, memory)
<1>1. c.fields \in [D -> FieldState] /\ DOMAIN c.fields = D
  BY DEF Context
<1>2. r = [c EXCEPT !.fields = f]
  BY <1>1, Zenon DEF find_tx_field, Located, Showable
<1>3. \A n \in D : StoreValue(c.fields[n], leaf, memory) \in FieldState
  BY <1>1, StoreValueEffect
<1>4. \A n \in D : [c.fields[n] EXCEPT !.failed = TRUE] \in FieldState /\ [c.fields[n] EXCEPT !.failed = TRUE].failed
  BY <1>1 DEF FieldState
<1>5. f \in [D -> FieldState]
  <2>1. \A n \in D : f[n] \in {c.fields[n], StoreValue(c.fields[n], leaf, memory), [c.fields[n] EXCEPT !.failed = TRUE]}
    BY Zenon
  <2>2. \A n \in D : f[n] \in FieldState
    BY <1>1, <1>3, <1>4, <2>1
  <2> QED
    BY <2>2
<1>6. \A n \in D :
        /\ (n \notin Located(c) \/ leaf.type = "optional") => f[n] = c.fields[n]
        /\ (n \in Located(c) /\ leaf.type \in Showable) => f[n] = StoreValue(c.fields[n], leaf, memory)
        /\ (n \in Located(c) /\ leaf.type \notin Showable \cup {"optional"}) => f[n].failed
  <2> SUFFICES ASSUME NEW n \in D
               PROVE /\ (n \notin Located(c) \/ leaf.type = "optional") => f[n] = c.fields[n]
                     /\ (n \in Located(c) /\ leaf.type \in Showable) =>
                          f[n] = StoreValue(c.fields[n], leaf, memory)
                     /\ (n \in Located(c) /\ leaf.type \notin Showable \cup {"optional"}) => f[n].failed
    OBVIOUS
  <2>1. (n \notin Located(c) \/ leaf.type = "optional") => f[n] = c.fields[n]
    BY Zenon
  <2>2. leaf.type \in Showable => leaf.type # "optional"
    BY DEF Showable
  <2>3. (n \in Located(c) /\ leaf.type \in Showable) => f[n] = StoreValue(c.fields[n], leaf, memory)
    BY <2>2, Zenon
  <2>4. (n \in Located(c) /\ leaf.type \notin Showable \cup {"optional"}) =>
           f[n] = [c.fields[n] EXCEPT !.failed = TRUE]
    BY Zenon
  <2> QED
    BY <1>4, <2>1, <2>3, <2>4
<1> HIDE DEF f, r
<1>7. /\ r \in Context(D) /\ r.fields = f
      /\ r.active = c.active /\ r.tracked = c.tracked /\ r.path = c.path /\ r.depth = c.depth
      /\ r.opened = c.opened /\ r.unreadable = c.unreadable
  BY <1>2, <1>5 DEF Context
<1> QED
  BY <1>6, <1>7 DEF r

\* The names found for a value on the holding walk.
Taken(c, leaf) == IF c.active THEN HoldingName(c.path.labels, leaf) ELSE {}

LEMMA find_holding_fieldEffect ==
  ASSUME NEW D, NEW c \in Context(D), NEW leaf \in Leaf
  PROVE LET r == find_holding_field(c, leaf)
        IN /\ r \in Context(D)
           /\ r.active = c.active /\ r.tracked = c.tracked /\ r.path = c.path /\ r.depth = c.depth
           /\ r.opened = c.opened
           /\ r.unreadable = (c.unreadable \/ \E n \in Taken(c, leaf) : c.fields[n].matched)
           /\ \A n \in D :
                r.fields[n] = IF n \in Taken(c, leaf) THEN [matched |-> TRUE, failed |-> FALSE, leaf |-> leaf]
                              ELSE c.fields[n]
<1> DEFINE f == [n \in D |-> IF n \in Taken(c, leaf) THEN [matched |-> TRUE, failed |-> FALSE, leaf |-> leaf]
                             ELSE c.fields[n]]
           twice == \E n \in Taken(c, leaf) : c.fields[n].matched
           r == find_holding_field(c, leaf)
<1>1. c.fields \in [D -> FieldState] /\ DOMAIN c.fields = D
  BY DEF Context
<1>2. r = [c EXCEPT !.unreadable = @ \/ twice, !.fields = f]
  BY <1>1, Zenon DEF find_holding_field, Taken
<1>3. f \in [D -> FieldState]
  BY <1>1 DEF FieldState
<1>4. \A n \in D : f[n] = IF n \in Taken(c, leaf) THEN [matched |-> TRUE, failed |-> FALSE, leaf |-> leaf]
                             ELSE c.fields[n]
  BY Zenon
<1>5. twice \in BOOLEAN
  OBVIOUS
<1> HIDE DEF f, r, twice
<1>6. /\ r \in Context(D) /\ r.fields = f
      /\ r.active = c.active /\ r.tracked = c.tracked /\ r.path = c.path /\ r.depth = c.depth
      /\ r.opened = c.opened /\ r.unreadable = (c.unreadable \/ twice)
  BY <1>2, <1>3, <1>5 DEF Context
<1> QED
  BY <1>4, <1>6 DEF r, twice
-----------------------------------------------------------------------------
(***************************************************************************)
(* The end of a walk                                                       *)
(***************************************************************************)
LEMMA FirstOf ==
  ASSUME NEW T, T \subseteq Nat, T # {}
  PROVE \E x \in T : \A y \in T : x <= y
<1>1. PICK x \in T : \A y \in T : ~ (<<y, x>> \in OpToRel(<, Nat))
  BY WFMin, NatLessThanWellFounded, Zenon
<1>2. \A y \in T : ~ (y < x)
  BY <1>1 DEF OpToRel
<1> QED
  BY <1>2

\* A screen is shown when no field objects, and otherwise the first that does decides.
LEMMA DisplayVerdict ==
  ASSUME NEW starved
  PROVE /\ DisplayOutcome(starved) \in {"shown", "failed", "refused", "unmatched"}
        /\ DisplayOutcome(starved) = "shown" =>
             /\ ctx.active /\ ~ctx.unreadable
             /\ \A n \in DisplayNames : FieldVerdict(n, starved) = "ok"
<1> DEFINE Bad == {i \in DOMAIN FieldOrder : FieldVerdict(FieldOrder[i], starved) # "ok"}
           first == CHOOSE i \in Bad : \A j \in Bad : i <= j
<1>1. \A n : FieldVerdict(n, starved) \in {"failed", "refused", "ok"}
  BY Zenon DEF FieldVerdict
<1>2. Bad # {} => FieldVerdict(FieldOrder[first], starved) \in {"failed", "refused"}
  <2> HAVE Bad # {}
  <2>1. Bad \subseteq Nat
    BY NamesAssumption
  <2>2. \E i \in Bad : \A j \in Bad : i <= j
    BY <2>1, FirstOf
  <2>3. first \in Bad
    BY <2>2
  <2> QED
    BY <1>1, <2>3
<1>3. \/ ~ctx.active /\ DisplayOutcome(starved) = "unmatched"
      \/ ctx.active /\ ctx.unreadable /\ DisplayOutcome(starved) = "failed"
      \/ ctx.active /\ ~ctx.unreadable /\ Bad = {} /\ DisplayOutcome(starved) = "shown"
      \/ /\ ctx.active /\ ~ctx.unreadable /\ Bad # {}
         /\ DisplayOutcome(starved) = FieldVerdict(FieldOrder[first], starved)
  BY Zenon DEF DisplayOutcome, format_and_populate_display_items
<1>4. Bad = {} => \A n \in DisplayNames : FieldVerdict(n, starved) = "ok"
  BY NamesAssumption
<1> QED
  BY <1>2, <1>3, <1>4
-----------------------------------------------------------------------------
(***************************************************************************)
(* The invariant                                                           *)
(***************************************************************************)
\* The room for a path, its terminator included.
Limit == IF reader = "display" THEN MAX_FIELD_PATH_LEN ELSE MAX_LABEL_PATH_LEN
FitsInv ==
  reader # "idle" =>
    ctx.path.length < Limit /\ \A i \in DOMAIN stack : stack[i].parent.length < Limit

\* The argument is the outermost message.
BottomInv == \A i \in DOMAIN stack : stack[i].kind = "argument" <=> i = 1

WalkInv == TypeInv /\ DepthInv /\ FitsInv /\ BottomInv

\* The invariant says what the properties say.
LEMMA WalkInvImplies ==
  ASSUME WalkInv
  PROVE TypeOK /\ PathFits
<1>1. PathFits
  BY DEF WalkInv, FitsInv, PathFits, Limit
<1>2. /\ ctx.path \in Path /\ ctx.depth \in Nat /\ ctx.opened \in Nat
      /\ ctx.active \in BOOLEAN /\ ctx.tracked \in BOOLEAN /\ ctx.unreadable \in BOOLEAN
      /\ DOMAIN ctx.fields = Kept /\ \A n \in Kept : ctx.fields[n] \in FieldState
  BY DEF WalkInv, TypeInv, Context
<1>3. Kept \in {{}, DisplayNames, HoldingNames}
  BY DEF Kept
<1> QED
  BY <1>1, <1>2, <1>3 DEF WalkInv, TypeInv, TypeOK, FrameType, FieldState, OutcomeType

LEMMA NoOutcomeType == NoOutcome \in OutcomeType /\ NoTruth \in [Names -> Seq(Leaf)]
<1>1. << >> \in Seq(Leaf)
  OBVIOUS
<1> QED
  BY <1>1, LeafTypes DEF NoOutcome, OutcomeType, NoTruth

LEMMA IdleContext ==
  /\ Idle \in Context({}) /\ Idle.depth = 0 /\ ~Idle.active
  /\ \A names, active, tracked :
       (active \in BOOLEAN /\ tracked \in BOOLEAN) =>
         /\ NewContext(names, active, tracked) \in Context(names)
         /\ NewContext(names, active, tracked).path = EmptyPath
         /\ NewContext(names, active, tracked).depth = 0
         /\ NewContext(names, active, tracked).active = active
<1>1. Unmatched \in FieldState
  BY LeafTypes DEF Unmatched, FieldState
<1>2. ASSUME NEW names, NEW active \in BOOLEAN, NEW tracked \in BOOLEAN
      PROVE /\ NewContext(names, active, tracked) \in Context(names)
            /\ NewContext(names, active, tracked).path = EmptyPath
            /\ NewContext(names, active, tracked).depth = 0
            /\ NewContext(names, active, tracked).active = active
  BY <1>1, EmptyIsPath DEF NewContext, Context
<1>3. Idle \in Context({}) /\ Idle.depth = 0 /\ ~Idle.active
  BY <1>2 DEF Idle
<1> QED
  BY <1>2, <1>3

\* The records being decoded are finitely many.
LEMMA RecordsFinite ==
  ASSUME stack \in Seq(FrameType)
  PROVE IsFiniteSet(Records) /\ Cardinality(Records) \in Nat
<1>1. Len(stack) \in Nat /\ DOMAIN stack = 1..Len(stack)
  OBVIOUS
<1>2. IsFiniteSet(1..Len(stack))
  BY <1>1, FS_Interval
<1>3. Records \in SUBSET (1..Len(stack))
  BY <1>1 DEF Records
<1>4. IsFiniteSet(Records)
  BY <1>2, <1>3, FS_Subset
<1> QED
  BY <1>4, FS_CardinalityType

LEMMA InitWalk == Init => WalkInv
<1> HAVE Init
<1>1. stack \in Seq(FrameType) /\ stack = <<>> /\ DOMAIN stack = {}
  BY DEF Init
<1>2. Records = {}
  BY <1>1 DEF Records
<1>3. DepthInv
  BY <1>2, FS_EmptySet, IdleContext DEF Init, DepthInv
<1>4. Kept = {}
  BY DEF Init, Kept
<1>5. TypeInv
  <2>1. ctx \in Context(Kept)
    BY <1>4, IdleContext DEF Init
  <2>2. 0 \in 0..MaxSize
    BY BoundsAssumption
  <2>3. outcome \in OutcomeType /\ truth \in [Names -> Seq(Leaf)]
    BY NoOutcomeType DEF Init
  <2> QED
    BY <1>1, <2>1, <2>2, <2>3 DEF Init, TypeInv
<1> QED
  BY <1>1, <1>3, <1>5 DEF WalkInv, FitsInv, BottomInv, Init
-----------------------------------------------------------------------------
(***************************************************************************)
(* What the steps do to the stack                                          *)
(***************************************************************************)
\* g is f but for its value.
SameBut(g, f) ==
  /\ g.kind = f.kind /\ g.visited = f.visited /\ g.plain = f.plain /\ g.parent = f.parent
  /\ g.before = f.before

LEMMA FrameUpdates ==
  ASSUME NEW f \in FrameType
  PROVE /\ \A v \in Leaf :
             /\ [f EXCEPT !.value = v] \in FrameType /\ SameBut([f EXCEPT !.value = v], f)
             /\ [f EXCEPT !.value = v].value = v
             /\ [f EXCEPT !.value = v].where = f.where /\ [f EXCEPT !.value = v].labelled = f.labelled
        /\ \A l \in Labels \cup {"?"} :
             LET g == [f EXCEPT !.labelled = TRUE, !.where = Append(@, l)]
             IN /\ g \in FrameType /\ SameBut(g, f) /\ g.labelled /\ g.value = f.value
                /\ g.where = Append(f.where, l)
        /\ LET g == [f EXCEPT !.labelled = TRUE]
           IN g \in FrameType /\ SameBut(g, f) /\ g.labelled /\ g.value = f.value /\ g.where = f.where
<1>1. ASSUME NEW v \in Leaf
      PROVE /\ [f EXCEPT !.value = v] \in FrameType /\ SameBut([f EXCEPT !.value = v], f)
            /\ [f EXCEPT !.value = v].value = v
            /\ [f EXCEPT !.value = v].where = f.where /\ [f EXCEPT !.value = v].labelled = f.labelled
  BY DEF FrameType, SameBut
<1>2. ASSUME NEW l \in Labels \cup {"?"}
      PROVE LET g == [f EXCEPT !.labelled = TRUE, !.where = Append(@, l)]
            IN /\ g \in FrameType /\ SameBut(g, f) /\ g.labelled /\ g.value = f.value
               /\ g.where = Append(f.where, l)
  <2> DEFINE w == Append(f.where, l)
  <2>1. w \in Seq(Labels \cup {"?"})
    BY DEF FrameType
  <2> HIDE DEF w
  <2>2. /\ [f EXCEPT !.labelled = TRUE, !.where = w] \in FrameType
        /\ SameBut([f EXCEPT !.labelled = TRUE, !.where = w], f)
        /\ [f EXCEPT !.labelled = TRUE, !.where = w].labelled
        /\ [f EXCEPT !.labelled = TRUE, !.where = w].value = f.value
        /\ [f EXCEPT !.labelled = TRUE, !.where = w].where = w
    BY <2>1 DEF FrameType, SameBut
  <2> QED
    BY <2>2 DEF w
<1>3. LET g == [f EXCEPT !.labelled = TRUE]
      IN g \in FrameType /\ SameBut(g, f) /\ g.labelled /\ g.value = f.value /\ g.where = f.where
  BY DEF FrameType, SameBut
<1> QED
  BY <1>1, <1>2, <1>3

\* A new frame.
LEMMA NewFrame ==
  ASSUME ctx.path \in Path, ctx.opened \in Nat, NEW kind \in Slots \cup DOMAIN SlotOf,
         NEW visited \in BOOLEAN, NEW where \in Seq(Labels \cup {"?"}), NEW plain \in BOOLEAN
  PROVE LET f == Frame(kind, visited, where, plain)
        IN /\ f \in FrameType /\ f.kind = kind /\ f.visited = visited /\ f.where = where
           /\ f.plain = plain /\ f.parent = ctx.path /\ f.before = ctx.opened /\ ~f.labelled
           /\ f.value = NoValue
BY LeafTypes DEF Frame, FrameType

\* Where a slot's value stands.
LEMMA WhereType ==
  ASSUME NEW f \in FrameType
  PROVE Where(f) \in Seq(Labels \cup {"?"})
<1>1. f.where \in Seq(Labels \cup {"?"})
  BY DEF FrameType
<1>2. Append(f.where, "?") \in Seq(Labels \cup {"?"})
  BY <1>1
<1> QED
  BY <1>1, <1>2 DEF Where

\* The facts of the type invariant about the top frame and the context.
LEMMA TopFacts ==
  ASSUME TypeInv, stack # <<>>
  PROVE /\ Len(stack) \in Nat \ {0} /\ DOMAIN stack = 1..Len(stack)
        /\ Top = stack[Len(stack)] /\ Top \in FrameType
        /\ \A i \in 1..Len(stack) : stack[i] \in FrameType
        /\ reader \in {"display", "holding"}
        /\ ctx \in Context(Kept) /\ ctx.path \in Path /\ ctx.opened \in Nat /\ ctx.depth \in Nat
        /\ ctx.active \in BOOLEAN /\ ctx.tracked \in BOOLEAN /\ ctx.unreadable \in BOOLEAN
        /\ Top.visited \in BOOLEAN /\ Top.plain \in BOOLEAN /\ Top.labelled \in BOOLEAN
        /\ Top.value \in Leaf /\ Top.parent \in Path
<1>1. stack \in Seq(FrameType) /\ reader \in {"display", "holding"} /\ ctx \in Context(Kept)
  BY DEF TypeInv
<1>2. /\ Len(stack) \in Nat \ {0} /\ DOMAIN stack = 1..Len(stack)
      /\ Top = stack[Len(stack)] /\ Top \in FrameType
  BY <1>1, BelowOps
<1>3. \A i \in 1..Len(stack) : stack[i] \in FrameType
  BY <1>1
<1>4. /\ Top.visited \in BOOLEAN /\ Top.plain \in BOOLEAN /\ Top.labelled \in BOOLEAN
      /\ Top.value \in Leaf /\ Top.parent \in Path
  BY <1>2 DEF FrameType
<1>5. /\ ctx.path \in Path /\ ctx.opened \in Nat /\ ctx.depth \in Nat
      /\ ctx.active \in BOOLEAN /\ ctx.tracked \in BOOLEAN /\ ctx.unreadable \in BOOLEAN
  BY <1>1 DEF Context
<1> QED
  BY <1>1, <1>2, <1>3, <1>4, <1>5

\* The stack with its top frame replaced.
Replaces(g) ==
  /\ stack' \in Seq(FrameType) /\ Len(stack') = Len(stack) /\ DOMAIN stack' = 1..Len(stack)
  /\ stack' # <<>>
  /\ \A i \in 1..Len(stack) - 1 : stack'[i] = stack[i]
  /\ stack'[Len(stack)] = g
\* The stack with its top frame replaced and one more on top.
Extends(g, f) ==
  /\ stack' \in Seq(FrameType) /\ Len(stack') = Len(stack) + 1 /\ DOMAIN stack' = 1..Len(stack) + 1
  /\ stack' # <<>>
  /\ \A i \in 1..Len(stack) - 1 : stack'[i] = stack[i]
  /\ stack'[Len(stack)] = g /\ stack'[Len(stack) + 1] = f
\* The stack without its top frame.
Drops ==
  /\ stack' \in Seq(FrameType) /\ Len(stack') = Len(stack) - 1 /\ DOMAIN stack' = 1..Len(stack) - 1
  /\ \A i \in 1..Len(stack) - 1 : stack'[i] = stack[i]
  /\ (stack' = <<>>) = (Len(stack) = 1)

LEMMA StackSteps ==
  ASSUME stack \in Seq(FrameType), stack # <<>>
  PROVE /\ \A g \in FrameType : stack' = SetTop(g) => Replaces(g)
        /\ \A g, f \in FrameType : stack' = Append(SetTop(g), f) => Extends(g, f)
        /\ \A g, f \in FrameType : stack' = SetTop(g) \o <<f>> => Extends(g, f)
        /\ stack' = Below => Drops
<1>1. ASSUME NEW g \in FrameType, stack' = SetTop(g) PROVE Replaces(g)
  BY <1>1, SetTopOps DEF Replaces
<1>2. ASSUME NEW g \in FrameType, NEW f \in FrameType, stack' = Append(SetTop(g), f)
      PROVE Extends(g, f)
  <2> DEFINE s == SetTop(g)
  <2>1. /\ s \in Seq(FrameType) /\ Len(s) = Len(stack)
        /\ \A i \in 1..Len(stack) - 1 : s[i] = stack[i]
        /\ s[Len(stack)] = g
    BY SetTopOps
  <2>2. Len(stack) \in Nat \ {0}
    BY StackOps
  <2> HIDE DEF s
  <2>3. /\ Append(s, f) \in Seq(FrameType) /\ Append(s, f) # <<>>
        /\ Len(Append(s, f)) = Len(s) + 1 /\ DOMAIN Append(s, f) = 1..Len(s) + 1
        /\ \A i \in 1..Len(s) : Append(s, f)[i] = s[i]
        /\ Append(s, f)[Len(s) + 1] = f
    BY <2>1, AppendOps
  <2>4. stack' = Append(s, f)
    BY <1>2 DEF s
  <2> QED
    BY <2>1, <2>2, <2>3, <2>4 DEF Extends
<1>3. ASSUME NEW g \in FrameType, NEW f \in FrameType, stack' = SetTop(g) \o <<f>>
      PROVE Extends(g, f)
  <2>1. SetTop(g) \in Seq(FrameType)
    BY SetTopOps
  <2>2. SetTop(g) \o <<f>> = Append(SetTop(g), f)
    BY <2>1, AppendOps
  <2> QED
    BY <1>2, <1>3, <2>2
<1>4. stack' = Below => Drops
  BY BelowOps DEF Drops
<1> QED
  BY <1>1, <1>2, <1>3, <1>4

LEMMA OpenValueStack ==
  ASSUME TypeInv, NEW k \in {"record", "optional", "text_map", "opaque"}, OpenValue(k)
  PROVE /\ stack # <<>> /\ Top.kind \in Slots /\ Enters(k) \in BOOLEAN
        /\ LET g == [Top EXCEPT !.value = Container(k)]
               f == Frame(k, Enters(k), Where(Top), Top.plain /\ k = "record")
           IN /\ k = "opaque" => Replaces(g)
              /\ k # "opaque" => Extends(g, f) /\ f \in FrameType
<1> DEFINE g == [Top EXCEPT !.value = Container(k)]
           f == Frame(k, Enters(k), Where(Top), Top.plain /\ k = "record")
<1>1. stack # <<>> /\ Top.kind \in Slots
  BY Zenon DEF OpenValue, InSlot
<1>2. stack \in Seq(FrameType)
  BY DEF TypeInv
<1>3. Container(k) \in Leaf
  BY LeafTypes
<1>4. g \in FrameType
  BY <1>1, <1>3, TopFacts, FrameUpdates
<1>5. Enters(k) \in BOOLEAN
  BY <1>1, TopFacts DEF Enters
<1>6. CASE k = "opaque"
  <2>1. stack' = SetTop(g) \o <<>>
    BY <1>6, Zenon DEF OpenValue
  <2>2. SetTop(g) \in Seq(FrameType)
    BY <1>1, <1>2, <1>4, SetTopOps
  <2>3. stack' = SetTop(g)
    BY <2>1, <2>2
  <2>4. Replaces(g)
    BY <1>1, <1>2, <1>4, <2>3, StackSteps
  <2> QED
    BY <1>1, <1>5, <1>6, <2>4
<1>7. CASE k # "opaque"
  <2>1. stack' = SetTop(g) \o <<f>>
    BY <1>7, Zenon DEF OpenValue
  <2>2. k \in Slots \cup DOMAIN SlotOf /\ (Top.plain /\ k = "record") \in BOOLEAN
    BY <1>7, Kinds
  <2>3. Where(Top) \in Seq(Labels \cup {"?"})
    BY <1>1, TopFacts, WhereType
  <2>4. f \in FrameType
    BY <1>1, <1>5, <2>2, <2>3, TopFacts, NewFrame
  <2>5. Extends(g, f)
    BY <1>1, <1>2, <1>4, <2>1, <2>4, StackSteps
  <2> QED
    BY <1>1, <1>5, <1>7, <2>4, <2>5
<1> QED
  BY <1>6, <1>7

LEMMA OpenValueContext ==
  ASSUME TypeInv, NEW k \in {"record", "optional", "text_map", "opaque"}, OpenValue(k)
  PROVE /\ ctx' \in Context(Kept)
        /\ ctx'.active = ctx.active /\ ctx'.tracked = ctx.tracked /\ ctx'.path = ctx.path
        /\ ctx'.unreadable = ctx.unreadable /\ ctx'.fields = ctx.fields
        /\ ctx'.opened = IF Enters(k) THEN ctx.opened + 1 ELSE ctx.opened
        /\ ctx'.depth = IF Enters(k) /\ k = "record" THEN ctx.depth + 1 ELSE ctx.depth
<1>1. ctx \in Context(Kept) /\ ctx.depth \in Nat /\ ctx.opened \in Nat
  BY OpenValueStack, TopFacts
<1>2. CASE ~Enters(k)
  <2>1. ctx' = ctx
    BY <1>2, Zenon DEF OpenValue
  <2> QED
    BY <1>1, <1>2, <2>1
<1>3. CASE Enters(k)
  <2> DEFINE d == IF k = "record" THEN ctx.depth + 1 ELSE ctx.depth
             o == ctx.opened + 1
  <2>1. ctx' = [ctx EXCEPT !.opened = o, !.depth = d]
    BY <1>3, Zenon DEF OpenValue
  <2>2. d \in Nat /\ o \in Nat
    BY <1>1
  <2> HIDE DEF d, o
  <2>3. /\ ctx' \in Context(Kept)
        /\ ctx'.active = ctx.active /\ ctx'.tracked = ctx.tracked /\ ctx'.path = ctx.path
        /\ ctx'.unreadable = ctx.unreadable /\ ctx'.fields = ctx.fields
        /\ ctx'.opened = o /\ ctx'.depth = d
    BY <1>1, <2>1, <2>2 DEF Context
  <2> QED
    BY <1>3, <2>3 DEF d, o
<1> QED
  BY <1>2, <1>3

LEMMA OpenSlotStack ==
  ASSUME TypeInv, OpenSlot
  PROVE /\ stack # <<>> /\ Top.kind \in DOMAIN SlotOf /\ EntersSlot \in BOOLEAN
        /\ SlotOf[Top.kind] \in Slots \ {"argument"}
        /\ LET g == [Top EXCEPT !.value = Container("slots")]
               f == Frame(SlotOf[Top.kind], EntersSlot, Top.where, Top.plain)
           IN Extends(g, f) /\ f \in FrameType
<1> DEFINE g == [Top EXCEPT !.value = Container("slots")]
           f == Frame(SlotOf[Top.kind], EntersSlot, Top.where, Top.plain)
<1>1. stack # <<>> /\ Top.kind \in DOMAIN SlotOf
  BY Zenon DEF OpenSlot, InContainer
<1>2. stack \in Seq(FrameType)
  BY DEF TypeInv
<1>3. g \in FrameType
  BY <1>1, LeafTypes, TopFacts, FrameUpdates
<1>4. EntersSlot \in BOOLEAN
  BY <1>1, TopFacts DEF EntersSlot
<1>5. SlotOf[Top.kind] \in Slots \ {"argument"}
  BY <1>1, Kinds
<1>6. Top.where \in Seq(Labels \cup {"?"})
  BY <1>1, TopFacts DEF FrameType
<1>7. f \in FrameType
  BY <1>1, <1>4, <1>5, <1>6, TopFacts, NewFrame
<1>8. stack' = Append(SetTop(g), f)
  BY DEF OpenSlot
<1> QED
  BY <1>1, <1>2, <1>3, <1>4, <1>5, <1>7, <1>8, StackSteps
LEMMA RecordIdEffect ==
  ASSUME TypeInv, NEW chooses \in BOOLEAN, RecordId(chooses)
  PROVE /\ stack # <<>> /\ Top.kind = "record" /\ Top.visited /\ reader = "display" /\ ~ctx.active
        /\ Replaces([Top EXCEPT !.labelled = TRUE])
        /\ ctx' \in Context(Kept') /\ ctx'.tracked = ctx.tracked
        /\ ctx'.path = ctx.path /\ ctx'.depth = ctx.depth /\ ctx'.opened = ctx.opened
        /\ ctx'.unreadable = ctx.unreadable
        /\ ~chooses => ctx' = ctx
        /\ chooses => ctx'.active /\ \E memory \in BOOLEAN : ctx'.fields = set_display_config(memory)
<1>1. /\ stack # <<>> /\ Top.kind = "record" /\ Top.visited /\ reader = "display" /\ ~ctx.active
      /\ stack' = SetTop([Top EXCEPT !.labelled = TRUE]) /\ reader' = reader
      /\ ~chooses => ctx' = ctx
      /\ chooses => \E memory \in BOOLEAN :
                     ctx' = [ctx EXCEPT !.active = TRUE, !.fields = set_display_config(memory)]
  BY Zenon DEF RecordId, InContainer
<1>2. [Top EXCEPT !.labelled = TRUE] \in FrameType
  BY <1>1, TopFacts, FrameUpdates
<1>3. Replaces([Top EXCEPT !.labelled = TRUE])
  BY <1>1, <1>2, StackSteps DEF TypeInv
<1>4. ctx \in Context(Kept)
  BY DEF TypeInv
<1>5. CASE ~chooses
  <2>1. Kept' = Kept /\ ctx' = ctx
    BY <1>1, <1>5 DEF Kept
  <2> QED
    BY <1>1, <1>3, <1>4, <1>5, <2>1
<1>6. CASE chooses
  <2>0. PICK memory \in BOOLEAN :
          ctx' = [ctx EXCEPT !.active = TRUE, !.fields = set_display_config(memory)]
    BY <1>1, <1>6
  <2>1. PICK config : config = set_display_config(memory) /\ config \in [DisplayNames -> FieldState]
    <3>1. ASSUME memory PROVE set_display_config(memory) \in [DisplayNames -> FieldState]
      BY <3>1, LeafTypes, Zenon DEF set_display_config, Unmatched, FieldState
    <3>2. ASSUME ~memory PROVE set_display_config(memory) \in [DisplayNames -> FieldState]
      BY <3>2, LeafTypes, Zenon DEF set_display_config, Unmatched, FieldState
    <3> QED
      BY <3>1, <3>2, Zenon
  <2>2. ctx' = [ctx EXCEPT !.active = TRUE, !.fields = config]
    BY <2>0, <2>1
  <2>3. /\ ctx' \in Context(DisplayNames) /\ ctx'.active /\ ctx'.tracked = ctx.tracked
        /\ ctx'.path = ctx.path /\ ctx'.depth = ctx.depth /\ ctx'.opened = ctx.opened
        /\ ctx'.unreadable = ctx.unreadable /\ ctx'.fields = config
    BY <1>4, <2>1, <2>2 DEF Context
  <2>4. Kept' = DisplayNames
    BY <1>1, <2>3 DEF Kept
  <2> QED
    BY <1>1, <1>3, <1>6, <2>1, <2>3, <2>4
<1> QED
  BY <1>5, <1>6

LEMMA LabelEffect ==
  ASSUME TypeInv, NEW l \in Labels \cup {"?"}, Label(l)
  PROVE /\ stack # <<>> /\ Top.kind \in {"field", "entry"} /\ ~Top.labelled
        /\ Replaces([Top EXCEPT !.labelled = TRUE, !.where = Append(@, l)])
        /\ reader' = reader /\ ctx' \in Context(Kept)
        /\ ~Top.visited => ctx' = ctx
        /\ (reader = "display" /\ Top.visited) =>
             /\ Reading(ctx, ctx', Top.before, l, <<l>>, EscapedWidth(l)) /\ ctx'.active = ctx.active
        /\ (reader = "holding" /\ Top.visited) =>
             Reading(ctx, ctx', Top.before, l, Segments[l], Width[l])
        /\ ctx'.path = ctx.path \/ ctx'.path.length < Limit
<1> DEFINE g == [Top EXCEPT !.labelled = TRUE, !.where = Append(@, l)]
           r == read_path_segment(ctx, Top, l)
<1>1. /\ stack # <<>> /\ Top.kind \in {"field", "entry"} /\ ~Top.labelled /\ stack' = SetTop(g)
      /\ ctx' = IF Top.visited THEN r ELSE ctx
      /\ reader' = reader
  BY Zenon DEF Label, InSlot
<1>2. Top \in FrameType /\ ctx \in Context(Kept) /\ reader \in {"display", "holding"}
  BY <1>1, TopFacts
<1>3. g \in FrameType
  BY <1>2, FrameUpdates
<1>4. Replaces(g)
  BY <1>1, <1>3, StackSteps DEF TypeInv
<1>5. CASE ~Top.visited
  <2>1. ctx' = ctx
    BY <1>1, <1>5
  <2> QED
    BY <1>1, <1>2, <1>4, <1>5, <2>1
<1>6. CASE Top.visited /\ reader = "display"
  <2>1. ctx' = r
    BY <1>1, <1>6
  <2>2. /\ r \in Context(Kept) /\ r.active = ctx.active
        /\ Reading(ctx, r, Top.before, l, <<l>>, EscapedWidth(l))
        /\ r.path = ctx.path \/ r.path.length < MAX_FIELD_PATH_LEN
    BY <1>2, <1>6, DisplayLabel
  <2> HIDE DEF r
  <2>3. Limit = MAX_FIELD_PATH_LEN
    BY <1>6 DEF Limit
  <2> QED
    BY <1>1, <1>4, <1>6, <2>1, <2>2, <2>3
<1>7. CASE Top.visited /\ reader = "holding"
  <2>1. ctx' = r
    BY <1>1, <1>7
  <2>2. /\ r \in Context(Kept)
        /\ Reading(ctx, r, Top.before, l, Segments[l], Width[l])
        /\ r.path = ctx.path \/ r.path.length < MAX_LABEL_PATH_LEN
    BY <1>2, <1>7, HoldingLabel
  <2> HIDE DEF r
  <2>3. Limit = MAX_LABEL_PATH_LEN
    BY <1>7 DEF Limit
  <2> QED
    BY <1>1, <1>4, <1>7, <2>1, <2>2, <2>3
<1> QED
  BY <1>2, <1>5, <1>6, <1>7

LEMMA CloseSlotEffect ==
  ASSUME TypeInv, NEW memory \in BOOLEAN, CloseSlot(memory)
  PROVE /\ stack # <<>> /\ Top.kind \in Slots /\ Len(stack) > 1 /\ Drops /\ reader' = reader
        /\ ctx' \in Context(Kept)
        /\ ~Top.visited => ctx' = ctx
        /\ Top.visited =>
             /\ ctx'.path = Top.parent /\ ctx'.active = ctx.active /\ ctx'.tracked = ctx.tracked
             /\ ctx'.depth = ctx.depth /\ ctx'.opened = ctx.opened
             /\ ctx'.unreadable =
                  \/ ctx.unreadable \/ MissingLabel(Top)
                  \/ reader = "holding" /\ \E n \in Taken(ctx, Top.value) : ctx.fields[n].matched
             /\ reader = "display" =>
                  \A n \in Kept :
                    /\ (n \notin Located(ctx) \/ Top.value.type = "optional") => ctx'.fields[n] = ctx.fields[n]
                    /\ (n \in Located(ctx) /\ Top.value.type \in Showable) =>
                         ctx'.fields[n] = StoreValue(ctx.fields[n], Top.value, memory)
                    /\ (n \in Located(ctx) /\ Top.value.type \notin Showable \cup {"optional"}) =>
                         ctx'.fields[n].failed
             /\ reader = "holding" =>
                  \A n \in Kept :
                    ctx'.fields[n] =
                      IF n \in Taken(ctx, Top.value)
                      THEN [matched |-> TRUE, failed |-> FALSE, leaf |-> Top.value] ELSE ctx.fields[n]
<1> DEFINE c == [ctx EXCEPT !.unreadable = @ \/ MissingLabel(Top)]
           shown == find_tx_field(c, Top.value, memory)
           held == find_holding_field(c, Top.value)
<1>1. /\ stack # <<>> /\ Top.kind \in Slots /\ Len(stack) > 1 /\ stack' = Below
      /\ reader' = reader
      /\ ~Top.visited => ctx' = ctx
      /\ (Top.visited /\ reader = "display") => ctx' = [shown EXCEPT !.path = Top.parent]
      /\ (Top.visited /\ reader # "display") => ctx' = [held EXCEPT !.path = Top.parent]
  BY Zenon DEF CloseSlot, InSlot
<1>2. Drops
  BY <1>1, StackSteps DEF TypeInv
<1>3. /\ Top \in FrameType /\ ctx \in Context(Kept) /\ reader \in {"display", "holding"}
      /\ Top.value \in Leaf /\ Top.parent \in Path
  BY <1>1, TopFacts
<1>4. MissingLabel(Top) \in BOOLEAN
  BY <1>3 DEF MissingLabel, FrameType, Context
<1>5. /\ c \in Context(Kept) /\ c.active = ctx.active /\ c.tracked = ctx.tracked /\ c.path = ctx.path
      /\ c.depth = ctx.depth /\ c.opened = ctx.opened /\ c.fields = ctx.fields
      /\ c.unreadable = (ctx.unreadable \/ MissingLabel(Top))
  BY <1>3, <1>4 DEF Context
<1> HIDE DEF c
<1>6. Located(c) = Located(ctx) /\ Taken(c, Top.value) = Taken(ctx, Top.value)
  BY <1>5 DEF Located, Taken
<1>7. CASE ~Top.visited
  BY <1>1, <1>2, <1>3, <1>7
<1>8. CASE Top.visited /\ reader = "display"
  <2>1. /\ shown \in Context(Kept)
        /\ shown.active = c.active /\ shown.tracked = c.tracked /\ shown.path = c.path
        /\ shown.depth = c.depth /\ shown.opened = c.opened /\ shown.unreadable = c.unreadable
        /\ \A n \in Kept :
             /\ (n \notin Located(c) \/ Top.value.type = "optional") => shown.fields[n] = c.fields[n]
             /\ (n \in Located(c) /\ Top.value.type \in Showable) =>
                  shown.fields[n] = StoreValue(c.fields[n], Top.value, memory)
             /\ (n \in Located(c) /\ Top.value.type \notin Showable \cup {"optional"}) => shown.fields[n].failed
    BY <1>3, <1>5, find_tx_fieldEffect
  <2> HIDE DEF shown
  <2>2. ctx' = [shown EXCEPT !.path = Top.parent]
    BY <1>1, <1>8
  <2>3. /\ ctx' \in Context(Kept) /\ ctx'.path = Top.parent
        /\ ctx'.active = shown.active /\ ctx'.tracked = shown.tracked /\ ctx'.depth = shown.depth
        /\ ctx'.opened = shown.opened /\ ctx'.unreadable = shown.unreadable /\ ctx'.fields = shown.fields
    BY <1>3, <2>1, <2>2 DEF Context
  <2>4. ctx'.unreadable =
          \/ ctx.unreadable \/ MissingLabel(Top)
          \/ reader = "holding" /\ \E n \in Taken(ctx, Top.value) : ctx.fields[n].matched
    BY <1>5, <1>8, <2>1, <2>3
  <2>5. reader # "holding"
    BY <1>8
  <2>6. \A n \in Kept :
          /\ (n \notin Located(ctx) \/ Top.value.type = "optional") => ctx'.fields[n] = ctx.fields[n]
          /\ (n \in Located(ctx) /\ Top.value.type \in Showable) =>
               ctx'.fields[n] = StoreValue(ctx.fields[n], Top.value, memory)
          /\ (n \in Located(ctx) /\ Top.value.type \notin Showable \cup {"optional"}) =>
               ctx'.fields[n].failed
    <3>1. ctx'.fields = shown.fields /\ c.fields = ctx.fields /\ Located(c) = Located(ctx)
      BY <1>5, <1>6, <2>3
    <3> QED BY <2>1, <3>1
  <2>7. /\ ctx' \in Context(Kept) /\ ctx'.path = Top.parent /\ ctx'.active = ctx.active
        /\ ctx'.tracked = ctx.tracked /\ ctx'.depth = ctx.depth /\ ctx'.opened = ctx.opened
    BY <1>5, <2>1, <2>3
  <2>8. Top.visited
    BY <1>8
  <2> QED
    BY <1>1, <1>2, <2>4, <2>5, <2>6, <2>7, <2>8, ZenonT(60)
<1>9. CASE Top.visited /\ reader = "holding"
  <2>1. /\ held \in Context(Kept)
        /\ held.active = c.active /\ held.tracked = c.tracked /\ held.path = c.path
        /\ held.depth = c.depth /\ held.opened = c.opened
        /\ held.unreadable = (c.unreadable \/ \E n \in Taken(c, Top.value) : c.fields[n].matched)
        /\ \A n \in Kept :
             held.fields[n] = IF n \in Taken(c, Top.value)
                              THEN [matched |-> TRUE, failed |-> FALSE, leaf |-> Top.value]
                              ELSE c.fields[n]
    BY <1>3, <1>5, find_holding_fieldEffect
  <2> HIDE DEF held
  <2>2. ctx' = [held EXCEPT !.path = Top.parent]
    BY <1>1, <1>9
  <2>3. /\ ctx' \in Context(Kept) /\ ctx'.path = Top.parent
        /\ ctx'.active = held.active /\ ctx'.tracked = held.tracked /\ ctx'.depth = held.depth
        /\ ctx'.opened = held.opened /\ ctx'.unreadable = held.unreadable /\ ctx'.fields = held.fields
    BY <1>3, <2>1, <2>2 DEF Context
  <2>4. ctx'.unreadable =
          \/ ctx.unreadable \/ MissingLabel(Top)
          \/ reader = "holding" /\ \E n \in Taken(ctx, Top.value) : ctx.fields[n].matched
    BY <1>5, <1>6, <1>9, <2>1, <2>3
  <2>5. reader # "display"
    BY <1>9
  <2> QED
    BY <1>1, <1>2, <1>5, <1>6, <1>9, <2>1, <2>3, <2>4, <2>5, Zenon
<1> QED
  BY <1>3, <1>7, <1>8, <1>9
-----------------------------------------------------------------------------
(***************************************************************************)
(* The records on the stack                                                *)
(***************************************************************************)
LEMMA ReplacesRecords ==
  ASSUME TypeInv, stack # <<>>, NEW g, Replaces(g), SameBut(g, Top)
  PROVE Records' = Records /\ \A i \in DOMAIN stack' : i \in DOMAIN stack /\ stack'[i].parent = stack[i].parent
<1>1. Len(stack) \in Nat \ {0} /\ DOMAIN stack = 1..Len(stack) /\ Top = stack[Len(stack)]
  BY TopFacts
<1>2. DOMAIN stack' = DOMAIN stack
  BY <1>1 DEF Replaces
<1>3. ASSUME NEW i \in DOMAIN stack
      PROVE /\ stack'[i].kind = stack[i].kind /\ stack'[i].visited = stack[i].visited
            /\ stack'[i].parent = stack[i].parent
  <2>1. CASE i = Len(stack)
    BY <1>1, <2>1 DEF Replaces, SameBut
  <2>2. CASE i # Len(stack)
    BY <1>1, <1>3, <2>2 DEF Replaces
  <2> QED
    BY <2>1, <2>2
<1> QED
  BY <1>2, <1>3 DEF Records

LEMMA ExtendsRecords ==
  ASSUME TypeInv, stack # <<>>, NEW g, NEW f, Extends(g, f), SameBut(g, Top)
  PROVE /\ Records' = IF f.kind = "record" /\ f.visited THEN Records \cup {Len(stack) + 1} ELSE Records
        /\ Len(stack) + 1 \notin Records
        /\ \A i \in DOMAIN stack' : i = Len(stack) + 1 \/ (i \in DOMAIN stack /\ stack'[i].parent = stack[i].parent)
<1>1. Len(stack) \in Nat \ {0} /\ DOMAIN stack = 1..Len(stack) /\ Top = stack[Len(stack)]
  BY TopFacts
<1>2. DOMAIN stack' = 1..Len(stack) + 1 /\ stack'[Len(stack) + 1] = f
  BY <1>1 DEF Extends
<1>3. ASSUME NEW i \in DOMAIN stack
      PROVE /\ stack'[i].kind = stack[i].kind /\ stack'[i].visited = stack[i].visited
            /\ stack'[i].parent = stack[i].parent
  <2>1. CASE i = Len(stack)
    BY <1>1, <2>1 DEF Extends, SameBut
  <2>2. CASE i # Len(stack)
    BY <1>1, <1>3, <2>2 DEF Extends
  <2> QED
    BY <2>1, <2>2
<1>4. \A i : i \in 1..Len(stack) + 1 <=> (i \in 1..Len(stack) \/ i = Len(stack) + 1)
  BY <1>1
<1> QED
  BY <1>1, <1>2, <1>3, <1>4 DEF Records

LEMMA DropsRecords ==
  ASSUME TypeInv, stack # <<>>, Drops
  PROVE /\ Records' = Records \ {Len(stack)}
        /\ \A i \in DOMAIN stack' : i \in DOMAIN stack /\ stack'[i] = stack[i]
<1>1. Len(stack) \in Nat \ {0} /\ DOMAIN stack = 1..Len(stack)
  BY TopFacts
<1>2. DOMAIN stack' = 1..Len(stack) - 1 /\ \A i \in 1..Len(stack) - 1 : stack'[i] = stack[i]
  BY DEF Drops
<1>3. \A i : i \in 1..Len(stack) - 1 <=> (i \in 1..Len(stack) /\ i # Len(stack))
  BY <1>1
<1> QED
  BY <1>1, <1>2, <1>3 DEF Records

LEMMA ReplacesBottom ==
  ASSUME TypeInv, BottomInv, stack # <<>>, NEW g, Replaces(g), SameBut(g, Top)
  PROVE BottomInv'
<1>1. Len(stack) \in Nat \ {0} /\ DOMAIN stack = 1..Len(stack) /\ Top = stack[Len(stack)]
  BY TopFacts
<1>2. DOMAIN stack' = DOMAIN stack
  BY <1>1 DEF Replaces
<1>3. ASSUME NEW i \in DOMAIN stack PROVE stack'[i].kind = stack[i].kind
  BY <1>1, <1>3 DEF Replaces, SameBut
<1> QED
  BY <1>2, <1>3 DEF BottomInv

LEMMA ExtendsBottom ==
  ASSUME TypeInv, BottomInv, stack # <<>>, NEW g, NEW f, Extends(g, f), SameBut(g, Top),
         f.kind # "argument"
  PROVE BottomInv'
<1>1. Len(stack) \in Nat \ {0} /\ DOMAIN stack = 1..Len(stack) /\ Top = stack[Len(stack)]
  BY TopFacts
<1>2. DOMAIN stack' = 1..Len(stack) + 1 /\ stack'[Len(stack) + 1] = f
  BY <1>1 DEF Extends
<1>3. ASSUME NEW i \in DOMAIN stack PROVE stack'[i].kind = stack[i].kind
  BY <1>1, <1>3 DEF Extends, SameBut
<1>4. \A i \in 1..Len(stack) + 1 : i \in DOMAIN stack \/ (i = Len(stack) + 1 /\ i # 1)
  BY <1>1
<1> QED
  BY <1>2, <1>3, <1>4 DEF BottomInv
-----------------------------------------------------------------------------
(***************************************************************************)
(* The steps preserve the invariant                                        *)
(***************************************************************************)
LEMMA BeginWalk ==
  ASSUME WalkInv, NEW r \in {"display", "holding"}, NEW tracked \in BOOLEAN, Begin(r, tracked)
  PROVE WalkInv'
<1> DEFINE f == [kind |-> "argument", visited |-> TRUE, where |-> <<>>, plain |-> TRUE,
                 parent |-> EmptyPath, before |-> 0, labelled |-> FALSE, value |-> NoValue]
<1>1. stack' = <<f>> /\ reader' = r
  BY DEF Begin
<1>2. f \in FrameType
  <2>1. << >> \in Seq(Labels \cup {"?"})
    OBVIOUS
  <2> QED
    BY <2>1, EmptyIsPath, LeafTypes DEF FrameType, Slots
<1>3. f.kind = "argument" /\ f.parent = EmptyPath
  OBVIOUS
<1> HIDE DEF f
<1>4. stack' \in Seq(FrameType) /\ stack' # <<>> /\ DOMAIN stack' = {1} /\ stack'[1] = f
  BY <1>1, <1>2
<1>5. /\ ctx' \in Context(Kept') /\ ctx'.path = EmptyPath /\ ctx'.depth = 0
  <2>1. CASE r = "display"
    <3>1. ctx' = NewContext({}, FALSE, tracked)
      BY <2>1 DEF Begin
    <3>2. ~ctx'.active
      BY <3>1, IdleContext
    <3>3. Kept' = {}
      BY <1>1, <2>1, <3>2 DEF Kept
    <3>4. /\ NewContext({}, FALSE, tracked) \in Context({})
          /\ NewContext({}, FALSE, tracked).path = EmptyPath
          /\ NewContext({}, FALSE, tracked).depth = 0
      <4>1. Unmatched \in FieldState
        BY LeafTypes DEF Unmatched, FieldState
      <4> QED
        BY <4>1, EmptyIsPath DEF NewContext, Context
    <3> QED
      BY <3>1, <3>3, <3>4
  <2>2. CASE r = "holding"
    <3>1. ctx' = NewContext(HoldingNames, TRUE, TRUE)
      BY <2>2 DEF Begin
    <3>2. Kept' = HoldingNames
      BY <1>1, <2>2 DEF Kept
    <3>3. /\ NewContext(HoldingNames, TRUE, TRUE) \in Context(HoldingNames)
          /\ NewContext(HoldingNames, TRUE, TRUE).path = EmptyPath
          /\ NewContext(HoldingNames, TRUE, TRUE).depth = 0
      <4>1. Unmatched \in FieldState
        BY LeafTypes DEF Unmatched, FieldState
      <4> QED
        BY <4>1, EmptyIsPath DEF NewContext, Context
    <3> QED
      BY <3>1, <3>2, <3>3
  <2> QED
    BY <2>1, <2>2
<1>6. Records' = {}
  BY <1>3, <1>4 DEF Records
<1>7. DepthInv'
  BY <1>5, <1>6, FS_EmptySet DEF DepthInv
<1>8. Limit' \in Nat \ {0}
  BY BoundsAssumption DEF Limit
<1>9. FitsInv'
  BY <1>3, <1>4, <1>5, <1>8, EmptyIsPath DEF FitsInv
<1>10. TypeInv'
  <2>1. outcome' \in OutcomeType /\ truth' \in [Names -> Seq(Leaf)]
    BY NoOutcomeType DEF Begin
  <2>2. 1 \in 0..MaxSize
    BY BoundsAssumption
  <2> QED
    BY <1>1, <1>4, <1>5, <2>1, <2>2 DEF Begin, TypeInv
<1>11. BottomInv'
  BY <1>3, <1>4 DEF BottomInv
<1> QED
  BY <1>7, <1>9, <1>10, <1>11 DEF WalkInv

\* A message more is within the bound.
LEMMA RoomLeft ==
  ASSUME TypeInv, Room
  PROVE size + 1 \in 0..MaxSize
BY BoundsAssumption DEF TypeInv, Room

LEMMA OpenValueWalk ==
  ASSUME WalkInv, NEW k \in {"record", "optional", "text_map", "opaque"}, OpenValue(k)
  PROVE WalkInv'
<1> DEFINE g == [Top EXCEPT !.value = Container(k)]
           f == Frame(k, Enters(k), Where(Top), Top.plain /\ k = "record")
           enters == Enters(k)
<1>1. TypeInv /\ DepthInv /\ FitsInv /\ BottomInv
  BY DEF WalkInv
<1>2. /\ stack # <<>> /\ Top.kind \in Slots /\ enters \in BOOLEAN
      /\ k = "opaque" => Replaces(g)
      /\ k # "opaque" => Extends(g, f) /\ f \in FrameType
  BY <1>1, OpenValueStack
<1>3. /\ ctx \in Context(Kept) /\ Top \in FrameType /\ ctx.depth \in Nat /\ ctx.opened \in Nat
      /\ ctx.path \in Path
  BY <1>1, <1>2, TopFacts
<1>4. SameBut(g, Top)
  BY <1>3, LeafTypes, FrameUpdates
<1>5. /\ ctx' \in Context(Kept) /\ ctx'.active = ctx.active /\ ctx'.path = ctx.path
      /\ ctx'.depth = IF enters /\ k = "record" THEN ctx.depth + 1 ELSE ctx.depth
  BY <1>1, OpenValueContext
<1>6. k # "opaque" => f.kind = k /\ f.visited = enters /\ f.parent = ctx.path
  <2>1. f = [kind |-> k, visited |-> enters, where |-> Where(Top), plain |-> Top.plain /\ k = "record",
             parent |-> ctx.path, before |-> ctx.opened, labelled |-> FALSE, value |-> NoValue]
    BY DEF Frame
  <2> HIDE DEF f
  <2> QED
    BY <2>1
<1>7. reader' = reader /\ outcome' = outcome /\ truth' = truth /\ misplaced' = misplaced
      /\ cut' = cut /\ size' = size + 1 /\ Room
  BY DEF OpenValue, history
<1> HIDE DEF g, f, enters
<1>10. Kept' = Kept
  BY <1>7, <1>5 DEF Kept
<1>11. stack' \in Seq(FrameType) /\ stack' # <<>>
  BY <1>2 DEF Replaces, Extends
<1>12. TypeInv'
  <2>1. size' \in 0..MaxSize
    BY <1>1, <1>7, RoomLeft
  <2> QED
    BY <1>1, <1>2, <1>7, <1>5, <1>10, <1>11, <2>1 DEF TypeInv
<1>13. DepthInv'
  <2>1. CASE k = "opaque"
    BY <1>1, <1>2, <1>4, <1>5, <2>1, ReplacesRecords DEF DepthInv
  <2>2. CASE k # "opaque"
    <3>1. /\ Records' = IF f.kind = "record" /\ f.visited THEN Records \cup {Len(stack) + 1} ELSE Records
          /\ Len(stack) + 1 \notin Records
      BY <1>1, <1>2, <1>4, <2>2, ExtendsRecords
    <3>2. IsFiniteSet(Records)
      BY <1>1, RecordsFinite DEF TypeInv
    <3>3. Cardinality(Records \cup {Len(stack) + 1}) = Cardinality(Records) + 1
      BY <3>1, <3>2, FS_AddElement
    <3> QED
      BY <1>1, <1>6, <1>5, <2>2, <3>1, <3>3 DEF DepthInv
  <2> QED
    BY <2>1, <2>2
<1>14. FitsInv'
  <2>1. Limit' = Limit /\ reader # "idle" /\ reader' # "idle"
    BY <1>1, <1>2, <1>7 DEF Limit, TypeInv
  <2>2. CASE k = "opaque"
    BY <1>1, <1>2, <1>4, <1>5, <2>1, <2>2, ReplacesRecords DEF FitsInv
  <2>3. CASE k # "opaque"
    <3>1. \A i \in DOMAIN stack' : i = Len(stack) + 1 \/ (i \in DOMAIN stack /\ stack'[i].parent = stack[i].parent)
      BY <1>1, <1>2, <1>4, <2>3, ExtendsRecords
    <3>2. stack'[Len(stack) + 1].parent = ctx.path
      BY <1>2, <1>6, <2>3 DEF Extends
    <3> QED
      BY <1>1, <1>5, <2>1, <3>1, <3>2 DEF FitsInv
  <2> QED
    BY <2>2, <2>3
<1>15. BottomInv'
  <2>1. CASE k = "opaque"
    BY <1>1, <1>2, <1>4, <2>1, ReplacesBottom
  <2>2. CASE k # "opaque"
    BY <1>1, <1>2, <1>4, <1>6, <2>2, ExtendsBottom
  <2> QED
    BY <2>1, <2>2
<1> QED
  BY <1>12, <1>13, <1>14, <1>15 DEF WalkInv

\* A step that replaces the top frame by one of the same place.
LEMMA ReplacesWalk ==
  ASSUME WalkInv, stack # <<>>, NEW g, Replaces(g), SameBut(g, Top), reader' = reader,
         ctx' \in Context(Kept'), ctx'.depth = ctx.depth,
         ctx'.path = ctx.path \/ ctx'.path.length < Limit,
         outcome' = outcome, truth' = truth, misplaced' \in BOOLEAN, cut' \in BOOLEAN, size' = size
  PROVE WalkInv'
<1>1. TypeInv /\ DepthInv /\ FitsInv /\ BottomInv
  BY DEF WalkInv
<1>2. stack' \in Seq(FrameType) /\ stack' # <<>>
  BY DEF Replaces
<1>3. TypeInv'
  BY <1>1, <1>2 DEF TypeInv
<1>4. Records' = Records /\ \A i \in DOMAIN stack' : i \in DOMAIN stack /\ stack'[i].parent = stack[i].parent
  BY <1>1, ReplacesRecords
<1>5. DepthInv'
  BY <1>1, <1>4 DEF DepthInv
<1>6. FitsInv'
  BY <1>1, <1>4 DEF FitsInv, TypeInv, Limit
<1>7. BottomInv'
  BY <1>1, ReplacesBottom
<1> QED
  BY <1>3, <1>5, <1>6, <1>7 DEF WalkInv

LEMMA RecordIdWalk ==
  ASSUME WalkInv, NEW chooses \in BOOLEAN, RecordId(chooses)
  PROVE WalkInv'
<1> DEFINE g == [Top EXCEPT !.labelled = TRUE]
<1>1. TypeInv
  BY DEF WalkInv
<1>2. /\ stack # <<>> /\ Replaces(g) /\ ctx' \in Context(Kept') /\ ctx'.path = ctx.path
      /\ ctx'.depth = ctx.depth
  BY <1>1, RecordIdEffect
<1>3. SameBut(g, Top)
  BY <1>1, <1>2, TopFacts, FrameUpdates
<1>4. /\ reader' = reader /\ outcome' = outcome /\ truth' = truth /\ misplaced' = misplaced
      /\ cut' = cut /\ size' = size
  BY DEF RecordId, history
<1>5. misplaced \in BOOLEAN /\ cut \in BOOLEAN
  BY <1>1 DEF TypeInv
<1> QED
  BY <1>2, <1>3, <1>4, <1>5, ReplacesWalk

LEMMA ScalarWalk ==
  ASSUME WalkInv, NEW leaf \in Leaves, Scalar(leaf)
  PROVE WalkInv' /\ stack # <<>> /\ Replaces([Top EXCEPT !.value = leaf])
<1> DEFINE g == [Top EXCEPT !.value = leaf]
<1>1. TypeInv
  BY DEF WalkInv
<1>2. stack # <<>> /\ stack' = SetTop(g) /\ ctx' = ctx
  BY DEF Scalar, InSlot
<1>3. g \in FrameType /\ SameBut(g, Top)
  BY <1>1, <1>2, TopFacts, FrameUpdates, LeafTypes
<1>4. Replaces(g)
  BY <1>1, <1>2, <1>3, StackSteps DEF TypeInv
<1>5. /\ reader' = reader /\ outcome' = outcome /\ truth' = truth /\ misplaced' = misplaced
      /\ cut' = cut /\ size' = size
  BY DEF Scalar, history
<1>6. misplaced \in BOOLEAN /\ cut \in BOOLEAN /\ ctx \in Context(Kept)
  BY <1>1 DEF TypeInv
<1>7. ctx' \in Context(Kept')
  BY <1>2, <1>5, <1>6 DEF Kept
<1> QED
  BY <1>2, <1>3, <1>4, <1>5, <1>6, <1>7, ReplacesWalk

LEMMA LabelWalk ==
  ASSUME WalkInv, NEW l \in Labels \cup {"?"}, Label(l)
  PROVE WalkInv'
<1> DEFINE g == [Top EXCEPT !.labelled = TRUE, !.where = Append(@, l)]
<1>1. TypeInv
  BY DEF WalkInv
<1>2. /\ stack # <<>> /\ Replaces(g) /\ reader' = reader /\ ctx' \in Context(Kept)
      /\ ~Top.visited => ctx' = ctx
      /\ (reader = "display" /\ Top.visited) =>
           Reading(ctx, ctx', Top.before, l, <<l>>, EscapedWidth(l)) /\ ctx'.active = ctx.active
      /\ (reader = "holding" /\ Top.visited) => Reading(ctx, ctx', Top.before, l, Segments[l], Width[l])
      /\ ctx'.path = ctx.path \/ ctx'.path.length < Limit
  BY <1>1, LabelEffect
<1>3. SameBut(g, Top)
  BY <1>1, <1>2, TopFacts, FrameUpdates
<1>4. ctx'.depth = ctx.depth /\ (reader = "display" => ctx'.active = ctx.active)
  BY <1>1, <1>2, TopFacts DEF Reading
<1>5. Kept' = Kept
  BY <1>2, <1>4 DEF Kept
<1>6. outcome' = outcome /\ truth' = truth /\ size' = size
  BY DEF Label
<1>7. misplaced' \in BOOLEAN /\ cut' \in BOOLEAN
  BY <1>1, Zenon DEF Label, TypeInv
<1> HIDE DEF g
<1> QED
  BY <1>2, <1>3, <1>4, <1>5, <1>6, <1>7, ReplacesWalk

LEMMA OpenSlotWalk ==
  ASSUME WalkInv, OpenSlot
  PROVE WalkInv'
<1> DEFINE g == [Top EXCEPT !.value = Container("slots")]
           f == Frame(SlotOf[Top.kind], EntersSlot, Top.where, Top.plain)
<1>1. TypeInv /\ DepthInv /\ FitsInv /\ BottomInv
  BY DEF WalkInv
<1>2. stack # <<>> /\ Extends(g, f) /\ SlotOf[Top.kind] \in Slots \ {"argument"}
  BY <1>1, OpenSlotStack
<1>3. SameBut(g, Top)
  BY <1>1, <1>2, TopFacts, LeafTypes, FrameUpdates
<1>4. f.kind = SlotOf[Top.kind] /\ f.parent = ctx.path
  BY DEF Frame
<1>5. f.kind # "record"
  BY <1>2, <1>4 DEF Slots
<1>6. /\ reader' = reader /\ outcome' = outcome /\ truth' = truth /\ misplaced' = misplaced
      /\ cut' = cut /\ size' = size + 1 /\ ctx' = ctx /\ Room
  BY DEF OpenSlot, history
<1> HIDE DEF g, f
<1>7. /\ Records' = IF f.kind = "record" /\ f.visited THEN Records \cup {Len(stack) + 1} ELSE Records
      /\ \A i \in DOMAIN stack' : i = Len(stack) + 1 \/ (i \in DOMAIN stack /\ stack'[i].parent = stack[i].parent)
  BY <1>1, <1>2, <1>3, ExtendsRecords
<1>8. DepthInv'
  BY <1>1, <1>5, <1>6, <1>7 DEF DepthInv
<1>9. FitsInv'
  <2>1. stack'[Len(stack) + 1].parent = ctx.path
    BY <1>2, <1>4 DEF Extends
  <2> QED
    BY <1>1, <1>6, <1>7, <2>1 DEF FitsInv, TypeInv, Limit
<1>10. TypeInv'
  <2>1. size' \in 0..MaxSize
    BY <1>1, <1>6, RoomLeft
  <2>2. stack' \in Seq(FrameType) /\ stack' # <<>>
    BY <1>2 DEF Extends
  <2>3. Kept' = Kept
    BY <1>6 DEF Kept
  <2> QED
    BY <1>1, <1>2, <1>6, <2>1, <2>2, <2>3 DEF TypeInv
<1>11. BottomInv'
  BY <1>1, <1>2, <1>3, <1>4, ExtendsBottom
<1> QED
  BY <1>8, <1>9, <1>10, <1>11 DEF WalkInv

\* The history of a slot that ends.
LEMMA MetType ==
  ASSUME truth \in [Names -> Seq(Leaf)], NEW frame \in FrameType, Met(frame)
  PROVE truth' \in [Names -> Seq(Leaf)]
<1>1. frame.value \in Leaf /\ NoValue \in Leaf
  BY LeafTypes DEF FrameType
<1>2. <<frame.value>> \in Seq(Leaf) /\ Many \in Seq(Leaf)
  BY <1>1 DEF Many
<1>3. /\ truth' = [n \in Names |-> truth'[n]]
      /\ \A n \in Names : truth'[n] \in {truth[n], <<frame.value>>, Many}
  BY Zenon DEF Met
<1> QED
  BY <1>2, <1>3

LEMMA CloseSlotWalk ==
  ASSUME WalkInv, NEW memory \in BOOLEAN, CloseSlot(memory)
  PROVE WalkInv'
<1>1. TypeInv /\ DepthInv /\ FitsInv /\ BottomInv
  BY DEF WalkInv
<1>2. /\ stack # <<>> /\ Top.kind \in Slots /\ Len(stack) > 1 /\ Drops /\ reader' = reader
      /\ ctx' \in Context(Kept) /\ ctx'.depth = ctx.depth /\ ctx'.active = ctx.active
      /\ ctx'.path = ctx.path \/ ctx'.path = Top.parent
  BY <1>1, CloseSlotEffect, Zenon
<1>3. /\ outcome' = outcome /\ misplaced' = misplaced /\ cut' = cut
      /\ size' = size /\ Met(Top)
  BY Zenon DEF CloseSlot
<1>4. Len(stack) \in Nat /\ DOMAIN stack = 1..Len(stack) /\ Top = stack[Len(stack)] /\ Top \in FrameType
  BY <1>1, <1>2, TopFacts
<1>5. /\ Records' = Records \ {Len(stack)}
      /\ \A i \in DOMAIN stack' : i \in DOMAIN stack /\ stack'[i] = stack[i]
  BY <1>1, <1>2, DropsRecords
<1>6. Len(stack) \notin Records
  BY <1>2, <1>4 DEF Records, Slots
<1>7. DepthInv'
  BY <1>1, <1>2, <1>5, <1>6 DEF DepthInv
<1>8. FitsInv'
  BY <1>1, <1>2, <1>4, <1>5 DEF FitsInv, TypeInv, Limit
<1>9. TypeInv'
  <2>1. Kept' = Kept
    BY <1>2 DEF Kept
  <2>2. stack' \in Seq(FrameType) /\ stack' # <<>>
    BY <1>2 DEF Drops
  <2>3. truth' \in [Names -> Seq(Leaf)]
    BY <1>1, <1>3, <1>4, MetType DEF TypeInv
  <2> QED
    BY <1>1, <1>2, <1>3, <2>1, <2>2, <2>3 DEF TypeInv
<1>10. BottomInv'
  BY <1>1, <1>5 DEF BottomInv
<1> QED
  BY <1>7, <1>8, <1>9, <1>10 DEF WalkInv

LEMMA CloseValueEffect ==
  ASSUME WalkInv, CloseValue
  PROVE /\ stack # <<>> /\ Top.kind \in DOMAIN SlotOf /\ Len(stack) > 1 /\ Drops /\ reader' = reader
        /\ ctx' \in Context(Kept)
        /\ ctx'.active = ctx.active /\ ctx'.tracked = ctx.tracked /\ ctx'.path = ctx.path
        /\ ctx'.unreadable = ctx.unreadable /\ ctx'.fields = ctx.fields /\ ctx'.opened = ctx.opened
        /\ ctx'.depth = IF Top.kind = "record" /\ Top.visited THEN ctx.depth - 1 ELSE ctx.depth
        /\ (Top.kind = "record" /\ Top.visited) => Len(stack) \in Records
<1>1. TypeInv /\ DepthInv /\ BottomInv
  BY DEF WalkInv
<1>2. /\ stack # <<>> /\ Top.kind \in DOMAIN SlotOf /\ stack' = Below /\ reader' = reader
      /\ ctx' = IF Top.kind = "record" /\ Top.visited THEN [ctx EXCEPT !.depth = @ - 1] ELSE ctx
  BY DEF CloseValue, InContainer
<1>3. /\ Len(stack) \in Nat \ {0} /\ DOMAIN stack = 1..Len(stack) /\ Top = stack[Len(stack)]
      /\ ctx \in Context(Kept) /\ ctx.depth \in Nat
  BY <1>1, <1>2, TopFacts
<1>4. Len(stack) > 1
  BY <1>1, <1>2, <1>3, Kinds DEF BottomInv
<1>5. Drops
  BY <1>1, <1>2, StackSteps DEF TypeInv
<1>6. CASE Top.kind = "record" /\ Top.visited
  <2>1. Len(stack) \in Records
    BY <1>3, <1>6 DEF Records
  <2>2. IsFiniteSet(Records) /\ Cardinality(Records) \in Nat
    BY <1>1, RecordsFinite DEF TypeInv
  <2>3. Cardinality(Records) # 0
    BY <2>1, <2>2, FS_EmptySet
  <2>4. ctx.depth - 1 \in Nat
    BY <1>1, <2>2, <2>3 DEF DepthInv
  <2>5. ctx' = [ctx EXCEPT !.depth = ctx.depth - 1]
    BY <1>2, <1>6
  <2>6. /\ ctx' \in Context(Kept)
        /\ ctx'.active = ctx.active /\ ctx'.tracked = ctx.tracked /\ ctx'.path = ctx.path
        /\ ctx'.unreadable = ctx.unreadable /\ ctx'.fields = ctx.fields /\ ctx'.opened = ctx.opened
        /\ ctx'.depth = ctx.depth - 1
    BY <1>3, <2>4, <2>5 DEF Context
  <2> QED
    BY <1>2, <1>4, <1>5, <1>6, <2>1, <2>6
<1>7. CASE ~(Top.kind = "record" /\ Top.visited)
  <2>1. ctx' = ctx
    BY <1>2, <1>7
  <2> QED
    BY <1>2, <1>3, <1>4, <1>5, <1>7, <2>1
<1> QED
  BY <1>6, <1>7

LEMMA CloseValueWalk ==
  ASSUME WalkInv, CloseValue
  PROVE WalkInv'
<1>1. TypeInv /\ DepthInv /\ FitsInv /\ BottomInv
  BY DEF WalkInv
<1>2. /\ stack # <<>> /\ Len(stack) > 1 /\ Drops /\ reader' = reader
      /\ ctx' \in Context(Kept) /\ ctx'.active = ctx.active /\ ctx'.path = ctx.path
      /\ ctx'.depth = IF Top.kind = "record" /\ Top.visited THEN ctx.depth - 1 ELSE ctx.depth
      /\ (Top.kind = "record" /\ Top.visited) => Len(stack) \in Records
  BY CloseValueEffect
<1>3. /\ outcome' = outcome /\ truth' = truth /\ misplaced' = misplaced /\ cut' = cut
      /\ size' = size
  BY DEF CloseValue, history
<1>4. /\ Records' = Records \ {Len(stack)}
      /\ \A i \in DOMAIN stack' : i \in DOMAIN stack /\ stack'[i] = stack[i]
  BY <1>1, <1>2, DropsRecords
<1>5. Top = stack[Len(stack)]
  BY DEF Top
<1>6. DepthInv'
  <2>1. IsFiniteSet(Records)
    BY <1>1, RecordsFinite DEF TypeInv
  <2>2. Cardinality(Records') =
          IF Len(stack) \in Records THEN Cardinality(Records) - 1 ELSE Cardinality(Records)
    BY <1>4, <2>1, FS_RemoveElement
  <2>3. Len(stack) \in Records <=> (Top.kind = "record" /\ Top.visited)
    BY <1>2, <1>5 DEF Records
  <2> QED
    BY <1>1, <1>2, <2>2, <2>3 DEF DepthInv
<1>7. FitsInv'
  BY <1>1, <1>2, <1>4 DEF FitsInv, TypeInv, Limit
<1>8. TypeInv'
  <2>1. Kept' = Kept
    BY <1>2 DEF Kept
  <2>2. stack' \in Seq(FrameType) /\ stack' # <<>>
    BY <1>2 DEF Drops
  <2> QED
    BY <1>1, <1>2, <1>3, <2>1, <2>2 DEF TypeInv
<1>9. BottomInv'
  BY <1>1, <1>4 DEF BottomInv
<1> QED
  BY <1>6, <1>7, <1>8, <1>9 DEF WalkInv

LEMMA EndWalk ==
  ASSUME WalkInv, NEW kind \in {"shown", "failed", "refused", "unmatched", "reported", "unreadable",
                                "unparsed"}, End(kind)
  PROVE WalkInv'
<1>1. TypeInv
  BY DEF WalkInv
<1>2. /\ reader' = "idle" /\ stack' = <<>> /\ ctx' = Idle /\ size' = 0 /\ truth' = truth
      /\ misplaced' = misplaced /\ cut' = cut
  BY DEF End, history
<1> DEFINE v == [n \in Names |-> IF kind \in {"shown", "reported"} /\ n \in DOMAIN ctx.fields
                                 THEN ctx.fields[n].leaf ELSE NoValue]
<1>3. outcome' = [kind |-> kind, values |-> v]
  BY DEF End
<1>4. v \in [Names -> Leaf]
  <2>1. \A n \in DOMAIN ctx.fields : ctx.fields[n].leaf \in Leaf
    BY <1>1 DEF TypeInv, Context, FieldState
  <2> QED
    BY <2>1, LeafTypes
<1> HIDE DEF v
<1>5. outcome' \in OutcomeType
  BY <1>3, <1>4 DEF OutcomeType
<1>6. Kept' = {}
  BY <1>2 DEF Kept
<1>7. stack' \in Seq(FrameType) /\ DOMAIN stack' = {}
  BY <1>2
<1>8. TypeInv'
  <2>1. 0 \in 0..MaxSize
    BY BoundsAssumption
  <2>2. ctx' \in Context(Kept')
    BY <1>2, <1>6, IdleContext
  <2> QED
    BY <1>1, <1>2, <1>5, <1>7, <2>1, <2>2 DEF TypeInv
<1>9. Records' = {}
  BY <1>7 DEF Records
<1>10. DepthInv'
  BY <1>2, <1>9, FS_EmptySet, IdleContext DEF DepthInv
<1> QED
  BY <1>2, <1>7, <1>8, <1>10 DEF WalkInv, FitsInv, BottomInv

\* A walk that ends has one of these outcomes.
LEMMA FinishKinds ==
  ASSUME TypeInv, NEW starved, Finish(starved)
  PROVE \E kind \in {"shown", "failed", "refused", "unmatched", "reported", "unreadable"} : End(kind)
<1>1. CASE reader = "display"
  BY <1>1, DisplayVerdict DEF Finish
<1>2. CASE reader # "display"
  <2>1. End(HoldingOutcome)
    BY <1>2 DEF Finish
  <2>2. HoldingOutcome \in {"reported", "unreadable"}
    BY Zenon DEF HoldingOutcome
  <2> QED
    BY <2>1, <2>2
<1> QED
  BY <1>1, <1>2

LEMMA DecodeFailsKinds ==
  ASSUME DecodeFails
  PROVE \E kind \in {"refused", "unparsed"} : End(kind)
BY Zenon DEF DecodeFails

LEMMA StutterWalk ==
  ASSUME WalkInv, UNCHANGED vars
  PROVE WalkInv'
BY DEF WalkInv, TypeInv, DepthInv, FitsInv, BottomInv, Records, Kept, Limit, vars

LEMMA NextWalk == WalkInv /\ [Next]_vars => WalkInv'
<1> SUFFICES ASSUME WalkInv, [Next]_vars PROVE WalkInv'
  OBVIOUS
<1>1. TypeInv
  BY DEF WalkInv
<1>2. ASSUME NEW r \in {"display", "holding"}, NEW tracked \in BOOLEAN, Begin(r, tracked) PROVE WalkInv'
  BY <1>2, BeginWalk
<1>3. ASSUME NEW k \in {"record", "optional", "text_map", "opaque"}, OpenValue(k) PROVE WalkInv'
  BY <1>3, OpenValueWalk
<1>4. ASSUME NEW chooses \in BOOLEAN, RecordId(chooses) PROVE WalkInv'
  BY <1>4, RecordIdWalk
<1>5. CASE OpenSlot
  BY <1>5, OpenSlotWalk
<1>6. ASSUME NEW leaf \in Leaves, Scalar(leaf) PROVE WalkInv'
  BY <1>6, ScalarWalk
<1>7. ASSUME NEW l \in Labels \cup {"?"}, Label(l) PROVE WalkInv'
  BY <1>7, LabelWalk
<1>8. ASSUME NEW memory \in BOOLEAN, CloseSlot(memory) PROVE WalkInv'
  BY <1>8, CloseSlotWalk
<1>9. CASE CloseValue
  BY <1>9, CloseValueWalk
<1>10. ASSUME NEW starved \in SUBSET DisplayNames, Finish(starved) PROVE WalkInv'
  BY <1>1, <1>10, FinishKinds, EndWalk
<1>11. CASE DecodeFails
  BY <1>11, DecodeFailsKinds, EndWalk
<1>12. CASE UNCHANGED vars
  BY <1>12, StutterWalk
<1> QED
  BY <1>2, <1>3, <1>4, <1>5, <1>6, <1>7, <1>8, <1>9, <1>10, <1>11, <1>12 DEF Next

LEMMA WalkInvariance == Spec => []WalkInv
BY InitWalk, NextWalk, PTL DEF Spec
-----------------------------------------------------------------------------
(***************************************************************************)
(* Theorems                                                                *)
(***************************************************************************)
\* Whatever the host sends, a walk keeps its state in shape: its depth counts the records it is
\* in and is never taken below zero, and it ends with one of the outcomes the app handles.
THEOREM WalkTypes == Spec => []TypeOK
<1>1. WalkInv => TypeOK
  BY WalkInvImplies
<1> QED
  BY <1>1, WalkInvariance, PTL

\* push_path and path_push stay inside the path buffers, however deep the argument is and
\* whatever is cut back when a field ends (decode_record_field, decode_value_text_map).
THEOREM PathsFit == Spec => []PathFits
<1>1. WalkInv => PathFits
  BY WalkInvImplies
<1> QED
  BY <1>1, WalkInvariance, PTL
=============================================================================
