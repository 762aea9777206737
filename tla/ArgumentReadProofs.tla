------------------------- MODULE ArgumentReadProofs -------------------------
(***************************************************************************)
(* What the two walks tell is what stands at the configured paths.         *)
(*                                                                         *)
(* The argument is about clean walks: the path is tracked, nothing has     *)
(* given the walk up, and no label is overdue, that is, owed by a slot the *)
(* walk has been inside.  On a clean walk the path is where the walk       *)
(* stands, and what is kept for a name agrees with what was met at its     *)
(* path.  A walk that is not clean stays so until it ends: an overdue      *)
(* label makes the walk unreadable when it comes, and when its slot ends   *)
(* without it.                                                             *)
(*                                                                         *)
(* The display walk comes first, then the holding walk, and from both the  *)
(* refinement of FieldReader.                                              *)
(***************************************************************************)
EXTENDS ArgumentWalkProofs

Named == {"field", "entry"}

\* A label is owed by a slot whose value the walk has been inside.
Owes(f, opened) == f.kind \in Named /\ f.visited /\ ~f.labelled /\ opened # f.before
Overdue == \E i \in DOMAIN stack : Owes(stack[i], ctx.opened)

Clean ==
  /\ ctx.active /\ ctx.tracked /\ ~ctx.unreadable /\ ~Overdue
  /\ reader = "holding" => NoDots

\* What a frame may hold.
Held == Leaves \cup {NoValue}
          \cup {Container(k) : k \in {"record", "optional", "text_map", "opaque", "slots"}}

\* Frame f stands on frame e: slots and containers alternate, and the walk is in the outer
\* frames of the stack.
On(f, e) ==
  /\ f.kind \in Slots <=> e.kind \in DOMAIN SlotOf
  /\ f.kind \in Slots => f.kind = SlotOf[e.kind]
  /\ f.visited => e.visited
  /\ f.plain <=> e.plain /\ f.kind \in {"record", "field"}

ShapeInv ==
  /\ reader # "idle" =>
       outcome = NoOutcome /\ stack[1].visited /\ stack[1].plain /\ stack[1].where = <<>>
  /\ \A i \in DOMAIN stack : (i > 1 => On(stack[i], stack[i - 1])) /\ stack[i].value \in Held

\* A walk that is in a frame has opened a value since the frames below began.
OpenedInv ==
  /\ \A i \in DOMAIN stack : stack[i].before <= ctx.opened
  /\ \A i, j \in DOMAIN stack : (j < i /\ stack[i].visited) => stack[j].before < ctx.opened
  /\ \A i \in DOMAIN stack :
       (stack[i].kind \in DOMAIN SlotOf /\ stack[i].visited) => stack[i].before < ctx.opened

\* And since the frame itself, if it was inside its value.
Behind(f, opened) ==
  (f.kind \in Named /\ f.visited /\ Entered(f) /\ ~f.labelled) => f.before < opened
EnteredInv == \A i \in DOMAIN stack : Behind(stack[i], ctx.opened)

\* A message inside another is one that has come.
BusyInv == \A i \in DOMAIN stack : i < Len(stack) => stack[i].value # NoValue

\* The walk is in the outer frames of the stack.
NestedInv == \A i, j \in DOMAIN stack : (j < i /\ stack[i].visited) => stack[j].visited

\* Frame f on frame e, for a walk with path p: the walk stands at e when it is not in f, and
\* f stands where e does until a label leads on.
Linked(f, e, p) ==
  /\ (e.visited /\ ~f.visited) => p.labels = e.where
  /\ (f.visited /\ (f.kind \in DOMAIN SlotOf \/ ~f.labelled)) => f.where = e.where
  /\ (f.visited /\ f.kind \in Slots) => f.parent.labels = e.where

\* On a clean walk the path is where the walk stands.
PathInv ==
  Clean =>
    /\ (stack # <<>> /\ Top.visited) => ctx.path.labels = Top.where
    /\ \A i \in DOMAIN stack : i > 1 => Linked(stack[i], stack[i - 1], ctx.path)
StandsInv == NestedInv /\ PathInv

\* On a display walk: before a screen is chosen, only the argument and its record are entered,
\* and until that record has a field nothing has been met.
ScreenInv ==
  /\ ~cut
  /\ Len(stack) > 1 => stack[2].kind = "record" /\ stack[2].where = <<>>
  /\ ctx.active => \A i \in DOMAIN stack : stack[i].visited
  /\ ~ctx.active => ctx.path = EmptyPath /\ \A i \in DOMAIN stack : i > 2 => ~stack[i].visited
  /\ (~ctx.active /\ Len(stack) <= 2 /\ Top.value = NoValue) => truth = NoTruth /\ ~misplaced

\* What a screen keeps of a value.
Blanked(v) == IF v.value = "empty" THEN NoValue ELSE v

\* What is kept for a name of a screen.
ShownAs(n) ==
  ctx.fields[n].failed
  \/ IF n \in Preset
     THEN truth[n] = <<>> /\ ctx.fields[n].matched /\ ctx.fields[n].leaf = PresetValue
     ELSE \/ truth[n] = <<>> /\ ctx.fields[n] = Unmatched
          \/ \E v \in Standing : truth[n] = <<v>> /\ ctx.fields[n].matched /\ ctx.fields[n].leaf = Blanked(v)

ShownInv ==
  /\ \A n \in HoldingNames : truth[n] = <<>>
  /\ Clean => ~misplaced /\ \A n \in DisplayNames : ShownAs(n)
  /\ (ctx.active /\ ~ctx.tracked) => \A n \in DisplayNames \ Preset : ctx.fields[n] = Unmatched

\* The records down to a frame, its own and that of its value not counted.
DepthOf(f) == IF f.kind \in Slots THEN Len(Where(f)) ELSE Len(f.where) + 1

\* The holding walk is in the plain frames down to MAX_LABEL_DEPTH records, and its depth is that
\* of the innermost frame it is in.
Leveled(f) ==
  /\ f.visited => f.plain
  /\ f.plain => (f.visited <=> DepthOf(f) <= MAX_LABEL_DEPTH)
Rises(f, e) == f.plain => DepthOf(f) = DepthOf(e) + (IF f.kind \in Slots THEN 0 ELSE 1)
LevelInv ==
  /\ \A i \in DOMAIN stack : Leveled(stack[i]) /\ (i > 1 => Rises(stack[i], stack[i - 1]))
  /\ \A i \in DOMAIN stack :
       (stack[i].visited /\ \A j \in DOMAIN stack : j > i => ~stack[j].visited) =>
         ctx.depth = DepthOf(stack[i])

\* It stops matching when a path does not fit.
CutInv == ctx.tracked /\ cut = ~ctx.active

\* What is kept for a name of a holding.
HeldAs(n) ==
  \/ truth[n] = <<>> /\ ~ctx.fields[n].matched
  \/ \E v \in Leaves : truth[n] = <<v>> /\ ctx.fields[n].matched /\ ctx.fields[n].leaf = v

\* A sound walk: not given up, every path fitted, and no label overdue while matching.
Sound == NoDots /\ ~ctx.unreadable /\ ~cut /\ (ctx.active => ~Overdue)
HeldInv ==
  /\ \A n \in DisplayNames : truth[n] = <<>>
  /\ Sound => ~misplaced /\ \A n \in HoldingNames : HeldAs(n)

\* A node's argument is a record whose id comes before its fields.
RecordArguments == ~LateId /\ ArgumentKinds \subseteq {"record", "opaque"}
-----------------------------------------------------------------------------
(***************************************************************************)
(* The shape of the stack                                                  *)
(***************************************************************************)
LEMMA BelowOrTop ==
  ASSUME NEW n \in Nat \ {0}, NEW i \in 1..n
  PROVE i = n \/ i \in 1..n - 1
OBVIOUS

LEMMA BelowTop ==
  ASSUME NEW n \in Nat \ {0}, NEW i \in 1..n - 1
  PROVE i \in 1..n /\ i # n /\ i < n
OBVIOUS

LEMMA HeldValues ==
  /\ NoValue \in Held
  /\ \A k \in {"record", "optional", "text_map", "opaque", "slots"} : Container(k) \in Held
  /\ \A leaf \in Leaves : leaf \in Held
BY DEF Held

LEMMA ShapeReplaces ==
  ASSUME WalkInv, ShapeInv, stack # <<>>, NEW g, Replaces(g), SameBut(g, Top), g.value \in Held,
         g.where = Top.where \/ Top.kind # "argument", reader' = reader, outcome' = outcome
  PROVE ShapeInv'
<1>1. /\ Len(stack) \in Nat \ {0} /\ DOMAIN stack = 1..Len(stack) /\ Top = stack[Len(stack)]
      /\ reader # "idle"
  BY TopFacts DEF WalkInv, TypeInv
<1>2. DOMAIN stack' = 1..Len(stack) /\ stack'[Len(stack)] = g
  BY DEF Replaces
<1>3. ASSUME NEW i \in 1..Len(stack)
      PROVE SameBut(stack'[i], stack[i]) /\ stack'[i].value \in Held
  <2>1. CASE i = Len(stack)
    BY <1>1, <1>2, <2>1
  <2>2. CASE i # Len(stack)
    <3>1. i \in 1..Len(stack) - 1
      BY <1>1, <2>2, BelowOrTop
    <3>2. stack'[i] = stack[i]
      BY <3>1 DEF Replaces
    <3>3. stack[i].value \in Held
      BY <1>1 DEF ShapeInv
    <3> QED
      BY <3>2, <3>3 DEF SameBut
  <2> QED
    BY <2>1, <2>2
<1>4. stack'[1].where = <<>>
  <2>1. CASE Len(stack) = 1
    BY <1>1, <1>2, <2>1 DEF ShapeInv, WalkInv, BottomInv
  <2>2. CASE Len(stack) # 1
    BY <1>1, <2>2 DEF Replaces, ShapeInv
  <2> QED
    BY <2>1, <2>2
<1>5. \A i \in 1..Len(stack) : i > 1 => On(stack'[i], stack'[i - 1])
  <2> SUFFICES ASSUME NEW i \in 1..Len(stack), i > 1 PROVE On(stack'[i], stack'[i - 1])
    OBVIOUS
  <2>1. i - 1 \in 1..Len(stack)
    BY <1>1
  <2>2. On(stack[i], stack[i - 1])
    BY <1>1 DEF ShapeInv
  <2>3. SameBut(stack'[i], stack[i]) /\ SameBut(stack'[i - 1], stack[i - 1])
    BY <1>3, <2>1
  <2> QED
    BY <2>2, <2>3 DEF On, SameBut
<1> QED
  BY <1>1, <1>2, <1>3, <1>4, <1>5 DEF ShapeInv, SameBut

LEMMA ShapeExtends ==
  ASSUME WalkInv, ShapeInv, stack # <<>>, NEW g, NEW f, Extends(g, f), SameBut(g, Top),
         g.value \in Held, g.where = Top.where, On(f, Top), f.value \in Held,
         reader' = reader, outcome' = outcome
  PROVE ShapeInv'
<1>1. /\ Len(stack) \in Nat \ {0} /\ DOMAIN stack = 1..Len(stack) /\ Top = stack[Len(stack)]
      /\ reader # "idle"
  BY TopFacts DEF WalkInv, TypeInv
<1>2. DOMAIN stack' = 1..Len(stack) + 1 /\ stack'[Len(stack)] = g /\ stack'[Len(stack) + 1] = f
  BY DEF Extends
<1>3. ASSUME NEW i \in 1..Len(stack)
      PROVE SameBut(stack'[i], stack[i]) /\ stack'[i].value \in Held /\ stack'[i].where = stack[i].where
  <2>1. CASE i = Len(stack)
    BY <1>1, <1>2, <2>1
  <2>2. CASE i # Len(stack)
    <3>1. i \in 1..Len(stack) - 1
      BY <1>1, <2>2, BelowOrTop
    <3>2. stack'[i] = stack[i]
      BY <3>1 DEF Extends
    <3>3. stack[i].value \in Held
      BY <1>1 DEF ShapeInv
    <3> QED
      BY <3>2, <3>3 DEF SameBut
  <2> QED
    BY <2>1, <2>2
<1>4. \A i \in 1..Len(stack) + 1 : i > 1 => On(stack'[i], stack'[i - 1])
  <2> SUFFICES ASSUME NEW i \in 1..Len(stack) + 1, i > 1 PROVE On(stack'[i], stack'[i - 1])
    OBVIOUS
  <2>1. i - 1 \in 1..Len(stack)
    BY <1>1
  <2>2. CASE i = Len(stack) + 1
    <3>1. i - 1 = Len(stack)
      BY <1>1, <2>2
    <3>2. On(f, g)
      BY DEF On, SameBut
    <3> QED
      BY <1>2, <2>2, <3>1, <3>2
  <2>3. CASE i \in 1..Len(stack)
    <3>1. On(stack[i], stack[i - 1])
      BY <1>1, <2>3 DEF ShapeInv
    <3>2. SameBut(stack'[i], stack[i]) /\ SameBut(stack'[i - 1], stack[i - 1])
      BY <1>3, <2>1, <2>3
    <3> QED
      BY <3>1, <3>2 DEF On, SameBut
  <2> QED
    BY <1>1, <2>2, <2>3
<1>5. \A i \in 1..Len(stack) + 1 : stack'[i].value \in Held
  <2>1. \A i \in 1..Len(stack) + 1 : i \in 1..Len(stack) \/ i = Len(stack) + 1
    BY <1>1
  <2> QED
    BY <1>2, <1>3, <2>1
<1>6. stack'[1].visited /\ stack'[1].plain /\ stack'[1].where = <<>>
  BY <1>1, <1>3 DEF ShapeInv, SameBut
<1> QED
  BY <1>1, <1>2, <1>4, <1>5, <1>6 DEF ShapeInv

LEMMA ShapeDrops ==
  ASSUME WalkInv, ShapeInv, stack # <<>>, Len(stack) > 1, Drops, reader' = reader, outcome' = outcome
  PROVE ShapeInv'
<1>1. Len(stack) \in Nat \ {0} /\ DOMAIN stack = 1..Len(stack) /\ reader # "idle"
  BY TopFacts DEF WalkInv, TypeInv
<1>2. DOMAIN stack' = 1..Len(stack) - 1 /\ \A i \in 1..Len(stack) - 1 : stack'[i] = stack[i]
  BY DEF Drops
<1>3. \A i \in 1..Len(stack) - 1 :
        i \in 1..Len(stack) /\ (i > 1 => i - 1 \in 1..Len(stack) - 1)
  BY <1>1
<1>4. 1 \in 1..Len(stack) - 1
  BY <1>1
<1> QED
  BY <1>1, <1>2, <1>3, <1>4 DEF ShapeInv

\* The frames at the positions of a stack, as the steps change them.
LEMMA FramesReplaced ==
  ASSUME TypeInv, stack # <<>>, NEW g, Replaces(g)
  PROVE \A i \in DOMAIN stack' :
          i \in DOMAIN stack /\ stack'[i] = IF i = Len(stack) THEN g ELSE stack[i]
<1>1. Len(stack) \in Nat \ {0} /\ DOMAIN stack = 1..Len(stack)
  BY TopFacts
<1>2. DOMAIN stack' = 1..Len(stack) /\ stack'[Len(stack)] = g
      /\ \A i \in 1..Len(stack) - 1 : stack'[i] = stack[i]
  BY DEF Replaces
<1>3. \A i \in 1..Len(stack) : i = Len(stack) \/ i \in 1..Len(stack) - 1
  BY <1>1, BelowOrTop
<1> QED
  BY <1>1, <1>2, <1>3

LEMMA FramesExtended ==
  ASSUME TypeInv, stack # <<>>, NEW g, NEW f, Extends(g, f)
  PROVE /\ Len(stack) + 1 \in DOMAIN stack' /\ stack'[Len(stack) + 1] = f
        /\ \A i \in DOMAIN stack' : i = Len(stack) + 1 \/ i \in DOMAIN stack
        /\ \A i \in DOMAIN stack :
             i \in DOMAIN stack' /\ i # Len(stack) + 1
             /\ stack'[i] = IF i = Len(stack) THEN g ELSE stack[i]
<1>1. Len(stack) \in Nat \ {0} /\ DOMAIN stack = 1..Len(stack)
  BY TopFacts
<1>2. /\ DOMAIN stack' = 1..Len(stack) + 1 /\ stack'[Len(stack)] = g /\ stack'[Len(stack) + 1] = f
      /\ \A i \in 1..Len(stack) - 1 : stack'[i] = stack[i]
  BY DEF Extends
<1>3. \A i \in 1..Len(stack) : i = Len(stack) \/ i \in 1..Len(stack) - 1
  BY <1>1, BelowOrTop
<1>4. /\ \A i \in 1..Len(stack) + 1 : i = Len(stack) + 1 \/ i \in 1..Len(stack)
      /\ \A i \in 1..Len(stack) : i \in 1..Len(stack) + 1 /\ i # Len(stack) + 1
      /\ Len(stack) + 1 \in 1..Len(stack) + 1
  BY <1>1
<1>5. \A i \in DOMAIN stack : stack'[i] = IF i = Len(stack) THEN g ELSE stack[i]
  BY <1>1, <1>2, <1>3
<1> QED
  BY <1>1, <1>2, <1>4, <1>5

LEMMA FramesDropped ==
  ASSUME TypeInv, stack # <<>>, Drops
  PROVE \A i \in DOMAIN stack' :
          i \in DOMAIN stack /\ i # Len(stack) /\ i < Len(stack) /\ stack'[i] = stack[i]
<1>1. Len(stack) \in Nat \ {0} /\ DOMAIN stack = 1..Len(stack)
  BY TopFacts
<1>2. DOMAIN stack' = 1..Len(stack) - 1 /\ \A i \in 1..Len(stack) - 1 : stack'[i] = stack[i]
  BY DEF Drops
<1>3. \A i \in 1..Len(stack) - 1 : i \in 1..Len(stack) /\ i # Len(stack) /\ i < Len(stack)
  BY <1>1, BelowTop
<1> QED
  BY <1>1, <1>2, <1>3

LEMMA BeforeTypes ==
  ASSUME TypeInv
  PROVE \A i \in DOMAIN stack : i \in Nat \ {0} /\ stack[i] \in FrameType /\ stack[i].before \in Nat
<1>1. stack \in Seq(FrameType)
  BY DEF TypeInv
<1>2. \A i \in DOMAIN stack : i \in Nat \ {0} /\ stack[i] \in FrameType
  BY <1>1
<1> QED
  BY <1>2 DEF FrameType

LEMMA OpenedReplaces ==
  ASSUME WalkInv, OpenedInv, stack # <<>>, NEW g, Replaces(g), SameBut(g, Top),
         ctx'.opened \in Nat, ctx.opened <= ctx'.opened
  PROVE OpenedInv'
<1>1. TypeInv /\ Top = stack[Len(stack)] /\ ctx.opened \in Nat
  BY TopFacts DEF WalkInv
<1>2. \A i \in DOMAIN stack' :
        i \in DOMAIN stack /\ stack'[i].before = stack[i].before
        /\ stack'[i].visited = stack[i].visited /\ stack'[i].kind = stack[i].kind
  BY <1>1, FramesReplaced DEF SameBut
<1>3. \A i \in DOMAIN stack : stack[i].before \in Nat
  BY <1>1, BeforeTypes
<1>4. \A i \in DOMAIN stack' : stack'[i].before <= ctx'.opened
  BY <1>1, <1>2, <1>3 DEF OpenedInv
<1>5. \A i, j \in DOMAIN stack' : (j < i /\ stack'[i].visited) => stack'[j].before < ctx'.opened
  BY <1>1, <1>2, <1>3 DEF OpenedInv
<1>6. \A i \in DOMAIN stack' :
        (stack'[i].kind \in DOMAIN SlotOf /\ stack'[i].visited) => stack'[i].before < ctx'.opened
  BY <1>1, <1>2, <1>3 DEF OpenedInv
<1> QED
  BY <1>4, <1>5, <1>6 DEF OpenedInv

LEMMA OpenedExtends ==
  ASSUME WalkInv, OpenedInv, stack # <<>>, NEW g, NEW f, Extends(g, f), SameBut(g, Top),
         ctx'.opened \in Nat, ctx.opened <= ctx'.opened, f.before = ctx.opened,
         f.visited => \A j \in DOMAIN stack : stack[j].before < ctx'.opened,
         (f.kind \in DOMAIN SlotOf /\ f.visited) => f.before < ctx'.opened
  PROVE OpenedInv'
<1>1. TypeInv /\ Top = stack[Len(stack)] /\ ctx.opened \in Nat /\ Len(stack) \in Nat
      /\ DOMAIN stack = 1..Len(stack)
  BY TopFacts DEF WalkInv
<1>2. \A i \in DOMAIN stack :
        stack'[i].before = stack[i].before
        /\ stack'[i].visited = stack[i].visited /\ stack'[i].kind = stack[i].kind
  BY <1>1, FramesExtended DEF SameBut
<1>3. \A i \in DOMAIN stack : stack[i].before \in Nat
  BY <1>1, BeforeTypes
<1>4. /\ stack'[Len(stack) + 1] = f
      /\ \A i \in DOMAIN stack' : i = Len(stack) + 1 \/ i \in DOMAIN stack
  BY <1>1, FramesExtended
<1>5. \A i \in DOMAIN stack' : stack'[i].before <= ctx'.opened
  BY <1>1, <1>2, <1>3, <1>4 DEF OpenedInv
<1>6. \A i, j \in DOMAIN stack' : (j < i /\ stack'[i].visited) => stack'[j].before < ctx'.opened
  <2> SUFFICES ASSUME NEW i \in DOMAIN stack', NEW j \in DOMAIN stack', j < i, stack'[i].visited
               PROVE stack'[j].before < ctx'.opened
    OBVIOUS
  <2>1. j \in DOMAIN stack
    BY <1>1, <1>4
  <2>2. CASE i = Len(stack) + 1
    BY <1>2, <1>4, <2>1, <2>2
  <2>3. CASE i \in DOMAIN stack
    BY <1>1, <1>2, <1>3, <2>1, <2>3 DEF OpenedInv
  <2> QED
    BY <1>4, <2>2, <2>3
<1>7. \A i \in DOMAIN stack' :
        (stack'[i].kind \in DOMAIN SlotOf /\ stack'[i].visited) => stack'[i].before < ctx'.opened
  BY <1>1, <1>2, <1>3, <1>4 DEF OpenedInv
<1> QED
  BY <1>5, <1>6, <1>7 DEF OpenedInv

LEMMA OpenedDrops ==
  ASSUME WalkInv, OpenedInv, stack # <<>>, Drops, ctx'.opened = ctx.opened
  PROVE OpenedInv'
<1>1. \A i \in DOMAIN stack' : i \in DOMAIN stack /\ stack'[i] = stack[i]
  BY FramesDropped DEF WalkInv
<1> QED
  BY <1>1 DEF OpenedInv
-----------------------------------------------------------------------------
(***************************************************************************)
(* What the steps do to the frames                                         *)
(***************************************************************************)
FrameInv == WalkInv /\ ShapeInv /\ OpenedInv

\* A value is opened: the slot on top notes its kind, and a frame of that kind is put on it.
LEMMA OpenValueFrames ==
  ASSUME WalkInv, ShapeInv, NEW k \in {"record", "optional", "text_map", "opaque"}, OpenValue(k)
  PROVE \E g, f :
          /\ SameBut(g, Top) /\ g.where = Top.where /\ g.labelled = Top.labelled
          /\ g.value = Container(k) /\ g.value \in Held
          /\ k = "opaque" => Replaces(g)
          /\ k # "opaque" =>
               /\ Extends(g, f) /\ f \in FrameType
               /\ f.kind = k /\ f.visited = Enters(k) /\ f.where = Where(Top)
               /\ f.plain = (Top.plain /\ k = "record") /\ f.before = ctx.opened /\ ~f.labelled
               /\ f.value = NoValue /\ f.value \in Held /\ On(f, Top)
<1>1. TypeInv
  BY DEF WalkInv
<1>2. stack # <<>> /\ Top.kind \in Slots /\ Enters(k) \in BOOLEAN
  BY <1>1, OpenValueStack
<1>3. Top \in FrameType /\ ctx.path \in Path /\ ctx.opened \in Nat /\ Top.plain \in BOOLEAN
  BY <1>1, <1>2, TopFacts
<1>4. PICK e \in BOOLEAN : e = Enters(k)
  BY <1>2
<1>5. PICK p \in BOOLEAN : p = (Top.plain /\ k = "record")
  OBVIOUS
<1>6. PICK w \in Seq(Labels \cup {"?"}) : w = Where(Top)
  BY <1>3, WhereType
<1> PICK v \in Leaf : v = Container(k)
  BY LeafTypes
<1>7. PICK g : g = [Top EXCEPT !.value = v]
  OBVIOUS
<1>8. PICK f : f = Frame(k, e, w, p)
  OBVIOUS
<1>9. /\ k = "opaque" => Replaces(g)
      /\ k # "opaque" => Extends(g, f) /\ f \in FrameType
  BY <1>1, <1>4, <1>5, <1>6, <1>7, <1>8, OpenValueStack
<1>10. /\ SameBut(g, Top) /\ g.where = Top.where /\ g.labelled = Top.labelled
       /\ g.value = Container(k)
  BY <1>3, <1>7 DEF FrameType, SameBut
<1>11. /\ f.kind = k /\ f.visited = e /\ f.where = w /\ f.plain = p
       /\ f.before = ctx.opened /\ ~f.labelled /\ f.value = NoValue
  BY <1>8 DEF Frame
<1>12. Container(k) \in Held /\ NoValue \in Held
  BY HeldValues
<1>13. e => Top.visited
  BY <1>4 DEF Enters
<1>14. k # "opaque" => On(f, Top)
  BY <1>2, <1>3, <1>5, <1>11, <1>13, Kinds DEF On
<1> QED
  BY <1>4, <1>5, <1>6, <1>9, <1>10, <1>11, <1>12, <1>14

\* A slot begins on the container on top.
LEMMA OpenSlotFrames ==
  ASSUME WalkInv, ShapeInv, OpenSlot
  PROVE /\ Len(stack) > 1 /\ On(Top, stack[Len(stack) - 1]) /\ Top.kind \in DOMAIN SlotOf
        /\ \E g, f :
             /\ SameBut(g, Top) /\ g.where = Top.where /\ g.labelled = Top.labelled
             /\ g.value = Container("slots") /\ g.value \in Held /\ Extends(g, f) /\ f \in FrameType
             /\ f.kind = SlotOf[Top.kind] /\ f.kind \in Slots /\ f.visited = EntersSlot
             /\ f.where = Top.where /\ f.plain = Top.plain /\ f.parent = ctx.path
             /\ f.before = ctx.opened /\ ~f.labelled
             /\ f.value = NoValue /\ f.value \in Held /\ On(f, Top)
<1>1. TypeInv
  BY DEF WalkInv
<1>2. /\ stack # <<>> /\ Top.kind \in DOMAIN SlotOf /\ EntersSlot \in BOOLEAN
      /\ SlotOf[Top.kind] \in Slots \ {"argument"}
  BY <1>1, OpenSlotStack
<1>3. /\ Top \in FrameType /\ ctx.path \in Path /\ ctx.opened \in Nat /\ Top.plain \in BOOLEAN
      /\ Top = stack[Len(stack)] /\ Len(stack) \in Nat \ {0} /\ DOMAIN stack = 1..Len(stack)
  BY <1>1, <1>2, TopFacts
<1>4. PICK e \in BOOLEAN : e = EntersSlot
  BY <1>2
<1> PICK v \in Leaf : v = Container("slots")
  BY LeafTypes
<1>5. PICK g : g = [Top EXCEPT !.value = v]
  OBVIOUS
<1>6. PICK f : f = Frame(SlotOf[Top.kind], e, Top.where, Top.plain)
  OBVIOUS
<1>7. Extends(g, f) /\ f \in FrameType
  BY <1>1, <1>4, <1>5, <1>6, OpenSlotStack
<1>8. /\ SameBut(g, Top) /\ g.where = Top.where /\ g.labelled = Top.labelled
      /\ g.value = Container("slots")
  BY <1>3, <1>5 DEF FrameType, SameBut
<1>9. /\ f.kind = SlotOf[Top.kind] /\ f.visited = e /\ f.where = Top.where
      /\ f.plain = Top.plain /\ f.parent = ctx.path /\ f.before = ctx.opened /\ ~f.labelled
      /\ f.value = NoValue
  BY <1>6 DEF Frame
<1>10. Container("slots") \in Held /\ NoValue \in Held
  BY HeldValues
<1>11. Len(stack) > 1
  BY <1>2, <1>3, Kinds DEF WalkInv, BottomInv, Slots
<1>12. On(Top, stack[Len(stack) - 1])
  BY <1>3, <1>11 DEF ShapeInv
<1>13. e => Top.visited
  BY <1>4 DEF EntersSlot
<1>14. On(f, Top)
  <2>1. Top.plain => Top.kind = "record"
    BY <1>2, <1>12, Kinds DEF On
  <2> QED
    BY <1>2, <1>9, <1>13, <2>1, Kinds DEF On
<1> QED
  BY <1>2, <1>4, <1>7, <1>8, <1>9, <1>10, <1>11, <1>12, <1>14

LEMMA OpenValueFrameInv ==
  ASSUME FrameInv, NEW k \in {"record", "optional", "text_map", "opaque"}, OpenValue(k)
  PROVE FrameInv'
<1>1. WalkInv /\ ShapeInv /\ OpenedInv /\ TypeInv
  BY DEF FrameInv, WalkInv
<1>2. stack # <<>> /\ Enters(k) \in BOOLEAN
  BY <1>1, OpenValueStack
<1>3. PICK g, f :
        /\ SameBut(g, Top) /\ g.where = Top.where /\ g.value \in Held
        /\ k = "opaque" => Replaces(g)
        /\ k # "opaque" =>
             /\ Extends(g, f) /\ f.visited = Enters(k) /\ f.before = ctx.opened /\ f.value \in Held
             /\ On(f, Top)
  BY <1>1, OpenValueFrames
<1>4. ctx'.opened = IF Enters(k) THEN ctx.opened + 1 ELSE ctx.opened
  BY <1>1, OpenValueContext
<1>5. reader' = reader /\ outcome' = outcome
  BY DEF OpenValue
<1>6. ctx.opened \in Nat /\ \A i \in DOMAIN stack : stack[i].before \in Nat
  BY <1>1, <1>2, TopFacts, BeforeTypes
<1>7. WalkInv'
  BY <1>1, OpenValueWalk
<1>8. ctx'.opened \in Nat /\ ctx.opened <= ctx'.opened /\ (Enters(k) => ctx'.opened = ctx.opened + 1)
  BY <1>2, <1>4, <1>6
<1>9. CASE k = "opaque"
  <2>1. Replaces(g) /\ SameBut(g, Top) /\ g.where = Top.where /\ g.value \in Held
    BY <1>3, <1>9
  <2>2. ShapeInv'
    BY <1>1, <1>2, <1>5, <2>1, ShapeReplaces
  <2>3. OpenedInv'
    BY <1>1, <1>2, <1>8, <2>1, OpenedReplaces
  <2> QED
    BY <1>7, <2>2, <2>3 DEF FrameInv
<1>10. CASE k # "opaque"
  <2>1. ShapeInv'
    BY <1>1, <1>2, <1>3, <1>5, <1>10, ShapeExtends
  <2> f.visited => ctx'.opened = ctx.opened + 1
    BY <1>3, <1>8, <1>10
  <2>2. f.visited => \A j \in DOMAIN stack : stack[j].before < ctx'.opened
    BY <1>1, <1>6 DEF OpenedInv
  <2>3. f.visited => f.before < ctx'.opened
    BY <1>3, <1>6, <1>10
  <2>4. OpenedInv'
    BY <1>1, <1>2, <1>3, <1>8, <1>10, <2>2, <2>3, OpenedExtends
  <2> QED
    BY <1>7, <2>1, <2>4 DEF FrameInv
<1> QED
  BY <1>9, <1>10

LEMMA OpenSlotFrameInv ==
  ASSUME FrameInv, OpenSlot
  PROVE FrameInv'
<1>1. WalkInv /\ ShapeInv /\ OpenedInv /\ TypeInv
  BY DEF FrameInv, WalkInv
<1>2. stack # <<>> /\ Top.kind \in DOMAIN SlotOf
  BY <1>1, OpenSlotStack
<1>3. PICK g, f :
        /\ SameBut(g, Top) /\ g.where = Top.where /\ g.value \in Held /\ Extends(g, f)
        /\ f.kind \in Slots /\ f.before = ctx.opened /\ f.value \in Held /\ On(f, Top)
  BY <1>1, OpenSlotFrames
<1>4. ctx' = ctx /\ reader' = reader /\ outcome' = outcome
  BY DEF OpenSlot
<1>5. /\ ctx.opened \in Nat /\ Len(stack) \in Nat \ {0} /\ DOMAIN stack = 1..Len(stack)
      /\ Top = stack[Len(stack)] /\ \A i \in DOMAIN stack : stack[i].before \in Nat
  BY <1>1, <1>2, TopFacts, BeforeTypes
<1>6. WalkInv'
  BY <1>1, OpenSlotWalk
<1>7. ShapeInv'
  BY <1>1, <1>2, <1>3, <1>4, ShapeExtends
<1>8. f.visited => \A j \in DOMAIN stack : stack[j].before < ctx'.opened
  <2> SUFFICES ASSUME f.visited, NEW j \in DOMAIN stack PROVE stack[j].before < ctx.opened
    BY <1>4
  <2>1. Top.visited
    BY <1>3 DEF On
  <2>2. CASE j = Len(stack)
    BY <1>1, <1>2, <1>5, <2>1, <2>2 DEF OpenedInv
  <2>3. CASE j # Len(stack)
    <3>1. j < Len(stack)
      BY <1>5, <2>3, BelowOrTop, BelowTop
    <3>2. Len(stack) \in DOMAIN stack
      BY <1>5
    <3> QED
      BY <1>1, <1>5, <2>1, <3>1, <3>2 DEF OpenedInv
  <2> QED
    BY <2>2, <2>3
<1>9. f.kind \notin DOMAIN SlotOf
  BY <1>3, Kinds
<1>10. ctx'.opened \in Nat /\ ctx.opened <= ctx'.opened
  BY <1>4, <1>5
<1>11. OpenedInv'
  BY <1>1, <1>2, <1>3, <1>8, <1>9, <1>10, OpenedExtends
<1> QED
  BY <1>6, <1>7, <1>11 DEF FrameInv

\* The steps that change only the frame on top: a scalar, a record id, a label.
LEMMA ScalarFrames ==
  ASSUME WalkInv, NEW leaf \in Leaves, Scalar(leaf)
  PROVE /\ stack # <<>> /\ Top.kind \in Slots /\ ctx' = ctx
        /\ \E g : /\ Replaces(g) /\ SameBut(g, Top) /\ g.where = Top.where /\ g.labelled = Top.labelled
                  /\ g.value = leaf /\ g.value \in Held
<1>1. stack # <<>> /\ Top.kind \in Slots /\ ctx' = ctx
  BY DEF Scalar, InSlot
<1>2. Top \in FrameType
  BY <1>1, TopFacts DEF WalkInv
<1>3. PICK g : g = [Top EXCEPT !.value = leaf]
  OBVIOUS
<1>4. Replaces(g)
  BY <1>3, ScalarWalk
<1>5. SameBut(g, Top) /\ g.where = Top.where /\ g.labelled = Top.labelled /\ g.value = leaf
  BY <1>2, <1>3 DEF FrameType, SameBut
<1> QED
  BY <1>1, <1>4, <1>5, HeldValues

LEMMA RecordIdFrames ==
  ASSUME WalkInv, ShapeInv, NEW chooses \in BOOLEAN, RecordId(chooses)
  PROVE /\ stack # <<>> /\ Top.kind = "record"
        /\ \E g : /\ Replaces(g) /\ SameBut(g, Top) /\ g.where = Top.where
                  /\ g.value = Top.value /\ g.value \in Held
<1>1. stack # <<>> /\ Top.kind = "record" /\ Replaces([Top EXCEPT !.labelled = TRUE]) /\ TypeInv
  BY RecordIdEffect DEF WalkInv
<1>2. Top \in FrameType /\ Top = stack[Len(stack)] /\ Len(stack) \in DOMAIN stack
  BY <1>1, TopFacts
<1>3. PICK g : g = [Top EXCEPT !.labelled = TRUE]
  OBVIOUS
<1>4. SameBut(g, Top) /\ g.where = Top.where /\ g.value = Top.value
  BY <1>2, <1>3 DEF FrameType, SameBut
<1>5. Top.value \in Held
  BY <1>2 DEF ShapeInv
<1> QED
  BY <1>1, <1>3, <1>4, <1>5

LEMMA LabelFrames ==
  ASSUME WalkInv, ShapeInv, NEW l \in Labels \cup {"?"}, Label(l)
  PROVE /\ stack # <<>> /\ Top.kind \in Named /\ ~Top.labelled
        /\ \E g : /\ Replaces(g) /\ SameBut(g, Top) /\ g.where = Append(Top.where, l)
                  /\ g.labelled /\ g.value = Top.value /\ g.value \in Held
<1> TypeInv
  BY DEF WalkInv
<1>1. /\ stack # <<>> /\ Top.kind \in {"field", "entry"} /\ ~Top.labelled
      /\ Replaces([Top EXCEPT !.labelled = TRUE, !.where = Append(@, l)])
  BY LabelEffect, Zenon
<1>2. Top \in FrameType /\ Top = stack[Len(stack)] /\ Len(stack) \in DOMAIN stack
  BY <1>1, TopFacts
<1> PICK w : w = Append(Top.where, l)
  OBVIOUS
<1>3. PICK g : g = [Top EXCEPT !.labelled = TRUE, !.where = w]
  OBVIOUS
<1>4. SameBut(g, Top) /\ g.where = w /\ g.labelled /\ g.value = Top.value
  BY <1>2, <1>3 DEF FrameType, SameBut
<1>5. Top.value \in Held
  BY <1>2 DEF ShapeInv
<1> QED
  BY <1>1, <1>3, <1>4, <1>5 DEF Named

LEMMA ScalarFrameInv ==
  ASSUME FrameInv, NEW leaf \in Leaves, Scalar(leaf)
  PROVE FrameInv'
<1>1. WalkInv /\ ShapeInv /\ OpenedInv /\ TypeInv
  BY DEF FrameInv, WalkInv
<1>2. stack # <<>> /\ ctx' = ctx
  BY <1>1, ScalarFrames
<1>3. PICK g : Replaces(g) /\ SameBut(g, Top) /\ g.where = Top.where /\ g.value \in Held
  BY <1>1, ScalarFrames
<1>4. reader' = reader /\ outcome' = outcome
  BY DEF Scalar
<1>5. ctx'.opened \in Nat /\ ctx.opened <= ctx'.opened
  BY <1>1, <1>2, TopFacts
<1>6. ShapeInv'
  BY <1>1, <1>2, <1>3, <1>4, ShapeReplaces
<1>7. OpenedInv'
  BY <1>1, <1>2, <1>3, <1>5, OpenedReplaces
<1> QED
  BY <1>1, <1>6, <1>7, ScalarWalk DEF FrameInv

LEMMA RecordIdFrameInv ==
  ASSUME FrameInv, NEW chooses \in BOOLEAN, RecordId(chooses)
  PROVE FrameInv'
<1>1. WalkInv /\ ShapeInv /\ OpenedInv /\ TypeInv
  BY DEF FrameInv, WalkInv
<1>2. stack # <<>> /\ ctx'.opened = ctx.opened
  BY <1>1, RecordIdEffect
<1>3. PICK g : Replaces(g) /\ SameBut(g, Top) /\ g.where = Top.where /\ g.value \in Held
  BY <1>1, RecordIdFrames
<1>4. reader' = reader /\ outcome' = outcome
  BY DEF RecordId
<1>5. ctx'.opened \in Nat /\ ctx.opened <= ctx'.opened
  BY <1>1, <1>2, TopFacts
<1>6. ShapeInv'
  BY <1>1, <1>2, <1>3, <1>4, ShapeReplaces
<1>7. OpenedInv'
  BY <1>1, <1>2, <1>3, <1>5, OpenedReplaces
<1> QED
  BY <1>1, <1>6, <1>7, RecordIdWalk DEF FrameInv

LEMMA LabelFrameInv ==
  ASSUME FrameInv, NEW l \in Labels \cup {"?"}, Label(l)
  PROVE FrameInv'
<1>1. WalkInv /\ ShapeInv /\ OpenedInv /\ TypeInv
  BY DEF FrameInv, WalkInv
<1>2. stack # <<>> /\ Top.kind # "argument"
  BY <1>1, LabelFrames DEF Named
<1>3. PICK g : Replaces(g) /\ SameBut(g, Top) /\ g.value \in Held
  BY <1>1, LabelFrames
<1>4. reader' = reader /\ outcome' = outcome
  BY DEF Label
<1>5. ctx'.opened = ctx.opened
  <2>1. \/ ctx' = ctx
        \/ Reading(ctx, ctx', Top.before, l, <<l>>, EscapedWidth(l))
        \/ Reading(ctx, ctx', Top.before, l, Segments[l], Width[l])
    BY <1>1, <1>2, LabelEffect, TopFacts, Zenon
  <2> QED
    BY <2>1 DEF Reading
<1>6. ctx'.opened \in Nat /\ ctx.opened <= ctx'.opened
  BY <1>1, <1>2, <1>5, TopFacts
<1>7. ShapeInv'
  BY <1>1, <1>2, <1>3, <1>4, ShapeReplaces
<1>8. OpenedInv'
  BY <1>1, <1>2, <1>3, <1>6, OpenedReplaces
<1> QED
  BY <1>1, <1>7, <1>8, LabelWalk DEF FrameInv

LEMMA CloseSlotFrameInv ==
  ASSUME FrameInv, NEW memory \in BOOLEAN, CloseSlot(memory)
  PROVE FrameInv'
<1>1. WalkInv /\ ShapeInv /\ OpenedInv /\ TypeInv
  BY DEF FrameInv, WalkInv
<1>2. stack # <<>> /\ Len(stack) > 1 /\ Drops /\ ctx'.opened = ctx.opened
  BY <1>1, CloseSlotEffect, Zenon
<1>3. reader' = reader /\ outcome' = outcome
  BY Zenon DEF CloseSlot
<1> QED
  BY <1>1, <1>2, <1>3, CloseSlotWalk, ShapeDrops, OpenedDrops DEF FrameInv

LEMMA CloseValueFrameInv ==
  ASSUME FrameInv, CloseValue
  PROVE FrameInv'
<1>1. WalkInv /\ ShapeInv /\ OpenedInv
  BY DEF FrameInv
<1>2. stack # <<>> /\ Len(stack) > 1 /\ Drops /\ ctx'.opened = ctx.opened
  BY <1>1, CloseValueEffect
<1>3. reader' = reader /\ outcome' = outcome
  BY DEF CloseValue
<1> QED
  BY <1>1, <1>2, <1>3, CloseValueWalk, ShapeDrops, OpenedDrops DEF FrameInv

\* A walk begins in a visited, empty argument, with nothing opened.
LEMMA BeginFrames ==
  ASSUME NEW r \in {"display", "holding"}, NEW tracked \in BOOLEAN, Begin(r, tracked)
  PROVE /\ DOMAIN stack' = {1} /\ Len(stack') = 1 /\ Top' = stack'[1]
        /\ stack'[1].kind = "argument" /\ stack'[1].visited /\ stack'[1].plain
        /\ stack'[1].where = <<>> /\ stack'[1].before = 0 /\ stack'[1].value = NoValue
        /\ ~stack'[1].labelled
        /\ reader' = r /\ outcome' = NoOutcome /\ truth' = NoTruth
        /\ misplaced' = FALSE /\ cut' = FALSE
        /\ ctx'.opened = 0 /\ ctx'.path = EmptyPath /\ ctx'.depth = 0 /\ ~ctx'.unreadable
        /\ r = "display" => ~ctx'.active
        /\ r = "holding" =>
             ctx'.active /\ ctx'.tracked /\ \A n \in HoldingNames : ctx'.fields[n] = Unmatched
<1>1. PICK f : f = [kind |-> "argument", visited |-> TRUE, where |-> <<>>, plain |-> TRUE,
                    parent |-> EmptyPath, before |-> 0, labelled |-> FALSE, value |-> NoValue]
  OBVIOUS
<1>2. stack' = <<f>>
  BY <1>1 DEF Begin
<1>3. DOMAIN stack' = {1} /\ Len(stack') = 1 /\ stack'[1] = f /\ Top' = f
  BY <1>2 DEF Top
<1>4. /\ f.kind = "argument" /\ f.visited /\ f.plain /\ f.where = <<>> /\ f.before = 0
      /\ f.value = NoValue /\ ~f.labelled
  BY <1>1
<1>5. /\ reader' = r /\ outcome' = NoOutcome /\ truth' = NoTruth
      /\ misplaced' = FALSE /\ cut' = FALSE
  BY DEF Begin
<1>6. CASE r = "display"
  BY <1>3, <1>4, <1>5, <1>6 DEF Begin, NewContext
<1>7. CASE r = "holding"
  BY <1>3, <1>4, <1>5, <1>7 DEF Begin, NewContext
<1> QED
  BY <1>6, <1>7

LEMMA BeginFrameInv ==
  ASSUME FrameInv, NEW r \in {"display", "holding"}, NEW tracked \in BOOLEAN, Begin(r, tracked)
  PROVE FrameInv'
<1>1. WalkInv'
  BY BeginWalk DEF FrameInv
<1>2. /\ DOMAIN stack' = {1} /\ stack'[1].kind = "argument" /\ stack'[1].visited /\ stack'[1].plain
      /\ stack'[1].where = <<>> /\ stack'[1].before = 0 /\ stack'[1].value = NoValue
      /\ outcome' = NoOutcome /\ ctx'.opened = 0
  BY BeginFrames, Zenon
<1>3. ShapeInv'
  BY <1>2, HeldValues DEF ShapeInv
<1>4. OpenedInv'
  BY <1>2, Kinds DEF OpenedInv
<1> QED
  BY <1>1, <1>3, <1>4 DEF FrameInv

LEMMA EndFrameInv ==
  ASSUME FrameInv, NEW kind \in {"shown", "failed", "refused", "unmatched", "reported", "unreadable",
                                 "unparsed"}, End(kind)
  PROVE FrameInv'
<1>1. WalkInv'
  BY EndWalk DEF FrameInv
<1>2. stack' = <<>> /\ reader' = "idle"
  BY DEF End
<1>3. DOMAIN stack' = {}
  BY <1>2
<1> QED
  BY <1>1, <1>2, <1>3 DEF FrameInv, ShapeInv, OpenedInv

LEMMA StutterFrameInv ==
  ASSUME FrameInv, UNCHANGED vars
  PROVE FrameInv'
BY StutterWalk DEF FrameInv, ShapeInv, OpenedInv, vars

LEMMA NextFrameInv == FrameInv /\ [Next]_vars => FrameInv'
<1> SUFFICES ASSUME FrameInv, [Next]_vars PROVE FrameInv'
  OBVIOUS
<1>1. TypeInv
  BY DEF FrameInv, WalkInv
<1>2. ASSUME NEW r \in {"display", "holding"}, NEW tracked \in BOOLEAN, Begin(r, tracked) PROVE FrameInv'
  BY <1>2, BeginFrameInv
<1>3. ASSUME NEW k \in {"record", "optional", "text_map", "opaque"}, OpenValue(k) PROVE FrameInv'
  BY <1>3, OpenValueFrameInv
<1>4. ASSUME NEW chooses \in BOOLEAN, RecordId(chooses) PROVE FrameInv'
  BY <1>4, RecordIdFrameInv
<1>5. CASE OpenSlot
  BY <1>5, OpenSlotFrameInv
<1>6. ASSUME NEW leaf \in Leaves, Scalar(leaf) PROVE FrameInv'
  BY <1>6, ScalarFrameInv
<1>7. ASSUME NEW l \in Labels \cup {"?"}, Label(l) PROVE FrameInv'
  BY <1>7, LabelFrameInv
<1>8. ASSUME NEW memory \in BOOLEAN, CloseSlot(memory) PROVE FrameInv'
  BY <1>8, CloseSlotFrameInv
<1>9. CASE CloseValue
  BY <1>9, CloseValueFrameInv
<1>10. ASSUME NEW starved \in SUBSET DisplayNames, Finish(starved) PROVE FrameInv'
  BY <1>1, <1>10, FinishKinds, EndFrameInv
<1>11. CASE DecodeFails
  BY <1>11, DecodeFailsKinds, EndFrameInv
<1>12. CASE UNCHANGED vars
  BY <1>12, StutterFrameInv
<1> QED
  BY <1>2, <1>3, <1>4, <1>5, <1>6, <1>7, <1>8, <1>9, <1>10, <1>11, <1>12 DEF Next

LEMMA InitFrameInv == Init => FrameInv
<1> SUFFICES ASSUME Init PROVE FrameInv
  OBVIOUS
<1>1. stack = <<>> /\ reader = "idle" /\ DOMAIN stack = {}
  BY DEF Init
<1> QED
  BY <1>1, InitWalk DEF FrameInv, ShapeInv, OpenedInv

LEMMA FrameInvariance == Spec => []FrameInv
BY InitFrameInv, NextFrameInv, PTL DEF Spec

-----------------------------------------------------------------------------
(***************************************************************************)
(* Where the walk stands                                                   *)
(***************************************************************************)
\* A label that is owed stays owed while its frame stays.
LEMMA OwesOn ==
  ASSUME FrameInv, NEW i \in DOMAIN stack, Owes(stack[i], ctx.opened), i \in DOMAIN stack',
         SameBut(stack'[i], stack[i]), stack'[i].labelled = stack[i].labelled,
         ctx'.opened \in Nat, ctx.opened <= ctx'.opened
  PROVE Overdue'
<1>1. stack[i].before \in Nat /\ ctx.opened \in Nat /\ stack[i].before <= ctx.opened
  <2>1. TypeInv /\ OpenedInv
    BY DEF FrameInv, WalkInv
  <2>2. stack[i].before \in Nat
    BY <2>1, BeforeTypes
  <2>3. ctx.opened \in Nat
    BY <2>1 DEF TypeInv, Context
  <2> QED
    BY <2>1, <2>2, <2>3 DEF OpenedInv
<1>2. Owes(stack'[i], ctx'.opened)
  BY <1>1 DEF Owes, SameBut
<1> QED
  BY <1>2 DEF Overdue

\* A frame below the top, and the top, as frames of a stack.
LEMMA FrameFacts ==
  ASSUME TypeInv, stack # <<>>
  PROVE /\ Len(stack) \in Nat \ {0} /\ DOMAIN stack = 1..Len(stack) /\ Len(stack) \in DOMAIN stack
        /\ Top = stack[Len(stack)]
        /\ \A i \in DOMAIN stack : i \in Nat \ {0} /\ i <= Len(stack) /\ (i > 1 => i - 1 \in DOMAIN stack)
        /\ \A i \in DOMAIN stack : stack[i].visited \in BOOLEAN
<1>1. Len(stack) \in Nat \ {0} /\ DOMAIN stack = 1..Len(stack) /\ Top = stack[Len(stack)]
  BY TopFacts
<1>2. \A i \in 1..Len(stack) : i \in Nat \ {0} /\ i <= Len(stack) /\ (i > 1 => i - 1 \in 1..Len(stack))
  BY <1>1
<1>3. \A i \in 1..Len(stack) : stack[i].visited \in BOOLEAN
  BY TopFacts DEF FrameType
<1> QED
  BY <1>1, <1>2, <1>3

LEMMA StandsReplaces ==
  ASSUME FrameInv, StandsInv, stack # <<>>, NEW g, Replaces(g), SameBut(g, Top),
         g.where = Top.where, g.labelled = Top.labelled \/ g.kind \in DOMAIN SlotOf,
         ctx'.path = ctx.path, Clean' => Clean
  PROVE StandsInv'
<1>1. TypeInv /\ Top = stack[Len(stack)] /\ Len(stack) \in DOMAIN stack
  BY FrameFacts DEF FrameInv, WalkInv
<1>2. \A i \in DOMAIN stack' :
        /\ i \in DOMAIN stack /\ SameBut(stack'[i], stack[i]) /\ stack'[i].where = stack[i].where
        /\ stack'[i].labelled = stack[i].labelled \/ stack[i].kind \in DOMAIN SlotOf
  BY <1>1, FramesReplaced DEF SameBut
<1>3. NestedInv'
  BY <1>2 DEF StandsInv, NestedInv, SameBut
<1>4. Len(stack') = Len(stack) /\ Len(stack') \in DOMAIN stack' /\ DOMAIN stack' = DOMAIN stack
  BY <1>1 DEF Replaces, FrameInv, WalkInv, TypeInv
<1>5. Top' = g /\ stack'[Len(stack)] = g
  BY DEF Top, Replaces
<1>6. ASSUME NEW i \in DOMAIN stack', i > 1, Clean PROVE Linked(stack'[i], stack'[i - 1], ctx.path)
  <2>1. i \in DOMAIN stack /\ i - 1 \in DOMAIN stack'
    BY <1>1, <1>4, <1>6, FrameFacts
  <2>2. Linked(stack[i], stack[i - 1], ctx.path)
    BY <1>6, <2>1 DEF StandsInv, PathInv
  <2>3. /\ SameBut(stack'[i], stack[i]) /\ stack'[i].where = stack[i].where
        /\ stack'[i].labelled = stack[i].labelled \/ stack[i].kind \in DOMAIN SlotOf
        /\ SameBut(stack'[i - 1], stack[i - 1]) /\ stack'[i - 1].where = stack[i - 1].where
    BY <1>2, <2>1
  <2> QED
    BY <2>2, <2>3 DEF Linked, SameBut
<1>7. (Clean /\ Top'.visited) => ctx.path.labels = Top'.where
  BY <1>5 DEF StandsInv, PathInv, SameBut
<1> QED
  BY <1>3, <1>6, <1>7 DEF StandsInv, PathInv

LEMMA StandsExtends ==
  ASSUME FrameInv, StandsInv, stack # <<>>, NEW g, NEW f, Extends(g, f), SameBut(g, Top),
         g.where = Top.where, g.labelled = Top.labelled, f.visited => Top.visited,
         ctx'.path = ctx.path, Clean' => Clean,
         (Clean' /\ f.visited) =>
            f.where = Top.where /\ (f.kind \in Slots => f.parent.labels = Top.where)
  PROVE StandsInv'
<1>1. TypeInv /\ Top = stack[Len(stack)] /\ Len(stack) \in DOMAIN stack /\ Len(stack) \in Nat \ {0}
  BY FrameFacts DEF FrameInv, WalkInv
<1>2. /\ stack'[Len(stack) + 1] = f
      /\ \A i \in DOMAIN stack' : i = Len(stack) + 1 \/ i \in DOMAIN stack
      /\ \A i \in DOMAIN stack :
           /\ i # Len(stack) + 1 /\ SameBut(stack'[i], stack[i]) /\ stack'[i].where = stack[i].where
           /\ stack'[i].labelled = stack[i].labelled
  BY <1>1, FramesExtended DEF SameBut
<1>3. \A i \in DOMAIN stack : Top.visited => stack[i].visited
  BY <1>1, FrameFacts DEF StandsInv, NestedInv
<1>4. NestedInv'
  <2> SUFFICES ASSUME NEW i \in DOMAIN stack', NEW j \in DOMAIN stack', j < i, stack'[i].visited
               PROVE stack'[j].visited
    BY DEF NestedInv
  <2>1. j \in DOMAIN stack
    <3>1. i <= Len(stack) + 1
      BY <1>1, <1>2, FrameFacts
    <3> QED
      BY <1>1, <1>2, <3>1
  <2>2. CASE i = Len(stack) + 1
    BY <1>2, <1>3, <2>1, <2>2 DEF SameBut
  <2>3. CASE i \in DOMAIN stack
    BY <1>2, <2>1, <2>3 DEF StandsInv, NestedInv, SameBut
  <2> QED
    BY <1>2, <2>2, <2>3
<1>5. Len(stack') = Len(stack) + 1 /\ Top' = f
  BY <1>2 DEF Extends, Top
<1>6. Clean => (Top.visited => ctx.path.labels = Top.where)
  BY DEF StandsInv, PathInv
<1>7. ASSUME NEW i \in DOMAIN stack', i > 1, Clean' PROVE Linked(stack'[i], stack'[i - 1], ctx.path)
  <2>1. CASE i = Len(stack) + 1
    <3>1. i - 1 = Len(stack)
      BY <1>1, <2>1
    <3>2. Linked(f, Top, ctx.path)
      BY <1>6, <1>7 DEF Linked
    <3>3. SameBut(stack'[i - 1], Top) /\ stack'[i - 1].where = Top.where
      BY <1>1, <1>2, <3>1
    <3> QED
      BY <1>2, <2>1, <3>2, <3>3 DEF Linked, SameBut
  <2>2. CASE i \in DOMAIN stack
    <3>1. i - 1 \in DOMAIN stack
      BY <1>1, <1>7, <2>2, FrameFacts
    <3>2. Linked(stack[i], stack[i - 1], ctx.path)
      BY <1>7, <2>2 DEF StandsInv, PathInv
    <3>3. /\ SameBut(stack'[i], stack[i]) /\ stack'[i].where = stack[i].where
          /\ stack'[i].labelled = stack[i].labelled
          /\ SameBut(stack'[i - 1], stack[i - 1]) /\ stack'[i - 1].where = stack[i - 1].where
      BY <1>2, <2>2, <3>1
    <3> QED
      BY <3>2, <3>3 DEF Linked, SameBut
  <2> QED
    BY <1>2, <2>1, <2>2
<1>8. (Clean' /\ Top'.visited) => ctx.path.labels = Top'.where
  BY <1>5, <1>6
<1> QED
  BY <1>4, <1>7, <1>8 DEF StandsInv, PathInv

LEMMA StandsDrops ==
  ASSUME FrameInv, StandsInv, stack # <<>>, Len(stack) > 1, Drops, Clean' => Clean,
         ~Top.visited => ctx'.path = ctx.path,
         (Clean /\ Top.visited) => ctx'.path.labels = stack[Len(stack) - 1].where
  PROVE StandsInv'
<1>1. TypeInv /\ Top = stack[Len(stack)] /\ Len(stack) \in DOMAIN stack /\ Len(stack) \in Nat \ {0}
  BY FrameFacts DEF FrameInv, WalkInv
<1>2. \A i \in DOMAIN stack' : i \in DOMAIN stack /\ i < Len(stack) /\ stack'[i] = stack[i]
  BY <1>1, FramesDropped
<1>3. NestedInv'
  BY <1>2 DEF StandsInv, NestedInv
<1>4. /\ Len(stack') = Len(stack) - 1 /\ Len(stack) - 1 \in DOMAIN stack'
      /\ Top' = stack[Len(stack) - 1]
  BY <1>1 DEF Top, Drops
<1>5. \A i \in DOMAIN stack : Top.visited => stack[i].visited
  BY <1>1, FrameFacts DEF StandsInv, NestedInv
<1>6. Clean => Linked(Top, stack[Len(stack) - 1], ctx.path)
  BY <1>1 DEF StandsInv, PathInv
<1>7. (Clean /\ Top'.visited) => ctx'.path.labels = Top'.where
  BY <1>4, <1>6 DEF Linked
<1>8. ASSUME NEW i \in DOMAIN stack', i > 1, Clean PROVE Linked(stack'[i], stack'[i - 1], ctx'.path)
  <2>1. i - 1 \in DOMAIN stack' /\ i - 1 \in DOMAIN stack
    BY <1>1, <1>2, <1>4, <1>8, FrameFacts DEF Drops
  <2>2. Linked(stack[i], stack[i - 1], ctx.path)
    BY <1>2, <1>8 DEF StandsInv, PathInv
  <2>3. stack'[i] = stack[i] /\ stack'[i - 1] = stack[i - 1]
    BY <1>2, <2>1
  <2>4. CASE Top.visited
    BY <1>2, <1>5, <2>1, <2>2, <2>3, <2>4 DEF Linked
  <2>5. CASE ~Top.visited
    BY <2>2, <2>3, <2>5
  <2> QED
    BY <2>4, <2>5
<1> QED
  BY <1>3, <1>7, <1>8 DEF StandsInv, PathInv

LEMMA OpenValueStands ==
  ASSUME FrameInv, StandsInv, NEW k \in {"record", "optional", "text_map", "opaque"}, OpenValue(k)
  PROVE StandsInv' /\ (Clean' => Clean)
<1>1. WalkInv /\ ShapeInv /\ OpenedInv /\ TypeInv
  BY DEF FrameInv, WalkInv
<1>2. stack # <<>> /\ Enters(k) \in BOOLEAN
  BY <1>1, OpenValueStack
<1>3. PICK g, f :
        /\ SameBut(g, Top) /\ g.where = Top.where /\ g.labelled = Top.labelled
        /\ k = "opaque" => Replaces(g)
        /\ k # "opaque" =>
             /\ Extends(g, f) /\ f.kind = k /\ f.visited = Enters(k) /\ f.where = Where(Top)
             /\ On(f, Top)
  BY <1>1, OpenValueFrames
<1>4. /\ ctx'.active = ctx.active /\ ctx'.tracked = ctx.tracked /\ ctx'.path = ctx.path
      /\ ctx'.unreadable = ctx.unreadable
      /\ ctx'.opened = IF Enters(k) THEN ctx.opened + 1 ELSE ctx.opened
  BY <1>1, OpenValueContext
<1>5. /\ ctx.opened \in Nat /\ Top = stack[Len(stack)] /\ Len(stack) \in DOMAIN stack
      /\ \A i \in DOMAIN stack : stack[i].before \in Nat
  BY <1>1, <1>2, TopFacts, FrameFacts, BeforeTypes
<1>6. ctx'.opened \in Nat /\ ctx.opened <= ctx'.opened /\ (Enters(k) => ctx'.opened = ctx.opened + 1)
  BY <1>2, <1>4, <1>5
<1>7. \A i \in DOMAIN stack :
        i \in DOMAIN stack' /\ SameBut(stack'[i], stack[i]) /\ stack'[i].labelled = stack[i].labelled
  <2>1. CASE k = "opaque"
    <3>1. DOMAIN stack' = DOMAIN stack
      BY <1>1, <1>2, <1>3, <2>1, FrameFacts DEF Replaces
    <3> QED
      BY <1>1, <1>2, <1>3, <1>5, <2>1, <3>1, FramesReplaced DEF SameBut
  <2>2. CASE k # "opaque"
    BY <1>1, <1>2, <1>3, <1>5, <2>2, FramesExtended DEF SameBut
  <2> QED
    BY <2>1, <2>2
<1>8. Overdue => Overdue'
  BY <1>6, <1>7, OwesOn DEF Overdue
<1>9. reader' = reader
  BY DEF OpenValue
<1>10. Clean' => Clean
  BY <1>4, <1>8, <1>9 DEF Clean
<1>11. CASE k = "opaque"
  BY <1>2, <1>3, <1>4, <1>10, <1>11, StandsReplaces
<1>12. CASE k # "opaque"
  <2>1. (Clean' /\ f.visited) => f.where = Top.where
    <3> SUFFICES ASSUME Clean', f.visited PROVE Where(Top) = Top.where
      BY <1>3, <1>12
    <3>1. Enters(k) /\ Top.visited
      BY <1>3, <1>12 DEF On
    <3>2. Top.before <= ctx.opened /\ Top.before \in Nat
      BY <1>1, <1>5 DEF OpenedInv
    <3>3. ctx'.opened # Top.before
      BY <1>5, <1>6, <3>1, <3>2
    <3>4. ~Owes(stack'[Len(stack)], ctx'.opened)
      BY <1>5, <1>7 DEF Clean, Overdue
    <3>5. Top.kind \in Named => Top.labelled
      BY <1>5, <1>7, <3>1, <3>3, <3>4 DEF Owes, SameBut
    <3> QED
      BY <3>5 DEF Where, Named
  <2>2. f.kind \notin Slots
    BY <1>3, <1>12 DEF Slots
  <2>3. f.visited => Top.visited
    BY <1>3, <1>12 DEF On
  <2> QED
    BY <1>2, <1>3, <1>4, <1>10, <1>12, <2>1, <2>2, <2>3, StandsExtends
<1> QED
  BY <1>10, <1>11, <1>12

LEMMA OpenSlotStands ==
  ASSUME FrameInv, StandsInv, OpenSlot
  PROVE StandsInv' /\ (Clean' => Clean)
<1>1. WalkInv /\ ShapeInv /\ OpenedInv /\ TypeInv
  BY DEF FrameInv, WalkInv
<1>2. stack # <<>>
  BY <1>1, OpenSlotStack
<1>3. PICK g, f :
        /\ SameBut(g, Top) /\ g.where = Top.where /\ g.labelled = Top.labelled /\ Extends(g, f)
        /\ f.where = Top.where /\ f.parent = ctx.path /\ On(f, Top)
  BY <1>1, OpenSlotFrames
<1>4. ctx' = ctx /\ reader' = reader
  BY DEF OpenSlot
<1>5. /\ ctx.opened \in Nat /\ Top = stack[Len(stack)] /\ Len(stack) \in DOMAIN stack
  BY <1>1, <1>2, TopFacts, FrameFacts
<1>6. ctx'.opened \in Nat /\ ctx.opened <= ctx'.opened
  BY <1>4, <1>5
<1>7. \A i \in DOMAIN stack :
        i \in DOMAIN stack' /\ SameBut(stack'[i], stack[i]) /\ stack'[i].labelled = stack[i].labelled
  BY <1>1, <1>2, <1>3, <1>5, FramesExtended DEF SameBut
<1>8. Overdue => Overdue'
  BY <1>6, <1>7, OwesOn DEF Overdue
<1>9. Clean' => Clean
  BY <1>4, <1>8 DEF Clean
<1>10. f.visited => Top.visited
  BY <1>3 DEF On
<1>11. (Clean /\ Top.visited) => ctx.path.labels = Top.where
  BY <1>2 DEF StandsInv, PathInv
<1>12. StandsInv'
  BY <1>2, <1>3, <1>4, <1>9, <1>10, <1>11, StandsExtends
<1> QED
  BY <1>9, <1>12

LEMMA ScalarStands ==
  ASSUME FrameInv, StandsInv, NEW leaf \in Leaves, Scalar(leaf)
  PROVE StandsInv' /\ (Clean' => Clean)
<1>1. WalkInv /\ TypeInv
  BY DEF FrameInv, WalkInv
<1>2. stack # <<>> /\ ctx' = ctx
  BY <1>1, ScalarFrames
<1>3. PICK g : Replaces(g) /\ SameBut(g, Top) /\ g.where = Top.where /\ g.labelled = Top.labelled
  BY <1>1, ScalarFrames
<1>4. /\ ctx.opened \in Nat /\ Top = stack[Len(stack)] /\ DOMAIN stack = 1..Len(stack)
  BY <1>1, <1>2, TopFacts
<1>5. \A i \in DOMAIN stack :
        i \in DOMAIN stack' /\ SameBut(stack'[i], stack[i]) /\ stack'[i].labelled = stack[i].labelled
  <2>1. DOMAIN stack' = DOMAIN stack
    BY <1>3, <1>4 DEF Replaces
  <2> QED
    BY <1>1, <1>2, <1>3, <1>4, <2>1, FramesReplaced DEF SameBut
<1>6. ctx'.opened \in Nat /\ ctx.opened <= ctx'.opened
  BY <1>2, <1>4
<1>7. Overdue => Overdue'
  BY <1>5, <1>6, OwesOn DEF Overdue
<1>8. reader' = reader
  BY DEF Scalar
<1>9. Clean' => Clean
  BY <1>2, <1>7, <1>8 DEF Clean
<1> QED
  BY <1>2, <1>3, <1>9, StandsReplaces

LEMMA CloseSlotStands ==
  ASSUME FrameInv, StandsInv, NEW memory \in BOOLEAN, CloseSlot(memory)
  PROVE StandsInv' /\ (Clean' => Clean /\ ~(Top.visited /\ MissingLabel(Top)))
<1>1. WalkInv /\ ShapeInv /\ OpenedInv /\ TypeInv
  BY DEF FrameInv, WalkInv
<1>2. /\ stack # <<>> /\ Top.kind \in Slots /\ Len(stack) > 1 /\ Drops /\ reader' = reader
      /\ ctx'.active = ctx.active /\ ctx'.tracked = ctx.tracked /\ ctx'.opened = ctx.opened
      /\ ~Top.visited => ctx'.path = ctx.path /\ ctx'.unreadable = ctx.unreadable
      /\ Top.visited => ctx'.path = Top.parent
  BY <1>1, CloseSlotEffect, Zenon
<1>3. Top.visited => (ctx'.unreadable <=> ctx.unreadable \/ MissingLabel(Top)
                        \/ (reader = "holding" /\ \E n \in Taken(ctx, Top.value) : ctx.fields[n].matched))
  BY <1>1, CloseSlotEffect, Zenon
<1>4. Top = stack[Len(stack)] /\ Len(stack) \in DOMAIN stack /\ Len(stack) \in Nat \ {0}
      /\ ctx.opened \in Nat /\ DOMAIN stack = 1..Len(stack)
  BY <1>1, <1>2, FrameFacts, TopFacts
<1>5. ASSUME Clean' PROVE Clean /\ ~(Top.visited /\ MissingLabel(Top))
  <2>1. ctx.active /\ ctx.tracked /\ ~ctx'.unreadable /\ ~Overdue' /\ (reader = "holding" => NoDots)
    BY <1>2, <1>5 DEF Clean
  <2>2. ~ctx.unreadable /\ ~(Top.visited /\ MissingLabel(Top))
    BY <1>2, <1>3, <2>1
  <2>3. ASSUME NEW i \in DOMAIN stack, Owes(stack[i], ctx.opened) PROVE FALSE
    <3>1. CASE i = Len(stack)
      BY <1>4, <2>1, <2>2, <2>3, <3>1 DEF Owes, MissingLabel, Named
    <3>2. CASE i # Len(stack)
      <4>1. i \in 1..Len(stack) - 1
        BY <1>4, <3>2, BelowOrTop
      <4>2. i \in DOMAIN stack' /\ stack'[i] = stack[i]
        BY <1>2, <4>1 DEF Drops
      <4> QED
        BY <1>2, <2>1, <2>3, <4>2 DEF Overdue
    <3> QED
      BY <3>1, <3>2
  <2> QED
    BY <2>1, <2>2, <2>3 DEF Clean, Overdue
<1>6. (Clean /\ Top.visited) => Top.parent.labels = stack[Len(stack) - 1].where
  BY <1>2, <1>4 DEF StandsInv, PathInv, Linked
<1>7. StandsInv'
  BY <1>2, <1>5, <1>6, StandsDrops
<1> QED
  BY <1>5, <1>7

LEMMA CloseValueStands ==
  ASSUME FrameInv, StandsInv, CloseValue
  PROVE StandsInv' /\ (Clean' => Clean)
<1>1. WalkInv /\ ShapeInv /\ OpenedInv /\ TypeInv
  BY DEF FrameInv, WalkInv
<1>2. /\ stack # <<>> /\ Top.kind \in DOMAIN SlotOf /\ Len(stack) > 1 /\ Drops /\ reader' = reader
      /\ ctx'.active = ctx.active /\ ctx'.tracked = ctx.tracked /\ ctx'.opened = ctx.opened
      /\ ctx'.path = ctx.path /\ ctx'.unreadable = ctx.unreadable
  BY <1>1, CloseValueEffect
<1>3. /\ Top = stack[Len(stack)] /\ Len(stack) \in DOMAIN stack /\ Len(stack) \in Nat \ {0}
      /\ ctx.opened \in Nat /\ DOMAIN stack = 1..Len(stack)
  BY <1>1, <1>2, FrameFacts, TopFacts
<1>4. ASSUME NEW i \in DOMAIN stack, Owes(stack[i], ctx.opened) PROVE Overdue'
  <2>1. i # Len(stack)
    BY <1>2, <1>3, <1>4, Kinds DEF Owes, Named
  <2>2. i \in 1..Len(stack) - 1
    BY <1>3, <2>1, BelowOrTop
  <2>3. i \in DOMAIN stack' /\ stack'[i] = stack[i]
    BY <1>2, <2>2 DEF Drops
  <2> QED
    BY <1>2, <1>4, <2>3 DEF Overdue
<1>5. Clean' => Clean
  BY <1>2, <1>4 DEF Clean, Overdue
<1>6. (Clean /\ Top.visited) => ctx.path.labels = stack[Len(stack) - 1].where
  BY <1>2, <1>3 DEF StandsInv, PathInv, Linked
<1>7. StandsInv'
  BY <1>2, <1>5, <1>6, StandsDrops
<1> QED
  BY <1>5, <1>7

\* A label is read: a clean walk stands behind it, and the walk has not been inside its value.
LEMMA LabelStands ==
  ASSUME FrameInv, StandsInv, NEW l \in Labels \cup {"?"}, Label(l)
  PROVE StandsInv' /\ (Clean' => Clean /\ (Top.visited => ctx.opened = Top.before))
<1>1. WalkInv /\ ShapeInv /\ OpenedInv /\ TypeInv
  BY DEF FrameInv, WalkInv
<1>2. stack # <<>> /\ Top.kind \in Named /\ ~Top.labelled
  BY <1>1, LabelFrames
<1>3. PICK g : /\ Replaces(g) /\ SameBut(g, Top) /\ g.where = Append(Top.where, l) /\ g.labelled
  BY <1>1, LabelFrames
<1>4. /\ Top = stack[Len(stack)] /\ Len(stack) \in DOMAIN stack /\ Len(stack) \in Nat \ {0}
      /\ DOMAIN stack = 1..Len(stack) /\ ctx.path \in Path /\ reader \in {"display", "holding"}
  BY <1>1, <1>2, FrameFacts, TopFacts
<1>5. reader' = reader
  BY DEF Label
<1>6. \/ ~Top.visited /\ ctx' = ctx
      \/ /\ Top.visited /\ reader = "display"
         /\ Reading(ctx, ctx', Top.before, l, <<l>>, EscapedWidth(l))
      \/ /\ Top.visited /\ reader = "holding"
         /\ Reading(ctx, ctx', Top.before, l, Segments[l], Width[l])
  BY <1>1, <1>4, LabelEffect, Zenon
<1>7. ctx'.opened = ctx.opened
  BY <1>6 DEF Reading
<1>8. DOMAIN stack' = DOMAIN stack /\ stack'[Len(stack)] = g /\ Top' = g /\ Len(stack') = Len(stack)
  BY <1>3, <1>4 DEF Replaces, Top
<1>9. \A i \in DOMAIN stack : i # Len(stack) => stack'[i] = stack[i]
  BY <1>1, <1>2, <1>3, <1>8, FramesReplaced
<1>10. ASSUME Clean' PROVE Clean /\ (Top.visited => ctx.opened = Top.before)
  <2>1. /\ ctx.active /\ ctx.tracked /\ ~ctx.unreadable /\ (reader = "holding" => NoDots)
        /\ (Top.visited => ctx.opened = Top.before)
    BY <1>5, <1>6, <1>10 DEF Clean, Reading
  <2>2. ASSUME NEW i \in DOMAIN stack, Owes(stack[i], ctx.opened) PROVE FALSE
    <3>1. i # Len(stack)
      BY <1>4, <2>1, <2>2 DEF Owes
    <3>2. Overdue'
      BY <1>7, <1>8, <1>9, <2>2, <3>1 DEF Overdue
    <3> QED
      BY <1>10, <3>2 DEF Clean
  <2> QED
    BY <2>1, <2>2 DEF Clean, Overdue
<1>11. NestedInv'
  <2>1. \A i \in DOMAIN stack : stack'[i].visited = stack[i].visited
    BY <1>3, <1>4, <1>8, <1>9 DEF SameBut
  <2> QED
    BY <1>8, <2>1 DEF StandsInv, NestedInv
<1>12. ASSUME Clean' PROVE Top.visited => ctx'.path.labels = Append(Top.where, l)
  <2> SUFFICES ASSUME Top.visited PROVE ctx'.path.labels = Append(Top.where, l)
    OBVIOUS
  <2>1. ctx'.active /\ ctx'.tracked /\ ~ctx'.unreadable /\ (reader = "holding" => NoDots)
    BY <1>5, <1>12 DEF Clean
  <2>2. ctx.path.labels = Top.where
    BY <1>2, <1>10, <1>12 DEF StandsInv, PathInv
  <2>3. PICK w \in Nat : l \in Labels /\ ctx'.path = Joined(ctx.path, <<l>>, w)
    <3>1. l \in Labels
      BY <1>6, <2>1 DEF Reading
    <3>2. EscapedWidth(l) \in Nat /\ Width[l] \in Nat
      BY <3>1, LabelWidths
    <3>3. CASE reader = "display"
      BY <1>6, <2>1, <3>1, <3>2, <3>3 DEF Reading
    <3>4. CASE reader = "holding"
      <4>1. Segments[l] = <<l>>
        BY <2>1, <3>1, <3>4 DEF NoDots
      <4> QED
        BY <1>6, <2>1, <3>1, <3>2, <3>4, <4>1 DEF Reading
    <3> QED
      BY <1>4, <3>3, <3>4
  <2>4. <<l>> \in Seq(Labels)
    BY <2>3
  <2>5. ctx'.path.labels = ctx.path.labels \o <<l>>
    BY <1>4, <2>3, <2>4, JoinedPath
  <2>6. ctx.path.labels \in Seq(Labels)
    BY <1>4 DEF Path
  <2>7. ctx.path.labels \o <<l>> = Append(ctx.path.labels, l)
    BY <2>3, <2>6, AppendOps
  <2> QED
    BY <2>2, <2>5, <2>7
<1>13. ASSUME Clean', NEW i \in DOMAIN stack, i > 1 PROVE Linked(stack'[i], stack'[i - 1], ctx'.path)
  <2>1. Linked(stack[i], stack[i - 1], ctx.path) /\ i - 1 \in DOMAIN stack /\ i - 1 # Len(stack)
    BY <1>1, <1>2, <1>4, <1>10, <1>13, FrameFacts DEF StandsInv, PathInv
  <2>2. stack'[i - 1] = stack[i - 1]
    BY <1>9, <2>1
  <2>3. CASE ~Top.visited
    <3>1. ctx' = ctx
      BY <1>6, <2>3
    <3>2. CASE i = Len(stack)
      <4>0. Top = stack[i]
        BY <1>4, <3>2, Zenon
      <4>1. Linked(Top, stack[i - 1], ctx.path)
        BY <2>1, <4>0, Zenon
      <4>2. Linked(g, stack[i - 1], ctx.path)
        BY <1>3, <2>3, <4>1 DEF Linked, SameBut
      <4> QED
        BY <1>8, <2>2, <3>1, <3>2, <4>2
    <3>3. CASE i # Len(stack)
      BY <1>9, <2>1, <2>2, <3>1, <3>3
    <3> QED
      BY <3>2, <3>3
  <2>4. CASE Top.visited
    <3>1. stack[i].visited /\ stack[i - 1].visited
      <4>1. \A j \in DOMAIN stack : j = Len(stack) \/ j < Len(stack)
        BY <1>1, <1>2, FrameFacts
      <4>2. \A j \in DOMAIN stack : stack[j].visited
        BY <1>4, <2>4, <4>1 DEF StandsInv, NestedInv
      <4> QED
        BY <2>1, <4>2
    <3>2. CASE i = Len(stack)
      <4>0. Top = stack[i]
        BY <1>4, <3>2, Zenon
      <4>1. Linked(Top, stack[i - 1], ctx.path)
        BY <2>1, <4>0, Zenon
      <4>2. Linked(g, stack[i - 1], ctx'.path)
        BY <1>2, <1>3, <2>4, <4>1, Kinds DEF Linked, SameBut, Named
      <4> QED
        BY <1>8, <2>2, <3>2, <4>2
    <3>3. CASE i # Len(stack)
      BY <1>9, <2>1, <2>2, <3>1, <3>3 DEF Linked
    <3> QED
      BY <3>2, <3>3
  <2> QED
    BY <2>3, <2>4
<1>14. (Clean' /\ Top'.visited) => ctx'.path.labels = Top'.where
  BY <1>3, <1>8, <1>12 DEF SameBut
<1>15. PathInv'
  BY <1>8, <1>13, <1>14 DEF PathInv
<1> QED
  BY <1>10, <1>11, <1>15 DEF StandsInv

\* A walk that begins or has ended stands in no frame but the argument.
LEMMA BeginStands ==
  ASSUME NEW r \in {"display", "holding"}, NEW tracked \in BOOLEAN, Begin(r, tracked)
  PROVE StandsInv'
<1>1. /\ DOMAIN stack' = {1} /\ Top' = stack'[1] /\ stack'[1].where = <<>> /\ ctx'.path = EmptyPath
  BY BeginFrames, Zenon
<1> QED
  BY <1>1, EmptyIsPath DEF StandsInv, NestedInv, PathInv

LEMMA EndStands ==
  ASSUME NEW kind, End(kind)
  PROVE StandsInv'
<1>1. stack' = <<>> /\ DOMAIN stack' = {}
  BY DEF End
<1> QED
  BY <1>1 DEF StandsInv, NestedInv, PathInv

LEMMA StutterStands ==
  ASSUME StandsInv, UNCHANGED vars
  PROVE StandsInv'
BY DEF StandsInv, NestedInv, PathInv, Clean, Overdue, Top, vars

-----------------------------------------------------------------------------
(***************************************************************************)
(* What came before a label                                                *)
(***************************************************************************)
LEMMA ValueKinds ==
  /\ \A k : Container(k).type = k
  /\ \A k \in {"record", "optional", "text_map", "opaque", "slots"} : Container(k) # NoValue
  /\ NoValue.type = "unset"
  /\ \A leaf \in Leaves :
       leaf # NoValue /\ leaf.type \in {"party", "numeric", "text", "timestamp", "scalar"}
<1>1. \A k : Container(k).type = k
  BY DEF Container
<1>2. NoValue.type = "unset"
  BY DEF NoValue
<1>3. \A leaf \in Leaves : leaf.type \in {"party", "numeric", "text", "timestamp", "scalar"}
  BY LeavesAssumption
<1> QED
  BY <1>1, <1>2, <1>3

LEMMA BusyReplaces ==
  ASSUME TypeInv, BusyInv, stack # <<>>, NEW g, Replaces(g)
  PROVE BusyInv'
BY FramesReplaced DEF BusyInv, Replaces

LEMMA BusyExtends ==
  ASSUME TypeInv, BusyInv, stack # <<>>, NEW g, NEW f, Extends(g, f), g.value # NoValue
  PROVE BusyInv'
<1>1. Len(stack) \in Nat /\ Len(stack') = Len(stack) + 1
  BY FrameFacts DEF Extends
<1>2. \A i \in DOMAIN stack : i \in Nat /\ i <= Len(stack)
  BY FrameFacts
<1>3. ASSUME NEW i \in DOMAIN stack', i < Len(stack') PROVE stack'[i].value # NoValue
  <2>1. i \in DOMAIN stack
    BY <1>1, <1>3, FramesExtended
  <2>2. stack'[i] = IF i = Len(stack) THEN g ELSE stack[i]
    BY <2>1, FramesExtended
  <2>3. i = Len(stack) \/ i < Len(stack)
    BY <1>1, <1>2, <2>1
  <2> QED
    BY <2>1, <2>2, <2>3 DEF BusyInv
<1> QED
  BY <1>3 DEF BusyInv

LEMMA BusyDrops ==
  ASSUME TypeInv, BusyInv, stack # <<>>, Drops
  PROVE BusyInv'
<1>1. \A i \in DOMAIN stack' : i \in DOMAIN stack /\ i < Len(stack) /\ stack'[i] = stack[i]
  BY FramesDropped
<1> QED
  BY <1>1 DEF BusyInv

LEMMA EnteredReplaces ==
  ASSUME TypeInv, EnteredInv, stack # <<>>, NEW g, Replaces(g), Behind(g, ctx'.opened),
         reader' = reader, ctx'.opened \in Nat, ctx.opened <= ctx'.opened
  PROVE EnteredInv'
<1>1. \A i \in DOMAIN stack : stack[i].before \in Nat
  BY BeforeTypes
<1>2. ctx.opened \in Nat
  BY TopFacts
<1>3. \A i \in DOMAIN stack : Behind(stack[i], ctx'.opened)
  BY <1>1, <1>2 DEF EnteredInv, Behind
<1>4. \A i \in DOMAIN stack' : stack'[i] = g \/ (i \in DOMAIN stack /\ stack'[i] = stack[i])
  BY FramesReplaced
<1>5. \A i \in DOMAIN stack' : Behind(stack'[i], ctx'.opened)
  BY <1>3, <1>4
<1> QED
  BY <1>5 DEF EnteredInv, Behind, Entered

LEMMA EnteredExtends ==
  ASSUME TypeInv, EnteredInv, stack # <<>>, NEW g, NEW f, Extends(g, f), Behind(g, ctx'.opened),
         f.value = NoValue, reader' = reader, ctx'.opened \in Nat, ctx.opened <= ctx'.opened
  PROVE EnteredInv'
<1>1. \A i \in DOMAIN stack : stack[i].before \in Nat
  BY BeforeTypes
<1>2. ctx.opened \in Nat
  BY TopFacts
<1>3. \A i \in DOMAIN stack : Behind(stack[i], ctx'.opened)
  BY <1>1, <1>2 DEF EnteredInv, Behind
<1>4. Behind(f, ctx'.opened)
  BY ValueKinds DEF Behind, Entered
<1>5. \A i \in DOMAIN stack' : stack'[i] = g \/ stack'[i] = f \/ (i \in DOMAIN stack /\ stack'[i] = stack[i])
  BY FramesExtended
<1>6. \A i \in DOMAIN stack' : Behind(stack'[i], ctx'.opened)
  BY <1>3, <1>4, <1>5
<1> QED
  BY <1>6 DEF EnteredInv, Behind, Entered

LEMMA EnteredDrops ==
  ASSUME TypeInv, EnteredInv, stack # <<>>, Drops, reader' = reader, ctx'.opened = ctx.opened
  PROVE EnteredInv'
<1>1. \A i \in DOMAIN stack' : i \in DOMAIN stack /\ stack'[i] = stack[i]
  BY FramesDropped
<1> QED
  BY <1>1 DEF EnteredInv, Behind, Entered

-----------------------------------------------------------------------------
(***************************************************************************)
(* The display walk                                                        *)
(***************************************************************************)
DisplayInv == StandsInv /\ BusyInv /\ EnteredInv /\ ScreenInv /\ ShownInv

\* The slots of a display walk but the argument are above its record.
LEMMA SlotsAbove ==
  ASSUME FrameInv, ScreenInv, stack # <<>>, Top.kind \in Slots
  PROVE Len(stack) = 1 \/ Len(stack) > 2
<1>1. Len(stack) \in Nat \ {0} /\ Top = stack[Len(stack)]
  BY FrameFacts DEF FrameInv, WalkInv
<1>2. Len(stack) # 2
  <2> SUFFICES ASSUME Len(stack) = 2 PROVE FALSE
    OBVIOUS
  <2>1. Top.kind = "record"
    BY <1>1 DEF ScreenInv
  <2> QED
    BY <2>1 DEF Slots
<1>3. \A n \in Nat \ {0} : n # 2 => n = 1 \/ n > 2
  OBVIOUS
<1> QED
  BY <1>1, <1>2, <1>3

LEMMA ScreenReplaces ==
  ASSUME FrameInv, ScreenInv, stack # <<>>, NEW g, Replaces(g), SameBut(g, Top),
         g.where = Top.where \/ Len(stack) # 2, ctx'.active = ctx.active, cut' = cut, ~ctx.active => ctx'.path = ctx.path,
         (~ctx.active /\ Len(stack) <= 2 /\ g.value = NoValue) => truth' = NoTruth /\ ~misplaced'
  PROVE ScreenInv'
<1>1. /\ TypeInv /\ Len(stack) \in Nat \ {0} /\ Top = stack[Len(stack)] /\ DOMAIN stack = 1..Len(stack)
  BY FrameFacts DEF FrameInv, WalkInv
<1>2. Len(stack') = Len(stack) /\ DOMAIN stack' = DOMAIN stack /\ Top' = g /\ stack'[Len(stack)] = g
  BY <1>1 DEF Replaces, Top
<1>3. \A i \in DOMAIN stack : SameBut(stack'[i], stack[i]) /\ (i # Len(stack) => stack'[i] = stack[i])
  BY <1>1, <1>2, FramesReplaced DEF SameBut
<1>4. Len(stack) > 1 => stack'[2].kind = "record" /\ stack'[2].where = <<>>
  <2> SUFFICES ASSUME Len(stack) > 1 PROVE stack'[2].kind = "record" /\ stack'[2].where = <<>>
    OBVIOUS
  <2>1. 2 \in DOMAIN stack
    BY <1>1
  <2>2. SameBut(stack'[2], stack[2]) /\ stack'[2].where = stack[2].where
    BY <1>1, <1>2, <1>3, <2>1
  <2> QED
    BY <2>2 DEF SameBut, ScreenInv
<1>5. \A i \in DOMAIN stack : stack'[i].visited = stack[i].visited
  BY <1>3 DEF SameBut
<1> QED
  BY <1>2, <1>4, <1>5 DEF ScreenInv

LEMMA ScreenDrops ==
  ASSUME FrameInv, ScreenInv, BusyInv, stack # <<>>, Len(stack) > 1, Drops,
         ctx'.active = ctx.active, cut' = cut, ~ctx.active => ctx'.path = ctx.path
  PROVE ScreenInv'
<1>1. /\ TypeInv /\ Len(stack) \in Nat \ {0} /\ DOMAIN stack = 1..Len(stack)
  BY FrameFacts DEF FrameInv, WalkInv
<1>2. \A i \in DOMAIN stack' : i \in DOMAIN stack /\ stack'[i] = stack[i]
  BY <1>1, FramesDropped
<1>3. /\ Len(stack') = Len(stack) - 1 /\ Len(stack) - 1 \in DOMAIN stack /\ Len(stack) - 1 < Len(stack)
      /\ Top' = stack[Len(stack) - 1] /\ DOMAIN stack' = 1..Len(stack) - 1
  BY <1>1 DEF Drops, Top
<1>4. Top'.value # NoValue
  BY <1>3 DEF BusyInv
<1>5. Len(stack') > 1 => stack'[2] = stack[2] /\ Len(stack) > 1
  BY <1>1, <1>2, <1>3
<1> QED
  BY <1>2, <1>4, <1>5 DEF ScreenInv

\* What is kept and what was met stay while neither changes.
LEMMA ShownStays ==
  ASSUME ShownInv, ctx'.fields = ctx.fields, ctx'.active = ctx.active, ctx'.tracked = ctx.tracked,
         truth' = truth, Clean' => Clean /\ misplaced' = misplaced
  PROVE ShownInv'
<1>1. \A n \in DisplayNames : ShownAs(n) => ShownAs(n)'
  BY DEF ShownAs
<1> QED
  BY <1>1 DEF ShownInv

LEMMA OpenValueDisplay ==
  ASSUME RecordArguments, FrameInv, DisplayInv, reader = "display",
         NEW k \in {"record", "optional", "text_map", "opaque"}, OpenValue(k)
  PROVE DisplayInv'
<1>1. WalkInv /\ ShapeInv /\ OpenedInv /\ TypeInv
  BY DEF FrameInv, WalkInv
<1>2. StandsInv /\ BusyInv /\ EnteredInv /\ ScreenInv /\ ShownInv
  BY DEF DisplayInv
<1>3. stack # <<>> /\ Enters(k) \in BOOLEAN /\ Top.kind \in Slots
  BY <1>1, OpenValueStack
<1>4. PICK g, f :
        /\ SameBut(g, Top) /\ g.where = Top.where /\ g.value = Container(k)
        /\ k = "opaque" => Replaces(g)
        /\ k # "opaque" =>
             /\ Extends(g, f) /\ f.kind = k /\ f.visited = Enters(k) /\ f.where = Where(Top)
             /\ f.value = NoValue
  BY <1>1, OpenValueFrames
<1>5. /\ ctx'.active = ctx.active /\ ctx'.tracked = ctx.tracked /\ ctx'.path = ctx.path
      /\ ctx'.fields = ctx.fields /\ ctx'.opened = IF Enters(k) THEN ctx.opened + 1 ELSE ctx.opened
  BY <1>1, OpenValueContext
<1>6. /\ reader' = reader /\ truth' = truth /\ misplaced' = misplaced /\ cut' = cut
      /\ Top.value = NoValue /\ (Len(stack) = 1 => k \in ArgumentKinds)
  BY DEF OpenValue, history
<1>7. Enters(k) <=> Top.visited
  BY DEF Enters
<1>8. /\ ctx.opened \in Nat /\ Top = stack[Len(stack)] /\ Len(stack) \in DOMAIN stack
      /\ DOMAIN stack = 1..Len(stack) /\ Len(stack) \in Nat \ {0} /\ Top.before \in Nat
      /\ Top.visited \in BOOLEAN
  BY <1>1, <1>3, TopFacts, FrameFacts, BeforeTypes
<1>9. ctx'.opened \in Nat /\ ctx.opened <= ctx'.opened /\ (Top.visited => ctx'.opened = ctx.opened + 1)
  BY <1>3, <1>5, <1>7, <1>8
<1>10. Behind(g, ctx'.opened)
  <2>1. Top.before <= ctx.opened
    BY <1>1, <1>8 DEF OpenedInv
  <2>2. Top.visited => Top.before < ctx'.opened
    BY <1>8, <1>9, <2>1
  <2> QED
    BY <1>4, <2>2 DEF Behind, SameBut
<1>11. StandsInv' /\ ShownInv'
  BY <1>2, <1>5, <1>6, OpenValueStands, ShownStays
<1>12. Container(k) # NoValue
  BY ValueKinds
<1>13. CASE k = "opaque"
  <2>1. Replaces(g)
    BY <1>4, <1>13
  <2>2. ScreenInv'
    BY <1>2, <1>3, <1>4, <1>5, <1>6, <1>12, <2>1, ScreenReplaces
  <2>3. BusyInv' /\ EnteredInv'
    BY <1>1, <1>2, <1>3, <1>6, <1>9, <1>10, <2>1, BusyReplaces, EnteredReplaces
  <2> QED
    BY <1>11, <2>2, <2>3 DEF DisplayInv
<1>14. CASE k # "opaque"
  <2>1. Extends(g, f) /\ f.value = NoValue /\ g.value # NoValue
    BY <1>4, <1>12, <1>14
  <2>2. BusyInv' /\ EnteredInv'
    BY <1>1, <1>2, <1>3, <1>6, <1>9, <1>10, <2>1, BusyExtends, EnteredExtends
  <2>3. f.visited <=> Top.visited
    BY <1>4, <1>7, <1>14
  <2>4. /\ Len(stack') = Len(stack) + 1 /\ stack'[Len(stack) + 1] = f
        /\ \A i \in DOMAIN stack' : i = Len(stack) + 1 \/ i \in DOMAIN stack
        /\ \A i \in DOMAIN stack : SameBut(stack'[i], stack[i]) /\ stack'[i].where = stack[i].where
    BY <1>1, <1>3, <1>4, <1>8, <2>1, FramesExtended DEF SameBut, Extends
  <2>5. Len(stack) = 1 \/ Len(stack) > 2
    BY <1>2, <1>3, SlotsAbove
  <2>6. Len(stack') > 1 => stack'[2].kind = "record" /\ stack'[2].where = <<>>
    <3>1. CASE Len(stack) = 1
      <4>1. k = "record"
        BY <1>6, <1>14, <3>1 DEF RecordArguments
      <4>2. Top.kind = "argument" /\ Top.where = <<>>
        BY <1>1, <1>8, <3>1 DEF BottomInv, WalkInv, ShapeInv
      <4>3. Where(Top) = <<>>
        BY <4>2 DEF Where
      <4> QED
        BY <1>4, <1>14, <2>4, <3>1, <4>1, <4>3
    <3>2. CASE Len(stack) > 2
      <4>1. 2 \in DOMAIN stack /\ Len(stack) > 1
        BY <1>8, <3>2
      <4> QED
        BY <1>2, <2>4, <4>1 DEF ScreenInv, SameBut
    <3> QED
      BY <2>5, <3>1, <3>2
  <2>7. ctx.active => \A i \in DOMAIN stack' : stack'[i].visited
    BY <1>2, <1>8, <2>3, <2>4 DEF ScreenInv, SameBut
  <2>8. ~ctx.active => \A i \in DOMAIN stack' : i > 2 => ~stack'[i].visited
    <3> SUFFICES ASSUME ~ctx.active, NEW i \in DOMAIN stack', i > 2 PROVE ~stack'[i].visited
      OBVIOUS
    <3>1. CASE i = Len(stack) + 1
      <4>1. Len(stack) > 2
        BY <1>8, <2>5, <3>1
      <4>2. ~Top.visited
        BY <1>2, <1>8, <4>1 DEF ScreenInv
      <4> QED
        BY <2>3, <2>4, <3>1, <4>2
    <3>2. CASE i \in DOMAIN stack
      BY <1>2, <2>4, <3>2 DEF ScreenInv, SameBut
    <3> QED
      BY <2>4, <3>1, <3>2
  <2>9. (~ctx.active /\ Len(stack') <= 2) => truth = NoTruth /\ ~misplaced
    BY <1>2, <1>6, <1>8, <2>4, <2>5 DEF ScreenInv
  <2>10. ScreenInv'
    BY <1>2, <1>5, <1>6, <2>6, <2>7, <2>8, <2>9 DEF ScreenInv
  <2> QED
    BY <1>11, <2>2, <2>10 DEF DisplayInv
<1> QED
  BY <1>13, <1>14

LEMMA OpenSlotDisplay ==
  ASSUME FrameInv, DisplayInv, reader = "display", OpenSlot
  PROVE DisplayInv'
<1>1. WalkInv /\ ShapeInv /\ OpenedInv /\ TypeInv
  BY DEF FrameInv, WalkInv
<1>2. StandsInv /\ BusyInv /\ EnteredInv /\ ScreenInv /\ ShownInv
  BY DEF DisplayInv
<1>3. stack # <<>> /\ Top.kind \in DOMAIN SlotOf /\ EntersSlot \in BOOLEAN /\ Len(stack) > 1
  BY <1>1, OpenSlotStack, OpenSlotFrames
<1>4. PICK g, f :
        /\ SameBut(g, Top) /\ g.where = Top.where /\ g.value = Container("slots") /\ Extends(g, f)
        /\ f.visited = EntersSlot /\ f.value = NoValue
  BY <1>1, OpenSlotFrames
<1>5. /\ ctx' = ctx /\ reader' = reader /\ truth' = truth /\ misplaced' = misplaced /\ cut' = cut
     
  BY DEF OpenSlot, history
<1>6. /\ ctx.opened \in Nat /\ Top = stack[Len(stack)] /\ Len(stack) \in DOMAIN stack
      /\ DOMAIN stack = 1..Len(stack) /\ Len(stack) \in Nat \ {0} /\ ctx.active \in BOOLEAN
  BY <1>1, <1>3, TopFacts, FrameFacts
<1>7. g.value # NoValue
  BY <1>4, ValueKinds
<1>8. Behind(g, ctx'.opened)
  BY <1>3, <1>4, Kinds DEF Behind, SameBut, Named
<1>9. ctx'.opened \in Nat /\ ctx.opened <= ctx'.opened
  BY <1>5, <1>6
<1>10. BusyInv' /\ EnteredInv'
  BY <1>1, <1>2, <1>3, <1>4, <1>5, <1>7, <1>8, <1>9, BusyExtends, EnteredExtends
<1>11. StandsInv' /\ ShownInv'
  BY <1>2, <1>5, OpenSlotStands, ShownStays
<1>12. /\ Len(stack') = Len(stack) + 1 /\ stack'[Len(stack) + 1] = f
       /\ \A i \in DOMAIN stack' : i = Len(stack) + 1 \/ i \in DOMAIN stack
       /\ \A i \in DOMAIN stack : SameBut(stack'[i], stack[i]) /\ stack'[i].where = stack[i].where
  BY <1>1, <1>3, <1>4, <1>6, FramesExtended DEF SameBut, Extends
<1>13. stack'[2].kind = "record" /\ stack'[2].where = <<>>
  <2>1. 2 \in DOMAIN stack
    BY <1>3, <1>6
  <2> QED
    BY <1>2, <1>3, <1>12, <2>1 DEF ScreenInv, SameBut
<1>14. ctx.active => f.visited
  BY <1>2, <1>4, <1>6 DEF ScreenInv, EntersSlot
<1>15. ~ctx.active => ~f.visited
  <2> SUFFICES ASSUME ~ctx.active PROVE ~EntersSlot
    BY <1>4
  <2>1. CASE Len(stack) = 2
    <3>1. Top.kind = "record"
      BY <1>2, <1>6, <2>1 DEF ScreenInv
    <3> QED
      BY <3>1 DEF EntersSlot
  <2>2. CASE Len(stack) > 2
    BY <1>2, <1>6, <2>2 DEF ScreenInv, EntersSlot
  <2> QED
    BY <1>3, <1>6, <2>1, <2>2
<1>16. ctx.active => \A i \in DOMAIN stack' : stack'[i].visited
  BY <1>2, <1>12, <1>14 DEF ScreenInv, SameBut
<1>17. ~ctx.active => \A i \in DOMAIN stack' : i > 2 => ~stack'[i].visited
  <2> SUFFICES ASSUME ~ctx.active, NEW i \in DOMAIN stack', i > 2 PROVE ~stack'[i].visited
    OBVIOUS
  <2>1. CASE i = Len(stack) + 1
    BY <1>12, <1>15, <2>1
  <2>2. CASE i \in DOMAIN stack
    BY <1>2, <1>12, <2>2 DEF ScreenInv, SameBut
  <2> QED
    BY <1>12, <2>1, <2>2
<1>18. ~(Len(stack') <= 2)
  BY <1>3, <1>6, <1>12
<1>19. ScreenInv'
  BY <1>2, <1>5, <1>13, <1>16, <1>17, <1>18 DEF ScreenInv
<1> QED
  BY <1>10, <1>11, <1>19 DEF DisplayInv

LEMMA ScalarDisplay ==
  ASSUME FrameInv, DisplayInv, reader = "display", NEW leaf \in Leaves, Scalar(leaf)
  PROVE DisplayInv'
<1>1. WalkInv /\ TypeInv
  BY DEF FrameInv, WalkInv
<1>2. StandsInv /\ BusyInv /\ EnteredInv /\ ScreenInv /\ ShownInv
  BY DEF DisplayInv
<1>3. stack # <<>> /\ ctx' = ctx
  BY <1>1, ScalarFrames
<1>4. PICK g : Replaces(g) /\ SameBut(g, Top) /\ g.where = Top.where /\ g.value = leaf
  BY <1>1, ScalarFrames
<1>5. /\ reader' = reader /\ truth' = truth /\ misplaced' = misplaced /\ cut' = cut
  BY DEF Scalar, history
<1>6. g.value # NoValue /\ ~Entered(g)
  BY <1>4, ValueKinds DEF Entered
<1>7. Behind(g, ctx'.opened)
  BY <1>6 DEF Behind
<1>8. ctx'.opened \in Nat /\ ctx.opened <= ctx'.opened
  BY <1>1, <1>3, TopFacts
<1>9. BusyInv' /\ EnteredInv'
  BY <1>1, <1>2, <1>3, <1>4, <1>5, <1>7, <1>8, BusyReplaces, EnteredReplaces
<1>10. StandsInv' /\ ShownInv'
  BY <1>2, <1>3, <1>5, ScalarStands, ShownStays
<1>11. ScreenInv'
  BY <1>2, <1>3, <1>4, <1>5, <1>6, ScreenReplaces
<1> QED
  BY <1>9, <1>10, <1>11 DEF DisplayInv

LEMMA CloseValueDisplay ==
  ASSUME FrameInv, DisplayInv, reader = "display", CloseValue
  PROVE DisplayInv'
<1>1. WalkInv /\ TypeInv
  BY DEF FrameInv, WalkInv
<1>2. StandsInv /\ BusyInv /\ EnteredInv /\ ScreenInv /\ ShownInv
  BY DEF DisplayInv
<1>3. /\ stack # <<>> /\ Len(stack) > 1 /\ Drops
      /\ ctx'.active = ctx.active /\ ctx'.tracked = ctx.tracked /\ ctx'.opened = ctx.opened
      /\ ctx'.path = ctx.path /\ ctx'.fields = ctx.fields
  BY <1>1, CloseValueEffect
<1>4. /\ reader' = reader /\ truth' = truth /\ misplaced' = misplaced /\ cut' = cut
  BY DEF CloseValue, history
<1>5. BusyInv' /\ EnteredInv'
  BY <1>1, <1>2, <1>3, <1>4, BusyDrops, EnteredDrops
<1>6. StandsInv' /\ ShownInv'
  BY <1>2, <1>3, <1>4, CloseValueStands, ShownStays
<1>7. ScreenInv'
  BY <1>2, <1>3, <1>4, ScreenDrops
<1> QED
  BY <1>5, <1>6, <1>7 DEF DisplayInv

\* A label that comes after its value gives a clean walk up.
LEMMA LabelDisplay ==
  ASSUME FrameInv, DisplayInv, reader = "display", NEW l \in Labels \cup {"?"}, Label(l)
  PROVE DisplayInv'
<1>1. WalkInv /\ ShapeInv /\ OpenedInv /\ TypeInv
  BY DEF FrameInv, WalkInv
<1>2. StandsInv /\ BusyInv /\ EnteredInv /\ ScreenInv /\ ShownInv
  BY DEF DisplayInv
<1>3. stack # <<>> /\ Top.kind \in Named /\ ~Top.labelled
  BY <1>1, LabelFrames
<1>4. PICK g : Replaces(g) /\ SameBut(g, Top) /\ g.labelled /\ g.value = Top.value
  BY <1>1, LabelFrames
<1>5. /\ Top = stack[Len(stack)] /\ Len(stack) \in DOMAIN stack /\ Len(stack) \in Nat \ {0}
      /\ ctx.opened \in Nat /\ Top.before \in Nat /\ ctx.active \in BOOLEAN
  BY <1>1, <1>3, FrameFacts, TopFacts, BeforeTypes
<1>6. Len(stack) > 2
  <2>1. Top.kind \in Slots /\ Top.kind # "argument"
    BY <1>3 DEF Named, Slots
  <2>2. Len(stack) # 1
    BY <1>1, <1>5, <2>1 DEF WalkInv, BottomInv
  <2> QED
    BY <1>2, <1>3, <2>1, <2>2, SlotsAbove
<1>7. /\ reader' = reader /\ truth' = truth
      /\ misplaced' = (misplaced \/ Entered(Top))
      /\ cut' = cut
  <2>1. /\ reader' = reader /\ truth' = truth /\ misplaced' = (misplaced \/ Entered(Top))
        /\ (~cut /\ reader = "display") => ~cut'
    BY Zenon DEF Label
  <2>2. ~cut /\ cut \in BOOLEAN /\ cut' \in BOOLEAN
    BY <1>1, <1>2, LabelWalk DEF ScreenInv, WalkInv, TypeInv
  <2> QED
    BY <2>1, <2>2
<1>8. /\ ~Top.visited => ctx' = ctx
      /\ Top.visited =>
           Reading(ctx, ctx', Top.before, l, <<l>>, EscapedWidth(l)) /\ ctx'.active = ctx.active
  BY <1>1, LabelEffect, Zenon
<1>9. /\ ctx'.active = ctx.active /\ ctx'.tracked = ctx.tracked /\ ctx'.opened = ctx.opened
      /\ ctx'.fields = ctx.fields
  BY <1>8 DEF Reading
<1>10. ~ctx.active => ctx'.path = ctx.path
  BY <1>2, <1>5, <1>6, <1>8 DEF ScreenInv
<1>11. StandsInv' /\ (Clean' => Clean /\ (Top.visited => ctx.opened = Top.before))
  BY <1>2, LabelStands
<1>12. Clean' => Clean /\ misplaced' = misplaced
  <2> SUFFICES ASSUME Clean' PROVE Clean /\ misplaced' = misplaced
    OBVIOUS
  <2>1. Top.visited
    BY <1>2, <1>5, <1>11 DEF Clean, ScreenInv
  <2>2. Behind(Top, ctx.opened)
    BY <1>2, <1>5 DEF EnteredInv
  <2>3. ~Entered(Top)
    BY <1>3, <1>5, <1>11, <2>1, <2>2 DEF Behind
  <2>4. misplaced \in BOOLEAN
    BY <1>1 DEF TypeInv
  <2> QED
    BY <1>7, <1>11, <2>3, <2>4
<1>13. ShownInv'
  BY <1>2, <1>7, <1>9, <1>12, ShownStays
<1>14. Behind(g, ctx'.opened)
  BY <1>4 DEF Behind
<1>15. BusyInv' /\ EnteredInv'
  <2>1. ctx'.opened \in Nat /\ ctx.opened <= ctx'.opened
    BY <1>5, <1>9
  <2> QED
    BY <1>1, <1>2, <1>3, <1>4, <1>7, <1>14, <2>1, BusyReplaces, EnteredReplaces
<1>16. ScreenInv'
  <2>1. Len(stack) # 2 /\ ~(Len(stack) <= 2)
    BY <1>5, <1>6
  <2> QED
    BY <1>2, <1>3, <1>4, <1>7, <1>9, <1>10, <2>1, ScreenReplaces
<1> QED
  BY <1>11, <1>13, <1>15, <1>16 DEF DisplayInv

\* A value that the screen can hold is a scalar.
LEMMA ShowableIsLeaf ==
  ASSUME NEW v \in Held, v.type \in Showable
  PROVE v \in Leaves
<1>1. v \in Leaves \/ v = NoValue
        \/ \E k \in {"record", "optional", "text_map", "opaque", "slots"} : v = Container(k)
  BY DEF Held
<1>2. v # NoValue
  BY ValueKinds DEF Showable
<1>3. ~ \E k \in {"record", "optional", "text_map", "opaque", "slots"} : v = Container(k)
  BY ValueKinds DEF Showable
<1> QED
  BY <1>1, <1>2, <1>3

\* What was met after a slot has ended.
LEMMA MetTruth ==
  ASSUME NEW frame, Met(frame), NEW n \in Names
  PROVE truth'[n] = IF n \notin TrueNames(frame, Where(frame)) THEN truth[n]
                    ELSE IF truth[n] = <<>> THEN <<frame.value>> ELSE Many
BY DEF Met

\* A value is stored for a name: what is kept is still what was met.
LEMMA StoredIsShown ==
  ASSUME NEW slot \in FieldState, NEW v \in Leaves, NEW memory \in BOOLEAN,
         slot.failed \/ slot.matched \/ slot.leaf = NoValue
  PROVE LET r == StoreValue(slot, v, memory)
        IN r.failed \/ (~slot.failed /\ ~slot.matched /\ r.matched /\ r.leaf = Blanked(v))
<1> DEFINE r == StoreValue(slot, v, memory)
<1>1. v \in Leaf /\ (v.type = "timestamp" => v.value # "empty")
  BY LeafTypes, LeavesAssumption
<1>2. ~r.failed =>
        /\ ~slot.failed /\ ~slot.matched /\ r.matched
        /\ r.leaf = IF v.type # "timestamp" /\ v.value = "empty" THEN slot.leaf ELSE v
  BY <1>1, StoreValueEffect
<1> HIDE DEF r
<1>3. ~r.failed => r.leaf = Blanked(v)
  BY <1>1, <1>2 DEF Blanked
<1> QED
  BY <1>2, <1>3 DEF r

\* A slot ends on a clean display walk: the names the walk matches are those of the place.
LEMMA CloseSlotShows ==
  ASSUME FrameInv, DisplayInv, reader = "display", NEW memory \in BOOLEAN, CloseSlot(memory), Clean',
         NEW n \in DisplayNames
  PROVE ShownAs(n)'
<1>1. WalkInv /\ ShapeInv /\ OpenedInv /\ TypeInv
  BY DEF FrameInv, WalkInv
<1>2. StandsInv /\ BusyInv /\ EnteredInv /\ ScreenInv /\ ShownInv
  BY DEF DisplayInv
<1>3. Clean /\ ~(Top.visited /\ MissingLabel(Top))
  BY <1>2, CloseSlotStands
<1>4. /\ stack # <<>> /\ Top = stack[Len(stack)] /\ Len(stack) \in DOMAIN stack /\ Top.value \in Leaf
  BY <1>1, CloseSlotEffect, FrameFacts, TopFacts
<1>5. Top.visited /\ ctx.active /\ ctx.tracked
  BY <1>2, <1>3, <1>4 DEF Clean, ScreenInv
<1>6. Where(Top) = ctx.path.labels
  <2>1. Top.kind \in Named => Top.labelled
    BY <1>3, <1>5 DEF MissingLabel, Named
  <2>2. ctx.path.labels = Top.where
    BY <1>2, <1>3, <1>4, <1>5 DEF StandsInv, PathInv
  <2> QED
    BY <2>1, <2>2 DEF Where, Named
<1>7. n \in Located(ctx) <=> Fields[n].path = Where(Top)
  BY <1>5, <1>6 DEF Located, find_field_by_path
<1>8. n \in TrueNames(Top, Where(Top)) <=> n \in Located(ctx) /\ Top.value.type # "optional"
  BY <1>7 DEF TrueNames
<1>9. truth'[n] = IF n \notin TrueNames(Top, Where(Top)) THEN truth[n]
                  ELSE IF truth[n] = <<>> THEN <<Top.value>> ELSE Many
  <2>1. Met(Top)
    BY Zenon DEF CloseSlot
  <2> QED
    BY <2>1, MetTruth DEF Names
<1>10. n \in Kept /\ ctx.fields[n] \in FieldState
  BY <1>1, <1>5 DEF Kept, TypeInv, Context
<1>11. /\ (n \notin Located(ctx) \/ Top.value.type = "optional") => ctx'.fields[n] = ctx.fields[n]
       /\ (n \in Located(ctx) /\ Top.value.type \in Showable) =>
            ctx'.fields[n] = StoreValue(ctx.fields[n], Top.value, memory)
       /\ (n \in Located(ctx) /\ Top.value.type \notin Showable \cup {"optional"}) => ctx'.fields[n].failed
  BY <1>1, <1>5, <1>10, CloseSlotEffect, Zenon
<1>12. ShownAs(n)
  BY <1>2, <1>3 DEF ShownInv
<1>13. CASE n \notin Located(ctx) \/ Top.value.type = "optional"
  <2>1. ctx'.fields[n] = ctx.fields[n] /\ truth'[n] = truth[n]
    BY <1>8, <1>9, <1>11, <1>13
  <2> QED
    BY <1>12, <2>1 DEF ShownAs
<1>14. CASE n \in Located(ctx) /\ Top.value.type \notin Showable \cup {"optional"}
  BY <1>11, <1>14 DEF ShownAs
<1>15. CASE n \in Located(ctx) /\ Top.value.type \in Showable
  <2>1. Top.value \in Leaves /\ Top.value \in Standing
    BY <1>1, <1>4, <1>15, ShowableIsLeaf DEF ShapeInv, Standing
  <2>2. ctx'.fields[n] = StoreValue(ctx.fields[n], Top.value, memory)
    BY <1>11, <1>15
  <2>3. \/ ctx.fields[n].failed \/ ctx.fields[n].matched
        \/ n \notin Preset /\ truth[n] = <<>> /\ ctx.fields[n].leaf = NoValue
    BY <1>12 DEF ShownAs, Unmatched
  <2>4. \/ ctx'.fields[n].failed
        \/ /\ ~ctx.fields[n].failed /\ ~ctx.fields[n].matched /\ ctx'.fields[n].matched
           /\ ctx'.fields[n].leaf = Blanked(Top.value)
    BY <1>10, <2>1, <2>2, <2>3, StoredIsShown
  <2>5. truth[n] = <<>> => truth'[n] = <<Top.value>>
    <3>1. Top.value.type # "optional"
      BY <1>15 DEF Showable
    <3> QED
      BY <1>8, <1>9, <1>15, <3>1
  <2> QED
    BY <2>1, <2>3, <2>4, <2>5 DEF ShownAs
<1> QED
  BY <1>13, <1>14, <1>15

LEMMA CloseSlotDisplay ==
  ASSUME FrameInv, DisplayInv, reader = "display", NEW memory \in BOOLEAN, CloseSlot(memory)
  PROVE DisplayInv'
<1>1. WalkInv /\ TypeInv
  BY DEF FrameInv, WalkInv
<1>2. StandsInv /\ BusyInv /\ EnteredInv /\ ScreenInv /\ ShownInv
  BY DEF DisplayInv
<1>3. /\ stack # <<>> /\ Top.kind \in Slots /\ Len(stack) > 1 /\ Drops /\ reader' = reader
      /\ ctx'.active = ctx.active /\ ctx'.tracked = ctx.tracked /\ ctx'.opened = ctx.opened
      /\ ~Top.visited => ctx' = ctx
  BY <1>1, CloseSlotEffect, Zenon
<1>4. misplaced' = misplaced /\ cut' = cut /\ Met(Top)
  BY Zenon DEF CloseSlot
<1>5. Top = stack[Len(stack)] /\ Len(stack) \in DOMAIN stack /\ Len(stack) > 2
  <2>1. Len(stack) \in Nat
    BY <1>1, <1>3, FrameFacts
  <2>2. Len(stack) > 2
    <3>1. Len(stack) = 1 \/ Len(stack) > 2
      BY <1>2, <1>3, SlotsAbove
    <3>2. Len(stack) # 1
      <4>1. \A n \in Nat : n > 1 => n # 1
        OBVIOUS
      <4> QED
        BY <1>3, <2>1, <4>1, Zenon
    <3> QED
      BY <3>1, <3>2
  <2> QED
    BY <1>1, <1>3, <2>2, FrameFacts
<1>6. BusyInv' /\ EnteredInv'
  BY <1>1, <1>2, <1>3, BusyDrops, EnteredDrops
<1>7. StandsInv' /\ (Clean' => Clean)
  BY <1>2, CloseSlotStands
<1>8. ~ctx.active => ctx' = ctx
  BY <1>2, <1>3, <1>5 DEF ScreenInv
<1>9. ScreenInv'
  BY <1>2, <1>3, <1>4, <1>8, ScreenDrops
<1>10. \A n \in HoldingNames : truth'[n] = <<>>
  <2> SUFFICES ASSUME NEW n \in HoldingNames PROVE truth'[n] = <<>>
    OBVIOUS
  <2>1. n \notin DisplayNames /\ n \in Names
    BY NamesAssumption DEF Names
  <2>2. n \notin TrueNames(Top, Where(Top))
    BY <2>1 DEF TrueNames
  <2> QED
    BY <1>2, <1>4, <2>1, <2>2, MetTruth DEF ShownInv
<1>11. Clean' => ~misplaced' /\ \A n \in DisplayNames : ShownAs(n)'
  BY <1>2, <1>4, <1>7, CloseSlotShows DEF ShownInv
<1>12. (ctx'.active /\ ~ctx'.tracked) => \A n \in DisplayNames \ Preset : ctx'.fields[n] = Unmatched
  <2> SUFFICES ASSUME ctx.active, ~ctx.tracked, NEW n \in DisplayNames \ Preset
               PROVE ctx'.fields[n] = Unmatched
    BY <1>3
  <2>1. Top.visited /\ n \in Kept /\ n \notin Located(ctx)
    BY <1>2, <1>5 DEF ScreenInv, Kept, Located
  <2>2. ctx'.fields[n] = ctx.fields[n]
    BY <1>1, <2>1, CloseSlotEffect, Zenon
  <2> QED
    BY <1>2, <2>2 DEF ShownInv
<1>13. ShownInv'
  BY <1>10, <1>11, <1>12 DEF ShownInv
<1> QED
  BY <1>6, <1>7, <1>9, <1>13 DEF DisplayInv

\* The screen is chosen by the record of the argument, before its fields.
LEMMA RecordIdDisplay ==
  ASSUME RecordArguments, FrameInv, DisplayInv, NEW chooses \in BOOLEAN, RecordId(chooses)
  PROVE DisplayInv'
<1>1. WalkInv /\ ShapeInv /\ OpenedInv /\ TypeInv
  BY DEF FrameInv, WalkInv
<1>2. StandsInv /\ BusyInv /\ EnteredInv /\ ScreenInv /\ ShownInv
  BY DEF DisplayInv
<1>3. /\ stack # <<>> /\ Top.kind = "record" /\ Top.visited /\ reader = "display" /\ ~ctx.active
      /\ ctx'.tracked = ctx.tracked /\ ctx'.path = ctx.path /\ ctx'.opened = ctx.opened
      /\ ~chooses => ctx' = ctx
      /\ chooses => ctx'.active /\ \E memory \in BOOLEAN : ctx'.fields = set_display_config(memory)
  BY <1>1, RecordIdEffect, Zenon
<1>4. PICK g : Replaces(g) /\ SameBut(g, Top) /\ g.where = Top.where /\ g.value = Top.value
  BY <1>1, RecordIdFrames
<1>5. /\ Top = stack[Len(stack)] /\ Len(stack) \in DOMAIN stack /\ Len(stack) \in Nat \ {0}
      /\ DOMAIN stack = 1..Len(stack) /\ ctx.opened \in Nat /\ ctx.active \in BOOLEAN
  BY <1>1, <1>3, FrameFacts, TopFacts
<1>6. /\ reader' = reader /\ truth' = truth /\ misplaced' = misplaced /\ cut' = cut
      /\ Top.value = NoValue
  BY DEF RecordId, history, RecordArguments
<1>7. Len(stack) = 2
  <2>1. Len(stack) # 1
    BY <1>1, <1>3, <1>5 DEF WalkInv, BottomInv
  <2>2. ~(Len(stack) > 2)
    BY <1>2, <1>3, <1>5 DEF ScreenInv
  <2> QED
    BY <1>5, <2>1, <2>2
<1>8. truth = NoTruth /\ ~misplaced
  BY <1>2, <1>3, <1>6, <1>7 DEF ScreenInv
<1>9. Behind(g, ctx'.opened)
  BY <1>3, <1>4 DEF Behind, SameBut, Named
<1>10. BusyInv' /\ EnteredInv'
  <2>1. ctx'.opened \in Nat /\ ctx.opened <= ctx'.opened
    BY <1>3, <1>5
  <2> QED
    BY <1>1, <1>2, <1>3, <1>4, <1>6, <1>9, <2>1, BusyReplaces, EnteredReplaces
<1>11. CASE ~chooses
  <2>1. ctx' = ctx
    BY <1>3, <1>11
  <2>2. ~Clean'
    BY <1>3, <2>1 DEF Clean
  <2>3. ScreenInv'
    BY <1>2, <1>3, <1>4, <1>6, <1>8, <2>1, ScreenReplaces
  <2>4. ShownInv'
    BY <1>2, <1>6, <2>1, <2>2, ShownStays
  <2>5. StandsInv'
    BY <1>2, <1>3, <1>4, <2>1, <2>2, Kinds, StandsReplaces DEF SameBut
  <2> QED
    BY <1>10, <2>3, <2>4, <2>5 DEF DisplayInv
<1>12. CASE chooses
  <2>1. /\ Len(stack') = 2 /\ DOMAIN stack' = {1, 2} /\ stack'[1] = stack[1] /\ stack'[2] = g
        /\ Top' = g /\ stack' # <<>>
    BY <1>4, <1>7 DEF Replaces, Top
  <2>2. /\ g.kind = "record" /\ g.visited /\ g.where = <<>>
        /\ stack[1].visited /\ stack[1].where = <<>> /\ stack[1].kind = "argument"
    <3>1. stack[2].where = <<>>
      BY <1>2, <1>7 DEF ScreenInv
    <3>2. stack[1].visited /\ stack[1].where = <<>>
      BY <1>1, <1>3 DEF ShapeInv
    <3>3. stack[1].kind = "argument"
      BY <1>1, <1>5, <1>7 DEF WalkInv, BottomInv
    <3> QED
      BY <1>3, <1>4, <1>5, <1>7, <3>1, <3>2, <3>3 DEF SameBut
  <2>3. ctx'.active /\ ctx'.path = EmptyPath
    BY <1>2, <1>3, <1>12 DEF ScreenInv
  <2>4. \A i \in DOMAIN stack' : stack'[i].visited
    BY <2>1, <2>2
  <2>5. ScreenInv'
    BY <1>2, <1>6, <2>1, <2>2, <2>3, <2>4 DEF ScreenInv
  <2>6. NestedInv'
    BY <2>4 DEF NestedInv
  <2>7. Linked(g, stack[1], EmptyPath)
    BY <2>2, Kinds DEF Linked
  <2>8. \A i \in DOMAIN stack' : i > 1 => Linked(stack'[i], stack'[i - 1], ctx'.path)
    BY <2>1, <2>3, <2>7
  <2>9. StandsInv'
    BY <2>1, <2>2, <2>3, <2>6, <2>8, EmptyIsPath DEF StandsInv, PathInv
  <2>10. \A n \in DisplayNames :
           /\ n \in Preset => \/ ctx'.fields[n].failed
                              \/ ctx'.fields[n].matched /\ ctx'.fields[n].leaf = PresetValue
           /\ n \notin Preset => ctx'.fields[n] = Unmatched
    <3>1. PICK memory \in BOOLEAN : ctx'.fields = set_display_config(memory)
      BY <1>3, <1>12
    <3> QED
      BY <3>1 DEF set_display_config
  <2>11. \A n \in Names : truth'[n] = <<>>
    BY <1>6, <1>8 DEF NoTruth
  <2>12. \A n \in DisplayNames : ShownAs(n)'
    BY <2>10, <2>11 DEF ShownAs, Names
  <2>13. ShownInv'
    BY <1>6, <1>8, <2>10, <2>11, <2>12 DEF ShownInv, Names
  <2> QED
    BY <1>10, <2>5, <2>9, <2>13 DEF DisplayInv
<1> QED
  BY <1>11, <1>12

LEMMA BeginDisplay ==
  ASSUME NEW tracked \in BOOLEAN, Begin("display", tracked)
  PROVE DisplayInv'
<1>1. /\ DOMAIN stack' = {1} /\ Len(stack') = 1 /\ Top' = stack'[1] /\ stack'[1].kind = "argument"
      /\ stack'[1].visited /\ stack'[1].where = <<>> /\ truth' = NoTruth
      /\ misplaced' = FALSE /\ cut' = FALSE
      /\ ctx'.path = EmptyPath /\ ~ctx'.active
  BY BeginFrames, Zenon
<1>2. StandsInv'
  BY BeginStands
<1>3. BusyInv' /\ EnteredInv'
  BY <1>1 DEF BusyInv, EnteredInv, Behind, Named
<1>4. ScreenInv'
  BY <1>1 DEF ScreenInv
<1>5. \A n \in HoldingNames : truth'[n] = <<>>
  BY <1>1 DEF NoTruth, Names
<1>6. ~Clean'
  BY <1>1 DEF Clean
<1>7. ShownInv'
  BY <1>1, <1>5, <1>6 DEF ShownInv
<1> QED
  BY <1>2, <1>3, <1>4, <1>7 DEF DisplayInv

\* A field that does not object was not given up, is there when it is mandatory, and has a
\* known token when it is the amount of one.
LEMMA VerdictOk ==
  ASSUME NEW n, NEW starved, FieldVerdict(n, starved) = "ok"
  PROVE /\ ~ctx.fields[n].failed /\ (Fields[n].mandatory => IsSet(n))
        /\ (IsSet(n) /\ Fields[n].format = "token") => ~UnknownToken
<1>1. /\ ~ctx.fields[n].failed /\ (Fields[n].mandatory => IsSet(n))
      /\ IsSet(n) => ~FormatFails(n, starved)
  BY Zenon DEF FieldVerdict
<1>2. (Fields[n].format = "token" /\ UnknownToken) => FormatFails(n, starved)
  BY DEF FormatFails
<1> QED
  BY <1>1, <1>2

\* What a walk ends with.
LEMMA EndValues ==
  ASSUME TypeInv, NEW kind, End(kind)
  PROVE /\ reader' = "idle" /\ outcome'.kind = kind /\ truth' = truth /\ misplaced' = misplaced
        /\ cut' = cut
        /\ kind \in {"shown", "reported"} =>
             \A n \in Kept \cap Names : outcome'.values[n] = ctx.fields[n].leaf
        /\ \A n \in Names :
             (kind \notin {"shown", "reported"} \/ n \notin Kept) => outcome'.values[n] = NoValue
<1>1. DOMAIN ctx.fields = Kept
  BY DEF TypeInv, Context
<1>2. PICK v : v = [n \in Names |-> IF kind \in {"shown", "reported"} /\ n \in DOMAIN ctx.fields
                                    THEN ctx.fields[n].leaf ELSE NoValue]
  OBVIOUS
<1>3. outcome' = [kind |-> kind, values |-> v]
  BY <1>2 DEF End
<1>4. outcome'.kind = kind /\ outcome'.values = v
  BY <1>3
<1>5. /\ reader' = "idle" /\ truth' = truth /\ misplaced' = misplaced /\ cut' = cut
  BY DEF End, history
<1> QED
  BY <1>1, <1>2, <1>4, <1>5

\* A display walk that ends with a screen was clean, and every name of the screen is kept as it
\* was met.
LEMMA ShownWasClean ==
  ASSUME FrameInv, DisplayInv, reader = "display", Len(stack) = 1, NEW starved,
         DisplayOutcome(starved) = "shown"
  PROVE /\ ~misplaced /\ ctx.active
        /\ \A n \in DisplayNames : FieldVerdict(n, starved) = "ok" /\ ShownAs(n)
<1>1. WalkInv /\ TypeInv /\ ShownInv
  BY DEF FrameInv, WalkInv, DisplayInv
<1>2. /\ ctx.active /\ ~ctx.unreadable
      /\ \A n \in DisplayNames : FieldVerdict(n, starved) = "ok"
  BY DisplayVerdict
<1>3. ~Overdue
  <2>1. \A i \in DOMAIN stack : stack[i].kind = "argument"
    BY <1>1 DEF WalkInv, BottomInv, TypeInv
  <2> QED
    BY <2>1 DEF Overdue, Owes, Named
<1>4. ctx.tracked
  <2>1. PICK n \in DisplayNames \ Preset : Fields[n].mandatory
    BY FieldsAssumption
  <2>2. ctx.fields[n].leaf # NoValue
    BY <1>2, <2>1, VerdictOk DEF IsSet
  <2>3. ctx.fields[n] # Unmatched
    BY <2>2 DEF Unmatched
  <2> QED
    BY <1>1, <1>2, <2>1, <2>3 DEF ShownInv
<1>5. Clean
  BY <1>2, <1>3, <1>4 DEF Clean
<1> QED
  BY <1>1, <1>2, <1>5 DEF ShownInv

\* A row of the screen that was not given up tells what stood at its path.
LEMMA RowTells ==
  ASSUME NEW n \in DisplayNames \ Preset, ShownAs(n), ~ctx.fields[n].failed
  PROVE /\ Len(truth[n]) <= 1
        /\ ctx.fields[n].leaf =
             IF truth[n] = <<>> \/ truth[n][1].value = "empty" THEN NoValue ELSE truth[n][1]
<1>1. CASE truth[n] = <<>> /\ ctx.fields[n] = Unmatched
  <2>1. ctx.fields[n].leaf = NoValue
    BY <1>1 DEF Unmatched
  <2> QED
    BY <1>1, <2>1
<1>2. ASSUME NEW v \in Standing, truth[n] = <<v>>, ctx.fields[n].leaf = Blanked(v)
      PROVE /\ Len(truth[n]) <= 1
            /\ ctx.fields[n].leaf =
             IF truth[n] = <<>> \/ truth[n][1].value = "empty" THEN NoValue ELSE truth[n][1]
  <2>1. Len(truth[n]) = 1 /\ truth[n] # <<>> /\ truth[n][1] = v
    BY <1>2
  <2> QED
    BY <1>2, <2>1 DEF Blanked
<1> QED
  BY <1>1, <1>2 DEF ShownAs

LEMMA FinishShows ==
  ASSUME FrameInv, reader = "display" => DisplayInv, NEW starved, Finish(starved)
  PROVE ShownStandsAlone' /\ TokenIsKnown'
<1>1. WalkInv /\ TypeInv
  BY DEF FrameInv, WalkInv
<1>2. stack # <<>> /\ Len(stack) = 1
  BY DEF Finish, InSlot
<1>3. PICK kind : End(kind) /\ kind = IF reader = "display" THEN DisplayOutcome(starved) ELSE HoldingOutcome
  BY Zenon DEF Finish
<1>4. /\ outcome'.kind = kind /\ truth' = truth /\ misplaced' = misplaced
      /\ kind = "shown" => \A n \in Kept \cap Names : outcome'.values[n] = ctx.fields[n].leaf
  BY <1>1, <1>3, EndValues
<1>5. CASE kind # "shown"
  BY <1>4, <1>5 DEF ShownStandsAlone, TokenIsKnown
<1>6. CASE kind = "shown"
  <2>1. reader = "display" /\ DisplayOutcome(starved) = "shown"
    <3>1. HoldingOutcome # "shown"
      BY Zenon DEF HoldingOutcome
    <3> QED
      BY <1>3, <1>6, <3>1
  <2>2. /\ ~misplaced /\ ctx.active
        /\ \A n \in DisplayNames : FieldVerdict(n, starved) = "ok" /\ ShownAs(n)
    BY <1>2, <2>1, ShownWasClean
  <2>3. \A n \in DisplayNames : outcome'.values[n] = ctx.fields[n].leaf
    BY <1>4, <1>6, <2>1, <2>2 DEF Kept, Names
  <2>4. \A n \in DisplayNames : ~ctx.fields[n].failed /\ (Fields[n].mandatory => IsSet(n))
    BY <2>2, VerdictOk
  <2>5. \A n \in DisplayNames \ Preset :
          OnlyValue(n)' /\ (Fields[n].mandatory => outcome'.values[n] # NoValue)
    <3> SUFFICES ASSUME NEW n \in DisplayNames \ Preset
                 PROVE OnlyValue(n)' /\ (Fields[n].mandatory => outcome'.values[n] # NoValue)
      OBVIOUS
    <3>1. OnlyValue(n)'
      BY <1>4, <2>2, <2>3, <2>4, RowTells DEF OnlyValue
    <3>2. Fields[n].mandatory => outcome'.values[n] # NoValue
      BY <2>3, <2>4 DEF IsSet
    <3> QED
      BY <3>1, <3>2
  <2>6. \A n \in Preset : truth'[n] = <<>>
    <3>1. \A n \in Preset : n \in DisplayNames
      BY NamesAssumption
    <3> QED
      BY <1>4, <2>2, <2>4, <3>1 DEF ShownAs
  <2>7. ShownStandsAlone'
    BY <1>4, <2>2, <2>5, <2>6 DEF ShownStandsAlone
  <2>8. ASSUME NEW n \in DisplayNames, Fields[n].format = "token"
        PROVE \E t \in KnownTokens :
                truth'["ADMIN"][1].value = t[1] /\ truth'["INSTRUMENT"][1].value = t[2]
    <3>1. /\ Fields[n].mandatory
          /\ \A m \in {"ADMIN", "INSTRUMENT"} : m \in DisplayNames \ Preset /\ Fields[m].mandatory
      BY <2>8, FieldsAssumption
    <3>2. ~UnknownToken
      BY <2>2, <2>4, <2>8, <3>1, VerdictOk
    <3>3. \A m \in {"ADMIN", "INSTRUMENT"} : IsSet(m) /\ truth[m][1].value = ValueOf(m)
      <4> SUFFICES ASSUME NEW m \in {"ADMIN", "INSTRUMENT"}
                   PROVE IsSet(m) /\ truth[m][1].value = ValueOf(m)
        OBVIOUS
      <4>1. IsSet(m) /\ m \in DisplayNames \ Preset
        BY <2>4, <3>1
      <4>2. ctx.fields[m].leaf = truth[m][1]
        BY <2>2, <2>4, <4>1, RowTells DEF IsSet
      <4> QED
        BY <4>1, <4>2 DEF ValueOf
    <3>4. <<ValueOf("ADMIN"), ValueOf("INSTRUMENT")>> \in KnownTokens
      BY <3>2, <3>3 DEF UnknownToken
    <3> QED
      BY <1>4, <3>3, <3>4
  <2>9. TokenIsKnown'
    BY <2>8 DEF TokenIsKnown
  <2> QED
    BY <2>7, <2>9
<1> QED
  BY <1>5, <1>6

ReadInv == FrameInv /\ (reader = "display" => DisplayInv) /\ ShownStandsAlone /\ TokenIsKnown

\* While a walk is under way there is no outcome to speak of.
LEMMA NotYetShown ==
  ASSUME ShapeInv, reader # "idle", outcome' = outcome
  PROVE ShownStandsAlone' /\ TokenIsKnown'
<1>1. outcome'.kind = "none"
  BY DEF ShapeInv, NoOutcome
<1> QED
  BY <1>1 DEF ShownStandsAlone, TokenIsKnown

LEMMA NextRead ==
  ASSUME RecordArguments
  PROVE ReadInv /\ [Next]_vars => ReadInv'
<1> SUFFICES ASSUME ReadInv, [Next]_vars PROVE ReadInv'
  OBVIOUS
<1>1. FrameInv /\ (reader = "display" => DisplayInv) /\ TypeInv /\ ShapeInv
  BY DEF ReadInv, FrameInv, WalkInv
<1>2. FrameInv'
  BY <1>1, NextFrameInv
<1>3. stack # <<>> => reader # "idle"
  BY <1>1 DEF TypeInv
<1>4. ASSUME NEW r \in {"display", "holding"}, NEW tracked \in BOOLEAN, Begin(r, tracked) PROVE ReadInv'
  <2>1. reader' = r /\ outcome' = NoOutcome
    BY <1>4, BeginFrames, Zenon
  <2>2. reader' = "display" => DisplayInv'
    BY <1>4, <2>1, BeginDisplay
  <2>3. outcome'.kind = "none"
    BY <2>1 DEF NoOutcome
  <2> QED
    BY <1>2, <2>2, <2>3 DEF ReadInv, ShownStandsAlone, TokenIsKnown
<1>5. ASSUME NEW k \in {"record", "optional", "text_map", "opaque"}, OpenValue(k) PROVE ReadInv'
  <2>1. stack # <<>> /\ reader' = reader /\ outcome' = outcome
    BY <1>1, <1>5, OpenValueStack DEF OpenValue
  <2> QED
    BY <1>1, <1>2, <1>3, <1>5, <2>1, OpenValueDisplay, NotYetShown DEF ReadInv
<1>6. ASSUME NEW chooses \in BOOLEAN, RecordId(chooses) PROVE ReadInv'
  <2>1. stack # <<>> /\ reader' = reader /\ outcome' = outcome /\ reader = "display"
    BY <1>1, <1>6, RecordIdEffect DEF RecordId
  <2> QED
    BY <1>1, <1>2, <1>3, <1>6, <2>1, RecordIdDisplay, NotYetShown DEF ReadInv
<1>7. CASE OpenSlot
  <2>1. stack # <<>> /\ reader' = reader /\ outcome' = outcome
    BY <1>1, <1>7, OpenSlotStack DEF OpenSlot
  <2> QED
    BY <1>1, <1>2, <1>3, <1>7, <2>1, OpenSlotDisplay, NotYetShown DEF ReadInv
<1>8. ASSUME NEW leaf \in Leaves, Scalar(leaf) PROVE ReadInv'
  <2>1. stack # <<>> /\ reader' = reader /\ outcome' = outcome
    BY <1>8 DEF Scalar, InSlot
  <2> QED
    BY <1>1, <1>2, <1>3, <1>8, <2>1, ScalarDisplay, NotYetShown DEF ReadInv
<1>9. ASSUME NEW l \in Labels \cup {"?"}, Label(l) PROVE ReadInv'
  <2>1. stack # <<>> /\ reader' = reader /\ outcome' = outcome
    BY <1>9, Zenon DEF Label, InSlot
  <2> QED
    BY <1>1, <1>2, <1>3, <1>9, <2>1, LabelDisplay, NotYetShown DEF ReadInv
<1>10. ASSUME NEW memory \in BOOLEAN, CloseSlot(memory) PROVE ReadInv'
  <2>1. stack # <<>> /\ reader' = reader /\ outcome' = outcome
    BY <1>10, Zenon DEF CloseSlot, InSlot
  <2> QED
    BY <1>1, <1>2, <1>3, <1>10, <2>1, CloseSlotDisplay, NotYetShown DEF ReadInv
<1>11. CASE CloseValue
  <2>1. stack # <<>> /\ reader' = reader /\ outcome' = outcome
    BY <1>11 DEF CloseValue, InContainer
  <2> QED
    BY <1>1, <1>2, <1>3, <1>11, <2>1, CloseValueDisplay, NotYetShown DEF ReadInv
<1>12. ASSUME NEW starved \in SUBSET DisplayNames, Finish(starved) PROVE ReadInv'
  <2>1. reader' = "idle"
    BY <1>12, Zenon DEF Finish, End
  <2> QED
    BY <1>1, <1>2, <1>12, <2>1, FinishShows DEF ReadInv
<1>13. CASE DecodeFails
  <2>1. PICK kind \in {"refused", "unparsed"} : End(kind)
    BY <1>13, DecodeFailsKinds
  <2>2. reader' = "idle" /\ outcome'.kind # "shown"
    BY <1>1, <2>1, EndValues
  <2> QED
    BY <1>2, <2>2 DEF ReadInv, ShownStandsAlone, TokenIsKnown
<1>14. CASE UNCHANGED vars
  <2>1. DisplayInv => DisplayInv'
    BY <1>14, StutterStands
       DEF DisplayInv, BusyInv, EnteredInv, Behind, Entered, ScreenInv, ShownInv, ShownAs, Clean,
           Overdue, Top, vars
  <2>2. ShownStandsAlone' /\ TokenIsKnown'
    BY <1>14 DEF ReadInv, ShownStandsAlone, TokenIsKnown, OnlyValue, vars
  <2> QED
    BY <1>1, <1>2, <1>14, <2>1, <2>2 DEF ReadInv, vars
<1> QED
  BY <1>4, <1>5, <1>6, <1>7, <1>8, <1>9, <1>10, <1>11, <1>12, <1>13, <1>14 DEF Next

LEMMA InitRead == Init => ReadInv
<1> SUFFICES ASSUME Init PROVE ReadInv
  OBVIOUS
<1>1. reader = "idle" /\ outcome.kind = "none"
  BY DEF Init, NoOutcome
<1> QED
  BY <1>1, InitFrameInv DEF ReadInv, ShownStandsAlone, TokenIsKnown

\* format_and_populate_display_items shows a screen only if each of its rows is the one value at
\* its path, for arguments of any shape and size: every way in which the walk can lose its place
\* (a label late, missing, too long, a second value on a path) leaves a mark that is still there
\* when the argument ends.
THEOREM ScreenStandsAlone == ASSUME RecordArguments PROVE Spec => []ShownStandsAlone
<1>1. Init => ReadInv
  BY InitRead
<1>2. ReadInv /\ [Next]_vars => ReadInv'
  BY NextRead
<1>3. ReadInv => ShownStandsAlone
  BY DEF ReadInv
<1> QED
  BY <1>1, <1>2, <1>3, PTL DEF Spec

\* The ticker on the screen is that of the instrument in the argument (format_token_amount_field).
THEOREM TickerIsKnown == ASSUME RecordArguments PROVE Spec => []TokenIsKnown
<1>1. Init => ReadInv
  BY InitRead
<1>2. ReadInv /\ [Next]_vars => ReadInv'
  BY NextRead
<1>3. ReadInv => TokenIsKnown
  BY DEF ReadInv
<1> QED
  BY <1>1, <1>2, <1>3, PTL DEF Spec

-----------------------------------------------------------------------------
(***************************************************************************)
(* The depth of the holding walk                                           *)
(***************************************************************************)
LEMMA DepthTypes ==
  ASSUME NEW f \in FrameType
  PROVE DepthOf(f) \in Nat
<1>1. Where(f) \in Seq(Labels \cup {"?"}) /\ f.where \in Seq(Labels \cup {"?"})
  BY WhereType DEF FrameType
<1>2. \A s \in Seq(Labels \cup {"?"}) : Len(s) \in Nat /\ Len(s) + 1 \in Nat
  OBVIOUS
<1> QED
  BY <1>1, <1>2 DEF DepthOf

\* The depth of a slot does not depend on its label.
LEMMA NamedDepth ==
  ASSUME NEW f, f.kind \in Named, f.where \in Seq(Labels \cup {"?"}), ~f.labelled
  PROVE /\ DepthOf(f) = Len(f.where) + 1
        /\ \A g, l : (g.kind = f.kind /\ g.labelled /\ g.where = Append(f.where, l)) => DepthOf(g) = DepthOf(f)
<1>1. f.kind \in Slots
  BY DEF Named, Slots
<1>2. \A l : Len(Append(f.where, l)) = Len(f.where) + 1
  OBVIOUS
<1>3. Where(f) = Append(f.where, "?")
  BY DEF Where, Named
<1>4. DepthOf(f) = Len(f.where) + 1
  BY <1>1, <1>2, <1>3 DEF DepthOf
<1>5. ASSUME NEW g, NEW l, g.kind = f.kind, g.labelled, g.where = Append(f.where, l)
      PROVE DepthOf(g) = DepthOf(f)
  <2>1. Where(g) = Append(f.where, l)
    BY <1>5 DEF Where
  <2> QED
    BY <1>1, <1>2, <1>4, <1>5, <2>1 DEF DepthOf
<1> QED
  BY <1>4, <1>5

\* A frame that keeps its place keeps its depth.
LEMMA SameDepth ==
  ASSUME NEW g, NEW f, g.kind = f.kind, g.where = f.where, g.labelled = f.labelled
  PROVE DepthOf(g) = DepthOf(f)
BY DEF DepthOf, Where

LEMMA LevelReplaces ==
  ASSUME TypeInv, LevelInv, stack # <<>>, NEW g, Replaces(g), SameBut(g, Top),
         DepthOf(g) = DepthOf(Top), ctx'.depth = ctx.depth
  PROVE LevelInv'
<1>1. Top = stack[Len(stack)] /\ Len(stack) \in DOMAIN stack /\ DOMAIN stack' = DOMAIN stack
  BY FrameFacts DEF Replaces
<1>2. \A i \in DOMAIN stack : SameBut(stack'[i], stack[i]) /\ DepthOf(stack'[i]) = DepthOf(stack[i])
  BY <1>1, FramesReplaced DEF SameBut
<1>3. \A i \in DOMAIN stack : i > 1 => i - 1 \in DOMAIN stack
  BY FrameFacts
<1>4. \A i \in DOMAIN stack : Leveled(stack'[i])
  BY <1>2 DEF LevelInv, Leveled, SameBut
<1>5. \A i \in DOMAIN stack : i > 1 => Rises(stack'[i], stack'[i - 1])
  BY <1>2, <1>3 DEF LevelInv, Rises, SameBut
<1>6. \A i \in DOMAIN stack :
        (stack'[i].visited /\ \A j \in DOMAIN stack : j > i => ~stack'[j].visited) =>
          ctx'.depth = DepthOf(stack'[i])
  BY <1>2 DEF LevelInv, SameBut
<1>7. \A i \in DOMAIN stack' : Leveled(stack'[i]) /\ (i > 1 => Rises(stack'[i], stack'[i - 1]))
  BY <1>1, <1>4, <1>5
<1> QED
  BY <1>1, <1>6, <1>7 DEF LevelInv, Leveled, Rises, DepthOf, Where

LEMMA LevelExtends ==
  ASSUME TypeInv, LevelInv, stack # <<>>, NEW g, NEW f, Extends(g, f), SameBut(g, Top),
         DepthOf(g) = DepthOf(Top), Leveled(f), Rises(f, Top),
         f.visited => ctx'.depth = DepthOf(f), ~f.visited => ctx'.depth = ctx.depth
  PROVE LevelInv'
<1>1. /\ Top = stack[Len(stack)] /\ Len(stack) \in DOMAIN stack /\ Len(stack) \in Nat \ {0}
      /\ DOMAIN stack = 1..Len(stack) /\ DOMAIN stack' = 1..Len(stack) + 1
  BY FrameFacts DEF Extends
<1>2. /\ Len(stack) + 1 \in DOMAIN stack' /\ stack'[Len(stack) + 1] = f
      /\ \A i \in DOMAIN stack' : i = Len(stack) + 1 \/ i \in DOMAIN stack
      /\ \A i \in DOMAIN stack : i \in DOMAIN stack'
  BY FramesExtended
<1>3. \A i \in DOMAIN stack : SameBut(stack'[i], stack[i]) /\ DepthOf(stack'[i]) = DepthOf(stack[i])
  BY <1>1, FramesExtended DEF SameBut
<1>4. \A i \in DOMAIN stack : (i > 1 => i - 1 \in DOMAIN stack) /\ i < Len(stack) + 1
  BY <1>1
<1>5. \A i \in DOMAIN stack' : Leveled(stack'[i])
  BY <1>2, <1>3 DEF LevelInv, Leveled, SameBut
<1>6. ASSUME NEW i \in DOMAIN stack', i > 1 PROVE Rises(stack'[i], stack'[i - 1])
  <2>1. CASE i = Len(stack) + 1
    <3>1. i - 1 = Len(stack)
      BY <1>1, <2>1
    <3>2. DepthOf(stack'[i - 1]) = DepthOf(Top)
      BY <1>1, <1>3, <3>1
    <3> QED
      BY <1>2, <2>1, <3>2 DEF Rises
  <2>2. CASE i \in DOMAIN stack
    BY <1>3, <1>4, <1>6, <2>2 DEF LevelInv, Rises, SameBut
  <2> QED
    BY <1>2, <2>1, <2>2
<1>7. ASSUME NEW i \in DOMAIN stack', stack'[i].visited,
             \A j \in DOMAIN stack' : j > i => ~stack'[j].visited
      PROVE ctx'.depth = DepthOf(stack'[i])
  <2>1. CASE i = Len(stack) + 1
    BY <1>2, <1>7, <2>1
  <2>2. CASE i \in DOMAIN stack
    <3>1. ~f.visited
      <4>1. Len(stack) + 1 > i
        BY <1>1, <2>2
      <4> QED
        BY <1>2, <1>7, <4>1
    <3>2. stack[i].visited /\ \A j \in DOMAIN stack : j > i => ~stack[j].visited
      BY <1>2, <1>3, <1>7, <2>2 DEF SameBut
    <3> QED
      BY <1>3, <2>2, <3>1, <3>2 DEF LevelInv
  <2> QED
    BY <1>2, <2>1, <2>2
<1>8. \A i \in DOMAIN stack' : Leveled(stack'[i]) /\ (i > 1 => Rises(stack'[i], stack'[i - 1]))
  BY <1>5, <1>6
<1> QED
  BY <1>7, <1>8 DEF LevelInv, Leveled, Rises, DepthOf, Where

LEMMA LevelDrops ==
  ASSUME TypeInv, LevelInv, NestedInv, stack # <<>>, Len(stack) > 1, Drops,
         Top.visited => ctx'.depth = DepthOf(stack[Len(stack) - 1]),
         ~Top.visited => ctx'.depth = ctx.depth
  PROVE LevelInv'
<1>1. /\ Top = stack[Len(stack)] /\ Len(stack) \in DOMAIN stack /\ Len(stack) \in Nat \ {0}
      /\ DOMAIN stack = 1..Len(stack) /\ DOMAIN stack' = 1..Len(stack) - 1
  BY FrameFacts DEF Drops
<1>2. \A i \in DOMAIN stack' : i \in DOMAIN stack /\ i < Len(stack) /\ stack'[i] = stack[i]
  BY FramesDropped
<1>3. \A i \in DOMAIN stack' : i > 1 => i - 1 \in DOMAIN stack'
  BY <1>1
<1>4. \A i \in DOMAIN stack' : Leveled(stack'[i]) /\ (i > 1 => Rises(stack'[i], stack'[i - 1]))
  BY <1>2, <1>3 DEF LevelInv
<1>5. ASSUME NEW i \in DOMAIN stack', stack'[i].visited,
             \A j \in DOMAIN stack' : j > i => ~stack'[j].visited
      PROVE ctx'.depth = DepthOf(stack'[i])
  <2>1. CASE Top.visited
    <3>1. Len(stack) - 1 \in DOMAIN stack' /\ Len(stack) - 1 \in DOMAIN stack /\ Len(stack) - 1 < Len(stack)
      BY <1>1
    <3>2. stack'[Len(stack) - 1].visited
      BY <1>1, <1>2, <2>1, <3>1 DEF NestedInv
    <3>3. i = Len(stack) - 1 \/ Len(stack) - 1 > i
      BY <1>1
    <3>4. i = Len(stack) - 1
      BY <1>5, <3>1, <3>2, <3>3
    <3> QED
      BY <1>2, <2>1, <3>4
  <2>2. CASE ~Top.visited
    <3>1. \A j \in DOMAIN stack : j > i => ~stack[j].visited
      <4> SUFFICES ASSUME NEW j \in DOMAIN stack, j > i PROVE ~stack[j].visited
        OBVIOUS
      <4>1. j = Len(stack) \/ j \in 1..Len(stack) - 1
        BY <1>1, BelowOrTop
      <4> QED
        BY <1>1, <1>2, <1>5, <2>2, <4>1
    <3> QED
      BY <1>2, <1>5, <2>2, <3>1 DEF LevelInv
  <2> QED
    BY <2>1, <2>2
<1> QED
  BY <1>4, <1>5 DEF LevelInv, Leveled, Rises, DepthOf, Where

-----------------------------------------------------------------------------
(***************************************************************************)
(* The holding walk                                                        *)
(***************************************************************************)
HoldingInv == StandsInv /\ EnteredInv /\ LevelInv /\ CutInv /\ HeldInv

\* What is kept and what was met stay while neither changes.
LEMMA HeldStays ==
  ASSUME HeldInv, ctx'.fields = ctx.fields, truth' = truth, Sound' => Sound /\ misplaced' = misplaced
  PROVE HeldInv'
<1>1. \A n \in HoldingNames : HeldAs(n) => HeldAs(n)'
  BY DEF HeldAs
<1> QED
  BY <1>1 DEF HeldInv

LEMMA SoundBefore ==
  ASSUME CutInv, reader = "holding", reader' = reader, ctx'.active = ctx.active,
         ctx'.tracked = ctx.tracked, ~ctx'.unreadable => ~ctx.unreadable, cut' = cut,
         Clean' => Clean
  PROVE Sound' => Sound
<1> SUFFICES ASSUME Sound' PROVE Sound
  OBVIOUS
<1>1. NoDots /\ ~ctx'.unreadable /\ ~ctx.unreadable /\ ~cut /\ (ctx.active => ~Overdue')
  BY DEF Sound
<1>2. ctx.active => Clean'
  BY <1>1 DEF Clean, CutInv
<1>3. ctx.active => ~Overdue
  BY <1>2 DEF Clean
<1> QED
  BY <1>1, <1>3 DEF Sound

\* A slot of the walk is at its depth.
LEMMA DepthAtTop ==
  ASSUME FrameInv, LevelInv, stack # <<>>
  PROVE /\ Top.visited => Top.plain /\ ctx.depth = DepthOf(Top)
        /\ Top.plain => (Top.visited <=> DepthOf(Top) <= MAX_LABEL_DEPTH)
        /\ DepthOf(Top) \in Nat /\ MAX_LABEL_DEPTH \in Nat
<1>1. /\ TypeInv /\ Top = stack[Len(stack)] /\ Len(stack) \in DOMAIN stack /\ Len(stack) \in Nat
      /\ \A j \in DOMAIN stack : j \in Nat /\ j <= Len(stack)
  BY FrameFacts DEF FrameInv, WalkInv
<1>2. \A j \in DOMAIN stack : ~(j > Len(stack))
  BY <1>1
<1>3. Top \in FrameType
  BY <1>1, TopFacts
<1>4. MAX_LABEL_DEPTH \in Nat
  BY BoundsAssumption
<1> QED
  BY <1>1, <1>2, <1>3, <1>4, DepthTypes DEF LevelInv, Leveled

LEMMA OpenValueHolding ==
  ASSUME FrameInv, HoldingInv, reader = "holding",
         NEW k \in {"record", "optional", "text_map", "opaque"}, OpenValue(k)
  PROVE HoldingInv'
<1>1. WalkInv /\ ShapeInv /\ OpenedInv /\ TypeInv
  BY DEF FrameInv, WalkInv
<1>2. StandsInv /\ EnteredInv /\ LevelInv /\ CutInv /\ HeldInv
  BY DEF HoldingInv
<1>3. stack # <<>> /\ Enters(k) \in BOOLEAN /\ Top.kind \in Slots
  BY <1>1, OpenValueStack
<1>4. PICK g, f :
        /\ SameBut(g, Top) /\ g.where = Top.where /\ g.labelled = Top.labelled /\ g.value = Container(k)
        /\ k = "opaque" => Replaces(g)
        /\ k # "opaque" =>
             /\ Extends(g, f) /\ f.kind = k /\ f.visited = Enters(k) /\ f.where = Where(Top)
             /\ f.plain = (Top.plain /\ k = "record") /\ f.value = NoValue
  BY <1>1, OpenValueFrames
<1>5. /\ ctx'.active = ctx.active /\ ctx'.tracked = ctx.tracked /\ ctx'.fields = ctx.fields
      /\ ctx'.unreadable = ctx.unreadable
      /\ ctx'.opened = IF Enters(k) THEN ctx.opened + 1 ELSE ctx.opened
      /\ ctx'.depth = IF Enters(k) /\ k = "record" THEN ctx.depth + 1 ELSE ctx.depth
  BY <1>1, OpenValueContext
<1>6. /\ reader' = reader /\ truth' = truth /\ misplaced' = misplaced /\ cut' = cut
  BY DEF OpenValue, history
<1>7. Enters(k) <=> Top.visited /\ k = "record" /\ ctx.depth < MAX_LABEL_DEPTH
  BY DEF Enters
<1>8. /\ ctx.opened \in Nat /\ ctx.depth \in Nat /\ Top = stack[Len(stack)] /\ Len(stack) \in DOMAIN stack
      /\ Top.before \in Nat /\ Top.visited \in BOOLEAN /\ Top.where \in Seq(Labels \cup {"?"})
      /\ Top.plain \in BOOLEAN
  <2>1. Top.where \in Seq(Labels \cup {"?"})
    BY <1>1, <1>3, TopFacts DEF FrameType
  <2> QED
    BY <1>1, <1>3, <2>1, TopFacts, FrameFacts, BeforeTypes
<1>9. ctx'.opened \in Nat /\ ctx.opened <= ctx'.opened /\ (Enters(k) => ctx'.opened = ctx.opened + 1)
  BY <1>3, <1>5, <1>8
<1>10. /\ Top.visited => Top.plain /\ ctx.depth = DepthOf(Top)
       /\ Top.plain => (Top.visited <=> DepthOf(Top) <= MAX_LABEL_DEPTH)
       /\ DepthOf(Top) \in Nat /\ MAX_LABEL_DEPTH \in Nat
  BY <1>2, <1>3, DepthAtTop
<1>11. Behind(g, ctx'.opened)
  <2> SUFFICES ASSUME g.kind \in Named, g.visited, Entered(g), ~g.labelled
               PROVE g.before < ctx'.opened
    BY DEF Behind
  <2>1. Top.kind \in Named /\ Top.visited /\ ~Top.labelled /\ g.before = Top.before
    BY <1>4 DEF SameBut
  <2>2. k = "record" /\ Len(Top.where) + 1 < MAX_LABEL_DEPTH
    BY <1>4, ValueKinds DEF Entered
  <2>3. DepthOf(Top) = Len(Top.where) + 1
    BY <1>8, <2>1, NamedDepth
  <2>4. Enters(k)
    BY <1>7, <1>10, <2>1, <2>2, <2>3
  <2>5. Top.before <= ctx.opened
    BY <1>1, <1>8 DEF OpenedInv
  <2> QED
    BY <1>8, <1>9, <2>1, <2>4, <2>5
<1>12. StandsInv' /\ (Clean' => Clean)
  BY <1>2, OpenValueStands
<1>13. Sound' => Sound
  BY <1>2, <1>5, <1>6, <1>12, SoundBefore
<1>14. HeldInv' /\ CutInv'
  BY <1>2, <1>5, <1>6, <1>13, HeldStays DEF CutInv
<1>15. DepthOf(g) = DepthOf(Top)
  BY <1>4, SameDepth DEF SameBut
<1>16. CASE k = "opaque"
  <2>1. Replaces(g) /\ ctx'.depth = ctx.depth
    BY <1>4, <1>5, <1>16
  <2>2. LevelInv'
    BY <1>1, <1>2, <1>3, <1>4, <1>15, <2>1, LevelReplaces
  <2>3. EnteredInv'
    BY <1>1, <1>2, <1>3, <1>6, <1>9, <1>11, <2>1, EnteredReplaces
  <2> QED
    BY <1>12, <1>14, <2>2, <2>3 DEF HoldingInv
<1>17. CASE k # "opaque"
  <2>1. /\ Extends(g, f) /\ f.kind = k /\ f.visited = Enters(k) /\ f.where = Where(Top)
        /\ f.plain = (Top.plain /\ k = "record") /\ f.value = NoValue
    BY <1>4, <1>17
  <2>2. EnteredInv'
    BY <1>1, <1>2, <1>3, <1>6, <1>9, <1>11, <2>1, EnteredExtends
  <2>3. k \notin Slots
    BY <1>17, Kinds
  <2>4. DepthOf(f) = DepthOf(Top) + 1
    BY <1>3, <2>1, <2>3 DEF DepthOf
  <2>5. Rises(f, Top)
    BY <2>1, <2>3, <2>4 DEF Rises
  <2>6. f.visited => Top.visited /\ k = "record" /\ ctx.depth < MAX_LABEL_DEPTH
    BY <1>7, <2>1
  <2>7. (Top.visited /\ k = "record" /\ ctx.depth < MAX_LABEL_DEPTH) => f.visited
    BY <1>7, <2>1
  <2>8. f.plain => Top.plain /\ k = "record"
    BY <2>1
  <2>9. f.plain => (f.visited <=> DepthOf(f) <= MAX_LABEL_DEPTH)
    BY <1>8, <1>10, <2>4, <2>6, <2>7, <2>8
  <2>10. f.visited => f.plain
    BY <1>10, <2>1, <2>6
  <2>11. /\ f.visited => ctx'.depth = DepthOf(f)
         /\ ~f.visited => ctx'.depth = ctx.depth
    BY <1>5, <1>10, <2>1, <2>4, <2>6
  <2>12. LevelInv'
    BY <1>1, <1>2, <1>3, <1>4, <1>15, <2>1, <2>5, <2>9, <2>10, <2>11, LevelExtends DEF Leveled
  <2> QED
    BY <1>12, <1>14, <2>2, <2>12 DEF HoldingInv
<1> QED
  BY <1>16, <1>17

LEMMA OpenSlotHolding ==
  ASSUME FrameInv, HoldingInv, reader = "holding", OpenSlot
  PROVE HoldingInv'
<1>1. WalkInv /\ ShapeInv /\ OpenedInv /\ TypeInv
  BY DEF FrameInv, WalkInv
<1>2. StandsInv /\ EnteredInv /\ LevelInv /\ CutInv /\ HeldInv
  BY DEF HoldingInv
<1>3. stack # <<>> /\ Top.kind \in DOMAIN SlotOf
  BY <1>1, OpenSlotStack
<1>4. PICK g, f :
        /\ SameBut(g, Top) /\ g.where = Top.where /\ g.labelled = Top.labelled
        /\ g.value = Container("slots") /\ Extends(g, f) /\ f \in FrameType
        /\ f.kind = SlotOf[Top.kind] /\ f.kind \in Slots /\ f.visited = EntersSlot
        /\ f.where = Top.where /\ f.plain = Top.plain /\ ~f.labelled /\ f.value = NoValue /\ On(f, Top)
  BY <1>1, OpenSlotFrames
<1>5. /\ ctx' = ctx /\ reader' = reader /\ truth' = truth /\ misplaced' = misplaced /\ cut' = cut
     
  BY DEF OpenSlot, history
<1>6. f.visited <=> Top.visited
  BY <1>4 DEF EntersSlot
<1>7. /\ Top.visited => Top.plain /\ ctx.depth = DepthOf(Top)
      /\ Top.plain => (Top.visited <=> DepthOf(Top) <= MAX_LABEL_DEPTH)
      /\ DepthOf(Top) \in Nat
  BY <1>2, <1>3, DepthAtTop
<1>8. ctx'.opened \in Nat /\ ctx.opened <= ctx'.opened
  <2>1. ctx.opened \in Nat
    BY <1>1, <1>3, TopFacts
  <2> QED
    BY <1>5, <2>1
<1>9. Behind(g, ctx'.opened)
  BY <1>3, <1>4, Kinds DEF Behind, SameBut, Named
<1>10. StandsInv' /\ (Clean' => Clean)
  BY <1>2, OpenSlotStands
<1>11. Sound' => Sound
  BY <1>2, <1>5, <1>10, SoundBefore
<1>12. HeldInv' /\ CutInv'
  BY <1>2, <1>5, <1>11, HeldStays DEF CutInv
<1>13. DepthOf(g) = DepthOf(Top)
  BY <1>4, SameDepth DEF SameBut
<1>14. f.plain => DepthOf(f) = DepthOf(Top)
  <2> SUFFICES ASSUME f.plain PROVE DepthOf(f) = DepthOf(Top)
    OBVIOUS
  <2>1. f.kind \in Named
    BY <1>4 DEF On, Named, Slots
  <2>2. f.where \in Seq(Labels \cup {"?"})
    BY <1>4 DEF FrameType
  <2>3. DepthOf(f) = Len(f.where) + 1
    BY <1>4, <2>1, <2>2, NamedDepth
  <2> QED
    BY <1>3, <1>4, <2>3, Kinds DEF DepthOf
<1>15. Leveled(f) /\ Rises(f, Top)
  BY <1>4, <1>6, <1>7, <1>14 DEF Leveled, Rises
<1>16. /\ f.visited => ctx'.depth = DepthOf(f)
       /\ ~f.visited => ctx'.depth = ctx.depth
  BY <1>4, <1>5, <1>6, <1>7, <1>14
<1>17. LevelInv'
  BY <1>1, <1>2, <1>3, <1>4, <1>13, <1>15, <1>16, LevelExtends
<1>18. EnteredInv'
  BY <1>1, <1>2, <1>3, <1>4, <1>5, <1>8, <1>9, EnteredExtends
<1> QED
  BY <1>10, <1>12, <1>17, <1>18 DEF HoldingInv

LEMMA ScalarHolding ==
  ASSUME FrameInv, HoldingInv, reader = "holding", NEW leaf \in Leaves, Scalar(leaf)
  PROVE HoldingInv'
<1>1. WalkInv /\ ShapeInv /\ TypeInv
  BY DEF FrameInv, WalkInv
<1>2. StandsInv /\ EnteredInv /\ LevelInv /\ CutInv /\ HeldInv
  BY DEF HoldingInv
<1>3. stack # <<>> /\ ctx' = ctx
  BY <1>1, ScalarFrames
<1>4. PICK g : /\ Replaces(g) /\ SameBut(g, Top) /\ g.where = Top.where /\ g.labelled = Top.labelled
               /\ g.value = leaf
  BY <1>1, ScalarFrames
<1>5. /\ reader' = reader /\ truth' = truth /\ misplaced' = misplaced /\ cut' = cut
  BY DEF Scalar, history
<1>6. ctx'.opened \in Nat /\ ctx.opened <= ctx'.opened
  <2>1. ctx.opened \in Nat
    BY <1>1, <1>3, TopFacts
  <2> QED
    BY <1>3, <2>1
<1>7. Behind(g, ctx'.opened)
  BY <1>4, ValueKinds DEF Behind, Entered
<1>8. StandsInv' /\ (Clean' => Clean)
  BY <1>2, ScalarStands
<1>9. Sound' => Sound
  BY <1>2, <1>3, <1>5, <1>8, SoundBefore
<1>10. HeldInv' /\ CutInv'
  BY <1>2, <1>3, <1>5, <1>9, HeldStays DEF CutInv
<1>11. DepthOf(g) = DepthOf(Top)
  BY <1>4, SameDepth DEF SameBut
<1>12. LevelInv'
  BY <1>1, <1>2, <1>3, <1>4, <1>11, LevelReplaces
<1>13. EnteredInv'
  BY <1>1, <1>2, <1>3, <1>4, <1>5, <1>6, <1>7, EnteredReplaces
<1> QED
  BY <1>8, <1>10, <1>12, <1>13 DEF HoldingInv

LEMMA CloseValueHolding ==
  ASSUME FrameInv, HoldingInv, reader = "holding", CloseValue
  PROVE HoldingInv'
<1>1. WalkInv /\ ShapeInv /\ TypeInv
  BY DEF FrameInv, WalkInv
<1>2. StandsInv /\ EnteredInv /\ LevelInv /\ CutInv /\ HeldInv
  BY DEF HoldingInv
<1>3. /\ stack # <<>> /\ Top.kind \in DOMAIN SlotOf /\ Len(stack) > 1 /\ Drops /\ reader' = reader
      /\ ctx'.active = ctx.active /\ ctx'.tracked = ctx.tracked /\ ctx'.unreadable = ctx.unreadable
      /\ ctx'.fields = ctx.fields /\ ctx'.opened = ctx.opened
      /\ ctx'.depth = IF Top.kind = "record" /\ Top.visited THEN ctx.depth - 1 ELSE ctx.depth
  BY <1>1, CloseValueEffect
<1>4. truth' = truth /\ misplaced' = misplaced /\ cut' = cut
  BY DEF CloseValue, history
<1>5. StandsInv' /\ (Clean' => Clean)
  BY <1>2, CloseValueStands
<1>6. Sound' => Sound
  BY <1>2, <1>3, <1>4, <1>5, SoundBefore
<1>7. HeldInv' /\ CutInv'
  BY <1>2, <1>3, <1>4, <1>6, HeldStays DEF CutInv
<1>8. EnteredInv'
  BY <1>1, <1>2, <1>3, EnteredDrops
<1>9. Top.visited => Top.plain /\ ctx.depth = DepthOf(Top)
  BY <1>2, <1>3, DepthAtTop
<1>10. Len(stack) \in DOMAIN stack /\ Len(stack) - 1 \in DOMAIN stack /\ Top = stack[Len(stack)]
  BY <1>1, <1>3, FrameFacts
<1>11. On(Top, stack[Len(stack) - 1]) /\ Rises(Top, stack[Len(stack) - 1])
  BY <1>1, <1>2, <1>3, <1>10 DEF ShapeInv, LevelInv
<1>12. Top.plain => Top.kind = "record" /\ DepthOf(Top) = DepthOf(stack[Len(stack) - 1]) + 1
  BY <1>3, <1>11, Kinds DEF On, Rises
<1>13. DepthOf(stack[Len(stack) - 1]) \in Nat
  BY <1>1, <1>10, BeforeTypes, DepthTypes
<1>14. /\ Top.visited => ctx'.depth = DepthOf(stack[Len(stack) - 1])
       /\ ~Top.visited => ctx'.depth = ctx.depth
  BY <1>3, <1>9, <1>12, <1>13
<1>15. LevelInv'
  BY <1>1, <1>2, <1>3, <1>14, LevelDrops DEF StandsInv
<1> QED
  BY <1>5, <1>7, <1>8, <1>15 DEF HoldingInv

\* What a label does to the history of a holding walk: a path that does not fit cuts the walk.
LEMMA LabelCuts ==
  ASSUME TypeInv, reader = "holding", NEW l \in Labels \cup {"?"}, Label(l)
  PROVE /\ reader' = reader /\ truth' = truth /\ misplaced' = (misplaced \/ Entered(Top))
        /\ cut' <=> cut \/ (Top.visited /\ ctx.active /\ ~ctx'.active)
<1>1. PICK r : r = read_path_segment(ctx, Top, l)
  OBVIOUS
<1>2. /\ reader' = reader /\ truth' = truth /\ misplaced' = (misplaced \/ Entered(Top))
      /\ Top.visited => ctx' = r
      /\ cut' <=> cut \/ (reader = "holding" /\ Top.visited /\ ctx.active /\ ~r.active)
  BY <1>1, Zenon DEF Label
<1> QED
  BY <1>2, Zenon

\* A walk that is sound after a label was sound before it and has not been inside the value of
\* the label.
LEMMA LabelHolding ==
  ASSUME FrameInv, HoldingInv, reader = "holding", NEW l \in Labels \cup {"?"}, Label(l)
  PROVE HoldingInv'
<1>1. WalkInv /\ ShapeInv /\ OpenedInv /\ TypeInv
  BY DEF FrameInv, WalkInv
<1>2. StandsInv /\ EnteredInv /\ LevelInv /\ CutInv /\ HeldInv
  BY DEF HoldingInv
<1>3. stack # <<>> /\ Top.kind \in Named /\ ~Top.labelled
  BY <1>1, LabelFrames
<1>4. PICK g : Replaces(g) /\ SameBut(g, Top) /\ g.where = Append(Top.where, l) /\ g.labelled
  BY <1>1, LabelFrames
<1>5. /\ Top = stack[Len(stack)] /\ Len(stack) \in DOMAIN stack /\ Len(stack) \in Nat \ {0}
      /\ ctx.opened \in Nat /\ Top.before \in Nat /\ ctx.active \in BOOLEAN /\ DOMAIN stack = 1..Len(stack)
      /\ Top.where \in Seq(Labels \cup {"?"})
  <2>1. Top.where \in Seq(Labels \cup {"?"})
    BY <1>1, <1>3, TopFacts DEF FrameType
  <2> QED
    BY <1>1, <1>3, <2>1, FrameFacts, TopFacts, BeforeTypes
<1>6. /\ reader' = reader /\ truth' = truth /\ misplaced' = (misplaced \/ Entered(Top))
      /\ cut' <=> cut \/ (Top.visited /\ ctx.active /\ ~ctx'.active)
  BY <1>1, LabelCuts
<1>7. /\ ~Top.visited => ctx' = ctx
      /\ Top.visited => Reading(ctx, ctx', Top.before, l, Segments[l], Width[l])
  BY <1>1, LabelEffect, Zenon
<1>8. /\ ctx'.tracked = ctx.tracked /\ ctx'.depth = ctx.depth /\ ctx'.opened = ctx.opened
      /\ ctx'.fields = ctx.fields /\ (ctx'.active => ctx.active)
      /\ ~ctx'.unreadable => ~ctx.unreadable /\ (Top.visited => ctx.opened = Top.before)
  BY <1>7 DEF Reading
<1>9. StandsInv' /\ (Clean' => Clean)
  BY <1>2, LabelStands
<1>10. WalkInv'
  BY <1>1, LabelWalk
<1>11. cut \in BOOLEAN /\ cut' \in BOOLEAN
       /\ misplaced \in BOOLEAN /\ ctx'.active \in BOOLEAN
  BY <1>1, <1>10 DEF WalkInv, TypeInv, Context
<1>12. CutInv'
  <2>1. ctx'.tracked
    BY <1>2, <1>8 DEF CutInv
  <2>2. cut <=> ~ctx.active
    BY <1>2 DEF CutInv
  <2>3. ctx.active /\ ~ctx'.active => Top.visited
    BY <1>7
  <2>4. cut' <=> ~ctx'.active
    BY <1>6, <1>8, <2>2, <2>3
  <2> QED
    BY <1>11, <2>1, <2>4 DEF CutInv
<1>13. ASSUME Sound' PROVE Sound /\ ~Entered(Top)
  <2>1. NoDots /\ ~ctx'.unreadable /\ ~cut' /\ (ctx'.active => ~Overdue')
    BY <1>13 DEF Sound
  <2>2. ~ctx.unreadable /\ ~cut /\ (Top.visited => ctx.opened = Top.before)
    BY <1>6, <1>8, <2>1
  <2>3. ~Entered(Top)
    <3> SUFFICES ASSUME Entered(Top) PROVE FALSE
      OBVIOUS
    <3>1. Top.plain /\ Len(Top.where) + 1 < MAX_LABEL_DEPTH
      BY DEF Entered
    <3>2. DepthOf(Top) = Len(Top.where) + 1
      BY <1>3, <1>5, NamedDepth
    <3>3. Top.visited
      <4>1. /\ Top.plain => (Top.visited <=> DepthOf(Top) <= MAX_LABEL_DEPTH)
            /\ DepthOf(Top) \in Nat /\ MAX_LABEL_DEPTH \in Nat
        BY <1>2, <1>3, DepthAtTop
      <4> QED
        BY <3>1, <3>2, <4>1
    <3>4. Behind(Top, ctx.opened)
      BY <1>2, <1>5 DEF EnteredInv
    <3> QED
      BY <1>3, <1>5, <2>2, <3>3, <3>4 DEF Behind
  <2>4. ~Overdue
    <3>1. ctx'.active
      BY <1>11, <1>12, <2>1 DEF CutInv
    <3>2. Clean'
      BY <1>6, <1>12, <2>1, <3>1 DEF Clean, CutInv
    <3> QED
      BY <1>9, <3>2 DEF Clean
  <2> QED
    BY <2>1, <2>2, <2>3, <2>4 DEF Sound
<1>14. HeldInv'
  BY <1>2, <1>6, <1>8, <1>11, <1>13, HeldStays
<1>15. Behind(g, ctx'.opened)
  BY <1>4 DEF Behind
<1>16. EnteredInv'
  <2>1. ctx'.opened \in Nat /\ ctx.opened <= ctx'.opened
    BY <1>5, <1>8
  <2> QED
    BY <1>1, <1>2, <1>3, <1>4, <1>6, <1>15, <2>1, EnteredReplaces
<1>17. LevelInv'
  <2>1. DepthOf(g) = DepthOf(Top)
    BY <1>3, <1>4, <1>5, NamedDepth DEF SameBut
  <2> QED
    BY <1>1, <1>2, <1>3, <1>4, <1>8, <2>1, LevelReplaces
<1> QED
  BY <1>9, <1>12, <1>14, <1>16, <1>17 DEF HoldingInv

\* A slot ends on a sound holding walk: the names the walk takes are those of the place.
LEMMA CloseSlotTakes ==
  ASSUME FrameInv, HoldingInv, reader = "holding", NEW memory \in BOOLEAN, CloseSlot(memory), Sound'
  PROVE /\ Sound
        /\ ~Top.visited => TrueNames(Top, Where(Top)) = {}
        /\ Top.visited =>
             /\ TrueNames(Top, Where(Top)) = Taken(ctx, Top.value)
             /\ \A n \in Taken(ctx, Top.value) : ~ctx.fields[n].matched
<1>1. WalkInv /\ ShapeInv /\ OpenedInv /\ TypeInv
  BY DEF FrameInv, WalkInv
<1>2. StandsInv /\ EnteredInv /\ LevelInv /\ CutInv /\ HeldInv
  BY DEF HoldingInv
<1>3. /\ stack # <<>> /\ Top.kind \in Slots /\ reader' = reader
      /\ ctx'.active = ctx.active /\ ctx'.tracked = ctx.tracked
      /\ ~Top.visited => ctx' = ctx
  BY <1>1, CloseSlotEffect, Zenon
<1>4. Top.visited => (ctx'.unreadable <=> ctx.unreadable \/ MissingLabel(Top)
                        \/ (reader = "holding" /\ \E n \in Taken(ctx, Top.value) : ctx.fields[n].matched))
  BY <1>1, CloseSlotEffect, Zenon
<1>5. NoDots /\ ~ctx'.unreadable /\ ~cut' /\ (ctx'.active => ~Overdue') /\ cut' = cut
  BY Zenon DEF Sound, CloseSlot
<1>6. ~ctx.unreadable /\ (Top.visited => \A n \in Taken(ctx, Top.value) : ~ctx.fields[n].matched)
  BY <1>3, <1>4, <1>5
<1>7. Clean' => Clean /\ ~(Top.visited /\ MissingLabel(Top))
  BY <1>2, CloseSlotStands
<1>8. Sound
  BY <1>2, <1>3, <1>5, <1>6, <1>7, SoundBefore
<1>9. /\ Top.visited => Top.plain
      /\ Top.plain => (Top.visited <=> DepthOf(Top) <= MAX_LABEL_DEPTH)
      /\ DepthOf(Top) \in Nat /\ MAX_LABEL_DEPTH \in Nat
  BY <1>2, <1>3, DepthAtTop
<1>10. cut <=> ~ctx.active
  BY <1>2 DEF CutInv
<1>11. \A n : n \in TrueNames(Top, Where(Top)) <=>
                n \in HoldingName(Where(Top), Top.value) /\ Top.plain
  BY DEF TrueNames
<1>12. ASSUME ~Top.visited PROVE TrueNames(Top, Where(Top)) = {}
  <2> SUFFICES ASSUME NEW n \in TrueNames(Top, Where(Top)) PROVE FALSE
    OBVIOUS
  <2>1. n \in HoldingNames /\ HoldingPaths[n] = Where(Top) /\ Top.plain
    BY <1>11 DEF HoldingName
  <2>2. Len(Where(Top)) <= MAX_LABEL_DEPTH
    BY <2>1, PathsAssumption
  <2> QED
    BY <1>3, <1>9, <1>12, <2>1, <2>2 DEF DepthOf
<1>13. ASSUME Top.visited PROVE TrueNames(Top, Where(Top)) = Taken(ctx, Top.value)
  <2>1. ctx.active
    BY <1>5, <1>10
  <2>2. Clean'
    BY <1>2, <1>3, <1>5, <2>1 DEF Clean, CutInv
  <2>3. Top.kind \in Named => Top.labelled
    BY <1>7, <1>13, <2>1, <2>2 DEF MissingLabel, Named
  <2>4. ctx.path.labels = Top.where
    BY <1>2, <1>3, <1>7, <1>13, <2>2 DEF StandsInv, PathInv
  <2>5. Where(Top) = ctx.path.labels
    BY <2>3, <2>4 DEF Where, Named
  <2>6. Taken(ctx, Top.value) = HoldingName(Where(Top), Top.value)
    BY <2>1, <2>5 DEF Taken
  <2> QED
    BY <1>9, <1>11, <1>13, <2>6
<1> QED
  BY <1>6, <1>8, <1>12, <1>13

LEMMA CloseSlotHolding ==
  ASSUME FrameInv, HoldingInv, reader = "holding", NEW memory \in BOOLEAN, CloseSlot(memory)
  PROVE HoldingInv'
<1>1. WalkInv /\ ShapeInv /\ OpenedInv /\ TypeInv
  BY DEF FrameInv, WalkInv
<1>2. StandsInv /\ EnteredInv /\ LevelInv /\ CutInv /\ HeldInv
  BY DEF HoldingInv
<1>3. /\ stack # <<>> /\ Top.kind \in Slots /\ Len(stack) > 1 /\ Drops /\ reader' = reader
      /\ ctx'.active = ctx.active /\ ctx'.tracked = ctx.tracked /\ ctx'.opened = ctx.opened
      /\ ctx'.depth = ctx.depth /\ (~Top.visited => ctx' = ctx)
  BY <1>1, CloseSlotEffect, Zenon
<1>4. misplaced' = misplaced /\ cut' = cut /\ Met(Top)
  BY Zenon DEF CloseSlot
<1>5. /\ Top = stack[Len(stack)] /\ Len(stack) \in DOMAIN stack /\ Len(stack) - 1 \in DOMAIN stack
      /\ Top.value \in Leaf
  BY <1>1, <1>3, FrameFacts, TopFacts
<1>6. EnteredInv' /\ CutInv'
  BY <1>1, <1>2, <1>3, <1>4, EnteredDrops DEF CutInv
<1>7. StandsInv'
  BY <1>2, CloseSlotStands
<1>8. LevelInv'
  <2>1. Top.visited => Top.plain /\ ctx.depth = DepthOf(Top)
    BY <1>2, <1>3, DepthAtTop
  <2>2. Rises(Top, stack[Len(stack) - 1])
    BY <1>2, <1>3, <1>5 DEF LevelInv
  <2>3. DepthOf(stack[Len(stack) - 1]) \in Nat
    BY <1>1, <1>5, BeforeTypes, DepthTypes
  <2>4. Top.visited => ctx'.depth = DepthOf(stack[Len(stack) - 1])
    BY <1>3, <2>1, <2>2, <2>3 DEF Rises
  <2> QED
    BY <1>1, <1>2, <1>3, <2>4, LevelDrops DEF StandsInv
<1>9. \A n \in DisplayNames : truth'[n] = <<>>
  <2> SUFFICES ASSUME NEW n \in DisplayNames PROVE truth'[n] = <<>>
    OBVIOUS
  <2>1. n \notin HoldingNames /\ n \in Names
    BY NamesAssumption DEF Names
  <2>2. n \notin TrueNames(Top, Where(Top))
    BY <2>1 DEF TrueNames, HoldingName
  <2> QED
    BY <1>2, <1>4, <2>1, <2>2, MetTruth DEF HeldInv
<1>10. ASSUME Sound', NEW n \in HoldingNames PROVE HeldAs(n)'
  <2>1. /\ Sound
        /\ ~Top.visited => TrueNames(Top, Where(Top)) = {}
        /\ Top.visited =>
             /\ TrueNames(Top, Where(Top)) = Taken(ctx, Top.value)
             /\ \A m \in Taken(ctx, Top.value) : ~ctx.fields[m].matched
    BY <1>10, CloseSlotTakes
  <2>2. HeldAs(n)
    BY <1>2, <2>1 DEF HeldInv
  <2>3. truth'[n] = IF n \notin TrueNames(Top, Where(Top)) THEN truth[n]
                    ELSE IF truth[n] = <<>> THEN <<Top.value>> ELSE Many
    BY <1>4, MetTruth DEF Names
  <2>4. Top.visited =>
          ctx'.fields[n] =
            IF n \in Taken(ctx, Top.value)
            THEN [matched |-> TRUE, failed |-> FALSE, leaf |-> Top.value] ELSE ctx.fields[n]
    <3>1. n \in Kept
      BY DEF Kept
    <3> QED
      BY <1>1, <3>1, CloseSlotEffect, Zenon
  <2>5. CASE n \notin TrueNames(Top, Where(Top))
    <3>1. ctx'.fields[n] = ctx.fields[n] /\ truth'[n] = truth[n]
      BY <1>3, <2>1, <2>3, <2>4, <2>5
    <3> QED
      BY <2>2, <3>1 DEF HeldAs
  <2>6. CASE n \in TrueNames(Top, Where(Top))
    <3>1. Top.visited /\ n \in Taken(ctx, Top.value) /\ ~ctx.fields[n].matched
      BY <2>1, <2>6
    <3>2. truth[n] = <<>>
      BY <2>2, <3>1 DEF HeldAs
    <3>3. truth'[n] = <<Top.value>> /\ ctx'.fields[n].matched /\ ctx'.fields[n].leaf = Top.value
      BY <2>3, <2>4, <2>6, <3>1, <3>2
    <3>4. Top.value.type \in Showable
      BY <2>6 DEF TrueNames, HoldingName, Showable
    <3>5. Top.value \in Leaves
      BY <1>1, <1>5, <3>4, ShowableIsLeaf DEF ShapeInv
    <3> QED
      BY <3>3, <3>5 DEF HeldAs
  <2> QED
    BY <2>5, <2>6
<1>11. Sound' => ~misplaced'
  BY <1>2, <1>4, CloseSlotTakes DEF HeldInv
<1>12. HeldInv'
  BY <1>9, <1>10, <1>11 DEF HeldInv
<1> QED
  BY <1>6, <1>7, <1>8, <1>12 DEF HoldingInv

LEMMA BeginHolding ==
  ASSUME NEW tracked \in BOOLEAN, Begin("holding", tracked)
  PROVE HoldingInv'
<1>1. /\ DOMAIN stack' = {1} /\ stack'[1].kind = "argument" /\ stack'[1].visited /\ stack'[1].plain
      /\ stack'[1].where = <<>> /\ truth' = NoTruth /\ ~misplaced' /\ cut' = FALSE
      /\ ctx'.depth = 0 /\ ctx'.active /\ ctx'.tracked
      /\ \A n \in HoldingNames : ctx'.fields[n] = Unmatched
  BY BeginFrames, Zenon
<1>2. StandsInv'
  BY BeginStands
<1>3. EnteredInv'
  BY <1>1 DEF EnteredInv, Behind, Named
<1>4. CutInv'
  BY <1>1 DEF CutInv
<1>5. DepthOf(stack'[1]) = 0
  <2>1. Where(stack'[1]) = <<>>
    BY <1>1 DEF Where
  <2>2. "argument" \in Slots
    BY DEF Slots
  <2> QED
    BY <1>1, <2>1, <2>2 DEF DepthOf
<1>6. Leveled(stack'[1])
  <2>1. 0 <= MAX_LABEL_DEPTH
    BY BoundsAssumption
  <2> QED
    BY <1>1, <1>5, <2>1 DEF Leveled
<1>7. \A i \in DOMAIN stack' :
        /\ Leveled(stack'[i]) /\ (i > 1 => Rises(stack'[i], stack'[i - 1]))
        /\ ctx'.depth = DepthOf(stack'[i])
  <2>1. \A i \in DOMAIN stack' : i = 1 /\ ~(i > 1)
    BY <1>1
  <2> QED
    BY <1>1, <1>5, <1>6, <2>1
<1>8. LevelInv'
  BY <1>7 DEF LevelInv, Leveled, Rises, DepthOf, Where
<1>9. \A n \in HoldingNames : HeldAs(n)'
  BY <1>1 DEF HeldAs, NoTruth, Names, Unmatched
<1>10. HeldInv'
  BY <1>1, <1>9 DEF HeldInv, NoTruth, Names
<1> QED
  BY <1>2, <1>3, <1>4, <1>8, <1>10 DEF HoldingInv

\* A holding walk that ends with a report was sound, unless a path did not fit.
LEMMA ReportedWasSound ==
  ASSUME FrameInv, HoldingInv, reader = "holding", Len(stack) = 1, HoldingOutcome = "reported",
         ~cut, NoDots
  PROVE /\ ~misplaced
        /\ \A n \in HoldingNames : \E v \in Leaves : truth[n] = <<v>> /\ ctx.fields[n].leaf = v
<1>1. WalkInv /\ TypeInv
  BY DEF FrameInv, WalkInv
<1>2. HeldInv /\ ~ctx.unreadable /\ \A n \in HoldingNames : ctx.fields[n].matched
  BY Zenon DEF HoldingOutcome, HoldingInv
<1>3. ~Overdue
  <2>1. \A i \in DOMAIN stack : stack[i].kind = "argument"
    BY <1>1 DEF WalkInv, BottomInv, TypeInv
  <2> QED
    BY <2>1 DEF Overdue, Owes, Named
<1>4. Sound
  BY <1>2, <1>3 DEF Sound
<1> QED
  BY <1>2, <1>4 DEF HeldInv, HeldAs

\* Only a holding walk reports, only a display walk shows.
LEMMA FinishSides ==
  ASSUME TypeInv, NEW starved, Finish(starved)
  PROVE /\ stack # <<>> /\ Len(stack) = 1 /\ reader # "idle"
        /\ \E kind : /\ End(kind) /\ kind # "none"
                     /\ kind = "shown" => reader = "display" /\ DisplayOutcome(starved) = "shown"
                     /\ kind = "reported" => reader = "holding" /\ HoldingOutcome = "reported"
<1>1. stack # <<>> /\ Len(stack) = 1
  BY DEF Finish, InSlot
<1>2. reader \in {"display", "holding"}
  BY <1>1, TopFacts
<1>3. CASE reader = "display"
  <2>1. End(DisplayOutcome(starved))
    BY <1>3, Zenon DEF Finish
  <2>2. DisplayOutcome(starved) \in {"shown", "failed", "refused", "unmatched"}
    BY <1>3, DisplayVerdict
  <2> QED
    BY <1>1, <1>3, <2>1, <2>2
<1>4. CASE reader = "holding"
  <2>1. End(HoldingOutcome)
    BY <1>4 DEF Finish
  <2>2. HoldingOutcome \in {"reported", "unreadable"}
    BY Zenon DEF HoldingOutcome
  <2> QED
    BY <1>1, <1>4, <2>1, <2>2
<1> QED
  BY <1>2, <1>3, <1>4

LEMMA FinishReports ==
  ASSUME FrameInv, reader = "holding" => HoldingInv, NEW starved, Finish(starved)
  PROVE HoldingStandsAlone'
<1>1. WalkInv /\ TypeInv
  BY DEF FrameInv, WalkInv
<1>2. /\ stack # <<>> /\ Len(stack) = 1
      /\ \E kind : /\ End(kind)
                   /\ kind = "reported" => reader = "holding" /\ HoldingOutcome = "reported"
  BY <1>1, FinishSides
<1>3. PICK kind : /\ End(kind)
                  /\ kind = "reported" => reader = "holding" /\ HoldingOutcome = "reported"
  BY <1>2
<1>4. /\ outcome'.kind = kind /\ truth' = truth /\ misplaced' = misplaced /\ cut' = cut
      /\ kind = "reported" => \A n \in Kept \cap Names : outcome'.values[n] = ctx.fields[n].leaf
  BY <1>1, <1>3, EndValues
<1> SUFFICES ASSUME kind = "reported", ~cut, NoDots
             PROVE ~misplaced /\ \A n \in HoldingNames :
                                   Len(truth[n]) = 1 /\ outcome'.values[n] = truth[n][1]
  BY <1>4 DEF HoldingStandsAlone, NoDots
<1>5. /\ ~misplaced
      /\ \A n \in HoldingNames : \E v \in Leaves : truth[n] = <<v>> /\ ctx.fields[n].leaf = v
  BY <1>2, <1>3, ReportedWasSound
<1>6. ASSUME NEW n \in HoldingNames PROVE Len(truth[n]) = 1 /\ outcome'.values[n] = truth[n][1]
  <2>1. PICK v \in Leaves : truth[n] = <<v>> /\ ctx.fields[n].leaf = v
    BY <1>5
  <2>2. Len(truth[n]) = 1 /\ truth[n][1] = v
    BY <2>1
  <2>3. outcome'.values[n] = ctx.fields[n].leaf
    BY <1>3, <1>4 DEF Kept, Names
  <2> QED
    BY <2>1, <2>2, <2>3
<1> QED
  BY <1>5, <1>6

TakeInv == FrameInv /\ (reader = "holding" => HoldingInv) /\ HoldingStandsAlone

\* While a walk is under way nothing is reported.
LEMMA NotYetReported ==
  ASSUME ShapeInv, reader # "idle", outcome' = outcome
  PROVE HoldingStandsAlone'
<1>1. outcome'.kind = "none"
  BY DEF ShapeInv, NoOutcome
<1> QED
  BY <1>1 DEF HoldingStandsAlone

LEMMA NextTake == TakeInv /\ [Next]_vars => TakeInv'
<1> SUFFICES ASSUME TakeInv, [Next]_vars PROVE TakeInv'
  OBVIOUS
<1>1. FrameInv /\ (reader = "holding" => HoldingInv) /\ TypeInv /\ ShapeInv
  BY DEF TakeInv, FrameInv, WalkInv
<1>2. FrameInv'
  BY <1>1, NextFrameInv
<1>3. stack # <<>> => reader # "idle"
  BY <1>1 DEF TypeInv
<1>4. ASSUME NEW r \in {"display", "holding"}, NEW tracked \in BOOLEAN, Begin(r, tracked) PROVE TakeInv'
  <2>1. reader' = r /\ outcome' = NoOutcome
    BY <1>4, BeginFrames, Zenon
  <2>2. reader' = "holding" => HoldingInv'
    BY <1>4, <2>1, BeginHolding
  <2>3. outcome'.kind = "none"
    BY <2>1 DEF NoOutcome
  <2> QED
    BY <1>2, <2>2, <2>3 DEF TakeInv, HoldingStandsAlone
<1>5. ASSUME NEW k \in {"record", "optional", "text_map", "opaque"}, OpenValue(k) PROVE TakeInv'
  <2>1. stack # <<>> /\ reader' = reader /\ outcome' = outcome
    BY <1>1, <1>5, OpenValueStack DEF OpenValue
  <2> QED
    BY <1>1, <1>2, <1>3, <1>5, <2>1, OpenValueHolding, NotYetReported DEF TakeInv
<1>6. ASSUME NEW chooses \in BOOLEAN, RecordId(chooses) PROVE TakeInv'
  <2>1. stack # <<>> /\ reader' = reader /\ outcome' = outcome /\ reader = "display"
    BY <1>1, <1>6, RecordIdEffect DEF RecordId
  <2> QED
    BY <1>1, <1>2, <1>3, <2>1, NotYetReported DEF TakeInv
<1>7. CASE OpenSlot
  <2>1. stack # <<>> /\ reader' = reader /\ outcome' = outcome
    BY <1>1, <1>7, OpenSlotStack DEF OpenSlot
  <2> QED
    BY <1>1, <1>2, <1>3, <1>7, <2>1, OpenSlotHolding, NotYetReported DEF TakeInv
<1>8. ASSUME NEW leaf \in Leaves, Scalar(leaf) PROVE TakeInv'
  <2>1. stack # <<>> /\ reader' = reader /\ outcome' = outcome
    BY <1>8 DEF Scalar, InSlot
  <2> QED
    BY <1>1, <1>2, <1>3, <1>8, <2>1, ScalarHolding, NotYetReported DEF TakeInv
<1>9. ASSUME NEW l \in Labels \cup {"?"}, Label(l) PROVE TakeInv'
  <2>1. stack # <<>> /\ reader' = reader /\ outcome' = outcome
    BY <1>9, Zenon DEF Label, InSlot
  <2> QED
    BY <1>1, <1>2, <1>3, <1>9, <2>1, LabelHolding, NotYetReported DEF TakeInv
<1>10. ASSUME NEW memory \in BOOLEAN, CloseSlot(memory) PROVE TakeInv'
  <2>1. stack # <<>> /\ reader' = reader /\ outcome' = outcome
    BY <1>10, Zenon DEF CloseSlot, InSlot
  <2> QED
    BY <1>1, <1>2, <1>3, <1>10, <2>1, CloseSlotHolding, NotYetReported DEF TakeInv
<1>11. CASE CloseValue
  <2>1. stack # <<>> /\ reader' = reader /\ outcome' = outcome
    BY <1>11 DEF CloseValue, InContainer
  <2> QED
    BY <1>1, <1>2, <1>3, <1>11, <2>1, CloseValueHolding, NotYetReported DEF TakeInv
<1>12. ASSUME NEW starved \in SUBSET DisplayNames, Finish(starved) PROVE TakeInv'
  <2>1. reader' = "idle"
    BY <1>12, Zenon DEF Finish, End
  <2> QED
    BY <1>1, <1>2, <1>12, <2>1, FinishReports DEF TakeInv
<1>13. CASE DecodeFails
  <2>1. PICK kind \in {"refused", "unparsed"} : End(kind)
    BY <1>13, DecodeFailsKinds
  <2>2. reader' = "idle" /\ outcome'.kind # "reported"
    BY <1>1, <2>1, EndValues
  <2> QED
    BY <1>2, <2>2 DEF TakeInv, HoldingStandsAlone
<1>14. CASE UNCHANGED vars
  <2>1. HoldingInv => HoldingInv'
    BY <1>14, StutterStands
       DEF HoldingInv, EnteredInv, Behind, Entered, LevelInv, CutInv, HeldInv, HeldAs, Sound,
           Overdue, Top, vars
  <2>2. HoldingStandsAlone'
    BY <1>14 DEF TakeInv, HoldingStandsAlone, vars
  <2> QED
    BY <1>1, <1>2, <1>14, <2>1, <2>2 DEF TakeInv, vars
<1> QED
  BY <1>4, <1>5, <1>6, <1>7, <1>8, <1>9, <1>10, <1>11, <1>12, <1>13, <1>14 DEF Next

LEMMA InitTake == Init => TakeInv
<1> SUFFICES ASSUME Init PROVE TakeInv
  OBVIOUS
<1>1. reader = "idle" /\ outcome.kind = "none"
  BY DEF Init, NoOutcome
<1> QED
  BY <1>1, InitFrameInv DEF TakeInv, HoldingStandsAlone

\* decode_create reports one owner, one amount and one admin only if the argument has exactly one
\* value at each of their paths, for arguments of any shape and size whose paths fit the buffer:
\* what lies deeper than MAX_LABEL_DEPTH is on no path.
THEOREM HoldingIsReported == Spec => []HoldingStandsAlone
<1>1. Init => TakeInv
  BY InitTake
<1>2. TakeInv /\ [Next]_vars => TakeInv'
  BY NextTake
<1>3. TakeInv => HoldingStandsAlone
  BY DEF TakeInv
<1> QED
  BY <1>1, <1>2, <1>3, PTL DEF Spec

-----------------------------------------------------------------------------
(***************************************************************************)
(* Both walks implement the reader of fields                               *)
(***************************************************************************)
Found == [n \in Told |-> truth[n]]
Report ==
  [kind |-> CASE outcome.kind = "none" -> "reading"
              [] outcome.kind \in {"shown", "reported"} -> "told"
              [] OTHER -> "gave_up",
   values |-> [n \in Told |-> outcome.values[n]]]

\* The steps of the reader in the terms of the walks.
LEMMA ReaderSteps ==
  /\ Reader!Init <=> Found = [n \in Told |-> <<>>] /\ Report = Reader!Reading
  /\ \A n \in Told :
       (/\ Report = Reader!Reading
        /\ Found'[n] \in IF Found[n] = <<>> THEN {<<v>> : v \in Standing} ELSE {Many}
        /\ \A m \in Told \ {n} : Found'[m] = Found[m]
        /\ Report' = Report) => Reader!Next
  /\ (Report = Reader!Reading /\ Report' = Reader!GaveUp /\ Found' = Found) => Reader!Next
  /\ (/\ Report = Reader!Reading
      /\ Report'.kind = "told"
      /\ Report'.values \in [Told -> Standing \cup {NoValue}]
      /\ \A n \in Told :
           Len(Found[n]) <= 1 /\ (Report'.values[n] = NoValue \/ Found[n] = <<Report'.values[n]>>)
      /\ \E layout \in {{n \in DisplayNames \ Preset : Fields[n].mandatory}, HoldingNames} :
           \A n \in layout : Report'.values[n] # NoValue
      /\ Found' = Found) => Reader!Next
  /\ (/\ Report # Reader!Reading /\ Report' = Reader!Reading
      /\ Found' = [n \in Told |-> <<>>]) => Reader!Next
  /\ (Found' = Found /\ Report' = Report) => UNCHANGED Reader!vars
<1>1. Reader!Init <=> Found = [n \in Told |-> <<>>] /\ Report = Reader!Reading
  BY DEF Reader!Init, Reader!NothingFound, Found, Report
<1>2. \A n \in Told :
        (/\ Report = Reader!Reading
         /\ Found'[n] \in IF Found[n] = <<>> THEN {<<v>> : v \in Standing} ELSE {Many}
         /\ \A m \in Told \ {n} : Found'[m] = Found[m]
         /\ Report' = Report) => Reader!Next
  BY DEF Reader!Next, Reader!Meet, Reader!Many, Many, Found, Report
<1>3. (Report = Reader!Reading /\ Report' = Reader!GaveUp /\ Found' = Found) => Reader!Next
  BY DEF Reader!Next, Reader!GiveUp, Found, Report
<1>4. (/\ Report = Reader!Reading
       /\ Report'.kind = "told"
       /\ Report'.values \in [Told -> Standing \cup {NoValue}]
       /\ \A n \in Told :
            Len(Found[n]) <= 1 /\ (Report'.values[n] = NoValue \/ Found[n] = <<Report'.values[n]>>)
       /\ \E layout \in {{n \in DisplayNames \ Preset : Fields[n].mandatory}, HoldingNames} :
            \A n \in layout : Report'.values[n] # NoValue
       /\ Found' = Found) => Reader!Next
  BY DEF Reader!Next, Reader!Tell, Reader!Alone, Found, Report
<1>5. (/\ Report # Reader!Reading /\ Report' = Reader!Reading
       /\ Found' = [n \in Told |-> <<>>]) => Reader!Next
  BY DEF Reader!Next, Reader!Restart, Reader!NothingFound, Found, Report
<1>6. (Found' = Found /\ Report' = Report) => UNCHANGED Reader!vars
  BY DEF Reader!vars, Found, Report
<1> QED
  BY <1>1, <1>2, <1>3, <1>4, <1>5, <1>6

\* A slot holds a value, never slots.
Fills(f) == f.kind \in Slots => f.value # Container("slots")
FillInv == \A i \in DOMAIN stack : Fills(stack[i])

LEMMA ValuesDiffer ==
  /\ \A k \in {"record", "optional", "text_map", "opaque"} : Container(k) # Container("slots")
  /\ NoValue # Container("slots")
  /\ \A leaf \in Leaves : leaf # Container("slots")
<1>1. \A k : Container(k).type = k
  BY ValueKinds
<1> QED
  BY <1>1, ValueKinds

LEMMA FillReplaces ==
  ASSUME TypeInv, FillInv, stack # <<>>, NEW g, Replaces(g), Fills(g)
  PROVE FillInv'
<1>1. \A i \in DOMAIN stack' : Fills(stack'[i])
  BY FramesReplaced DEF FillInv
<1> QED
  BY <1>1 DEF FillInv, Fills

LEMMA FillExtends ==
  ASSUME TypeInv, FillInv, stack # <<>>, NEW g, NEW f, Extends(g, f), Fills(g), Fills(f)
  PROVE FillInv'
<1>1. \A i \in DOMAIN stack' : Fills(stack'[i])
  BY FramesExtended DEF FillInv
<1> QED
  BY <1>1 DEF FillInv, Fills

LEMMA FillDrops ==
  ASSUME TypeInv, FillInv, stack # <<>>, Drops
  PROVE FillInv'
<1>1. \A i \in DOMAIN stack' : Fills(stack'[i])
  BY FramesDropped DEF FillInv
<1> QED
  BY <1>1 DEF FillInv, Fills

\* Before the first walk nothing was met.
FreshInv == (reader = "idle" /\ outcome.kind = "none") => outcome = NoOutcome /\ truth = NoTruth

RefInv == ReadInv /\ TakeInv /\ FillInv /\ FreshInv

LEMMA NextFill ==
  ASSUME FrameInv, FillInv, [Next]_vars
  PROVE FillInv'
<1>1. WalkInv /\ ShapeInv /\ TypeInv
  BY DEF FrameInv, WalkInv
<1>2. stack # <<>> => Fills(Top)
  <2>1. stack # <<>> => Top = stack[Len(stack)] /\ Len(stack) \in DOMAIN stack
    BY <1>1, FrameFacts
  <2> QED
    BY <2>1 DEF FillInv
<1>3. ASSUME NEW r \in {"display", "holding"}, NEW tracked \in BOOLEAN, Begin(r, tracked) PROVE FillInv'
  <2>1. DOMAIN stack' = {1} /\ stack'[1].value = NoValue
    BY <1>3, BeginFrames, Zenon
  <2> QED
    BY <2>1, ValuesDiffer DEF FillInv, Fills
<1>4. ASSUME NEW k \in {"record", "optional", "text_map", "opaque"}, OpenValue(k) PROVE FillInv'
  <2>1. stack # <<>>
    BY <1>1, <1>4, OpenValueStack
  <2>2. PICK g, f :
          /\ g.value = Container(k)
          /\ k = "opaque" => Replaces(g)
          /\ k # "opaque" => Extends(g, f) /\ f.value = NoValue
    BY <1>1, <1>4, OpenValueFrames
  <2>3. Fills(g) /\ (k # "opaque" => Fills(f))
    BY <2>2, ValuesDiffer DEF Fills
  <2> QED
    BY <1>1, <2>1, <2>2, <2>3, FillReplaces, FillExtends
<1>5. ASSUME NEW chooses \in BOOLEAN, RecordId(chooses) PROVE FillInv'
  <2>1. stack # <<>>
    BY <1>1, <1>5, RecordIdFrames
  <2>2. PICK g : Replaces(g) /\ SameBut(g, Top) /\ g.value = Top.value
    BY <1>1, <1>5, RecordIdFrames
  <2>3. Fills(g)
    BY <1>2, <2>1, <2>2 DEF Fills, SameBut
  <2> QED
    BY <1>1, <2>1, <2>2, <2>3, FillReplaces
<1>6. CASE OpenSlot
  <2>1. stack # <<>> /\ Top.kind \in DOMAIN SlotOf
    BY <1>1, <1>6, OpenSlotStack
  <2>2. PICK g, f : SameBut(g, Top) /\ Extends(g, f) /\ f.value = NoValue
    BY <1>1, <1>6, OpenSlotFrames
  <2>3. Fills(g) /\ Fills(f)
    BY <2>1, <2>2, ValuesDiffer, Kinds DEF Fills, SameBut
  <2> QED
    BY <1>1, <2>1, <2>2, <2>3, FillExtends
<1>7. ASSUME NEW leaf \in Leaves, Scalar(leaf) PROVE FillInv'
  <2>1. stack # <<>>
    BY <1>1, <1>7, ScalarFrames
  <2>2. PICK g : Replaces(g) /\ g.value = leaf
    BY <1>1, <1>7, ScalarFrames
  <2>3. Fills(g)
    BY <2>2, ValuesDiffer DEF Fills
  <2> QED
    BY <1>1, <2>1, <2>2, <2>3, FillReplaces
<1>8. ASSUME NEW l \in Labels \cup {"?"}, Label(l) PROVE FillInv'
  <2>1. stack # <<>>
    BY <1>1, <1>8, LabelFrames
  <2>2. PICK g : Replaces(g) /\ SameBut(g, Top) /\ g.value = Top.value
    BY <1>1, <1>8, LabelFrames
  <2>3. Fills(g)
    BY <1>2, <2>1, <2>2 DEF Fills, SameBut
  <2> QED
    BY <1>1, <2>1, <2>2, <2>3, FillReplaces
<1>9. ASSUME NEW memory \in BOOLEAN, CloseSlot(memory) PROVE FillInv'
  <2>1. stack # <<>> /\ Drops
    BY <1>1, <1>9, CloseSlotEffect, Zenon
  <2> QED
    BY <1>1, <2>1, FillDrops
<1>10. CASE CloseValue
  <2>1. stack # <<>> /\ Drops
    BY <1>1, <1>10, CloseValueEffect
  <2> QED
    BY <1>1, <2>1, FillDrops
<1>11. ASSUME NEW kind, End(kind) PROVE FillInv'
  <2>1. DOMAIN stack' = {}
    BY <1>11 DEF End
  <2> QED
    BY <2>1 DEF FillInv
<1>12. ASSUME NEW starved \in SUBSET DisplayNames, Finish(starved) PROVE FillInv'
  BY <1>11, <1>12, Zenon DEF Finish
<1>13. CASE DecodeFails
  BY <1>11, <1>13, DecodeFailsKinds
<1>14. CASE UNCHANGED vars
  BY <1>14 DEF FillInv, Fills, vars
<1> QED
  BY <1>3, <1>4, <1>5, <1>6, <1>7, <1>8, <1>9, <1>10, <1>12, <1>13, <1>14 DEF Next

LEMMA Reports ==
  /\ outcome = NoOutcome => Report = Reader!Reading
  /\ outcome' = NoOutcome => Report' = Reader!Reading
  /\ outcome.kind # "none" => Report # Reader!Reading
<1>1. Told \subseteq Names
  BY DEF Told
<1>2. \A o : o = NoOutcome => o.kind = "none" /\ \A n \in Told : o.values[n] = NoValue
  BY <1>1 DEF NoOutcome
<1>3. Reader!Reading = [kind |-> "reading", values |-> [n \in Told |-> NoValue]]
  BY DEF Reader!Reading, Reader!Untold
<1>4. outcome = NoOutcome => Report = Reader!Reading
  BY <1>2, <1>3 DEF Report
<1>5. outcome' = NoOutcome => Report' = Reader!Reading
  BY <1>2, <1>3 DEF Report
<1>6. outcome.kind # "none" => Report.kind # "reading"
  BY DEF Report
<1>7. Reader!Reading.kind = "reading"
  BY <1>3
<1> QED
  BY <1>4, <1>5, <1>6, <1>7

\* A slot that ends is a value met, for one name at most: no two names have one path.
LEMMA CloseSlotMeets ==
  ASSUME FrameInv, FillInv, NEW memory \in BOOLEAN, CloseSlot(memory)
  PROVE Reader!Next \/ UNCHANGED Reader!vars
<1>1. WalkInv /\ ShapeInv /\ TypeInv
  BY DEF FrameInv, WalkInv
<1>2. stack # <<>> /\ Top.kind \in Slots
  BY <1>1, CloseSlotEffect, Zenon
<1>3. /\ Met(Top) /\ outcome' = outcome
  BY Zenon DEF CloseSlot
<1>4. /\ Top = stack[Len(stack)] /\ Len(stack) \in DOMAIN stack /\ reader \in {"display", "holding"}
  BY <1>1, <1>2, FrameFacts, TopFacts
<1>5. Report = Reader!Reading /\ Report' = Report
  <2>1. outcome = NoOutcome
    BY <1>1, <1>4 DEF ShapeInv
  <2> QED
    BY <1>3, <2>1, Reports DEF Report
<1>6. PICK T : T = TrueNames(Top, Where(Top))
  OBVIOUS
<1>7. \A n \in Told : Found[n] = truth[n] /\ Found'[n] = truth'[n] /\ n \in Names
  BY DEF Found, Told
<1>8. \A n \in Told : Found'[n] = IF n \notin T THEN Found[n]
                                  ELSE IF Found[n] = <<>> THEN <<Top.value>> ELSE Many
  BY <1>3, <1>6, <1>7, MetTruth
<1>9. \A m, n \in T : m = n
  <2>1. CASE reader = "display"
    <3>1. \A n \in T : n \in DisplayNames /\ Fields[n].path = Where(Top)
      BY <1>6, <2>1 DEF TrueNames
    <3> QED
      BY <3>1, PathsAssumption
  <2>2. CASE reader = "holding"
    <3>1. \A n \in T : n \in HoldingNames /\ HoldingPaths[n] = Where(Top)
      BY <1>6, <2>2 DEF TrueNames, HoldingName
    <3> QED
      BY <3>1, PathsAssumption
  <2> QED
    BY <1>4, <2>1, <2>2
<1>10. T # {} => Top.value \in Standing
  <2> SUFFICES ASSUME NEW n \in T PROVE Top.value \in Standing
    OBVIOUS
  <2>1. Top.value \in Held /\ Top.value # Container("slots")
    BY <1>1, <1>2, <1>4 DEF ShapeInv, FillInv, Fills
  <2>2. Top.value # Container("optional")
    <3>1. CASE reader = "display"
      BY <1>6, <3>1, ValueKinds DEF TrueNames
    <3>2. CASE reader = "holding"
      <4>1. Top.value.type \in {"text", "party", "numeric"}
        BY <1>6, <3>2 DEF TrueNames, HoldingName
      <4> QED
        BY <4>1, ValueKinds
    <3> QED
      BY <1>4, <3>1, <3>2
  <2> QED
    BY <2>1, <2>2 DEF Held, Standing
<1>11. CASE \E n \in Told : n \in T
  <2>1. PICK n \in Told : n \in T
    BY <1>11
  <2>2. Found'[n] \in IF Found[n] = <<>> THEN {<<v>> : v \in Standing} ELSE {Many}
    BY <1>8, <1>10, <2>1
  <2>3. \A m \in Told \ {n} : Found'[m] = Found[m]
    BY <1>8, <1>9, <2>1
  <2> QED
    BY <1>5, <2>1, <2>2, <2>3, ReaderSteps
<1>12. CASE ~ \E n \in Told : n \in T
  <2>1. Found' = Found
    BY <1>8, <1>12 DEF Found
  <2> QED
    BY <1>5, <2>1, ReaderSteps
<1> QED
  BY <1>11, <1>12

\* A walk that ends tells nothing: the reader gives up.
LEMMA EndGivesUp ==
  ASSUME FrameInv, reader # "idle", NEW kind, End(kind), kind # "none",
         kind \notin {"shown", "reported"}
  PROVE Reader!Next
<1>1. TypeInv /\ ShapeInv
  BY DEF FrameInv, WalkInv
<1>2. Report = Reader!Reading
  BY <1>1, Reports DEF ShapeInv
<1>3. /\ outcome'.kind = kind /\ truth' = truth
      /\ \A n \in Names : outcome'.values[n] = NoValue
  BY <1>1, EndValues
<1>4. Found' = Found
  BY <1>3 DEF Found
<1>5. Report' = [kind |-> "gave_up", values |-> [n \in Told |-> NoValue]]
  <2>1. \A n \in Told : outcome'.values[n] = NoValue
    BY <1>3 DEF Told
  <2> QED
    BY <1>3, <2>1 DEF Report
<1>6. Reader!GaveUp = [kind |-> "gave_up", values |-> [n \in Told |-> NoValue]]
  BY DEF Reader!GaveUp, Reader!Untold
<1> QED
  BY <1>2, <1>4, <1>5, <1>6, ReaderSteps

\* A walk that ends and tells: what it tells stood alone.
LEMMA EndTells ==
  ASSUME FrameInv, reader # "idle", NEW kind \in {"shown", "reported"}, End(kind),
         NEW layout \in {{n \in DisplayNames \ Preset : Fields[n].mandatory}, HoldingNames},
         \A n \in layout : outcome'.values[n] # NoValue,
         \A n \in Told :
           /\ Len(truth[n]) <= 1 /\ outcome'.values[n] \in Standing \cup {NoValue}
           /\ outcome'.values[n] = NoValue \/ truth[n] = <<outcome'.values[n]>>
  PROVE Reader!Next
<1>1. TypeInv /\ ShapeInv
  BY DEF FrameInv, WalkInv
<1>2. Report = Reader!Reading
  BY <1>1, Reports DEF ShapeInv
<1>3. outcome'.kind = kind /\ truth' = truth
  BY <1>1, EndValues
<1>4. Found' = Found /\ \A n \in Told : Found[n] = truth[n]
  BY <1>3 DEF Found
<1>5. PICK v : v = [n \in Told |-> outcome'.values[n]]
  OBVIOUS
<1>6. Report' = [kind |-> "told", values |-> v]
  BY <1>3, <1>5 DEF Report
<1>7. Report'.kind = "told" /\ Report'.values = v
  BY <1>6
<1>8. \A n \in Told : v[n] = outcome'.values[n]
  BY <1>3, <1>5
<1>9. v \in [Told -> Standing \cup {NoValue}]
  BY <1>5, <1>8
<1>10. \A n \in layout : n \in Told
  BY NamesAssumption DEF Told, Names
<1>11. \A n \in Told : Len(Found[n]) <= 1 /\ (v[n] = NoValue \/ Found[n] = <<v[n]>>)
  BY <1>4, <1>8
<1>12. \A n \in layout : v[n] # NoValue
  BY <1>8, <1>10
<1> QED
  BY <1>2, <1>4, <1>7, <1>9, <1>11, <1>12, ReaderSteps


\* The end of an argument: the reader tells or gives up.
LEMMA FinishTells ==
  ASSUME NoDots, ~cut, RefInv, NEW starved, Finish(starved)
  PROVE Reader!Next
<1>1. /\ FrameInv /\ WalkInv /\ TypeInv /\ (reader = "display" => DisplayInv)
      /\ reader = "holding" => HoldingInv
  BY DEF RefInv, ReadInv, TakeInv, FrameInv, WalkInv
<1>2. /\ stack # <<>> /\ Len(stack) = 1 /\ reader # "idle"
      /\ \E kind : /\ End(kind) /\ kind # "none"
                   /\ kind = "shown" => reader = "display" /\ DisplayOutcome(starved) = "shown"
                   /\ kind = "reported" => reader = "holding" /\ HoldingOutcome = "reported"
  BY <1>1, FinishSides
<1>3. PICK kind : /\ End(kind) /\ kind # "none"
                  /\ kind = "shown" => reader = "display" /\ DisplayOutcome(starved) = "shown"
                  /\ kind = "reported" => reader = "holding" /\ HoldingOutcome = "reported"
  BY <1>2
<1>4. /\ kind \in {"shown", "reported"} =>
           \A n \in Kept \cap Names : outcome'.values[n] = ctx.fields[n].leaf
      /\ \A n \in Names : n \notin Kept => outcome'.values[n] = NoValue
  BY <1>1, <1>3, EndValues
<1>5. CASE kind \notin {"shown", "reported"}
  BY <1>1, <1>2, <1>3, <1>5, EndGivesUp
<1>6. CASE kind = "shown"
  <2>1. /\ ctx.active /\ reader = "display" /\ DisplayInv
        /\ \A n \in DisplayNames : FieldVerdict(n, starved) = "ok" /\ ShownAs(n)
    BY <1>1, <1>2, <1>3, <1>6, ShownWasClean
  <2>2. Kept = DisplayNames
    BY <2>1 DEF Kept
  <2>3. \A n \in DisplayNames : outcome'.values[n] = ctx.fields[n].leaf
    BY <1>4, <1>6, <2>2 DEF Names
  <2>4. \A n \in DisplayNames : ~ctx.fields[n].failed /\ (Fields[n].mandatory => IsSet(n))
    BY <2>1, VerdictOk
  <2>5. ASSUME NEW n \in DisplayNames \ Preset
        PROVE /\ Len(truth[n]) <= 1 /\ outcome'.values[n] \in Standing \cup {NoValue}
              /\ outcome'.values[n] = NoValue \/ truth[n] = <<outcome'.values[n]>>
    <3>1. CASE truth[n] = <<>> /\ ctx.fields[n] = Unmatched
      BY <2>3, <3>1 DEF Unmatched
    <3>2. CASE \E v \in Standing : truth[n] = <<v>> /\ ctx.fields[n].leaf = Blanked(v)
      <4>1. PICK v \in Standing : truth[n] = <<v>> /\ ctx.fields[n].leaf = Blanked(v)
        BY <3>2
      <4>2. Blanked(v) \in {v, NoValue}
        BY DEF Blanked
      <4> QED
        BY <2>3, <4>1, <4>2
    <3> QED
      BY <2>1, <2>4, <3>1, <3>2 DEF ShownAs
  <2>6. ASSUME NEW n \in HoldingNames
        PROVE /\ Len(truth[n]) <= 1 /\ outcome'.values[n] = NoValue
    <3>1. truth[n] = <<>>
      BY <2>1 DEF DisplayInv, ShownInv
    <3>2. n \notin Kept /\ n \in Names
      BY <2>2, NamesAssumption DEF Names
    <3> QED
      BY <1>4, <3>1, <3>2
  <2>7. \A n \in Told :
          /\ Len(truth[n]) <= 1 /\ outcome'.values[n] \in Standing \cup {NoValue}
          /\ outcome'.values[n] = NoValue \/ truth[n] = <<outcome'.values[n]>>
    BY <2>5, <2>6 DEF Told, Names
  <2>8. PICK layout : layout = {n \in DisplayNames \ Preset : Fields[n].mandatory}
    OBVIOUS
  <2>9. \A n \in layout : outcome'.values[n] # NoValue
    BY <2>3, <2>4, <2>8 DEF IsSet
  <2> QED
    BY <1>1, <1>2, <1>3, <1>6, <2>7, <2>8, <2>9, EndTells
<1>7. CASE kind = "reported"
  <2>1. /\ reader = "holding" /\ HoldingInv
        /\ \A n \in HoldingNames : \E v \in Leaves : truth[n] = <<v>> /\ ctx.fields[n].leaf = v
    BY <1>1, <1>2, <1>3, <1>7, ReportedWasSound
  <2>2. Kept = HoldingNames
    BY <2>1 DEF Kept
  <2>3. \A n \in HoldingNames : outcome'.values[n] = ctx.fields[n].leaf
    BY <1>4, <1>7, <2>2 DEF Names
  <2>4. ASSUME NEW n \in HoldingNames
        PROVE /\ Len(truth[n]) <= 1 /\ outcome'.values[n] \in Standing
              /\ truth[n] = <<outcome'.values[n]>> /\ outcome'.values[n] # NoValue
    <3>1. PICK v \in Leaves : truth[n] = <<v>> /\ ctx.fields[n].leaf = v
      BY <2>1
    <3>2. v \in Standing /\ v # NoValue
      BY ValueKinds DEF Standing
    <3> QED
      BY <2>3, <3>1, <3>2
  <2>5. ASSUME NEW n \in DisplayNames
        PROVE Len(truth[n]) <= 1 /\ outcome'.values[n] = NoValue
    <3>1. truth[n] = <<>>
      BY <2>1 DEF HoldingInv, HeldInv
    <3>2. n \notin Kept /\ n \in Names
      BY <2>2, NamesAssumption DEF Names
    <3> QED
      BY <1>4, <3>1, <3>2
  <2>6. \A n \in Told :
          /\ Len(truth[n]) <= 1 /\ outcome'.values[n] \in Standing \cup {NoValue}
          /\ outcome'.values[n] = NoValue \/ truth[n] = <<outcome'.values[n]>>
    BY <2>4, <2>5 DEF Told, Names
  <2> QED
    BY <1>1, <1>2, <1>3, <1>7, <2>4, <2>6, EndTells
<1> QED
  BY <1>3, <1>5, <1>6, <1>7


\* While an argument is read the reader is reading.
LEMMA StillReading ==
  ASSUME ShapeInv, reader # "idle", outcome' = outcome, truth' = truth
  PROVE UNCHANGED Reader!vars
<1>1. outcome = NoOutcome
  BY DEF ShapeInv
<1>2. Report' = Report
  BY <1>1, Reports
<1>3. Found' = Found
  BY DEF Found
<1> QED
  BY <1>2, <1>3, ReaderSteps

\* Every step of a walk is a step of the reader or none.
LEMMA NextReads ==
  ASSUME NoDots, ~cut, RefInv, [Next]_vars
  PROVE [Reader!Next]_(Reader!vars)
<1>1. FrameInv /\ TypeInv /\ ShapeInv /\ FillInv /\ FreshInv
  BY DEF RefInv, ReadInv, FrameInv, WalkInv
<1>2. stack # <<>> => reader # "idle"
  BY <1>1 DEF TypeInv
<1>3. ASSUME stack # <<>>, outcome' = outcome, truth' = truth PROVE UNCHANGED Reader!vars
  BY <1>1, <1>2, <1>3, StillReading
<1>4. ASSUME NEW r \in {"display", "holding"}, NEW tracked \in BOOLEAN, Begin(r, tracked)
      PROVE Reader!Next \/ UNCHANGED Reader!vars
  <2>1. reader = "idle" /\ outcome' = NoOutcome /\ truth' = NoTruth
    BY <1>4, Zenon DEF Begin
  <2>2. Report' = Reader!Reading
    BY <2>1, Reports
  <2>3. Found' = [n \in Told |-> <<>>] /\ (truth = NoTruth => Found' = Found)
    BY <2>1 DEF Found, NoTruth, Told
  <2>4. CASE outcome.kind # "none"
    BY <2>2, <2>3, <2>4, Reports, ReaderSteps
  <2>5. CASE outcome.kind = "none"
    <3>1. outcome = NoOutcome /\ truth = NoTruth
      BY <1>1, <2>1, <2>5 DEF FreshInv
    <3>2. Report = Reader!Reading
      BY <3>1, Reports
    <3> QED
      BY <2>2, <2>3, <3>1, <3>2, ReaderSteps
  <2> QED
    BY <2>4, <2>5
<1>5. ASSUME NEW k \in {"record", "optional", "text_map", "opaque"}, OpenValue(k)
      PROVE UNCHANGED Reader!vars
  <2>1. stack # <<>> /\ outcome' = outcome /\ truth' = truth
    BY <1>1, <1>5, OpenValueStack DEF OpenValue, history
  <2> QED
    BY <1>3, <2>1
<1>6. ASSUME NEW chooses \in BOOLEAN, RecordId(chooses) PROVE UNCHANGED Reader!vars
  <2>1. stack # <<>> /\ outcome' = outcome /\ truth' = truth
    BY <1>1, <1>6, RecordIdEffect DEF RecordId, history
  <2> QED
    BY <1>3, <2>1
<1>7. CASE OpenSlot
  <2>1. stack # <<>> /\ outcome' = outcome /\ truth' = truth
    BY <1>1, <1>7, OpenSlotStack DEF OpenSlot, history
  <2> QED
    BY <1>3, <2>1
<1>8. ASSUME NEW leaf \in Leaves, Scalar(leaf) PROVE UNCHANGED Reader!vars
  <2>1. stack # <<>> /\ outcome' = outcome /\ truth' = truth
    BY <1>8 DEF Scalar, InSlot, history
  <2> QED
    BY <1>3, <2>1
<1>9. ASSUME NEW l \in Labels \cup {"?"}, Label(l) PROVE UNCHANGED Reader!vars
  <2>1. stack # <<>> /\ outcome' = outcome /\ truth' = truth
    BY <1>9, Zenon DEF Label, InSlot
  <2> QED
    BY <1>3, <2>1
<1>10. ASSUME NEW memory \in BOOLEAN, CloseSlot(memory)
       PROVE Reader!Next \/ UNCHANGED Reader!vars
  BY <1>1, <1>10, CloseSlotMeets
<1>11. CASE CloseValue
  <2>1. stack # <<>> /\ outcome' = outcome /\ truth' = truth
    BY <1>11 DEF CloseValue, InContainer, history
  <2> QED
    BY <1>3, <2>1
<1>12. ASSUME NEW starved \in SUBSET DisplayNames, Finish(starved) PROVE Reader!Next
  BY <1>12, FinishTells
<1>13. CASE DecodeFails
  <2>1. PICK kind \in {"refused", "unparsed"} : End(kind)
    BY <1>13, DecodeFailsKinds
  <2>2. reader # "idle"
    BY <1>13 DEF DecodeFails
  <2> QED
    BY <1>1, <2>1, <2>2, EndGivesUp
<1>14. CASE UNCHANGED vars
  <2>1. Found' = Found /\ Report' = Report
    BY <1>14 DEF Found, Report, vars
  <2> QED
    BY <2>1, ReaderSteps
<1> QED
  BY <1>4, <1>5, <1>6, <1>7, <1>8, <1>9, <1>10, <1>11, <1>12, <1>13, <1>14 DEF Next

\* Only before the first walk is there no outcome without a walk.
LEMMA NextFresh ==
  ASSUME TypeInv, FreshInv, [Next]_vars
  PROVE FreshInv'
<1>1. stack # <<>> => reader # "idle"
  BY DEF TypeInv
<1>2. ASSUME reader' # "idle" PROVE FreshInv'
  BY <1>2 DEF FreshInv
<1>3. ASSUME stack # <<>>, reader' = reader PROVE FreshInv'
  BY <1>1, <1>2, <1>3
<1>4. ASSUME NEW kind, End(kind), kind # "none" PROVE FreshInv'
  <2>1. outcome'.kind = kind
    BY <1>4, EndValues
  <2> QED
    BY <1>4, <2>1 DEF FreshInv
<1>5. ASSUME NEW r \in {"display", "holding"}, NEW tracked \in BOOLEAN, Begin(r, tracked) PROVE FreshInv'
  <2>1. reader' = r
    BY <1>5, Zenon DEF Begin
  <2> QED
    BY <1>2, <2>1
<1>6. ASSUME NEW k \in {"record", "optional", "text_map", "opaque"}, OpenValue(k) PROVE FreshInv'
  BY <1>3, <1>6, OpenValueStack DEF OpenValue
<1>7. ASSUME NEW chooses \in BOOLEAN, RecordId(chooses) PROVE FreshInv'
  BY <1>3, <1>7, Zenon DEF RecordId, InContainer
<1>8. CASE OpenSlot
  BY <1>3, <1>8, OpenSlotStack DEF OpenSlot
<1>9. ASSUME NEW leaf \in Leaves, Scalar(leaf) PROVE FreshInv'
  BY <1>3, <1>9 DEF Scalar, InSlot
<1>10. ASSUME NEW l \in Labels \cup {"?"}, Label(l) PROVE FreshInv'
  BY <1>3, <1>10, Zenon DEF Label, InSlot
<1>11. ASSUME NEW memory \in BOOLEAN, CloseSlot(memory) PROVE FreshInv'
  BY <1>3, <1>11, Zenon DEF CloseSlot, InSlot
<1>12. CASE CloseValue
  BY <1>3, <1>12 DEF CloseValue, InContainer
<1>13. ASSUME NEW starved \in SUBSET DisplayNames, Finish(starved) PROVE FreshInv'
  BY <1>4, <1>13, FinishSides
<1>14. CASE DecodeFails
  BY <1>4, <1>14, DecodeFailsKinds
<1>15. CASE UNCHANGED vars
  BY <1>15 DEF FreshInv, vars
<1> QED
  BY <1>5, <1>6, <1>7, <1>8, <1>9, <1>10, <1>11, <1>12, <1>13, <1>14, <1>15 DEF Next

LEMMA NextRef ==
  ASSUME RecordArguments
  PROVE RefInv /\ [Next]_vars => RefInv'
<1> SUFFICES ASSUME RefInv, [Next]_vars PROVE RefInv'
  OBVIOUS
<1>1. ReadInv /\ TakeInv /\ FillInv /\ FreshInv /\ FrameInv /\ TypeInv
  BY DEF RefInv, ReadInv, FrameInv, WalkInv
<1> QED
  BY <1>1, NextRead, NextTake, NextFill, NextFresh DEF RefInv

LEMMA InitRef == Init => RefInv /\ Reader!Init
<1> SUFFICES ASSUME Init PROVE RefInv /\ Reader!Init
  OBVIOUS
<1>1. /\ reader = "idle" /\ stack = <<>> /\ outcome = NoOutcome /\ truth = NoTruth
  BY DEF Init
<1>2. ReadInv /\ TakeInv
  BY InitRead, InitTake
<1>3. FillInv /\ FreshInv
  BY <1>1 DEF FillInv, FreshInv
<1>4. Found = [n \in Told |-> <<>>] /\ Report = Reader!Reading
  BY <1>1, Reports DEF Found, NoTruth, Told
<1> QED
  BY <1>2, <1>3, <1>4, ReaderSteps DEF RefInv

\* The display parser and the holding parser, step by step, are readers of fields, for arguments
\* of any shape and size as long as no path overflows the buffer of the holding parser: they meet the values at the configured paths one at a time (a slot that
\* ends is a value for one name at most) and end by giving up or by telling, for each name, what
\* stood alone at its path: the mandatory rows of a screen, or all the fields of a holding.
THEOREM FieldsAreRead ==
  ASSUME RecordArguments, NoDots
  PROVE Spec /\ []~cut => ReadsFields
<1>1. Init => RefInv /\ Reader!Init
  BY InitRef
<1>2. RefInv /\ [Next]_vars => RefInv'
  BY NextRef
<1>3. RefInv /\ ~cut /\ [Next]_vars => [Reader!Next]_(Reader!vars)
  BY NextReads
<1> QED
  BY <1>1, <1>2, <1>3, PTL DEF Spec, ReadsFields, Reader!Spec
=============================================================================
