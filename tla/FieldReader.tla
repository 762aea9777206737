----------------------------- MODULE FieldReader -----------------------------
(***************************************************************************)
(* What a reader of configured fields promises, whatever it does inside.   *)
(* Values stand at paths of an argument.  The reader meets them one by one *)
(* and ends by giving up or by telling one value for each name; it tells   *)
(* only what stood alone at the path of that name.                         *)
(***************************************************************************)
EXTENDS Sequences, Naturals

CONSTANTS
  Names,       \* the names a reader tells values for
  Layouts,     \* for each thing it can tell, the names it may not leave out
  Values,      \* what can stand at a path
  Blank        \* told for a name without a value

VARIABLES
  found,       \* the values met so far, by name: nothing, a value, or Many
  report       \* nothing yet, given up, or a value for each name

vars == <<found, report>>

Untold == [n \in Names |-> Blank]
Reading == [kind |-> "reading", values |-> Untold]
GaveUp == [kind |-> "gave_up", values |-> Untold]
Many == <<Blank, Blank>>
NothingFound == [n \in Names |-> <<>>]

\* A value that stood alone may still be left blank, an empty text for instance.
Alone(n, v) == Len(found[n]) <= 1 /\ (v = Blank \/ found[n] = <<v>>)

Init == found = NothingFound /\ report = Reading

Meet(n) ==
  /\ report = Reading
  /\ found'[n] \in IF found[n] = <<>> THEN {<<v>> : v \in Values} ELSE {Many}
  /\ \A m \in Names \ {n} : found'[m] = found[m]
  /\ UNCHANGED report

GiveUp == report = Reading /\ report' = GaveUp /\ UNCHANGED found

Tell ==
  /\ report = Reading
  /\ report'.kind = "told"
  /\ report'.values \in [Names -> Values \cup {Blank}]
  /\ \A n \in Names : Alone(n, report'.values[n])
  /\ \E layout \in Layouts : \A n \in layout : report'.values[n] # Blank
  /\ UNCHANGED found

\* The next argument.
Restart == report # Reading /\ report' = Reading /\ found' = NothingFound

Next ==
  \/ \E n \in Names : Meet(n)
  \/ GiveUp \/ Tell \/ Restart

Spec == Init /\ [][Next]_vars
=============================================================================
