---------------------------- MODULE MCNodeValues ----------------------------
(***************************************************************************)
(* Small instances of NodeValues.  alice is the sender, bob or alice the   *)
(* receiver, carol an account the screen does not show; amount 20, issuer  *)
(* dso and instrument cbtc are the ones on the screen.                     *)
(***************************************************************************)
EXTENDS NodeValues

CONSTANTS
  Screened,   \* the actions nodes perform
  Disclosed,  \* the templates of input contracts
  Faults      \* whether creates may be unreadable or of unknown templates

MCAccounts == {"alice", "bob", "carol"}
MCAmounts == {"20", "7"}
MCAdmins == {"dso", "issuer"}
MCInstruments == {"cbtc", "usdc"}

Displays ==
  {[sender |-> "alice", receiver |-> r, amount |-> "20", admin |-> "dso", instrument |-> "cbtc"] :
     r \in {"alice", "bob"}}
ADisplay == CHOOSE d \in Displays : d.receiver = "bob"
AHolding == [owner |-> "bob", amount |-> "20", admin |-> "dso", instrument |-> "cbtc"]

Base(c) ==
  [kind |-> "fetch", contract |-> c, template |-> "other", choice |-> "none", record |-> "other",
   holding |-> AHolding, fields |-> "located", screen |-> ADisplay, renders |-> TRUE]

Creates(c) ==
  {[Base(c) EXCEPT !.kind = "create", !.template = t, !.record = t, !.holding = h] :
     t \in {"amulet", "holding"},
     h \in {[AHolding EXCEPT !.owner = o, !.amount = a] : o \in MCAccounts, a \in MCAmounts}
           \cup {[AHolding EXCEPT !.admin = "issuer"], [AHolding EXCEPT !.instrument = "usdc"]}}
  \cup IF ~Faults THEN {}
       ELSE {[Base(c) EXCEPT !.kind = "create", !.template = t, !.record = t, !.fields = f] :
               t \in {"amulet", "reward"}, f \in {"unlocated", "unparsed"}}
            \cup {[Base(c) EXCEPT !.kind = "create"]}

\* The template an action is performed on.
ActsOn(a) == CASE a = "native" -> "amulet_rules"
               [] a = "transfer" -> "factory"
               [] a = "preapproval" -> "preapproval"
               [] OTHER -> "offer"

Performs(c, a) ==
  {[Base(c) EXCEPT !.kind = IF a = "preapproval" THEN "create" ELSE "exercise",
                   !.template = ActsOn(a), !.record = a,
                   !.choice = IF a = "preapproval" THEN "none" ELSE a,
                   !.screen = d, !.renders = r] : d \in Displays, r \in BOOLEAN}
  \cup {[Base(c) EXCEPT !.kind = "exercise", !.template = "other", !.record = a, !.choice = a]}

MCNodeParts ==
  UNION {Creates(c) : c \in {"c1"}}
  \cup UNION {Performs(c, a) : c \in {"c2"}, a \in Screened}
  \cup {Base(c) : c \in Contracts}
  \cup {[Base("c1") EXCEPT !.kind = "rollback"]}

MCContractParts ==
  {[Base(c) EXCEPT !.kind = "create", !.template = t, !.record = t, !.screen = d] :
     c \in Contracts, t \in Disclosed, d \in Displays}
=============================================================================
