------------------------------- MODULE Signer -------------------------------
(***************************************************************************)
(* What a signing device promises its user, whatever requests come in.     *)
(* Requests name a key.  The device signs with that key, and only when the *)
(* user has just agreed to what it asked about the request that is open;   *)
(* it asks about something it cannot explain only if the user allowed      *)
(* that; and while it asks, nothing changes but by the user's answer.      *)
(***************************************************************************)
CONSTANTS
  Names,    \* what a request may name
  Keys      \* the names the device has a key for

VARIABLES
  open,     \* whether a request is open
  key,      \* what the open request named, "none" without one
  asking,   \* what the user is asked: "nothing", "clear", "blind" or "address"
  allowed,  \* whether the user lets the device ask for blind signatures
  signer    \* the key of the signature just handed out, or "none"

vars == <<open, key, asking, allowed, signer>>

Init ==
  /\ open = FALSE /\ key = "none"
  /\ asking = "nothing" /\ allowed = FALSE /\ signer = "none"

Idle == asking = "nothing"

Request(k) ==
  /\ Idle
  /\ open' = TRUE /\ key' = k /\ signer' = "none"
  /\ UNCHANGED <<asking, allowed>>

\* The open request, if there is one, is given up.
Close ==
  /\ Idle
  /\ open' = FALSE /\ key' = "none" /\ signer' = "none"
  /\ UNCHANGED <<asking, allowed>>

\* Any other answer to whoever sends the requests.
Respond ==
  /\ Idle
  /\ signer' = "none"
  /\ UNCHANGED <<open, key, asking, allowed>>

AskClear ==
  /\ Idle /\ open
  /\ asking' = "clear" /\ signer' = "none"
  /\ UNCHANGED <<open, key, allowed>>

AskBlind ==
  /\ Idle /\ open /\ allowed
  /\ asking' = "blind" /\ signer' = "none"
  /\ UNCHANGED <<open, key, allowed>>

\* Showing an address gives up the open request.
AskAddress ==
  /\ Idle
  /\ asking' = "address" /\ open' = FALSE /\ key' = "none" /\ signer' = "none"
  /\ UNCHANGED allowed

Sign ==
  /\ asking \in {"clear", "blind"} /\ open /\ key \in Keys
  /\ asking' = "nothing" /\ signer' = key
  /\ UNCHANGED <<open, key, allowed>>

\* The user says no, the address is answered, or signing fails.
Dismiss ==
  /\ ~Idle
  /\ asking' = "nothing" /\ signer' = "none"
  /\ UNCHANGED <<open, key, allowed>>

Toggle ==
  /\ Idle
  /\ allowed' = ~allowed
  /\ UNCHANGED <<open, key, asking, signer>>

Next ==
  \/ \E k \in Names : Request(k)
  \/ Close \/ Respond
  \/ AskClear \/ AskBlind \/ AskAddress
  \/ Sign \/ Dismiss
  \/ Toggle

Spec == Init /\ [][Next]_vars
=============================================================================
