----------------------------- MODULE RemoteCall -----------------------------
(***************************************************************************)
(* What a remote call promises its caller, in either direction of the      *)
(* WebSocket transport: invoke() of a client, and invokeClient() of the    *)
(* server. It is answered once or refused once; it takes effect at most    *)
(* once, and it is answered only after it did. A refusal promises nothing: *)
(* the call may have had its effect, or may have it later.                 *)
(***************************************************************************)
CONSTANT Call

VARIABLES
  outcome,    \* what the caller has: nothing asked, no answer yet, an answer
  effected    \* the calls that took effect

callVars == <<outcome, effected>>

CallInit ==
  /\ outcome = [c \in Call |-> "none"]
  /\ effected = {}

Settle(c, from, to) ==
  /\ outcome[c] = from
  /\ outcome' = [outcome EXCEPT ![c] = to]
  /\ UNCHANGED effected

TakeEffect(c) ==
  /\ outcome[c] # "none" /\ c \notin effected
  /\ effected' = effected \union {c}
  /\ UNCHANGED outcome

\* Several callers may be refused at once: a connection takes them all with it.
Refuse(cs) ==
  /\ cs \subseteq {c \in Call : outcome[c] \in {"none", "waiting"}}
  /\ outcome' = [c \in Call |-> IF c \in cs THEN "refused" ELSE outcome[c]]
  /\ UNCHANGED effected

CallNext ==
  \/ \E c \in Call : Settle(c, "none", "waiting")
  \/ \E c \in effected : Settle(c, "waiting", "answered")
  \/ \E c \in Call : TakeEffect(c)
  \/ \E cs \in SUBSET Call : Refuse(cs)

CallSpec == CallInit /\ [][CallNext]_callVars
=============================================================================
