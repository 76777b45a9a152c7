----------------------------- MODULE EventStream -----------------------------
(***************************************************************************)
(* What the event channel of the WebSocket transport promises a window:    *)
(* it is given every event published for it, in order and once, and if any *)
(* of them can no longer be given to it, it is told that it is stale (and  *)
(* then reloads its state) before it is given a later one.                 *)
(*                                                                         *)
(* published[n] is the set of windows the n-th event was published for;    *)
(* known[w] the last event window w was given, or was told to make up for  *)
(* by a reload; notice[w] what w was told last.                            *)
(***************************************************************************)
EXTENDS Naturals, Sequences

CONSTANT Window

VARIABLES published, known, notice

streamVars == <<published, known, notice>>

\* The events window w still has to be given, or to be told about.
Owed(w) == {n \in (known[w] + 1)..Len(published) : w \in published[n]}

StreamInit ==
  /\ published = <<>>
  /\ known = [w \in Window |-> 0]
  /\ notice = [w \in Window |-> "none"]

Publish(ws) ==
  /\ published' = Append(published, ws)
  /\ UNCHANGED <<known, notice>>

\* The next owed event, and no other, is given to the window.
Give(w) ==
  /\ \E n \in Owed(w) :
       /\ \A m \in Owed(w) : n <= m
       /\ known' = [known EXCEPT ![w] = n]
  /\ notice' = [notice EXCEPT ![w] = "event"]
  /\ UNCHANGED published

\* The window is told to reload: nothing published so far, up to some n, is
\* owed to it any more. It loads without being told when it connects first,
\* and only then.
Reload(w) ==
  /\ \E n \in known[w]..Len(published) : known' = [known EXCEPT ![w] = n]
  /\ \/ notice[w] = "none" /\ notice' = [notice EXCEPT ![w] = "first"]
     \/ notice' = [notice EXCEPT ![w] = "stale"]
  /\ UNCHANGED published

\* The window is told that it missed nothing by being away.
CaughtUp(w) ==
  /\ notice' = [notice EXCEPT ![w] = "replayed"]
  /\ UNCHANGED <<published, known>>

StreamNext ==
  \/ \E ws \in SUBSET Window : Publish(ws)
  \/ \E w \in Window : Give(w) \/ Reload(w) \/ CaughtUp(w)

StreamSpec == StreamInit /\ [][StreamNext]_streamVars
=============================================================================
