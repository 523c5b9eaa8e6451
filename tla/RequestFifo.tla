---------------------------- MODULE RequestFifo ----------------------------
(***************************************************************************)
(* What the request queue promises: first in, first out.                   *)
(***************************************************************************)
EXTENDS Sequences

CONSTANTS Requests, Nothing   \* Nothing: no request has been popped yet
VARIABLES items,    \* the requests queued
          popped    \* what the last pop returned

vars == <<items, popped>>

Init == items = <<>> /\ popped = Nothing

Push(r) == items' = Append(items, r) /\ UNCHANGED popped

Pop ==
    /\ items # <<>>
    /\ popped' = Head(items)
    /\ items' = Tail(items)

Next == Pop \/ \E r \in Requests : Push(r)

Spec == Init /\ [][Next]_vars
=============================================================================
