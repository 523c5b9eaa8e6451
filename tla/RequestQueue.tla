---------------------------- MODULE RequestQueue ----------------------------
(***************************************************************************)
(* The request queue (request_queue.c): a linked list behind a header      *)
(* node, and a size that the code keeps beside it.  A push inserts at the  *)
(* position the size says, so that list and size must agree.               *)
(*                                                                         *)
(* Its callers hold request_queue_mutex (OfficePool, MutexInv): one        *)
(* operation is one step.                                                  *)
(***************************************************************************)
EXTENDS Integers, Sequences, FiniteSets

CONSTANTS
    Nodes,        \* the memory for nodes
    Null,
    Requests,
    Nothing,
    InitialSizes  \* what queue_create's malloc may leave in size

ASSUME QueueAssumption ==
    /\ IsFiniteSet(Nodes) /\ Null \notin Nodes
    /\ Nothing \notin Requests /\ InitialSizes \subseteq Nat

VARIABLES
    first,    \* header->next
    next,     \* the next of each node
    element,  \* the element of each node
    used,     \* the nodes malloced and not freed
    size,
    dead,     \* the server has dereferenced a null pointer
    popped    \* what the last queue_pop returned

vars == <<first, next, element, used, size, dead, popped>>

\* The list: the chain of nodes that leads from first to null.
Chains == UNION {[1..k -> Nodes] : k \in 0..Cardinality(Nodes)}
IsList(s) ==
    /\ first = IF s = <<>> THEN Null ELSE s[1]
    /\ \A i \in DOMAIN s : next[s[i]] = IF i = Len(s) THEN Null ELSE s[i + 1]
List == CHOOSE s \in Chains : IsList(s)
InList == LET l == List IN {l[i] : i \in DOMAIN l}
\* The requests in it.
Items == LET l == List IN [i \in DOMAIN l |-> element[l[i]]]

Init ==
    /\ first = Null
    /\ next = [n \in Nodes |-> Null]
    /\ element = [n \in Nodes |-> Nothing]
    /\ used = {}
    /\ size \in InitialSizes
    /\ dead = FALSE
    /\ popped = Nothing

-----------------------------------------------------------------------------
(* Plausible bugs: mutated forms of definitions below, no part of the      *)
(* specification.                                                          *)

\* queue_insert at the front does not count.
InsertFirstUncounted(n) ==
    /\ size = 0
    /\ first' = n
    /\ next' = [next EXCEPT ![n] = first]
    /\ UNCHANGED size

\* The walk stops one node early.
InsertOneEarly(n) ==
    /\ size # 0 /\ size <= Len(List)
    /\ LET at == List[IF size > 1 THEN size - 1 ELSE size] IN
       next' = [next EXCEPT ![at] = n, ![n] = next[at]]
    /\ size' = size + 1
    /\ UNCHANGED first

\* queue_delete does not free the node.
FreeMissing(n) == UNCHANGED used

-----------------------------------------------------------------------------
(* queue_insert at position size, for a new node n.                        *)

\* Position 0: behind the header.
InsertFirst(n) ==
    /\ size = 0
    /\ first' = n
    /\ next' = [next EXCEPT ![n] = first]
    /\ size' = size + 1

\* Behind the node at position size - 1.
InsertAfter(n) ==
    /\ size # 0 /\ size <= Len(List)
    /\ LET at == List[size] IN
       next' = [next EXCEPT ![at] = n, ![n] = next[at]]
    /\ size' = size + 1
    /\ UNCHANGED first

Push(r) ==
    /\ \E n \in Nodes \ used :
          /\ InsertFirst(n) \/ InsertAfter(n)
          /\ element' = [element EXCEPT ![n] = r]
          /\ used' = used \cup {n}
    /\ UNCHANGED <<dead, popped>>

\* The list ends before that position: currentNode is null, and dereferenced.
PushBeyondEnd ==
    /\ size > Len(List) /\ used # Nodes
    /\ dead' = TRUE
    /\ UNCHANGED <<first, next, element, used, size, popped>>

-----------------------------------------------------------------------------
Free(n) == used' = used \ {n}

\* queue_retreive and queue_delete at position 0.
Pop ==
    /\ first # Null
    /\ popped' = element[first]
    /\ first' = next[first]
    /\ Free(first)
    /\ size' = size - 1
    /\ UNCHANGED <<next, element, dead>>

\* queue_delete takes the next of a null pointer.
PopNothing ==
    /\ first = Null
    /\ dead' = TRUE
    /\ UNCHANGED <<first, next, element, used, size, popped>>

Next ==
    /\ ~dead
    /\ (\E r \in Requests : Push(r)) \/ PushBeyondEnd \/ Pop \/ PopNothing

Spec == Init /\ [][Next]_vars

-----------------------------------------------------------------------------
TypeOK ==
    /\ first \in Nodes \cup {Null}
    /\ next \in [Nodes -> Nodes \cup {Null}]
    /\ element \in [Nodes -> Requests \cup {Nothing}]
    /\ used \subseteq Nodes
    /\ size \in Nat
    /\ dead \in BOOLEAN
    /\ popped \in Requests \cup {Nothing}

\* No node is lost, and none is in the list after its free.
NoLeak == used = InList /\ Cardinality(used) = Len(List)

Fifo == INSTANCE RequestFifo WITH items <- Items

\* Pushes and pops are those of a first-in first-out sequence.
ImplementsFifo == Fifo!Spec
=============================================================================
