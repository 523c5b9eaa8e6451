------------------------- MODULE RequestQueueProofs -------------------------
(***************************************************************************)
(* Proofs about RequestQueue: its linked list and the size beside it are a *)
(* first-in first-out sequence, for any memory and any requests.           *)
(***************************************************************************)
EXTENDS RequestQueue, FiniteSetTheorems, SequenceTheorems, TLAPS

-----------------------------------------------------------------------------
(* The inductive invariant.                                                *)

\* A chain from first to null through each used node once.
Members(s) == {s[i] : i \in 1..Len(s)}
Whole(s) ==
    /\ s \in Seq(Nodes) /\ IsList(s)
    /\ \A i, j \in 1..Len(s) : s[i] = s[j] => i = j
    /\ used = Members(s) /\ Cardinality(used) = Len(s)

\* There is one, and the size is its length, unless the size was never set: then
\* nothing has been pushed yet.
ListInv == \E s \in Seq(Nodes) : Whole(s) /\ (size = Len(s) \/ Len(s) = 0)

IInv == TypeOK /\ ListInv

-----------------------------------------------------------------------------
(* Lists.                                                                  *)

\* Every set of positions has a first one.
LEMMA Least ==
    ASSUME NEW B \in SUBSET (Nat \ {0}), B # {}
    PROVE  \E i \in B : \A j \in B : i <= j
<1> DEFINE Smaller == StrictSubsetOrdering(Nat)
           F == {1..i : i \in B}
<1>1. IsWellFoundedOn(Smaller, FiniteSubsetsOf(Nat))
  BY FS_StrictSubsetOrderingWellFounded
<1>2. F \subseteq FiniteSubsetsOf(Nat) /\ F # {}
  <2>1. \A i \in B : 1..i \in SUBSET Nat /\ IsFiniteSet(1..i)
    BY FS_Interval
  <2>2. QED BY <2>1 DEF FiniteSubsetsOf
<1>3. PICK s \in F : \A t \in F : ~(<<t, s>> \in Smaller)
  <2> HIDE DEF F, Smaller
  <2> QED BY <1>1, <1>2, WFMin
<1>4. PICK i \in B : s = 1..i
  BY <1>3
<1>5. ASSUME NEW j \in B, ~(i <= j) PROVE FALSE
  <2>1. 1..j \subseteq 1..i /\ i \in 1..i /\ i \notin 1..j
    BY <1>5
  <2>2. 1..j \in F /\ 1..j # 1..i /\ 1..i \subseteq Nat /\ 1..j \subseteq Nat
    BY <2>1
  <2>3. <<1..j, 1..i>> \in Smaller
    BY <2>1, <2>2 DEF StrictSubsetOrdering
  <2>4. QED BY <1>3, <1>4, <2>2, <2>3
<1>6. QED BY <1>5

\* Two chains from first are the same as far as both go.
LEMMA SamePrefix ==
    ASSUME NEW s \in Seq(Nodes), NEW t \in Seq(Nodes), IsList(s), IsList(t),
           NEW k \in 1..Len(s), k \in 1..Len(t)
    PROVE  s[k] = t[k]
<1> DEFINE B == {i \in Nat \ {0} : i <= Len(s) /\ i <= Len(t) /\ s[i] # t[i]}
<1>0. Len(s) \in Nat /\ Len(t) \in Nat /\ DOMAIN s = 1..Len(s) /\ DOMAIN t = 1..Len(t)
  BY LenProperties
<1>1. SUFFICES B = {}
  BY <1>0, <1>1
<1> SUFFICES ASSUME B # {} PROVE FALSE
  OBVIOUS
<1>2. PICK i \in B : \A j \in B : i <= j
  <2> B \in SUBSET (Nat \ {0})
    OBVIOUS
  <2> HIDE DEF B
  <2> QED BY Least
<1>3. CASE i = 1
  <2>1. s # <<>> /\ t # <<>>
    BY <1>0, <1>2, EmptySeq
  <2>2. QED BY <1>2, <1>3, <2>1 DEF IsList
<1>4. CASE i # 1
  <2>1. i - 1 \in Nat \ {0} /\ i - 1 < Len(s) /\ i - 1 < Len(t) /\ i - 1 \notin B
    BY <1>0, <1>2, <1>4
  <2>2. s[i - 1] = t[i - 1]
    BY <1>0, <2>1
  <2>3. next[s[i - 1]] = s[(i - 1) + 1] /\ next[t[i - 1]] = t[(i - 1) + 1]
    BY <1>0, <2>1 DEF IsList
  <2>4. (i - 1) + 1 = i
    BY <1>2
  <2>5. QED BY <1>2, <2>2, <2>3, <2>4
<1>5. QED BY <1>3, <1>4

\* and neither goes on where the other has met null.
LEMMA NotShorter ==
    ASSUME NEW s \in Seq(Nodes), NEW t \in Seq(Nodes), IsList(s), IsList(t)
    PROVE  ~(Len(s) < Len(t))
<1> SUFFICES ASSUME Len(s) < Len(t) PROVE FALSE
  OBVIOUS
<1>0. Len(s) \in Nat /\ Len(t) \in Nat /\ DOMAIN s = 1..Len(s) /\ DOMAIN t = 1..Len(t)
  BY LenProperties
<1>1. \A i \in 1..Len(t) : t[i] \in Nodes /\ t[i] # Null
  BY ElementOfSeq, QueueAssumption
<1>2. t # <<>>
  BY <1>0, EmptySeq
<1>3. CASE Len(s) = 0
  <2>1. s = <<>>
    BY <1>3, EmptySeq
  <2>2. first = Null /\ first = t[1] /\ 1 \in 1..Len(t)
    BY <1>0, <1>2, <1>3, <2>1 DEF IsList
  <2>3. QED BY <1>1, <2>2
<1>4. CASE Len(s) # 0
  <2>1. Len(s) \in 1..Len(s) /\ Len(s) \in 1..Len(t) /\ Len(s) + 1 \in 1..Len(t)
    BY <1>0, <1>4
  <2>2. next[s[Len(s)]] = Null
    BY <1>0, <2>1 DEF IsList
  <2>3. next[t[Len(s)]] = t[Len(s) + 1]
    BY <1>0, <2>1 DEF IsList
  <2>4. s[Len(s)] = t[Len(s)]
    BY <2>1, SamePrefix
  <2>5. QED BY <1>1, <2>1, <2>2, <2>3, <2>4
<1>5. QED BY <1>3, <1>4

\* So there is one list at most.
LEMMA OneList ==
    ASSUME NEW s \in Seq(Nodes), NEW t \in Seq(Nodes), IsList(s), IsList(t)
    PROVE  s = t
<1>1. Len(s) \in Nat /\ Len(t) \in Nat
  BY LenProperties
<1>2. Len(s) = Len(t)
  BY <1>1, NotShorter
<1>3. \A i \in 1..Len(s) : s[i] = t[i]
  BY <1>2, SamePrefix
<1>4. QED BY <1>2, <1>3, SeqEqual

\* A whole list is the one that List chooses.
LEMMA TheList == TypeOK => \A s \in Seq(Nodes) : Whole(s) => List = s
<1> SUFFICES ASSUME TypeOK, NEW s \in Seq(Nodes), Whole(s) PROVE List = s
  OBVIOUS
<1>1. IsFiniteSet(Nodes) /\ used \subseteq Nodes
  BY QueueAssumption DEF TypeOK
<1>2. Cardinality(used) <= Cardinality(Nodes) /\ Cardinality(Nodes) \in Nat
  BY <1>1, FS_Subset, FS_CardinalityType
<1>3. Len(s) \in 0..Cardinality(Nodes) /\ s \in [1..Len(s) -> Nodes]
  BY <1>2, LenProperties DEF Whole
<1>4. s \in Chains
  BY <1>3 DEF Chains
<1>5. Chains \subseteq Seq(Nodes)
  BY <1>2, SeqDef DEF Chains
<1>6. List \in Chains /\ IsList(List)
  BY <1>4 DEF List, Whole
<1>7. QED BY <1>5, <1>6, OneList DEF Whole

\* What the properties say of a whole list.
LEMMA WholeList ==
    TypeOK => \A s \in Seq(Nodes) : Whole(s) =>
        NoLeak /\ Items = [i \in 1..Len(s) |-> element[s[i]]]
<1> SUFFICES ASSUME TypeOK, NEW s \in Seq(Nodes), Whole(s)
             PROVE  NoLeak /\ Items = [i \in 1..Len(s) |-> element[s[i]]]
  OBVIOUS
<1>1. List = s /\ DOMAIN s = 1..Len(s)
  BY TheList, LenProperties
<1>2. QED BY <1>1 DEF NoLeak, InList, Items, Whole, Members

\* The same of the next state.
LEMMA WholeListNext ==
    TypeOK' => (\A s \in Seq(Nodes) : Whole(s) =>
        NoLeak /\ Items = [i \in 1..Len(s) |-> element[s[i]]])'
BY WholeList, PTL

-----------------------------------------------------------------------------
(* The steps.                                                              *)

\* The queue is empty at first.
LEMMA Initial == Init => IInv
<1> SUFFICES ASSUME Init PROVE IInv
  OBVIOUS
<1>1. TypeOK
  BY QueueAssumption DEF Init, TypeOK
<1>2. <<>> \in Seq(Nodes) /\ Len(<<>>) = 0
  BY EmptySeq
<1>3. Cardinality({}) = 0
  BY FS_EmptySet
<1>4. Whole(<<>>)
  BY <1>2, <1>3 DEF Whole, IsList, Members, Init
<1>5. QED BY <1>1, <1>2, <1>4 DEF IInv, ListInv

\* A push puts a node at the end of the list.
LEMMA Pushed ==
    ASSUME TypeOK, NEW s \in Seq(Nodes), Whole(s), size = Len(s) \/ Len(s) = 0,
           NEW r \in Requests, NEW n \in Nodes \ used, InsertFirst(n) \/ InsertAfter(n),
           element' = [element EXCEPT ![n] = r], used' = used \cup {n},
           UNCHANGED <<dead, popped>>
    PROVE  /\ TypeOK' /\ Whole(Append(s, n))' /\ size' = Len(s) + 1
<1> DEFINE t == Append(s, n)
<1>n. Len(s) \in Nat
  BY LenProperties
<1>0. Len(s) \in Nat /\ DOMAIN s = 1..Len(s)
  BY LenProperties
<1>l. List = s
  BY TheList
<1>a. s # <<>> => Len(s) # 0
  BY EmptySeq
<1>b. Len(s) # 0 => s # <<>>
  BY EmptySeq
<1>c. Len(s) # 0 => 1 \in 1..Len(s) /\ Len(s) \in 1..Len(s)
  BY <1>n
<1>1. /\ t \in Seq(Nodes) /\ t # <<>> /\ Len(t) = Len(s) + 1
      /\ \A i \in 1..Len(s) : t[i] = s[i]
      /\ t[Len(s) + 1] = n
      /\ DOMAIN t = 1..(Len(s) + 1)
  BY AppendProperties, LenProperties
<1>2. \A i \in 1..Len(s) : s[i] \in Nodes /\ s[i] \in used /\ s[i] # n
  BY ElementOfSeq DEF Whole, Members
<1> HIDE DEF t
<1>3. /\ size = Len(s) /\ size' = Len(s) + 1
      /\ first' = IF s = <<>> THEN n ELSE first
      /\ next' = IF s = <<>> THEN [next EXCEPT ![n] = Null]
                 ELSE [next EXCEPT ![s[Len(s)]] = n, ![n] = Null]
  <2>1. CASE InsertFirst(n)
    <3>1. s = <<>>
      BY <1>0, <2>1, EmptySeq DEF InsertFirst
    <3>2. Len(s) = 0 /\ first = Null
      BY <3>1, EmptySeq DEF Whole, IsList
    <3>3. QED BY <2>1, <3>1, <3>2 DEF InsertFirst
  <2>2. CASE InsertAfter(n)
    <3>1. s # <<>> /\ size = Len(s) /\ Len(s) \in 1..Len(s)
      <4>1. size \in Nat /\ size # 0 /\ size <= Len(s)
        BY <1>0, <1>l, <2>2 DEF InsertAfter, TypeOK
      <4>2. Len(s) # 0
        BY <1>n, <4>1
      <4>3. QED BY <1>b, <1>c, <4>1, <4>2
    <3>2. next[s[Len(s)]] = Null
      BY <1>0, <3>1 DEF Whole, IsList
    <3>3. QED BY <1>0, <1>l, <2>2, <3>1, <3>2 DEF InsertAfter
  <2>3. QED BY <2>1, <2>2
<1>4. TypeOK'
  <2>1. next' \in [Nodes -> Nodes \cup {Null}]
    BY <1>2, <1>3 DEF TypeOK
  <2>2. first' \in Nodes \cup {Null} /\ size' \in Nat
    BY <1>0, <1>3 DEF TypeOK
  <2>3. QED BY <2>1, <2>2 DEF TypeOK
<1>5. IsList(t)'
  <2>1. first' = t[1]
    <3>1. CASE s = <<>>
      <4>1. Len(s) + 1 = 1
        BY <3>1, EmptySeq
      <4>2. QED BY <1>1, <1>3, <3>1, <4>1
    <3>2. CASE s # <<>>
      <4>1. 1 \in 1..Len(s)
        BY <1>0, <3>2
      <4>2. first = s[1]
        BY <3>2 DEF Whole, IsList
      <4>3. QED BY <1>1, <1>3, <3>2, <4>1, <4>2
    <3>3. QED BY <3>1, <3>2
  <2>2. ASSUME NEW i \in 1..(Len(s) + 1)
        PROVE  next'[t[i]] = IF i = Len(t) THEN Null ELSE t[i + 1]
    <3>1. CASE i = Len(s) + 1
      BY <1>1, <1>2, <1>3, <3>1 DEF TypeOK
    <3>2. CASE i # Len(s) + 1 /\ i = Len(s)
      <4>1. Len(s) \in 1..Len(s) /\ s # <<>>
        BY <1>n, <1>b, <1>c, <2>2, <3>2
      <4>2. next'[s[Len(s)]] = n
        BY <1>2, <1>3, <4>1 DEF TypeOK
      <4>3. QED BY <1>0, <1>1, <3>2, <4>1, <4>2
    <3>3. CASE i # Len(s) + 1 /\ i # Len(s)
      <4>1. i \in 1..Len(s) /\ i + 1 \in 1..Len(s) /\ Len(s) \in 1..Len(s) /\ s # <<>>
        BY <1>n, <1>b, <1>c, <2>2, <3>3
      <4>2. s[i] # s[Len(s)]
        BY <3>3, <4>1 DEF Whole
      <4>3. next'[s[i]] = next[s[i]]
        BY <1>2, <1>3, <4>1, <4>2 DEF TypeOK
      <4>4. next[s[i]] = s[i + 1]
        BY <1>0, <3>3, <4>1 DEF Whole, IsList
      <4>5. QED BY <1>0, <1>1, <3>3, <4>1, <4>3, <4>4
    <3>4. QED BY <3>1, <3>2, <3>3
  <2>3. QED BY <1>1, <2>1, <2>2 DEF IsList
<1>6. \A i, j \in 1..Len(t) : t[i] = t[j] => i = j
  <2> SUFFICES ASSUME NEW i \in 1..Len(t), NEW j \in 1..Len(t), t[i] = t[j] PROVE i = j
    OBVIOUS
  <2>1. i \in 1..Len(s) \/ i = Len(s) + 1
    BY <1>0, <1>1
  <2>2. j \in 1..Len(s) \/ j = Len(s) + 1
    BY <1>0, <1>1
  <2>3. QED BY <1>1, <1>2, <2>1, <2>2 DEF Whole
<1>7. used' = Members(t)
  <2>1. ASSUME NEW m \in used' PROVE m \in Members(t)
    <3>1. m = n \/ \E i \in 1..Len(s) : m = s[i]
      BY <2>1 DEF Whole, Members
    <3>2. n = t[Len(t)] /\ Len(t) \in 1..Len(t)
      BY <1>0, <1>1
    <3>3. \A i \in 1..Len(s) : i \in 1..Len(t) /\ s[i] = t[i]
      BY <1>0, <1>1
    <3>4. QED BY <3>1, <3>2, <3>3 DEF Members
  <2>2. ASSUME NEW i \in 1..Len(t) PROVE t[i] \in used'
    <3>1. i \in 1..Len(s) \/ i = Len(s) + 1
      BY <1>0, <1>1
    <3>2. QED BY <1>1, <1>2, <3>1
  <2>3. QED BY <2>1, <2>2 DEF Members
<1>8. Cardinality(used') = Len(t)
  <2>1. IsFiniteSet(used)
    BY QueueAssumption, FS_Subset DEF TypeOK
  <2>2. QED BY <1>1, <2>1, FS_AddElement DEF Whole
<1>9. Whole(t)'
  BY <1>1, <1>5, <1>6, <1>7, <1>8 DEF Whole, Members
<1>10. QED BY <1>3, <1>4, <1>9 DEF t

\* A pop takes the first node away.
LEMMA Popped ==
    ASSUME TypeOK, NEW s \in Seq(Nodes), Whole(s), size = Len(s) \/ Len(s) = 0, Pop
    PROVE  /\ s # <<>> /\ TypeOK' /\ Whole(Tail(s))' /\ size' = Len(Tail(s))
           /\ first = s[1]
<1> DEFINE t == Tail(s)
<1>0. Len(s) \in Nat /\ DOMAIN s = 1..Len(s)
  BY LenProperties
<1>1. s # <<>> /\ first = s[1]
  BY DEF Pop, Whole, IsList
<1>2. /\ t \in Seq(Nodes) /\ Len(t) = Len(s) - 1
      /\ \A i \in 1..Len(t) : t[i] = s[i + 1]
      /\ Len(t) \in Nat /\ DOMAIN t = 1..Len(t) /\ 1 \in 1..Len(s)
  BY <1>0, <1>1, HeadTailProperties, LenProperties, EmptySeq
<1> HIDE DEF t
<1>3. \A i \in 1..Len(s) : s[i] \in Nodes
  BY ElementOfSeq
<1>4. size' = Len(t)
  BY <1>1, <1>2 DEF Pop
<1>5. TypeOK'
  BY <1>1, <1>2, <1>3, <1>4 DEF Pop, Free, TypeOK
<1>6. first' = next[s[1]] /\ next' = next /\ used' = used \ {s[1]}
  BY <1>1 DEF Pop, Free
<1>7. IsList(t)'
  <2>1. first' = IF t = <<>> THEN Null ELSE t[1]
    <3>1. next[s[1]] = IF 1 = Len(s) THEN Null ELSE s[1 + 1]
      BY <1>0, <1>2 DEF Whole, IsList
    <3>2. CASE Len(s) = 1
      <4>1. t = <<>>
        BY <1>2, <3>2, EmptySeq
      <4>2. QED BY <1>6, <3>1, <3>2, <4>1
    <3>3. CASE Len(s) # 1
      <4>1. t # <<>> /\ 1 \in 1..Len(t)
        BY <1>0, <1>2, <3>3, EmptySeq
      <4>2. QED BY <1>2, <1>6, <3>1, <3>3, <4>1
    <3>4. QED BY <3>2, <3>3
  <2>2. ASSUME NEW i \in 1..Len(t)
        PROVE  next[t[i]] = IF i = Len(t) THEN Null ELSE t[i + 1]
    <3>1. i + 1 \in 1..Len(s) /\ (i = Len(t) <=> i + 1 = Len(s))
      BY <1>0, <1>2
    <3>2. next[s[i + 1]] = IF i + 1 = Len(s) THEN Null ELSE s[(i + 1) + 1]
      BY <1>0, <3>1 DEF Whole, IsList
    <3>3. i # Len(t) => i + 1 \in 1..Len(t)
      BY <1>2
    <3>4. QED BY <1>2, <3>1, <3>2, <3>3
  <2>3. QED BY <1>2, <1>6, <2>1, <2>2 DEF IsList
<1>8. \A i, j \in 1..Len(t) : t[i] = t[j] => i = j
  <2> SUFFICES ASSUME NEW i \in 1..Len(t), NEW j \in 1..Len(t), t[i] = t[j] PROVE i = j
    OBVIOUS
  <2>1. i + 1 \in 1..Len(s) /\ j + 1 \in 1..Len(s)
    BY <1>0, <1>2
  <2>2. i + 1 = j + 1
    BY <1>2, <2>1 DEF Whole
  <2>3. QED BY <2>2
<1>9. used' = Members(t)
  <2>1. ASSUME NEW n \in used \ {s[1]} PROVE n \in Members(t)
    <3>1. PICK i \in 1..Len(s) : n = s[i]
      BY <2>1 DEF Whole, Members
    <3>2. i - 1 \in 1..Len(t) /\ (i - 1) + 1 = i
      BY <1>0, <1>2, <2>1, <3>1
    <3>3. QED BY <1>2, <3>1, <3>2 DEF Members
  <2>2. ASSUME NEW n \in Members(t) PROVE n \in used \ {s[1]}
    <3>1. PICK i \in 1..Len(t) : n = t[i]
      BY <2>2 DEF Members
    <3>2. i + 1 \in 1..Len(s) /\ i + 1 # 1 /\ n = s[i + 1]
      BY <1>0, <1>2, <3>1
    <3>3. QED BY <1>2, <3>2 DEF Whole, Members
  <2>3. QED BY <1>6, <2>1, <2>2
<1>10. Cardinality(used') = Len(t)
  <2>1. IsFiniteSet(used) /\ s[1] \in used
    BY <1>2, QueueAssumption, FS_Subset DEF TypeOK, Whole, Members
  <2>2. QED BY <1>2, <1>6, <2>1, FS_RemoveElement DEF Whole
<1>11. Whole(t)'
  BY <1>2, <1>7, <1>8, <1>9, <1>10 DEF Whole, Members
<1>12. QED BY <1>1, <1>4, <1>5, <1>11 DEF t

\* Nothing changes but whether the server is still there.
LEMMA Crashed ==
    ASSUME IInv, UNCHANGED <<first, next, element, used, size, popped>>, dead' \in BOOLEAN
    PROVE  IInv'
<1>1. TypeOK'
  BY DEF IInv, TypeOK
<1>2. ListInv'
  BY DEF IInv, ListInv, Whole, IsList
<1>3. QED BY <1>1, <1>2 DEF IInv

\* Every step keeps the invariant.
LEMMA Inductive == IInv /\ [Next]_vars => IInv'
<1> SUFFICES ASSUME IInv, [Next]_vars PROVE IInv'
  OBVIOUS
<1>0. PICK s \in Seq(Nodes) : Whole(s) /\ (size = Len(s) \/ Len(s) = 0)
  BY DEF IInv, ListInv
<1>1. ASSUME NEW r \in Requests, Push(r) PROVE IInv'
  <2>1. PICK n \in Nodes \ used :
           /\ InsertFirst(n) \/ InsertAfter(n)
           /\ element' = [element EXCEPT ![n] = r]
           /\ used' = used \cup {n}
    BY <1>1 DEF Push
  <2>2. UNCHANGED <<dead, popped>>
    BY <1>1 DEF Push
  <2>3. TypeOK' /\ Whole(Append(s, n))' /\ size' = Len(s) + 1
    BY <1>0, <2>1, <2>2, Pushed DEF IInv
  <2>4. Append(s, n) \in Seq(Nodes) /\ Len(Append(s, n)) = Len(s) + 1
    BY AppendProperties
  <2>5. ListInv'
    BY <2>3, <2>4 DEF ListInv
  <2>6. QED BY <2>3, <2>5 DEF IInv
<1>2. CASE Pop
  <2>1. s # <<>> /\ TypeOK' /\ Whole(Tail(s))' /\ size' = Len(Tail(s))
    BY <1>0, <1>2, Popped DEF IInv
  <2>2. Tail(s) \in Seq(Nodes)
    BY <2>1, HeadTailProperties
  <2>3. ListInv'
    BY <2>1, <2>2 DEF ListInv
  <2>4. QED BY <2>1, <2>3 DEF IInv
<1>3. CASE PushBeyondEnd \/ PopNothing \/ UNCHANGED vars
  BY <1>3, Crashed DEF PushBeyondEnd, PopNothing, vars, IInv, TypeOK
<1>4. QED BY <1>1, <1>2, <1>3 DEF Next

\* The invariant holds of every state.
LEMMA Invariant == Spec => []IInv
<1>1. QED BY Initial, Inductive, PTL DEF Spec

-----------------------------------------------------------------------------
(* The theorems.                                                           *)

\* Every variable keeps its type; in particular the size is never negative.
THEOREM TypeCorrect == Spec => []TypeOK
<1>1. IInv => TypeOK
  BY DEF IInv
<1>2. QED BY Invariant, <1>1, PTL

\* The nodes that are malloced and not freed are those in the list, each once.
THEOREM NothingLeaks == Spec => []NoLeak
<1>1. IInv => NoLeak
  BY WholeList DEF IInv, ListInv
<1>2. QED BY Invariant, <1>1, PTL

-----------------------------------------------------------------------------
(* The queue is a first-in first-out sequence.                             *)

\* A push appends its request to the queue's.
LEMMA PushAppends == ASSUME IInv, NEW r \in Requests, Push(r) PROVE Fifo!Push(r)
<1>0. PICK s \in Seq(Nodes) : Whole(s) /\ (size = Len(s) \/ Len(s) = 0)
  BY DEF IInv, ListInv
<1>1. PICK n \in Nodes \ used :
         /\ InsertFirst(n) \/ InsertAfter(n)
         /\ element' = [element EXCEPT ![n] = r]
         /\ used' = used \cup {n}
  BY DEF Push
<1>2. UNCHANGED <<dead, popped>>
  BY DEF Push
<1> DEFINE t == Append(s, n)
           old == [i \in 1..Len(s) |-> element[s[i]]]
           new == [i \in 1..Len(t) |-> element'[t[i]]]
           S == Requests \cup {Nothing}
<1>3. TypeOK' /\ Whole(t)'
  BY <1>0, <1>1, <1>2, Pushed DEF IInv
<1>4. /\ t \in Seq(Nodes) /\ Len(t) = Len(s) + 1 /\ Len(s) \in Nat
      /\ \A i \in 1..Len(s) : t[i] = s[i] /\ s[i] \in Nodes /\ s[i] # n
      /\ t[Len(s) + 1] = n
  <2>1. /\ t \in Seq(Nodes) /\ Len(t) = Len(s) + 1 /\ Len(s) \in Nat
        /\ \A i \in 1..Len(s) : t[i] = s[i]
        /\ t[Len(s) + 1] = n
    BY AppendProperties, LenProperties
  <2> HIDE DEF t
  <2>2. \A i \in 1..Len(s) : s[i] \in Nodes /\ s[i] # n
    BY <1>0, ElementOfSeq DEF Whole, Members
  <2>3. QED BY <2>1, <2>2
<1>5. Items = old
  BY <1>0, WholeList DEF IInv
<1>6. Items' = new
  BY <1>3, <1>4, WholeListNext
<1> HIDE DEF t
<1>7. \A i \in 1..Len(s) : element[s[i]] \in S
  BY <1>4 DEF IInv, TypeOK
<1>8. old \in Seq(S) /\ Len(old) = Len(s)
  <2>1. old \in [1..Len(s) -> S]
    BY <1>7
  <2> HIDE DEF old
  <2>2. QED BY <1>4, <2>1, SeqDef, LenProperties
<1>9. \A i \in 1..Len(s) : element'[t[i]] = element[s[i]]
  BY <1>1, <1>4 DEF IInv, TypeOK
<1>10. element'[t[Len(s) + 1]] = r
  BY <1>1, <1>4 DEF IInv, TypeOK
<1>11. new \in Seq(S) /\ Len(new) = Len(s) + 1
  <2>1. \A i \in 1..Len(t) : element'[t[i]] \in S
    <3> SUFFICES ASSUME NEW i \in 1..Len(t) PROVE element'[t[i]] \in S
      OBVIOUS
    <3>1. i \in 1..Len(s) \/ i = Len(s) + 1
      BY <1>4
    <3>2. QED BY <1>7, <1>9, <1>10, <3>1
  <2>2. new \in [1..Len(t) -> S]
    BY <2>1
  <2> HIDE DEF new
  <2>3. QED BY <1>4, <2>2, SeqDef, LenProperties
<1>12. new = Append(old, r)
  <2>1. /\ Append(old, r) \in Seq(S) /\ Len(Append(old, r)) = Len(s) + 1
        /\ \A i \in 1..Len(s) : Append(old, r)[i] = old[i]
        /\ Append(old, r)[Len(s) + 1] = r
    <3> HIDE DEF old
    <3>1. QED BY <1>8, AppendProperties
  <2>2. \A i \in 1..Len(s) : old[i] = element[s[i]]
    OBVIOUS
  <2>3. \A i \in 1..(Len(s) + 1) : new[i] = element'[t[i]]
    BY <1>4
  <2> HIDE DEF old, new
  <2>4. ASSUME NEW i \in 1..(Len(s) + 1) PROVE new[i] = Append(old, r)[i]
    <3>1. i \in 1..Len(s) \/ i = Len(s) + 1
      BY <1>4
    <3>2. CASE i \in 1..Len(s)
      BY <1>9, <2>1, <2>2, <2>3, <2>4, <3>2
    <3>3. CASE i = Len(s) + 1
      BY <1>10, <2>1, <2>3, <2>4, <3>3
    <3>4. QED BY <3>1, <3>2, <3>3
  <2>5. QED BY <1>11, <2>1, <2>4, SeqEqual
<1>13. QED BY <1>2, <1>5, <1>6, <1>12 DEF Fifo!Push

\* A pop takes the first request and leaves the others.
LEMMA PopTakes == ASSUME IInv, Pop PROVE Fifo!Pop
<1>0. PICK s \in Seq(Nodes) : Whole(s) /\ (size = Len(s) \/ Len(s) = 0)
  BY DEF IInv, ListInv
<1> DEFINE t == Tail(s)
           old == [i \in 1..Len(s) |-> element[s[i]]]
           new == [i \in 1..Len(t) |-> element[t[i]]]
           S == Requests \cup {Nothing}
<1>1. s # <<>> /\ TypeOK' /\ Whole(t)' /\ first = s[1]
  BY <1>0, Popped DEF IInv
<1>2. element' = element /\ popped' = element[s[1]]
  BY <1>1 DEF Pop
<1>3. /\ t \in Seq(Nodes) /\ Len(t) = Len(s) - 1 /\ Len(s) \in Nat /\ Len(t) \in Nat
      /\ \A i \in 1..Len(t) : t[i] = s[i + 1]
      /\ \A i \in 1..Len(s) : s[i] \in Nodes
  BY <1>0, <1>1, HeadTailProperties, LenProperties, ElementOfSeq
<1>4. Items = old
  BY <1>0, WholeList DEF IInv
<1>5. Items' = new
  BY <1>1, <1>2, <1>3, WholeListNext
<1> HIDE DEF t
<1>6. old \in Seq(S) /\ Len(old) = Len(s)
  <2>1. old \in [1..Len(s) -> S]
    BY <1>3 DEF IInv, TypeOK
  <2> HIDE DEF old
  <2>2. QED BY <1>3, <2>1, SeqDef, LenProperties
<1>7. new \in Seq(S) /\ Len(new) = Len(t)
  <2>1. \A i \in 1..Len(t) : t[i] \in Nodes
    BY <1>3, ElementOfSeq
  <2>2. new \in [1..Len(t) -> S]
    BY <2>1 DEF IInv, TypeOK
  <2> HIDE DEF new
  <2>3. QED BY <1>3, <2>2, SeqDef, LenProperties
<1>8. 1 \in 1..Len(s)
  BY <1>1, <1>3
<1>9. old # <<>> /\ old[1] = element[s[1]]
  <2>1. old[1] = element[s[1]]
    BY <1>8
  <2> HIDE DEF old
  <2>2. old # <<>>
    BY <1>6, <1>8, EmptySeq
  <2>3. QED BY <2>1, <2>2
<1>10. new = Tail(old)
  <2>1. ASSUME NEW i \in 1..Len(t) PROVE new[i] = old[i + 1]
    <3>1. i + 1 \in 1..Len(s) /\ t[i] = s[i + 1]
      BY <1>3
    <3>2. QED BY <3>1
  <2> HIDE DEF old, new
  <2>2. /\ Tail(old) \in Seq(S) /\ Len(Tail(old)) = Len(old) - 1
        /\ \A i \in 1..Len(Tail(old)) : Tail(old)[i] = old[i + 1]
    BY <1>6, <1>9, HeadTailProperties
  <2>3. Len(Tail(old)) = Len(t)
    BY <1>3, <1>6, <2>2
  <2>4. QED BY <1>7, <2>1, <2>2, <2>3, SeqEqual
<1>11. Head(old) = old[1]
  <2> HIDE DEF old
  <2>1. QED BY <1>6, <1>9
<1>12. QED BY <1>2, <1>4, <1>5, <1>9, <1>10, <1>11 DEF Fifo!Pop

\* Every step is a push, a pop or nothing that shows.
LEMMA StepsFifo == IInv /\ [Next]_vars => [Fifo!Next]_<<Items, popped>>
<1> SUFFICES ASSUME IInv, [Next]_vars PROVE [Fifo!Next]_<<Items, popped>>
  OBVIOUS
<1>1. ASSUME NEW r \in Requests, Push(r) PROVE Fifo!Next
  BY <1>1, PushAppends DEF Fifo!Next
<1>2. CASE Pop
  BY <1>2, PopTakes DEF Fifo!Next
<1>3. CASE PushBeyondEnd \/ PopNothing \/ UNCHANGED vars
  <2>1. UNCHANGED <<first, next, element, popped>>
    BY <1>3 DEF PushBeyondEnd, PopNothing, vars
  <2>2. List' = List
    BY <2>1 DEF List, IsList, Chains
  <2>3. Items' = Items
    BY <2>1, <2>2 DEF Items
  <2>4. QED BY <2>1, <2>3
<1>4. QED BY <1>1, <1>2, <1>3 DEF Next

\* The list with its size implements the sequence.
THEOREM QueueIsFifo == Spec => ImplementsFifo
<1>1. Init => Fifo!Init
  <2> SUFFICES ASSUME Init PROVE Fifo!Init
    OBVIOUS
  <2>1. IInv /\ popped = Nothing /\ first = Null
    BY Initial DEF Init
  <2>2. PICK s \in Seq(Nodes) : Whole(s)
    BY <2>1 DEF IInv, ListInv
  <2>3. Len(s) = 0
    <3>1. Len(s) \in Nat
      BY LenProperties
    <3>2. s # <<>> => s[1] \in Nodes
      BY ElementOfSeq, EmptySeq
    <3>3. s = <<>>
      BY <2>1, <2>2, <3>2, QueueAssumption DEF Whole, IsList
    <3>4. QED BY <3>3, EmptySeq
  <2>4. Items = [i \in 1..0 |-> element[s[i]]]
    BY <2>1, <2>2, <2>3, WholeList DEF IInv
  <2>5. Items = <<>>
    BY <2>4
  <2>6. QED BY <2>1, <2>5 DEF Fifo!Init
<1>2. IInv /\ [Next]_vars => [Fifo!Next]_(Fifo!vars)
  BY StepsFifo DEF Fifo!vars
<1>3. QED BY <1>1, <1>2, Invariant, PTL DEF Spec, ImplementsFifo, Fifo!Spec
=============================================================================
