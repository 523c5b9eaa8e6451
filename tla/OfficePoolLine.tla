-------------------------- MODULE OfficePoolLine --------------------------
(***************************************************************************)
(* Proofs that the office pool is a line of requests, for any finite       *)
(* non-empty set of offices and any users, whatever times out or dies:     *)
(* every request is in one place, the pool implements RequestLine, nothing *)
(* is left behind and nobody is answered twice.                            *)
(***************************************************************************)
EXTENDS OfficePoolProofs, SequenceTheorems

-----------------------------------------------------------------------------
(* Every request is in one place.                                          *)

LineNow == queue \o InHand \o pipe
Unsent == {"ready", "open"}
\* The users whose requests have been written to the FIFO, or never will be.
Sent == {u \in Users : userPc[u] \notin Unsent}

\* No request is twice in the line, or in it and served, or served by two
\* offices, or finished and still in either.
OwnInv ==
    /\ \A i, j \in 1..Len(LineNow) : LineNow[i] = LineNow[j] => i = j
    /\ \A i \in 1..Len(LineNow) :
          /\ LineNow[i] \in Sent /\ LineNow[i] \notin finished
          /\ \A o \in At(Serving) : cur[o] # LineNow[i]
    /\ \A o, p \in At(Serving) : cur[o] = cur[p] => o = p
    /\ \A o \in At(Serving) : cur[o] \in Sent /\ cur[o] \notin finished
    /\ finished \subseteq Sent

\* What a shutdown request has done was done by one.
StopInv ==
    /\ \A o \in Offices : offPc[o] = "chmod" => cur[o] \in ShutdownUsers
    /\ ~writable => \E u \in ShutdownUsers :
                        u \in finished \/ \E o \in At(Serving) : cur[o] = u

\* What the steps do to a line of queue, hand and pipe.
LEMMA LinePop ==
  ASSUME NEW S, NEW q \in Seq(S), NEW h \in Seq(S), NEW p \in Seq(S), q # <<>>
  PROVE  /\ q \o h \o p # <<>> /\ Head(q \o h \o p) = Head(q)
         /\ Tail(q) \o h \o p = Tail(q \o h \o p)
  <1>1. /\ Tail(q) \in Seq(S) /\ Len(Tail(q)) = Len(q) - 1 /\ Len(q) \in Nat /\ Len(q) # 0
        /\ \A i \in 1..Len(q) - 1 : Tail(q)[i] = q[i + 1]
    BY HeadTailProperties, EmptySeq, LenProperties
  <1> DEFINE L == q \o h \o p
             M == Tail(q) \o h \o p
  <1>2. /\ L \in Seq(S) /\ Len(L) = Len(q) + Len(h) + Len(p)
        /\ \A i \in 1..Len(q) : L[i] = q[i]
        /\ \A i \in 1..Len(h) : L[Len(q) + i] = h[i]
        /\ \A i \in 1..Len(p) : L[Len(q) + Len(h) + i] = p[i]
    BY ConcatProperties, LenProperties
  <1>3. /\ M \in Seq(S) /\ Len(M) = Len(q) - 1 + Len(h) + Len(p)
        /\ \A i \in 1..Len(q) - 1 : M[i] = q[i + 1]
        /\ \A i \in 1..Len(h) : M[Len(q) - 1 + i] = h[i]
        /\ \A i \in 1..Len(p) : M[Len(q) - 1 + Len(h) + i] = p[i]
    BY <1>1, ConcatProperties, LenProperties
  <1>4. Len(h) \in Nat /\ Len(p) \in Nat
    BY LenProperties
  <1> HIDE DEF L, M
  <1>5. L # <<>> /\ Head(L) = q[1] /\ Head(q) = q[1]
    BY <1>1, <1>2, <1>4
  <1>6. /\ Tail(L) \in Seq(S) /\ Len(Tail(L)) = Len(L) - 1
        /\ \A i \in 1..Len(L) - 1 : Tail(L)[i] = L[i + 1]
    BY <1>2, <1>5, HeadTailProperties
  <1>7. ASSUME NEW i \in 1..Len(M) PROVE M[i] = Tail(L)[i]
    <2>1. CASE i \in 1..Len(q) - 1
      BY <2>1, <1>1, <1>2, <1>3, <1>4, <1>6
    <2>2. CASE i - (Len(q) - 1) \in 1..Len(h)
      <3> DEFINE k == i - (Len(q) - 1)
      <3>1. M[i] = h[k]
        BY <2>2, <1>1, <1>3, <1>4
      <3>2. L[i + 1] = h[k]
        BY <2>2, <1>1, <1>2, <1>4
      <3> QED
        BY <3>1, <3>2, <1>1, <1>2, <1>3, <1>4, <1>6
    <2>3. CASE i - (Len(q) - 1) - Len(h) \in 1..Len(p)
      <3> DEFINE k == i - (Len(q) - 1) - Len(h)
      <3>1. M[i] = p[k]
        BY <2>3, <1>1, <1>3, <1>4
      <3>2. L[i + 1] = p[k]
        BY <2>3, <1>1, <1>2, <1>4, SMTT(30)
      <3> QED
        BY <3>1, <3>2, <1>1, <1>2, <1>3, <1>4, <1>6
    <2>4. /\ Len(q) \in Nat /\ Len(h) \in Nat /\ Len(p) \in Nat /\ Len(q) # 0
          /\ i \in 1..(Len(q) - 1 + Len(h) + Len(p))
      BY <1>1, <1>3, <1>4
    <2>5. \/ i \in 1..Len(q) - 1
          \/ i - (Len(q) - 1) \in 1..Len(h)
          \/ i - (Len(q) - 1) - Len(h) \in 1..Len(p)
      BY <2>4
    <2> QED
      BY <2>1, <2>2, <2>3, <2>5
  <1>8. M = Tail(L)
    BY <1>1, <1>2, <1>3, <1>4, <1>6, <1>7, SeqEqual
  <1> QED
    BY <1>5, <1>8 DEF L, M

\* A push, a read of main and a write of a user, as changes of the same line.
LEMMA LineMoves ==
  ASSUME NEW S, NEW q \in Seq(S), NEW p \in Seq(S), NEW h \in Seq(S), NEW u \in S
  PROVE  /\ Append(q, u) \o <<>> \o p = q \o <<u>> \o p
         /\ p # <<>> => q \o <<>> \o p = q \o <<Head(p)>> \o Tail(p)
         /\ q \o h \o Append(p, u) = Append(q \o h \o p, u)
  <1>1. Append(q, u) \o <<>> \o p = q \o <<u>> \o p
    BY AppendIsConcat, ConcatEmptySeq, AppendProperties
  <1>2. ASSUME p # <<>> PROVE q \o <<>> \o p = q \o <<Head(p)>> \o Tail(p)
    <2>1. Head(p) \in S /\ Tail(p) \in Seq(S) /\ <<Head(p)>> \in Seq(S)
      BY <1>2, HeadTailProperties
    <2>2. p = <<Head(p)>> \o Tail(p)
      BY <1>2, <2>1, ConcatProperties, HeadTailProperties
    <2> QED
      BY <2>1, <2>2, ConcatEmptySeq, ConcatAssociative, SMTT(30)
  <1>3. q \o h \o Append(p, u) = Append(q \o h \o p, u)
    <2>1. q \o h \in Seq(S) /\ <<u>> \in Seq(S) /\ q \o h \o p \in Seq(S)
      BY ConcatProperties
    <2> QED
      BY <2>1, AppendIsConcat, ConcatAssociative
  <1> QED
    BY <1>1, <1>2, <1>3

\* Where the places of the line are.
LEMMA LineTypes ==
  ASSUME IInv
  PROVE  /\ queue \in Seq(Users) /\ InHand \in Seq(Users) /\ pipe \in Seq(Users)
         /\ LineNow \in Seq(Users)
         /\ Len(LineNow) = Len(queue) + Len(InHand) + Len(pipe)
         /\ \A i \in 1..Len(queue) : LineNow[i] = queue[i]
         /\ inHand \in Users => LineNow[Len(queue) + 1] = inHand
         /\ \A i \in 1..Len(pipe) : LineNow[Len(queue) + Len(InHand) + i] = pipe[i]
         /\ Len(queue) \in Nat /\ Len(InHand) \in Nat /\ Len(pipe) \in Nat
         /\ Len(InHand) = IF inHand \in Users THEN 1 ELSE 0
  <1>1. queue \in Seq(Users) /\ pipe \in Seq(Users) /\ inHand \in Users \cup {NoUser}
    BY DEF IInv, TypeOK
  <1>2. /\ InHand \in Seq(Users)
        /\ Len(InHand) = IF inHand \in Users THEN 1 ELSE 0
        /\ inHand \in Users => InHand[1] = inHand
    BY <1>1, PoolAssumption DEF InHand
  <1>3. Len(queue) \in Nat /\ Len(pipe) \in Nat /\ Len(InHand) \in Nat
    BY <1>1, <1>2, LenProperties
  <1> DEFINE K == queue \o InHand
  <1>4. /\ K \in Seq(Users) /\ Len(K) = Len(queue) + Len(InHand)
        /\ \A i \in 1..Len(queue) + Len(InHand) :
              K[i] = IF i <= Len(queue) THEN queue[i] ELSE InHand[i - Len(queue)]
    BY <1>1, <1>2, ConcatProperties
  <1>6. /\ \A i \in 1..Len(queue) : K[i] = queue[i]
        /\ inHand \in Users => K[Len(queue) + 1] = inHand
    <2> HIDE DEF K
    <2> QED
      BY <1>2, <1>3, <1>4
  <1>5. /\ K \o pipe \in Seq(Users)
        /\ Len(K \o pipe) = Len(K) + Len(pipe)
        /\ \A i \in 1..Len(K) : (K \o pipe)[i] = K[i]
        /\ \A i \in 1..Len(pipe) : (K \o pipe)[Len(K) + i] = pipe[i]
    BY <1>1, <1>3, <1>4, ConcatProperties
  <1> QED
    BY <1>1, <1>2, <1>3, <1>4, <1>5, <1>6 DEF LineNow

\* Main moves a request along within the line.
LEMMA MainLine == ASSUME IInv, MainStep PROVE LineNow' = LineNow
  <1>0. queue \in Seq(Users) /\ InHand \in Seq(Users) /\ pipe \in Seq(Users)
    BY LineTypes
  <1>1. CASE Push
    <2>1. inHand \in Users /\ inHand # NoUser
      BY <1>1, PoolAssumption DEF Push, IInv, MainInv
    <2>2. /\ queue' = Append(queue, inHand) /\ InHand' = <<>> /\ InHand = <<inHand>> /\ pipe' = pipe
      BY <1>1, <2>1 DEF Push, InHand
    <2> QED
      BY <1>0, <2>1, <2>2, LineMoves DEF LineNow
  <1>2. CASE ReadRequest /\ pipe # <<>> /\ inHand' = Head(pipe) /\ pipe' = Tail(pipe)
    <2>1. Head(pipe) \in Users /\ Head(pipe) # NoUser /\ inHand = NoUser
      BY <1>2, <1>0, PoolAssumption, HeadTailProperties DEF ReadRequest, IInv, MainInv
    <2>2. queue' = queue /\ InHand' = <<Head(pipe)>> /\ InHand = <<>>
      BY <1>2, <2>1 DEF ReadRequest, InHand, semVars
    <2> QED
      BY <1>0, <1>2, <2>1, <2>2, LineMoves DEF LineNow
  <1>3. CASE UNCHANGED <<queue, inHand, pipe>>
    BY <1>3 DEF LineNow, InHand
  <1> QED
    BY <1>1, <1>2, <1>3 DEF MainStep, SpawnOffice, Setup, OpenRequestFifo, OpenDummy, ReadRequest,
          WaitEmpty, LockToPush, Push, PostFull, CloseCommunication, PostToken, JoinOffices, semVars

\* An office that deletes takes the head of the line, the request it retrieved.
LEMMA DeleteLine ==
  ASSUME IInv, NEW o \in Offices, Delete(o), UNCHANGED <<mainVars, userVars>>
  PROVE  LineNow # <<>> /\ cur[o] = Head(LineNow) /\ LineNow' = Tail(LineNow)
  <1>1. queue \in Seq(Users) /\ InHand \in Seq(Users) /\ pipe \in Seq(Users)
    BY LineTypes
  <1>2. queue # <<>> /\ queue' = Tail(queue) /\ InHand' = InHand /\ pipe' = pipe
    BY DEF Delete, mainVars, userVars, InHand
  <1>3. cur[o] = Head(queue)
    BY <1>2 DEF IInv, CurInv, Delete
  <1>4. /\ queue \o InHand \o pipe # <<>> /\ Head(queue \o InHand \o pipe) = Head(queue)
        /\ Tail(queue) \o InHand \o pipe = Tail(queue \o InHand \o pipe)
    <2> DEFINE q == queue
               h == InHand
               p == pipe
    <2>1. q \in Seq(Users) /\ h \in Seq(Users) /\ p \in Seq(Users) /\ q # <<>>
      BY <1>1, <1>2
    <2> HIDE DEF q, h, p
    <2>2. /\ q \o h \o p # <<>> /\ Head(q \o h \o p) = Head(q)
          /\ Tail(q) \o h \o p = Tail(q \o h \o p)
      <3>1. q \o h \o p # <<>>
        BY <2>1, LinePop, SMTT(30)
      <3>2. Head(q \o h \o p) = Head(q)
        BY <2>1, LinePop, SMTT(30)
      <3>3. Tail(q) \o h \o p = Tail(q \o h \o p)
        BY <2>1, LinePop, SMTT(30), ZenonT(30)
      <3> QED
        BY <3>1, <3>2, <3>3
    <2> QED
      BY <2>2 DEF q, h, p
  <1> QED
    BY <1>2, <1>3, <1>4 DEF LineNow

\* A user's request comes last.
LEMMA SendLine ==
  ASSUME IInv, NEW u \in Users, SendRequest(u), UNCHANGED <<mainVars, semVars>>
  PROVE  LineNow' = Append(LineNow, u)
  <1>1. queue \in Seq(Users) /\ InHand \in Seq(Users) /\ pipe \in Seq(Users)
    BY LineTypes
  <1>2. queue' = queue /\ InHand' = InHand /\ pipe' = Append(pipe, u)
    BY DEF SendRequest, mainVars, semVars, InHand
  <1> QED
    BY <1>1, <1>2, LineMoves DEF LineNow

\* Nothing changes hands.
LEMMA OwnSame ==
  ASSUME IInv, OwnInv, UNCHANGED <<LineNow, finished>>, At(Serving)' = At(Serving),
         \A o \in At(Serving) : cur'[o] = cur[o],
         Sent \subseteq Sent'
  PROVE  OwnInv'
  <1>1. LineNow \in Seq(Users) /\ finished \subseteq Users
    BY LineTypes DEF IInv, TypeOK
  <1>2. \A i \in 1..Len(LineNow) : LineNow[i] \in Users
    BY <1>1
  <1> QED
    BY <1>1, <1>2 DEF OwnInv, Sent

\* A step of an office that neither takes a request nor finishes one.
LEMMA OfficeMoves ==
  ASSUME IInv, NEW o \in Offices, OfficeStep(o),
         ~Delete(o), ~ReplyToNobody(o), ~WriteReply(o)
  PROVE  /\ UNCHANGED <<mainVars, userVars, queue, finished>>
         /\ At(Serving)' = At(Serving)
         /\ \A p \in At(Serving) : cur'[p] = cur[p]
  <1>1. UNCHANGED <<mainVars, userVars, queue, finished>>
    BY DEF OfficeStep, WaitFull, LockToCheck, Check, CountActive, LockToPop, Retrieve,
          Delete, DeleteNothing, PostEmpty, HandleWork, SetShutdown, MakeUnwritable,
          CloseDummy, ReportActive, ReplyToNobody, BlockOnReply, OpenReply, WriteReply,
          BrokenReply, CountIdle, semVars, outVars, replyVars
  <1>2. \/ offPc' = offPc
        \/ \E to \in OffPcs : Goto(o, to) /\ (to \in Serving <=> offPc[o] \in Serving)
    BY DEF OfficeStep, WaitFull, LockToCheck, Check, CountActive, LockToPop, Retrieve,
          Delete, DeleteNothing, PostEmpty, HandleWork, SetShutdown, MakeUnwritable,
          CloseDummy, ReportActive, ReplyToNobody, BlockOnReply, OpenReply, WriteReply,
          BrokenReply, CountIdle, offVars, OffPcs, Claiming, Serving
  <1>3. cur' = cur \/ (offPc[o] \notin Serving /\ \E x : cur' = [cur EXCEPT ![o] = x])
    BY DEF OfficeStep, WaitFull, LockToCheck, Check, CountActive, LockToPop, Retrieve,
          Delete, DeleteNothing, PostEmpty, HandleWork, SetShutdown, MakeUnwritable,
          CloseDummy, ReportActive, ReplyToNobody, BlockOnReply, OpenReply, WriteReply,
          BrokenReply, CountIdle, offVars, Serving
  <1>4. offPc \in [Offices -> OffPcs] /\ cur \in [Offices -> Users \cup {NoUser}]
    BY DEF IInv, TypeOK
  <1>5. At(Serving)' = At(Serving)
    BY <1>2, <1>4 DEF Goto, At
  <1>6. \A p \in At(Serving) : cur'[p] = cur[p]
    BY <1>3, <1>4 DEF At
  <1> QED
    BY <1>1, <1>5, <1>6

\* An office that finishes its request.
Finishes(o) == ReplyToNobody(o) \/ WriteReply(o)

LEMMA OfficeFinishes ==
  ASSUME IInv, NEW o \in Offices, Finishes(o)
  PROVE  /\ o \in At(Serving) /\ At(Serving)' = At(Serving) \ {o}
         /\ cur' = cur /\ finished' = finished \cup {cur[o]} /\ queue' = queue
  <1>1. offPc[o] \in {"reply", "write"} /\ Goto(o, "dec")
    BY DEF Finishes, ReplyToNobody, WriteReply
  <1>2. offPc \in [Offices -> OffPcs]
    BY DEF IInv, TypeOK
  <1>3. o \in At(Serving) /\ At(Serving)' = At(Serving) \ {o}
    BY <1>1, <1>2 DEF Goto, At, Serving
  <1> QED
    BY <1>3 DEF Finishes, ReplyToNobody, WriteReply, semVars

\* An office that has deleted the request it retrieved serves it.
LEMMA OfficeTakes ==
  ASSUME IInv, NEW o \in Offices, Delete(o)
  PROVE  /\ o \notin At(Serving) /\ At(Serving)' = At(Serving) \cup {o}
         /\ UNCHANGED <<cur, finished>>
  <1>1. offPc[o] = "delete" /\ Goto(o, "slot")
    BY DEF Delete
  <1>2. offPc \in [Offices -> OffPcs]
    BY DEF IInv, TypeOK
  <1> QED
    BY <1>1, <1>2 DEF Delete, Goto, At, Serving, outVars, replyVars

\* A request that was sent stays sent.
LEMMA StaysSent ==
  ASSUME IInv, NEW u \in Users, UserProgress(u) \/ UserLeaves(u)
  PROVE  Sent \subseteq Sent'
  <1>1. \/ userPc' = userPc
        \/ \E to \in UserPcs : Become(u, to) /\ (to = "open" => userPc[u] = "ready") /\ to # "ready"
    BY DEF UserProgress, UserLeaves, OpenServer, ServerDown, SendRequest, SendToNobody, ReadReply,
          CloseRequestFifo, CloseResponseFifo, UnlinkResponseFifo, GiveUp, Kill, UserPcs
  <1>2. userPc \in [Users -> UserPcs]
    BY DEF IInv, TypeOK
  <1> QED
    BY <1>1, <1>2 DEF Become, Sent, Unsent

\* Every request stays in one place: one step for main, the offices and the users.
LEMMA NextOwnInv == IInv /\ OwnInv /\ [Next]_vars => OwnInv'
  <1> SUFFICES ASSUME IInv, OwnInv, [Next]_vars PROVE OwnInv'
    OBVIOUS
  <1>0. /\ LineNow \in Seq(Users) /\ Len(LineNow) \in Nat
        /\ \A i \in 1..Len(LineNow) : LineNow[i] \in Users
    BY LineTypes, LenProperties
  <1>1. CASE MainStep
    <2>1. UNCHANGED <<cur, finished, userPc>>
      BY <1>1 DEF MainStep, restVars, replyVars
    <2>2. offPc' = offPc \/ \E o \in Offices : offPc[o] = "unborn" /\ offPc' = [offPc EXCEPT ![o] = "wait"]
      BY <1>1 DEF MainStep, SpawnOffice, Setup, OpenRequestFifo, OpenDummy, ReadRequest,
          WaitEmpty, LockToPush, Push, PostFull, CloseCommunication, PostToken, JoinOffices
    <2>3. At(Serving)' = At(Serving)
      BY <2>2 DEF IInv, TypeOK, At, Serving
    <2> QED
      BY <1>1, <2>1, <2>3, MainLine, OwnSame DEF Sent
  <1>2. ASSUME NEW o \in Offices, OfficeStep(o) PROVE OwnInv'
    <2>0. UNCHANGED <<mainVars, userVars>>
      BY <1>2 DEF OfficeStep
    <2>1. CASE Delete(o)
      <3>1. LineNow # <<>> /\ cur[o] = Head(LineNow) /\ LineNow' = Tail(LineNow)
        BY <2>0, <2>1, DeleteLine
      <3>2. /\ o \notin At(Serving) /\ At(Serving)' = At(Serving) \cup {o}
            /\ UNCHANGED <<cur, finished, userPc>>
        BY <2>0, <2>1, OfficeTakes DEF userVars
      <3>3. /\ cur[o] = LineNow[1] /\ 1 \in 1..Len(LineNow)
            /\ Len(LineNow') = Len(LineNow) - 1
            /\ \A i \in 1..Len(LineNow') : LineNow'[i] = LineNow[i + 1] /\ i + 1 \in 1..Len(LineNow)
        BY <1>0, <3>1, HeadTailProperties, EmptySeq
      <3>4. \A i, j \in 1..Len(LineNow') : LineNow'[i] = LineNow'[j] => i = j
        BY <1>0, <3>3 DEF OwnInv
      <3>5. ASSUME NEW i \in 1..Len(LineNow')
            PROVE  /\ LineNow'[i] \in Sent' /\ LineNow'[i] \notin finished'
                   /\ \A p \in At(Serving)' : cur'[p] # LineNow'[i]
        <4>1. i + 1 \in 1..Len(LineNow) /\ i + 1 # 1 /\ LineNow'[i] = LineNow[i + 1]
          BY <1>0, <3>3
        <4>2. LineNow[i + 1] # cur[o]
          BY <1>0, <3>3, <4>1 DEF OwnInv
        <4> QED
          BY <3>2, <4>1, <4>2 DEF OwnInv, Sent
      <3>6. /\ cur[o] \in Sent /\ cur[o] \notin finished
            /\ \A p \in At(Serving) : cur[p] # cur[o]
        BY <3>3 DEF OwnInv
      <3>7. \A p, q \in At(Serving)' : cur'[p] = cur'[q] => p = q
        BY <3>2, <3>6 DEF OwnInv
      <3>8. \A p \in At(Serving)' : cur'[p] \in Sent' /\ cur'[p] \notin finished'
        BY <3>2, <3>6 DEF OwnInv, Sent
      <3>9. finished' \subseteq Sent'
        BY <3>2 DEF OwnInv, Sent
      <3> QED
        BY <3>4, <3>5, <3>7, <3>8, <3>9 DEF OwnInv
    <2>2. CASE Finishes(o)
      <3>1. /\ o \in At(Serving) /\ At(Serving)' = At(Serving) \ {o}
            /\ cur' = cur /\ finished' = finished \cup {cur[o]} /\ userPc' = userPc
        BY <2>0, <2>2, OfficeFinishes DEF userVars
      <3>2. LineNow' = LineNow
        BY <2>0, <2>2, OfficeFinishes DEF LineNow, InHand, mainVars, userVars
      <3>3. \A i \in 1..Len(LineNow) : LineNow[i] # cur[o]
        BY <3>1 DEF OwnInv
      <3>4. \A p \in At(Serving)' : cur[p] # cur[o]
        BY <3>1 DEF OwnInv
      <3> QED
        BY <3>1, <3>2, <3>3, <3>4 DEF OwnInv, Sent
    <2>3. CASE ~Delete(o) /\ ~Finishes(o)
      <3>1. /\ UNCHANGED <<mainVars, userVars, queue, finished>>
            /\ At(Serving)' = At(Serving)
            /\ \A p \in At(Serving) : cur'[p] = cur[p]
        BY <1>2, <2>3, OfficeMoves DEF Finishes
      <3> QED
        BY <3>1, OwnSame DEF LineNow, InHand, mainVars, userVars, Sent
    <2> QED
      BY <2>1, <2>2, <2>3
  <1>3. ASSUME NEW u \in Users, UserProgress(u) \/ UserLeaves(u) PROVE OwnInv'
    <2>0. UNCHANGED <<mainVars, offVars, semVars, outVars>>
      BY <1>3 DEF UserProgress, UserLeaves
    <2>1. Sent \subseteq Sent'
      BY <1>3, StaysSent
    <2>2. UNCHANGED <<cur, finished>> /\ At(Serving)' = At(Serving)
      BY <2>0 DEF offVars, outVars, replyVars, At
    <2>3. CASE SendRequest(u)
      <3>1. LineNow' = Append(LineNow, u)
        BY <2>0, <2>3, SendLine
      <3>2. u \notin Sent /\ u \in Sent'
        BY <2>3 DEF SendRequest, Become, Sent, Unsent, IInv, TypeOK
      <3>3. /\ Len(LineNow') = Len(LineNow) + 1 /\ LineNow'[Len(LineNow) + 1] = u
            /\ \A i \in 1..Len(LineNow) : LineNow'[i] = LineNow[i]
        BY <1>0, <3>1, AppendProperties
      <3>4. /\ \A i \in 1..Len(LineNow) : LineNow[i] # u
            /\ \A o \in At(Serving) : cur[o] # u
            /\ u \notin finished
        BY <3>2 DEF OwnInv
      <3>5. \A i, j \in 1..Len(LineNow') : LineNow'[i] = LineNow'[j] => i = j
        BY <1>0, <3>3, <3>4 DEF OwnInv
      <3>6. ASSUME NEW i \in 1..Len(LineNow')
            PROVE  /\ LineNow'[i] \in Sent' /\ LineNow'[i] \notin finished'
                   /\ \A p \in At(Serving)' : cur'[p] # LineNow'[i]
        <4>1. CASE i \in 1..Len(LineNow)
          BY <1>0, <2>1, <2>2, <3>3, <4>1 DEF OwnInv
        <4>2. CASE i = Len(LineNow) + 1
          BY <2>2, <3>2, <3>3, <3>4, <4>2
        <4> QED
          BY <1>0, <3>3, <4>1, <4>2
      <3>7. /\ \A p, q \in At(Serving)' : cur'[p] = cur'[q] => p = q
            /\ \A p \in At(Serving)' : cur'[p] \in Sent' /\ cur'[p] \notin finished'
            /\ finished' \subseteq Sent'
        BY <2>1, <2>2 DEF OwnInv, Sent
      <3> QED
        BY <3>5, <3>6, <3>7 DEF OwnInv
    <2>4. CASE ~SendRequest(u)
      <3>1. pipe' = pipe
        BY <1>3, <2>4 DEF UserProgress, UserLeaves, OpenServer, ServerDown, SendRequest,
             SendToNobody, ReadReply,
          CloseRequestFifo, CloseResponseFifo, UnlinkResponseFifo, GiveUp, Kill
      <3>2. LineNow' = LineNow
        BY <2>0, <3>1 DEF LineNow, InHand, mainVars, semVars
      <3> QED
        BY <2>1, <2>2, <3>2, OwnSame
    <2> QED
      BY <2>3, <2>4
  <1>4. CASE UNCHANGED vars
    <2>1. /\ UNCHANGED <<LineNow, cur, finished, userPc>> /\ At(Serving)' = At(Serving)
      BY <1>4 DEF vars, mainVars, offVars, semVars, userVars, replyVars, LineNow, InHand, At
    <2> QED
      BY <2>1, OwnSame DEF Sent
  <1> QED
    BY <1>1, <1>2, <1>3, <1>4 DEF Next, Quiescent

\* The inductive step of StopInv.
LEMMA NextStopInv == IInv /\ OwnInv /\ StopInv /\ [Next]_vars => StopInv'
  <1> SUFFICES ASSUME IInv, OwnInv, StopInv, [Next]_vars PROVE StopInv'
    OBVIOUS
  <1> DEFINE Stopped == \E u \in ShutdownUsers : u \in finished \/ \E o \in At(Serving) : cur[o] = u
  <1>1. CASE MainStep
    <2>1. UNCHANGED <<cur, finished, writable>>
      BY <1>1 DEF MainStep, restVars, replyVars
    <2>2. offPc' = offPc \/ \E o \in Offices : offPc[o] = "unborn" /\ offPc' = [offPc EXCEPT ![o] = "wait"]
      BY <1>1 DEF MainStep, SpawnOffice, Setup, OpenRequestFifo, OpenDummy, ReadRequest,
          WaitEmpty, LockToPush, Push, PostFull, CloseCommunication, PostToken, JoinOffices
    <2> QED
      BY <2>1, <2>2 DEF StopInv, IInv, TypeOK, At, Serving
  <1>2. ASSUME NEW o \in Offices, OfficeStep(o) PROVE StopInv'
    <2>1. Stopped => Stopped'
      <3>1. CASE Delete(o)
        BY <3>1, OfficeTakes
      <3>2. CASE Finishes(o)
        BY <3>2, OfficeFinishes
      <3>3. CASE ~Delete(o) /\ ~Finishes(o)
        BY <1>2, <3>3, OfficeMoves DEF Finishes
      <3> QED
        BY <3>1, <3>2, <3>3
    <2>2. CASE MakeUnwritable(o)
      <3>1. o \in At(Serving) /\ cur[o] \in ShutdownUsers
        BY <2>2 DEF MakeUnwritable, At, Serving, StopInv
      <3>2. Stopped'
        BY <2>1, <3>1
      <3>3. \A p \in Offices : offPc'[p] = "chmod" => offPc[p] = "chmod" /\ cur'[p] = cur[p]
        BY <2>2 DEF MakeUnwritable, Goto, IInv, TypeOK
      <3> QED
        BY <3>2, <3>3 DEF StopInv
    <2>3. CASE ~MakeUnwritable(o)
      <3>1. writable' = writable
        BY <1>2, <2>3 DEF OfficeStep, WaitFull, LockToCheck, Check, CountActive, LockToPop, Retrieve,
          Delete, DeleteNothing, PostEmpty, HandleWork, SetShutdown, MakeUnwritable,
          CloseDummy, ReportActive, ReplyToNobody, BlockOnReply, OpenReply, WriteReply,
          BrokenReply, CountIdle, outVars, flagVars
      <3>2. ASSUME NEW p \in Offices, offPc'[p] = "chmod" PROVE cur'[p] \in ShutdownUsers
        <4>1. CASE p = o /\ SetShutdown(o)
          BY <4>1 DEF SetShutdown
        <4>2. CASE ~(p = o /\ SetShutdown(o))
          <5>1. offPc[p] = "chmod"
            BY <1>2, <3>2, <4>2 DEF OfficeStep, WaitFull, LockToCheck, Check, CountActive,
                 LockToPop, Retrieve,
          Delete, DeleteNothing, PostEmpty, HandleWork, SetShutdown, MakeUnwritable,
          CloseDummy, ReportActive, ReplyToNobody, BlockOnReply, OpenReply, WriteReply,
          BrokenReply, CountIdle, Goto, offVars, IInv, TypeOK
          <5>2. p \in At(Serving)
            BY <5>1 DEF At, Serving
          <5>3. cur'[p] = cur[p]
            <6>1. CASE Delete(o)
              BY <6>1, OfficeTakes
            <6>2. CASE Finishes(o)
              BY <6>2, OfficeFinishes
            <6>3. CASE ~Delete(o) /\ ~Finishes(o)
              BY <1>2, <5>2, <6>3, OfficeMoves DEF Finishes
            <6> QED
              BY <6>1, <6>2, <6>3
          <5> QED
            BY <5>1, <5>3 DEF StopInv
        <4> QED
          BY <4>1, <4>2
      <3> QED
        BY <2>1, <3>1, <3>2 DEF StopInv
    <2> QED
      BY <2>2, <2>3
  <1>3. ASSUME NEW u \in Users, UserProgress(u) \/ UserLeaves(u) PROVE StopInv'
    BY <1>3 DEF UserProgress, UserLeaves, StopInv, At, offVars, outVars, flagVars, replyVars
  <1>4. CASE UNCHANGED vars
    BY <1>4 DEF StopInv, At, vars, offVars, flagVars, replyVars
  <1> QED
    BY <1>1, <1>2, <1>3, <1>4 DEF Next, Quiescent

LInv == IInv /\ Unwritable /\ NoLateWriter /\ OwnInv /\ StopInv

LEMMA AlwaysLInv == Spec => []LInv
  <1>1. Init => OwnInv
    <2>1. Init => LineNow = <<>> /\ At(Serving) = {} /\ finished = {}
      BY ConcatEmptySeq, EmptySeq DEF Init, InitWith, LineNow, InHand, At, Serving
    <2> QED
      BY <2>1, EmptySeq DEF OwnInv
  <1>2. Init => LInv
    BY <1>1, InitIInv DEF LInv, Init, InitWith, Unwritable, NoLateWriter, StopInv
  <1>3. LInv /\ [Next]_vars => LInv'
    BY NextIInv, NextUnwritable, NextOwnInv, NextStopInv DEF LInv, IInv
  <1> QED
    BY <1>2, <1>3, PTL DEF Spec

\* An office's request is nowhere else: not served by another office, not in the
\* queue, the FIFO or main's hand, and not finished (server_bank_office.c:70-82).
THEOREM RequestsOwned == Spec => []OneOwner
  <1>1. LInv => OneOwner
    <2> SUFFICES ASSUME LInv PROVE OneOwner
      OBVIOUS
    <2>0. IInv /\ OwnInv
      BY DEF LInv
    <2>1. \A o, p \in At(Serving) : o # p => cur[o] # cur[p]
      BY <2>0 DEF OwnInv
    <2>2. ASSUME NEW o \in At(Serving)
          PROVE  /\ cur[o] \in Users \ (finished \cup {inHand})
                 /\ \A i \in DOMAIN queue : queue[i] # cur[o]
                 /\ \A i \in DOMAIN pipe : pipe[i] # cur[o]
      <3>1. cur[o] \in Sent /\ cur[o] \notin finished /\ \A i \in 1..Len(LineNow) : LineNow[i] # cur[o]
        BY <2>0 DEF OwnInv
      <3>2. ASSUME NEW i \in DOMAIN queue PROVE queue[i] # cur[o]
        BY <2>0, <3>1, <3>2, LineTypes
      <3>3. ASSUME NEW i \in DOMAIN pipe PROVE pipe[i] # cur[o]
        <4>1. /\ i \in 1..Len(pipe)
              /\ Len(LineNow) = Len(queue) + Len(InHand) + Len(pipe)
              /\ Len(queue) \in Nat /\ Len(InHand) \in Nat /\ Len(pipe) \in Nat
          BY <2>0, <3>3, LineTypes
        <4>2. Len(queue) + Len(InHand) + i \in 1..Len(LineNow)
          BY <4>1
        <4> QED
          BY <2>0, <3>1, <4>1, <4>2, LineTypes
      <3>4. cur[o] # inHand
        <4>0. /\ Len(LineNow) = Len(queue) + Len(InHand) + Len(pipe)
              /\ Len(queue) \in Nat /\ Len(pipe) \in Nat
              /\ Len(InHand) = IF inHand \in Users THEN 1 ELSE 0
          BY <2>0, LineTypes
        <4>1. inHand \in Users => Len(queue) + 1 \in 1..Len(LineNow)
          BY <4>0
        <4> QED
          BY <2>0, <3>1, <4>1, LineTypes DEF Sent
      <3> QED
        BY <3>1, <3>2, <3>3, <3>4 DEF Sent
    <2> QED
      BY <2>1, <2>2 DEF OneOwner
  <1> QED
    BY <1>1, AlwaysLInv, PTL

-----------------------------------------------------------------------------
(* Every step of the pool is one of the line of requests, or none.         *)

ServingNow == {cur[o] : o \in At(Serving)} \ finished
Accepting == mainPc \notin {"close", "tokens", "join", "done"}

\* Every step takes, adds or finishes a request, closes the line or leaves it alone.
LEMMA StepsLine == LInv /\ [Next]_vars => [Line!Next]_(Line!vars)
  <1> SUFFICES ASSUME LInv, [Next]_vars PROVE [Line!Next]_(Line!vars)
    OBVIOUS
  <1> USE DEF Line!vars, Line!Next
  <1>0. IInv /\ OwnInv /\ StopInv /\ NoLateWriter /\ Unwritable
    BY DEF LInv
  <1>1. CASE MainStep
    <2>1. LineNow' = LineNow
      BY <1>0, <1>1, MainLine
    <2>2. UNCHANGED <<cur, finished, writable>>
      BY <1>1 DEF MainStep, restVars, replyVars
    <2>3. offPc' = offPc \/ \E o \in Offices : offPc[o] = "unborn" /\ offPc' = [offPc EXCEPT ![o] = "wait"]
      BY <1>1 DEF MainStep, SpawnOffice, Setup, OpenRequestFifo, OpenDummy, ReadRequest,
          WaitEmpty, LockToPush, Push, PostFull, CloseCommunication, PostToken, JoinOffices
    <2>4. At(Serving)' = At(Serving)
      BY <1>0, <2>3 DEF IInv, TypeOK, At, Serving
    <2>5. ServingNow' = ServingNow
      BY <2>2, <2>4 DEF ServingNow
    <2>6. CASE ReadRequest /\ pipe = <<>> /\ NoWriter
      <3>1. \E u \in ShutdownUsers : u \in ServingNow \cup finished
        BY <1>0, <2>6 DEF Unwritable, StopInv, NoWriter, ReadRequest, ServingNow
      <3>2. Accepting /\ ~Accepting'
        BY <2>6 DEF ReadRequest, Accepting
      <3>3. Line!Stop
        BY <2>1, <2>2, <2>5, <3>1, <3>2 DEF Line!Stop, LineNow, ServingNow, Accepting
      <3> QED
        BY <3>3
    <2>7. CASE ~(ReadRequest /\ pipe = <<>> /\ NoWriter)
      <3>1. Accepting' = Accepting
        BY <1>1, <2>7 DEF MainStep, SpawnOffice, Setup, OpenRequestFifo, OpenDummy, ReadRequest,
          WaitEmpty, LockToPush, Push, PostFull, CloseCommunication, PostToken, JoinOffices, Accepting
      <3> QED
        BY <2>1, <2>2, <2>5, <3>1 DEF LineNow, ServingNow, Accepting
    <2> QED
      BY <2>6, <2>7
  <1>2. ASSUME NEW o \in Offices, OfficeStep(o) PROVE [Line!Next]_(Line!vars)
    <2>0. UNCHANGED <<mainVars, userVars>> /\ Accepting' = Accepting
      BY <1>2 DEF OfficeStep, mainVars, Accepting
    <2>1. CASE Delete(o)
      <3>1. LineNow # <<>> /\ cur[o] = Head(LineNow) /\ LineNow' = Tail(LineNow)
        BY <1>0, <2>0, <2>1, DeleteLine
      <3>2. At(Serving)' = At(Serving) \cup {o} /\ UNCHANGED <<cur, finished>>
        BY <1>0, <2>1, OfficeTakes
      <3>3. cur[o] \notin finished
        <4>1. /\ LineNow \in Seq(Users) /\ Len(LineNow) \in Nat \ {0} /\ Head(LineNow) = LineNow[1]
          BY <1>0, <3>1, LineTypes, EmptySeq
        <4> QED
          BY <1>0, <3>1, <4>1 DEF OwnInv
      <3>4. ServingNow' = ServingNow \cup {Head(LineNow)}
        BY <3>1, <3>2, <3>3 DEF ServingNow
      <3>5. Line!Take
        BY <2>0, <3>1, <3>2, <3>4 DEF Line!Take, LineNow, ServingNow, Accepting
      <3> QED
        BY <3>5
    <2>2. CASE Finishes(o)
      <3>1. /\ o \in At(Serving) /\ At(Serving)' = At(Serving) \ {o}
            /\ cur' = cur /\ finished' = finished \cup {cur[o]} /\ queue' = queue
        BY <1>0, <2>2, OfficeFinishes
      <3>2. LineNow' = LineNow
        BY <2>0, <3>1 DEF LineNow, InHand, mainVars, userVars
      <3>3. cur[o] \in ServingNow /\ cur[o] \in Users
        BY <1>0, <3>1 DEF OwnInv, ServingNow, Sent
      <3>4. ServingNow' = ServingNow \ {cur[o]}
        BY <1>0, <3>1 DEF ServingNow, OwnInv
      <3>5. PICK u \in Users : u = cur[o]
        BY <3>3
      <3>6. Line!Finish(u)
        BY <2>0, <3>1, <3>2, <3>3, <3>4, <3>5 DEF Line!Finish, LineNow, ServingNow, Accepting
      <3> QED
        BY <3>6
    <2>3. CASE ~Delete(o) /\ ~Finishes(o)
      <3>1. /\ UNCHANGED <<mainVars, userVars, queue, finished>>
            /\ At(Serving)' = At(Serving)
            /\ \A p \in At(Serving) : cur'[p] = cur[p]
        BY <1>0, <1>2, <2>3, OfficeMoves DEF Finishes
      <3>2. LineNow' = LineNow /\ ServingNow' = ServingNow
        BY <3>1 DEF LineNow, InHand, ServingNow, mainVars, userVars
      <3> QED
        BY <2>0, <3>1, <3>2 DEF LineNow, ServingNow, Accepting
    <2> QED
      BY <2>1, <2>2, <2>3
  <1>3. ASSUME NEW u \in Users, UserProgress(u) \/ UserLeaves(u) PROVE [Line!Next]_(Line!vars)
    <2>0. UNCHANGED <<mainVars, offVars, semVars, outVars>>
      BY <1>3 DEF UserProgress, UserLeaves
    <2>1. ServingNow' = ServingNow /\ finished' = finished /\ Accepting' = Accepting
      BY <2>0 DEF mainVars, offVars, outVars, replyVars, ServingNow, At, Accepting
    <2>2. CASE SendRequest(u)
      <3>1. LineNow' = Append(LineNow, u)
        BY <1>0, <2>0, <2>2, SendLine
      <3>2. Accepting /\ u \notin Sent
        BY <2>2 DEF SendRequest, HasReader, Accepting, Sent, Unsent
      <3>3. /\ \A i \in 1..Len(LineNow) : LineNow[i] # u
            /\ u \notin ServingNow /\ u \notin finished
        BY <1>0, <3>2 DEF OwnInv, ServingNow
      <3>4. u \notin {LineNow[i] : i \in DOMAIN LineNow}
        BY <1>0, <3>3, LineTypes
      <3>5. Line!Arrive(u)
        BY <2>1, <3>1, <3>2, <3>3, <3>4 DEF Line!Arrive, Line!InLine, LineNow, ServingNow, Accepting
      <3> QED
        BY <3>5
    <2>3. CASE ~SendRequest(u)
      <3>1. pipe' = pipe
        BY <1>3, <2>3 DEF UserProgress, UserLeaves, OpenServer, ServerDown, SendRequest,
             SendToNobody, ReadReply,
          CloseRequestFifo, CloseResponseFifo, UnlinkResponseFifo, GiveUp, Kill
      <3>2. LineNow' = LineNow
        BY <2>0, <3>1 DEF LineNow, InHand, mainVars, semVars
      <3> QED
        BY <2>1, <3>2 DEF LineNow, ServingNow, Accepting
    <2> QED
      BY <2>2, <2>3
  <1>4. CASE UNCHANGED vars
    <2>1. UNCHANGED <<LineNow, ServingNow, finished, Accepting>>
      BY <1>4 DEF vars, mainVars, offVars, semVars, userVars, replyVars, LineNow, InHand,
            ServingNow, At, Accepting
    <2> QED
      BY <2>1 DEF LineNow, ServingNow, Accepting
  <1> QED
    BY <1>1, <1>2, <1>3, <1>4 DEF Next, Quiescent

\* For any number of offices and users, whatever times out or dies, the server
\* is a line of requests: they are taken in the order in which they were written,
\* each is finished once, and the server stops accepting only after a shutdown
\* request has been taken.
THEOREM LineImplemented == Spec => ImplementsLine
  <1>1. Init => Line!Init
    BY ConcatEmptySeq, EmptySeq DEF Init, InitWith, Line!Init, InHand, At, Serving
  <1> QED
    BY <1>1, StepsLine, AlwaysLInv, PTL DEF Spec, ImplementsLine, Line!Spec

-----------------------------------------------------------------------------
(* Nothing is left behind.                                                 *)

\* The requests that have entered the line, wherever they are now.
Held == {LineNow[i] : i \in 1..Len(LineNow)} \cup {cur[o] : o \in At(Serving)} \cup finished

\* A user that neither timed out nor was killed, and that is past the writing of
\* its request, has written it, unless the server had died.
HeldInv ==
    \A u \in Users \ (Impatient \cup Killable) :
        userPc[u] \notin {"ready", "open", "down"} => u \in Held \/ ~Running

\* Nobody has the FIFO open before it is there, and main returns last.
EndsInv ==
    /\ mainPc \in {"spawn", "setup"} => \A u \in Users : ~Writes(u)
    /\ mainPc = "done" => At({"exited"}) = Offices /\ Running

\* No step loses a request, and sending one adds it.
LEMMA HeldStays ==
  ASSUME LInv, [Next]_vars
  PROVE  Held \subseteq Held'
  <1>0. IInv /\ OwnInv /\ LineNow \in Seq(Users) /\ Len(LineNow) \in Nat
    BY LineTypes, LenProperties DEF LInv
  <1>1. CASE MainStep
    <2>1. UNCHANGED <<cur, finished>> /\ LineNow' = LineNow
      BY <1>0, <1>1, MainLine DEF MainStep, restVars, replyVars
    <2>2. offPc' = offPc \/ \E o \in Offices : offPc[o] = "unborn" /\ offPc' = [offPc EXCEPT ![o] = "wait"]
      BY <1>1 DEF MainStep, SpawnOffice, Setup, OpenRequestFifo, OpenDummy, ReadRequest,
          WaitEmpty, LockToPush, Push, PostFull, CloseCommunication, PostToken, JoinOffices
    <2>3. At(Serving)' = At(Serving)
      BY <1>0, <2>2 DEF IInv, TypeOK, At, Serving
    <2> QED
      BY <2>1, <2>3 DEF Held
  <1>2. ASSUME NEW o \in Offices, OfficeStep(o) PROVE Held \subseteq Held'
    <2>0. UNCHANGED <<mainVars, userVars>>
      BY <1>2 DEF OfficeStep
    <2>1. CASE Delete(o)
      <3>1. LineNow # <<>> /\ cur[o] = Head(LineNow) /\ LineNow' = Tail(LineNow)
        BY <1>0, <2>0, <2>1, DeleteLine
      <3>2. At(Serving)' = At(Serving) \cup {o} /\ UNCHANGED <<cur, finished>>
        BY <1>0, <2>1, OfficeTakes
      <3>3. /\ cur[o] = LineNow[1] /\ Len(LineNow') = Len(LineNow) - 1
            /\ \A i \in 1..Len(LineNow') : LineNow'[i] = LineNow[i + 1]
        BY <1>0, <3>1, HeadTailProperties, EmptySeq
      <3>4. ASSUME NEW i \in 1..Len(LineNow) PROVE LineNow[i] \in Held'
        <4>1. CASE i = 1
          BY <3>2, <3>3, <4>1 DEF Held
        <4>2. CASE i # 1
          <5>1. i - 1 \in 1..Len(LineNow') /\ LineNow'[i - 1] = LineNow[i]
            BY <1>0, <3>3, <4>2
          <5> QED
            BY <5>1 DEF Held
        <4> QED
          BY <4>1, <4>2
      <3> QED
        BY <3>2, <3>4 DEF Held
    <2>2. CASE Finishes(o)
      <3>1. /\ At(Serving)' = At(Serving) \ {o} /\ queue' = queue
            /\ cur' = cur /\ finished' = finished \cup {cur[o]}
        BY <1>0, <2>2, OfficeFinishes
      <3>2. LineNow' = LineNow
        BY <2>0, <3>1 DEF LineNow, InHand, mainVars, userVars
      <3> QED
        BY <3>1, <3>2 DEF Held
    <2>3. CASE ~Delete(o) /\ ~Finishes(o)
      <3>1. /\ UNCHANGED <<mainVars, userVars, queue, finished>>
            /\ At(Serving)' = At(Serving)
            /\ \A p \in At(Serving) : cur'[p] = cur[p]
        BY <1>0, <1>2, <2>3, OfficeMoves DEF Finishes
      <3>2. LineNow' = LineNow
        BY <3>1 DEF LineNow, InHand, mainVars, userVars
      <3> QED
        BY <3>1, <3>2 DEF Held
    <2> QED
      BY <2>1, <2>2, <2>3
  <1>3. ASSUME NEW u \in Users, UserProgress(u) \/ UserLeaves(u) PROVE Held \subseteq Held'
    <2>0. UNCHANGED <<mainVars, offVars, semVars, outVars>>
      BY <1>3 DEF UserProgress, UserLeaves
    <2>1. UNCHANGED <<cur, finished>> /\ At(Serving)' = At(Serving)
      BY <2>0 DEF offVars, outVars, replyVars, At
    <2>2. CASE SendRequest(u)
      <3>1. LineNow' = Append(LineNow, u)
        BY <1>0, <2>0, <2>2, SendLine
      <3>2. /\ Len(LineNow') = Len(LineNow) + 1
            /\ \A i \in 1..Len(LineNow) : LineNow'[i] = LineNow[i]
        BY <1>0, <3>1, AppendProperties
      <3>3. \A i \in 1..Len(LineNow) : LineNow[i] \in Held'
        BY <1>0, <3>2 DEF Held
      <3> QED
        BY <2>1, <3>3 DEF Held
    <2>3. CASE ~SendRequest(u)
      <3>1. pipe' = pipe
        BY <1>3, <2>3 DEF UserProgress, UserLeaves, OpenServer, ServerDown, SendRequest,
             SendToNobody, ReadReply,
          CloseRequestFifo, CloseResponseFifo, UnlinkResponseFifo, GiveUp, Kill
      <3>2. LineNow' = LineNow
        BY <2>0, <3>1 DEF LineNow, InHand, mainVars, semVars
      <3> QED
        BY <2>1, <3>2 DEF Held
    <2> QED
      BY <2>2, <2>3
  <1>4. CASE UNCHANGED vars
    <2>1. UNCHANGED <<LineNow, cur, finished>> /\ At(Serving)' = At(Serving)
      BY <1>4 DEF vars, mainVars, offVars, semVars, userVars, replyVars, LineNow, InHand, At
    <2> QED
      BY <2>1 DEF Held
  <1> QED
    BY <1>1, <1>2, <1>3, <1>4 DEF Next, Quiescent

\* A request just written is held: it is the last of the line.
LEMMA SentIsHeld ==
  ASSUME LInv, NEW u \in Users, SendRequest(u), UNCHANGED <<mainVars, semVars>>
  PROVE  u \in Held'
  <1>1. LineNow' = Append(LineNow, u) /\ LineNow \in Seq(Users) /\ Len(LineNow) \in Nat
    BY SendLine, LineTypes, LenProperties DEF LInv
  <1>2. LineNow'[Len(LineNow) + 1] = u /\ Len(LineNow) + 1 \in 1..Len(LineNow')
    BY <1>1, AppendProperties
  <1> QED
    BY <1>2 DEF Held

\* The inductive step of EndsInv.
LEMMA NextEndsInv == LInv /\ EndsInv /\ [Next]_vars => EndsInv'
  <1> SUFFICES ASSUME LInv, EndsInv, [Next]_vars PROVE EndsInv'
    OBVIOUS
  <1>0. TypeOK
    BY DEF LInv, IInv
  <1>1. CASE MainStep
    <2>1. UNCHANGED <<userPc, dead>> /\ Running
      BY <1>1 DEF MainStep, restVars
    <2>2. mainPc' \in {"spawn", "setup"} => mainPc = "spawn"
      BY <1>1 DEF MainStep, SpawnOffice, Setup, OpenRequestFifo, OpenDummy, ReadRequest,
          WaitEmpty, LockToPush, Push, PostFull, CloseCommunication, PostToken, JoinOffices
    <2>3. mainPc' = "done" => At({"exited"}) = Offices /\ offPc' = offPc
      BY <1>1 DEF MainStep, SpawnOffice, Setup, OpenRequestFifo, OpenDummy, ReadRequest,
          WaitEmpty, LockToPush, Push, PostFull, CloseCommunication, PostToken, JoinOffices
    <2> QED
      BY <2>1, <2>2, <2>3 DEF EndsInv, Writes, Running, At
  <1>2. ASSUME NEW o \in Offices, OfficeStep(o) PROVE EndsInv'
    <2>1. UNCHANGED <<mainPc, userPc>>
      BY <1>2 DEF OfficeStep, mainVars, userVars
    <2>2. offPc[o] # "exited"
      BY <1>2 DEF OfficeStep, WaitFull, LockToCheck, Check, CountActive, LockToPop, Retrieve,
          Delete, DeleteNothing, PostEmpty, HandleWork, SetShutdown, MakeUnwritable,
          CloseDummy, ReportActive, ReplyToNobody, BlockOnReply, OpenReply, WriteReply,
          BrokenReply, CountIdle
    <2>3. mainPc # "done"
      BY <2>2 DEF EndsInv, At
    <2> QED
      BY <2>1, <2>3 DEF EndsInv, Writes
  <1>3. ASSUME NEW u \in Users, UserProgress(u) \/ UserLeaves(u) PROVE EndsInv'
    <2>1. UNCHANGED <<mainPc, offPc, dead>>
      BY <1>3 DEF UserProgress, UserLeaves, mainVars, offVars, outVars
    <2>2. ASSUME mainPc \in {"spawn", "setup"} PROVE \A v \in Users : ~Writes(v)'
      <3>1. \A v \in Users : ~Writes(v)
        BY <2>2 DEF EndsInv
      <3>2. \E to \in {"down", "half", "unlinking", "gone"} : Become(u, to)
        BY <1>3, <2>2, <3>1 DEF UserProgress, UserLeaves, OpenServer, ServerDown, SendRequest,
             SendToNobody, ReadReply,
          CloseRequestFifo, CloseResponseFifo, UnlinkResponseFifo, GiveUp, Kill, Writes, HasReader
      <3> QED
        BY <1>0, <3>1, <3>2 DEF Become, Writes, TypeOK
    <2> QED
      BY <2>1, <2>2 DEF EndsInv, Running, At
  <1>4. CASE UNCHANGED vars
    BY <1>4 DEF EndsInv, Writes, Running, At, vars, mainVars, offVars, userVars
  <1> QED
    BY <1>1, <1>2, <1>3, <1>4 DEF Next, Quiescent

\* The inductive step of HeldInv: what is held is never lost.
LEMMA NextHeldInv == LInv /\ EndsInv /\ HeldInv /\ [Next]_vars => HeldInv'
  <1> SUFFICES ASSUME LInv, EndsInv, HeldInv, [Next]_vars PROVE HeldInv'
    OBVIOUS
  <1>0. Held \subseteq Held' /\ TypeOK /\ NoLateWriter
    BY HeldStays DEF LInv, IInv
  <1>1. CASE MainStep
    BY <1>0, <1>1 DEF MainStep, restVars, HeldInv, Running
  <1>2. ASSUME NEW o \in Offices, OfficeStep(o) PROVE HeldInv'
    <2>1. userPc' = userPc /\ Running
      BY <1>2 DEF OfficeStep, userVars
    <2> QED
      BY <1>0, <2>1 DEF HeldInv
  <1>3. ASSUME NEW u \in Users, UserProgress(u) \/ UserLeaves(u) PROVE HeldInv'
    <2>0. UNCHANGED <<mainVars, offVars, semVars, outVars>>
      BY <1>3 DEF UserProgress, UserLeaves
    <2>1. dead' = dead
      BY <2>0 DEF outVars
    <2>2. userPc' = userPc \/ \E to \in UserPcs : Become(u, to)
      BY <1>3 DEF UserProgress, UserLeaves, OpenServer, ServerDown, SendRequest, SendToNobody, ReadReply,
          CloseRequestFifo, CloseResponseFifo, UnlinkResponseFifo, GiveUp, Kill, UserPcs
    <2>3. ASSUME u \notin Impatient \cup Killable, userPc'[u] \notin {"ready", "open", "down"}
          PROVE  u \in Held' \/ ~Running'
      <3>1. CASE SendRequest(u)
        BY <2>0, <3>1, SentIsHeld
      <3>2. CASE SendToNobody(u)
        <4>1. Writes(u)
          BY <3>2 DEF SendToNobody, Writes
        <4>2. mainPc \in {"open", "dummy", "read", "wait", "lock", "push", "post"}
          BY <1>0, <4>1 DEF NoLateWriter, EndsInv, TypeOK, MainPcs
        <4> QED
          BY <2>1, <3>2, <4>2 DEF SendToNobody, HasReader, Running
      <3>3. CASE ~SendRequest(u) /\ ~SendToNobody(u)
        <4>1. userPc[u] \notin {"ready", "open", "down"}
          BY <1>0, <1>3, <2>3, <3>3 DEF UserProgress, UserLeaves, OpenServer, ServerDown,
               SendRequest, SendToNobody, ReadReply,
          CloseRequestFifo, CloseResponseFifo, UnlinkResponseFifo, GiveUp, Kill, Become, TypeOK
        <4> QED
          BY <1>0, <2>1, <2>3, <4>1 DEF HeldInv, Running
      <3> QED
        BY <3>1, <3>2, <3>3
    <2>4. \A v \in Users \ {u} : userPc'[v] = userPc[v]
      BY <1>0, <2>2 DEF Become, TypeOK
    <2> QED
      BY <1>0, <2>1, <2>3, <2>4 DEF HeldInv, Running
  <1>4. CASE UNCHANGED vars
    BY <1>0, <1>4 DEF HeldInv, Running, vars, userVars
  <1> QED
    BY <1>1, <1>2, <1>3, <1>4 DEF Next, Quiescent

\* When main returns, every request that reached the server has been handled and
\* no patient user is left waiting (server_bank_office.c:265-335, 355-371).
THEOREM NothingLost == Spec => []NothingLeftBehind
  <1> DEFINE Inv == LInv /\ NoEarlyExit /\ EndsInv /\ HeldInv
  <1>1. Init => EndsInv /\ HeldInv
    BY DEF Init, InitWith, EndsInv, HeldInv, Writes
  <1>2. Inv => NothingLeftBehind
    <2> SUFFICES ASSUME Inv, mainPc = "done"
                 PROVE  /\ pipe = <<>> /\ queue = <<>> /\ At(Serving) = {}
                        /\ \A u \in Users : userPc[u] # "sent"
                        /\ \A u \in Users \ (Impatient \cup Killable) :
                              userPc[u] \notin {"ready", "down"} => u \in finished
      BY DEF NothingLeftBehind
    <2>1. At({"exited"}) = Offices /\ Running /\ Offices # {}
      BY PoolAssumption DEF EndsInv
    <2>2. queue = <<>> /\ inHand = NoUser
      BY <2>1 DEF NoEarlyExit
    <2>3. pipe = <<>> /\ \A u \in Users : ~Writes(u)
      BY DEF LInv, NoLateWriter
    <2>4. At(Serving) = {}
      BY <2>1 DEF At, Serving
    <2>5. Len(LineNow) = 0
      BY <2>2, <2>3, ConcatEmptySeq, EmptySeq DEF LineNow, InHand
    <2>6. Held = finished
      BY <2>4, <2>5 DEF Held
    <2> QED
      BY <2>1, <2>2, <2>3, <2>4, <2>6 DEF HeldInv, Writes
  <1>3. Spec => [](LInv /\ NoEarlyExit)
    BY AlwaysLInv, OfficesStay, PTL
  <1>4. LInv /\ EndsInv /\ HeldInv /\ [Next]_vars => EndsInv' /\ HeldInv'
    BY NextEndsInv, NextHeldInv
  <1> QED
    BY <1>1, <1>2, <1>3, <1>4, PTL DEF Spec

-----------------------------------------------------------------------------
(* A user is answered once.                                                *)

\* Only a request that is finished has been answered, and that once.
AnsweredInv ==
    /\ \A u \in Users \ finished : answer[u] = <<>>
    /\ OneReply

\* The inductive step of AnsweredInv: an office that writes a reply holds a
\* request that nobody has finished.
LEMMA NextAnswered == LInv /\ AnsweredInv /\ [Next]_vars => AnsweredInv'
  <1> SUFFICES ASSUME LInv, AnsweredInv, [Next]_vars PROVE AnsweredInv'
    OBVIOUS
  <1>0. TypeOK /\ OwnInv
    BY DEF LInv, IInv
  <1>1. ASSUME NEW o \in Offices, OfficeStep(o), WriteReply(o) PROVE AnsweredInv'
    <2>1. cur[o] \in Users \ finished
      <3>1. o \in At(Serving)
        BY <1>1 DEF WriteReply, At, Serving
      <3> QED
        BY <1>0, <3>1 DEF OwnInv, Sent
    <2>2. answer[cur[o]] = <<>>
      BY <2>1 DEF AnsweredInv
    <2>3. answer' = [answer EXCEPT ![cur[o]] = <<rep[o]>>]
      BY <1>0, <1>1, <2>1, <2>2 DEF WriteReply, TypeOK
    <2>4. answer'[cur[o]] = <<rep[o]>> /\ \A u \in Users \ {cur[o]} : answer'[u] = answer[u]
      BY <1>0, <2>1, <2>3 DEF TypeOK
    <2>5. finished' = finished \cup {cur[o]}
      BY <1>1 DEF WriteReply
    <2>6. Len(answer'[cur[o]]) <= 1
      BY <2>4
    <2>7. ASSUME NEW u \in Users PROVE Len(answer'[u]) <= 1
      <3>1. CASE u = cur[o]
        BY <2>6, <3>1
      <3>2. CASE u # cur[o]
        BY <2>4, <3>2 DEF AnsweredInv, OneReply
      <3> QED
        BY <3>1, <3>2
    <2> QED
      BY <2>4, <2>5, <2>7 DEF AnsweredInv, OneReply
  <1>2. CASE answer' = answer /\ finished \subseteq finished'
    BY <1>2 DEF AnsweredInv, OneReply
  <1>3. ASSUME NEW o \in Offices, OfficeStep(o), ~WriteReply(o)
        PROVE  answer' = answer /\ finished \subseteq finished'
    BY <1>3 DEF OfficeStep, WaitFull, LockToCheck, Check, CountActive, LockToPop, Retrieve,
          Delete, DeleteNothing, PostEmpty, HandleWork, SetShutdown, MakeUnwritable,
          CloseDummy, ReportActive, ReplyToNobody, BlockOnReply, OpenReply, WriteReply,
          BrokenReply, CountIdle, outVars, replyVars
  <1>4. ASSUME MainStep \/ UNCHANGED vars \/ \E u \in Users : UserProgress(u) \/ UserLeaves(u)
        PROVE  answer' = answer /\ finished \subseteq finished'
    BY <1>4 DEF MainStep, UserProgress, UserLeaves, restVars, outVars, replyVars, vars
  <1> QED
    BY <1>1, <1>2, <1>3, <1>4 DEF Next, Quiescent

\* A user is sent at most one reply, whichever offices write at once
\* (server_bank_office.c:217-250).
THEOREM AnsweredOnce == Spec => []OneReply
  <1>1. Init => AnsweredInv
    BY DEF Init, InitWith, AnsweredInv, OneReply
  <1>2. LInv /\ AnsweredInv /\ [Next]_vars => AnsweredInv'
    BY NextAnswered
  <1>3. AnsweredInv => OneReply
    BY DEF AnsweredInv
  <1> QED
    BY <1>1, <1>2, <1>3, AlwaysLInv, PTL DEF Spec
=============================================================================
