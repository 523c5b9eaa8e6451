-------------------------- MODULE OfficePoolProofs --------------------------
(***************************************************************************)
(* Proofs about OfficePool, for any finite non-empty set of offices and    *)
(* any users.                                                              *)
(***************************************************************************)
EXTENDS OfficePool, FiniteSetTheorems, TLAPS

-----------------------------------------------------------------------------
(* The inductive invariant behind TypeOK and MutexInv.                     *)

\* Between queue_retreive and queue_delete an office holds a copy of the first
\* request (the queue cannot change, it has the mutex), and what an office
\* serves is a user's request.
CurInv ==
    \A o \in Offices :
        /\ offPc[o] = "delete" =>
              cur[o] = IF queue = <<>> THEN NoUser ELSE Head(queue)
        /\ offPc[o] \in Serving => cur[o] \in Users

\* Main holds a request from its read to its push, and posts no token before
\* closeOffices, nor more than one per office.
MainInv ==
    /\ inHand \in (IF mainPc \in {"wait", "lock", "push"} THEN Users ELSE {NoUser})
    /\ mainPc \notin {"tokens", "join", "done"} => posted = 0
    /\ mainPc = "tokens" => posted < N

IInv == TypeOK /\ MutexInv /\ CurInv /\ MainInv

\* The offices are finitely many, and at least one.
LEMMA NType == N \in Nat /\ N > 0
  BY PoolAssumption, FS_CardinalityType, FS_EmptySet DEF N

\* The initial state satisfies IInv.
LEMMA InitIInv == Init => IInv
  <1> SUFFICES ASSUME Init PROVE IInv
    OBVIOUS
  <1>1. TypeOK
    <2>1. offPc \in [Offices -> OffPcs] /\ userPc \in [Users -> UserPcs]
      BY DEF Init, InitWith, OffPcs, UserPcs
    <2>2. /\ mainPc \in MainPcs /\ queue_mutex \in Offices \cup {Main, Nobody}
          /\ dead \in {"no", "segv", "sigpipe"}
      BY DEF Init, InitWith, MainPcs
    <2>3. /\ posted \in 0..N /\ empty \in Nat /\ full \in Nat /\ active_thread_cnt \in Int
      BY NType DEF Init, InitWith
    <2>4. rep \in [Offices -> Int] /\ answer \in [Users -> Seq(Int)]
      BY NType DEF Init, InitWith
    <2>5. /\ queue \in Seq(Users) /\ pipe \in Seq(Users)
      BY DEF Init, InitWith
    <2>6. /\ inHand \in Users \cup {NoUser} /\ cur \in [Offices -> Users \cup {NoUser}]
          /\ finished \subseteq Users
          /\ shutdown \in BOOLEAN /\ writable \in BOOLEAN /\ dummyOpen \in BOOLEAN
      BY DEF Init, InitWith
    <2> QED
      BY <2>1, <2>2, <2>3, <2>4, <2>5, <2>6 DEF TypeOK
  <1>2. MutexInv
    BY PoolAssumption DEF Init, InitWith, MutexInv, Main, Nobody
  <1>3. CurInv
    BY DEF Init, InitWith, CurInv, Serving
  <1>4. MainInv
    BY NType DEF Init, InitWith, MainInv
  <1> QED
    BY <1>1, <1>2, <1>3, <1>4 DEF IInv

LEMMA NextIInv == IInv /\ [Next]_vars => IInv'
  <1> SUFFICES ASSUME IInv, [Next]_vars PROVE IInv'
    OBVIOUS
  <1> USE NType, PoolAssumption
      DEF IInv, TypeOK, MutexInv, CurInv, MainInv, MainPcs, OffPcs, UserPcs,
          Claiming, Serving, Main, Nobody, Goto, Become, mainVars, offVars,
          semVars, flagVars, userVars, replyVars, restVars, outVars
  <1>1. CASE MainStep
    <2>1. ASSUME NEW o \in Offices, SpawnOffice(o), UNCHANGED restVars PROVE IInv'
      BY <2>1 DEF SpawnOffice
    <2>2. ASSUME Setup, UNCHANGED restVars PROVE IInv'
      BY <2>2 DEF Setup
    <2>3. ASSUME OpenRequestFifo, UNCHANGED restVars PROVE IInv'
      BY <2>3 DEF OpenRequestFifo
    <2>4. ASSUME OpenDummy, UNCHANGED restVars PROVE IInv'
      BY <2>4 DEF OpenDummy
    <2>5. ASSUME ReadRequest, UNCHANGED restVars PROVE IInv'
      <3>1. ASSUME pipe # <<>> PROVE Head(pipe) \in Users /\ Tail(pipe) \in Seq(Users)
        BY <3>1 DEF IInv, TypeOK
      <3>2. CASE pipe # <<>> /\ inHand' = Head(pipe) /\ pipe' = Tail(pipe) /\ mainPc' = "wait"
        BY <2>5, <3>1, <3>2 DEF ReadRequest
      <3>3. CASE mainPc' = "close" /\ UNCHANGED <<inHand, pipe>>
        BY <2>5, <3>3 DEF ReadRequest
      <3> QED
        BY <2>5, <3>2, <3>3 DEF ReadRequest
    <2>6. ASSUME WaitEmpty, UNCHANGED restVars PROVE IInv'
      BY <2>6 DEF WaitEmpty
    <2>7. ASSUME LockToPush, UNCHANGED restVars PROVE IInv'
      BY <2>7 DEF LockToPush
    <2>8. ASSUME Push, UNCHANGED restVars PROVE IInv'
      BY <2>8 DEF Push
    <2>9. ASSUME PostFull, UNCHANGED restVars PROVE IInv'
      BY <2>9 DEF PostFull
    <2>10. ASSUME CloseCommunication, UNCHANGED restVars PROVE IInv'
      BY <2>10 DEF CloseCommunication
    <2>11. ASSUME PostToken, UNCHANGED restVars PROVE IInv'
      BY <2>11 DEF PostToken
    <2>12. ASSUME JoinOffices, UNCHANGED restVars PROVE IInv'
      BY <2>12 DEF JoinOffices
    <2> QED
      BY <1>1, <2>1, <2>2, <2>3, <2>4, <2>5, <2>6, <2>7, <2>8, <2>9, <2>10, <2>11, <2>12 DEF MainStep
  <1>2. ASSUME NEW o \in Offices, OfficeStep(o) PROVE IInv'
    <2>0. UNCHANGED <<mainVars, userVars>>
      BY <1>2 DEF OfficeStep
    <2>1. CASE WaitFull(o)
      BY <2>0, <2>1 DEF WaitFull
    <2>2. CASE LockToCheck(o)
      BY <2>0, <2>2 DEF LockToCheck
    <2>3. CASE Check(o)
      BY <2>0, <2>3 DEF Check
    <2>4. CASE CountActive(o)
      BY <2>0, <2>4 DEF CountActive
    <2>5. CASE LockToPop(o)
      BY <2>0, <2>5 DEF LockToPop
    <2>6. CASE Retrieve(o)
      BY <2>0, <2>6 DEF Retrieve
    <2>7. CASE Delete(o)
      BY <2>0, <2>7 DEF Delete
    <2>8. CASE DeleteNothing(o)
      BY <2>0, <2>8 DEF DeleteNothing
    <2>9. CASE PostEmpty(o)
      BY <2>0, <2>9 DEF PostEmpty
    <2>10. CASE HandleWork(o)
      BY <2>0, <2>10 DEF HandleWork
    <2>11. CASE SetShutdown(o)
      <3>1. TypeOK'
        BY <2>0, <2>11 DEF SetShutdown
      <3>2. MutexInv'
        BY <2>0, <2>11 DEF SetShutdown
      <3>3. CurInv'
        BY <2>0, <2>11 DEF SetShutdown
      <3>4. MainInv'
        BY <2>0, <2>11 DEF SetShutdown
      <3> QED
        BY <3>1, <3>2, <3>3, <3>4
    <2>12. CASE MakeUnwritable(o)
      <3>1. TypeOK'
        BY <2>0, <2>12, SMTT(30), ZenonT(30) DEF MakeUnwritable
      <3>2. MutexInv'
        BY <2>0, <2>12 DEF MakeUnwritable
      <3>3. CurInv'
        BY <2>0, <2>12 DEF MakeUnwritable
      <3>4. MainInv'
        BY <2>0, <2>12 DEF MakeUnwritable
      <3> QED
        BY <3>1, <3>2, <3>3, <3>4
    <2>13. CASE CloseDummy(o)
      <3>1. TypeOK'
        BY <2>0, <2>13, SMTT(30), ZenonT(30) DEF CloseDummy
      <3>2. MutexInv'
        BY <2>0, <2>13 DEF CloseDummy
      <3>3. CurInv'
        BY <2>0, <2>13 DEF CloseDummy
      <3>4. MainInv'
        BY <2>0, <2>13 DEF CloseDummy
      <3> QED
        BY <3>1, <3>2, <3>3, <3>4
    <2>14. CASE ReportActive(o)
      <3>1. TypeOK'
        BY <2>0, <2>14 DEF ReportActive
      <3>2. MutexInv'
        BY <2>0, <2>14 DEF ReportActive
      <3>3. CurInv'
        BY <2>0, <2>14 DEF ReportActive
      <3>4. MainInv'
        BY <2>0, <2>14 DEF ReportActive
      <3> QED
        BY <3>1, <3>2, <3>3, <3>4
    <2>15. CASE ReplyToNobody(o)
      <3>1. TypeOK'
        BY <2>0, <2>15 DEF ReplyToNobody
      <3>2. MutexInv'
        BY <2>0, <2>15 DEF ReplyToNobody
      <3>3. CurInv'
        BY <2>0, <2>15 DEF ReplyToNobody
      <3>4. MainInv'
        BY <2>0, <2>15 DEF ReplyToNobody
      <3> QED
        BY <3>1, <3>2, <3>3, <3>4
    <2>16. CASE BlockOnReply(o)
      BY <2>0, <2>16 DEF BlockOnReply
    <2>17. CASE OpenReply(o)
      BY <2>0, <2>17 DEF OpenReply
    <2>18. CASE WriteReply(o)
      BY <2>0, <2>18 DEF WriteReply
    <2>19. CASE BrokenReply(o)
      BY <2>0, <2>19 DEF BrokenReply
    <2>20. CASE CountIdle(o)
      BY <2>0, <2>20 DEF CountIdle
    <2> QED
      BY <1>2, <2>1, <2>2, <2>3, <2>4, <2>5, <2>6, <2>7, <2>8, <2>9, <2>10, <2>11, <2>12, <2>13, <2>14, <2>15, <2>16, <2>17, <2>18, <2>19, <2>20 DEF OfficeStep
  <1>3. ASSUME NEW u \in Users, UserProgress(u) \/ UserLeaves(u) PROVE IInv'
    <2>0. UNCHANGED <<mainVars, offVars, semVars, outVars>>
      BY <1>3 DEF UserProgress, UserLeaves
    <2>1. CASE OpenServer(u)
      BY <2>0, <2>1 DEF OpenServer
    <2>2. CASE ServerDown(u)
      BY <2>0, <2>2 DEF ServerDown
    <2>3. CASE SendRequest(u)
      BY <2>0, <2>3 DEF SendRequest
    <2>4. CASE SendToNobody(u)
      BY <2>0, <2>4 DEF SendToNobody
    <2>5. CASE ReadReply(u)
      BY <2>0, <2>5 DEF ReadReply
    <2>6. CASE CloseRequestFifo(u)
      BY <2>0, <2>6 DEF CloseRequestFifo
    <2>7. CASE CloseResponseFifo(u)
      BY <2>0, <2>7 DEF CloseResponseFifo
    <2>8. CASE UnlinkResponseFifo(u)
      BY <2>0, <2>8 DEF UnlinkResponseFifo
    <2>9. CASE GiveUp(u)
      BY <2>0, <2>9 DEF GiveUp
    <2>10. CASE Kill(u)
      BY <2>0, <2>10 DEF Kill
    <2> QED
      BY <1>3, <2>1, <2>2, <2>3, <2>4, <2>5, <2>6, <2>7, <2>8, <2>9, <2>10 DEF UserProgress, UserLeaves
  <1>4. CASE UNCHANGED vars
    BY <1>4 DEF vars
  <1> QED
    BY <1>1, <1>2, <1>3, <1>4 DEF Next, Quiescent

\* Every reachable state satisfies the inductive invariant.
LEMMA AlwaysIInv == Spec => []IInv
  BY InitIInv, NextIInv, PTL DEF Spec

\* Every variable keeps its type, whatever the offices and users do.
THEOREM TypeCorrect == Spec => []TypeOK
  BY AlwaysIInv, PTL DEF IInv

\* request_queue_mutex has one holder, the thread inside a critical section:
\* the check, the pop or the push, never two of them.
THEOREM QueueMutex == Spec => []MutexInv
  BY AlwaysIInv, PTL DEF IInv

-----------------------------------------------------------------------------
(* Counting offices: the semaphores and active_thread_cnt.                 *)

Ind(x, S) == IF x \in S THEN 1 ELSE 0
Tok == Claiming \cup {"exited"}
Slot == {"slot"}

\* When one office moves, the number of offices at S changes by its share.
LEMMA CountMove ==
  ASSUME TypeOK, NEW S, NEW o \in Offices, NEW to, Goto(o, to)
  PROVE  /\ Cardinality(At(S)) \in Nat
         /\ Cardinality(At(S)') = Cardinality(At(S)) + Ind(to, S) - Ind(offPc[o], S)
  <1>1. IsFiniteSet(At(S)) /\ IsFiniteSet(At(S)')
    BY PoolAssumption, FS_Subset DEF At
  <1>2. Cardinality(At(S)) \in Nat
    BY <1>1, FS_CardinalityType
  <1>3. \A p \in Offices : offPc'[p] = IF p = o THEN to ELSE offPc[p]
    BY DEF Goto, TypeOK
  <1>4. CASE offPc[o] \in S /\ to \in S
    <2>1. At(S)' = At(S)
      BY <1>3, <1>4 DEF At
    <2> QED
      BY <1>2, <1>4, <2>1 DEF Ind
  <1>5. CASE offPc[o] \notin S /\ to \notin S
    <2>1. At(S)' = At(S)
      BY <1>3, <1>5 DEF At
    <2> QED
      BY <1>2, <1>5, <2>1 DEF Ind
  <1>6. CASE offPc[o] \notin S /\ to \in S
    <2>1. At(S)' = At(S) \cup {o} /\ o \notin At(S)
      BY <1>3, <1>6 DEF At
    <2>2. Cardinality(At(S)') = Cardinality(At(S)) + 1
      BY <1>1, <2>1, FS_AddElement
    <2> QED
      BY <1>2, <1>6, <2>2 DEF Ind
  <1>7. CASE offPc[o] \in S /\ to \notin S
    <2>1. At(S)' = At(S) \ {o} /\ o \in At(S)
      BY <1>3, <1>7 DEF At
    <2>2. Cardinality(At(S)') = Cardinality(At(S)) - 1
      BY <1>1, <2>1, FS_RemoveElement
    <2> QED
      BY <1>2, <1>7, <2>2 DEF Ind
  <1> QED
    BY <1>2, <1>4, <1>5, <1>6, <1>7

\* What does not move keeps its count.
LEMMA CountStay ==
  ASSUME TypeOK, NEW S, offPc' = offPc
  PROVE  At(S)' = At(S) /\ Cardinality(At(S)) \in Nat
  <1>1. IsFiniteSet(At(S))
    BY PoolAssumption, FS_Subset DEF At
  <1> QED
    BY <1>1, FS_CardinalityType DEF At

\* The three counts together.
Counts == TokenInv /\ RoomInv /\ ActiveInv

LEMMA InitCounts == Init => Counts
  <1> SUFFICES ASSUME Init PROVE Counts
    OBVIOUS
  <1>1. At(Claiming \cup {"exited"}) = {} /\ At({"slot"}) = {} /\ At(Counted) = {}
    BY DEF Init, InitWith, At, Claiming, Counted, Serving
  <1>2. /\ Cardinality(At(Claiming \cup {"exited"})) = 0
        /\ Cardinality(At({"slot"})) = 0 /\ Cardinality(At(Counted)) = 0
    BY <1>1, FS_EmptySet
  <1>3. Len(queue) = 0 /\ N \in Nat
    BY NType DEF Init, InitWith
  <1> QED
    BY <1>2, <1>3 DEF Init, InitWith, Counts, TokenInv, RoomInv, ActiveInv

LEMMA NextCounts == IInv /\ Counts /\ [Next]_vars => Counts'
  <1> SUFFICES ASSUME IInv, Counts, [Next]_vars PROVE Counts'
    OBVIOUS
  <1>0. TypeOK /\ Claiming \cup {"exited"} = Tok
    BY DEF IInv, Tok
  <1> DEFINE C(S) == Cardinality(At(S))
             Moved(o, to) == /\ C(Tok)' = C(Tok) + Ind(to, Tok) - Ind(offPc[o], Tok)
                             /\ C(Slot)' = C(Slot) + Ind(to, Slot) - Ind(offPc[o], Slot)
                             /\ C(Counted)' = C(Counted) + Ind(to, Counted) - Ind(offPc[o], Counted)
             Stayed == C(Tok)' = C(Tok) /\ C(Slot)' = C(Slot) /\ C(Counted)' = C(Counted)
  <1>a. C(Tok) \in Nat /\ C(Slot) \in Nat /\ C(Counted) \in Nat
    BY <1>0, PoolAssumption, FS_Subset, FS_CardinalityType DEF At
  <1>b. ASSUME NEW o \in Offices, NEW to, Goto(o, to) PROVE Moved(o, to)
    BY <1>0, <1>b, CountMove
  <1>c. ASSUME offPc' = offPc PROVE Stayed
    BY <1>0, <1>c, CountStay
  <1>d. /\ Len(queue) + posted = full + C(Tok) + (IF mainPc = "post" THEN 1 ELSE 0)
        /\ empty + Len(queue) + C(Slot) + (IF mainPc \in {"lock", "push"} THEN 1 ELSE 0) = N
        /\ active_thread_cnt = C(Counted)
    BY <1>0 DEF Counts, TokenInv, RoomInv, ActiveInv, Slot
  <1> DEFINE Goal == /\ Len(queue)' + posted' = full' + C(Tok)' + (IF mainPc' = "post" THEN 1 ELSE 0)
                     /\ empty' + Len(queue)' + C(Slot)' + (IF mainPc' \in {"lock", "push"} THEN 1 ELSE 0) = N
                     /\ active_thread_cnt' = C(Counted)'
  <1>e. SUFFICES Goal
    BY <1>0 DEF Counts, TokenInv, RoomInv, ActiveInv, Slot, Tok
  <1>f. /\ posted \in Nat /\ full \in Nat /\ empty \in Nat /\ active_thread_cnt \in Int
        /\ N \in Nat /\ queue \in Seq(Users) /\ Len(queue) \in Nat
    BY <1>0, NType DEF TypeOK
  <1> USE <1>a, <1>d, <1>f
  <1> HIDE DEF C
  <1>1. CASE MainStep
    <2>1. ASSUME NEW o \in Offices, SpawnOffice(o), UNCHANGED restVars PROVE Goal
      <3>1. offPc[o] = "unborn" /\ Goto(o, "wait") /\ mainPc = "spawn" /\ mainPc' \in {"spawn", "setup"}
            /\ UNCHANGED <<posted, queue, empty, full, active_thread_cnt>>
        BY <2>1 DEF SpawnOffice, Goto, semVars, restVars
      <3>2. Moved(o, "wait")
        BY <3>1, <1>b
      <3>3. Stayed
        BY <3>1, <3>2 DEF Ind, Tok, Slot, Counted, Claiming, Serving
      <3> QED
        BY <3>1, <3>3
    <2>2. ASSUME Setup, UNCHANGED restVars PROVE Goal
      BY <1>c, <2>2 DEF Setup, semVars, restVars
    <2>3. ASSUME OpenRequestFifo, UNCHANGED restVars PROVE Goal
      BY <1>c, <2>3 DEF OpenRequestFifo, semVars, restVars
    <2>4. ASSUME OpenDummy, UNCHANGED restVars PROVE Goal
      BY <1>c, <2>4 DEF OpenDummy, semVars, restVars
    <2>5. ASSUME ReadRequest, UNCHANGED restVars PROVE Goal
      BY <1>c, <2>5 DEF ReadRequest, semVars, restVars
    <2>6. ASSUME WaitEmpty, UNCHANGED restVars PROVE Goal
      BY <1>c, <2>6 DEF WaitEmpty, semVars, restVars
    <2>7. ASSUME LockToPush, UNCHANGED restVars PROVE Goal
      BY <1>c, <2>7 DEF LockToPush, semVars, restVars
    <2>8. ASSUME Push, UNCHANGED restVars PROVE Goal
      <3>1. inHand \in Users
        BY <2>8 DEF Push, IInv, MainInv
      <3>2. Len(Append(queue, inHand)) = Len(queue) + 1
        BY <3>1
      <3> QED
        BY <1>c, <2>8, <3>2 DEF Push, restVars
    <2>9. ASSUME PostFull, UNCHANGED restVars PROVE Goal
      BY <1>c, <2>9 DEF PostFull, semVars, restVars
    <2>10. ASSUME CloseCommunication, UNCHANGED restVars PROVE Goal
      BY <1>c, <2>10 DEF CloseCommunication, semVars, restVars
    <2>11. ASSUME PostToken, UNCHANGED restVars PROVE Goal
      BY <1>c, <2>11, SMTT(30), ZenonT(30) DEF PostToken, semVars, restVars
    <2>12. ASSUME JoinOffices, UNCHANGED restVars PROVE Goal
      BY <1>c, <2>12 DEF JoinOffices, semVars, restVars
    <2> QED
      BY <1>1, <2>1, <2>2, <2>3, <2>4, <2>5, <2>6, <2>7, <2>8, <2>9, <2>10, <2>11, <2>12 DEF MainStep
  <1>2. ASSUME NEW o \in Offices, OfficeStep(o) PROVE Goal
    <2>0. UNCHANGED mainVars
      BY <1>2 DEF OfficeStep
    <2>1. CASE WaitFull(o)
      <3>1. Moved(o, "lock1")
        BY <1>b, <2>1 DEF WaitFull
      <3> QED
        BY <2>0, <2>1, <3>1 DEF WaitFull, mainVars, semVars, outVars, Ind, Tok, Slot, Counted, Claiming, Serving
    <2>2. CASE LockToCheck(o)
      <3>1. Moved(o, "check")
        BY <1>b, <2>2 DEF LockToCheck
      <3> QED
        BY <2>0, <2>2, <3>1 DEF LockToCheck, mainVars, semVars, outVars, Ind, Tok, Slot, Counted, Claiming, Serving
    <2>3. CASE Check(o)
      <3>1. Moved(o, "exited") \/ Moved(o, "count")
        BY <1>b, <2>3 DEF Check
      <3> QED
        BY <2>0, <2>3, <3>1 DEF Check, mainVars, outVars, Ind, Tok, Slot, Counted, Claiming, Serving
    <2>4. CASE CountActive(o)
      <3>1. Moved(o, "lock2")
        BY <1>b, <2>4 DEF CountActive
      <3> QED
        BY <2>0, <2>4, <3>1 DEF CountActive, mainVars, semVars, outVars, Ind, Tok, Slot, Counted, Claiming, Serving
    <2>5. CASE LockToPop(o)
      <3>1. Moved(o, "retrieve")
        BY <1>b, <2>5 DEF LockToPop
      <3> QED
        BY <2>0, <2>5, <3>1 DEF LockToPop, mainVars, semVars, outVars, Ind, Tok, Slot, Counted, Claiming, Serving
    <2>6. CASE Retrieve(o)
      <3>1. Moved(o, "delete")
        BY <1>b, <2>6 DEF Retrieve
      <3> QED
        BY <2>0, <2>6, <3>1 DEF Retrieve, mainVars, semVars, outVars, Ind, Tok, Slot, Counted, Claiming, Serving
    <2>7. CASE Delete(o)
      <3>1. Moved(o, "slot")
        BY <1>b, <2>7 DEF Delete
      <3>2. Len(queue') = Len(queue) - 1
        BY <2>7 DEF Delete
      <3>3. /\ mainPc' = mainPc /\ UNCHANGED <<posted, full, empty, active_thread_cnt>>
            /\ offPc[o] = "delete"
        BY <2>0, <2>7 DEF Delete, mainVars, outVars
      <3>4. C(Tok)' = C(Tok) - 1 /\ C(Slot)' = C(Slot) + 1 /\ C(Counted)' = C(Counted)
        BY <3>1, <3>3 DEF Ind, Tok, Slot, Counted, Claiming, Serving
      <3>5. Len(queue') + posted = full + (C(Tok) - 1) + (IF mainPc = "post" THEN 1 ELSE 0)
        BY <3>2, SMTT(30), ZenonT(30)
      <3>6. Len(queue)' + posted' = full' + C(Tok)' + (IF mainPc' = "post" THEN 1 ELSE 0)
        BY <3>3, <3>4, <3>5
      <3>7. empty' + Len(queue)' + C(Slot)' + (IF mainPc' \in {"lock", "push"} THEN 1 ELSE 0) = N
        BY <3>2, <3>3, <3>4
      <3> QED
        BY <3>3, <3>4, <3>6, <3>7
    <2>8. CASE DeleteNothing(o)
      BY <1>c, <2>0, <2>8 DEF DeleteNothing, mainVars, offVars, semVars
    <2>9. CASE PostEmpty(o)
      <3>1. Moved(o, "handle")
        BY <1>b, <2>9 DEF PostEmpty
      <3> QED
        BY <2>0, <2>9, <3>1 DEF PostEmpty, mainVars, semVars, outVars, Ind, Tok, Slot, Counted, Claiming, Serving
    <2>10. CASE HandleWork(o)
      <3>1. Moved(o, "reply")
        BY <1>b, <2>10 DEF HandleWork
      <3> QED
        BY <2>0, <2>10, <3>1 DEF HandleWork, mainVars, semVars, outVars, Ind, Tok, Slot, Counted, Claiming, Serving
    <2>11. CASE SetShutdown(o)
      <3>1. Moved(o, "chmod")
        BY <1>b, <2>11 DEF SetShutdown
      <3> QED
        BY <2>0, <2>11, <3>1 DEF SetShutdown, mainVars, semVars, outVars, Ind, Tok, Slot, Counted, Claiming, Serving
    <2>12. CASE MakeUnwritable(o)
      <3>1. Moved(o, "dummy")
        BY <1>b, <2>12 DEF MakeUnwritable
      <3> QED
        BY <2>0, <2>12, <3>1 DEF MakeUnwritable, mainVars, semVars, outVars, Ind, Tok, Slot, Counted, Claiming, Serving
    <2>13. CASE CloseDummy(o)
      <3>1. Moved(o, "report")
        BY <1>b, <2>13 DEF CloseDummy
      <3> QED
        BY <2>0, <2>13, <3>1 DEF CloseDummy, mainVars, semVars, outVars, Ind, Tok, Slot, Counted, Claiming, Serving
    <2>14. CASE ReportActive(o)
      <3>1. Moved(o, "reply")
        BY <1>b, <2>14 DEF ReportActive
      <3> QED
        BY <2>0, <2>14, <3>1 DEF ReportActive, mainVars, semVars, outVars, Ind, Tok, Slot, Counted, Claiming, Serving
    <2>15. CASE ReplyToNobody(o)
      <3>1. Moved(o, "dec")
        BY <1>b, <2>15 DEF ReplyToNobody
      <3> QED
        BY <2>0, <2>15, <3>1 DEF ReplyToNobody, mainVars, semVars, outVars, Ind, Tok, Slot, Counted, Claiming, Serving
    <2>16. CASE BlockOnReply(o)
      <3>1. Moved(o, "blocked")
        BY <1>b, <2>16 DEF BlockOnReply
      <3> QED
        BY <2>0, <2>16, <3>1 DEF BlockOnReply, mainVars, semVars, outVars, Ind, Tok, Slot, Counted, Claiming, Serving
    <2>17. CASE OpenReply(o)
      <3>1. Moved(o, "write")
        BY <1>b, <2>17 DEF OpenReply
      <3> QED
        BY <2>0, <2>17, <3>1 DEF OpenReply, mainVars, semVars, outVars, Ind, Tok, Slot, Counted, Claiming, Serving
    <2>18. CASE WriteReply(o)
      <3>1. Moved(o, "dec")
        BY <1>b, <2>18 DEF WriteReply
      <3> QED
        BY <2>0, <2>18, <3>1 DEF WriteReply, mainVars, semVars, outVars, Ind, Tok, Slot, Counted, Claiming, Serving
    <2>19. CASE BrokenReply(o)
      BY <1>c, <2>0, <2>19 DEF BrokenReply, mainVars, offVars, semVars
    <2>20. CASE CountIdle(o)
      <3>1. Moved(o, "wait")
        BY <1>b, <2>20 DEF CountIdle
      <3> QED
        BY <2>0, <2>20, <3>1 DEF CountIdle, mainVars, semVars, outVars, Ind, Tok, Slot, Counted, Claiming, Serving
    <2> QED
      BY <1>2, <2>1, <2>2, <2>3, <2>4, <2>5, <2>6, <2>7, <2>8, <2>9, <2>10, <2>11, <2>12, <2>13, <2>14, <2>15, <2>16, <2>17, <2>18, <2>19, <2>20 DEF OfficeStep
  <1>3. ASSUME NEW u \in Users, UserProgress(u) \/ UserLeaves(u) PROVE Goal
    BY <1>3, <1>c DEF UserProgress, UserLeaves, mainVars, offVars, semVars, outVars
  <1>4. CASE UNCHANGED vars
    BY <1>4, <1>c DEF vars, mainVars, offVars, semVars
  <1> QED
    BY <1>1, <1>2, <1>3, <1>4 DEF Next, Quiescent

\* The three counts hold in every reachable state.
LEMMA AlwaysCounts == Spec => [](IInv /\ Counts)
  <1>1. Init => IInv /\ Counts
    BY InitIInv, InitCounts
  <1>2. IInv /\ Counts /\ [Next]_vars => (IInv /\ Counts)'
    BY NextIInv, NextCounts
  <1> QED
    BY <1>1, <1>2, PTL DEF Spec

\* The semaphore full counts what there is to pop, and closeOffices' tokens.
THEOREM TokensAccounted == Spec => []TokenInv
  BY AlwaysCounts, PTL DEF Counts

\* The semaphore empty counts the free places of the queue.
THEOREM RoomAccounted == Spec => []RoomInv
  BY AlwaysCounts, PTL DEF Counts

\* active_thread_cnt is the number of offices at work.
THEOREM ActiveCounted == Spec => []ActiveInv
  BY AlwaysCounts, PTL DEF Counts

\* Never more queued requests than offices, whatever users do.
THEOREM QueueBounded == Spec => []QueueBound
  <1>1. IInv /\ Counts => QueueBound
    <2> SUFFICES ASSUME IInv, Counts PROVE QueueBound
      OBVIOUS
    <2>1. TypeOK
      BY DEF IInv
    <2>2. /\ Cardinality(At({"slot"})) \in Nat /\ N \in Nat /\ empty \in Nat
          /\ Len(queue) \in Nat
      BY <2>1, NType, PoolAssumption, FS_Subset, FS_CardinalityType DEF TypeOK, At
    <2>3. empty + Len(queue) + Cardinality(At({"slot"}))
            + (IF mainPc \in {"lock", "push"} THEN 1 ELSE 0) = N
      BY DEF Counts, RoomInv
    <2> QED
      BY <2>2, <2>3 DEF QueueBound
  <1> QED
    BY <1>1, AlwaysCounts, PTL

-----------------------------------------------------------------------------
(* What an office that holds a token may rely on.                          *)

\* As long as closeOffices has posted nothing, a token is a queued request.
LEMMA TokenMeansRequest ==
  ASSUME IInv, Counts, posted = 0, NEW o \in Offices, offPc[o] \in Claiming
  PROVE  queue # <<>>
  <1> DEFINE A == At(Claiming \cup {"exited"})
  <1>1. IsFiniteSet(A) /\ o \in A
    BY PoolAssumption, FS_Subset DEF At
  <1>2. Cardinality(A) \in Nat /\ Cardinality(A) # 0
    BY <1>1, FS_CardinalityType, FS_EmptySet
  <1>3. /\ Len(queue) + posted = full + Cardinality(A) + (IF mainPc = "post" THEN 1 ELSE 0)
        /\ full \in Nat /\ Len(queue) \in Nat
    BY DEF Counts, TokenInv, IInv, TypeOK
  <1> HIDE DEF A
  <1>4. Len(queue) # 0
    BY <1>2, <1>3
  <1> QED
    BY <1>4

\* Every pop finds a request until closeOffices posts its tokens; after that
\* an office may pop the request of another's token.
THEOREM PopSafeWhileOpen == Spec => [](posted = 0 => PopFindsRequest)
  <1>1. IInv /\ Counts => (posted = 0 => PopFindsRequest)
    BY TokenMeansRequest DEF PopFindsRequest, Claiming
  <1> QED
    BY <1>1, AlwaysCounts, PTL

\* No office leaves early: the inductive step of NoEarlyExit.
LEMMA NextNoEarlyExit == IInv /\ Counts /\ NoEarlyExit /\ [Next]_vars => NoEarlyExit'
  <1> SUFFICES ASSUME IInv, Counts, NoEarlyExit, [Next]_vars PROVE NoEarlyExit'
    OBVIOUS
  <1> DEFINE Over == /\ mainPc \in {"tokens", "join", "done"}
                     /\ shutdown /\ queue = <<>> /\ inHand = NoUser
  <1>0. At({"exited"}) # {} => Over
    BY DEF NoEarlyExit
  <1>1. CASE MainStep
    <2>1. At({"exited"})' \subseteq At({"exited"})
      <3>1. offPc' = offPc \/ \E o \in Offices : offPc' = [offPc EXCEPT ![o] = "wait"]
        BY <1>1 DEF MainStep, SpawnOffice, Setup, OpenRequestFifo, OpenDummy, ReadRequest,
              WaitEmpty, LockToPush, Push, PostFull, CloseCommunication, PostToken, JoinOffices
      <3> QED
        BY <3>1 DEF At, IInv, TypeOK
    <2>2. Over => Over'
      BY <1>1 DEF MainStep, SpawnOffice, Setup, OpenRequestFifo, OpenDummy, ReadRequest,
            WaitEmpty, LockToPush, Push, PostFull, CloseCommunication, PostToken, JoinOffices,
            semVars, restVars
    <2> QED
      BY <1>0, <2>1, <2>2 DEF NoEarlyExit
  <1>2. ASSUME NEW o \in Offices, OfficeStep(o) PROVE NoEarlyExit'
    <2>1. UNCHANGED mainVars
      BY <1>2 DEF OfficeStep
    <2>2. CASE Check(o) /\ shutdown /\ queue = <<>>
      <3>1. posted # 0
        BY <2>2, TokenMeansRequest DEF Check, Claiming
      <3>2. Over
        BY <2>2, <3>1 DEF IInv, MainInv
      <3>3. Over'
        BY <2>1, <2>2, <3>2 DEF Check, mainVars, outVars, flagVars
      <3> QED
        BY <3>3 DEF NoEarlyExit
    <2>3. CASE ~(Check(o) /\ shutdown /\ queue = <<>>)
      <3>1. Over => Over'
        BY <1>2, <2>1 DEF OfficeStep, WaitFull, LockToCheck, Check, CountActive, LockToPop, Retrieve,
              Delete, DeleteNothing, PostEmpty, HandleWork, SetShutdown, MakeUnwritable,
              CloseDummy, ReportActive, ReplyToNobody, BlockOnReply, OpenReply, WriteReply,
              BrokenReply, CountIdle, mainVars, offVars,
              semVars, flagVars, outVars
      <3>2. offPc' = offPc \/ \E to \in OffPcs \ {"exited"} : Goto(o, to)
        BY <1>2, <2>3 DEF OfficeStep, WaitFull, LockToCheck, Check, CountActive, LockToPop, Retrieve,
              Delete, DeleteNothing, PostEmpty, HandleWork, SetShutdown, MakeUnwritable,
              CloseDummy, ReportActive, ReplyToNobody, BlockOnReply, OpenReply, WriteReply,
              BrokenReply, CountIdle, offVars,
              OffPcs, Claiming, Serving
      <3>3. At({"exited"})' \subseteq At({"exited"})
        BY <3>2 DEF Goto, At, IInv, TypeOK
      <3> QED
        BY <1>0, <3>1, <3>3 DEF NoEarlyExit
    <2> QED
      BY <2>2, <2>3
  <1>3. ASSUME NEW u \in Users, UserProgress(u) \/ UserLeaves(u) PROVE NoEarlyExit'
    BY <1>0, <1>3 DEF NoEarlyExit, At, UserProgress, UserLeaves, mainVars, offVars, semVars,
          flagVars, outVars
  <1>4. CASE UNCHANGED vars
    BY <1>0, <1>4 DEF NoEarlyExit, At, vars, mainVars, offVars, semVars, flagVars
  <1> QED
    BY <1>1, <1>2, <1>3, <1>4 DEF Next, Quiescent

\* No office leaves while a request is queued or could still be pushed: the
\* requests accepted before the shutdown are all popped.
THEOREM OfficesStay == Spec => []NoEarlyExit
  <1>1. Init => NoEarlyExit
    BY DEF Init, InitWith, NoEarlyExit, At
  <1> QED
    BY <1>1, NextNoEarlyExit, AlwaysCounts, PTL DEF Spec

-----------------------------------------------------------------------------
(* The two ends of the server's life.                                      *)

\* No office starts early: the inductive step of NoEarlyStart.
LEMMA NextNoEarlyStart == TypeOK /\ NoEarlyStart /\ [Next]_vars => NoEarlyStart'
  <1> SUFFICES ASSUME TypeOK, NoEarlyStart, [Next]_vars,
                      mainPc' \in {"spawn", "setup"}
               PROVE  full' = 0 /\ At(OffPcs \ {"unborn", "wait"})' = {}
    BY DEF NoEarlyStart
  <1>1. CASE MainStep
    <2>1. mainPc = "spawn" /\ \E o \in Offices : SpawnOffice(o)
      BY <1>1 DEF MainStep, SpawnOffice, Setup, OpenRequestFifo, OpenDummy, ReadRequest,
          WaitEmpty, LockToPush, Push, PostFull, CloseCommunication, PostToken, JoinOffices
    <2>2. full' = 0
      BY <2>1 DEF NoEarlyStart, SpawnOffice, semVars
    <2> QED
      BY <2>1, <2>2 DEF NoEarlyStart, SpawnOffice, At, TypeOK
  <1>2. ASSUME NEW o \in Offices, OfficeStep(o) PROVE FALSE
    <2>1. mainPc \in {"spawn", "setup"}
      BY <1>2 DEF OfficeStep, mainVars
    <2>2. full = 0 /\ offPc[o] \in {"unborn", "wait"}
      BY <2>1 DEF NoEarlyStart, At, TypeOK
    <2> QED
      BY <1>2, <2>2 DEF OfficeStep, WaitFull, LockToCheck, Check, CountActive, LockToPop, Retrieve,
          Delete, DeleteNothing, PostEmpty, HandleWork, SetShutdown, MakeUnwritable,
          CloseDummy, ReportActive, ReplyToNobody, BlockOnReply, OpenReply, WriteReply,
          BrokenReply, CountIdle
  <1>3. ASSUME NEW u \in Users, UserProgress(u) \/ UserLeaves(u)
        PROVE  full' = 0 /\ At(OffPcs \ {"unborn", "wait"})' = {}
    BY <1>3 DEF NoEarlyStart, At, UserProgress, UserLeaves, mainVars, offVars, semVars
  <1>4. CASE UNCHANGED vars
    BY <1>4 DEF NoEarlyStart, At, vars, mainVars, offVars, semVars
  <1> QED
    BY <1>1, <1>2, <1>3, <1>4 DEF Next, Quiescent

\* The offices run before the accounts, the queue and the FIFO exist
\* (server.c:63-79) and none of them gets past its first sem_wait.
THEOREM OfficesWaitForSetup == Spec => []NoEarlyStart
  <1>1. Init => NoEarlyStart
    BY DEF Init, InitWith, NoEarlyStart, At
  <1> QED
    BY <1>1, NextNoEarlyStart, TypeCorrect, PTL DEF Spec

\* The FIFO is unwritable when an office is about to close the dummy writer,
\* and ever after.
Unwritable ==
    /\ \A o \in Offices : offPc[o] = "dummy" => ~writable
    /\ mainPc \in {"spawn", "setup", "open", "dummy"} \/ dummyOpen \/ ~writable

\* The inductive step of Unwritable.
LEMMA NextUnwritable ==
  TypeOK /\ Unwritable /\ NoLateWriter /\ [Next]_vars => (Unwritable /\ NoLateWriter)'
  <1> SUFFICES ASSUME TypeOK, Unwritable, NoLateWriter, [Next]_vars
               PROVE  Unwritable' /\ NoLateWriter'
    OBVIOUS
  <1> DEFINE Closing == {"close", "tokens", "join", "done"}
             Early == {"spawn", "setup", "open", "dummy"}
  <1>1. CASE MainStep
    <2>1. writable' = writable /\ userPc' = userPc
      BY <1>1 DEF MainStep, restVars
    <2>2. dummyOpen => dummyOpen'
      BY <1>1 DEF MainStep, SpawnOffice, Setup, OpenRequestFifo, OpenDummy, ReadRequest,
          WaitEmpty, LockToPush, Push, PostFull, CloseCommunication, PostToken, JoinOffices
    <2>3. mainPc' \in Early \/ mainPc \notin Early \/ dummyOpen'
      BY <1>1 DEF MainStep, SpawnOffice, Setup, OpenRequestFifo, OpenDummy, ReadRequest,
          WaitEmpty, LockToPush, Push, PostFull, CloseCommunication, PostToken, JoinOffices
    <2>4. \A o \in Offices : offPc'[o] = "dummy" => offPc[o] = "dummy"
      BY <1>1 DEF MainStep, SpawnOffice, Setup, OpenRequestFifo, OpenDummy, ReadRequest,
          WaitEmpty, LockToPush, Push, PostFull, CloseCommunication, PostToken, JoinOffices, TypeOK
    <2>5. Unwritable'
      BY <2>1, <2>2, <2>3, <2>4 DEF Unwritable
    <2>6. ASSUME mainPc' \in Closing PROVE pipe' = <<>> /\ ~writable' /\ \A u \in Users : ~Writes(u)'
      <3>1. CASE mainPc \in Closing
        BY <1>1, <2>1, <3>1 DEF NoLateWriter, Writes, MainStep, SpawnOffice, Setup, OpenRequestFifo, OpenDummy, ReadRequest,
          WaitEmpty, LockToPush, Push, PostFull, CloseCommunication, PostToken, JoinOffices
      <3>2. CASE mainPc \notin Closing
        <4>1. pipe = <<>> /\ pipe' = pipe /\ NoWriter /\ mainPc = "read"
          BY <1>1, <2>6, <3>2 DEF MainStep, SpawnOffice, Setup, OpenRequestFifo, OpenDummy, ReadRequest,
          WaitEmpty, LockToPush, Push, PostFull, CloseCommunication, PostToken, JoinOffices
        <4> QED
          BY <2>1, <4>1 DEF NoWriter, Writes, Unwritable
      <3> QED
        BY <3>1, <3>2
    <2> QED
      BY <2>5, <2>6 DEF NoLateWriter
  <1>2. ASSUME NEW o \in Offices, OfficeStep(o) PROVE Unwritable' /\ NoLateWriter'
    <2>1. mainPc' = mainPc /\ pipe' = pipe /\ userPc' = userPc
      BY <1>2 DEF OfficeStep, mainVars, userVars
    <2>2. writable' = writable \/ writable' = FALSE
      BY <1>2 DEF OfficeStep, WaitFull, LockToCheck, Check, CountActive, LockToPop, Retrieve,
          Delete, DeleteNothing, PostEmpty, HandleWork, SetShutdown, MakeUnwritable,
          CloseDummy, ReportActive, ReplyToNobody, BlockOnReply, OpenReply, WriteReply,
          BrokenReply, CountIdle, outVars, flagVars
    <2>3. dummyOpen' = dummyOpen \/ ~writable'
      BY <1>2 DEF OfficeStep, WaitFull, LockToCheck, Check, CountActive, LockToPop, Retrieve,
          Delete, DeleteNothing, PostEmpty, HandleWork, SetShutdown, MakeUnwritable,
          CloseDummy, ReportActive, ReplyToNobody, BlockOnReply, OpenReply, WriteReply,
          BrokenReply, CountIdle, outVars, flagVars, Unwritable
    <2>4. ASSUME NEW p \in Offices, offPc'[p] = "dummy" PROVE offPc[p] = "dummy" \/ ~writable'
      BY <1>2, <2>4 DEF OfficeStep, WaitFull, LockToCheck, Check, CountActive, LockToPop, Retrieve,
          Delete, DeleteNothing, PostEmpty, HandleWork, SetShutdown, MakeUnwritable,
          CloseDummy, ReportActive, ReplyToNobody, BlockOnReply, OpenReply, WriteReply,
          BrokenReply, CountIdle, Goto, offVars, TypeOK
    <2>5. Unwritable'
      BY <2>1, <2>2, <2>3, <2>4 DEF Unwritable
    <2> QED
      BY <2>1, <2>2, <2>5 DEF NoLateWriter, Writes
  <1>3. ASSUME NEW u \in Users, UserProgress(u) \/ UserLeaves(u) PROVE Unwritable' /\ NoLateWriter'
    <2>1. UNCHANGED <<mainPc, offPc, writable, dummyOpen>>
      BY <1>3 DEF UserProgress, UserLeaves, mainVars, offVars, outVars, flagVars
    <2>2. Unwritable'
      BY <2>1 DEF Unwritable
    <2>3. ASSUME mainPc \in Closing PROVE pipe' = <<>> /\ \A v \in Users : ~Writes(v)'
      <3>1. pipe = <<>> /\ ~writable /\ \A v \in Users : ~Writes(v)
        BY <2>3 DEF NoLateWriter
      <3>2. pipe' = pipe /\ \E to \in {"down", "half", "unlinking", "gone"} : Become(u, to)
        BY <1>3, <3>1 DEF UserProgress, UserLeaves, OpenServer, ServerDown, SendRequest,
              SendToNobody, ReadReply, CloseRequestFifo, CloseResponseFifo, UnlinkResponseFifo,
              GiveUp, Kill, Writes
      <3> QED
        BY <3>1, <3>2 DEF Become, Writes, TypeOK
    <2> QED
      BY <2>1, <2>2, <2>3 DEF NoLateWriter
  <1>4. CASE UNCHANGED vars
    BY <1>4 DEF Unwritable, NoLateWriter, Writes, vars, mainVars, offVars, flagVars, userVars
  <1> QED
    BY <1>1, <1>2, <1>3, <1>4 DEF Next, Quiescent

\* Closing the server FIFO loses no request: shutdown_server makes it unwritable
\* before it closes the dummy writer (server_bank_office.c:342-347), so that
\* nobody can open it after main has seen end-of-file.
THEOREM NoWriterAfterEnd == Spec => []NoLateWriter
  <1>1. Init => Unwritable /\ NoLateWriter
    BY DEF Init, InitWith, Unwritable, NoLateWriter
  <1> QED
    BY <1>1, NextUnwritable, TypeCorrect, PTL DEF Spec
=============================================================================
