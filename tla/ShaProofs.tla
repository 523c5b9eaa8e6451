------------------------------ MODULE ShaProofs ------------------------------
(***************************************************************************)
(* Proofs about ShaCoprocess, for any threads and any number of calls.     *)
(***************************************************************************)
EXTENDS ShaCoprocess, FiniteSetTheorems, TLAPS

-----------------------------------------------------------------------------
(* The inductive invariant.                                                *)

Ends == Hashes \X {"out", "in"} \X {"R", "W"}

TypeOK ==
    /\ pc \in [Threads -> Pcs]
    /\ call \in [Threads -> 1..(Calls + 1)]
    /\ \A t \in Threads : pc[t] # "idle" => call[t] <= Calls
    /\ child \in [Hashes -> {"none", "reaped"} \cup Unreaped]
    /\ open \in [{Server} \cup Hashes -> SUBSET Ends]
    /\ input \subseteq Hashes
    /\ output \in [Hashes -> {"none", "own", "empty"}]
    /\ result \in [Threads -> {"none", "own", "empty"}]

\* The ends that a thread's call holds open in the server.
OwnEnds(t) ==
    LET when(pcs, end) == IF pc[t] \in pcs THEN {end} ELSE {}
    IN  when({"pipe2", "fork"} \cup (Forked \ {"wait"}), OutR(Hash(t)))
        \cup when({"pipe2", "fork", "closeOutW"}, OutW(Hash(t)))
        \cup when({"fork", "closeOutW", "closeInR"}, InR(Hash(t)))
        \cup when({"fork", "closeOutW", "closeInR", "write", "closeInW"}, InW(Hash(t)))

\* The server holds those and no other.
ServerEnds ==
    \A end : end \in open[Server] <=> \E t \in Threads : end \in OwnEnds(t)

\* The k-th call of a thread has not forked yet; has written its input.
NotForked(t, k) == k > call[t] \/ (k = call[t] /\ pc[t] \notin Forked)
Fed(t, k) ==
    \/ k < call[t]
    \/ k = call[t] /\ pc[t] \in {"closeInW", "read", "closeOutR", "wait"}

\* A call's child is forked once and holds the write end of its output until it
\* has written; what it writes is the hash of its whole input.
ChildAt(t, k) ==
    LET h == <<t, k>> IN
    /\ child[h] = "none" <=> NotForked(t, k)
    /\ Fed(t, k) => h \in input
    /\ output[h] = IF child[h] \in {"none", "setup", "sha"} THEN "none" ELSE "own"
    /\ child[h] \in {"setup", "sha", "written"} => OutW(h) \in open[h]

ChildInv == \A t \in Threads, k \in 1..Calls : ChildAt(t, k)

\* Ends are held by children that run, and none keeps its own input open.
HolderInv ==
    \A h \in Hashes :
        /\ child[h] \notin {"setup", "sha", "written"} => open[h] = {}
        /\ child[h] # "setup" => InW(h) \notin open[h]

IInv ==
    TypeOK /\ ServerEnds /\ ChildInv /\ HolderInv /\ ResultIsOwn /\ ChildrenAccounted

-----------------------------------------------------------------------------
\* A thread that is in a call has a hash of its own.
LEMMA Calling ==
    ASSUME TypeOK, NEW t \in Threads, pc[t] # "idle"
    PROVE  Hash(t) \in Hashes /\ call[t] \in 1..Calls /\ Hash(t) = <<t, call[t]>>
BY ShaAssumption DEF TypeOK, Hashes, Hash

\* Ends of different calls, and different ends of one, are different.
LEMMA Distinct ==
    /\ \A t \in Threads : \A end : end \in OwnEnds(t) => end[1] = Hash(t)
    /\ \A s, t \in Threads : s # t => Hash(s) # Hash(t)
    /\ \A h \in Hashes : {OutR(h), OutW(h), InR(h), InW(h)} \subseteq Ends
    /\ \A g, h \in Hashes : OutW(h) # OutR(g) /\ OutW(h) # InW(g)
    /\ \A g, h \in Hashes : g # h => InW(h) # InW(g)
    /\ \A h \in Hashes : h # Server
<1>1. \A t \in Threads : \A end : end \in OwnEnds(t) => end[1] = Hash(t)
  BY DEF OwnEnds, OutR, OutW, InR, InW
<1>2. QED BY <1>1, ShaAssumption DEF Hash, Ends, Hashes, OutR, OutW, InR, InW

\* The names of a thread's places.
LEMMA Places == "idle" \notin Forked /\ Forked \subseteq Pcs /\ "none" \notin Unreaped
BY DEF Forked, Pcs, Unreaped

-----------------------------------------------------------------------------
\* Nothing is open, forked or read at first.
LEMMA Initial == Init => IInv
<1> SUFFICES ASSUME Init PROVE IInv
  OBVIOUS
<1>1. TypeOK
  BY ShaAssumption DEF Init, TypeOK, Pcs, Ends
<1>2. ServerEnds
  BY DEF Init, ServerEnds, OwnEnds, Forked
<1>3. ChildInv
  BY ShaAssumption, Places DEF Init, ChildInv, ChildAt, NotForked, Fed, Hashes, Unreaped, Forked
<1>4. HolderInv
  BY DEF Init, HolderInv
<1>5. ResultIsOwn
  BY DEF Init, ResultIsOwn
<1>6. ChildrenAccounted
  <2>1. Children = {}
    BY Places DEF Init, Children
  <2>2. {t \in Threads : pc[t] \in Forked} = {}
    BY Places DEF Init
  <2>3. QED BY <2>1, <2>2 DEF ChildrenAccounted
<1>7. QED BY <1>1, <1>2, <1>3, <1>4, <1>5, <1>6 DEF IInv

-----------------------------------------------------------------------------
(* Types.                                                                  *)

\* A thread's step keeps the types.
LEMMA ThreadTypes == ASSUME TypeOK, NEW t \in Threads, ThreadStep(t) PROVE TypeOK'
<1> USE DEF Goto, CloseInServer
<1>0. call[t] \in 1..(Calls + 1) /\ call[t] \in Nat /\ Calls \in Nat
  BY ShaAssumption DEF TypeOK
<1>1. CASE PipeOut(t)
  <2>1. call[t] \in 1..Calls /\ Hash(t) \in Hashes
    BY <1>0, <1>1 DEF PipeOut, Hash, Hashes
  <2>2. QED BY <1>1, <2>1, Distinct DEF PipeOut, TypeOK, Pcs
<1>2. CASE PipeIn(t)
  <2>1. Hash(t) \in Hashes
    BY <1>2, Calling DEF PipeIn
  <2>2. QED BY <1>2, <2>1, Distinct DEF PipeIn, TypeOK, Pcs
<1>3. CASE Fork(t)
  BY <1>3 DEF Fork, TypeOK, Pcs, Unreaped
<1>4. CASE CloseOutW(t) \/ CloseInR(t) \/ CloseInW(t) \/ CloseOutR(t)
  BY <1>4 DEF CloseOutW, CloseInR, CloseInW, CloseOutR, TypeOK, Pcs
<1>5. CASE WriteInput(t)
  <2>1. Hash(t) \in Hashes
    BY <1>5, Calling DEF WriteInput
  <2>2. QED BY <1>5, <2>1 DEF WriteInput, TypeOK, Pcs
<1>6. CASE ReadHash(t)
  <2>1. Hash(t) \in Hashes
    BY <1>6, Calling DEF ReadHash
  <2>2. QED BY <1>6, <2>1 DEF ReadHash, TypeOK, Pcs
<1>7. CASE Wait(t)
  <2>1. call[t] \in 1..Calls
    BY <1>7, Calling DEF Wait
  <2>2. call[t] + 1 \in 1..(Calls + 1)
    BY <1>0, <2>1
  <2>3. child' \in [Hashes -> {"none", "reaped"} \cup Unreaped]
    BY <1>7 DEF Wait, TypeOK
  <2>4. QED BY <1>7, <2>2, <2>3 DEF Wait, TypeOK, Pcs
<1>8. QED BY <1>1, <1>2, <1>3, <1>4, <1>5, <1>6, <1>7 DEF ThreadStep

\* A child's step keeps the types.
LEMMA ChildTypes == ASSUME TypeOK, NEW h \in Hashes, ChildStep(h) PROVE TypeOK'
<1>1. CASE ChildExec(h)
  BY <1>1 DEF ChildExec, TypeOK, Unreaped
<1>2. CASE ShaWrite(h)
  BY <1>2 DEF ShaWrite, TypeOK, Unreaped
<1>3. CASE ShaExit(h)
  BY <1>3 DEF ShaExit, TypeOK, Unreaped
<1>4. QED BY <1>1, <1>2, <1>3 DEF ChildStep

-----------------------------------------------------------------------------
(* The server's descriptors.                                               *)

\* A thread opens and closes ends of its own call, and no other thread's.
LEMMA EndsMove ==
    ASSUME ServerEnds, NEW t \in Threads,
           \A s \in Threads \ {t} : pc'[s] = pc[s] /\ call'[s] = call[s],
           open'[Server] = (open[Server] \ OwnEnds(t)) \cup OwnEnds(t)'
    PROVE  ServerEnds'
<1>1. \A s \in Threads \ {t} : OwnEnds(s)' = OwnEnds(s)
  BY DEF OwnEnds, Hash
<1>2. \A s \in Threads \ {t} : \A end : end \in OwnEnds(s) => end \notin OwnEnds(t)
  BY Distinct
<1>3. QED BY <1>1, <1>2 DEF ServerEnds

\* The ends of a thread, place by place.
LEMMA EndsAt ==
    ASSUME NEW t \in Threads
    PROVE  /\ pc[t] \in {"idle", "wait"} => OwnEnds(t) = {}
           /\ pc[t] = "pipe2" => OwnEnds(t) = {OutR(Hash(t)), OutW(Hash(t))}
           /\ pc[t] \in {"fork", "closeOutW"} =>
                OwnEnds(t) = {OutR(Hash(t)), OutW(Hash(t)), InR(Hash(t)), InW(Hash(t))}
           /\ pc[t] = "closeInR" => OwnEnds(t) = {OutR(Hash(t)), InR(Hash(t)), InW(Hash(t))}
           /\ pc[t] \in {"write", "closeInW"} => OwnEnds(t) = {OutR(Hash(t)), InW(Hash(t))}
           /\ pc[t] \in {"read", "closeOutR"} => OwnEnds(t) = {OutR(Hash(t))}
BY DEF OwnEnds, Forked

\* A thread's step moves its own ends.
LEMMA ThreadEnds ==
    ASSUME TypeOK, ServerEnds, NEW t \in Threads, ThreadStep(t)
    PROVE  ServerEnds'
<1> USE DEF Goto, CloseInServer
<1>0. /\ pc \in [Threads -> Pcs] /\ call \in [Threads -> 1..(Calls + 1)]
      /\ Server \in DOMAIN open /\ (pc[t] # "idle" => Hash(t) # Server)
      /\ OwnEnds(t) \subseteq open[Server]
  BY Calling, Distinct DEF TypeOK, ServerEnds
<1>a. (OutR(Hash(t)) # OutW(Hash(t))) /\ (OutR(Hash(t)) # InR(Hash(t)))
      /\ (OutR(Hash(t)) # InW(Hash(t))) /\ (OutW(Hash(t)) # InR(Hash(t)))
      /\ (OutW(Hash(t)) # InW(Hash(t))) /\ (InR(Hash(t)) # InW(Hash(t)))
  BY DEF OutR, OutW, InR, InW
<1>b. \A s \in Threads \ {t} : pc'[s] = pc[s] /\ call'[s] = call[s]
  BY <1>0 DEF ThreadStep, PipeOut, PipeIn, Fork, CloseOutW, CloseInR, WriteInput, CloseInW,
              ReadHash, CloseOutR, Wait
<1>c. /\ pc'[t] \in {"idle", "wait"} => OwnEnds(t)' = {}
      /\ Hash(t)' = Hash(t) =>
           /\ pc'[t] = "pipe2" => OwnEnds(t)' = {OutR(Hash(t)), OutW(Hash(t))}
           /\ pc'[t] \in {"fork", "closeOutW"} =>
                OwnEnds(t)' = {OutR(Hash(t)), OutW(Hash(t)), InR(Hash(t)), InW(Hash(t))}
           /\ pc'[t] = "closeInR" => OwnEnds(t)' = {OutR(Hash(t)), InR(Hash(t)), InW(Hash(t))}
           /\ pc'[t] \in {"write", "closeInW"} => OwnEnds(t)' = {OutR(Hash(t)), InW(Hash(t))}
           /\ pc'[t] \in {"read", "closeOutR"} => OwnEnds(t)' = {OutR(Hash(t))}
  BY DEF OwnEnds, Forked
<1>d. UNCHANGED call => Hash(t)' = Hash(t)
  BY DEF Hash
<1>1. CASE PipeOut(t)
  BY <1>1, <1>0, <1>b, <1>c, <1>d, EndsAt, EndsMove DEF PipeOut
<1>2. CASE PipeIn(t)
  BY <1>2, <1>0, <1>b, <1>c, <1>d, EndsAt, EndsMove DEF PipeIn
<1>3. CASE Fork(t)
  <2>1. open'[Server] = open[Server]
    BY <1>3, <1>0 DEF Fork
  <2>2. QED BY <1>3, <2>1, <1>0, <1>b, <1>c, <1>d, EndsAt, EndsMove DEF Fork
<1>4. CASE CloseOutW(t)
  BY <1>4, <1>0, <1>a, <1>b, <1>c, <1>d, EndsAt, EndsMove DEF CloseOutW
<1>5. CASE CloseInR(t)
  BY <1>5, <1>0, <1>a, <1>b, <1>c, <1>d, EndsAt, EndsMove DEF CloseInR
<1>6. CASE WriteInput(t)
  BY <1>6, <1>0, <1>b, <1>c, <1>d, EndsAt, EndsMove DEF WriteInput
<1>7. CASE CloseInW(t)
  BY <1>7, <1>0, <1>a, <1>b, <1>c, <1>d, EndsAt, EndsMove DEF CloseInW
<1>8. CASE ReadHash(t)
  BY <1>8, <1>0, <1>b, <1>c, <1>d, EndsAt, EndsMove DEF ReadHash
<1>9. CASE CloseOutR(t)
  BY <1>9, <1>0, <1>b, <1>c, <1>d, EndsAt, EndsMove DEF CloseOutR
<1>10. CASE Wait(t)
  BY <1>10, <1>0, <1>b, <1>c, EndsAt, EndsMove DEF Wait
<1>11. QED BY <1>1, <1>2, <1>3, <1>4, <1>5, <1>6, <1>7, <1>8, <1>9, <1>10 DEF ThreadStep

\* A child has its own copies of the descriptors.
LEMMA ChildEnds ==
    ASSUME TypeOK, ServerEnds, NEW h \in Hashes, ChildStep(h) PROVE ServerEnds'
<1>1. open'[Server] = open[Server] /\ UNCHANGED <<pc, call>>
  BY Distinct DEF ChildStep, ChildExec, ShaWrite, ShaExit, TypeOK
<1>2. \A t \in Threads : OwnEnds(t)' = OwnEnds(t)
  BY <1>1 DEF OwnEnds, Hash
<1>3. QED BY <1>1, <1>2 DEF ServerEnds

-----------------------------------------------------------------------------
(* The children and their outputs.                                         *)

\* A step that leaves a child, its input and its output alone, and its thread
\* on the same side of the fork and of the write, keeps what is known of it.
LEMMA ChildSame ==
    ASSUME NEW t, NEW k, ChildAt(t, k),
           child'[<<t, k>>] = child[<<t, k>>], output'[<<t, k>>] = output[<<t, k>>],
           OutW(<<t, k>>) \in open[<<t, k>>] => OutW(<<t, k>>) \in open'[<<t, k>>],
           input \subseteq input',
           NotForked(t, k)' <=> NotForked(t, k),
           Fed(t, k)' => Fed(t, k)
    PROVE  ChildAt(t, k)'
BY DEF ChildAt, NotForked, Fed, OutW

\* A call's pair is a hash, and another thread's is another.
LEMMA Pairs ==
    ASSUME TypeOK
    PROVE  /\ \A t \in Threads, k \in 1..Calls : <<t, k>> \in Hashes /\ k \in Nat
           /\ \A t \in Threads : call[t] \in Nat /\ call[t] + 1 > call[t]
           /\ \A h \in Hashes : /\ h[1] \in Threads /\ h[2] \in 1..Calls
                                /\ h = <<h[1], h[2]>>
BY ShaAssumption DEF TypeOK, Hashes

\* A thread's step keeps it: the fork makes the call's child, which inherits the
\* write end of its output from the server, and a write is of the whole input.
LEMMA ThreadChildren ==
    ASSUME TypeOK, ServerEnds, ChildInv, NEW t \in Threads, ThreadStep(t)
    PROVE  ChildInv'
<1> SUFFICES ASSUME NEW s \in Threads, NEW k \in 1..Calls PROVE ChildAt(s, k)'
  BY DEF ChildInv
<1> USE DEF Goto, CloseInServer
<1>0. /\ ChildAt(s, k) /\ <<s, k>> \in Hashes /\ <<s, k>> # Server
      /\ k \in Nat /\ call[s] \in Nat /\ call[t] \in Nat
  BY Pairs, Distinct DEF ChildInv
<1>1. CASE PipeOut(t) \/ PipeIn(t)
  BY <1>0, <1>1, ChildSame DEF PipeOut, PipeIn, TypeOK, Forked, NotForked, Fed
<1>2. CASE Fork(t)
  <2>1. Hash(t) = <<t, call[t]>> /\ Hash(t) \in Hashes /\ OutW(Hash(t)) \in open[Server]
    BY <1>2, Calling, EndsAt DEF Fork, ServerEnds
  <2>2. CASE <<s, k>> = Hash(t)
    <3>1. s = t /\ k = call[t]
      BY <2>1, <2>2
    <3>2. /\ child[<<s, k>>] = "none" /\ output[<<s, k>>] = "none"
      BY <1>0, <1>2, <3>1 DEF Fork, ChildAt, NotForked, Fed, Forked
    <3>3. /\ child'[<<s, k>>] = "setup" /\ output'[<<s, k>>] = "none"
          /\ OutW(<<s, k>>) \in open'[<<s, k>>]
          /\ pc'[t] = "closeOutW" /\ call' = call
      BY <1>0, <1>2, <2>1, <2>2, <3>2 DEF Fork, TypeOK
    <3>4. QED BY <1>0, <3>1, <3>3 DEF ChildAt, NotForked, Fed, Forked, OutW
  <2>3. CASE <<s, k>> # Hash(t)
    <3>1. s # t \/ k # call[t]
      BY <2>1, <2>3
    <3>2. QED BY <1>0, <1>2, <2>3, <3>1, ChildSame DEF Fork, TypeOK, Forked, NotForked, Fed
  <2>4. QED BY <2>2, <2>3
<1>3. CASE CloseOutW(t) \/ CloseInR(t) \/ CloseInW(t) \/ ReadHash(t) \/ CloseOutR(t)
  BY <1>0, <1>3, ChildSame
     DEF CloseOutW, CloseInR, CloseInW, ReadHash, CloseOutR, TypeOK, Forked, NotForked, Fed
<1>4. CASE WriteInput(t)
  <2>1. CASE s = t /\ k = call[t]
    <3>1. <<s, k>> \in input'
      BY <1>4, <2>1 DEF WriteInput, Hash
    <3>2. QED BY <1>0, <1>4, <2>1, <3>1
              DEF WriteInput, TypeOK, ChildAt, NotForked, Fed, Forked, OutW
  <2>2. CASE s # t \/ k # call[t]
    BY <1>0, <1>4, <2>2, ChildSame DEF WriteInput, TypeOK, Forked, NotForked, Fed
  <2>3. QED BY <2>1, <2>2
<1>5. CASE Wait(t)
  <2>1. /\ child'[<<s, k>>] \in {child[<<s, k>>], "reaped"}
        /\ child'[<<s, k>>] # child[<<s, k>>] => child[<<s, k>>] = "zombie"
    BY <1>0, <1>5 DEF Wait, TypeOK
  <2>2. s = t => call'[s] = call[s] + 1 /\ pc[s] = "wait" /\ pc'[s] = "idle"
    BY <1>5 DEF Wait, TypeOK
  <2>3. s # t => call'[s] = call[s] /\ pc'[s] = pc[s]
    BY <1>5 DEF Wait, TypeOK
  <2>4. NotForked(s, k)' <=> NotForked(s, k)
    BY <1>0, <2>2, <2>3 DEF Forked, NotForked
  <2>5. Fed(s, k)' => Fed(s, k)
    BY <1>0, <2>2, <2>3 DEF Fed
  <2>6. UNCHANGED <<open, input, output>>
    BY <1>5 DEF Wait
  <2>7. QED BY <1>0, <2>1, <2>4, <2>5, <2>6 DEF ChildAt, NotForked, Fed, OutW
<1>6. QED BY <1>1, <1>2, <1>3, <1>4, <1>5 DEF ThreadStep

\* sha256sum answers once the server has closed the input, which it does after
\* it has written all of it.
LEMMA InputWhole ==
    ASSUME TypeOK, ServerEnds, ChildInv, NEW h \in Hashes, child[h] = "sha", Closed(InW(h))
    PROVE  h \in input
<1>1. PICK t \in Threads, k \in 1..Calls : h = <<t, k>>
  BY Pairs
<1>2. ChildAt(t, k) /\ k \in Nat /\ call[t] \in Nat
  BY Pairs DEF ChildInv
<1>3. k = call[t] => pc[t] \notin {"fork", "closeOutW", "closeInR", "write", "closeInW"}
  BY <1>1, EndsAt DEF ServerEnds, Closed, Hash
<1>4. QED BY <1>1, <1>2, <1>3 DEF ChildAt, NotForked, Fed, Forked

\* A child's step keeps it.
LEMMA ChildChildren ==
    ASSUME TypeOK, ServerEnds, ChildInv, NEW h \in Hashes, ChildStep(h)
    PROVE  ChildInv'
<1> SUFFICES ASSUME NEW s \in Threads, NEW k \in 1..Calls PROVE ChildAt(s, k)'
  BY DEF ChildInv
<1>0. ChildAt(s, k) /\ <<s, k>> \in Hashes /\ UNCHANGED <<pc, call, input>>
  BY Pairs DEF ChildInv, ChildStep, ChildExec, ShaWrite, ShaExit
<1>1. CASE <<s, k>> # h
  BY <1>0, <1>1, ChildSame
     DEF ChildStep, ChildExec, ShaWrite, ShaExit, TypeOK, NotForked, Fed
<1>2. CASE <<s, k>> = h
  <2>1. CASE ChildExec(h)
    <3>1. OutW(h) \notin {OutR(h), InW(h)}
      BY Distinct
    <3>2. child'[h] = "sha" /\ child[h] = "setup" /\ output' = output
          /\ open'[h] = open[h] \ {OutR(h), InW(h)}
      BY <2>1 DEF ChildExec, TypeOK
    <3>3. QED BY <1>0, <1>2, <3>1, <3>2 DEF ChildAt, NotForked, Fed, OutW
  <2>2. CASE ShaWrite(h)
    <3>1. child'[h] = "written" /\ child[h] = "sha" /\ output'[h] = "own" /\ open' = open
      BY <2>2, InputWhole DEF ShaWrite, TypeOK
    <3>2. QED BY <1>0, <1>2, <3>1 DEF ChildAt, NotForked, Fed, OutW
  <2>3. CASE ShaExit(h)
    <3>1. child'[h] = "zombie" /\ child[h] = "written" /\ output' = output
      BY <2>3 DEF ShaExit, TypeOK
    <3>2. QED BY <1>0, <1>2, <3>1 DEF ChildAt, NotForked, Fed, OutW
  <2>4. QED BY <2>1, <2>2, <2>3 DEF ChildStep
<1>3. QED BY <1>1, <1>2

-----------------------------------------------------------------------------
(* Who holds an end.                                                       *)

\* A thread's step changes what children hold by its fork alone.
LEMMA ThreadHolders ==
    ASSUME TypeOK, ServerEnds, ChildInv, HolderInv, NEW t \in Threads, ThreadStep(t)
    PROVE  HolderInv'
<1> SUFFICES ASSUME NEW h \in Hashes
             PROVE  /\ child'[h] \notin {"setup", "sha", "written"} => open'[h] = {}
                    /\ child'[h] # "setup" => InW(h)' \notin open'[h]
  BY DEF HolderInv
<1>0. h # Server /\ InW(h)' = InW(h)
  BY Distinct DEF InW
<1>1. CASE Fork(t)
  <2>1. Hash(t) \in Hashes
    BY <1>1, Calling DEF Fork
  <2>2. QED BY <1>0, <1>1, <2>1 DEF Fork, TypeOK, HolderInv
<1>2. CASE Wait(t)
  <2>1. child'[h] \in {child[h], "reaped"} /\ open' = open
        /\ (child'[h] # child[h] => child[h] = "zombie")
    BY <1>2 DEF Wait, TypeOK
  <2>2. QED BY <1>0, <2>1 DEF HolderInv
<1>3. CASE ~Fork(t) /\ ~Wait(t)
  <2>1. child' = child /\ open'[h] = open[h]
    BY <1>0, <1>3 DEF ThreadStep, PipeOut, PipeIn, CloseOutW, CloseInR, WriteInput, CloseInW,
                      ReadHash, CloseOutR, CloseInServer, TypeOK
  <2>2. QED BY <1>0, <2>1 DEF HolderInv
<1>4. QED BY <1>1, <1>2, <1>3

\* A child's step changes its own.
LEMMA ChildHolders ==
    ASSUME TypeOK, HolderInv, NEW g \in Hashes, ChildStep(g) PROVE HolderInv'
<1> SUFFICES ASSUME NEW h \in Hashes
             PROVE  /\ child'[h] \notin {"setup", "sha", "written"} => open'[h] = {}
                    /\ child'[h] # "setup" => InW(h)' \notin open'[h]
  BY DEF HolderInv
<1>0. InW(h)' = InW(h)
  BY DEF InW
<1>1. CASE h # g
  BY <1>0, <1>1 DEF ChildStep, ChildExec, ShaWrite, ShaExit, TypeOK, HolderInv
<1>2. CASE h = g
  BY <1>0, <1>2 DEF ChildStep, ChildExec, ShaWrite, ShaExit, TypeOK, HolderInv
<1>3. QED BY <1>1, <1>2

-----------------------------------------------------------------------------
(* Results.                                                                *)

\* A read returns what the call's own child wrote: as long as the child has not
\* written, it holds the write end, and the read cannot see the end of file.
LEMMA ThreadResults ==
    ASSUME TypeOK, ChildInv, ResultIsOwn, NEW t \in Threads, ThreadStep(t)
    PROVE  ResultIsOwn'
<1> USE DEF Goto
<1>1. CASE ReadHash(t)
  <2>1. Hash(t) \in Hashes /\ call[t] \in 1..Calls /\ Hash(t) = <<t, call[t]>>
    BY <1>1, Calling DEF ReadHash
  <2>2. ChildAt(t, call[t])
    BY <2>1 DEF ChildInv, ChildAt, NotForked, Fed
  <2>3. child[Hash(t)] # "none"
    BY <1>1, <2>1, <2>2, Pairs DEF ChildAt, NotForked, Fed, ReadHash, Forked
  <2>4. child[Hash(t)] \notin {"setup", "sha"}
    BY <1>1, <2>1, <2>2 DEF ChildAt, NotForked, Fed, ReadHash, Closed
  <2>5. output[Hash(t)] = "own"
    BY <2>1, <2>2, <2>3, <2>4 DEF ChildAt, NotForked, Fed
  <2>6. QED BY <1>1, <2>5 DEF ReadHash, ResultIsOwn, TypeOK
<1>2. CASE PipeOut(t) \/ PipeIn(t) \/ Fork(t) \/ CloseOutW(t) \/ CloseInR(t)
           \/ WriteInput(t) \/ CloseInW(t) \/ CloseOutR(t) \/ Wait(t)
  BY <1>2 DEF PipeOut, PipeIn, Fork, CloseOutW, CloseInR, WriteInput, CloseInW, CloseOutR,
              Wait, ResultIsOwn, TypeOK
<1>3. QED BY <1>1, <1>2 DEF ThreadStep

\* A child's step changes no result.
LEMMA ChildResults == ASSUME ResultIsOwn, NEW h \in Hashes, ChildStep(h) PROVE ResultIsOwn'
BY DEF ChildStep, ChildExec, ShaWrite, ShaExit, ResultIsOwn

-----------------------------------------------------------------------------
(* Children and waits.                                                     *)

Waiting == {t \in Threads : pc[t] \in Forked}

\* There are finitely many of both.
LEMMA Finite == IsFiniteSet(Children) /\ IsFiniteSet(Waiting)
<1>1. IsFiniteSet(1..Calls)
  BY ShaAssumption, FS_Interval
<1>2. IsFiniteSet(Hashes)
  BY <1>1, ShaAssumption, FS_Product DEF Hashes
<1>3. Children \subseteq Hashes /\ Waiting \subseteq Threads
  BY DEF Children, Waiting
<1>4. QED BY <1>2, <1>3, ShaAssumption, FS_Subset

\* A fork adds a child and a thread that will wait, a wait takes one of each:
\* it always finds a child, because its own thread is counted.
LEMMA ThreadAccounts ==
    ASSUME TypeOK, ChildInv, ChildrenAccounted, NEW t \in Threads, ThreadStep(t)
    PROVE  ChildrenAccounted'
<1> USE DEF Goto
<1>0. Cardinality(Children) = Cardinality(Waiting)
  BY DEF ChildrenAccounted, Waiting
<1> SUFFICES Cardinality(Children') = Cardinality(Waiting')
  BY DEF ChildrenAccounted, Waiting
<1>1. CASE Fork(t)
  <2>1. Hash(t) \in Hashes /\ call[t] \in 1..Calls /\ Hash(t) = <<t, call[t]>>
    BY <1>1, Calling DEF Fork
  <2>2. child[Hash(t)] = "none"
    BY <1>1, <2>1 DEF Fork, ChildInv, ChildAt, NotForked, Forked
  <2>3. Hash(t) \notin Children /\ Children' = Children \cup {Hash(t)}
    BY <1>1, <2>1, <2>2 DEF Fork, Children, Unreaped, TypeOK
  <2>4. t \notin Waiting /\ Waiting' = Waiting \cup {t}
    BY <1>1 DEF Fork, Waiting, Forked, TypeOK
  <2>5. Cardinality(Children') = Cardinality(Children) + 1
    BY <2>3, Finite, FS_AddElement
  <2>6. Cardinality(Waiting') = Cardinality(Waiting) + 1
    BY <2>4, Finite, FS_AddElement
  <2>7. QED BY <1>0, <2>5, <2>6
<1>2. CASE Wait(t)
  <2>1. t \in Waiting /\ Waiting' = Waiting \ {t}
    BY <1>2 DEF Wait, Waiting, Forked, TypeOK
  <2>2. Children # {}
    <3>1. Cardinality(Waiting) # 0
      BY <2>1, Finite, FS_EmptySet
    <3>2. QED BY <1>0, <3>1, FS_EmptySet
  <2>3. PICK h \in Hashes : child[h] = "zombie" /\ child' = [child EXCEPT ![h] = "reaped"]
    BY <1>2, <2>2 DEF Wait
  <2>4. h \in Children /\ Children' = Children \ {h}
    BY <2>3 DEF Children, Unreaped, TypeOK
  <2>5. Cardinality(Children') = Cardinality(Children) - 1
    BY <2>4, Finite, FS_RemoveElement
  <2>6. Cardinality(Waiting') = Cardinality(Waiting) - 1
    BY <2>1, Finite, FS_RemoveElement
  <2>7. QED BY <1>0, <2>5, <2>6
<1>3. CASE PipeOut(t) \/ PipeIn(t) \/ CloseOutW(t) \/ CloseInR(t) \/ WriteInput(t)
           \/ CloseInW(t) \/ ReadHash(t) \/ CloseOutR(t)
  <2>1. Children' = Children
    BY <1>3 DEF PipeOut, PipeIn, CloseOutW, CloseInR, WriteInput, CloseInW, ReadHash, CloseOutR,
                Children
  <2>2. Waiting' = Waiting
    BY <1>3 DEF PipeOut, PipeIn, CloseOutW, CloseInR, WriteInput, CloseInW, ReadHash, CloseOutR,
                Waiting, Forked, TypeOK
  <2>3. QED BY <1>0, <2>1, <2>2
<1>4. QED BY <1>1, <1>2, <1>3 DEF ThreadStep

\* A child stays a child until it is reaped.
LEMMA ChildAccounts ==
    ASSUME TypeOK, ChildrenAccounted, NEW h \in Hashes, ChildStep(h)
    PROVE  ChildrenAccounted'
<1>1. Children' = Children
  BY DEF ChildStep, ChildExec, ShaWrite, ShaExit, Children, Unreaped, TypeOK
<1>2. pc' = pc
  BY DEF ChildStep, ChildExec, ShaWrite, ShaExit
<1>3. QED BY <1>1, <1>2 DEF ChildrenAccounted

-----------------------------------------------------------------------------
\* Every step keeps the invariant.
LEMMA Inductive == IInv /\ [Next]_vars => IInv'
<1> SUFFICES ASSUME IInv, [Next]_vars PROVE IInv'
  OBVIOUS
<1>1. ASSUME NEW t \in Threads, ThreadStep(t) PROVE IInv'
  BY <1>1, ThreadTypes, ThreadEnds, ThreadChildren, ThreadHolders, ThreadResults, ThreadAccounts
     DEF IInv
<1>2. ASSUME NEW h \in Hashes, ChildStep(h) PROVE IInv'
  BY <1>2, ChildTypes, ChildEnds, ChildChildren, ChildHolders, ChildResults, ChildAccounts
     DEF IInv
<1>3. CASE UNCHANGED vars
  <2>1. TypeOK' /\ HolderInv'
    BY <1>3 DEF vars, IInv, TypeOK, HolderInv, InW
  <2>2. ServerEnds'
    BY <1>3 DEF vars, IInv, ServerEnds, OwnEnds, Hash
  <2>3. ChildInv'
    BY <1>3 DEF vars, IInv, ChildInv, ChildAt, NotForked, Fed, OutW
  <2>4. ResultIsOwn' /\ ChildrenAccounted'
    BY <1>3 DEF vars, IInv, ResultIsOwn, ChildrenAccounted, Children
  <2>5. QED BY <2>1, <2>2, <2>3, <2>4 DEF IInv
<1>4. QED BY <1>1, <1>2, <1>3 DEF Next

\* The invariant holds of every state.
LEMMA Invariant == Spec => []IInv
<1>1. QED BY Initial, Inductive, PTL DEF Spec

-----------------------------------------------------------------------------
(* The theorems.                                                           *)

\* A call returns the hash of its own whole input, however many threads hash,
\* fork and reap at the same time.
THEOREM OwnResults == Spec => []ResultIsOwn
<1>1. IInv => ResultIsOwn
  BY DEF IInv
<1>2. QED BY Invariant, <1>1, PTL

\* Children and waits to come balance, so that no wait fails and no child stays
\* a zombie.
THEOREM WaitsMatchChildren == Spec => []ChildrenAccounted
<1>1. IInv => ChildrenAccounted
  BY DEF IInv
<1>2. QED BY Invariant, <1>1, PTL

\* A call leaves none of its descriptors open in the server.
THEOREM DescriptorsClosed == Spec => []NoDescriptorLeft
<1>1. ASSUME IInv PROVE NoDescriptorLeft
  <2> SUFFICES ASSUME NEW t \in Threads, pc[t] \in {"wait", "idle"}, NEW end \in open[Server]
               PROVE  end[1] # Hash(t) /\ end[1] # <<t, call[t] - 1>>
    BY DEF NoDescriptorLeft
  <2>1. PICK s \in Threads : end \in OwnEnds(s)
    BY <1>1 DEF IInv, ServerEnds
  <2>2. end[1] = Hash(s) /\ s # t
    BY <2>1, Distinct, EndsAt
  <2>3. QED BY <2>2 DEF Hash
<1>2. QED BY Invariant, <1>1, PTL

\* The server's calls are at rest, no child can go on, and one has not answered.
Stuck ==
    /\ \A t \in Threads :
          pc[t] \notin {"fork", "closeOutW", "closeInR", "write", "closeInW"}
    /\ \A h \in Hashes : child[h] \notin {"setup", "written"}
    /\ \A h \in Hashes : child[h] = "sha" => ~Closed(InW(h))
    /\ \E h \in Hashes : child[h] = "sha"

\* Children that hold each other's inputs open are the only thing that can stop
\* sha256sum from answering: where no child can go on and no call is about to
\* close an input, there is a circle.
THEOREM StuckInACircle == Spec => [](Stuck => Circle)
<1>1. ASSUME IInv, Stuck PROVE Circle
  <2> DEFINE S == {h \in Hashes : child[h] = "sha"}
  <2>1. S \subseteq Children /\ S # {}
    BY <1>1 DEF Stuck, Children, Unreaped
  <2>2. ASSUME NEW h \in S PROVE \E g \in S \ {h} : InW(h) \in open[g]
    <3>1. InW(h) \notin open[Server]
      <4>1. ASSUME NEW t \in Threads PROVE InW(h) \notin OwnEnds(t)
        <5>1. pc[t] \notin {"fork", "closeOutW", "closeInR", "write", "closeInW"}
          BY <1>1 DEF Stuck
        <5>2. QED BY <5>1 DEF OwnEnds, OutR, OutW, InR, InW, Forked
      <4>2. QED BY <1>1, <4>1 DEF IInv, ServerEnds
    <3>2. PICK g \in Hashes : InW(h) \in open[g]
      BY <1>1, <3>1 DEF Stuck, Closed
    <3>3. child[g] = "sha"
      BY <1>1, <3>2 DEF IInv, HolderInv, Stuck
    <3>4. g # h
      BY <1>1, <3>2, <3>3 DEF IInv, HolderInv
    <3>5. QED BY <3>2, <3>3, <3>4
  <2>3. QED BY <2>1, <2>2 DEF Circle
<1>2. QED BY Invariant, <1>1, PTL
=============================================================================
