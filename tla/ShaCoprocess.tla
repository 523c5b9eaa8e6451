---------------------------- MODULE ShaCoprocess ----------------------------
(***************************************************************************)
(* generateSHA256sum (server_util.c) called by several office threads at   *)
(* once.  Each call makes two pipes, forks a child that becomes sha256sum, *)
(* writes its input, reads the hash and waits for a child.  A fork copies  *)
(* every descriptor of the server, those of other threads' pipes too, and  *)
(* wait(NULL) takes any child.                                             *)
(*                                                                         *)
(* The system calls succeed here, and exec finds sha256sum.                *)
(***************************************************************************)
EXTENDS Integers, FiniteSets

CONSTANTS Threads,   \* the threads that hash
          Calls,     \* hashes each thread computes: a creation takes two
          Server     \* the server process

ASSUME ShaAssumption ==
    IsFiniteSet(Threads) /\ Calls \in Nat /\ Server \notin Threads \X (1..Calls)

VARIABLES
    pc,       \* where each thread is
    call,     \* which of its calls each thread is in
    child,    \* what has become of each call's child
    open,     \* the pipe ends each process holds, the server's and the children's
    input,    \* calls whose input is in their pipe
    output,   \* what sha256sum wrote for each call
    result    \* what each thread has read in its call

vars == <<pc, call, child, open, input, output, result>>

Hashes == Threads \X (1..Calls)
Hash(t) == <<t, call[t]>>
\* The ends of a call's two pipes: fd1, for its output, and fd2, for its input.
OutR(h) == <<h, "out", "R">>
OutW(h) == <<h, "out", "W">>
InR(h)  == <<h, "in", "R">>
InW(h)  == <<h, "in", "W">>

Pcs == {"idle", "pipe2", "fork", "closeOutW", "closeInR", "write", "closeInW",
        "read", "closeOutR", "wait"}
\* A thread whose child has been forked and is not yet waited for.
Forked == {"closeOutW", "closeInR", "write", "closeInW", "read", "closeOutR", "wait"}
\* A child that the server has not reaped.
Unreaped == {"setup", "sha", "written", "zombie"}
Children == {h \in Hashes : child[h] \in Unreaped}

\* No process holds the end.
Closed(end) == \A p \in {Server} \cup Hashes : end \notin open[p]
CloseInServer(end) == open' = [open EXCEPT ![Server] = @ \ {end}]
Goto(t, where) == pc' = [pc EXCEPT ![t] = where]

-----------------------------------------------------------------------------
(* Plausible bugs: mutated forms of definitions below, no part of the      *)
(* specification.                                                          *)

\* The parent keeps the write end of its child's input.
CloseInWMissing(t) ==
    /\ pc[t] = "closeInW"
    /\ Goto(t, "read")
    /\ UNCHANGED <<call, child, open, input, output, result>>

\* The parent does not write the input.
WriteInputMissing(t) ==
    /\ pc[t] = "write"
    /\ Goto(t, "closeInW")
    /\ UNCHANGED <<call, child, open, input, output, result>>

\* The read end of the child's output is never closed.
CloseOutRMissing(t) ==
    /\ pc[t] = "closeOutR"
    /\ Goto(t, "wait")
    /\ UNCHANGED <<call, child, open, input, output, result>>

\* The parent does not wait.
WaitMissing(t) ==
    /\ pc[t] = "wait"
    /\ Goto(t, "idle")
    /\ call' = [call EXCEPT ![t] = @ + 1]
    /\ UNCHANGED <<child, open, input, output, result>>

-----------------------------------------------------------------------------
Init ==
    /\ pc = [t \in Threads |-> "idle"]
    /\ call = [t \in Threads |-> 1]
    /\ child = [h \in Hashes |-> "none"]
    /\ open = [p \in {Server} \cup Hashes |-> {}]
    /\ input = {}
    /\ output = [h \in Hashes |-> "none"]
    /\ result = [t \in Threads |-> "none"]

\* pipe(fd1).
PipeOut(t) ==
    /\ pc[t] = "idle" /\ call[t] <= Calls
    /\ open' = [open EXCEPT ![Server] = @ \cup {OutR(Hash(t)), OutW(Hash(t))}]
    /\ result' = [result EXCEPT ![t] = "none"]
    /\ Goto(t, "pipe2")
    /\ UNCHANGED <<call, child, input, output>>

\* pipe(fd2).
PipeIn(t) ==
    /\ pc[t] = "pipe2"
    /\ open' = [open EXCEPT ![Server] = @ \cup {InR(Hash(t)), InW(Hash(t))}]
    /\ Goto(t, "fork")
    /\ UNCHANGED <<call, child, input, output, result>>

\* fork: the child holds whatever the server holds at this moment.
Fork(t) ==
    /\ pc[t] = "fork"
    /\ open' = [open EXCEPT ![Hash(t)] = open[Server]]
    /\ child' = [child EXCEPT ![Hash(t)] = "setup"]
    /\ Goto(t, "closeOutW")
    /\ UNCHANGED <<call, input, output, result>>

CloseOutW(t) ==
    /\ pc[t] = "closeOutW"
    /\ CloseInServer(OutW(Hash(t)))
    /\ Goto(t, "closeInR")
    /\ UNCHANGED <<call, child, input, output, result>>

CloseInR(t) ==
    /\ pc[t] = "closeInR"
    /\ CloseInServer(InR(Hash(t)))
    /\ Goto(t, "write")
    /\ UNCHANGED <<call, child, input, output, result>>

\* The input is short of the pipe's capacity: the write does not wait.
WriteInput(t) ==
    /\ pc[t] = "write"
    /\ input' = input \cup {Hash(t)}
    /\ Goto(t, "closeInW")
    /\ UNCHANGED <<call, child, open, output, result>>

CloseInW(t) ==
    /\ pc[t] = "closeInW"
    /\ CloseInServer(InW(Hash(t)))
    /\ Goto(t, "read")
    /\ UNCHANGED <<call, child, input, output, result>>

\* The read returns what the child wrote, or nothing once no process can write.
ReadHash(t) ==
    /\ pc[t] = "read"
    /\ output[Hash(t)] # "none" \/ Closed(OutW(Hash(t)))
    /\ result' = [result EXCEPT ![t] = output[Hash(t)]]
    /\ Goto(t, "closeOutR")
    /\ UNCHANGED <<call, child, open, input, output>>

CloseOutR(t) ==
    /\ pc[t] = "closeOutR"
    /\ CloseInServer(OutR(Hash(t)))
    /\ Goto(t, "wait")
    /\ UNCHANGED <<call, child, input, output, result>>

\* wait(NULL): some child that has ended, whoever forked it; it fails at once
\* when there is no child.
Wait(t) ==
    /\ pc[t] = "wait"
    /\ \/ \E h \in Hashes :
             child[h] = "zombie" /\ child' = [child EXCEPT ![h] = "reaped"]
       \/ Children = {} /\ UNCHANGED child
    /\ Goto(t, "idle")
    /\ call' = [call EXCEPT ![t] = @ + 1]
    /\ UNCHANGED <<open, input, output, result>>

ThreadStep(t) ==
    \/ PipeOut(t) \/ PipeIn(t) \/ Fork(t)
    \/ CloseOutW(t) \/ CloseInR(t) \/ WriteInput(t) \/ CloseInW(t)
    \/ ReadHash(t) \/ CloseOutR(t) \/ Wait(t)

-----------------------------------------------------------------------------
\* The child closes the two ends that its parent keeps, puts the other two on
\* its standard files, and execs with all that it inherited.
ChildExec(h) ==
    /\ child[h] = "setup"
    /\ open' = [open EXCEPT ![h] = @ \ {OutR(h), InW(h)}]
    /\ child' = [child EXCEPT ![h] = "sha"]
    /\ UNCHANGED <<pc, call, input, output, result>>

\* sha256sum answers at the end of its input: no process could write more.
ShaWrite(h) ==
    /\ child[h] = "sha" /\ Closed(InW(h))
    /\ output' = [output EXCEPT ![h] = IF h \in input THEN "own" ELSE "empty"]
    /\ child' = [child EXCEPT ![h] = "written"]
    /\ UNCHANGED <<pc, call, open, input, result>>

ShaExit(h) ==
    /\ child[h] = "written"
    /\ child' = [child EXCEPT ![h] = "zombie"]
    /\ open' = [open EXCEPT ![h] = {}]
    /\ UNCHANGED <<pc, call, input, output, result>>

ChildStep(h) == ChildExec(h) \/ ShaWrite(h) \/ ShaExit(h)

Next == (\E t \in Threads : ThreadStep(t)) \/ \E h \in Hashes : ChildStep(h)

Spec == Init /\ [][Next]_vars
\* Every thread and every child process is scheduled.
FairSpec ==
    /\ Spec
    /\ \A t \in Threads : WF_vars(ThreadStep(t))
    /\ \A h \in Hashes : WF_vars(ChildStep(h))

-----------------------------------------------------------------------------
(* Invariants.                                                             *)

\* The hash a call returns is that of its own whole input, whatever other
\* threads fork and reap in the meantime.
ResultIsOwn == \A t \in Threads : pc[t] \in {"closeOutR", "wait"} => result[t] = "own"

\* Any thread may reap any child, and still there is one child for each thread
\* that has yet to wait: no wait fails, and no child is left for ever.
ChildrenAccounted ==
    Cardinality(Children) = Cardinality({t \in Threads : pc[t] \in Forked})

\* A call leaves none of its descriptors open in the server.
NoDescriptorLeft ==
    \A t \in Threads : pc[t] \in {"wait", "idle"} =>
        \A end \in open[Server] : end[1] # Hash(t) /\ end[1] # <<t, call[t] - 1>>

-----------------------------------------------------------------------------
(* Liveness.                                                               *)

\* Children that hold the write ends of one another's inputs.
Circle ==
    \E S \in SUBSET Children \ {{}} :
        \A h \in S : child[h] = "sha" /\ \E g \in S \ {h} : InW(h) \in open[g]

\* A call that has written its input gets its hash, unless children hold each
\* other's inputs open: the inheritance of pipe ends is the only thing that
\* can keep it waiting.
HashEndsUnlessCircle ==
    \A t \in Threads : pc[t] = "read" ~> pc[t] = "closeOutR" \/ Circle

\* generateSHA256sum returns.
HashEnds == \A t \in Threads : pc[t] = "read" ~> pc[t] = "closeOutR"
=============================================================================
