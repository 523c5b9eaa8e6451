----------------------------- MODULE OfficePool -----------------------------
(***************************************************************************)
(* The bank server's main thread, its pool of office threads and the user  *)
(* processes at the two ends of the FIFOs (server_bank_office.c, server.c, *)
(* server_sync.c, and the life of a user process in user_util.c).          *)
(*                                                                         *)
(* The main thread reads requests from the server FIFO and pushes them on  *)
(* the queue (producer); the offices pop and handle them (consumers); the  *)
(* semaphores empty and full and request_queue_mutex synchronise them.  A  *)
(* shutdown request makes the FIFO unwritable and closes the dummy writer, *)
(* so that main sees end-of-file when the last user leaves, posts one      *)
(* token per office and joins the offices.                                 *)
(*                                                                         *)
(* What a request does to the accounts is the subject of BankAccounts: a   *)
(* request is here a user's name, and its handling one step that returns.  *)
(***************************************************************************)
EXTENDS OfficePoolState

\* Main before createBankOffices, with the values given to the semaphores.
InitWith(places, tokens) ==
    /\ mainPc = "spawn" /\ inHand = NoUser /\ posted = 0
    /\ offPc = [o \in Offices |-> "unborn"]
    /\ cur = [o \in Offices |-> NoUser]
    /\ rep = [o \in Offices |-> 0]
    /\ queue = <<>> /\ empty = places /\ full = tokens /\ queue_mutex = Nobody
    /\ active_thread_cnt = 0
    /\ shutdown = FALSE /\ writable = TRUE /\ dummyOpen = FALSE
    /\ dead = "no"
    /\ pipe = <<>>
    /\ userPc = [u \in Users |-> "ready"]
    /\ answer = [u \in Users |-> <<>>]
    /\ finished = {}

-----------------------------------------------------------------------------
(* Plausible bugs: mutated forms of the definitions below, no part of the  *)
(* specification.  Each shows that some property notices the bug.          *)

\* initSyncMechanisms gives the two semaphores each other's value.
InitSwapped == InitWith(0, N)

\* Main takes the closing of the dummy for end-of-file, with users connected.
ReadRequestHasty ==
    /\ mainPc = "read"
    /\ \/ /\ pipe # <<>>
          /\ inHand' = Head(pipe)
          /\ pipe' = Tail(pipe)
          /\ mainPc' = "wait"
       \/ /\ pipe = <<>> /\ ~dummyOpen
          /\ mainPc' = "close"
          /\ UNCHANGED <<inHand, pipe>>
    /\ UNCHANGED <<posted, offPc, semVars, dummyOpen>>

\* Main does not wait for a free place.
WaitEmptyUnguarded ==
    /\ mainPc = "wait"
    /\ empty' = empty - 1
    /\ mainPc' = "lock"
    /\ UNCHANGED <<inHand, posted, offPc, queue, full, queue_mutex, dummyOpen, pipe>>

\* queue_push inserts at position 0.
PushFront ==
    /\ mainPc = "push"
    /\ queue' = <<inHand>> \o queue
    /\ inHand' = NoUser
    /\ queue_mutex' = Nobody
    /\ mainPc' = "post"
    /\ UNCHANGED <<posted, offPc, empty, full, dummyOpen, pipe>>

\* Main forgets sem_post(&full).
PostFullMissing ==
    /\ mainPc = "post"
    /\ mainPc' = "read"
    /\ UNCHANGED <<inHand, posted, offPc, semVars, dummyOpen, pipe>>

\* closeOffices posts one token too few.
PostTokenOneLess ==
    /\ mainPc = "tokens"
    /\ full' = full + 1
    /\ posted' = posted + 1
    /\ mainPc' = IF posted + 2 = N THEN "join" ELSE mainPc
    /\ UNCHANGED <<inHand, offPc, queue, empty, queue_mutex, dummyOpen, pipe>>

\* Main returns without pthread_join.
JoinNobody ==
    /\ mainPc = "join"
    /\ mainPc' = "done"
    /\ UNCHANGED <<inHand, posted, offPc, semVars, dummyOpen, pipe>>

\* The office leaves on shutdown, whatever is queued.
CheckFlagOnly(o) ==
    /\ offPc[o] = "check"
    /\ queue_mutex' = Nobody
    /\ Goto(o, IF shutdown THEN "exited" ELSE "count")
    /\ UNCHANGED <<cur, rep, queue, empty, full, outVars>>

\* The pop is not protected by the mutex.
LockToPopUnguarded(o) ==
    /\ offPc[o] = "lock2"
    /\ queue_mutex' = o
    /\ Goto(o, "retrieve")
    /\ UNCHANGED <<cur, rep, queue, empty, full, outVars>>

\* queue_pop retrieves the request and leaves it in the queue.
DeleteMissing(o) ==
    /\ offPc[o] = "delete" /\ queue # <<>>
    /\ queue_mutex' = Nobody
    /\ Goto(o, "slot")
    /\ UNCHANGED <<cur, rep, queue, empty, full, outVars>>

\* The office posts full where it should post empty.
PostEmptyWrong(o) ==
    /\ offPc[o] = "slot"
    /\ full' = full + 1
    /\ Goto(o, "handle")
    /\ UNCHANGED <<cur, rep, queue, empty, queue_mutex, outVars>>

\* The office forgets sem_post(&empty).
PostEmptyMissing(o) ==
    /\ offPc[o] = "slot"
    /\ Goto(o, "handle")
    /\ UNCHANGED <<cur, rep, semVars, outVars>>

\* shutdown_server does not call fchmod.
MakeUnwritableMissing(o) ==
    /\ offPc[o] = "chmod"
    /\ Goto(o, "dummy")
    /\ UNCHANGED <<cur, rep, semVars, outVars>>

\* The office does not count itself out.
CountIdleMissing(o) ==
    /\ offPc[o] = "dec"
    /\ cur' = [cur EXCEPT ![o] = NoUser]
    /\ rep' = [rep EXCEPT ![o] = 0]
    /\ Goto(o, "wait")
    /\ UNCHANGED <<semVars, outVars>>

-----------------------------------------------------------------------------
(* The initial state.                                                      *)

\* initSyncMechanisms: the queue has one place per office, all of them free.
Init == InitWith(N, 0)

-----------------------------------------------------------------------------
(* The main thread.                                                        *)

\* createBankOffices: one pthread_create.
SpawnOffice(o) ==
    /\ mainPc = "spawn" /\ offPc[o] = "unborn"
    /\ offPc' = [offPc EXCEPT ![o] = "wait"]
    /\ mainPc' = IF At({"unborn"}) = {o} THEN "setup" ELSE mainPc
    /\ UNCHANGED <<inHand, posted, semVars, dummyOpen, pipe>>

\* initAccounts, queue_create and mkfifo, while the offices already run.
Setup ==
    /\ mainPc = "setup"
    /\ mainPc' = "open"
    /\ UNCHANGED <<inHand, posted, offPc, semVars, dummyOpen, pipe>>

\* open(O_RDONLY) returns once some user has opened the FIFO for writing.
OpenRequestFifo ==
    /\ mainPc = "open"
    /\ \E u \in Users : userPc[u] \notin {"ready", "down"}
    /\ mainPc' = "dummy"
    /\ UNCHANGED <<inHand, posted, offPc, semVars, dummyOpen, pipe>>

OpenDummy ==
    /\ mainPc = "dummy"
    /\ mainPc' = "read"
    /\ dummyOpen' = TRUE
    /\ UNCHANGED <<inHand, posted, offPc, semVars, pipe>>

\* The three reads of one request, or end-of-file: no data and no writer.
ReadRequest ==
    /\ mainPc = "read"
    /\ \/ /\ pipe # <<>>
          /\ inHand' = Head(pipe)
          /\ pipe' = Tail(pipe)
          /\ mainPc' = "wait"
       \/ /\ pipe = <<>> /\ NoWriter
          /\ mainPc' = "close"
          /\ UNCHANGED <<inHand, pipe>>
    /\ UNCHANGED <<posted, offPc, semVars, dummyOpen>>

WaitEmpty ==
    /\ mainPc = "wait" /\ empty > 0
    /\ empty' = empty - 1
    /\ mainPc' = "lock"
    /\ UNCHANGED <<inHand, posted, offPc, queue, full, queue_mutex, dummyOpen, pipe>>

LockToPush ==
    /\ mainPc = "lock" /\ queue_mutex = Nobody
    /\ queue_mutex' = Main
    /\ mainPc' = "push"
    /\ UNCHANGED <<inHand, posted, offPc, queue, empty, full, dummyOpen, pipe>>

Push ==
    /\ mainPc = "push"
    /\ queue' = Append(queue, inHand)
    /\ inHand' = NoUser
    /\ queue_mutex' = Nobody
    /\ mainPc' = "post"
    /\ UNCHANGED <<posted, offPc, empty, full, dummyOpen, pipe>>

PostFull ==
    /\ mainPc = "post"
    /\ full' = full + 1
    /\ mainPc' = "read"
    /\ UNCHANGED <<inHand, posted, offPc, queue, empty, queue_mutex, dummyOpen, pipe>>

\* closeCommunication: close the read end and unlink the server FIFO.  (The
\* semaphores it destroys keep working: glibc's sem_destroy does nothing.)
CloseCommunication ==
    /\ mainPc = "close"
    /\ mainPc' = "tokens"
    /\ UNCHANGED <<inHand, posted, offPc, semVars, dummyOpen, pipe>>

\* closeOffices, first loop: one token per office.
PostToken ==
    /\ mainPc = "tokens"
    /\ full' = full + 1
    /\ posted' = posted + 1
    /\ mainPc' = IF posted + 1 = N THEN "join" ELSE mainPc
    /\ UNCHANGED <<inHand, offPc, queue, empty, queue_mutex, dummyOpen, pipe>>

\* closeOffices, second loop: every office is joined, and main returns.
JoinOffices ==
    /\ mainPc = "join" /\ At({"exited"}) = Offices
    /\ mainPc' = "done"
    /\ UNCHANGED <<inHand, posted, offPc, semVars, dummyOpen, pipe>>

MainStep ==
    /\ Running
    /\ \/ \E o \in Offices : SpawnOffice(o)
       \/ Setup \/ OpenRequestFifo \/ OpenDummy
       \/ ReadRequest \/ WaitEmpty \/ LockToPush \/ Push \/ PostFull
       \/ CloseCommunication \/ PostToken \/ JoinOffices
    /\ UNCHANGED restVars

-----------------------------------------------------------------------------
(* The offices: bank_office_service_routine.                               *)

WaitFull(o) ==
    /\ offPc[o] = "wait" /\ full > 0
    /\ full' = full - 1
    /\ Goto(o, "lock1")
    /\ UNCHANGED <<cur, rep, queue, empty, queue_mutex, outVars>>

LockToCheck(o) ==
    /\ offPc[o] = "lock1" /\ queue_mutex = Nobody
    /\ queue_mutex' = o
    /\ Goto(o, "check")
    /\ UNCHANGED <<cur, rep, queue, empty, full, outVars>>

\* Leave if the server is shutting down and nothing is queued; the mutex is
\* released either way, and taken again for the pop.
Check(o) ==
    /\ offPc[o] = "check"
    /\ queue_mutex' = Nobody
    /\ Goto(o, IF shutdown /\ queue = <<>> THEN "exited" ELSE "count")
    /\ UNCHANGED <<cur, rep, queue, empty, full, outVars>>

\* active_thread_cnt++, under thread_cnt_mutex.
CountActive(o) ==
    /\ offPc[o] = "count"
    /\ active_thread_cnt' = active_thread_cnt + 1
    /\ Goto(o, "lock2")
    /\ UNCHANGED <<cur, rep, semVars, flagVars, replyVars, dead>>

LockToPop(o) ==
    /\ offPc[o] = "lock2" /\ queue_mutex = Nobody
    /\ queue_mutex' = o
    /\ Goto(o, "retrieve")
    /\ UNCHANGED <<cur, rep, queue, empty, full, outVars>>

\* queue_pop, first half: queue_retreive(list, 0), a dummy if it is empty.
Retrieve(o) ==
    /\ offPc[o] = "retrieve"
    /\ cur' = [cur EXCEPT ![o] = IF queue = <<>> THEN NoUser ELSE Head(queue)]
    /\ Goto(o, "delete")
    /\ UNCHANGED <<rep, semVars, outVars>>

\* queue_pop, second half: queue_delete(list, 0), and the mutex is released.
Delete(o) ==
    /\ offPc[o] = "delete" /\ queue # <<>>
    /\ queue' = Tail(queue)
    /\ queue_mutex' = Nobody
    /\ Goto(o, "slot")
    /\ UNCHANGED <<cur, rep, empty, full, outVars>>

\* queue_delete on an empty queue dereferences header->next == NULL.
DeleteNothing(o) ==
    /\ offPc[o] = "delete" /\ queue = <<>>
    /\ dead' = "segv"
    /\ UNCHANGED <<offVars, semVars, active_thread_cnt, flagVars, replyVars>>

PostEmpty(o) ==
    /\ offPc[o] = "slot"
    /\ empty' = empty + 1
    /\ Goto(o, "handle")
    /\ UNCHANGED <<cur, rep, queue, full, queue_mutex, outVars>>

\* handleRequest up to the reply, for all but an accepted shutdown.  Of the
\* reply only active_offices is kept, which is not set here; which reply this
\* is, answer tells by counting them.
HandleWork(o) ==
    /\ offPc[o] = "handle" /\ cur[o] \notin ShutdownUsers
    /\ rep' = [rep EXCEPT ![o] = 0]
    /\ Goto(o, "reply")
    /\ UNCHANGED <<cur, semVars, outVars>>

\* shutdown_server, in three steps: the flag, the permissions, the dummy.
SetShutdown(o) ==
    /\ offPc[o] = "handle" /\ cur[o] \in ShutdownUsers
    /\ shutdown' = TRUE
    /\ Goto(o, "chmod")
    /\ UNCHANGED <<cur, rep, semVars, active_thread_cnt, writable, dummyOpen, replyVars, dead>>

MakeUnwritable(o) ==
    /\ offPc[o] = "chmod"
    /\ writable' = FALSE
    /\ Goto(o, "dummy")
    /\ UNCHANGED <<cur, rep, semVars, active_thread_cnt, shutdown, dummyOpen, replyVars, dead>>

\* A second shutdown's close fails (EBADF) and changes nothing here.
CloseDummy(o) ==
    /\ offPc[o] = "dummy"
    /\ dummyOpen' = FALSE
    /\ Goto(o, "report")
    /\ UNCHANGED <<cur, rep, semVars, active_thread_cnt, shutdown, writable, replyVars, dead>>

\* getActiveThreadCount() - 1, read without the mutex.
ReportActive(o) ==
    /\ offPc[o] = "report"
    /\ rep' = [rep EXCEPT ![o] = active_thread_cnt - 1]
    /\ Goto(o, "reply")
    /\ UNCHANGED <<cur, semVars, outVars>>

\* sendReply, the open for writing.  The FIFO has no name: the user is gone.
ReplyToNobody(o) ==
    /\ offPc[o] = "reply" /\ ~ReplyFifoExists(cur[o])
    /\ finished' = finished \cup {cur[o]}
    /\ Goto(o, "dec")
    /\ UNCHANGED <<cur, rep, semVars, active_thread_cnt, flagVars, answer, dead>>

\* It has a name and no reader: open blocks, and the user, which has closed its
\* only descriptor or died, never opens the FIFO again; not even the unlink of
\* the name wakes the office.
BlockOnReply(o) ==
    /\ offPc[o] = "reply"
    /\ ReplyFifoExists(cur[o]) /\ ~ReplyFifoHasReader(cur[o])
    /\ Goto(o, "blocked")
    /\ UNCHANGED <<cur, rep, semVars, outVars>>

OpenReply(o) ==
    /\ offPc[o] = "reply" /\ ReplyFifoHasReader(cur[o])
    /\ Goto(o, "write")
    /\ UNCHANGED <<cur, rep, semVars, outVars>>

WriteReply(o) ==
    /\ offPc[o] = "write" /\ ReplyFifoHasReader(cur[o])
    /\ answer' = [answer EXCEPT ![cur[o]] = Append(@, rep[o])]
    /\ finished' = finished \cup {cur[o]}
    /\ Goto(o, "dec")
    /\ UNCHANGED <<cur, rep, semVars, active_thread_cnt, flagVars, dead>>

\* The reader left after the open: SIGPIPE, which the server does not handle.
BrokenReply(o) ==
    /\ offPc[o] = "write" /\ ~ReplyFifoHasReader(cur[o])
    /\ dead' = "sigpipe"
    /\ UNCHANGED <<offVars, semVars, active_thread_cnt, flagVars, replyVars>>

\* active_thread_cnt--, and the routine's next iteration.
CountIdle(o) ==
    /\ offPc[o] = "dec"
    /\ active_thread_cnt' = active_thread_cnt - 1
    /\ cur' = [cur EXCEPT ![o] = NoUser]
    /\ rep' = [rep EXCEPT ![o] = 0]
    /\ Goto(o, "wait")
    /\ UNCHANGED <<semVars, flagVars, replyVars, dead>>

OfficeStep(o) ==
    /\ Running
    /\ \/ WaitFull(o) \/ LockToCheck(o) \/ Check(o)
       \/ CountActive(o) \/ LockToPop(o) \/ Retrieve(o)
       \/ Delete(o) \/ DeleteNothing(o) \/ PostEmpty(o)
       \/ HandleWork(o)
       \/ SetShutdown(o) \/ MakeUnwritable(o) \/ CloseDummy(o) \/ ReportActive(o)
       \/ ReplyToNobody(o) \/ BlockOnReply(o) \/ OpenReply(o) \/ WriteReply(o) \/ BrokenReply(o)
       \/ CountIdle(o)
    /\ UNCHANGED <<mainVars, userVars>>

-----------------------------------------------------------------------------
(* A user process: its own FIFO exists when it opens the server's.         *)

\* setupRequestFIFO.  It blocks while the FIFO has a name and no reader.
OpenServer(u) ==
    /\ userPc[u] = "ready"
    /\ FifoExists /\ writable /\ HasReader
    /\ Become(u, "open")
    /\ UNCHANGED pipe

\* The open fails: SRV_DOWN is recorded and the reply FIFO unlinked.
ServerDown(u) ==
    /\ userPc[u] = "ready"
    /\ ~(FifoExists /\ writable)
    /\ Become(u, "down")
    /\ UNCHANGED pipe

\* sendRequest: one write below PIPE_BUF, so that requests do not mix.
SendRequest(u) ==
    /\ userPc[u] = "open" /\ HasReader
    /\ pipe' = Append(pipe, u)
    /\ Become(u, "sent")

\* The server is gone: SIGPIPE ends the user.
SendToNobody(u) ==
    /\ userPc[u] = "open" /\ ~HasReader
    /\ Become(u, "killed")
    /\ UNCHANGED pipe

ReadReply(u) ==
    /\ userPc[u] = "sent" /\ answer[u] # <<>>
    /\ Become(u, "closing")
    /\ UNCHANGED pipe

\* alarm_handler after FIFO_TIMEOUT_SECS, or signal_handler (SIGINT).
GiveUp(u) ==
    /\ u \in Impatient /\ userPc[u] \in {"open", "sent"}
    /\ Become(u, "closing")
    /\ UNCHANGED pipe

\* A signal without a handler: the kernel closes both FIFOs, the name stays.
Kill(u) ==
    /\ u \in Killable /\ userPc[u] \in {"open", "sent"}
    /\ Become(u, "killed")
    /\ UNCHANGED pipe

\* closeComunication: the request FIFO, the reply FIFO, then its name.
CloseRequestFifo(u) == userPc[u] = "closing" /\ Become(u, "half") /\ UNCHANGED pipe
CloseResponseFifo(u) == userPc[u] = "half" /\ Become(u, "unlinking") /\ UNCHANGED pipe
UnlinkResponseFifo(u) == userPc[u] = "unlinking" /\ Become(u, "gone") /\ UNCHANGED pipe

\* The steps of a user that the code itself takes, and those forced on it.
UserProgress(u) ==
    /\ \/ OpenServer(u) \/ ServerDown(u) \/ SendRequest(u) \/ SendToNobody(u)
       \/ ReadReply(u)
       \/ CloseRequestFifo(u) \/ CloseResponseFifo(u) \/ UnlinkResponseFifo(u)
    /\ UNCHANGED <<mainVars, offVars, semVars, outVars>>

UserLeaves(u) ==
    /\ GiveUp(u) \/ Kill(u)
    /\ UNCHANGED <<mainVars, offVars, semVars, outVars>>

-----------------------------------------------------------------------------
\* Every user has ended, and the server has too or waits for the next one: not
\* a step of the program, but not a deadlock either.
Quiescent ==
    /\ \A u \in Users : userPc[u] \in {"gone", "down", "killed"}
    /\ \/ mainPc = "done"
       \/ mainPc \in {"open", "read"} /\ ~shutdown /\ At({"wait"}) = Offices
    /\ UNCHANGED vars

Next ==
    \/ MainStep
    \/ \E o \in Offices : OfficeStep(o)
    \/ \E u \in Users : UserProgress(u) \/ UserLeaves(u)
    \/ Quiescent

Spec == Init /\ [][Next]_vars

\* Every thread and every user process is scheduled; nobody has to time out,
\* be killed or be interrupted.  POSIX semaphores and mutexes promise no more
\* than that some waiter gets in, and no more is needed: each office competes
\* with finitely many requests.
Fairness ==
    /\ WF_vars(MainStep)
    /\ \A o \in Offices : WF_vars(OfficeStep(o))
    /\ \A u \in Users : WF_vars(UserProgress(u))

FairSpec == Spec /\ Fairness

-----------------------------------------------------------------------------
(* Invariants.                                                             *)

TypeOK ==
    /\ mainPc \in MainPcs
    /\ inHand \in Users \cup {NoUser}
    /\ posted \in 0..N
    /\ offPc \in [Offices -> OffPcs]
    /\ cur \in [Offices -> Users \cup {NoUser}]
    /\ rep \in [Offices -> Int]
    /\ queue \in Seq(Users)
    /\ empty \in Nat /\ full \in Nat
    /\ queue_mutex \in Offices \cup {Main, Nobody}
    /\ active_thread_cnt \in Int
    /\ shutdown \in BOOLEAN /\ writable \in BOOLEAN /\ dummyOpen \in BOOLEAN
    /\ dead \in {"no", "segv", "sigpipe"}
    /\ pipe \in Seq(Users)
    /\ userPc \in [Users -> UserPcs]
    /\ answer \in [Users -> Seq(Int)]
    /\ finished \subseteq Users

\* request_queue_mutex protects the two halves of queue_pop, the check and the
\* push: its holder is the one thread inside a section, and nobody else is.
MutexInv ==
    /\ \A o \in Offices : offPc[o] \in {"check", "retrieve", "delete"}
                            <=> queue_mutex = o
    /\ mainPc = "push" <=> queue_mutex = Main

\* Every token of full stands for a queued request or for a token posted by
\* closeOffices, each counted once: in the semaphore, with an office that has
\* taken it and not yet popped, or with an office that it has let go.
TokenInv ==
    Len(queue) + posted
        = full + Cardinality(At(Claiming \cup {"exited"}))
               + (IF mainPc = "post" THEN 1 ELSE 0)

\* The N places of the queue: free in empty, promised to the request main is
\* about to push, occupied, or vacated by an office that has yet to post.
RoomInv ==
    empty + Len(queue) + Cardinality(At({"slot"}))
          + (IF mainPc \in {"lock", "push"} THEN 1 ELSE 0) = N

\* The count a shutdown reply is computed from is the number of offices between
\* their ++ and their --; with the reporting office in it, so that subtracting
\* one never underflows.
ActiveInv == active_thread_cnt = Cardinality(At(Counted))

\* createBankOffices starts the offices before initAccounts and queue_create:
\* none of them gets past its sem_wait before main has set the server up.
NoEarlyStart ==
    mainPc \in {"spawn", "setup"} =>
        full = 0 /\ At(OffPcs \ {"unborn", "wait"}) = {}

\* "It will do this until a valid shutdown request is issued, to when it will
\* finished executing the remaining requests in the queue": no office leaves
\* while something is queued or main could still push.
NoEarlyExit ==
    At({"exited"}) # {} =>
        /\ mainPc \in {"tokens", "join", "done"}
        /\ shutdown /\ queue = <<>> /\ inHand = NoUser

\* Once main has seen end-of-file nobody can write to the server FIFO any more,
\* so closing it loses no request: shutdown_server makes the FIFO unwritable
\* before it closes the dummy writer.
NoLateWriter ==
    mainPc \in {"close", "tokens", "join", "done"} =>
        /\ pipe = <<>> /\ ~writable
        /\ \A u \in Users : ~Writes(u)

\* When main returns, every request that reached the server FIFO was handled:
\* a user that sent its request is not left with an unserved one.
NothingLeftBehind ==
    mainPc = "done" =>
        /\ pipe = <<>> /\ queue = <<>>
        /\ At(Serving) = {}
        /\ \A u \in Users : userPc[u] # "sent"
        /\ \A u \in Users \ (Impatient \cup Killable) :
              userPc[u] \notin {"ready", "down"} => u \in finished

\* No request is handled twice, or by two offices, or queued again: an office's
\* request is nowhere else.
OneOwner ==
    /\ \A o, p \in At(Serving) : o # p => cur[o] # cur[p]
    /\ \A o \in At(Serving) :
          /\ cur[o] \in Users \ (finished \cup {inHand})
          /\ \A i \in DOMAIN queue : queue[i] # cur[o]
          /\ \A i \in DOMAIN pipe : pipe[i] # cur[o]

\* A user is sent at most one reply, by whichever offices: every one written to
\* its FIFO, equal to an earlier one or not, is another member of answer[u].
OneReply == \A u \in Users : Len(answer[u]) <= 1

\* An office that reaches queue_pop pops a request: the token it holds was for
\* one.
PopFindsRequest ==
    \A o \in Offices : offPc[o] \in {"retrieve", "delete"} => queue # <<>>

\* The server outlives its users: none of them can end it by leaving.
SurvivesUsers == dead # "sigpipe"

\* An office comes back from answering a user, whatever the user does.
NoOfficeStuck == At({"blocked"}) = {}

\* The bounds a thread relies on: never more requests queued than offices, and
\* empty never above its initial value (closeOffices may raise full above it).
QueueBound == Len(queue) <= N /\ empty <= N

-----------------------------------------------------------------------------
(* Liveness.                                                               *)

\* A user that waits for its reply reads one.
EveryUserAnswered ==
    \A u \in Users : userPc[u] = "sent" ~> userPc[u] = "gone" /\ answer[u] # <<>>

\* A shutdown request that reached the server ends it: every office leaves,
\* main joins them all and returns.
ShutdownEnds ==
    \A u \in ShutdownUsers : userPc[u] = "sent" ~> mainPc = "done"

-----------------------------------------------------------------------------
(* The server implements the line of requests.                             *)

InHand == IF inHand = NoUser THEN <<>> ELSE <<inHand>>

Line == INSTANCE RequestLine WITH
    line <- queue \o InHand \o pipe,
    serving <- {cur[o] : o \in At(Serving)} \ finished,
    accepting <- mainPc \notin {"close", "tokens", "join", "done"}

\* Requests are taken in the order they arrived and finished once each.
ImplementsLine == Line!Spec
\* And, when users are patient, none stays in the line or in service for ever.
ImplementsFairLine == Line!FairSpec
=============================================================================
