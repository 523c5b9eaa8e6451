-------------------------- MODULE OfficePoolState --------------------------
(***************************************************************************)
(* The state of the bank server's office pool and of its users, and what   *)
(* the kernel lets each side of a FIFO see of the other.  OfficePool holds *)
(* the steps.                                                              *)
(***************************************************************************)
EXTENDS Integers, Sequences, FiniteSets

CONSTANTS
    Offices,        \* the office threads
    Users,          \* user processes; each sends one request, named by it
    ShutdownUsers,  \* users whose request is an accepted OP_SHUTDOWN
    Impatient,      \* users that may time out (SIGALRM) or get a SIGINT
    Killable,       \* users that may die without closing their FIFO cleanly
    NoUser          \* no request

ASSUME PoolAssumption ==
    /\ IsFiniteSet(Offices) /\ Offices # {}
    /\ ShutdownUsers \subseteq Users
    /\ Impatient \subseteq Users
    /\ Killable \subseteq Users
    /\ NoUser \notin Users
    /\ Offices \cap {"main", "nobody"} = {}   \* the other values of queue_mutex

VARIABLES
    mainPc,             \* where the main thread is
    inHand,             \* received_request: read by main, not yet pushed
    posted,             \* tokens closeOffices has posted
    offPc,              \* where each office is
    cur,                \* currentRequest of each office
    rep,                \* active_offices in the reply each office prepares
    queue,              \* requests
    empty, full,        \* the semaphores
    queue_mutex,        \* the holder of request_queue_mutex
    active_thread_cnt,
    shutdown,
    writable,           \* the permission bits of the server FIFO
    dummyOpen,          \* request_fifo_fd_DUMMY is an open writer
    dead,               \* how the server process died, "no" while it runs
    pipe,               \* requests in the server FIFO
    userPc,             \* where each user is
    answer,             \* history: the replies written to each user's FIFO
    finished            \* history: requests whose sendReply has decided

mainVars == <<mainPc, inHand, posted>>
offVars  == <<offPc, cur, rep>>
semVars  == <<queue, empty, full, queue_mutex>>
flagVars == <<shutdown, writable, dummyOpen>>
userVars == <<pipe, userPc>>
replyVars == <<answer, finished>>
\* What the steps that only move requests along leave alone: main's, and theirs.
restVars == <<cur, rep, active_thread_cnt, shutdown, writable, dead, userPc,
              replyVars>>
outVars  == <<active_thread_cnt, flagVars, replyVars, dead>>
vars == <<mainVars, offVars, semVars, active_thread_cnt, flagVars, dead,
          userVars, replyVars>>

N == Cardinality(Offices)

Main == "main"
Nobody == "nobody"

MainPcs == {"spawn", "setup", "open", "dummy", "read", "wait", "lock", "push",
            "post", "close", "tokens", "join", "done"}
\* An office that has taken a token and not yet removed a request.
Claiming == {"lock1", "check", "count", "lock2", "retrieve", "delete"}
\* An office that owns a request it has not finished.
Serving == {"slot", "handle", "chmod", "dummy", "report", "reply", "blocked",
            "write"}
\* An office counted by active_thread_cnt.
Counted == {"lock2", "retrieve", "delete", "dec"} \cup Serving
OffPcs == {"unborn", "wait", "exited", "dec"} \cup Claiming \cup Serving
UserPcs == {"ready", "open", "sent", "closing", "half", "unlinking", "gone",
            "down", "killed"}

Running == dead = "no"
At(S) == {o \in Offices : offPc[o] \in S}

-----------------------------------------------------------------------------
(* The FIFOs, as the kernel presents them to the other side.               *)

\* The server FIFO has a name: after mkfifo, until unlink.
FifoExists == mainPc \notin {"spawn", "setup", "tokens", "join", "done"}
\* Some thread holds the read end, or waits in open for a writer.
HasReader == Running /\ mainPc \in {"open", "dummy", "read", "wait", "lock",
                                    "push", "post"}
\* The user holds the write end of the server FIFO.
Writes(u) == userPc[u] \in {"open", "sent", "closing"}
NoWriter == ~dummyOpen /\ \A u \in Users : ~Writes(u)
\* The user's own FIFO has a name, and a reader.
ReplyFifoExists(u) == userPc[u] \notin {"gone", "down"}
ReplyFifoHasReader(u) == userPc[u] \in {"ready", "open", "sent", "closing", "half"}

-----------------------------------------------------------------------------
(* Moving one thread or one user process on.                               *)

Goto(o, pc) == offPc' = [offPc EXCEPT ![o] = pc]
Become(u, pc) == userPc' = [userPc EXCEPT ![u] = pc]
=============================================================================
