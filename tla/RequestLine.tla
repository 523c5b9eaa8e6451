---------------------------- MODULE RequestLine ----------------------------
(***************************************************************************)
(* What the bank server promises about the order and the completion of     *)
(* requests, without threads, semaphores or FIFOs: requests form one line  *)
(* in the order they were written to the server's FIFO, are taken from its *)
(* head, served concurrently and finished once each.  The server stops     *)
(* accepting only after a shutdown request has been taken.                 *)
(***************************************************************************)
EXTENDS Sequences

CONSTANTS Users,          \* one request per user process
          ShutdownUsers   \* the users whose request is a valid shutdown

VARIABLES line,       \* requests written and not yet taken, oldest first
          serving,    \* requests an office is working on
          finished,   \* requests answered (or whose user was gone)
          accepting   \* new requests can still enter the line

vars == <<line, serving, finished, accepting>>

InLine == {line[i] : i \in DOMAIN line}

Init ==
    /\ line = <<>>
    /\ serving = {}
    /\ finished = {}
    /\ accepting = TRUE

\* A user writes its only request.
Arrive(u) ==
    /\ accepting
    /\ u \notin InLine \cup serving \cup finished
    /\ line' = Append(line, u)
    /\ UNCHANGED <<serving, finished, accepting>>

\* The oldest request is taken by some office.
Take ==
    /\ line # <<>>
    /\ serving' = serving \cup {Head(line)}
    /\ line' = Tail(line)
    /\ UNCHANGED <<finished, accepting>>

\* A request being served is answered.
Finish(u) ==
    /\ u \in serving
    /\ serving' = serving \ {u}
    /\ finished' = finished \cup {u}
    /\ UNCHANGED <<line, accepting>>

\* The server stops accepting: some shutdown request has been taken.
Stop ==
    /\ accepting
    /\ \E u \in ShutdownUsers : u \in serving \cup finished
    /\ accepting' = FALSE
    /\ UNCHANGED <<line, serving, finished>>

Next == Take \/ Stop \/ \E u \in Users : Arrive(u) \/ Finish(u)

Spec == Init /\ [][Next]_vars

\* Requests that entered the line are taken, and those taken are finished.
FairSpec == Spec /\ WF_vars(Take) /\ \A u \in Users : WF_vars(Finish(u))
=============================================================================
