------------------------- MODULE BankAccountsState -------------------------
(***************************************************************************)
(* The accounts, their mutexes and the offices that handle requests on     *)
(* them.  BankAccounts holds the steps.                                    *)
(***************************************************************************)
EXTENDS BankRequests, FiniteSets, FiniteSetsExt

CONSTANTS
    Offices,     \* the office threads
    Loads,       \* the sets of requests that users may send together
    Garbage,     \* the balances errorAccount() may leave uninitialised
    NoRequest,   \* an idle office's request
    Free         \* the holder of a free mutex

ASSUME AccountsAssumption ==
    /\ Garbage # {} /\ Garbage \subseteq Nat /\ Free \notin Offices
    /\ NoRequest \notin Requests /\ Loads \subseteq SUBSET Requests
    /\ IsFiniteSet(Ids) /\ \A load \in Loads : IsFiniteSet(load)

VARIABLES
    sent,           \* the requests that are sent, all along
    accounts,       \* accounts, id read as "the account exists"
    account_mutex,  \* the holder of each account's mutex
    pc,             \* where each office is in handleRequest
    cur,            \* the request each office handles
    written,        \* the fields of the new account an office has written
    outcome         \* the replies prepared

vars == <<sent, accounts, account_mutex, pc, cur, written, outcome>>

Fields == {"exists", "pw", "balance"}
Pcs == {"idle", "exists", "password", "lock1", "lock2", "critical", "insert",
        "debit", "unlock1", "unlock2"}

Goto(o, where) == pc' = [pc EXCEPT ![o] = where]
Idle(o) == Goto(o, "idle") /\ cur' = [cur EXCEPT ![o] = NoRequest]
Answer(o, ret, balance) == outcome' = [outcome EXCEPT ![cur[o]] = Reply(ret, balance)]
=============================================================================
