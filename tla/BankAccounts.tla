---------------------------- MODULE BankAccounts ----------------------------
(***************************************************************************)
(* How offices work on the accounts (checkRequestHeader, server_accounts.c *)
(* and server_operations.c): the header is checked without a lock, the     *)
(* operation runs under the mutex of each account it touches, and an       *)
(* account is written field by field.                                      *)
(*                                                                         *)
(* Offices take requests in any order: that of OfficePool's queue is any,  *)
(* since users send in any order.  Hashing always succeeds here.           *)
(***************************************************************************)
EXTENDS BankAccountsState

-----------------------------------------------------------------------------
(* Plausible bugs: mutated forms of the definitions below, no part of the  *)
(* specification.  Each shows that some property notices the bug.          *)

\* op_transfer locks its own account first, in no global order.
FirstLockOwn(r) == IF r.kind = "create" THEN r.to ELSE r.from

\* The first mutex is not waited for.
LockUnguarded(o) ==
    /\ pc[o] = "lock1"
    /\ LET r == cur[o] IN
       account_mutex' = [account_mutex EXCEPT ![IF r.to > r.from THEN r.to ELSE r.from] = o]
    /\ Goto(o, IF cur[o].kind = "transfer" THEN "lock2" ELSE "critical")
    /\ UNCHANGED <<accounts, cur, written, outcome>>

\* op_checkBalance does not wait for the account's mutex.
LockWritersOnly(o) ==
    /\ pc[o] = "lock1"
    /\ LET r == cur[o]
           a == IF r.to > r.from THEN r.to ELSE r.from IN
       IF r.kind = "balance"
       THEN account_mutex' = account_mutex
       ELSE account_mutex[a] = Free /\ account_mutex' = [account_mutex EXCEPT ![a] = o]
    /\ Goto(o, IF cur[o].kind = "transfer" THEN "lock2" ELSE "critical")
    /\ UNCHANGED <<accounts, cur, written, outcome>>

\* insertBankAccount does not look whether the id is in use.
InsertAlways(o) ==
    /\ pc[o] = "critical" /\ cur[o].kind = "create"
    /\ Goto(o, "insert")
    /\ UNCHANGED <<accounts, account_mutex, cur, written, outcome>>

\* op_transfer does not look at the source's balance.
RefusalUnfunded(r) ==
    IF ~accounts[r.to].exists THEN "ID_NOT_FOUND"
    ELSE IF accounts[r.to].balance + r.amount > MaxBalance THEN "TOO_HIGH"
    ELSE "none"

\* op_transfer does not look at the destination's balance.
RefusalUnbounded(r) ==
    IF ~accounts[r.to].exists THEN "ID_NOT_FOUND"
    ELSE IF accounts[r.from].balance < r.amount THEN "NO_FUNDS"
    ELSE "none"

-----------------------------------------------------------------------------
(* The mutexes and the initial state.                                      *)

\* The mutexes an operation locks: op_transfer takes the larger id first.
FirstLock(r) ==
    CASE r.kind = "create" -> r.to
      [] r.kind = "balance" -> r.from
      [] OTHER -> IF r.to > r.from THEN r.to ELSE r.from
SecondLock(r) == IF FirstLock(r) = r.to THEN r.from ELSE r.to

\* initAccounts and the admin account: no other account exists, and what
\* errorAccount leaves in the other fields is whatever was on the stack.
Init ==
    /\ sent \in Loads
    /\ accounts \in {f \in [Ids -> [exists : BOOLEAN, pw : {NoPassword, AdminPassword},
                                    balance : Garbage \cup {0}]] :
                       \A a \in Ids :
                         IF a = Admin
                         THEN f[a] = [exists |-> TRUE, pw |-> AdminPassword, balance |-> 0]
                         ELSE ~f[a].exists /\ f[a].pw = NoPassword
                              /\ f[a].balance \in Garbage}
    /\ account_mutex = [a \in Ids |-> Free]
    /\ pc = [o \in Offices |-> "idle"]
    /\ cur = [o \in Offices |-> NoRequest]
    /\ written = [o \in Offices |-> {}]
    /\ outcome = [r \in Requests |-> Pending]

-----------------------------------------------------------------------------
\* An office gets a request that nobody handles or has handled.
Take(o) ==
    /\ pc[o] = "idle"
    /\ \E r \in {q \in sent : outcome[q] = Pending} \ {cur[p] : p \in Offices} :
          cur' = [cur EXCEPT ![o] = r]
    /\ Goto(o, "exists")
    /\ UNCHANGED <<accounts, account_mutex, written, outcome>>

\* checkRequestHeader: existsBankAccount, without the account's mutex.
CheckExists(o) ==
    /\ pc[o] = "exists"
    /\ IF accounts[cur[o].from].exists
       THEN Goto(o, "password") /\ UNCHANGED <<cur, outcome>>
       ELSE Answer(o, "LOGIN_FAIL", 0) /\ Idle(o)
    /\ UNCHANGED <<accounts, account_mutex, written>>

\* checkRequestHeader: a copy of the account is hashed and compared, without
\* the mutex either, and the permissions follow.
CheckPassword(o) ==
    /\ pc[o] = "password"
    /\ LET r == cur[o] IN
       IF accounts[r.from].pw # r.pw THEN Answer(o, "LOGIN_FAIL", 0) /\ Idle(o)
       ELSE IF NotAllowed(r) THEN Answer(o, "OP_NALLOW", 0) /\ Idle(o)
       ELSE IF r.kind = "shutdown" THEN Answer(o, "OK", 0) /\ Idle(o)
       ELSE Goto(o, "lock1") /\ UNCHANGED <<cur, outcome>>
    /\ UNCHANGED <<accounts, account_mutex, written>>

\* pthread_mutex_lock: a default mutex blocks its own holder too.
Lock1(o) ==
    /\ pc[o] = "lock1" /\ account_mutex[FirstLock(cur[o])] = Free
    /\ account_mutex' = [account_mutex EXCEPT ![FirstLock(cur[o])] = o]
    /\ Goto(o, IF cur[o].kind = "transfer" THEN "lock2" ELSE "critical")
    /\ UNCHANGED <<accounts, cur, written, outcome>>

Lock2(o) ==
    /\ pc[o] = "lock2" /\ account_mutex[SecondLock(cur[o])] = Free
    /\ account_mutex' = [account_mutex EXCEPT ![SecondLock(cur[o])] = o]
    /\ Goto(o, "critical")
    /\ UNCHANGED <<accounts, cur, written, outcome>>

\* insertBankAccount, the id in use: it returns with the mutex locked.
InsertInUse(o) ==
    /\ pc[o] = "critical" /\ cur[o].kind = "create"
    /\ accounts[cur[o].to].exists
    /\ Answer(o, "ID_IN_USE", 0)
    /\ Idle(o)
    /\ UNCHANGED <<accounts, account_mutex, written>>

InsertStart(o) ==
    /\ pc[o] = "critical" /\ cur[o].kind = "create"
    /\ ~accounts[cur[o].to].exists
    /\ Goto(o, "insert")
    /\ UNCHANGED <<accounts, account_mutex, cur, written, outcome>>

\* accounts[id] = newAccount copies the fields in no particular order, seen
\* from an office that reads them without the mutex.
InsertField(o, f) ==
    /\ pc[o] = "insert" /\ f \notin written[o]
    /\ LET r == cur[o] IN
       accounts' = [accounts EXCEPT ![r.to] =
           [exists  |-> f = "exists" \/ @.exists,
            pw      |-> IF f = "pw" THEN r.newPw ELSE @.pw,
            balance |-> IF f = "balance" THEN r.amount ELSE @.balance]]
    /\ IF written[o] \cup {f} = Fields
       THEN /\ written' = [written EXCEPT ![o] = {}]
            /\ Answer(o, "OK", 0)
            /\ Goto(o, "unlock1")
       ELSE /\ written' = [written EXCEPT ![o] = @ \cup {f}]
            /\ UNCHANGED <<outcome, pc>>
    /\ UNCHANGED <<account_mutex, cur>>

\* op_checkBalance, under the mutex.
ReadBalance(o) ==
    /\ pc[o] = "critical" /\ cur[o].kind = "balance"
    /\ Answer(o, "OK", accounts[cur[o].from].balance)
    /\ Goto(o, "unlock1")
    /\ UNCHANGED <<accounts, account_mutex, cur, written>>

\* op_transfer, its tests in their order.
Refusal(r) ==
    IF ~accounts[r.to].exists THEN "ID_NOT_FOUND"
    ELSE IF accounts[r.from].balance < r.amount THEN "NO_FUNDS"
    ELSE IF accounts[r.to].balance + r.amount > MaxBalance THEN "TOO_HIGH"
    ELSE "none"

TransferRefused(o) ==
    /\ pc[o] = "critical" /\ cur[o].kind = "transfer"
    /\ Refusal(cur[o]) # "none"
    /\ Answer(o, Refusal(cur[o]), accounts[cur[o].from].balance)
    /\ Goto(o, "unlock1")
    /\ UNCHANGED <<accounts, account_mutex, cur, written>>

Credit(o) ==
    /\ pc[o] = "critical" /\ cur[o].kind = "transfer"
    /\ Refusal(cur[o]) = "none"
    /\ accounts' = [accounts EXCEPT ![cur[o].to].balance = @ + cur[o].amount]
    /\ Goto(o, "debit")
    /\ UNCHANGED <<account_mutex, cur, written, outcome>>

Debit(o) ==
    /\ pc[o] = "debit"
    /\ accounts' = [accounts EXCEPT ![cur[o].from].balance = @ - cur[o].amount]
    /\ Answer(o, "OK", accounts[cur[o].from].balance - cur[o].amount)
    /\ Goto(o, "unlock1")
    /\ UNCHANGED <<account_mutex, cur, written>>

Unlock1(o) ==
    /\ pc[o] = "unlock1"
    /\ account_mutex' = [account_mutex EXCEPT ![FirstLock(cur[o])] = Free]
    /\ IF cur[o].kind = "transfer" THEN Goto(o, "unlock2") /\ UNCHANGED cur
                                   ELSE Idle(o)
    /\ UNCHANGED <<accounts, written, outcome>>

Unlock2(o) ==
    /\ pc[o] = "unlock2"
    /\ account_mutex' = [account_mutex EXCEPT ![SecondLock(cur[o])] = Free]
    /\ Idle(o)
    /\ UNCHANGED <<accounts, written, outcome>>

OfficeStep(o) ==
    /\ \/ Take(o) \/ CheckExists(o) \/ CheckPassword(o)
       \/ Lock1(o) \/ Lock2(o)
       \/ InsertInUse(o) \/ InsertStart(o) \/ \E f \in Fields : InsertField(o, f)
       \/ ReadBalance(o)
       \/ TransferRefused(o) \/ Credit(o) \/ Debit(o)
       \/ Unlock1(o) \/ Unlock2(o)
    /\ UNCHANGED sent

\* Every request is answered and every office is back for the next one.
Quiescent ==
    /\ \A r \in sent : outcome[r] # Pending
    /\ \A o \in Offices : pc[o] = "idle"
    /\ UNCHANGED vars

Next == Quiescent \/ \E o \in Offices : OfficeStep(o)

Spec == Init /\ [][Next]_vars
\* Each office is scheduled; finitely many requests compete for a mutex.
FairSpec == Spec /\ \A o \in Offices : WF_vars(OfficeStep(o))

-----------------------------------------------------------------------------
(* Invariants.                                                             *)

Rets == {"none", "OK", "LOGIN_FAIL", "OP_NALLOW", "ID_IN_USE", "ID_NOT_FOUND",
         "NO_FUNDS", "TOO_HIGH"}

TypeOK ==
    /\ sent \subseteq Requests
    /\ accounts \in [Ids -> [exists : BOOLEAN, pw : Passwords \cup {NoPassword},
                              balance : Nat]]
    /\ account_mutex \in [Ids -> Offices \cup {Free}]
    /\ pc \in [Offices -> Pcs]
    /\ cur \in [Offices -> Requests \cup {NoRequest}]
    /\ written \in [Offices -> SUBSET Fields]
    /\ outcome \in [Requests -> [ret : Rets, balance : Nat]]

\* The accounts whose balance or existence an office reads and writes now.
Touches(o) ==
    IF pc[o] \notin {"critical", "insert", "debit"} THEN {}
    ELSE CASE cur[o].kind = "create" -> {cur[o].to}
           [] cur[o].kind = "balance" -> {cur[o].from}
           [] OTHER -> {cur[o].from, cur[o].to}

\* No two offices work on the same account at once, and an office that works
\* on an account holds its mutex.
Exclusive ==
    \A o \in Offices :
        /\ \A p \in Offices \ {o} : Touches(o) \cap Touches(p) = {}
        /\ \A a \in Touches(o) : account_mutex[a] = o

\* Both tests of checkRequestHeader succeed for the account.
Visible(a) == accounts[a].exists /\ accounts[a].pw # NoPassword
\* What a transfer has put on the account and not yet taken from its source.
Crediting(a) == {o \in Offices : pc[o] = "debit" /\ cur[o].to = a}
InFlight(a) == SumFunction([o \in Crediting(a) |-> cur[o].amount])
Inserting(a) == {o \in Offices : pc[o] = "insert" /\ cur[o].to = a}

\* The account as the ledger has it: an insertion counts from the moment a
\* login would succeed, a transfer from its debit.
BankAt(a) ==
    IF ~Visible(a) THEN [pw |-> NoPassword, balance |-> 0]
    ELSE IF Inserting(a) # {}
         THEN [pw |-> accounts[a].pw, balance |-> (CHOOSE r \in {cur[o] : o \in Inserting(a)} : TRUE).amount]
         ELSE [pw |-> accounts[a].pw, balance |-> accounts[a].balance - InFlight(a)]
OutcomeOf(r) ==
    IF \E o \in Inserting(r.to) : cur[o] = r /\ Visible(r.to)
    THEN Reply("OK", 0)
    ELSE outcome[r]

\* The creations that have been accepted.
Created == {r \in sent : r.kind = "create" /\ OutcomeOf(r).ret = "OK"}

\* Money is neither made nor lost: the balances and what is in flight add up
\* to what the accepted creations paid in.
Conserved ==
    SumFunction([a \in Ids |-> BankAt(a).balance])
      = SumFunction([r \in Created |-> r.amount])

\* No balance, not even between the two halves of a transfer, leaves
\* 0..MAX_BALANCE (so no 32-bit sum wraps), and the admin has no money.
BalanceInRange ==
    /\ \A a \in Ids : Visible(a) /\ Inserting(a) = {} => accounts[a].balance \in 0..MaxBalance
    /\ accounts[Admin].balance = 0

-----------------------------------------------------------------------------
(* Liveness.                                                               *)

\* Every request is answered in the end: no office waits for ever on a mutex.
EveryRequestAnswered == \A r \in Requests : <>(r \in sent => outcome[r] # Pending)

\* A mutex has been kept by a creation whose id was in use, or is waited for by
\* its own holder.
MutexLost ==
    \/ \E r \in Requests : outcome[r].ret = "ID_IN_USE"
    \/ \E o \in Offices : pc[o] = "lock2" /\ cur[o].from = cur[o].to

\* And these two are the only reasons for one to wait: transfers that cross, an
\* insertion and whatever else is in progress never keep one.
AnsweredUnlessMutexLost ==
    \A r \in Requests : <>(r \in sent => outcome[r] # Pending \/ MutexLost)

-----------------------------------------------------------------------------
(* The accounts under their mutexes implement the indivisible ledger.      *)

L == INSTANCE Ledger WITH
    bank <- [a \in Ids |-> BankAt(a)],
    outcome <- [r \in Requests |-> OutcomeOf(r)]

\* Every reply is one that the ledger gives, every change one of the ledger's: the
\* replies of types.h:17-30, in their order, except that a transfer may leave its
\* source with less than MIN_BALANCE (server_operations.c:87 against types.h:28).
\* A transfer to its own source (types.h:27) is never answered, with SAME_ID or
\* otherwise: AnsweredUnlessMutexLost.
ImplementsLedger == L!Spec
=============================================================================
