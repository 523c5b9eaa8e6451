------------------------------- MODULE Ledger -------------------------------
(***************************************************************************)
(* What the bank promises its users: every request is one indivisible      *)
(* change of the accounts, and its reply says what that change was.  No    *)
(* offices, no mutexes, no accounts half written.  The replies are those   *)
(* of ret_code (types.h), but for one case in which the server departs     *)
(* from its list: LeavesTooLittle.                                         *)
(***************************************************************************)
EXTENDS BankRequests

VARIABLES bank,     \* the accounts: a password and a balance, or NoAccount
          outcome   \* the reply to each request, Pending until it is served

vars == <<bank, outcome>>

NoAccount == [pw |-> NoPassword, balance |-> 0]
Exists(a) == bank[a] # NoAccount

Init ==
    /\ bank = [a \in Ids |-> IF a = Admin THEN [pw |-> AdminPassword, balance |-> 0]
                                          ELSE NoAccount]
    /\ outcome = [r \in Requests |-> Pending]

Answer(r, ret, balance) ==
    /\ outcome[r] = Pending
    /\ outcome' = [outcome EXCEPT ![r] = Reply(ret, balance)]

LoginFail(r) ==
    /\ ~Exists(r.from) \/ bank[r.from].pw # r.pw
    /\ Answer(r, "LOGIN_FAIL", 0)
    /\ UNCHANGED bank

\* The header is in order: the account exists, its password is the request's.
Login(r) == Exists(r.from) /\ bank[r.from].pw = r.pw
Accepted(r, kind) == r.kind = kind /\ Login(r) /\ ~NotAllowed(r)

Refuse(r) ==
    /\ Login(r) /\ NotAllowed(r)
    /\ Answer(r, "OP_NALLOW", 0)
    /\ UNCHANGED bank

Create(r) ==
    /\ Accepted(r, "create") /\ ~Exists(r.to)
    /\ bank' = [bank EXCEPT ![r.to] = [pw |-> r.newPw, balance |-> r.amount]]
    /\ Answer(r, "OK", 0)

IdInUse(r) ==
    /\ Accepted(r, "create") /\ Exists(r.to)
    /\ Answer(r, "ID_IN_USE", 0)
    /\ UNCHANGED bank

Balance(r) ==
    /\ Accepted(r, "balance")
    /\ Answer(r, "OK", bank[r.from].balance)
    /\ UNCHANGED bank

\* Why ret_code has a transfer refused, the first reason in its order.
Promised(r) ==
    IF ~Exists(r.to) THEN "ID_NOT_FOUND"
    ELSE IF r.from = r.to THEN "SAME_ID"
    ELSE IF bank[r.from].balance < r.amount + MinBalance THEN "NO_FUNDS"
    ELSE IF bank[r.to].balance + r.amount > MaxBalance THEN "TOO_HIGH"
    ELSE "none"

\* The exception: the source would be left with less than MIN_BALANCE, not with
\* less than nothing.  ret_code has it refused with RC_NO_FUNDS; op_transfer, which
\* tests only balance < amount, goes on to its next test.
LeavesTooLittle(r) ==
    Promised(r) = "NO_FUNDS" /\ bank[r.from].balance >= r.amount

\* Why it is refused.
Refusal(r) ==
    IF ~LeavesTooLittle(r) THEN Promised(r)
    ELSE IF bank[r.to].balance + r.amount > MaxBalance THEN "TOO_HIGH"
    ELSE "none"

NoTransfer(r) ==
    /\ Accepted(r, "transfer") /\ Refusal(r) # "none"
    /\ Answer(r, Refusal(r), bank[r.from].balance)
    /\ UNCHANGED bank

Transfer(r) ==
    /\ Accepted(r, "transfer") /\ Refusal(r) = "none"
    /\ bank' = [bank EXCEPT ![r.from].balance = @ - r.amount,
                            ![r.to].balance = @ + r.amount]
    /\ Answer(r, "OK", bank[r.from].balance - r.amount)

Shutdown(r) ==
    /\ Accepted(r, "shutdown")
    /\ Answer(r, "OK", 0)
    /\ UNCHANGED bank

Next == \E r \in Requests :
    \/ LoginFail(r) \/ Refuse(r) \/ Create(r) \/ IdInUse(r) \/ Balance(r)
    \/ NoTransfer(r) \/ Transfer(r) \/ Shutdown(r)

Spec == Init /\ [][Next]_vars
=============================================================================
