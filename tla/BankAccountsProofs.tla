------------------------- MODULE BankAccountsProofs -------------------------
(***************************************************************************)
(* Proofs about BankAccounts, for any accounts, offices and requests.      *)
(***************************************************************************)
EXTENDS BankAccounts, FiniteSetTheorems, TLAPS

-----------------------------------------------------------------------------
(* The inductive invariant.                                                *)

\* Where an office has both its mutexes, or the one it needs.
Locked == {"critical", "insert", "debit", "unlock1"}

\* An office has the mutexes that it has locked and not unlocked; of a transfer
\* that has both, the two accounts differ, or the second lock had not returned.
LockInv ==
    \A o \in Offices :
        /\ pc[o] \in {"lock2"} \cup Locked => account_mutex[FirstLock(cur[o])] = o
        /\ pc[o] \in {"unlock2"} \cup Locked /\ cur[o].kind = "transfer" =>
              account_mutex[SecondLock(cur[o])] = o /\ cur[o].from # cur[o].to

\* Where the header has been accepted.
Admitted == {"lock1", "lock2", "unlock2"} \cup Locked

\* What an office knows of its request: a header once accepted stays so, though
\* it was checked without a mutex; nobody else has the request, and it has no
\* reply before the office gives one.
WorkInv ==
    \A o \in Offices :
        /\ pc[o] = "idle" <=> cur[o] = NoRequest
        /\ pc[o] # "idle" => cur[o] \in sent
        /\ pc[o] \in {"password"} \cup Admitted => accounts[cur[o].from].exists
        /\ pc[o] \in Admitted => /\ accounts[cur[o].from].pw = cur[o].pw
                                 /\ ~NotAllowed(cur[o]) /\ cur[o].kind # "shutdown"
        /\ pc[o] \in {"lock2", "debit", "unlock2"} => cur[o].kind = "transfer"
        /\ pc[o] = "insert" => cur[o].kind = "create"
        /\ pc[o] \notin {"idle", "unlock1", "unlock2"} => outcome[cur[o]] = Pending
        /\ \A p \in Offices : cur[p] = cur[o] /\ pc[o] # "idle" => p = o

\* An account that is being inserted has the fields that have been written.
InsertInv ==
    \A o \in Offices :
        /\ written[o] # {} => pc[o] = "insert"
        /\ written[o] # Fields
        /\ pc[o] = "insert" =>
              LET a == cur[o].to IN
              /\ accounts[a].exists <=> "exists" \in written[o]
              /\ accounts[a].pw = IF "pw" \in written[o] THEN cur[o].newPw ELSE NoPassword
              /\ "balance" \in written[o] => accounts[a].balance = cur[o].amount

\* Any other account is there as a whole or not at all.
AccountInv ==
    \A a \in Ids : (\A o \in Offices : ~(pc[o] = "insert" /\ cur[o].to = a)) =>
        /\ accounts[a].exists <=> accounts[a].pw # NoPassword
        /\ accounts[a].exists => accounts[a].balance <= MaxBalance

\* The admin's account never changes; the money that a transfer has still to take
\* is there, and so is the money that it has given.
MoneyInv ==
    /\ accounts[Admin].exists /\ accounts[Admin].pw = AdminPassword
    /\ accounts[Admin].balance = 0
    /\ \A o \in Offices : pc[o] = "insert" => cur[o].to # Admin
    /\ \A o \in Offices : pc[o] = "debit" =>
          /\ accounts[cur[o].from].balance >= cur[o].amount
          /\ accounts[cur[o].to].exists /\ accounts[cur[o].to].balance >= cur[o].amount

IInv == TypeOK /\ LockInv /\ WorkInv /\ InsertInv /\ AccountInv /\ MoneyInv

-----------------------------------------------------------------------------
(* Requests and their mutexes.                                             *)

\* The fields of a request.
LEMMA RequestFields ==
  ASSUME NEW r \in Requests
  PROVE  /\ r.kind \in Kinds /\ r.from \in Ids /\ r.to \in Ids
         /\ r.pw \in Passwords /\ r.newPw \in Passwords
         /\ r.amount \in Nat /\ r.amount <= MaxBalance
         /\ MaxBalance \in Nat
  BY RequestsAssumption

\* The mutexes of a request are those of the accounts that it works on.
LEMMA RequestLocks ==
  ASSUME NEW r \in Requests
  PROVE  /\ FirstLock(r) \in Ids /\ SecondLock(r) \in Ids
         /\ r.kind = "create" => FirstLock(r) = r.to
         /\ r.kind = "balance" => FirstLock(r) = r.from
         /\ r.kind = "transfer" => \/ FirstLock(r) = r.to /\ SecondLock(r) = r.from
                                   \/ FirstLock(r) = r.from /\ SecondLock(r) = r.to
  BY RequestFields DEF FirstLock, SecondLock, Kinds

-----------------------------------------------------------------------------
(* Types.                                                                  *)

\* initAccounts and the admin account: the leftovers are balances, of no account.
LEMMA InitTypeOK == Init => TypeOK
  <1> SUFFICES ASSUME Init PROVE TypeOK
    OBVIOUS
  <1>1. sent \subseteq Requests
    BY AccountsAssumption DEF Init
  <1>2. accounts \in [Ids -> [exists : BOOLEAN, pw : Passwords \cup {NoPassword}, balance : Nat]]
    <2> DEFINE Fresh == [exists : BOOLEAN, pw : {NoPassword, AdminPassword},
                         balance : Garbage \cup {0}]
    <2>1. accounts \in [Ids -> Fresh]
      BY DEF Init
    <2>2. Fresh \subseteq [exists : BOOLEAN, pw : Passwords \cup {NoPassword}, balance : Nat]
      <3>1. {NoPassword, AdminPassword} \subseteq Passwords \cup {NoPassword}
        BY RequestsAssumption
      <3>2. Garbage \cup {0} \subseteq Nat
        BY AccountsAssumption
      <3> QED
        BY <3>1, <3>2
    <2> HIDE DEF Fresh
    <2> QED
      BY <2>1, <2>2
  <1>3. outcome \in [Requests -> [ret : Rets, balance : Nat]]
    BY DEF Init, Pending, Reply, Rets
  <1>4. pc \in [Offices -> Pcs] /\ written \in [Offices -> SUBSET Fields]
    BY DEF Init, Pcs
  <1> QED
    BY <1>1, <1>2, <1>3, <1>4 DEF Init, TypeOK

\* What the shorthands of the steps do.
LEMMA Shorthands ==
  ASSUME TypeOK, NEW o \in Offices
  PROVE  /\ \A where \in Pcs : Goto(o, where) =>
               /\ pc' \in [Offices -> Pcs] /\ pc'[o] = where
               /\ \A p \in Offices \ {o} : pc'[p] = pc[p]
         /\ Idle(o) => /\ pc' \in [Offices -> Pcs] /\ pc'[o] = "idle"
                       /\ cur' \in [Offices -> Requests \cup {NoRequest}]
                       /\ cur'[o] = NoRequest
                       /\ \A p \in Offices \ {o} : pc'[p] = pc[p] /\ cur'[p] = cur[p]
         /\ \A ret \in Rets, balance \in Nat :
               Answer(o, ret, balance) /\ cur[o] \in Requests =>
                  /\ outcome' \in [Requests -> [ret : Rets, balance : Nat]]
                  /\ outcome'[cur[o]] = Reply(ret, balance)
                  /\ \A r \in Requests \ {cur[o]} : outcome'[r] = outcome[r]
  <1>1. ASSUME NEW where \in Pcs, Goto(o, where)
        PROVE  /\ pc' \in [Offices -> Pcs] /\ pc'[o] = where
               /\ \A p \in Offices \ {o} : pc'[p] = pc[p]
    BY <1>1 DEF Goto, TypeOK
  <1>2. ASSUME Idle(o)
        PROVE  /\ pc' \in [Offices -> Pcs] /\ pc'[o] = "idle"
               /\ cur' \in [Offices -> Requests \cup {NoRequest}]
               /\ cur'[o] = NoRequest
               /\ \A p \in Offices \ {o} : pc'[p] = pc[p] /\ cur'[p] = cur[p]
    <2>1. "idle" \in Pcs /\ Goto(o, "idle")
      BY <1>2 DEF Idle, Pcs
    <2> QED
      BY <1>1, <1>2, <2>1 DEF Idle, TypeOK
  <1>3. ASSUME NEW ret \in Rets, NEW balance \in Nat, Answer(o, ret, balance), cur[o] \in Requests
        PROVE  /\ outcome' \in [Requests -> [ret : Rets, balance : Nat]]
               /\ outcome'[cur[o]] = Reply(ret, balance)
               /\ \A r \in Requests \ {cur[o]} : outcome'[r] = outcome[r]
    <2>1. Reply(ret, balance) \in [ret : Rets, balance : Nat]
      BY DEF Reply
    <2> QED
      BY <1>3, <2>1 DEF Answer, TypeOK
  <1> QED
    BY <1>1, <1>2, <1>3

\* An office that is not idle has a request.
LEMMA RequestAtWork ==
  ASSUME IInv, NEW o \in Offices, pc[o] # "idle"
  PROVE  cur[o] \in Requests
  BY AccountsAssumption DEF IInv, TypeOK, WorkInv

\* An account after a transfer's half, and after a field of its insertion.
LEMMA AccountAfter ==
  ASSUME TypeOK, NEW a \in Ids, NEW x \in [exists : BOOLEAN, pw : Passwords \cup {NoPassword},
                                           balance : Nat],
         accounts' = [accounts EXCEPT ![a] = x]
  PROVE  /\ accounts' \in [Ids -> [exists : BOOLEAN, pw : Passwords \cup {NoPassword},
                                   balance : Nat]]
         /\ accounts'[a] = x
         /\ \A b \in Ids \ {a} : accounts'[b] = accounts[b]
  BY DEF TypeOK

\* The same when only the balance changes.
LEMMA BalanceAfter ==
  ASSUME TypeOK, NEW a \in Ids, NEW n \in Nat,
         accounts' = [accounts EXCEPT ![a].balance = n]
  PROVE  /\ accounts' \in [Ids -> [exists : BOOLEAN, pw : Passwords \cup {NoPassword},
                                   balance : Nat]]
         /\ accounts'[a].balance = n
         /\ accounts'[a].exists = accounts[a].exists /\ accounts'[a].pw = accounts[a].pw
         /\ \A b \in Ids \ {a} : accounts'[b] = accounts[b]
  BY DEF TypeOK

\* The record that a field of an insertion makes of the account.
FieldWritten(r, f) ==
    [exists  |-> f = "exists" \/ accounts[r.to].exists,
     pw      |-> IF f = "pw" THEN r.newPw ELSE accounts[r.to].pw,
     balance |-> IF f = "balance" THEN r.amount ELSE accounts[r.to].balance]

\* A field that is written changes no other account.
LEMMA FieldAfter ==
  ASSUME IInv, NEW o \in Offices, NEW f \in Fields, InsertField(o, f)
  PROVE  /\ accounts' \in [Ids -> [exists : BOOLEAN, pw : Passwords \cup {NoPassword},
                                   balance : Nat]]
         /\ accounts'[cur[o].to] = FieldWritten(cur[o], f)
         /\ \A b \in Ids \ {cur[o].to} : accounts'[b] = accounts[b]
         /\ cur[o] \in Requests /\ cur[o].to \in Ids /\ cur[o].amount \in Nat
  <1>0. TypeOK /\ cur[o] \in Requests /\ cur[o].to \in Ids
    BY RequestAtWork, RequestFields DEF IInv, InsertField
  <1>1. accounts' = [accounts EXCEPT ![cur[o].to] = FieldWritten(cur[o], f)]
    BY DEF InsertField, FieldWritten
  <1>2. accounts[cur[o].to] \in [exists : BOOLEAN, pw : Passwords \cup {NoPassword}, balance : Nat]
    BY <1>0 DEF TypeOK
  <1>3. cur[o].newPw \in Passwords /\ cur[o].amount \in Nat
    BY <1>0, RequestFields
  <1>4. FieldWritten(cur[o], f) \in [exists : BOOLEAN, pw : Passwords \cup {NoPassword}, balance : Nat]
    BY <1>2, <1>3 DEF FieldWritten
  <1> QED
    BY <1>0, <1>1, <1>3, <1>4, AccountAfter

\* A credit stays within MaxBalance, a debit is covered.
LEMMA CreditAfter ==
  ASSUME IInv, NEW o \in Offices, Credit(o)
  PROVE  /\ cur[o] \in Requests /\ cur[o].to \in Ids /\ cur[o].from \in Ids
         /\ cur[o].from # cur[o].to
         /\ accounts' \in [Ids -> [exists : BOOLEAN, pw : Passwords \cup {NoPassword},
                                   balance : Nat]]
         /\ accounts'[cur[o].to].balance = accounts[cur[o].to].balance + cur[o].amount
         /\ accounts'[cur[o].to].balance <= MaxBalance
         /\ accounts[cur[o].from].balance >= cur[o].amount
         /\ accounts[cur[o].to].exists
         /\ \A a \in Ids : /\ accounts'[a].exists = accounts[a].exists
                           /\ accounts'[a].pw = accounts[a].pw
         /\ \A b \in Ids \ {cur[o].to} : accounts'[b] = accounts[b]
  <1>0. TypeOK /\ cur[o] \in Requests /\ cur[o].to \in Ids /\ cur[o].from \in Ids
        /\ cur[o].amount \in Nat /\ MaxBalance \in Nat
    BY RequestAtWork, RequestFields DEF IInv, Credit
  <1>1. accounts[cur[o].to].balance \in Nat /\ accounts[cur[o].from].balance \in Nat
    BY <1>0 DEF TypeOK
  <1> DEFINE n == accounts[cur[o].to].balance + cur[o].amount
  <1>2. n \in Nat
    BY <1>0, <1>1
  <1>3. accounts' = [accounts EXCEPT ![cur[o].to].balance = n]
    BY DEF Credit
  <1>4. /\ accounts[cur[o].to].exists /\ ~(accounts[cur[o].from].balance < cur[o].amount)
        /\ ~(n > MaxBalance)
    BY DEF Credit, Refusal
  <1>5. cur[o].from # cur[o].to
    BY DEF IInv, LockInv, Credit, Locked
  <1> HIDE DEF n
  <1>6. n <= MaxBalance /\ accounts[cur[o].from].balance >= cur[o].amount
    BY <1>0, <1>1, <1>2, <1>4
  <1>7. /\ accounts' \in [Ids -> [exists : BOOLEAN, pw : Passwords \cup {NoPassword},
                                  balance : Nat]]
        /\ accounts'[cur[o].to].balance = n
        /\ accounts'[cur[o].to].exists = accounts[cur[o].to].exists
        /\ accounts'[cur[o].to].pw = accounts[cur[o].to].pw
        /\ \A b \in Ids \ {cur[o].to} : accounts'[b] = accounts[b]
    BY <1>0, <1>2, <1>3, BalanceAfter
  <1>8. \A a \in Ids : accounts'[a].exists = accounts[a].exists /\ accounts'[a].pw = accounts[a].pw
    BY <1>7
  <1> QED
    BY <1>0, <1>4, <1>5, <1>6, <1>7, <1>8 DEF n

\* The money of a debit was there.
LEMMA DebitAfter ==
  ASSUME IInv, NEW o \in Offices, Debit(o)
  PROVE  /\ cur[o] \in Requests /\ cur[o].to \in Ids /\ cur[o].from \in Ids
         /\ cur[o].from # cur[o].to
         /\ accounts[cur[o].from].balance - cur[o].amount \in Nat
         /\ accounts' \in [Ids -> [exists : BOOLEAN, pw : Passwords \cup {NoPassword},
                                   balance : Nat]]
         /\ accounts'[cur[o].from].balance = accounts[cur[o].from].balance - cur[o].amount
         /\ \A a \in Ids : /\ accounts'[a].exists = accounts[a].exists
                           /\ accounts'[a].pw = accounts[a].pw
         /\ \A b \in Ids \ {cur[o].from} : accounts'[b] = accounts[b]
  <1>0. TypeOK /\ cur[o] \in Requests /\ cur[o].to \in Ids /\ cur[o].from \in Ids
        /\ cur[o].amount \in Nat
    BY RequestAtWork, RequestFields DEF IInv, Debit
  <1>1. accounts[cur[o].from].balance \in Nat /\ accounts[cur[o].from].balance >= cur[o].amount
    BY <1>0 DEF TypeOK, IInv, MoneyInv, Debit
  <1> DEFINE n == accounts[cur[o].from].balance - cur[o].amount
  <1>2. n \in Nat
    BY <1>0, <1>1
  <1>3. accounts' = [accounts EXCEPT ![cur[o].from].balance = n]
    BY DEF Debit
  <1>4. cur[o].from # cur[o].to
    BY DEF IInv, LockInv, WorkInv, Debit, Locked
  <1> HIDE DEF n
  <1> QED
    BY <1>0, <1>2, <1>3, <1>4, BalanceAfter DEF n

\* Every step keeps the types.
LEMMA StepTypeOK == ASSUME IInv, NEW o \in Offices, OfficeStep(o) PROVE TypeOK'
  <1> USE DEF OfficeStep
  <1>0. TypeOK /\ sent' = sent
    BY DEF IInv
  <1>a. {"none", "OK", "LOGIN_FAIL", "OP_NALLOW", "ID_IN_USE", "ID_NOT_FOUND",
         "NO_FUNDS", "TOO_HIGH"} \subseteq Rets /\ 0 \in Nat
    BY DEF Rets
  <1>b. {"idle", "exists", "password", "lock1", "lock2", "critical", "insert",
         "debit", "unlock1", "unlock2"} \subseteq Pcs
    BY DEF Pcs
  <1>c. ASSUME pc[o] # "idle"
        PROVE  /\ cur[o] \in Requests /\ cur[o].from \in Ids /\ cur[o].to \in Ids
               /\ FirstLock(cur[o]) \in Ids /\ SecondLock(cur[o]) \in Ids
    BY <1>c, RequestAtWork, RequestFields, RequestLocks
  <1>1. CASE Take(o)
    <2>1. cur' \in [Offices -> Requests \cup {NoRequest}]
      BY <1>0, <1>1 DEF Take, TypeOK
    <2> QED
      BY <1>0, <1>1, <1>b, <2>1, Shorthands DEF Take, TypeOK
  <1>2. CASE CheckExists(o)
    BY <1>0, <1>2, <1>a, <1>b, <1>c, Shorthands DEF CheckExists, TypeOK
  <1>3. CASE CheckPassword(o)
    BY <1>0, <1>3, <1>a, <1>b, <1>c, Shorthands DEF CheckPassword, TypeOK
  <1>4. CASE Lock1(o)
    <2>1. account_mutex' \in [Ids -> Offices \cup {Free}]
      BY <1>0, <1>4, <1>c DEF Lock1, TypeOK
    <2> QED
      BY <1>0, <1>4, <1>b, <2>1, Shorthands DEF Lock1, TypeOK
  <1>5. CASE Lock2(o)
    <2>1. account_mutex' \in [Ids -> Offices \cup {Free}]
      BY <1>0, <1>5, <1>c DEF Lock2, TypeOK
    <2> QED
      BY <1>0, <1>5, <1>b, <2>1, Shorthands DEF Lock2, TypeOK
  <1>6. CASE InsertInUse(o)
    BY <1>0, <1>6, <1>a, <1>b, <1>c, Shorthands DEF InsertInUse, TypeOK
  <1>7. CASE InsertStart(o)
    BY <1>0, <1>7, <1>b, Shorthands DEF InsertStart, TypeOK
  <1>8. ASSUME NEW f \in Fields, InsertField(o, f) PROVE TypeOK'
    <2>1. accounts' \in [Ids -> [exists : BOOLEAN, pw : Passwords \cup {NoPassword}, balance : Nat]]
      BY <1>8, FieldAfter
    <2>2. written' \in [Offices -> SUBSET Fields]
      BY <1>0, <1>8 DEF InsertField, TypeOK
    <2>3. pc' \in [Offices -> Pcs] /\ outcome' \in [Requests -> [ret : Rets, balance : Nat]]
      <3>1. pc[o] # "idle"
        BY <1>8 DEF InsertField
      <3>2. CASE UNCHANGED <<outcome, pc>>
        BY <1>0, <3>2 DEF TypeOK
      <3>3. CASE Answer(o, "OK", 0) /\ Goto(o, "unlock1")
        BY <1>0, <1>a, <1>b, <1>c, <3>1, <3>3, Shorthands
      <3> QED
        BY <1>8, <3>2, <3>3 DEF InsertField
    <2> QED
      BY <1>0, <1>8, <2>1, <2>2, <2>3 DEF InsertField, TypeOK
  <1>9. CASE ReadBalance(o)
    <2>1. cur[o] \in Requests /\ accounts[cur[o].from].balance \in Nat
      BY <1>0, <1>9, <1>c DEF ReadBalance, TypeOK
    <2> QED
      BY <1>0, <1>9, <1>a, <1>b, <2>1, Shorthands DEF ReadBalance, TypeOK
  <1>10. CASE TransferRefused(o)
    <2>1. cur[o] \in Requests /\ accounts[cur[o].from].balance \in Nat
      BY <1>0, <1>10, <1>c DEF TransferRefused, TypeOK
    <2>2. Refusal(cur[o]) \in Rets
      BY DEF Refusal, Rets
    <2> QED
      BY <1>0, <1>10, <1>b, <2>1, <2>2, Shorthands DEF TransferRefused, TypeOK
  <1>11. CASE Credit(o)
    BY <1>0, <1>11, <1>b, CreditAfter, Shorthands DEF Credit, TypeOK
  <1>12. CASE Debit(o)
    <2>1. /\ cur[o] \in Requests /\ accounts[cur[o].from].balance - cur[o].amount \in Nat
          /\ accounts' \in [Ids -> [exists : BOOLEAN, pw : Passwords \cup {NoPassword}, balance : Nat]]
      BY <1>12, DebitAfter
    <2> QED
      BY <1>0, <1>12, <1>a, <1>b, <2>1, Shorthands DEF Debit, TypeOK
  <1>13. CASE Unlock1(o)
    <2>1. account_mutex' \in [Ids -> Offices \cup {Free}]
      BY <1>0, <1>13, <1>c DEF Unlock1, TypeOK
    <2> QED
      BY <1>0, <1>13, <1>b, <2>1, Shorthands DEF Unlock1, TypeOK
  <1>14. CASE Unlock2(o)
    <2>1. account_mutex' \in [Ids -> Offices \cup {Free}]
      BY <1>0, <1>14, <1>c DEF Unlock2, TypeOK
    <2> QED
      BY <1>0, <1>14, <1>b, <2>1, Shorthands DEF Unlock2, TypeOK
  <1> QED
    BY <1>1, <1>2, <1>3, <1>4, <1>5, <1>6, <1>7, <1>8, <1>9, <1>10, <1>11, <1>12, <1>13, <1>14

-----------------------------------------------------------------------------
(* What a step leaves alone.                                               *)

\* A step of an office is no other office's business.
LEMMA OthersStay ==
  ASSUME IInv, NEW o \in Offices, OfficeStep(o)
  PROVE  /\ sent' = sent
         /\ \A p \in Offices \ {o} :
               pc'[p] = pc[p] /\ cur'[p] = cur[p] /\ written'[p] = written[p]
  <1>0. TypeOK /\ sent' = sent
    BY DEF IInv, OfficeStep
  <1>b. {"idle", "exists", "password", "lock1", "lock2", "critical", "insert",
         "debit", "unlock1", "unlock2"} \subseteq Pcs
    BY DEF Pcs
  <1>1. \A p \in Offices \ {o} : pc'[p] = pc[p]
    BY <1>0, <1>b, Shorthands
       DEF OfficeStep, Take, CheckExists, CheckPassword, Lock1, Lock2, InsertInUse, InsertStart,
           InsertField, ReadBalance, TransferRefused, Credit, Debit, Unlock1, Unlock2
  <1>2. \A p \in Offices \ {o} : cur'[p] = cur[p]
    <2>1. CASE Take(o)
      BY <1>0, <2>1 DEF Take, TypeOK
    <2>2. CASE Idle(o) \/ cur' = cur
      BY <1>0, <2>2, Shorthands
    <2> QED
      BY <2>1, <2>2
         DEF OfficeStep, CheckExists, CheckPassword, Lock1, Lock2, InsertInUse, InsertStart,
             InsertField, ReadBalance, TransferRefused, Credit, Debit, Unlock1, Unlock2
  <1>3. \A p \in Offices \ {o} : written'[p] = written[p]
    <2>1. ASSUME NEW f \in Fields, InsertField(o, f)
          PROVE  \A p \in Offices \ {o} : written'[p] = written[p]
      BY <1>0, <2>1 DEF InsertField, TypeOK
    <2> QED
      BY <2>1 DEF OfficeStep, Take, CheckExists, CheckPassword, Lock1, Lock2, InsertInUse,
             InsertStart, ReadBalance, TransferRefused, Credit, Debit, Unlock1, Unlock2
  <1> QED
    BY <1>0, <1>1, <1>2, <1>3

\* Only a free mutex is taken, and only the holder's released.
LEMMA MutexMoves ==
  ASSUME IInv, NEW o \in Offices, OfficeStep(o), NEW a \in Ids,
         account_mutex'[a] # account_mutex[a]
  PROVE  account_mutex[a] \in {o, Free}
  <1>0. account_mutex \in [Ids -> Offices \cup {Free}]
    BY DEF IInv, TypeOK
  <1>1. CASE Lock1(o)
    BY <1>0, <1>1 DEF Lock1
  <1>2. CASE Lock2(o)
    BY <1>0, <1>2 DEF Lock2
  <1>3. CASE Unlock1(o)
    <2>1. account_mutex[FirstLock(cur[o])] = o
      BY <1>3 DEF Unlock1, IInv, LockInv, Locked
    <2> QED
      BY <1>0, <1>3, <2>1 DEF Unlock1
  <1>4. CASE Unlock2(o)
    <2>1. account_mutex[SecondLock(cur[o])] = o
      BY <1>4 DEF Unlock2, IInv, LockInv, WorkInv, Locked
    <2> QED
      BY <1>0, <1>4, <2>1 DEF Unlock2
  <1> QED
    BY <1>1, <1>2, <1>3, <1>4
       DEF OfficeStep, Take, CheckExists, CheckPassword, InsertInUse, InsertStart, InsertField,
           ReadBalance, TransferRefused, Credit, Debit

\* An office that works on an account has its mutex.
LEMMA WorksLocked ==
  ASSUME IInv, NEW o \in Offices, pc[o] \in {"critical", "insert", "debit"}
  PROVE  /\ cur[o].kind = "create" => account_mutex[cur[o].to] = o
         /\ cur[o].kind = "balance" => account_mutex[cur[o].from] = o
         /\ cur[o].kind = "transfer" =>
               account_mutex[cur[o].to] = o /\ account_mutex[cur[o].from] = o
         /\ cur[o].kind \in {"create", "balance", "transfer"}
  <1>1. cur[o] \in Requests /\ cur[o].kind # "shutdown" /\ cur[o].kind \in Kinds
    BY RequestAtWork, RequestFields DEF IInv, WorkInv, Admitted, Locked
  <1>2. /\ account_mutex[FirstLock(cur[o])] = o
        /\ cur[o].kind = "transfer" => account_mutex[SecondLock(cur[o])] = o
    BY DEF IInv, LockInv, Locked
  <1> QED
    BY <1>1, <1>2, RequestLocks DEF Kinds

\* Accounts change under their mutexes only.
LEMMA AccountMoves ==
  ASSUME IInv, NEW o \in Offices, OfficeStep(o), NEW a \in Ids, accounts'[a] # accounts[a]
  PROVE  account_mutex[a] = o /\ pc[o] \in {"critical", "insert", "debit"}
  <1>1. ASSUME NEW f \in Fields, InsertField(o, f)
        PROVE  account_mutex[a] = o /\ pc[o] = "insert"
    <2>1. a = cur[o].to
      BY <1>1, FieldAfter
    <2>2. pc[o] = "insert" /\ cur[o].kind = "create"
      BY <1>1 DEF InsertField, IInv, WorkInv
    <2> QED
      BY <2>1, <2>2, WorksLocked
  <1>2. CASE Credit(o)
    <2>1. a = cur[o].to
      BY <1>2, CreditAfter
    <2> QED
      BY <1>2, <2>1, WorksLocked DEF Credit
  <1>3. CASE Debit(o)
    <2>1. a = cur[o].from
      BY <1>3, DebitAfter
    <2>2. pc[o] = "debit" /\ cur[o].kind = "transfer"
      BY <1>3 DEF Debit, IInv, WorkInv
    <2> QED
      BY <2>1, <2>2, WorksLocked
  <1> QED
    BY <1>1, <1>2, <1>3
       DEF OfficeStep, Take, CheckExists, CheckPassword, Lock1, Lock2, InsertInUse, InsertStart,
           ReadBalance, TransferRefused, Unlock1, Unlock2

\* A header that has been accepted would be accepted again.
LEMMA LoginStays ==
  ASSUME IInv, NEW o \in Offices, OfficeStep(o), NEW a \in Ids
  PROVE  /\ accounts[a].exists => accounts'[a].exists
         /\ accounts[a].pw # NoPassword => accounts'[a].pw = accounts[a].pw
  <1>1. ASSUME NEW f \in Fields, InsertField(o, f)
        PROVE  /\ accounts[a].exists => accounts'[a].exists
               /\ accounts[a].pw # NoPassword => accounts'[a].pw = accounts[a].pw
    <2>1. CASE a = cur[o].to
      <3>1. accounts'[a] = FieldWritten(cur[o], f)
        BY <1>1, <2>1, FieldAfter
      <3>2. f = "pw" => accounts[a].pw = NoPassword
        BY <1>1, <2>1 DEF InsertField, IInv, InsertInv
      <3>3. /\ accounts'[a].exists = (f = "exists" \/ accounts[a].exists)
            /\ accounts'[a].pw = IF f = "pw" THEN cur[o].newPw ELSE accounts[a].pw
        BY <2>1, <3>1 DEF FieldWritten
      <3> QED
        BY <3>2, <3>3
    <2>2. CASE a # cur[o].to
      BY <1>1, <2>2, FieldAfter
    <2> QED
      BY <2>1, <2>2
  <1>2. CASE Credit(o)
    BY <1>2, CreditAfter
  <1>3. CASE Debit(o)
    BY <1>3, DebitAfter
  <1> QED
    BY <1>1, <1>2, <1>3
       DEF OfficeStep, Take, CheckExists, CheckPassword, Lock1, Lock2, InsertInUse, InsertStart,
           ReadBalance, TransferRefused, Unlock1, Unlock2

\* An office answers its own request, which had no reply.
LEMMA OutcomeMoves ==
  ASSUME IInv, NEW o \in Offices, OfficeStep(o), NEW r \in Requests, outcome'[r] # outcome[r]
  PROVE  r = cur[o] /\ outcome[r] = Pending
  <1>0. outcome \in [Requests -> [ret : Rets, balance : Nat]]
    BY DEF IInv, TypeOK
  <1>1. pc[o] \in {"exists", "password", "critical", "insert", "debit"}
        /\ \E ret, balance : Answer(o, ret, balance)
    BY DEF OfficeStep, Take, CheckExists, CheckPassword, Lock1, Lock2, InsertInUse, InsertStart,
           InsertField, ReadBalance, TransferRefused, Credit, Debit, Unlock1, Unlock2
  <1>2. r = cur[o]
    BY <1>0, <1>1 DEF Answer
  <1> QED
    BY <1>1, <1>2 DEF IInv, WorkInv

-----------------------------------------------------------------------------
(* The invariant is inductive.                                             *)

\* Every mutex is where LockInv says after a step.
LEMMA StepLockInv == ASSUME IInv, NEW o \in Offices, OfficeStep(o) PROVE LockInv'
  <1> SUFFICES ASSUME NEW p \in Offices
               PROVE  /\ pc'[p] \in {"lock2"} \cup Locked => account_mutex'[FirstLock(cur'[p])] = p
                      /\ pc'[p] \in {"unlock2"} \cup Locked /\ cur'[p].kind = "transfer" =>
                            account_mutex'[SecondLock(cur'[p])] = p /\ cur'[p].from # cur'[p].to
    BY DEF LockInv
  <1>0. TypeOK /\ LockInv
    BY DEF IInv
  <1>b. {"idle", "exists", "password", "lock1", "lock2", "critical", "insert",
         "debit", "unlock1", "unlock2"} \subseteq Pcs
    BY DEF Pcs
  <1>c. ASSUME NEW q \in Offices, pc[q] # "idle"
        PROVE  FirstLock(cur[q]) \in Ids /\ SecondLock(cur[q]) \in Ids
    BY <1>c, RequestAtWork, RequestLocks
  <1>1. CASE p # o
    <2>1. pc'[p] = pc[p] /\ cur'[p] = cur[p]
      BY <1>1, OthersStay
    <2>2. \A a \in Ids : account_mutex[a] = p => account_mutex'[a] = p
      BY <1>1, AccountsAssumption, MutexMoves
    <2>3. CASE pc[p] \in {"lock2", "unlock2"} \cup Locked
      BY <1>0, <1>c, <2>1, <2>2, <2>3 DEF LockInv, Locked
    <2> QED
      BY <2>1, <2>3
  <1>2. CASE p = o
    <2>1. CASE Take(o) \/ CheckExists(o) \/ CheckPassword(o)
      <3>1. pc'[o] \in {"idle", "exists", "password", "lock1"}
        BY <1>0, <1>b, <2>1, Shorthands DEF Take, CheckExists, CheckPassword
      <3> QED
        BY <1>2, <3>1 DEF Locked
    <2>2. CASE Lock1(o)
      <3>1. /\ cur' = cur /\ account_mutex'[FirstLock(cur[o])] = o
            /\ pc'[o] = IF cur[o].kind = "transfer" THEN "lock2" ELSE "critical"
        BY <1>0, <1>b, <1>c, <2>2, Shorthands DEF Lock1, TypeOK
      <3> QED
        BY <1>2, <3>1 DEF Locked
    <2>3. CASE Lock2(o)
      <3>1. /\ cur' = cur /\ account_mutex'[SecondLock(cur[o])] = o /\ pc'[o] = "critical"
            /\ account_mutex[SecondLock(cur[o])] = Free
        BY <1>0, <1>b, <1>c, <2>3, Shorthands DEF Lock2, TypeOK
      <3>2. account_mutex[FirstLock(cur[o])] = o /\ o # Free /\ pc[o] # "idle"
        BY <1>0, <2>3, AccountsAssumption DEF LockInv, Lock2
      <3>3. account_mutex'[FirstLock(cur[o])] = o
        BY <1>0, <1>c, <2>3, <3>1, <3>2 DEF Lock2, TypeOK
      <3>4. cur[o].kind = "transfer" => cur[o].from # cur[o].to
        BY <3>1, <3>2, RequestAtWork, RequestLocks
      <3> QED
        BY <1>2, <3>1, <3>3, <3>4 DEF Locked
    <2>4. CASE InsertInUse(o)
      <3>1. pc'[o] = "idle"
        BY <1>0, <2>4, Shorthands DEF InsertInUse
      <3> QED
        BY <1>2, <3>1 DEF Locked
    <2>5. CASE \/ InsertStart(o) \/ (\E f \in Fields : InsertField(o, f)) \/ ReadBalance(o)
               \/ TransferRefused(o) \/ Credit(o) \/ Debit(o)
      <3>1. UNCHANGED <<cur, account_mutex>> /\ pc[o] \in Locked /\ pc'[o] \in Locked
        BY <1>0, <1>b, <2>5, Shorthands
           DEF InsertStart, InsertField, ReadBalance, TransferRefused, Credit, Debit, Locked
      <3> QED
        BY <1>0, <1>2, <3>1 DEF LockInv
    <2>6. CASE Unlock1(o)
      <3>1. CASE cur[o].kind = "transfer"
        <4>1. pc'[o] = "unlock2" /\ cur' = cur /\ pc[o] = "unlock1"
          BY <1>0, <1>b, <2>6, <3>1, Shorthands DEF Unlock1
        <4>2. account_mutex[SecondLock(cur[o])] = o /\ cur[o].from # cur[o].to
          BY <1>0, <3>1, <4>1 DEF LockInv, Locked
        <4>3. FirstLock(cur[o]) # SecondLock(cur[o])
          BY <3>1, <4>1, <4>2, RequestAtWork, RequestLocks
        <4>4. account_mutex'[SecondLock(cur[o])] = o
          BY <1>0, <1>c, <2>6, <4>1, <4>2, <4>3 DEF Unlock1, TypeOK
        <4> QED
          BY <1>2, <4>1, <4>2, <4>4 DEF Locked
      <3>2. CASE cur[o].kind # "transfer"
        <4>1. pc'[o] = "idle"
          BY <1>0, <2>6, <3>2, Shorthands DEF Unlock1
        <4> QED
          BY <1>2, <4>1 DEF Locked
      <3> QED
        BY <3>1, <3>2
    <2>7. CASE Unlock2(o)
      <3>1. pc'[o] = "idle"
        BY <1>0, <2>7, Shorthands DEF Unlock2
      <3> QED
        BY <1>2, <3>1 DEF Locked
    <2> QED
      BY <2>1, <2>2, <2>3, <2>4, <2>5, <2>6, <2>7 DEF OfficeStep
  <1> QED
    BY <1>1, <1>2

\* Requests, headers and replies.
LEMMA StepWorkInv == ASSUME IInv, NEW o \in Offices, OfficeStep(o) PROVE WorkInv'
  <1>0. TypeOK /\ WorkInv /\ sent' = sent /\ TypeOK'
    BY OthersStay, StepTypeOK DEF IInv
  <1>b. {"idle", "exists", "password", "lock1", "lock2", "critical", "insert",
         "debit", "unlock1", "unlock2"} \subseteq Pcs
    BY DEF Pcs
  <1>1. ASSUME NEW p \in Offices, pc[p] # "idle"
        PROVE  cur[p] \in Requests /\ cur[p].from \in Ids /\ cur[p].pw # NoPassword
    BY <1>1, RequestAtWork, RequestFields, RequestsAssumption
  <1>2. ASSUME NEW p \in Offices
        PROVE  (pc'[p] = "idle" <=> cur'[p] = NoRequest) /\ (pc'[p] # "idle" => cur'[p] \in sent)
    <2>1. CASE p # o
      BY <1>0, <2>1, OthersStay DEF WorkInv
    <2>2. CASE p = o
      <3>1. CASE Take(o)
        BY <1>0, <1>b, <2>2, <3>1, AccountsAssumption, Shorthands DEF Take, TypeOK
      <3>2. CASE Idle(o)
        BY <1>0, <2>2, <3>2, Shorthands
      <3>3. CASE cur' = cur /\ pc[o] # "idle" /\ pc'[o] # "idle"
        BY <1>0, <2>2, <3>3 DEF WorkInv
      <3> QED
        BY <1>0, <1>b, <3>1, <3>2, <3>3, Shorthands, SMTT(30), ZenonT(30)
           DEF OfficeStep, CheckExists, CheckPassword, Lock1, Lock2, InsertInUse, InsertStart,
               InsertField, ReadBalance, TransferRefused, Credit, Debit, Unlock1, Unlock2
    <2> QED
      BY <2>1, <2>2
  <1>3. ASSUME NEW p \in Offices
        PROVE  /\ pc'[p] \in {"password"} \cup Admitted => accounts'[cur'[p].from].exists
               /\ pc'[p] \in Admitted => /\ accounts'[cur'[p].from].pw = cur'[p].pw
                                         /\ ~NotAllowed(cur'[p]) /\ cur'[p].kind # "shutdown"
    <2>1. CASE pc'[p] = pc[p] /\ cur'[p] = cur[p]
      <3>1. CASE pc[p] \notin {"password"} \cup Admitted
        BY <2>1, <3>1
      <3>2. CASE pc[p] \in {"password"} \cup Admitted
        <4>1. pc[p] # "idle"
          BY <3>2 DEF Admitted, Locked
        <4> QED
          BY <1>0, <1>1, <2>1, <4>1, LoginStays DEF WorkInv
      <3> QED
        BY <3>1, <3>2
    <2>2. CASE p = o
      <3>1. CASE pc'[o] \in {"idle", "exists"}
        BY <2>2, <3>1 DEF Admitted, Locked
      <3>2. CASE CheckExists(o) /\ pc'[o] = "password"
        BY <1>0, <2>2, <3>2, Shorthands DEF CheckExists, Admitted, Locked
      <3>3. CASE CheckPassword(o) /\ pc'[o] = "lock1"
        BY <1>0, <2>2, <3>3, Shorthands DEF CheckPassword, WorkInv
      <3>4. CASE cur' = cur /\ pc[o] \in Admitted
        BY <1>0, <1>1, <2>2, <3>4, LoginStays DEF WorkInv, Admitted, Locked
      <3>5. CASE CheckExists(o) \/ CheckPassword(o)
        BY <1>0, <1>b, <3>1, <3>2, <3>3, <3>5, Shorthands DEF CheckExists, CheckPassword
      <3> QED
        BY <1>0, <1>b, <3>1, <3>4, <3>5, Shorthands
           DEF OfficeStep, Take, Lock1, Lock2, InsertInUse, InsertStart,
               InsertField, ReadBalance, TransferRefused, Credit, Debit, Unlock1, Unlock2,
               Admitted, Locked
    <2> QED
      BY <2>1, <2>2, OthersStay
  <1>4. ASSUME NEW p \in Offices
        PROVE  /\ pc'[p] \in {"lock2", "debit", "unlock2"} => cur'[p].kind = "transfer"
               /\ pc'[p] = "insert" => cur'[p].kind = "create"
    <2>1. CASE pc'[p] = pc[p] /\ cur'[p] = cur[p]
      BY <1>0, <2>1 DEF WorkInv
    <2>2. CASE p = o
      <3>1. CASE pc'[o] \notin {"lock2", "debit", "unlock2", "insert"}
        BY <2>2, <3>1
      <3>2. CASE Lock1(o) \/ Credit(o) \/ Unlock1(o) \/ InsertStart(o)
        BY <1>0, <1>b, <2>2, <3>2, Shorthands DEF Lock1, Credit, Unlock1, InsertStart
      <3>3. CASE \E f \in Fields : InsertField(o, f)
        BY <1>0, <1>b, <2>1, <2>2, <3>3, Shorthands DEF InsertField
      <3> QED
        BY <1>0, <1>b, <3>1, <3>2, <3>3, Shorthands
           DEF OfficeStep, Take, CheckExists, CheckPassword, Lock2, InsertInUse,
               ReadBalance, TransferRefused, Debit, Unlock2
    <2> QED
      BY <2>1, <2>2, OthersStay
  <1>5. ASSUME NEW p \in Offices, NEW q \in Offices, cur'[q] = cur'[p], pc'[p] # "idle"
        PROVE  q = p
    <2>1. cur'[p] # NoRequest
      BY <1>2, <1>5
    <2>2. CASE Take(o)
      BY <1>0, <1>5, <2>1, <2>2, OthersStay DEF Take, TypeOK, WorkInv
    <2>3. CASE Idle(o) \/ cur' = cur
      BY <1>0, <1>5, <2>1, <2>3, OthersStay, Shorthands DEF WorkInv
    <2> QED
      BY <2>2, <2>3
         DEF OfficeStep, CheckExists, CheckPassword, Lock1, Lock2, InsertInUse, InsertStart,
             InsertField, ReadBalance, TransferRefused, Credit, Debit, Unlock1, Unlock2
  <1>6. ASSUME NEW p \in Offices, pc'[p] \notin {"idle", "unlock1", "unlock2"}
        PROVE  outcome'[cur'[p]] = Pending
    <2>1. CASE p # o
      <3>1. pc'[p] = pc[p] /\ cur'[p] = cur[p] /\ cur[p] \in Requests /\ cur[p] # cur[o]
        BY <1>0, <1>1, <1>6, <2>1, OthersStay DEF WorkInv
      <3>2. outcome'[cur[p]] = outcome[cur[p]]
        BY <3>1, OutcomeMoves
      <3> QED
        BY <1>0, <1>6, <3>1, <3>2 DEF WorkInv
    <2>2. CASE p = o
      <3>1. CASE Take(o)
        BY <1>0, <2>2, <3>1, AccountsAssumption DEF Take, TypeOK
      <3>2. CASE UNCHANGED <<cur, outcome>> /\ pc[o] \notin {"idle", "unlock1", "unlock2"}
        BY <1>0, <2>2, <3>2 DEF WorkInv
      <3>3. CASE pc'[o] \in {"idle", "unlock1", "unlock2"}
        BY <1>6, <2>2, <3>3
      <3> QED
        BY <1>0, <1>b, <3>1, <3>2, <3>3, Shorthands
           DEF OfficeStep, CheckExists, CheckPassword, Lock1, Lock2, InsertInUse, InsertStart,
               InsertField, ReadBalance, TransferRefused, Credit, Debit, Unlock1, Unlock2
    <2> QED
      BY <2>1, <2>2
  <1> QED
    BY <1>0, <1>2, <1>3, <1>4, <1>5, <1>6 DEF WorkInv

\* An account being inserted is its inserter's alone.
LEMMA StepInsertInv == ASSUME IInv, NEW o \in Offices, OfficeStep(o) PROVE InsertInv'
  <1>0. TypeOK /\ InsertInv /\ TypeOK'
    BY StepTypeOK DEF IInv
  <1>b. {"idle", "exists", "password", "lock1", "lock2", "critical", "insert",
         "debit", "unlock1", "unlock2"} \subseteq Pcs
    BY DEF Pcs
  <1> SUFFICES ASSUME NEW p \in Offices
               PROVE  /\ written'[p] # {} => pc'[p] = "insert"
                      /\ written'[p] # Fields
                      /\ pc'[p] = "insert" =>
                            LET a == cur'[p].to IN
                            /\ accounts'[a].exists <=> "exists" \in written'[p]
                            /\ accounts'[a].pw = IF "pw" \in written'[p] THEN cur'[p].newPw
                                                                        ELSE NoPassword
                            /\ "balance" \in written'[p] => accounts'[a].balance = cur'[p].amount
    BY DEF InsertInv
  <1>1. CASE p # o
    <2>1. pc'[p] = pc[p] /\ cur'[p] = cur[p] /\ written'[p] = written[p]
      BY <1>1, OthersStay
    <2>2. ASSUME pc[p] = "insert" PROVE accounts'[cur[p].to] = accounts[cur[p].to]
      <3>1. cur[p].kind = "create" /\ cur[p].to \in Ids
        BY <2>2, RequestAtWork, RequestFields DEF IInv, WorkInv
      <3>2. account_mutex[cur[p].to] = p
        BY <2>2, <3>1, WorksLocked
      <3> QED
        BY <1>1, <3>1, <3>2, AccountMoves
    <2> QED
      BY <1>0, <2>1, <2>2 DEF InsertInv
  <1>2. CASE p = o
    <2>1. CASE InsertStart(o)
      <3>1. /\ pc[o] = "critical" /\ pc'[o] = "insert" /\ cur[o].kind = "create"
            /\ ~accounts[cur[o].to].exists /\ UNCHANGED <<accounts, cur, written>>
        BY <1>0, <1>b, <2>1, Shorthands DEF InsertStart
      <3>2. cur[o].to \in Ids /\ account_mutex[cur[o].to] = o
        BY <3>1, RequestAtWork, RequestFields, WorksLocked
      <3>3. ASSUME NEW q \in Offices, pc[q] = "insert", cur[q].to = cur[o].to PROVE FALSE
        <4>1. account_mutex[cur[q].to] = q
          BY <3>3, WorksLocked DEF IInv, WorkInv
        <4> QED
          BY <3>1, <3>2, <3>3, <4>1
      <3>4. accounts[cur[o].to].pw = NoPassword
        BY <3>1, <3>2, <3>3 DEF IInv, AccountInv
      <3>5. written[o] = {}
        BY <1>0, <3>1 DEF InsertInv
      <3> QED
        BY <1>2, <3>1, <3>4, <3>5 DEF Fields
    <2>2. ASSUME NEW f \in Fields, InsertField(o, f), pc'[o] = "insert"
          PROVE  /\ written'[o] # Fields
                 /\ accounts'[cur[o].to].exists <=> "exists" \in written'[o]
                 /\ accounts'[cur[o].to].pw = IF "pw" \in written'[o] THEN cur[o].newPw
                                                                     ELSE NoPassword
                 /\ "balance" \in written'[o] => accounts'[cur[o].to].balance = cur[o].amount
      <3>1. written[o] \cup {f} # Fields /\ written'[o] = written[o] \cup {f}
        BY <1>0, <1>b, <2>2, Shorthands DEF InsertField, TypeOK
      <3>2. accounts'[cur[o].to] = FieldWritten(cur[o], f)
        BY <2>2, FieldAfter
      <3>3. /\ accounts'[cur[o].to].exists = (f = "exists" \/ accounts[cur[o].to].exists)
            /\ accounts'[cur[o].to].pw = IF f = "pw" THEN cur[o].newPw ELSE accounts[cur[o].to].pw
            /\ accounts'[cur[o].to].balance = IF f = "balance" THEN cur[o].amount
                                              ELSE accounts[cur[o].to].balance
        BY <3>2 DEF FieldWritten
      <3>4. /\ accounts[cur[o].to].exists <=> "exists" \in written[o]
            /\ accounts[cur[o].to].pw = IF "pw" \in written[o] THEN cur[o].newPw ELSE NoPassword
            /\ "balance" \in written[o] => accounts[cur[o].to].balance = cur[o].amount
        BY <1>0, <2>2 DEF InsertInv, InsertField
      <3> QED
        BY <3>1, <3>3, <3>4
    <2>3. ASSUME NEW f \in Fields, InsertField(o, f), pc'[o] # "insert"
          PROVE  written'[o] = {}
      BY <1>0, <2>3 DEF InsertField, TypeOK
    <2>4. ASSUME NEW f \in Fields, InsertField(o, f) PROVE cur' = cur
      BY <2>4 DEF InsertField
    <2>5. CASE \E f \in Fields : InsertField(o, f)
      BY <1>2, <2>2, <2>3, <2>4, <2>5 DEF Fields
    <2>6. CASE pc[o] # "insert" /\ pc'[o] # "insert" /\ written' = written
      BY <1>0, <1>2, <2>6 DEF InsertInv, Fields
    <2> QED
      BY <1>0, <1>b, <2>1, <2>5, <2>6, Shorthands
         DEF OfficeStep, Take, CheckExists, CheckPassword, Lock1, Lock2, InsertInUse,
             ReadBalance, TransferRefused, Credit, Debit, Unlock1, Unlock2
  <1> QED
    BY <1>1, <1>2

\* An account that nobody inserts is whole, and no richer than MaxBalance.
LEMMA StepAccountInv == ASSUME IInv, NEW o \in Offices, OfficeStep(o) PROVE AccountInv'
  <1>0. TypeOK /\ TypeOK' /\ AccountInv /\ InsertInv
    BY StepTypeOK DEF IInv
  <1> SUFFICES ASSUME NEW a \in Ids,
                      \A p \in Offices : ~(pc'[p] = "insert" /\ cur'[p].to = a)
               PROVE  /\ accounts'[a].exists <=> accounts'[a].pw # NoPassword
                      /\ accounts'[a].exists => accounts'[a].balance <= MaxBalance
    BY DEF AccountInv
  <1>1. CASE \E f \in Fields : InsertField(o, f) /\ cur[o].to = a
    <2>1. PICK f \in Fields : InsertField(o, f) /\ cur[o].to = a
      BY <1>1
    <2>2. pc[o] = "insert" /\ written[o] \cup {f} = Fields
      BY <1>0, <2>1 DEF InsertField
    <2>3. /\ accounts[a].exists <=> "exists" \in written[o]
          /\ accounts[a].pw = IF "pw" \in written[o] THEN cur[o].newPw ELSE NoPassword
          /\ "balance" \in written[o] => accounts[a].balance = cur[o].amount
      BY <1>0, <2>1, <2>2 DEF InsertInv
    <2>4. /\ accounts'[a].exists = (f = "exists" \/ accounts[a].exists)
          /\ accounts'[a].pw = IF f = "pw" THEN cur[o].newPw ELSE accounts[a].pw
          /\ accounts'[a].balance = IF f = "balance" THEN cur[o].amount ELSE accounts[a].balance
      <3>1. accounts'[a] = FieldWritten(cur[o], f)
        BY <2>1, FieldAfter
      <3> QED
        BY <2>1, <3>1 DEF FieldWritten
    <2>5. cur[o].newPw # NoPassword /\ cur[o].amount <= MaxBalance
      BY <2>2, RequestAtWork, RequestFields, RequestsAssumption
    <2> QED
      BY <2>2, <2>3, <2>4, <2>5 DEF Fields
  <1>2. CASE ~\E f \in Fields : InsertField(o, f) /\ cur[o].to = a
    <2>1. ASSUME NEW p \in Offices, pc[p] = "insert", cur[p].to = a PROVE FALSE
      <3>1. CASE p # o
        BY <2>1, <3>1, OthersStay
      <3>2. CASE p = o
        BY <1>2, <2>1, <3>2
           DEF OfficeStep, Take, CheckExists, CheckPassword, Lock1, Lock2, InsertInUse, InsertStart,
               ReadBalance, TransferRefused, Credit, Debit, Unlock1, Unlock2
      <3> QED
        BY <3>1, <3>2
    <2>2. /\ accounts[a].exists <=> accounts[a].pw # NoPassword
          /\ accounts[a].exists => accounts[a].balance <= MaxBalance
      BY <1>0, <2>1 DEF AccountInv
    <2>3. CASE accounts'[a] = accounts[a]
      BY <2>2, <2>3
    <2>4. CASE Credit(o)
      BY <2>2, <2>4, CreditAfter
    <2>5. CASE Debit(o)
      <3>1. /\ accounts'[a].exists = accounts[a].exists /\ accounts'[a].pw = accounts[a].pw
            /\ accounts[a].balance \in Nat /\ accounts'[a].balance \in Nat
            /\ accounts'[a] = accounts[a] \/ accounts'[a].balance = accounts[a].balance - cur[o].amount
        BY <1>0, <2>5, DebitAfter DEF TypeOK
      <3>2. cur[o].amount \in Nat /\ MaxBalance \in Nat
        BY <2>5, DebitAfter, RequestFields
      <3>3. accounts'[a].balance <= accounts[a].balance
        BY <3>1, <3>2
      <3> QED
        BY <2>2, <3>1, <3>2, <3>3
    <2> QED
      BY <1>2, <2>3, <2>4, <2>5, FieldAfter
         DEF OfficeStep, Take, CheckExists, CheckPassword, Lock1, Lock2, InsertInUse, InsertStart,
             ReadBalance, TransferRefused, Unlock1, Unlock2
  <1> QED
    BY <1>1, <1>2

\* The admin's account, and the money of a transfer between its halves.
LEMMA StepMoneyInv == ASSUME IInv, NEW o \in Offices, OfficeStep(o) PROVE MoneyInv'
  <1>0. TypeOK /\ TypeOK' /\ MoneyInv /\ Admin \in Ids
    BY StepTypeOK, RequestsAssumption DEF IInv
  <1>b. {"idle", "exists", "password", "lock1", "lock2", "critical", "insert",
         "debit", "unlock1", "unlock2"} \subseteq Pcs
    BY DEF Pcs
  <1>1. accounts'[Admin] = accounts[Admin]
    <2>1. ASSUME NEW f \in Fields, InsertField(o, f) PROVE accounts'[Admin] = accounts[Admin]
      BY <1>0, <2>1, FieldAfter DEF MoneyInv, InsertField
    <2>2. ASSUME Credit(o) \/ Debit(o) PROVE accounts'[Admin] = accounts[Admin]
      <3>1. ~NotAllowed(cur[o]) /\ cur[o].kind = "transfer"
        BY <2>2 DEF IInv, WorkInv, Credit, Debit, Admitted, Locked
      <3>2. cur[o].from # Admin /\ cur[o].to # Admin
        BY <3>1 DEF NotAllowed
      <3> QED
        BY <1>0, <2>2, <3>2, CreditAfter, DebitAfter
    <2> QED
      BY <2>1, <2>2
         DEF OfficeStep, Take, CheckExists, CheckPassword, Lock1, Lock2, InsertInUse, InsertStart,
             ReadBalance, TransferRefused, Unlock1, Unlock2
  <1>2. ASSUME NEW p \in Offices, pc'[p] = "insert" PROVE cur'[p].to # Admin
    <2>1. CASE pc[p] = "insert" /\ cur'[p] = cur[p]
      BY <1>0, <2>1 DEF MoneyInv
    <2>2. CASE p = o /\ InsertStart(o)
      BY <1>0, <2>2 DEF MoneyInv, InsertStart
    <2>3. CASE p = o /\ \E f \in Fields : InsertField(o, f)
      BY <2>1, <2>3 DEF InsertField
    <2>4. ASSUME p = o,
                 \/ Take(o) \/ CheckExists(o) \/ CheckPassword(o) \/ Lock1(o) \/ Lock2(o)
                 \/ InsertInUse(o) \/ ReadBalance(o) \/ TransferRefused(o) \/ Credit(o)
                 \/ Debit(o) \/ Unlock1(o) \/ Unlock2(o)
          PROVE  FALSE
      <3>1. \A where \in Pcs : Goto(o, where) => pc'[o] = where
        BY <1>0, Shorthands
      <3>2. Idle(o) => pc'[o] = "idle"
        BY <1>0, Shorthands
      <3>3. CASE Take(o) \/ CheckExists(o) \/ CheckPassword(o)
        BY <1>b, <1>2, <2>4, <3>1, <3>2, <3>3 DEF Take, CheckExists, CheckPassword
      <3>4. CASE Lock1(o) \/ Lock2(o) \/ InsertInUse(o)
        BY <1>b, <1>2, <2>4, <3>1, <3>2, <3>4 DEF Lock1, Lock2, InsertInUse
      <3>5. CASE ReadBalance(o) \/ TransferRefused(o) \/ Credit(o)
        BY <1>b, <1>2, <2>4, <3>1, <3>5 DEF ReadBalance, TransferRefused, Credit
      <3>6. CASE Debit(o) \/ Unlock1(o) \/ Unlock2(o)
        BY <1>b, <1>2, <2>4, <3>1, <3>2, <3>6 DEF Debit, Unlock1, Unlock2
      <3> QED
        BY <2>4, <3>3, <3>4, <3>5, <3>6
    <2>5. CASE p # o
      BY <1>2, <2>1, <2>5, OthersStay
    <2> QED
      BY <2>2, <2>3, <2>4, <2>5 DEF OfficeStep
  <1>3. ASSUME NEW p \in Offices, pc'[p] = "debit"
        PROVE  /\ accounts'[cur'[p].from].balance >= cur'[p].amount
               /\ accounts'[cur'[p].to].exists
               /\ accounts'[cur'[p].to].balance >= cur'[p].amount
    <2>1. CASE p # o
      <3>1. pc[p] = "debit" /\ cur'[p] = cur[p] /\ cur[p].kind = "transfer"
        BY <1>3, <2>1, OthersStay DEF IInv, WorkInv
      <3>2. /\ account_mutex[cur[p].from] = p /\ cur[p].from \in Ids
            /\ account_mutex[cur[p].to] = p /\ cur[p].to \in Ids
        BY <3>1, WorksLocked, RequestAtWork, RequestFields
      <3>3. /\ accounts'[cur[p].from] = accounts[cur[p].from]
            /\ accounts'[cur[p].to] = accounts[cur[p].to]
        BY <2>1, <3>2, AccountMoves
      <3> QED
        BY <1>0, <3>1, <3>3 DEF MoneyInv
    <2>2. CASE p = o
      <3>1. CASE Credit(o)
        <4>1. cur' = cur /\ accounts'[cur[o].from] = accounts[cur[o].from]
          BY <3>1, CreditAfter DEF Credit
        <4>2. accounts'[cur[o].from].balance >= cur[o].amount /\ accounts'[cur[o].to].exists
          BY <3>1, <4>1, CreditAfter
        <4>3. accounts[cur[o].to].balance \in Nat /\ cur[o].amount \in Nat
          BY <1>0, <3>1, CreditAfter, RequestFields DEF TypeOK
        <4>4. accounts'[cur[o].to].balance >= cur[o].amount
          BY <3>1, <4>3, CreditAfter
        <4> QED
          BY <2>2, <4>1, <4>2, <4>4
      <3> QED
        BY <1>0, <1>3, <1>b, <2>2, <3>1, Shorthands
           DEF OfficeStep, Take, CheckExists, CheckPassword, Lock1, Lock2, InsertInUse, InsertStart,
               InsertField, ReadBalance, TransferRefused, Debit, Unlock1, Unlock2
    <2> QED
      BY <2>1, <2>2
  <1> QED
    BY <1>0, <1>1, <1>2, <1>3 DEF MoneyInv

\* It holds at first, when nobody works and only the admin has an account,
LEMMA InitIInv == Init => IInv
  <1> SUFFICES ASSUME Init PROVE IInv
    OBVIOUS
  <1>1. TypeOK
    BY InitTypeOK
  <1>2. /\ \A o \in Offices : pc[o] = "idle" /\ cur[o] = NoRequest /\ written[o] = {}
    BY DEF Init
  <1>3. /\ \A a \in Ids \ {Admin} : ~accounts[a].exists /\ accounts[a].pw = NoPassword
        /\ accounts[Admin] = [exists |-> TRUE, pw |-> AdminPassword, balance |-> 0]
    BY RequestsAssumption DEF Init
  <1>4. LockInv
    BY <1>2 DEF LockInv, Locked
  <1>5. WorkInv
    BY <1>2 DEF WorkInv, Locked, Admitted
  <1>6. InsertInv
    BY <1>2 DEF InsertInv, Fields
  <1>7. AccountInv
    BY <1>3, RequestsAssumption DEF AccountInv
  <1>8. MoneyInv
    BY <1>2, <1>3 DEF MoneyInv
  <1> QED
    BY <1>1, <1>4, <1>5, <1>6, <1>7, <1>8 DEF IInv

\* and every step keeps it.
LEMMA NextIInv == IInv /\ [Next]_vars => IInv'
  <1> SUFFICES ASSUME IInv, [Next]_vars PROVE IInv'
    OBVIOUS
  <1>1. ASSUME NEW o \in Offices, OfficeStep(o) PROVE IInv'
    BY <1>1, StepTypeOK, StepLockInv, StepWorkInv, StepInsertInv, StepAccountInv, StepMoneyInv
       DEF IInv
  <1>2. CASE UNCHANGED vars
    BY <1>2 DEF IInv, TypeOK, LockInv, WorkInv, InsertInv, AccountInv, MoneyInv, vars
  <1> QED
    BY <1>1, <1>2 DEF Next, Quiescent

\* Every reachable state satisfies the inductive invariant.
LEMMA AlwaysIInv == Spec => []IInv
  BY InitIInv, NextIInv, PTL DEF Spec

-----------------------------------------------------------------------------
(* What the offices' mutexes are for.                                      *)

\* Two offices on one account would both hold its mutex.
LEMMA TouchedLocked ==
  ASSUME IInv, NEW o \in Offices, NEW a \in Touches(o)
  PROVE  account_mutex[a] = o
  <1>1. pc[o] \in {"critical", "insert", "debit"}
    BY DEF Touches
  <1>2. CASE cur[o].kind = "create"
    BY <1>1, <1>2, WorksLocked DEF Touches
  <1>3. CASE cur[o].kind = "balance"
    BY <1>1, <1>3, WorksLocked DEF Touches
  <1>4. CASE cur[o].kind = "transfer"
    BY <1>1, <1>4, WorksLocked DEF Touches
  <1> QED
    BY <1>1, <1>2, <1>3, <1>4, WorksLocked

\* The accounts, their mutexes, the offices and the replies keep their types.
THEOREM TypeCorrect == Spec => []TypeOK
  <1>1. IInv => TypeOK
    BY DEF IInv
  <1> QED
    BY <1>1, AlwaysIInv, PTL

\* op_createAccount, op_checkBalance and op_transfer work on an account only
\* under its mutex, so no two offices work on the same one, whatever they do
\* and in whatever order they take their mutexes.
THEOREM MutexesExclude == Spec => []Exclusive
  <1>1. ASSUME IInv PROVE Exclusive
    <2>1. \A o \in Offices : \A a \in Touches(o) : account_mutex[a] = o
      BY <1>1, TouchedLocked
    <2> QED
      BY <2>1 DEF Exclusive
  <1> QED
    BY <1>1, AlwaysIInv, PTL

\* What op_transfer tests under the mutexes holds until its second addBalance:
\* no balance ever leaves 0..MAX_BALANCE, and the admin's stays 0.
THEOREM BalancesBounded == Spec => []BalanceInRange
  <1>1. ASSUME IInv PROVE BalanceInRange
    <2>1. ASSUME NEW a \in Ids, Visible(a), Inserting(a) = {}
          PROVE  accounts[a].balance \in 0..MaxBalance
      <3>1. accounts[a].exists /\ \A o \in Offices : ~(pc[o] = "insert" /\ cur[o].to = a)
        BY <2>1 DEF Visible, Inserting
      <3>2. accounts[a].balance <= MaxBalance
        BY <1>1, <3>1 DEF IInv, AccountInv
      <3>3. accounts[a].balance \in Nat /\ MaxBalance \in Nat
        BY <1>1, RequestsAssumption DEF IInv, TypeOK
      <3> QED
        BY <3>2, <3>3
    <2> QED
      BY <1>1, <2>1 DEF BalanceInRange, IInv, MoneyInv
  <1> QED
    BY <1>1, AlwaysIInv, PTL
=============================================================================
