---------------------------- MODULE BankRequests ----------------------------
(***************************************************************************)
(* Requests and replies of the bank (types.h), and what their headers      *)
(* alone decide.  Amounts and balances are natural numbers: user and       *)
(* server keep them at most MaxBalance, whose double fits in 32 bits.      *)
(***************************************************************************)
EXTENDS Integers

CONSTANTS
    Ids,         \* account ids, ADMIN_ACCOUNT_ID = 0 among them
    Passwords,   \* passwords
    AdminPassword,
    NoPassword,  \* what no password hashes to
    MinBalance, MaxBalance,
    Requests     \* the requests users send

Admin == 0   \* ADMIN_ACCOUNT_ID

Kinds == {"create", "balance", "transfer", "shutdown"}

\* from and pw are the header; to, amount and newPw the arguments.  The name
\* tells two users' equal requests apart.
RequestType == [name : STRING, kind : Kinds, from : Ids, pw : Passwords,
                to : Ids, amount : 0..MaxBalance, newPw : Passwords]

ASSUME RequestsAssumption ==
    /\ Ids \subseteq Nat /\ Admin \in Ids
    /\ MinBalance \in Nat /\ MaxBalance \in Nat
    /\ AdminPassword \in Passwords /\ NoPassword \notin Passwords
    /\ \A r \in Requests :
          /\ r.kind \in Kinds /\ {r.from, r.to} \subseteq Ids
          /\ {r.pw, r.newPw} \subseteq Passwords
          /\ r.amount \in 0..MaxBalance
          /\ r.kind = "create" => r.amount >= MinBalance

\* checkRequestHeader, the permissions: only the admin creates accounts and
\* shuts the server down; the admin has no money.
NotAllowed(r) ==
    \/ r.kind \in {"create", "shutdown"} /\ r.from # Admin
    \/ r.kind = "balance" /\ r.from = Admin
    \/ r.kind = "transfer" /\ Admin \in {r.from, r.to}

\* A reply: its return code, and the balance it carries.
Reply(ret, balance) == [ret |-> ret, balance |-> balance]
Pending == Reply("none", 0)
=============================================================================
