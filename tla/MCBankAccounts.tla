--------------------------- MODULE MCBankAccounts ---------------------------
(* Small instances of BankAccounts for TLC: two client accounts.           *)
EXTENDS BankAccounts, TLC

Request(name, kind, from, pw, to, amount, newPw) ==
    [name |-> name, kind |-> kind, from |-> from, pw |-> pw,
     to |-> to, amount |-> amount, newPw |-> newPw]

McIds == 0..2

Create1 == Request("create1", "create", 0, "adm", 1, 1, "pw1")
Create2 == Request("create2", "create", 0, "adm", 2, 1, "pw2")
\* Another creation of account 1, with more money and a password of its own.
Create1Again == Request("create1again", "create", 0, "adm", 1, 3, "pw2")
Transfer12 == Request("transfer12", "transfer", 1, "pw1", 2, 1, "pw1")
\* Without funds when account 1 has 1, too much as well when it has 3.
Transfer21 == Request("transfer21", "transfer", 2, "pw2", 1, 2, "pw1")
\* Too much when account 1 has 3.
Transfer21Less == Request("transfer21less", "transfer", 2, "pw2", 1, 1, "pw1")
Transfer11 == Request("transfer11", "transfer", 1, "pw1", 1, 1, "pw1")
Balance1 == Request("balance1", "balance", 1, "pw1", 0, 0, "pw1")
\* A header of account 1 with the other password.
Balance1Other == Request("balance1other", "balance", 1, "pw2", 0, 0, "pw1")
TransferToAdmin == Request("transfer10", "transfer", 1, "pw1", 0, 1, "pw1")
BalanceAdmin == Request("balance0", "balance", 0, "adm", 0, 0, "pw1")
ShutdownByClient == Request("shutdown1", "shutdown", 1, "pw1", 0, 0, "pw1")
Shutdown == Request("shutdown0", "shutdown", 0, "adm", 0, 0, "pw1")

\* What users send together: transfers that cross,
Crossing == {Create1, Create2, Transfer12, Transfer21, Balance1}
\* a destination that is nearly full,
Limits == {Create1Again, Create2, Transfer21, Transfer21Less}
\* an id created twice,
Duplicate == {Create1, Create1Again, Create2, Transfer12}
\* a transfer to its own source,
SelfTransfer == {Create1, Transfer11, Balance1}
\* and headers to refuse, some of them of an account that is being created.
Headers == {Create1, TransferToAdmin, BalanceAdmin, ShutdownByClient, Shutdown,
            Balance1Other}

AllLoads == {Crossing, Limits, Duplicate, SelfTransfer, Headers}
DuplicateLoad == {Duplicate}
AllRequests == UNION AllLoads
=============================================================================
