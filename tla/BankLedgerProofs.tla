--------------------------- MODULE BankLedgerProofs ---------------------------
(***************************************************************************)
(* Proofs that the accounts under their mutexes are an indivisible ledger, *)
(* and that its balances add up, for any accounts, offices and requests.   *)
(***************************************************************************)
EXTENDS BankAccountsProofs, WellFoundedInduction

-----------------------------------------------------------------------------
(* Sums: what the library's SumFunction, a recursion over sets, computes.  *)

\* What SumFunction computes, one element after the other.
IsSum(f, iter) ==
    iter = [s \in SUBSET DOMAIN f |->
              IF s = {} THEN 0
              ELSE LET x == CHOOSE x \in s : TRUE
                   IN  f[x] + iter[s \ {x}]]

\* A function of natural numbers as a set of coins: x has f[x] of them.
Coins(f, s) == {c \in s \X Nat : c[2] \in 1..f[c[1]]}

\* A set with x has the coins of x and those of the rest.
LEMMA CoinsOfOne ==
  ASSUME NEW S, NEW f \in [S -> Nat], NEW s \in SUBSET S, IsFiniteSet(s), NEW x \in s,
         IsFiniteSet(Coins(f, s \ {x}))
  PROVE  /\ IsFiniteSet(Coins(f, s))
         /\ Cardinality(Coins(f, s)) = f[x] + Cardinality(Coins(f, s \ {x}))
  <1> DEFINE own == {x} \X (1..f[x])
             rest == Coins(f, s \ {x})
  <1>1. Coins(f, s) = own \cup rest /\ own \cap rest = {}
    BY DEF Coins
  <1>2. IsFiniteSet(1..f[x]) /\ Cardinality(1..f[x]) = f[x]
    BY FS_Interval
  <1>3. IsFiniteSet({x}) /\ Cardinality({x}) = 1
    BY FS_Singleton
  <1>4. IsFiniteSet(own) /\ Cardinality(own) = 1 * f[x]
    <2> DEFINE one == {x}
               many == 1..f[x]
    <2>1. own = one \X many /\ IsFiniteSet(one) /\ IsFiniteSet(many)
      BY <1>2, <1>3
    <2>2. Cardinality(one) = 1 /\ Cardinality(many) = f[x]
      BY <1>2, <1>3
    <2> HIDE DEF own, one, many
    <2> QED
      BY <2>1, <2>2, FS_Product
  <1>5. Cardinality(rest) \in Nat /\ f[x] \in Nat
    BY FS_CardinalityType
  <1>6. IsFiniteSet(rest)
    OBVIOUS
  <1> HIDE DEF own, rest
  <1>7. /\ IsFiniteSet(own \cup rest)
        /\ Cardinality(own \cup rest)
              = Cardinality(own) + Cardinality(rest) - Cardinality(own \cap rest)
    BY <1>4, <1>6, FS_Union
  <1>8. Cardinality(own \cap rest) = 0
    BY <1>1, FS_EmptySet
  <1>9. Cardinality(own \cup rest) = f[x] + Cardinality(rest)
    BY <1>4, <1>5, <1>7, <1>8
  <1> QED
    BY <1>1, <1>7, <1>9 DEF rest

\* A finite set has finitely many coins.
LEMMA CoinsFinite ==
  ASSUME NEW S, NEW f \in [S -> Nat], IsFiniteSet(S), NEW s \in SUBSET S
  PROVE  IsFiniteSet(Coins(f, s))
  <1> DEFINE purse == [x \in s |-> {x} \X (1..f[x])]
             purses == {{x} \X (1..f[x]) : x \in s}
  <1>1. IsFiniteSet(s)
    BY FS_Subset
  <1>2. purse \in Surjection(s, purses)
    BY DEF Surjection
  <1>3. IsFiniteSet(purses)
    BY <1>1, <1>2, FS_Surjection
  <1>4. ASSUME NEW x \in s PROVE IsFiniteSet({x} \X (1..f[x]))
    <2>1. f[x] \in Int /\ 1 \in Int
      OBVIOUS
    <2>2. IsFiniteSet({x}) /\ IsFiniteSet(1..f[x])
      BY <2>1, FS_Singleton, FS_Interval
    <2> QED
      BY <2>2, FS_Product
  <1>5. IsFiniteSet(UNION purses)
    BY <1>3, <1>4, FS_UNION
  <1>6. Coins(f, s) = UNION purses
    BY DEF Coins
  <1> QED
    BY <1>5, <1>6

\* Counting coins is a way of adding up,
LEMMA CoinsSum ==
  ASSUME NEW S, NEW f \in [S -> Nat], IsFiniteSet(S)
  PROVE  IsSum(f, [s \in SUBSET S |-> Cardinality(Coins(f, s))])
  <1> DEFINE h == [s \in SUBSET S |-> Cardinality(Coins(f, s))]
  <1>1. DOMAIN f = S
    OBVIOUS
  <1>2. h[{}] = 0
    BY FS_EmptySet DEF Coins
  <1>3. ASSUME NEW s \in SUBSET S, NEW x \in s PROVE h[s] = f[x] + h[s \ {x}]
    BY CoinsOfOne, CoinsFinite, FS_Subset
  <1>4. ASSUME NEW s \in SUBSET S
        PROVE  h[s] = IF s = {} THEN 0 ELSE LET x == CHOOSE x \in s : TRUE IN f[x] + h[s \ {x}]
    <2>1. CASE s # {}
      <3>1. (CHOOSE x \in s : TRUE) \in s
        BY <2>1
      <3> HIDE DEF h
      <3> QED
        BY <1>3, <2>1, <3>1
    <2> QED
      BY <1>2, <2>1
  <1>5. h = [s \in SUBSET S |-> h[s]]
    OBVIOUS
  <1> HIDE DEF h
  <1>6. IsSum(f, h)
    BY <1>1, <1>4, <1>5 DEF IsSum
  <1> QED
    BY <1>6 DEF h

\* and all ways give the same: a smallest set on which two differ has an
\* element less on which they differ too.
LEMMA SumUnique ==
  ASSUME NEW S, NEW f \in [S -> Nat], IsFiniteSet(S), NEW g, IsSum(f, g), NEW h, IsSum(f, h)
  PROVE  g[S] = h[S]
  <1> DEFINE differ == {s \in SUBSET S : g[s] # h[s]}
             Smaller == StrictSubsetOrdering(S)
  <1> SUFFICES ASSUME differ # {} PROVE FALSE
    OBVIOUS
  <1>1. IsWellFoundedOn(Smaller, FiniteSubsetsOf(S))
    BY FS_StrictSubsetOrderingWellFounded
  <1>2. differ \subseteq FiniteSubsetsOf(S)
    BY FS_Subset DEF FiniteSubsetsOf
  <1>3. PICK s \in differ : \A t \in differ : ~(<<t, s>> \in Smaller)
    <2> HIDE DEF differ, Smaller
    <2> QED
      BY <1>1, <1>2, WFMin
  <1>4. /\ g[s] = IF s = {} THEN 0 ELSE LET x == CHOOSE x \in s : TRUE IN f[x] + g[s \ {x}]
        /\ h[s] = IF s = {} THEN 0 ELSE LET x == CHOOSE x \in s : TRUE IN f[x] + h[s \ {x}]
    BY DEF IsSum
  <1>5. s # {}
    BY <1>3, <1>4
  <1> DEFINE x == CHOOSE y \in s : TRUE
  <1>6. x \in s
    BY <1>5
  <1>7. s \ {x} \notin differ
    <2>1. <<s \ {x}, s>> \in Smaller
      BY <1>3, <1>6 DEF StrictSubsetOrdering
    <2> HIDE DEF differ, Smaller
    <2> QED
      BY <1>3, <2>1
  <1>8. g[s \ {x}] = h[s \ {x}]
    BY <1>7
  <1> QED
    BY <1>3, <1>4, <1>5, <1>8

\* So a sum is a number of coins.
LEMMA SumIsCoins ==
  ASSUME NEW S, NEW f \in [S -> Nat], IsFiniteSet(S)
  PROVE  SumFunction(f) = Cardinality(Coins(f, S))
  <1> DEFINE h == [s \in SUBSET S |-> Cardinality(Coins(f, s))]
             iter == CHOOSE i : IsSum(f, i)
  <1>1. IsSum(f, h)
    BY CoinsSum
  <1>2. IsSum(f, iter)
    BY <1>1
  <1>3. iter[S] = h[S]
    <2> HIDE DEF h, iter
    <2> QED
      BY <1>1, <1>2, SumUnique
  <1>4. SumFunction(f) = iter[DOMAIN f]
    BY DEF SumFunction, SumFunctionOnSet, FoldFunctionOnSet, MapThenFoldSet, IsSum
  <1> QED
    BY <1>3, <1>4

\* A sum is the sum without one element and that element.
LEMMA SumWithout ==
  ASSUME NEW S, NEW f \in [S -> Nat], IsFiniteSet(S), NEW x \in S
  PROVE  /\ SumFunction(f) = f[x] + SumFunction([y \in S \ {x} |-> f[y]])
         /\ SumFunction(f) \in Nat /\ SumFunction([y \in S \ {x} |-> f[y]]) \in Nat
  <1> DEFINE g == [y \in S \ {x} |-> f[y]]
  <1>1. g \in [S \ {x} -> Nat] /\ IsFiniteSet(S \ {x}) /\ S \ {x} \in SUBSET S
    BY FS_Subset
  <1>2. Coins(g, S \ {x}) = Coins(f, S \ {x})
    BY DEF Coins
  <1>3. SumFunction(g) = Cardinality(Coins(f, S \ {x}))
    BY <1>1, <1>2, SumIsCoins
  <1>4. IsFiniteSet(Coins(f, S \ {x})) /\ IsFiniteSet(Coins(f, S))
    BY <1>1, CoinsFinite
  <1>5. Cardinality(Coins(f, S)) = f[x] + Cardinality(Coins(f, S \ {x}))
    BY <1>4, CoinsOfOne
  <1>6. SumFunction(f) = Cardinality(Coins(f, S))
    BY SumIsCoins
  <1> QED
    BY <1>3, <1>4, <1>5, <1>6, FS_CardinalityType

\* Sums of nothing.
LEMMA SumOfZeros ==
  ASSUME NEW S, NEW f \in [S -> Nat], IsFiniteSet(S), \A x \in S : f[x] = 0
  PROVE  SumFunction(f) = 0
  <1>1. Coins(f, S) = {}
    BY DEF Coins
  <1> QED
    BY <1>1, SumIsCoins, FS_EmptySet

\* A sum over no elements.
LEMMA SumOfNone ==
  ASSUME NEW f \in [{} -> Nat] PROVE SumFunction(f) = 0
  BY SumOfZeros, FS_EmptySet

\* A sum is a natural number.
LEMMA SumType ==
  ASSUME NEW S, NEW f \in [S -> Nat], IsFiniteSet(S) PROVE SumFunction(f) \in Nat
  <1>1. SumFunction(f) = Cardinality(Coins(f, S))
    BY SumIsCoins
  <1>2. IsFiniteSet(Coins(f, S))
    BY CoinsFinite
  <1> QED
    BY <1>1, <1>2, FS_CardinalityType

\* A sum of one number.
LEMMA SumOfOne ==
  ASSUME NEW x, NEW f \in [{x} -> Nat] PROVE SumFunction(f) = f[x]
  <1> DEFINE S == {x}
  <1>1. IsFiniteSet(S) /\ x \in S /\ f \in [S -> Nat] /\ f[x] \in Nat
    BY FS_Singleton
  <1>2. [y \in S \ {x} |-> f[y]] \in [{} -> Nat]
    OBVIOUS
  <1> HIDE DEF S
  <1>3. SumFunction(f) = f[x] + SumFunction([y \in S \ {x} |-> f[y]])
    BY <1>1, SumWithout
  <1>4. SumFunction([y \in S \ {x} |-> f[y]]) = 0
    BY <1>2, SumOfNone
  <1> QED
    BY <1>1, <1>3, <1>4

\* A sum one of whose numbers changes.
LEMMA SumChange ==
  ASSUME NEW S, IsFiniteSet(S), NEW f \in [S -> Nat], NEW g \in [S -> Nat], NEW x \in S,
         \A y \in S \ {x} : g[y] = f[y]
  PROVE  SumFunction(g) = SumFunction(f) - f[x] + g[x]
  <1> DEFINE rest == SumFunction([y \in S \ {x} |-> f[y]])
  <1>1. SumFunction(f) = f[x] + rest /\ rest \in Nat
    BY SumWithout
  <1>2. [y \in S \ {x} |-> g[y]] = [y \in S \ {x} |-> f[y]]
    OBVIOUS
  <1>3. SumFunction(g) = g[x] + rest
    BY <1>2, SumWithout
  <1> HIDE DEF rest
  <1> QED
    BY <1>1, <1>3

-----------------------------------------------------------------------------
(* What the ledger sees of a state.                                        *)

Bank == [a \in Ids |-> BankAt(a)]
Replies == [r \in Requests |-> OutcomeOf(r)]

\* The account of an office's own making, and any other whose mutex it has.
HeldInv ==
    \A a \in Ids, o \in Offices : account_mutex[a] = o =>
        IF pc[o] = "insert" /\ cur[o].to = a
        THEN BankAt(a) = IF Visible(a) THEN [pw |-> cur[o].newPw, balance |-> cur[o].amount]
                                       ELSE L!NoAccount
        ELSE /\ Visible(a) <=> accounts[a].exists
             /\ Visible(a) => BankAt(a) =
                  [pw |-> accounts[a].pw,
                   balance |-> accounts[a].balance
                                 - IF pc[o] = "debit" /\ cur[o].to = a THEN cur[o].amount ELSE 0]

\* The reply of the request that an office has, and of the others.
ReplyInv ==
    \A r \in Requests :
        /\ \A o \in Offices : cur[o] = r =>
              OutcomeOf(r) = IF pc[o] = "insert" /\ Visible(r.to) THEN Reply("OK", 0)
                                                                  ELSE outcome[r]
        /\ (\A o \in Offices : cur[o] # r) => OutcomeOf(r) = outcome[r]

\* An account is in the ledger when a login would succeed.
LoginInv ==
    \A a \in Ids : /\ L!Exists(a) <=> Visible(a)
                   /\ Visible(a) => BankAt(a).pw = accounts[a].pw

\* What is in flight to an account that nobody, or one office, has credited.
LEMMA InFlightOfNone ==
  ASSUME NEW a, Crediting(a) = {}
  PROVE  InFlight(a) = 0
  <1>1. [o \in Crediting(a) |-> cur[o].amount] \in [{} -> Nat]
    OBVIOUS
  <1> QED
    BY <1>1, SumOfNone DEF InFlight

\* And to one that one office has credited.
LEMMA InFlightOfOne ==
  ASSUME NEW a, NEW o, Crediting(a) = {o}, cur[o].amount \in Nat
  PROVE  InFlight(a) = cur[o].amount
  <1>1. [p \in Crediting(a) |-> cur[p].amount] \in [{o} -> Nat]
    OBVIOUS
  <1>2. [p \in Crediting(a) |-> cur[p].amount][o] = cur[o].amount
    OBVIOUS
  <1> QED
    BY <1>1, <1>2, SumOfOne DEF InFlight

\* Whoever inserts an account or has credited it has its mutex.
LEMMA HolderAlone ==
  ASSUME IInv, NEW a \in Ids, NEW o \in Offices, account_mutex[a] = o
  PROVE  /\ Inserting(a) = IF pc[o] = "insert" /\ cur[o].to = a THEN {o} ELSE {}
         /\ Crediting(a) = IF pc[o] = "debit" /\ cur[o].to = a THEN {o} ELSE {}
  <1>1. ASSUME NEW p \in Offices, pc[p] \in {"insert", "debit"}, cur[p].to = a PROVE p = o
    <2>1. cur[p].kind \in {"create", "transfer"}
      BY <1>1 DEF IInv, WorkInv
    <2> QED
      BY <1>1, <2>1, WorksLocked
  <1> QED
    BY <1>1 DEF Inserting, Crediting

\* HeldInv follows from the mutexes.
LEMMA Held == IInv => HeldInv
  <1> SUFFICES ASSUME IInv, NEW a \in Ids, NEW o \in Offices, account_mutex[a] = o
               PROVE  IF pc[o] = "insert" /\ cur[o].to = a
                      THEN BankAt(a) = IF Visible(a)
                                       THEN [pw |-> cur[o].newPw, balance |-> cur[o].amount]
                                       ELSE L!NoAccount
                      ELSE /\ Visible(a) <=> accounts[a].exists
                           /\ Visible(a) => BankAt(a) =
                                [pw |-> accounts[a].pw,
                                 balance |-> accounts[a].balance
                                   - IF pc[o] = "debit" /\ cur[o].to = a THEN cur[o].amount ELSE 0]
    BY DEF HeldInv
  <1>1. CASE pc[o] = "insert" /\ cur[o].to = a
    <2>1. Inserting(a) = {o}
      BY <1>1, HolderAlone
    <2>2. (CHOOSE r \in {cur[p] : p \in Inserting(a)} : TRUE) = cur[o]
      BY <2>1
    <2>3. Visible(a) => accounts[a].pw = cur[o].newPw
      BY <1>1 DEF IInv, InsertInv, Visible
    <2>4. BankAt(a) = IF Visible(a) THEN [pw |-> cur[o].newPw, balance |-> cur[o].amount]
                                    ELSE L!NoAccount
      BY <2>1, <2>2, <2>3 DEF BankAt, L!NoAccount
    <2> QED
      BY <1>1, <2>4
  <1>2. CASE ~(pc[o] = "insert" /\ cur[o].to = a)
    <2>1. Inserting(a) = {}
      BY <1>2, HolderAlone
    <2>2. Visible(a) <=> accounts[a].exists
      BY <2>1 DEF Visible, Inserting, IInv, AccountInv
    <2>3. InFlight(a) = IF pc[o] = "debit" /\ cur[o].to = a THEN cur[o].amount ELSE 0
      <3>1. CASE pc[o] = "debit" /\ cur[o].to = a
        <4>1. Crediting(a) = {o} /\ cur[o].amount \in Nat
          BY <3>1, HolderAlone, RequestAtWork, RequestFields
        <4> QED
          BY <3>1, <4>1, InFlightOfOne
      <3>2. CASE ~(pc[o] = "debit" /\ cur[o].to = a)
        BY <3>2, HolderAlone, InFlightOfNone
      <3> QED
        BY <3>1, <3>2
    <2> QED
      BY <1>2, <2>1, <2>2, <2>3 DEF BankAt
  <1> QED
    BY <1>1, <1>2

\* ReplyInv follows from each request being one office's at most.
LEMMA Replied == IInv => ReplyInv
  <1> SUFFICES ASSUME IInv, NEW r \in Requests
               PROVE  /\ \A o \in Offices : cur[o] = r =>
                            OutcomeOf(r) = IF pc[o] = "insert" /\ Visible(r.to)
                                           THEN Reply("OK", 0) ELSE outcome[r]
                      /\ (\A o \in Offices : cur[o] # r) => OutcomeOf(r) = outcome[r]
    BY DEF ReplyInv
  <1>1. ASSUME NEW o \in Offices, cur[o] = r
        PROVE  OutcomeOf(r) = IF pc[o] = "insert" /\ Visible(r.to)
                              THEN Reply("OK", 0) ELSE outcome[r]
    <2>1. \A p \in Offices : cur[p] = r => p = o
      <3>1. pc[o] # "idle"
        BY <1>1, AccountsAssumption DEF IInv, WorkInv
      <3> QED
        BY <1>1, <3>1 DEF IInv, WorkInv
    <2>2. (\E p \in Inserting(r.to) : cur[p] = r /\ Visible(r.to))
            <=> pc[o] = "insert" /\ Visible(r.to)
      BY <1>1, <2>1 DEF Inserting
    <2> QED
      BY <2>2 DEF OutcomeOf
  <1>2. ASSUME \A o \in Offices : cur[o] # r PROVE OutcomeOf(r) = outcome[r]
    BY <1>2 DEF OutcomeOf, Inserting
  <1> QED
    BY <1>1, <1>2

\* LoginInv holds because no password is NoPassword.
LEMMA LoggedIn == IInv => LoginInv
  <1> SUFFICES ASSUME IInv, NEW a \in Ids
               PROVE  (L!Exists(a) <=> Visible(a)) /\ (Visible(a) => BankAt(a).pw = accounts[a].pw)
    BY DEF LoginInv
  <1>1. Visible(a) => BankAt(a).pw = accounts[a].pw
    BY DEF BankAt
  <1>2. Visible(a) => accounts[a].pw # NoPassword
    BY DEF Visible
  <1>3. ~Visible(a) => BankAt(a) = L!NoAccount
    BY DEF BankAt, L!NoAccount
  <1>4. L!NoAccount.pw = NoPassword
    BY DEF L!NoAccount
  <1>5. L!Exists(a) <=> BankAt(a) # L!NoAccount
    BY DEF L!Exists
  <1> QED
    BY <1>1, <1>2, <1>3, <1>4, <1>5

\* The same after a step.
LEMMA SeenNext == IInv' => HeldInv' /\ ReplyInv' /\ LoginInv'
  BY Held, Replied, LoggedIn, PTL

-----------------------------------------------------------------------------
(* What a step leaves alone in the ledger.                                 *)

\* A step that goes on with an operation keeps its mutexes and its request.
LEMMA Working ==
  ASSUME IInv, NEW o \in Offices, OfficeStep(o), pc'[o] \in {"insert", "debit"}
  PROVE  pc[o] \in {"critical", "insert", "debit"} /\ UNCHANGED <<cur, account_mutex>>
  <1>1. TypeOK
    BY DEF IInv
  <1>b. {"idle", "exists", "password", "lock1", "lock2", "critical", "insert",
         "debit", "unlock1", "unlock2"} \subseteq Pcs
    BY DEF Pcs
  <1> QED
    BY <1>1, <1>b, Shorthands
       DEF OfficeStep, Take, CheckExists, CheckPassword, Lock1, Lock2, InsertInUse, InsertStart,
           InsertField, ReadBalance, TransferRefused, Credit, Debit, Unlock1, Unlock2

\* An account is the ledger's account, and nothing of it is in progress.
LEMMA BankStays ==
  ASSUME IInv, NEW o \in Offices, OfficeStep(o), NEW a \in Ids, accounts'[a] = accounts[a],
         ~(pc[o] \in {"insert", "debit"} /\ cur[o].to = a),
         ~(pc'[o] \in {"insert", "debit"} /\ cur'[o].to = a)
  PROVE  BankAt(a)' = BankAt(a)
  <1>1. \A p \in Offices : p # o => pc'[p] = pc[p] /\ cur'[p] = cur[p]
    BY OthersStay
  <1>2. /\ Inserting(a)' = Inserting(a) /\ \A p \in Inserting(a) : cur'[p] = cur[p]
        /\ Crediting(a)' = Crediting(a) /\ \A p \in Crediting(a) : cur'[p] = cur[p]
    BY <1>1 DEF Inserting, Crediting
  <1>3. {cur[p] : p \in Inserting(a)}' = {cur[p] : p \in Inserting(a)}
    BY <1>2
  <1>4. InFlight(a)' = InFlight(a)
    <2>1. [p \in Crediting(a) |-> cur[p].amount]' = [p \in Crediting(a) |-> cur[p].amount]
      BY <1>2
    <2> QED
      BY <2>1 DEF InFlight
  <1>5. Visible(a)' <=> Visible(a)
    BY DEF Visible
  <1> QED
    BY <1>2, <1>3, <1>4, <1>5 DEF BankAt

\* The ledger's account is changed by who works on the account, if by anybody.
LEMMA BankMoves ==
  ASSUME IInv, IInv', NEW o \in Offices, OfficeStep(o), NEW a \in Ids,
         ~(account_mutex[a] = o /\ pc[o] \in {"critical", "insert", "debit"})
  PROVE  BankAt(a)' = BankAt(a)
  <1>1. accounts'[a] = accounts[a]
    BY AccountMoves
  <1>2. ~(pc[o] \in {"insert", "debit"} /\ cur[o].to = a)
    BY WorksLocked DEF IInv, WorkInv
  <1>3. ~(pc'[o] \in {"insert", "debit"} /\ cur'[o].to = a)
    <2>1. SUFFICES ASSUME pc'[o] \in {"insert", "debit"}, cur'[o].to = a PROVE FALSE
      OBVIOUS
    <2>2. pc[o] \in {"critical", "insert", "debit"} /\ cur[o].to = a
      BY <2>1, Working
    <2>3. cur[o].kind \in {"create", "transfer"}
      BY <2>1, Working DEF IInv, WorkInv
    <2> QED
      BY <2>2, <2>3, WorksLocked
  <1> QED
    BY <1>1, <1>2, <1>3, BankStays

\* A step that leaves the accounts alone, and is no part of an insertion or a
\* transfer, leaves the ledger alone.
LEMMA BankSame ==
  ASSUME IInv, NEW o \in Offices, OfficeStep(o), accounts' = accounts,
         pc[o] \notin {"insert", "debit"}, pc'[o] \notin {"insert", "debit"}
  PROVE  Bank' = Bank
  <1>1. ASSUME NEW a \in Ids PROVE BankAt(a)' = BankAt(a)
    BY BankStays
  <1> QED
    BY <1>1 DEF Bank

\* An office answers its own request only.
LEMMA RepliesMove ==
  ASSUME IInv, IInv', NEW o \in Offices, OfficeStep(o), NEW r \in Requests, r # cur[o]
  PROVE  OutcomeOf(r)' = OutcomeOf(r)
  <1>1. outcome'[r] = outcome[r]
    BY OutcomeMoves
  <1>2. \A p \in Offices : p # o => pc'[p] = pc[p] /\ cur'[p] = cur[p]
    BY OthersStay
  <1>3. ReplyInv /\ ReplyInv'
    BY Replied, SeenNext
  <1>4. CASE \E p \in Offices \ {o} : cur[p] = r
    <2>1. PICK p \in Offices \ {o} : cur[p] = r
      BY <1>4
    <2>2. OutcomeOf(r) = IF pc[p] = "insert" /\ Visible(r.to) THEN Reply("OK", 0) ELSE outcome[r]
      BY <1>3, <2>1 DEF ReplyInv
    <2>3. OutcomeOf(r)' = IF pc[p] = "insert" /\ Visible(r.to)' THEN Reply("OK", 0)
                                                               ELSE outcome[r]
      BY <1>1, <1>2, <1>3, <2>1 DEF ReplyInv
    <2>4. CASE pc[p] = "insert"
      <3>1. account_mutex[r.to] = p /\ r.to \in Ids
        BY <2>1, <2>4, WorksLocked, RequestFields DEF IInv, WorkInv
      <3>2. accounts'[r.to] = accounts[r.to]
        BY <2>1, <3>1, AccountMoves
      <3> QED
        BY <2>2, <2>3, <3>2 DEF Visible
    <2> QED
      BY <2>2, <2>3, <2>4
  <1>5. CASE \A p \in Offices : cur[p] # r
    <2>1. OutcomeOf(r) = outcome[r]
      BY <1>3, <1>5 DEF ReplyInv
    <2>2. \A p \in Offices : cur'[p] = r => p = o /\ pc'[o] # "insert"
      BY <1>2, <1>5, Working
    <2>3. OutcomeOf(r)' = outcome[r]
      BY <1>1, <1>3, <2>2 DEF ReplyInv
    <2> QED
      BY <2>1, <2>3
  <1> QED
    BY <1>4, <1>5

\* Of the office's own request.
LEMMA OwnReply ==
  ASSUME IInv, IInv', NEW o \in Offices, OfficeStep(o), NEW r \in Requests, r = cur[o]
  PROVE  /\ OutcomeOf(r) = IF pc[o] = "insert" /\ Visible(r.to) THEN Reply("OK", 0)
                                                               ELSE outcome[r]
         /\ OutcomeOf(r)' = IF pc'[o] = "insert" /\ Visible(r.to)' THEN Reply("OK", 0)
                                                                 ELSE outcome'[r]
  <1>1. OutcomeOf(r) = IF pc[o] = "insert" /\ Visible(r.to) THEN Reply("OK", 0) ELSE outcome[r]
    BY Replied DEF ReplyInv
  <1>2. pc[o] # "idle"
    BY AccountsAssumption DEF IInv, WorkInv
  <1>3. \A p \in Offices \ {o} : cur'[p] # r
    BY <1>2, OthersStay DEF IInv, WorkInv
  <1>4. ReplyInv'
    BY SeenNext
  <1>5. CASE cur'[o] = r
    BY <1>1, <1>4, <1>5 DEF ReplyInv
  <1>6. CASE cur'[o] # r
    <2>1. pc'[o] # "insert"
      BY <1>6, Working
    <2> QED
      BY <1>1, <1>3, <1>4, <1>6, <2>1 DEF ReplyInv
  <1> QED
    BY <1>5, <1>6

\* A step that answers nobody and inserts nothing leaves the replies alone.
LEMMA ReplySame ==
  ASSUME IInv, IInv', NEW o \in Offices, OfficeStep(o), outcome' = outcome,
         pc[o] # "insert", pc'[o] # "insert"
  PROVE  Replies' = Replies
  <1>1. ASSUME NEW r \in Requests PROVE OutcomeOf(r)' = OutcomeOf(r)
    <2>1. CASE r = cur[o]
      BY <2>1, OwnReply
    <2>2. CASE r # cur[o]
      BY <2>2, RepliesMove
    <2> QED
      BY <2>1, <2>2
  <1> QED
    BY <1>1 DEF Replies

\* A reply that is given to a request that had none.
LEMMA ReplyGiven ==
  ASSUME IInv, IInv', NEW o \in Offices, OfficeStep(o), NEW r \in Requests, r = cur[o],
         NEW ret, NEW balance, OutcomeOf(r) = Pending, OutcomeOf(r)' = Reply(ret, balance)
  PROVE  L!Answer(r, ret, balance)
  <1>1. \A q \in Requests \ {r} : OutcomeOf(q)' = OutcomeOf(q)
    BY RepliesMove
  <1>2. Replies[r] = Pending
    BY DEF Replies
  <1>3. Replies' = [Replies EXCEPT ![r] = Reply(ret, balance)]
    BY <1>1 DEF Replies
  <1> QED
    BY <1>2, <1>3 DEF L!Answer, L!Pending, L!Reply, Pending, Reply, Replies

\* The same, outside an insertion.
LEMMA AnswerGiven ==
  ASSUME IInv, IInv', NEW o \in Offices, OfficeStep(o), NEW r \in Requests, r = cur[o],
         NEW ret \in Rets, NEW balance \in Nat, Answer(o, ret, balance),
         pc[o] \in {"exists", "password", "critical", "debit"}, pc'[o] # "insert"
  PROVE  L!Answer(r, ret, balance)
  <1>1. outcome[r] = Pending
    BY DEF IInv, WorkInv
  <1>2. outcome'[r] = Reply(ret, balance)
    BY Shorthands DEF IInv
  <1>3. OutcomeOf(r) = Pending /\ OutcomeOf(r)' = Reply(ret, balance)
    BY <1>1, <1>2, OwnReply
  <1> QED
    BY <1>3, ReplyGiven

\* A header that has been accepted is one the ledger accepts.
LEMMA HeaderAccepted ==
  ASSUME IInv, NEW o \in Offices, NEW r \in Requests, r = cur[o], pc[o] \in Admitted
  PROVE  L!Accepted(r, r.kind)
  <1>1. accounts[r.from].exists /\ accounts[r.from].pw = r.pw /\ ~NotAllowed(r)
    BY DEF IInv, WorkInv
  <1>2. r.from \in Ids /\ r.pw # NoPassword
    BY RequestFields, RequestsAssumption
  <1>3. Visible(r.from)
    BY <1>1, <1>2 DEF Visible
  <1>4. L!Exists(r.from) /\ BankAt(r.from).pw = r.pw
    BY <1>1, <1>2, <1>3, LoggedIn DEF LoginInv
  <1>5. ~L!NotAllowed(r)
    BY <1>1 DEF NotAllowed, L!NotAllowed, Admin, L!Admin
  <1> QED
    BY <1>2, <1>4, <1>5 DEF L!Accepted, L!Login

-----------------------------------------------------------------------------
(* Every step is a step of the ledger, or none.                            *)

\* checkRequestHeader.
LEMMA HeaderStep ==
  ASSUME IInv, IInv', NEW o \in Offices, OfficeStep(o), CheckExists(o) \/ CheckPassword(o)
  PROVE  L!Next \/ UNCHANGED L!vars
  <1> DEFINE r == cur[o]
  <1>0. TypeOK /\ pc[o] \in {"exists", "password"}
    BY DEF IInv, CheckExists, CheckPassword
  <1>1. r \in Requests /\ r.from \in Ids /\ r.pw # NoPassword /\ 0 \in Nat
        /\ {"LOGIN_FAIL", "OP_NALLOW", "OK"} \subseteq Rets
    BY <1>0, RequestAtWork, RequestFields, RequestsAssumption DEF Rets
  <1>b. {"idle", "exists", "password", "lock1", "lock2", "critical", "insert",
         "debit", "unlock1", "unlock2"} \subseteq Pcs
    BY DEF Pcs
  <1>2. accounts' = accounts /\ pc'[o] \in {"idle", "password", "lock1"}
    BY <1>0, <1>b, Shorthands DEF CheckExists, CheckPassword
  <1>3. Bank' = Bank
    BY <1>0, <1>2, BankSame
  <1>4. CASE UNCHANGED <<cur, outcome>>
    <2>1. Replies' = Replies
      BY <1>0, <1>2, <1>4, ReplySame
    <2> QED
      BY <1>3, <2>1 DEF L!vars, Bank, Replies
  <1>5. L!Exists(r.from) <=> Visible(r.from)
    BY <1>1, LoggedIn DEF LoginInv
  <1>6. Visible(r.from) => BankAt(r.from).pw = accounts[r.from].pw
    BY <1>1, LoggedIn DEF LoginInv
  <1>7. CASE /\ Answer(o, "LOGIN_FAIL", 0)
             /\ ~accounts[r.from].exists \/ accounts[r.from].pw # r.pw
    <2>1. L!Answer(r, "LOGIN_FAIL", 0)
      BY <1>0, <1>1, <1>2, <1>7, AnswerGiven
    <2>2. ~L!Exists(r.from) \/ BankAt(r.from).pw # r.pw
      BY <1>5, <1>6, <1>7 DEF Visible
    <2>3. L!LoginFail(r)
      BY <1>1, <1>3, <2>1, <2>2 DEF L!LoginFail, Bank
    <2> QED
      BY <1>1, <2>3 DEF L!Next
  <1>8. CASE CheckPassword(o) /\ accounts[r.from].pw = r.pw
    <2>1. accounts[r.from].exists
      BY <1>8 DEF CheckPassword, IInv, WorkInv
    <2>2. L!Login(r)
      BY <1>1, <1>5, <1>6, <1>8, <2>1 DEF L!Login, Visible
    <2>3. L!NotAllowed(r) <=> NotAllowed(r)
      BY DEF NotAllowed, L!NotAllowed, Admin, L!Admin
    <2>4. CASE NotAllowed(r)
      <3>1. Answer(o, "OP_NALLOW", 0)
        BY <1>8, <2>4 DEF CheckPassword
      <3>2. L!Answer(r, "OP_NALLOW", 0)
        BY <1>0, <1>1, <1>2, <3>1, AnswerGiven
      <3>3. L!Refuse(r)
        BY <1>3, <2>2, <2>3, <2>4, <3>2 DEF L!Refuse, Bank
      <3> QED
        BY <1>1, <3>3 DEF L!Next
    <2>5. CASE ~NotAllowed(r) /\ r.kind = "shutdown"
      <3>1. Answer(o, "OK", 0)
        BY <1>8, <2>5 DEF CheckPassword
      <3>2. L!Answer(r, "OK", 0)
        BY <1>0, <1>1, <1>2, <3>1, AnswerGiven
      <3>3. L!Shutdown(r)
        BY <1>3, <2>2, <2>3, <2>5, <3>2 DEF L!Shutdown, L!Accepted, Bank
      <3> QED
        BY <1>1, <3>3 DEF L!Next
    <2>6. CASE ~NotAllowed(r) /\ r.kind # "shutdown"
      BY <1>4, <1>8, <2>6 DEF CheckPassword
    <2> QED
      BY <2>4, <2>5, <2>6
  <1>9. CASE CheckExists(o)
    BY <1>4, <1>7, <1>9 DEF CheckExists
  <1> QED
    BY <1>7, <1>8, <1>9 DEF CheckPassword

\* The account of an operation that has its mutex, as the ledger has it.
LEMMA AtWork ==
  ASSUME IInv, NEW o \in Offices, pc[o] = "critical", NEW a \in Ids, account_mutex[a] = o
  PROVE  /\ L!Exists(a) <=> accounts[a].exists
         /\ accounts[a].exists => BankAt(a) = [pw |-> accounts[a].pw, balance |-> accounts[a].balance]
  <1>1. /\ Visible(a) <=> accounts[a].exists
        /\ Visible(a) => BankAt(a) = [pw |-> accounts[a].pw, balance |-> accounts[a].balance - 0]
    BY Held DEF HeldInv
  <1>2. accounts[a].balance \in Nat
    BY DEF IInv, TypeOK
  <1> QED
    BY <1>1, <1>2, LoggedIn DEF LoginInv

\* op_createAccount with an id in use, op_checkBalance and a refused op_transfer.
LEMMA ReadStep ==
  ASSUME IInv, IInv', NEW o \in Offices, OfficeStep(o),
         InsertInUse(o) \/ ReadBalance(o) \/ TransferRefused(o)
  PROVE  L!Next
  <1> DEFINE r == cur[o]
  <1>0. TypeOK /\ pc[o] = "critical"
    BY DEF IInv, InsertInUse, ReadBalance, TransferRefused
  <1>1. r \in Requests /\ r.from \in Ids /\ r.to \in Ids /\ 0 \in Nat
    BY <1>0, RequestAtWork, RequestFields
  <1>b. {"idle", "unlock1"} \subseteq Pcs /\ {"ID_IN_USE", "OK"} \subseteq Rets
    BY DEF Pcs, Rets
  <1>2. accounts' = accounts /\ pc'[o] \in {"idle", "unlock1"}
    BY <1>0, <1>b, Shorthands DEF InsertInUse, ReadBalance, TransferRefused
  <1>3. Bank' = Bank
    BY <1>0, <1>2, BankSame
  <1>4. L!Accepted(r, r.kind)
    BY <1>0, <1>1, HeaderAccepted DEF Admitted, Locked
  <1>5. CASE InsertInUse(o)
    <2>1. r.kind = "create" /\ accounts[r.to].exists /\ Answer(o, "ID_IN_USE", 0)
      BY <1>5 DEF InsertInUse
    <2>2. L!Exists(r.to)
      BY <1>0, <1>1, <2>1, AtWork, WorksLocked
    <2>3. L!Answer(r, "ID_IN_USE", 0)
      BY <1>0, <1>1, <1>2, <1>b, <2>1, AnswerGiven
    <2>4. L!IdInUse(r)
      BY <1>3, <1>4, <2>1, <2>2, <2>3 DEF L!IdInUse, Bank
    <2> QED
      BY <1>1, <2>4 DEF L!Next
  <1>6. CASE ReadBalance(o)
    <2>1. r.kind = "balance" /\ Answer(o, "OK", accounts[r.from].balance)
          /\ accounts[r.from].balance \in Nat
      BY <1>0, <1>1, <1>6 DEF ReadBalance, TypeOK
    <2>2. Bank[r.from].balance = accounts[r.from].balance
      BY <1>0, <1>1, <2>1, AtWork, WorksLocked DEF Bank, IInv, WorkInv, Admitted, Locked
    <2>3. L!Answer(r, "OK", accounts[r.from].balance)
      BY <1>0, <1>1, <1>2, <1>b, <2>1, AnswerGiven
    <2>4. L!Balance(r)
      BY <1>3, <1>4, <2>1, <2>2, <2>3 DEF L!Balance, Bank
    <2> QED
      BY <1>1, <2>4 DEF L!Next
  <1>7. CASE TransferRefused(o)
    <2>1. r.kind = "transfer" /\ Refusal(r) # "none" /\ Answer(o, Refusal(r), accounts[r.from].balance)
          /\ accounts[r.from].balance \in Nat
      BY <1>0, <1>1, <1>7 DEF TransferRefused, TypeOK
    <2>2. Bank[r.from].balance = accounts[r.from].balance
      BY <1>0, <1>1, <2>1, AtWork, WorksLocked DEF Bank, IInv, WorkInv, Admitted, Locked
    <2>3. /\ L!Exists(r.to) <=> accounts[r.to].exists
          /\ accounts[r.to].exists => Bank[r.to].balance = accounts[r.to].balance
      BY <1>0, <1>1, <2>1, AtWork, WorksLocked DEF Bank
    <2>4. L!Refusal(r) = Refusal(r)
      <3>1. r.from # r.to
        BY <1>0, <2>1 DEF IInv, LockInv, Locked
      <3>2. r.amount \in Nat /\ MinBalance \in Nat
        <4>1. MinBalance \in Nat
          BY RequestsAssumption
        <4> QED
          BY <1>1, <4>1, RequestFields
      <3> QED
        BY <2>1, <2>2, <2>3, <3>1, <3>2
           DEF L!Refusal, L!Promised, L!LeavesTooLittle, Refusal, Bank
    <2>5. Refusal(r) \in Rets
      BY DEF Refusal, Rets
    <2>6. L!Answer(r, Refusal(r), accounts[r.from].balance)
      BY <1>0, <1>1, <1>2, <2>1, <2>5, AnswerGiven
    <2>7. L!NoTransfer(r)
      BY <1>3, <1>4, <2>1, <2>2, <2>4, <2>6 DEF L!NoTransfer, Bank
    <2> QED
      BY <1>1, <2>7 DEF L!Next
  <1> QED
    BY <1>5, <1>6, <1>7

\* insertBankAccount before a login would succeed, and after it does.
LEMMA InsertStep ==
  ASSUME IInv, IInv', NEW o \in Offices, OfficeStep(o),
         InsertStart(o) \/ \E f \in Fields : InsertField(o, f),
         NEW r \in Requests, r = cur[o]
  PROVE  L!Next \/ UNCHANGED L!vars
  <1>0. TypeOK /\ pc[o] \in {"critical", "insert"} /\ r.kind = "create"
    BY DEF IInv, WorkInv, InsertStart, InsertField
  <1>1. r.to \in Ids /\ account_mutex[r.to] = o /\ r.newPw # NoPassword
    BY <1>0, RequestFields, RequestsAssumption, WorksLocked
  <1>b. {"insert", "unlock1"} \subseteq Pcs /\ "OK" \in Rets /\ 0 \in Nat
    BY DEF Pcs, Rets
  <1>2. UNCHANGED <<account_mutex, cur>> /\ account_mutex'[r.to] = o /\ cur'[o] = r
    BY <1>1 DEF InsertStart, InsertField
  <1>3. \A a \in Ids \ {r.to} : BankAt(a)' = BankAt(a)
    <2>1. ASSUME NEW a \in Ids \ {r.to} PROVE accounts'[a] = accounts[a]
      <3>1. CASE InsertStart(o)
        BY <3>1 DEF InsertStart
      <3>2. CASE \E f \in Fields : InsertField(o, f)
        BY <3>2, FieldAfter
      <3> QED
        BY <3>1, <3>2
    <2> QED
      BY <1>2, <2>1, BankStays
  <1>4. \A q \in Requests \ {r} : OutcomeOf(q)' = OutcomeOf(q)
    BY RepliesMove
  <1>5. outcome[r] = Pending
    BY <1>0 DEF IInv, WorkInv
  <1>6. BankAt(r.to) = IF Visible(r.to) THEN [pw |-> r.newPw, balance |-> r.amount]
                                        ELSE L!NoAccount
    <2>1. CASE pc[o] = "insert"
      BY <1>1, <2>1, Held DEF HeldInv
    <2>2. CASE pc[o] = "critical"
      <3>1. ~Visible(r.to)
        BY <2>2 DEF InsertStart, InsertField, Visible
      <3> QED
        BY <3>1 DEF BankAt, L!NoAccount
    <2> QED
      BY <1>0, <2>1, <2>2
  <1>7. OutcomeOf(r) = IF Visible(r.to) THEN Reply("OK", 0) ELSE Pending
    <2>1. CASE pc[o] = "insert"
      BY <1>5, <2>1, OwnReply
    <2>2. CASE pc[o] = "critical"
      <3>1. ~Visible(r.to)
        BY <2>2 DEF InsertStart, InsertField, Visible
      <3> QED
        BY <1>5, <2>2, <3>1, OwnReply
    <2> QED
      BY <1>0, <2>1, <2>2
  <1>8. /\ BankAt(r.to)' = IF Visible(r.to)' THEN [pw |-> r.newPw, balance |-> r.amount]
                                            ELSE L!NoAccount
        /\ OutcomeOf(r)' = IF Visible(r.to)' THEN Reply("OK", 0) ELSE Pending
    <2>1. CASE pc'[o] = "insert"
      <3>1. outcome'[r] = Pending
        BY <1>2, <2>1 DEF IInv, WorkInv
      <3>2. HeldInv'
        BY SeenNext
      <3> QED
        BY <1>1, <1>2, <2>1, <3>1, <3>2, OwnReply DEF HeldInv
    <2>2. CASE pc'[o] # "insert"
      <3>1. PICK f \in Fields : InsertField(o, f)
        BY <1>0, <1>b, <2>2, Shorthands DEF InsertStart
      <3>2. written[o] \cup {f} = Fields /\ pc[o] = "insert"
        BY <1>0, <2>2, <3>1 DEF InsertField
      <3>3. outcome'[r] = Reply("OK", 0) /\ pc'[o] = "unlock1"
        BY <1>0, <1>b, <3>1, <3>2, Shorthands DEF InsertField
      <3>4. accounts'[r.to] = [exists |-> TRUE, pw |-> r.newPw, balance |-> r.amount]
        <4>1. /\ accounts[r.to].exists <=> "exists" \in written[o]
              /\ accounts[r.to].pw = IF "pw" \in written[o] THEN r.newPw ELSE NoPassword
              /\ "balance" \in written[o] => accounts[r.to].balance = r.amount
          BY <3>2 DEF IInv, InsertInv
        <4>2. accounts'[r.to] = FieldWritten(r, f)
          BY <3>1, FieldAfter
        <4>3. accounts[r.to].exists \in BOOLEAN
          BY <1>0, <1>1 DEF TypeOK
        <4> QED
          BY <3>2, <4>1, <4>2, <4>3 DEF FieldWritten, Fields
      <3>5. Visible(r.to)'
        BY <1>1, <3>4 DEF Visible
      <3>6. BankAt(r.to)' = [pw |-> r.newPw, balance |-> r.amount - 0]
        <4>1. HeldInv'
          BY SeenNext
        <4> QED
          BY <1>1, <1>2, <3>3, <3>4, <3>5, <4>1 DEF HeldInv
      <3>7. OutcomeOf(r)' = Reply("OK", 0)
        BY <2>2, <3>3, OwnReply
      <3> QED
        BY <3>5, <3>6, <3>7, RequestFields
    <2> QED
      BY <2>1, <2>2
  <1>9. Visible(r.to) => Visible(r.to)'
    BY <1>1, LoginStays DEF Visible
  <1>10. CASE Visible(r.to) <=> Visible(r.to)'
    <2>1. Bank' = Bank
      BY <1>3, <1>6, <1>8, <1>10 DEF Bank
    <2>2. Replies' = Replies
      BY <1>4, <1>7, <1>8, <1>10 DEF Replies
    <2> QED
      BY <2>1, <2>2 DEF L!vars, Bank, Replies
  <1>11. CASE ~Visible(r.to) /\ Visible(r.to)'
    <2>1. L!Accepted(r, "create")
      BY <1>0, HeaderAccepted DEF Admitted, Locked
    <2>2. ~L!Exists(r.to)
      BY <1>1, <1>11, LoggedIn DEF LoginInv
    <2>3. Bank' = [Bank EXCEPT ![r.to] = [pw |-> r.newPw, balance |-> r.amount]]
      BY <1>1, <1>3, <1>8, <1>11 DEF Bank
    <2>4. L!Answer(r, "OK", 0)
      BY <1>7, <1>8, <1>11, ReplyGiven
    <2>5. L!Create(r)
      BY <2>1, <2>2, <2>3, <2>4 DEF L!Create, Bank
    <2> QED
      BY <2>5 DEF L!Next
  <1> QED
    BY <1>9, <1>10, <1>11

\* op_transfer, its first addBalance: the money is in flight.
LEMMA CreditStep ==
  ASSUME IInv, IInv', NEW o \in Offices, OfficeStep(o), Credit(o), NEW r \in Requests, r = cur[o]
  PROVE  UNCHANGED L!vars
  <1>0. TypeOK /\ pc[o] = "critical" /\ r.kind = "transfer" /\ r.to \in Ids
        /\ r.amount \in Nat /\ account_mutex[r.to] = o
    BY RequestFields, WorksLocked DEF IInv, Credit
  <1>b. "debit" \in Pcs
    BY DEF Pcs
  <1>1. UNCHANGED <<account_mutex, cur, outcome>> /\ pc'[o] = "debit"
        /\ account_mutex'[r.to] = o /\ cur'[o] = r
    BY <1>0, <1>b, Shorthands DEF Credit
  <1>2. /\ \A a \in Ids \ {r.to} : accounts'[a] = accounts[a]
        /\ accounts'[r.to].balance = accounts[r.to].balance + r.amount
        /\ accounts[r.to].exists /\ accounts'[r.to].exists
        /\ accounts'[r.to].pw = accounts[r.to].pw
    BY <1>0, CreditAfter
  <1>3. ASSUME NEW a \in Ids \ {r.to} PROVE BankAt(a)' = BankAt(a)
    BY <1>0, <1>1, <1>2, BankStays
  <1>4. BankAt(r.to)' = BankAt(r.to)
    <2>1. BankAt(r.to) = [pw |-> accounts[r.to].pw, balance |-> accounts[r.to].balance]
      BY <1>0, <1>2, AtWork
    <2>2. BankAt(r.to)' = [pw |-> accounts'[r.to].pw, balance |-> accounts'[r.to].balance - r.amount]
      <3>1. HeldInv'
        BY SeenNext
      <3> QED
        BY <1>0, <1>1, <1>2, <3>1 DEF HeldInv
    <2>3. accounts[r.to].balance \in Nat
      BY <1>0 DEF TypeOK
    <2> QED
      BY <1>0, <1>2, <2>1, <2>2, <2>3
  <1>5. Bank' = Bank
    BY <1>3, <1>4 DEF Bank
  <1>6. Replies' = Replies
    BY <1>0, <1>1, ReplySame
  <1> QED
    BY <1>5, <1>6 DEF L!vars, Bank, Replies

\* The account that a transfer has credited.
LEMMA Credited ==
  ASSUME IInv, NEW o \in Offices, pc[o] = "debit", NEW r \in Requests, r = cur[o]
  PROVE  /\ account_mutex[r.to] = o /\ account_mutex[r.from] = o
         /\ r.from \in Ids /\ r.to \in Ids /\ r.from # r.to
         /\ L!Exists(r.to)
         /\ BankAt(r.to) = [pw |-> accounts[r.to].pw, balance |-> accounts[r.to].balance - r.amount]
         /\ BankAt(r.from) = [pw |-> accounts[r.from].pw, balance |-> accounts[r.from].balance]
         /\ accounts[r.to].balance \in r.amount..MaxBalance
         /\ accounts[r.from].balance \in Nat /\ accounts[r.from].balance >= r.amount
         /\ r.amount \in Nat
  <1>1. r.kind = "transfer" /\ r.from \in Ids /\ r.to \in Ids /\ r.amount \in Nat
        /\ MaxBalance \in Nat
    BY RequestFields DEF IInv, WorkInv
  <1>2. account_mutex[r.to] = o /\ account_mutex[r.from] = o /\ r.from # r.to
    BY <1>1, WorksLocked DEF IInv, LockInv, Locked
  <1>3. /\ accounts[r.to].exists /\ accounts[r.from].exists
        /\ accounts[r.to].balance >= r.amount /\ accounts[r.from].balance >= r.amount
        /\ accounts[r.to].balance \in Nat /\ accounts[r.from].balance \in Nat
    BY <1>1 DEF IInv, TypeOK, WorkInv, MoneyInv, Admitted, Locked
  <1>4. Visible(r.to) /\ Visible(r.from)
    BY <1>1, <1>2, <1>3, Held DEF HeldInv
  <1>5. /\ BankAt(r.to) = [pw |-> accounts[r.to].pw, balance |-> accounts[r.to].balance - r.amount]
        /\ BankAt(r.from) = [pw |-> accounts[r.from].pw, balance |-> accounts[r.from].balance - 0]
    BY <1>1, <1>2, <1>4, Held DEF HeldInv
  <1>6. Inserting(r.to) = {}
    BY <1>1, <1>2, HolderAlone
  <1>7. accounts[r.to].balance <= MaxBalance
    BY <1>1, <1>3, <1>6 DEF Inserting, IInv, AccountInv
  <1> QED
    BY <1>1, <1>2, <1>3, <1>4, <1>5, <1>7, LoggedIn DEF LoginInv

\* op_transfer, its second addBalance.
LEMMA DebitStep ==
  ASSUME IInv, IInv', NEW o \in Offices, OfficeStep(o), Debit(o), NEW r \in Requests, r = cur[o]
  PROVE  L!Transfer(r)
  <1>0. TypeOK /\ pc[o] = "debit" /\ r.kind = "transfer"
    BY DEF IInv, WorkInv, Debit
  <1>b. "unlock1" \in Pcs /\ "OK" \in Rets
    BY DEF Pcs, Rets
  <1> DEFINE rest == accounts[r.from].balance - r.amount
  <1>1. UNCHANGED <<account_mutex, cur>> /\ pc'[o] = "unlock1" /\ Answer(o, "OK", rest)
    BY <1>0, <1>b, Shorthands DEF Debit
  <1>2. /\ accounts'[r.from].balance = rest /\ rest \in Nat
        /\ \A a \in Ids : /\ accounts'[a].exists = accounts[a].exists
                          /\ accounts'[a].pw = accounts[a].pw
        /\ \A a \in Ids \ {r.from} : accounts'[a] = accounts[a]
    BY DebitAfter
  <1>3. /\ account_mutex[r.to] = o /\ account_mutex[r.from] = o
        /\ r.from \in Ids /\ r.to \in Ids /\ r.from # r.to
        /\ L!Exists(r.to)
        /\ BankAt(r.to) = [pw |-> accounts[r.to].pw, balance |-> accounts[r.to].balance - r.amount]
        /\ BankAt(r.from) = [pw |-> accounts[r.from].pw, balance |-> accounts[r.from].balance]
        /\ accounts[r.to].balance \in r.amount..MaxBalance
        /\ accounts[r.from].balance \in Nat /\ accounts[r.from].balance >= r.amount
        /\ r.amount \in Nat
    BY <1>0, Credited
  <1> HIDE DEF rest
  <1>4. /\ BankAt(r.to)' = [pw |-> accounts[r.to].pw, balance |-> accounts[r.to].balance]
        /\ BankAt(r.from)' = [pw |-> accounts[r.from].pw, balance |-> rest]
    <2>1. HeldInv'
      BY SeenNext
    <2>2. accounts'[r.to].exists /\ accounts'[r.from].exists
      BY <1>0, <1>2, <1>3 DEF IInv, MoneyInv, WorkInv, Admitted, Locked
    <2>3. Visible(r.to)' /\ Visible(r.from)'
      BY <1>1, <1>3, <2>1, <2>2 DEF HeldInv
    <2>4. /\ BankAt(r.to)' = [pw |-> accounts'[r.to].pw, balance |-> accounts'[r.to].balance - 0]
          /\ BankAt(r.from)' = [pw |-> accounts'[r.from].pw, balance |-> accounts'[r.from].balance - 0]
      BY <1>1, <1>3, <2>1, <2>3 DEF HeldInv
    <2> QED
      BY <1>2, <1>3, <2>4
  <1>5. \A a \in Ids \ {r.to, r.from} : BankAt(a)' = BankAt(a)
    <2>1. ASSUME NEW a \in Ids \ {r.to, r.from} PROVE BankAt(a)' = BankAt(a)
      BY <1>1, <1>2, BankStays
    <2> QED
      BY <2>1
  <1>6. Bank' = [Bank EXCEPT ![r.from].balance = @ - r.amount, ![r.to].balance = @ + r.amount]
    <2>1. /\ Bank[r.to] = [pw |-> accounts[r.to].pw, balance |-> accounts[r.to].balance - r.amount]
          /\ Bank[r.from] = [pw |-> accounts[r.from].pw, balance |-> accounts[r.from].balance]
      BY <1>3 DEF Bank
    <2>2. [Bank[r.to] EXCEPT !.balance = @ + r.amount] = BankAt(r.to)'
      BY <1>3, <1>4, <2>1
    <2>3. [Bank[r.from] EXCEPT !.balance = @ - r.amount] = BankAt(r.from)'
      BY <1>3, <1>4, <2>1 DEF rest
    <2> QED
      BY <1>3, <1>5, <2>2, <2>3 DEF Bank
  <1>7. L!Accepted(r, "transfer")
    BY <1>0, HeaderAccepted DEF Admitted, Locked
  <1>8. L!Refusal(r) = "none"
    <2>1. /\ Bank[r.from].balance = accounts[r.from].balance
          /\ Bank[r.to].balance + r.amount = accounts[r.to].balance
      BY <1>3 DEF Bank
    <2>2. ~(Bank[r.from].balance < r.amount) /\ ~(Bank[r.to].balance + r.amount > MaxBalance)
      BY <1>3, <2>1, RequestsAssumption
    <2> QED
      BY <1>3, <2>1, <2>2, RequestsAssumption
         DEF L!Refusal, L!Promised, L!LeavesTooLittle, Bank
  <1>9. L!Answer(r, "OK", rest)
    BY <1>0, <1>1, <1>2, <1>b, AnswerGiven
  <1>10. rest = Bank[r.from].balance - r.amount
    BY <1>3 DEF Bank, rest
  <1> QED
    BY <1>3, <1>6, <1>7, <1>8, <1>9, <1>10 DEF L!Transfer, Bank

\* Taking a request, and the mutexes.
LEMMA QuietStep ==
  ASSUME IInv, IInv', NEW o \in Offices, OfficeStep(o),
         Take(o) \/ Lock1(o) \/ Lock2(o) \/ Unlock1(o) \/ Unlock2(o)
  PROVE  UNCHANGED L!vars
  <1>b. {"idle", "exists", "lock2", "critical", "unlock2"} \subseteq Pcs
    BY DEF Pcs
  <1>1. /\ accounts' = accounts /\ outcome' = outcome
        /\ pc[o] \notin {"insert", "debit"} /\ pc'[o] \notin {"insert", "debit"}
    BY <1>b, Shorthands DEF IInv, Take, Lock1, Lock2, Unlock1, Unlock2
  <1>2. Bank' = Bank
    BY <1>1, BankSame
  <1>3. Replies' = Replies
    BY <1>1, ReplySame
  <1> QED
    BY <1>2, <1>3 DEF L!vars, Bank, Replies

\* The ledger is a function of the variables.
LEMMA LedgerStutters == UNCHANGED vars => UNCHANGED L!vars
  BY DEF vars, L!vars, BankAt, OutcomeOf, Visible, Inserting, InFlight, Crediting

\* All the steps of an office.
LEMMA LedgerStep ==
  ASSUME IInv, IInv', NEW o \in Offices, OfficeStep(o)
  PROVE  L!Next \/ UNCHANGED L!vars
  <1>1. CASE CheckExists(o) \/ CheckPassword(o)
    BY <1>1, HeaderStep
  <1>2. CASE InsertInUse(o) \/ ReadBalance(o) \/ TransferRefused(o)
    BY <1>2, ReadStep
  <1>3. CASE pc[o] # "idle" /\ (InsertStart(o) \/ \E f \in Fields : InsertField(o, f))
    BY <1>3, RequestAtWork, InsertStep
  <1>4. CASE pc[o] # "idle" /\ Credit(o)
    BY <1>4, RequestAtWork, CreditStep
  <1>5. CASE pc[o] # "idle" /\ Debit(o)
    BY <1>5, RequestAtWork, DebitStep DEF L!Next
  <1>6. CASE Take(o) \/ Lock1(o) \/ Lock2(o) \/ Unlock1(o) \/ Unlock2(o)
    BY <1>6, QuietStep
  <1> QED
    BY <1>1, <1>2, <1>3, <1>4, <1>5, <1>6
       DEF OfficeStep, InsertStart, InsertField, Credit, Debit

\* At first the ledger has the admin's account, whatever errorAccount left.
LEMMA InitLedger == Init => L!Init
  <1> SUFFICES ASSUME Init PROVE L!Init
    OBVIOUS
  <1>1. ASSUME NEW a \in Ids
        PROVE  BankAt(a) = IF a = 0 THEN [pw |-> AdminPassword, balance |-> 0] ELSE L!NoAccount
    <2>1. Inserting(a) = {} /\ Crediting(a) = {}
      BY DEF Init, Inserting, Crediting
    <2>2. InFlight(a) = 0
      BY <2>1, InFlightOfNone
    <2>3. CASE a = 0
      <3>1. accounts[a] = [exists |-> TRUE, pw |-> AdminPassword, balance |-> 0]
        BY <2>3 DEF Init, Admin
      <3>2. Visible(a)
        BY <3>1, RequestsAssumption DEF Visible
      <3> QED
        BY <2>1, <2>2, <2>3, <3>1, <3>2 DEF BankAt
    <2>4. CASE a # 0
      <3>1. ~Visible(a)
        BY <2>4 DEF Init, Admin, Visible
      <3> QED
        BY <2>4, <3>1 DEF BankAt, L!NoAccount
    <2> QED
      BY <2>3, <2>4
  <1>2. ASSUME NEW r \in Requests PROVE OutcomeOf(r) = L!Pending
    BY DEF Init, OutcomeOf, Inserting, Pending, Reply, L!Pending, L!Reply
  <1> QED
    BY <1>1, <1>2 DEF L!Init, L!Admin

\* op_createAccount, op_checkBalance and op_transfer are indivisible for their
\* users, though an account is inserted field by field, a transfer credits before
\* it debits, and checkRequestHeader reads accounts without their mutexes: every
\* reply is one that the ledger gives, every change of the accounts one of its.
THEOREM AccountsAreALedger == Spec => ImplementsLedger
  <1>1. IInv /\ IInv' /\ [Next]_vars => [L!Next]_L!vars
    <2> SUFFICES ASSUME IInv, IInv', [Next]_vars PROVE L!Next \/ UNCHANGED L!vars
      OBVIOUS
    <2>1. ASSUME NEW o \in Offices, OfficeStep(o) PROVE L!Next \/ UNCHANGED L!vars
      BY <2>1, LedgerStep
    <2>2. CASE UNCHANGED vars
      BY <2>2, LedgerStutters
    <2> QED
      BY <2>1, <2>2 DEF Next, Quiescent
  <1> QED
    BY <1>1, InitLedger, AlwaysIInv, PTL DEF Spec, ImplementsLedger, L!Spec

-----------------------------------------------------------------------------
(* The balances add up.                                                    *)

\* Only requests that have been sent are answered, and they are finitely many.
SentInv ==
    /\ IsFiniteSet(sent)
    /\ \A r \in Requests : outcome[r] # Pending => r \in sent

\* SentInv holds at first,
LEMMA InitSent == Init => SentInv
  BY AccountsAssumption DEF Init, SentInv

\* and an office answers a request that it has taken.
LEMMA NextSent == IInv /\ SentInv /\ [Next]_vars => SentInv'
  <1> SUFFICES ASSUME IInv, SentInv, [Next]_vars PROVE SentInv'
    OBVIOUS
  <1>1. ASSUME NEW o \in Offices, OfficeStep(o), NEW r \in Requests, outcome'[r] # Pending
        PROVE  r \in sent
    <2>1. CASE outcome'[r] = outcome[r]
      BY <1>1, <2>1 DEF SentInv
    <2>2. CASE outcome'[r] # outcome[r]
      <3>1. r = cur[o]
        BY <1>1, <2>2, OutcomeMoves
      <3> QED
        BY <1>1, <3>1, AccountsAssumption DEF IInv, WorkInv
    <2> QED
      BY <2>1, <2>2
  <1>2. CASE \E o \in Offices : OfficeStep(o)
    BY <1>1, <1>2 DEF SentInv, OfficeStep
  <1>3. CASE UNCHANGED vars
    BY <1>3 DEF SentInv, vars
  <1> QED
    BY <1>2, <1>3 DEF Next, Quiescent

\* The same of what the ledger replies.
RepliesInv == \A r \in Requests : OutcomeOf(r) # Pending => r \in sent

\* An insertion that is visible is of a request that was sent.
LEMMA RepliesSent == IInv /\ SentInv => RepliesInv
  <1> SUFFICES ASSUME IInv, SentInv, NEW r \in Requests, OutcomeOf(r) # Pending PROVE r \in sent
    BY DEF RepliesInv
  <1>1. CASE \E o \in Inserting(r.to) : cur[o] = r /\ Visible(r.to)
    BY <1>1 DEF Inserting, IInv, WorkInv
  <1>2. CASE OutcomeOf(r) = outcome[r]
    BY <1>2 DEF SentInv
  <1> QED
    BY <1>1, <1>2 DEF OutcomeOf

\* The ledger's balances, and what creations paid in.
Balances == [a \in Ids |-> BankAt(a).balance]
Paid == [r \in Created |-> r.amount]

\* No balance of the ledger is negative: what is in flight has arrived.
LEMMA BalancesType == IInv => Balances \in [Ids -> Nat]
  <1> SUFFICES ASSUME IInv, NEW a \in Ids PROVE BankAt(a).balance \in Nat
    BY DEF Balances
  <1>1. accounts[a].balance \in Nat
    BY DEF IInv, TypeOK
  <1>2. CASE ~Visible(a)
    BY <1>2 DEF BankAt
  <1>3. CASE \E o \in Offices : pc[o] = "insert" /\ cur[o].to = a
    <2>1. PICK o \in Offices : pc[o] = "insert" /\ cur[o].to = a
      BY <1>3
    <2>2. cur[o].amount \in Nat /\ account_mutex[a] = o
      BY <2>1, RequestAtWork, RequestFields, WorksLocked DEF IInv, WorkInv
    <2>3. Visible(a) => BankAt(a).balance = cur[o].amount
      BY <2>1, <2>2, Held DEF HeldInv
    <2> QED
      BY <1>2, <2>2, <2>3
  <1>4. CASE \E o \in Offices : pc[o] = "debit" /\ cur[o].to = a
    <2>1. PICK o \in Offices : pc[o] = "debit" /\ cur[o].to = a
      BY <1>4
    <2>2. /\ BankAt(a).balance = accounts[a].balance - cur[o].amount
          /\ cur[o].amount \in Nat /\ accounts[a].balance \in cur[o].amount..MaxBalance
      <3>1. cur[o] \in Requests
        BY <2>1, RequestAtWork
      <3>2. /\ BankAt(cur[o].to) = [pw |-> accounts[cur[o].to].pw,
                                    balance |-> accounts[cur[o].to].balance - cur[o].amount]
            /\ accounts[cur[o].to].balance \in cur[o].amount..MaxBalance /\ cur[o].amount \in Nat
        BY <2>1, <3>1, Credited
      <3> QED
        BY <2>1, <3>2
    <2> QED
      BY <1>1, <2>2, RequestsAssumption
  <1>5. CASE Visible(a) /\ Inserting(a) = {} /\ Crediting(a) = {}
    <2>1. BankAt(a).balance = accounts[a].balance - 0
      BY <1>5, InFlightOfNone DEF BankAt
    <2> QED
      BY <1>1, <2>1
  <1> QED
    BY <1>2, <1>3, <1>4, <1>5 DEF Inserting, Crediting

\* The sums are those of finitely many natural numbers.
SumsInv ==
    /\ Balances \in [Ids -> Nat]
    /\ Paid \in [Created -> Nat] /\ IsFiniteSet(Created) /\ Created \subseteq Requests

\* The invariants bound what is added up.
LEMMA SumsType == IInv /\ SentInv => SumsInv
  <1> SUFFICES ASSUME IInv, SentInv PROVE SumsInv
    OBVIOUS
  <1>1. Created \subseteq sent /\ sent \subseteq Requests
    BY DEF Created, IInv, TypeOK
  <1>2. \A r \in Created : r.amount \in Nat
    BY <1>1, RequestFields
  <1>3. IsFiniteSet(Created)
    BY <1>1, FS_Subset DEF SentInv
  <1> QED
    BY <1>1, <1>2, <1>3, BalancesType DEF Paid, SumsInv

\* The same after a step.
LEMMA SumsNext == IInv' /\ SentInv' => RepliesInv' /\ SumsInv'
  BY RepliesSent, SumsType, PTL

\* A ledger step other than a creation leaves what was paid in as it was.
LEMMA NothingPaid ==
  ASSUME sent' = sent, sent \subseteq Requests, NEW r \in Requests, NEW ret, NEW balance,
         L!Answer(r, ret, balance), r.kind # "create" \/ ret # "OK"
  PROVE  Created' = Created /\ Paid' = Paid
  <1>1. Replies' = [Replies EXCEPT ![r] = Reply(ret, balance)] /\ Replies[r] = Pending
    BY DEF L!Answer, Replies, L!Reply, Reply, L!Pending, Pending
  <1>2. \A q \in Requests \ {r} : OutcomeOf(q)' = OutcomeOf(q)
    BY <1>1 DEF Replies
  <1>3. OutcomeOf(r)'.ret = ret /\ OutcomeOf(r).ret = "none"
    BY <1>1 DEF Replies, Reply, Pending
  <1>4. Created' = Created
    BY <1>2, <1>3 DEF Created
  <1> QED
    BY <1>4 DEF Paid

\* op_createAccount pays in what the new account has.
LEMMA CreateConserves ==
  ASSUME IInv, SentInv, IInv', SentInv', sent' = sent, Conserved,
         NEW r \in Requests, L!Create(r)
  PROVE  Conserved'
  <1>1. r.kind = "create" /\ r.to \in Ids /\ r.amount \in Nat /\ ~L!Exists(r.to)
    BY RequestFields DEF L!Create, L!Accepted
  <1>2. Replies' = [Replies EXCEPT ![r] = Reply("OK", 0)] /\ Replies[r] = Pending
    BY DEF L!Create, L!Answer, Replies, L!Reply, Reply, L!Pending, Pending
  <1>3. \A q \in Requests \ {r} : OutcomeOf(q)' = OutcomeOf(q)
    BY <1>2 DEF Replies
  <1>4. OutcomeOf(r)' = Reply("OK", 0) /\ OutcomeOf(r).ret = "none"
    BY <1>2 DEF Replies, Reply, Pending
  <1>5. RepliesInv' /\ SumsInv' /\ SumsInv
    BY SumsNext, SumsType
  <1>6. r \in sent
    BY <1>4, <1>5 DEF RepliesInv, Pending, Reply
  <1>7. Created' = Created \cup {r} /\ r \notin Created
    <2>1. Reply("OK", 0).ret = "OK"
      BY DEF Reply
    <2>2. ASSUME NEW q \in sent
          PROVE  q \in Created' <=> q \in Created \cup {r}
      <3>1. CASE q = r
        BY <1>1, <1>4, <1>6, <2>1, <3>1 DEF Created
      <3>2. CASE q # r
        BY <1>3, <2>2, <3>2 DEF Created, IInv, TypeOK
      <3> QED
        BY <3>1, <3>2
    <2>3. Created' \subseteq sent /\ Created \cup {r} \subseteq sent
      BY <1>6 DEF Created
    <2> QED
      BY <1>4, <2>2, <2>3 DEF Created
  <1>8. SumFunction(Paid') = r.amount + SumFunction(Paid)
    <2> DEFINE new == Created \cup {r}
               paid == [q \in new |-> q.amount]
    <2>1. /\ Paid' = paid /\ paid \in [new -> Nat] /\ IsFiniteSet(new) /\ r \in new
          /\ paid[r] = r.amount
      <3>1. Paid' = paid
        BY <1>7 DEF Paid
      <3>2. IsFiniteSet(new)
        BY <1>5, <1>7 DEF SumsInv
      <3>3. paid \in [new -> Nat]
        BY <1>5, <1>7, <3>1 DEF SumsInv
      <3> QED
        BY <3>1, <3>2, <3>3
    <2>2. [q \in new \ {r} |-> paid[q]] = Paid
      BY <1>7 DEF Paid
    <2> HIDE DEF new, paid
    <2> QED
      BY <2>1, <2>2, SumWithout
  <1>9. Balances'[r.to] = r.amount /\ \A a \in Ids \ {r.to} : Balances'[a] = Balances[a]
    <2>1. Bank' = [Bank EXCEPT ![r.to] = [pw |-> r.newPw, balance |-> r.amount]]
      BY DEF L!Create, Bank
    <2>2. /\ \A a \in Ids \ {r.to} : BankAt(a)' = BankAt(a)
          /\ BankAt(r.to)' = [pw |-> r.newPw, balance |-> r.amount]
      BY <1>1, <2>1 DEF Bank
    <2>3. ASSUME NEW a \in Ids
          PROVE  Balances[a] = BankAt(a).balance /\ Balances'[a] = BankAt(a)'.balance
      BY DEF Balances
    <2> QED
      BY <1>1, <2>2, <2>3
  <1>10. Balances[r.to] = 0
    BY <1>1 DEF L!Exists, L!NoAccount, Balances
  <1>11. SumFunction(Balances') = SumFunction(Balances) - 0 + r.amount
    <2>1. Balances \in [Ids -> Nat] /\ Balances' \in [Ids -> Nat]
      BY <1>5 DEF SumsInv
    <2> QED
      BY <1>1, <1>9, <1>10, <2>1, AccountsAssumption, SumChange
  <1>12. SumFunction(Balances) \in Nat /\ SumFunction(Paid) \in Nat
    BY <1>5, AccountsAssumption, SumType DEF SumsInv
  <1>13. SumFunction(Balances) = SumFunction(Paid)
    BY DEF Conserved, Balances, Paid
  <1>14. SumFunction(Balances') = SumFunction(Paid')
    BY <1>1, <1>8, <1>11, <1>12, <1>13
  <1> QED
    BY <1>14 DEF Conserved, Balances, Paid

\* op_transfer gives one account what it takes from another.
LEMMA TransferConserves ==
  ASSUME IInv, SentInv, IInv', SentInv', sent' = sent, Conserved,
         NEW r \in Requests, L!Transfer(r)
  PROVE  Conserved'
  <1>1. r.kind = "transfer" /\ r.to \in Ids /\ r.from \in Ids /\ r.to # r.from /\ r.amount \in Nat
    BY RequestFields DEF L!Transfer, L!Accepted, L!Refusal, L!Promised, L!LeavesTooLittle
  <1>2. Paid' = Paid
    <2>1. \E balance : L!Answer(r, "OK", balance)
      BY DEF L!Transfer
    <2> QED
      BY <1>1, <2>1, NothingPaid DEF IInv, TypeOK
  <1>3. SumsInv' /\ SumsInv
    BY SumsNext, SumsType
  <1>4. /\ \A a \in Ids \ {r.from, r.to} : Balances'[a] = Balances[a]
        /\ Balances'[r.from] = Balances[r.from] - r.amount
        /\ Balances'[r.to] = Balances[r.to] + r.amount
    <2>1. Bank' = [Bank EXCEPT ![r.from].balance = @ - r.amount, ![r.to].balance = @ + r.amount]
      BY DEF L!Transfer, Bank
    <2>2. \A a \in Ids : Balances[a] = Bank[a].balance /\ Balances'[a] = Bank'[a].balance
      BY DEF Balances, Bank
    <2>3. \A a \in Ids : \E pw, balance : Bank[a] = [pw |-> pw, balance |-> balance]
      BY DEF Bank, BankAt
    <2>4. DOMAIN Bank = Ids
      BY DEF Bank
    <2> HIDE DEF Bank
    <2> QED
      BY <1>1, <2>1, <2>2, <2>3, <2>4
  <1> DEFINE taken == [Balances EXCEPT ![r.from] = @ - r.amount]
  <1>5. /\ taken \in [Ids -> Nat] /\ taken[r.from] = Balances[r.from] - r.amount
        /\ \A a \in Ids \ {r.from} : taken[a] = Balances[a]
        /\ Balances'[r.to] = taken[r.to] + r.amount
        /\ \A a \in Ids \ {r.to} : Balances'[a] = taken[a]
    BY <1>1, <1>3, <1>4 DEF SumsInv
  <1> HIDE DEF taken
  <1>6. SumFunction(taken) = SumFunction(Balances) - Balances[r.from] + taken[r.from]
    BY <1>1, <1>3, <1>5, AccountsAssumption, SumChange DEF SumsInv
  <1>7. SumFunction(Balances') = SumFunction(taken) - taken[r.to] + Balances'[r.to]
    BY <1>1, <1>3, <1>5, AccountsAssumption, SumChange DEF SumsInv
  <1>8. /\ SumFunction(Balances) \in Nat /\ SumFunction(taken) \in Nat
        /\ Balances[r.from] \in Nat /\ taken[r.to] \in Nat
    BY <1>1, <1>3, <1>5, AccountsAssumption, SumType DEF SumsInv
  <1>9. SumFunction(Balances') = SumFunction(Balances)
    BY <1>1, <1>5, <1>6, <1>7, <1>8
  <1>10. SumFunction(Balances) = SumFunction(Paid)
    BY DEF Conserved, Balances, Paid
  <1> QED
    BY <1>2, <1>9, <1>10 DEF Conserved, Balances, Paid

\* Nothing else touches money.
LEMMA StepConserves ==
  ASSUME IInv, SentInv, IInv', SentInv', Conserved, [Next]_vars
  PROVE  Conserved'
  <1>1. sent' = sent /\ (L!Next \/ UNCHANGED L!vars) /\ sent \subseteq Requests
    BY LedgerStep, LedgerStutters DEF Next, Quiescent, OfficeStep, vars, IInv, TypeOK
  <1>2. CASE \E r \in Requests : L!Create(r)
    BY <1>1, <1>2, CreateConserves
  <1>3. CASE \E r \in Requests : L!Transfer(r)
    BY <1>1, <1>3, TransferConserves
  <1>4. CASE UNCHANGED L!vars
    <2>1. Bank' = Bank /\ Replies' = Replies
      BY <1>4 DEF L!vars, Bank, Replies
    <2>2. Balances' = Balances
      BY <2>1 DEF Bank, Balances
    <2>3. \A r \in Requests : OutcomeOf(r)' = OutcomeOf(r)
      BY <2>1 DEF Replies
    <2>4. Created' = Created
      BY <1>1, <2>3 DEF Created
    <2> QED
      BY <2>2, <2>4 DEF Conserved, Balances
  <1>5. ASSUME NEW r \in Requests, NEW ret, NEW balance, L!Answer(r, ret, balance),
               r.kind # "create" \/ ret # "OK", UNCHANGED Bank
        PROVE  Conserved'
    <2>1. Created' = Created /\ Paid' = Paid
      BY <1>1, <1>5, NothingPaid
    <2>2. Balances' = Balances
      BY <1>5 DEF Bank, Balances
    <2> QED
      BY <2>1, <2>2 DEF Conserved, Balances, Paid
  <1>6. ASSUME NEW r \in Requests,
               \/ L!LoginFail(r) \/ L!Refuse(r) \/ L!IdInUse(r) \/ L!Balance(r)
               \/ L!NoTransfer(r) \/ L!Shutdown(r)
        PROVE  /\ UNCHANGED Bank
               /\ \E ret, balance : /\ L!Answer(r, ret, balance)
                                    /\ r.kind # "create" \/ ret # "OK"
    BY <1>6 DEF L!LoginFail, L!Refuse, L!IdInUse, L!Balance, L!NoTransfer, L!Shutdown,
                L!Accepted, Bank
  <1> QED
    BY <1>1, <1>2, <1>3, <1>4, <1>5, <1>6 DEF L!Next

\* At first there is no money, whatever errorAccount left in the accounts.
LEMMA InitConserved == Init => Conserved
  <1> SUFFICES ASSUME Init PROVE Conserved
    OBVIOUS
  <1>1. L!Init
    BY InitLedger
  <1>2. ASSUME NEW r \in Requests PROVE OutcomeOf(r).ret = "none"
    <2>1. OutcomeOf(r) = Pending
      BY <1>1 DEF L!Init, L!Pending, L!Reply, Pending, Reply
    <2> QED
      BY <2>1 DEF Pending, Reply
  <1>3. Created = {}
    BY <1>2, AccountsAssumption DEF Created, Init
  <1>4. \A a \in Ids : BankAt(a).balance = 0
    BY <1>1 DEF L!Init, L!NoAccount
  <1>5. Balances \in [Ids -> Nat] /\ \A a \in Ids : Balances[a] = 0
    BY <1>4 DEF Balances
  <1>6. SumFunction(Balances) = 0
    BY <1>5, AccountsAssumption, SumOfZeros
  <1>7. Paid \in [{} -> Nat]
    BY <1>3 DEF Paid
  <1>8. SumFunction(Paid) = 0
    BY <1>7, SumOfNone
  <1> QED
    BY <1>6, <1>8 DEF Conserved, Balances, Paid

\* Money is neither made nor lost by op_transfer, op_createAccount and whatever
\* runs between their writes: the balances, with what is in flight, are what the
\* accepted creations paid in.
THEOREM MoneyConserved == Spec => []Conserved
  <1>1. Init => SentInv /\ IInv /\ Conserved
    BY InitSent, InitIInv, InitConserved
  <1>2. IInv /\ SentInv /\ Conserved /\ [Next]_vars => IInv' /\ SentInv' /\ Conserved'
    BY NextIInv, NextSent, StepConserves
  <1> QED
    BY <1>1, <1>2, PTL DEF Spec

=============================================================================
