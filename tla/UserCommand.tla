---------------------------- MODULE UserCommand ----------------------------
(***************************************************************************)
(* What the user program makes of its command line: user_validation.c,     *)
(* which accepts it or not, and the formatting functions of user_util.c,   *)
(* which read the same texts again.  The reasons for refusing are not told *)
(* apart: the program exits with 2 for each.                               *)
(*                                                                         *)
(* A text is what the C library sees in it: the number it starts with      *)
(* (0 if there is none), whether anything follows that number, its length, *)
(* and whether blanks are none, some or all of it.                         *)
(***************************************************************************)
EXTENDS Integers, Sequences

CONSTANTS
    MaxAccounts,            \* MAX_BANK_ACCOUNTS
    MaxBalance,             \* MAX_BALANCE
    MaxDelay,               \* MAX_OP_DELAY_MS
    MinLength, MaxLength,   \* MIN_PASSWORD_LEN, MAX_PASSWORD_LEN
    IntHalf, LongHalf       \* 2^31 and 2^63

ASSUME CommandAssumption ==
    /\ {MaxAccounts, MaxBalance, MaxDelay, IntHalf, LongHalf} \subseteq Nat \ {0}
    /\ {MinLength, MaxLength} \subseteq Nat
    /\ MaxAccounts <= IntHalf /\ MaxBalance < IntHalf /\ MaxDelay < IntHalf
    /\ 4 <= IntHalf /\ IntHalf <= LongHalf

Text == [value : Int, rest : BOOLEAN, length : Nat, blanks : {"none", "some", "all"}]
\* The arguments of an operation are one text, cut into words by strtok.
Word == {t \in Text : t.length > 0 /\ t.blanks = "none"}
CommandLine ==
    {c \in [account : Text, password : Text, delay : Text, operation : Text,
            length : Nat, words : Seq(Word)] : c.length = 0 => c.words = <<>>}

-----------------------------------------------------------------------------
(* Numbers of the C library.                                               *)

\* strtol, which stops at the ends of a long, and its conversions.
strtol(t) ==
    IF t.value < -LongHalf THEN -LongHalf
    ELSE IF t.value >= LongHalf THEN LongHalf - 1
    ELSE t.value
AsInt(n) == ((n + IntHalf) % (2 * IntHalf)) - IntHalf
AsUnsignedLong(n) == IF n < 0 THEN n + 2 * LongHalf ELSE n
atoi(t) == AsInt(strtol(t))

-----------------------------------------------------------------------------
(* Plausible bugs: mutated forms of definitions below, no part of the      *)
(* specification.                                                          *)

\* An id is compared with > MAX_BANK_ACCOUNTS.
ValidIdOffByOne(t) == ~t.rest /\ atoi(t) \in 0..MaxAccounts
\* The amount's sign is lost: no test against MAX_BALANCE.
ValidAmountNoUpper(t) == ~t.rest /\ AsUnsignedLong(strtol(t)) >= 1

-----------------------------------------------------------------------------
(* user_validation.c                                                       *)

Verdicts == {"OK", "refused", "crash"}
Verdict(valid) == IF valid THEN "OK" ELSE "refused"
\* The checks are made in order, up to the first that fails.
Then(first, second) == IF first = "OK" THEN second ELSE first

\* validUserAccount and validAccount: the long is cut to an int, then tested.
ValidId(t) == ~t.rest /\ atoi(t) \in 0..(MaxAccounts - 1)

\* strlen of the null that strtok gives for blanks alone.
validPassword(t) ==
    IF t.length \notin MinLength..MaxLength THEN "refused"
    ELSE IF t.blanks = "all" THEN "crash"
    ELSE Verdict(t.blanks = "none")
validNewPassword(t) == t.length \in MinLength..MaxLength

validDelay(t) == ~t.rest /\ atoi(t) \in 0..MaxDelay
validOperation(t) == ~t.rest /\ atoi(t) \in 0..3
\* validBalance and validAmount: a negative long becomes a large unsigned one.
ValidAmount(t) == ~t.rest /\ AsUnsignedLong(strtol(t)) \in 1..MaxBalance

\* strtol of the null that strtok gives for blanks alone.
WithWords(argv, valid) ==
    IF argv.length = 0 THEN "refused"
    ELSE IF argv.words = <<>> THEN "crash"
    ELSE Verdict(valid)

validCreationOperation(argv) ==
    WithWords(argv,
        /\ Len(argv.words) = 3
        /\ ValidId(argv.words[1])
        /\ ValidAmount(argv.words[2])
        /\ validNewPassword(argv.words[3]))

validTransferOperation(argv) ==
    WithWords(argv,
        /\ Len(argv.words) = 2
        /\ ValidId(argv.words[1])
        /\ ValidAmount(argv.words[2]))

validArguments(argv) ==
    IF atoi(argv.operation) = 0 THEN validCreationOperation(argv)
    ELSE IF atoi(argv.operation) = 2 THEN validTransferOperation(argv)
    ELSE Verdict(argv.length = 0)

checkArguments(argv) ==
    Then(Verdict(ValidId(argv.account)),
    Then(validPassword(argv.password),
    Then(Verdict(validDelay(argv.delay)),
    Then(Verdict(validOperation(argv.operation)),
         validArguments(argv)))))

-----------------------------------------------------------------------------
(* user_util.c: formatRequest.                                             *)

\* A password of the request: MAX_PASSWORD_LEN bytes are copied, the byte after
\* them is never written.  stray is whether that byte is something else than the
\* end that the server's strcpy looks for.
HasEnd(length, stray) == length < MaxLength \/ ~stray

\* The request: its kind, its header, and the arguments it has.  Both passwords
\* are copied alike, that of the header and that of a new account.
formatRequest(argv, stray, strayNew) ==
    LET kind == atoi(argv.operation)
        words == argv.words
    IN [kind |-> kind,
        from |-> atoi(argv.account),
        delay |-> atoi(argv.delay),
        ended |-> HasEnd(argv.password.length, stray),
        to |-> IF kind \in {0, 2} THEN atoi(words[1]) ELSE 0,
        amount |-> IF kind \in {0, 2} THEN atoi(words[2]) ELSE 0,
        newLength |-> IF kind = 0 THEN words[3].length ELSE 0,
        newEnded |-> kind = 0 => HasEnd(words[3].length, strayNew)]

-----------------------------------------------------------------------------
(* What the checks are for.                                                *)

\* The server indexes its accounts with from and to, sleeps for delay and adds
\* amounts, and tests none of them again.
SafeFields(r) ==
    /\ r.kind \in 0..3
    /\ {r.from, r.to} \subseteq 0..(MaxAccounts - 1)
    /\ r.delay \in 0..MaxDelay
    /\ r.kind \in {0, 2} => r.amount \in 1..MaxBalance
    /\ r.kind = 0 => r.newLength \in MinLength..MaxLength
\* A request the server can take: it copies the passwords up to their ends.
SafeRequest(r) == SafeFields(r) /\ r.ended /\ r.newEnded

\* A command as it is typed, whatever the width of the machine's numbers: the
\* reference that checkArguments is compared with.  The delay is what
\* user_validation.h and the message of user_util.c ask for, not 0.
Number(t, low, high) == t.length > 0 /\ ~t.rest /\ t.value >= low /\ t.value <= high
Password(t) == t.length \in MinLength..MaxLength /\ t.blanks = "none"
LegalBesidesDelay(argv) ==
    /\ Number(argv.account, 0, MaxAccounts - 1)
    /\ Password(argv.password)
    /\ Number(argv.operation, 0, 3)
    /\ LET op == argv.operation.value
       IN IF op \in {0, 2}
          THEN /\ Len(argv.words) = (IF op = 0 THEN 3 ELSE 2)
               /\ Number(argv.words[1], 0, MaxAccounts - 1)
               /\ Number(argv.words[2], 1, MaxBalance)
               /\ op = 0 => Password(argv.words[3])
          ELSE argv.length = 0
Legal(argv) == LegalBesidesDelay(argv) /\ Number(argv.delay, 1, MaxDelay)
\* Legal but for the delay.
ZeroDelay(argv) == LegalBesidesDelay(argv) /\ Number(argv.delay, 0, 0)

\* Every number is there and fits an int.
Fits(t) == t.length > 0 /\ t.value \in (-IntHalf)..(IntHalf - 1)
AllFit(argv) ==
    /\ Fits(argv.account) /\ Fits(argv.delay) /\ Fits(argv.operation)
    /\ \A i \in 1..Len(argv.words) : Fits(argv.words[i])
=============================================================================
