------------------------- MODULE UserSessionProofs -------------------------
(***************************************************************************)
(* What checkArguments accepts, for every width of the numbers and every   *)
(* bound: only requests the server can take but for the ends of their      *)
(* longest passwords, every legal command, and no illegal one whose        *)
(* numbers fit an int but for a delay of 0.  Then the session: the user's log *)
(* tells how it ended, whenever the signals come, a user that is not       *)
(* killed removes its FIFO, and what it sends is safe.                     *)
(***************************************************************************)
EXTENDS UserSession, SequenceTheorems, TLAPS

-----------------------------------------------------------------------------
(* The command.                                                            *)

\* A number below its divisor is its own remainder.
LEMMA SmallMod ==
    ASSUME NEW a \in Nat, NEW b \in Nat, a < b
    PROVE  a % b = a
  OBVIOUS

\* A number of an int's width is not changed by the cut to an int.
LEMMA FitsInt ==
    ASSUME NEW n \in Int, -IntHalf <= n, n < IntHalf
    PROVE  AsInt(n) = n
  <1>1. n + IntHalf \in Nat /\ n + IntHalf < 2 * IntHalf /\ 2 * IntHalf \in Nat
    BY CommandAssumption
  <1>2. (n + IntHalf) % (2 * IntHalf) = n + IntHalf
    BY <1>1, SmallMod
  <1> QED
    BY <1>2, CommandAssumption DEF AsInt

\* What strtol and atoi give for a text whose number fits an int.
LEMMA FittingText ==
    ASSUME NEW t \in Text, t.value \in (-IntHalf)..(IntHalf - 1)
    PROVE  strtol(t) = t.value /\ atoi(t) = t.value
  <1>1. t.value \in Int
    BY DEF Text
  <1>2. strtol(t) = t.value
    BY <1>1, CommandAssumption DEF strtol
  <1> QED
    BY <1>1, <1>2, FitsInt, CommandAssumption DEF atoi

\* strtol gives a long.
LEMMA LongText ==
    ASSUME NEW t \in Text
    PROVE  strtol(t) \in (-LongHalf)..(LongHalf - 1)
  <1>1. t.value \in Int
    BY DEF Text
  <1> QED
    BY <1>1, CommandAssumption DEF strtol

\* An amount that passes its test, as an unsigned long, is the same number when
\* it is read again as an int.
LEMMA AmountRead ==
    ASSUME NEW t \in Text, ValidAmount(t)
    PROVE  atoi(t) \in 1..MaxBalance /\ atoi(t) = strtol(t)
  <1>1. strtol(t) \in (-LongHalf)..(LongHalf - 1)
    BY LongText
  <1>2. AsUnsignedLong(strtol(t)) \in 1..MaxBalance
    BY DEF ValidAmount
  <1>3. strtol(t) \in 1..MaxBalance
    BY <1>1, <1>2, CommandAssumption DEF AsUnsignedLong
  <1>4. AsInt(strtol(t)) = strtol(t)
    BY <1>3, FitsInt, CommandAssumption
  <1> QED
    BY <1>3, <1>4 DEF atoi

-----------------------------------------------------------------------------
\* The types of a command line's texts.
LEMMA TextTypes ==
    ASSUME NEW line \in CommandLine
    PROVE  /\ {line.account, line.password, line.delay, line.operation} \subseteq Text
           /\ line.words \in Seq(Word)
           /\ \A i \in 1..Len(line.words) : line.words[i] \in Word
           /\ Word \subseteq Text
           /\ line.length = 0 => line.words = <<>>
  <1>1. line.words \in Seq(Word)
    BY DEF CommandLine
  <1>2. \A i \in 1..Len(line.words) : line.words[i] \in Word
    BY <1>1
  <1> QED
    BY <1>1, <1>2 DEF CommandLine, Word

\* What the operation's arguments are when they pass.
LEMMA AcceptedArguments ==
    ASSUME NEW line \in CommandLine, checkArguments(line) = "OK"
    PROVE  /\ ValidId(line.account) /\ validPassword(line.password) = "OK"
           /\ validDelay(line.delay) /\ validOperation(line.operation)
           /\ validArguments(line) = "OK"
  BY DEF checkArguments, Then, Verdict

\* Of a transfer or a creation: its words.
LEMMA AcceptedWords ==
    ASSUME NEW line \in CommandLine, validArguments(line) = "OK",
           atoi(line.operation) \in {0, 2}
    PROVE  /\ Len(line.words) = IF atoi(line.operation) = 0 THEN 3 ELSE 2
           /\ \A i \in 1..Len(line.words) : line.words[i] \in Text
           /\ ValidId(line.words[1]) /\ ValidAmount(line.words[2])
           /\ atoi(line.operation) = 0 => validNewPassword(line.words[3])
  <1>2. \A i \in 1..Len(line.words) : line.words[i] \in Text
    BY TextTypes
  <1>3. CASE atoi(line.operation) = 0
    <2>1. validCreationOperation(line) = "OK"
      BY <1>3 DEF validArguments
    <2> QED
      BY <2>1, <1>2, <1>3 DEF validCreationOperation, WithWords, Verdict
  <1>4. CASE atoi(line.operation) = 2
    <2>1. validTransferOperation(line) = "OK"
      BY <1>4 DEF validArguments
    <2> QED
      BY <2>1, <1>2, <1>4 DEF validTransferOperation, WithWords, Verdict
  <1> QED
    BY <1>3, <1>4

\* An accepted command line gives a request that the server can take untested,
\* whatever the widths: the checks and the formatting read the same numbers.  It
\* may only lack the end of a password of MAX_PASSWORD_LEN characters, be it the
\* header's or a new account's; without such a one it lacks nothing.
THEOREM AcceptedIsSafe ==
    ASSUME NEW line \in CommandLine, NEW stray \in BOOLEAN, NEW strayNew \in BOOLEAN,
           checkArguments(line) = "OK",
           NEW r, r = formatRequest(line, stray, strayNew)
    PROVE  /\ SafeFields(r)
           /\ ~r.ended => line.password.length = MaxLength
           /\ ~r.newEnded => r.kind = 0 /\ r.newLength = MaxLength
           /\ line.password.length # MaxLength /\ (r.kind = 0 => r.newLength # MaxLength)
                 => SafeRequest(r)
  <1> DEFINE kind == atoi(line.operation)
  <1>1. /\ ValidId(line.account) /\ validPassword(line.password) = "OK"
        /\ validDelay(line.delay) /\ validOperation(line.operation)
        /\ validArguments(line) = "OK"
    BY AcceptedArguments
  <1>2. r.kind = kind /\ kind \in 0..3
    BY <1>1 DEF formatRequest, validOperation
  <1>3. r.from \in 0..(MaxAccounts - 1)
    BY <1>1 DEF formatRequest, ValidId
  <1>4. r.delay \in 0..MaxDelay
    BY <1>1 DEF formatRequest, validDelay
  <1>5. ~r.ended => line.password.length = MaxLength
    <2>1. line.password.length \in MinLength..MaxLength
      BY <1>1 DEF validPassword, Verdict
    <2>2. ~r.ended => ~(line.password.length < MaxLength)
      BY DEF formatRequest, HasEnd
    <2> QED
      BY <2>1, <2>2, CommandAssumption
  <1>6. CASE kind \in {0, 2}
    <2>1. /\ Len(line.words) = IF kind = 0 THEN 3 ELSE 2
          /\ \A i \in 1..Len(line.words) : line.words[i] \in Text
          /\ ValidId(line.words[1]) /\ ValidAmount(line.words[2])
          /\ kind = 0 => validNewPassword(line.words[3])
      BY <1>1, <1>6, AcceptedWords
    <2>2. r.to \in 0..(MaxAccounts - 1)
      BY <1>6, <2>1 DEF formatRequest, ValidId
    <2>3. r.amount \in 1..MaxBalance
      <3>1. line.words[2] \in Text
        BY <2>1
      <3>2. atoi(line.words[2]) \in 1..MaxBalance
        BY <2>1, <3>1, AmountRead
      <3> QED
        BY <1>6, <3>2 DEF formatRequest
    <2>4. kind = 0 => r.newLength \in MinLength..MaxLength
      BY <2>1 DEF formatRequest, validNewPassword
    <2>5. ~r.newEnded => kind = 0 /\ r.newLength = MaxLength
      <3>1. ~r.newEnded => kind = 0 /\ ~(line.words[3].length < MaxLength)
        BY DEF formatRequest, HasEnd
      <3>2. kind = 0 => r.newLength = line.words[3].length
        BY DEF formatRequest
      <3> QED
        BY <2>4, <3>1, <3>2, CommandAssumption
    <2> QED
      BY <1>2, <1>3, <1>4, <1>5, <2>2, <2>3, <2>4, <2>5 DEF SafeFields, SafeRequest, formatRequest
  <1>7. CASE kind \notin {0, 2}
    <2>1. r.to = 0
      BY <1>7 DEF formatRequest
    <2>2. r.newEnded
      BY <1>7 DEF formatRequest
    <2> QED
      BY <1>2, <1>3, <1>4, <1>5, <1>7, <2>1, <2>2, CommandAssumption
         DEF SafeFields, SafeRequest, formatRequest
  <1> QED
    BY <1>6, <1>7

-----------------------------------------------------------------------------
\* The reference and the test of a number, for one that fits an int.  The test of
\* the delay lets 0 through.
LEMMA NumberTests ==
    ASSUME NEW t \in Text, t.length > 0, t.value \in (-IntHalf)..(IntHalf - 1)
    PROVE  /\ ValidId(t) <=> Number(t, 0, MaxAccounts - 1)
           /\ validDelay(t) <=> Number(t, 1, MaxDelay) \/ Number(t, 0, 0)
           /\ validOperation(t) <=> Number(t, 0, 3)
           /\ ValidAmount(t) <=> Number(t, 1, MaxBalance)
  <1>1. strtol(t) = t.value /\ atoi(t) = t.value /\ t.value \in Int
    BY FittingText DEF Text
  <1>2. AsUnsignedLong(strtol(t)) \in 1..MaxBalance <=> t.value \in 1..MaxBalance
    BY <1>1, CommandAssumption DEF AsUnsignedLong
  <1> QED
    BY <1>1, <1>2, CommandAssumption
       DEF ValidId, validDelay, validOperation, ValidAmount, Number

\* A number in one of the reference's ranges fits an int.
LEMMA LegalFits ==
    ASSUME NEW t \in Text,
           \/ Number(t, 0, MaxAccounts - 1) \/ Number(t, 1, MaxDelay)
           \/ Number(t, 0, 3) \/ Number(t, 1, MaxBalance)
    PROVE  Fits(t)
  <1>1. t.value \in Int
    BY DEF Text
  <1> QED
    BY <1>1, CommandAssumption DEF Number, Fits

\* No command line that is legal as typed is refused.
THEOREM LegalIsAccepted ==
    ASSUME NEW line \in CommandLine, Legal(line)
    PROVE  checkArguments(line) = "OK"
  <1>0. Fits(line.account) /\ Fits(line.delay) /\ Fits(line.operation)
    BY TextTypes, LegalFits DEF Legal, LegalBesidesDelay
  <1>1. ValidId(line.account) /\ validDelay(line.delay) /\ validOperation(line.operation)
    BY <1>0, TextTypes, NumberTests DEF Legal, LegalBesidesDelay, Fits
  <1>2. validPassword(line.password) = "OK"
    BY DEF Legal, LegalBesidesDelay, Password, validPassword, Verdict
  <1>3. atoi(line.operation) = line.operation.value
    BY <1>0, TextTypes, FittingText DEF Fits
  <1>4. validArguments(line) = "OK"
    <2>1. CASE line.operation.value = 0
      <3>1. /\ Len(line.words) = 3
            /\ Number(line.words[1], 0, MaxAccounts - 1)
            /\ Number(line.words[2], 1, MaxBalance)
            /\ Password(line.words[3])
        BY <2>1 DEF Legal, LegalBesidesDelay
      <3>2. line.words[1] \in Text /\ line.words[2] \in Text
        BY <3>1, TextTypes
      <3>3. Fits(line.words[1]) /\ Fits(line.words[2])
        BY <3>1, <3>2, LegalFits
      <3>4. ValidId(line.words[1]) /\ ValidAmount(line.words[2])
        BY <3>1, <3>2, <3>3, NumberTests DEF Fits
      <3>5. validNewPassword(line.words[3])
        BY <3>1 DEF Password, validNewPassword
      <3>6. line.words # <<>> /\ line.length # 0
        BY <3>1, TextTypes
      <3> QED
        BY <1>3, <2>1, <3>1, <3>4, <3>5, <3>6
           DEF validArguments, validCreationOperation, WithWords, Verdict
    <2>2. CASE line.operation.value = 2
      <3>1. /\ Len(line.words) = 2
            /\ Number(line.words[1], 0, MaxAccounts - 1)
            /\ Number(line.words[2], 1, MaxBalance)
        BY <2>2 DEF Legal, LegalBesidesDelay
      <3>2. line.words[1] \in Text /\ line.words[2] \in Text
        BY <3>1, TextTypes
      <3>3. Fits(line.words[1]) /\ Fits(line.words[2])
        BY <3>1, <3>2, LegalFits
      <3>4. ValidId(line.words[1]) /\ ValidAmount(line.words[2])
        BY <3>1, <3>2, <3>3, NumberTests DEF Fits
      <3>5. line.words # <<>> /\ line.length # 0
        BY <3>1, TextTypes
      <3> QED
        BY <1>3, <2>2, <3>1, <3>4, <3>5
           DEF validArguments, validTransferOperation, WithWords, Verdict
    <2>3. CASE line.operation.value \notin {0, 2}
      <3>1. line.length = 0
        BY <2>3 DEF Legal, LegalBesidesDelay
      <3> QED
        BY <1>3, <2>3, <3>1 DEF validArguments, Verdict
    <2> QED
      BY <2>1, <2>2, <2>3
  <1> QED
    BY <1>1, <1>2, <1>4 DEF checkArguments, Then, Verdict

\* A command line whose numbers are there and fit an int is accepted only when
\* it is legal as typed, or legal but for a delay of 0.
THEOREM AcceptedIsLegal ==
    ASSUME NEW line \in CommandLine, AllFit(line), checkArguments(line) = "OK"
    PROVE  Legal(line) \/ ZeroDelay(line)
  <1>1. /\ ValidId(line.account) /\ validPassword(line.password) = "OK"
        /\ validDelay(line.delay) /\ validOperation(line.operation)
        /\ validArguments(line) = "OK"
    BY AcceptedArguments
  <1>2. /\ Number(line.account, 0, MaxAccounts - 1)
        /\ Number(line.delay, 1, MaxDelay) \/ Number(line.delay, 0, 0)
        /\ Number(line.operation, 0, 3)
    BY <1>1, TextTypes, NumberTests DEF AllFit, Fits
  <1>3. Password(line.password)
    BY <1>1, TextTypes DEF validPassword, Password, Text, Verdict
  <1>4. atoi(line.operation) = line.operation.value
    BY TextTypes, FittingText DEF AllFit, Fits
  <1>5. CASE line.operation.value \in {0, 2}
    <2>1. /\ Len(line.words) = IF line.operation.value = 0 THEN 3 ELSE 2
          /\ \A i \in 1..Len(line.words) : line.words[i] \in Text
          /\ ValidId(line.words[1]) /\ ValidAmount(line.words[2])
          /\ line.operation.value = 0 => validNewPassword(line.words[3])
      BY <1>1, <1>4, <1>5, AcceptedWords
    <2>2. \A i \in 1..Len(line.words) : Fits(line.words[i])
      BY DEF AllFit
    <2>3. /\ line.words[1] \in Text /\ Fits(line.words[1])
          /\ line.words[2] \in Text /\ Fits(line.words[2])
      BY <2>1, <2>2
    <2>4. /\ Number(line.words[1], 0, MaxAccounts - 1)
          /\ Number(line.words[2], 1, MaxBalance)
      BY <2>1, <2>3, NumberTests DEF Fits
    <2>5. line.operation.value = 0 => Password(line.words[3])
      <3>1. line.operation.value = 0 => line.words[3] \in Word
        BY <2>1, TextTypes
      <3> QED
        BY <2>1, <3>1 DEF Password, validNewPassword, Word
    <2> QED
      BY <1>2, <1>3, <1>5, <2>1, <2>4, <2>5 DEF Legal, ZeroDelay, LegalBesidesDelay
  <1>6. CASE line.operation.value \notin {0, 2}
    <2>1. line.length = 0
      BY <1>1, <1>4, <1>6 DEF validArguments, Verdict
    <2> QED
      BY <1>2, <1>3, <1>6, <2>1 DEF Legal, ZeroDelay, LegalBesidesDelay
  <1> QED
    BY <1>5, <1>6

-----------------------------------------------------------------------------
(* The session.                                                            *)

\* Before the handlers are set.
Early == {"check", "start", "mkfifo", "open", "down", "unlinkDown", "alrmHandler"}

\* What the log holds at each place, and under which exit status.
LogAt ==
    /\ pc \in {"check", "start"} => log = <<>>
    /\ pc \in MainPcs \ {"check", "start", "unlinkDown", "cancel"} => log = <<"request">>
    /\ pc = "unlinkDown" => log = <<"request", "down">>
    /\ pc = "cancel" => log = <<"request", "reply">>
    /\ pc = "timeout" => log \in Waiting /\ code = 8
    /\ pc \in ClosePcs =>
          \/ code = 0 /\ log = <<"request", "reply">>
          \/ code = 8 /\ log \in TimedOut
          \/ code = 9 /\ log \in Waiting \cup TimedOut
    /\ alarm => log \in Waiting

\* The FIFO is there while main works, and gone when it or a handler exits.
FifoAt ==
    /\ pc \in MainPcs => code = 0
    /\ pc \in MainPcs \ {"check", "start", "mkfifo"} => fifo
    /\ pc \in {"close", "unlink"} /\ code = 0 => fifo
    /\ pc = "exit" => ~fifo

\* No handler is entered before it is set, no alarm runs before its own is.
SignalsAt ==
    /\ pc \in Early => handled = {}
    /\ pc = "intHandler" => handled = {"ALRM"}
    /\ pc \in MainPcs \ Early => "ALRM" \in handled
    /\ pc \in Early \cup {"intHandler", "send", "setAlarm", "timeout"} => ~alarm
    /\ alarm => "ALRM" \in handled

-----------------------------------------------------------------------------
(* Sequences of two and three records.                                     *)

\* A record added to a log of one.
LEMMA AppendToOne ==
  ASSUME NEW S, NEW a \in S, NEW b \in S
  PROVE  Append(<<a>>, b) = <<a, b>>
  <1> DEFINE x == Append(<<a>>, b)
             y == <<a, b>>
  <1>1. x \in Seq(S) /\ y \in Seq(S)
    OBVIOUS
  <1>2. Len(x) = 2 /\ Len(y) = 2
    OBVIOUS
  <1>3. x[1] = y[1] /\ x[2] = y[2]
    OBVIOUS
  <1>4. \A i \in 1..Len(x) : x[i] = y[i]
    BY <1>2, <1>3
  <1> HIDE DEF x, y
  <1>5. x = y
    BY <1>1, <1>2, <1>4, SeqEqual
  <1> QED
    BY <1>5 DEF x, y

\* A record added to a log of two.
LEMMA AppendToTwo ==
  ASSUME NEW S, NEW a \in S, NEW b \in S, NEW c \in S
  PROVE  Append(<<a, b>>, c) = <<a, b, c>>
  <1> DEFINE x == Append(<<a, b>>, c)
             y == <<a, b, c>>
  <1>1. x \in Seq(S) /\ y \in Seq(S)
    OBVIOUS
  <1>2. Len(x) = 3 /\ Len(y) = 3
    OBVIOUS
  <1>3. x[1] = y[1] /\ x[2] = y[2] /\ x[3] = y[3]
    OBVIOUS
  <1>4. \A i \in 1..Len(x) : x[i] = y[i]
    BY <1>2, <1>3
  <1> HIDE DEF x, y
  <1>5. x = y
    BY <1>1, <1>2, <1>4, SeqEqual
  <1> QED
    BY <1>5 DEF x, y

\* What recording adds to a log.
LEMMA Recorded ==
    /\ Append(<<>>, "request") = <<"request">>
    /\ Append(<<"request">>, "down") = <<"request", "down">>
    /\ Append(<<"request">>, "reply") = <<"request", "reply">>
    /\ \A l \in Waiting : Append(l, "timeout") \in TimedOut
  <1> DEFINE S == {"request", "reply", "timeout", "down"}
  <1>1. Append(<<>>, "request") = <<"request">>
    OBVIOUS
  <1>2. "request" \in S /\ "reply" \in S /\ "timeout" \in S /\ "down" \in S
    OBVIOUS
  <1> HIDE DEF S
  <1>3. /\ Append(<<"request">>, "down") = <<"request", "down">>
        /\ Append(<<"request">>, "reply") = <<"request", "reply">>
        /\ Append(<<"request">>, "timeout") = <<"request", "timeout">>
    BY <1>2, AppendToOne
  <1>4. Append(<<"request", "reply">>, "timeout") = <<"request", "reply", "timeout">>
    BY <1>2, AppendToTwo
  <1> QED
    BY <1>1, <1>3, <1>4 DEF Waiting, TimedOut

\* The logs of any session: a request and at most two outcomes.
Logs == Waiting \cup TimedOut \cup {<<>>, <<"request", "down">>}

\* They are sequences of at most three records.
LEMMA LogTypes ==
    ASSUME NEW l \in Logs
    PROVE  l \in Seq({"request", "reply", "timeout", "down"}) /\ Len(l) <= 3
  <1> DEFINE S == {"request", "reply", "timeout", "down"}
  <1>1. /\ <<>> \in Seq(S) /\ Len(<<>>) <= 3
        /\ <<"request">> \in Seq(S) /\ Len(<<"request">>) <= 3
    OBVIOUS
  <1>2. /\ <<"request", "down">> \in Seq(S) /\ Len(<<"request", "down">>) <= 3
        /\ <<"request", "reply">> \in Seq(S) /\ Len(<<"request", "reply">>) <= 3
        /\ <<"request", "timeout">> \in Seq(S) /\ Len(<<"request", "timeout">>) <= 3
    OBVIOUS
  <1>3. /\ <<"request", "reply", "timeout">> \in Seq(S)
        /\ Len(<<"request", "reply", "timeout">>) <= 3
    OBVIOUS
  <1> HIDE DEF S
  <1>4. l \in {<<>>, <<"request">>, <<"request", "down">>, <<"request", "reply">>,
               <<"request", "timeout">>, <<"request", "reply", "timeout">>}
    BY DEF Logs, Waiting, TimedOut
  <1>5. l \in Seq(S) /\ Len(l) <= 3
    <2>1. CASE l = <<>>
      BY <2>1, <1>1
    <2>2. CASE l = <<"request">>
      BY <2>2, <1>1
    <2>3. CASE l = <<"request", "down">>
      BY <2>3, <1>2
    <2>4. CASE l = <<"request", "reply">>
      BY <2>4, <1>2
    <2>5. CASE l = <<"request", "timeout">>
      BY <2>5, <1>2
    <2>6. CASE l = <<"request", "reply", "timeout">>
      BY <2>6, <1>3
    <2> QED
      BY <1>4, <2>1, <2>2, <2>3, <2>4, <2>5, <2>6
  <1> QED
    BY <1>5 DEF S

-----------------------------------------------------------------------------
(* The inductive invariant.  Every log it allows is in Logs, so that only  *)
(* the rest of TypeOK is left for each step.                               *)

Typed ==
    /\ argv \in CommandLines
    /\ pc \in Pcs
    /\ code \in {0, 2, 3, 4, 6, 8, 9, Killed}
    /\ blocked \subseteq handled /\ handled \subseteq {"ALRM", "INT"}
    /\ alarm \in BOOLEAN /\ fifo \in BOOLEAN /\ sent \in BOOLEAN /\ arrived \in BOOLEAN
    /\ server \in {"none", "noReader", "reading"}
    /\ log \in Logs

Inv ==
    /\ Typed /\ LogAt /\ FifoAt /\ SignalsAt
    /\ LogTellsOutcome /\ NameRemoved

\* Which logs are in which set.
LEMMA Members ==
    /\ <<"request">> \in Waiting /\ <<"request", "reply">> \in Waiting
    /\ Waiting \subseteq Logs /\ TimedOut \subseteq Logs
    /\ <<>> \in Logs /\ <<"request", "down">> \in Logs
  BY DEF Waiting, Logs

\* The inductive invariant implies the types.
LEMMA InvTypes == Inv => TypeOK
  BY LogTypes DEF Inv, Typed, TypeOK

\* The program starts in the invariant.
LEMMA InitInv == Init => Inv
  BY DEF Init, Inv, Typed, LogAt, FifoAt, SignalsAt, LogTellsOutcome, NameRemoved,
         Pcs, MainPcs, ClosePcs, Early, Logs, Ended, Killed

\* No step of the program, of a signal or of the server leaves the invariant.
LEMMA NextInv == Inv /\ [Next]_vars => Inv'
  <1> SUFFICES ASSUME Inv, [Next]_vars PROVE Inv'
    OBVIOUS
  <1> USE Members DEF Inv, Typed, LogAt, FifoAt, SignalsAt, LogTellsOutcome, NameRemoved,
              Pcs, MainPcs, ClosePcs, Early, Ended, Killed, Goto, End, outside, command
  <1>1. CASE UserStep
    <2>1. CASE RecordRequest
      BY <2>1, Recorded DEF RecordRequest
    <2>2. CASE SetupResponseFifo
      <3>1. Typed'
        BY <2>2 DEF SetupResponseFifo
      <3>2. LogAt'
        BY <2>2 DEF SetupResponseFifo
      <3>3. FifoAt'
        BY <2>2 DEF SetupResponseFifo
      <3>4. SignalsAt'
        BY <2>2 DEF SetupResponseFifo
      <3>5. LogTellsOutcome'
        BY <2>2 DEF SetupResponseFifo
      <3>6. NameRemoved'
        BY <2>2 DEF SetupResponseFifo
      <3> QED
        BY <3>1, <3>2, <3>3, <3>4, <3>5, <3>6
    <2>3. CASE SetupRequestFifo
      BY <2>3 DEF SetupRequestFifo
    <2>4. CASE RecordDown
      BY <2>4, Recorded DEF RecordDown
    <2>5. CASE UnlinkDown
      <3>1. Typed'
        BY <2>5 DEF UnlinkDown
      <3>2. LogAt'
        BY <2>5 DEF UnlinkDown
      <3>3. FifoAt'
        BY <2>5 DEF UnlinkDown
      <3>4. SignalsAt'
        BY <2>5 DEF UnlinkDown
      <3>5. LogTellsOutcome'
        BY <2>5 DEF UnlinkDown
      <3>6. NameRemoved'
        BY <2>5 DEF UnlinkDown
      <3> QED
        BY <3>1, <3>2, <3>3, <3>4, <3>5, <3>6
    <2>6. CASE SetupHandlers
      BY <2>6 DEF SetupHandlers
    <2>7. CASE SendRequest
      <3>1. Typed'
        BY <2>7 DEF SendRequest
      <3>2. LogAt'
        BY <2>7 DEF SendRequest
      <3>3. FifoAt'
        BY <2>7 DEF SendRequest
      <3>4. SignalsAt'
        BY <2>7 DEF SendRequest
      <3>5. LogTellsOutcome'
        BY <2>7 DEF SendRequest
      <3>6. NameRemoved'
        BY <2>7 DEF SendRequest
      <3> QED
        BY <3>1, <3>2, <3>3, <3>4, <3>5, <3>6
    <2>8. CASE SetAlarm
      <3>1. Typed'
        BY <2>8 DEF SetAlarm
      <3>2. LogAt'
        BY <2>8 DEF SetAlarm
      <3>3. FifoAt'
        BY <2>8 DEF SetAlarm
      <3>4. SignalsAt'
        BY <2>8 DEF SetAlarm
      <3>5. LogTellsOutcome'
        BY <2>8 DEF SetAlarm
      <3>6. NameRemoved'
        BY <2>8 DEF SetAlarm
      <3> QED
        BY <3>1, <3>2, <3>3, <3>4, <3>5, <3>6
    <2>9. CASE ReadReply
      BY <2>9 DEF ReadReply
    <2>10. CASE RecordReply
      BY <2>10, Recorded DEF RecordReply
    <2>11. CASE Cancel
      BY <2>11 DEF Cancel
    <2>12. CASE RecordTimeout
      <3>1. Typed'
        BY <2>12, Recorded DEF RecordTimeout
      <3>2. LogAt'
        BY <2>12, Recorded DEF RecordTimeout
      <3>3. FifoAt'
        BY <2>12, Recorded DEF RecordTimeout
      <3>4. SignalsAt'
        BY <2>12, Recorded DEF RecordTimeout
      <3>5. LogTellsOutcome'
        BY <2>12, Recorded DEF RecordTimeout
      <3>6. NameRemoved'
        BY <2>12, Recorded DEF RecordTimeout
      <3> QED
        BY <3>1, <3>2, <3>3, <3>4, <3>5, <3>6
    <2>13. CASE CloseComunication
      <3>1. Typed'
        BY <2>13, ZenonT(60) DEF CloseComunication
      <3>2. LogAt'
        BY <2>13 DEF CloseComunication
      <3>3. FifoAt'
        BY <2>13 DEF CloseComunication
      <3>4. SignalsAt'
        BY <2>13 DEF CloseComunication
      <3>5. LogTellsOutcome'
        BY <2>13 DEF CloseComunication
      <3>6. NameRemoved'
        BY <2>13 DEF CloseComunication
      <3> QED
        BY <3>1, <3>2, <3>3, <3>4, <3>5, <3>6
    <2>14. CASE CheckArguments
      <3>1. CASE pc' = "start"
        BY <2>14, <3>1 DEF CheckArguments
      <3>2. CASE pc' = "ended" /\ code' \in {2, Killed}
        <4>1. Typed'
          BY <2>14, <3>2 DEF CheckArguments
        <4>2. LogAt' /\ FifoAt' /\ SignalsAt'
          BY <2>14, <3>2 DEF CheckArguments
        <4>3. LogTellsOutcome' /\ NameRemoved'
          BY <2>14, <3>2 DEF CheckArguments
        <4> QED
          BY <4>1, <4>2, <4>3
      <3> QED
        BY <2>14, <3>1, <3>2 DEF CheckArguments
    <2> QED
      BY <1>1, <2>14, <2>1, <2>2, <2>3, <2>4, <2>5, <2>6, <2>7, <2>8, <2>9, <2>10,
         <2>11, <2>12, <2>13 DEF UserStep
  <1>2. CASE AlarmFires
    BY <1>2 DEF AlarmFires
  <1>3. CASE Interrupt
    BY <1>3 DEF Interrupt
  <1>4. CASE Kill
    BY <1>4 DEF Kill
  <1>5. CASE ServerStep
    BY <1>5 DEF ServerStep
  <1>6. CASE ServerReply
    BY <1>6 DEF ServerReply
  <1>7. CASE UNCHANGED vars
    BY <1>7 DEF vars
  <1> QED
    BY <1>1, <1>2, <1>3, <1>4, <1>5, <1>6, <1>7 DEF Next, Over

\* The invariant holds in every session.
THEOREM SpecInv == Spec => []Inv
  BY InitInv, NextInv, PTL DEF Spec

\* Every variable keeps its type: no handler is entered before it is set, and
\* the log never gets a fourth record.
THEOREM SessionTyped == Spec => []TypeOK
  BY SpecInv, InvTypes, PTL

\* Whenever the alarm, SIGINT and other signals come, and whatever the server
\* does, the log of a user that left by itself says how its session ended.
THEOREM LogTells == Spec => []LogTellsOutcome
  <1>1. Inv => LogTellsOutcome
    BY DEF Inv
  <1> QED
    BY <1>1, SpecInv, PTL

\* A user that is not killed removes its reply FIFO, whichever handler its
\* closing is interrupted by.
THEOREM NameGone == Spec => []NameRemoved
  <1>1. Inv => NameRemoved
    BY DEF Inv
  <1> QED
    BY <1>1, SpecInv, PTL


-----------------------------------------------------------------------------
(* The command line and what is sent.                                      *)

\* The request is the one made of a command line that was accepted.
Formatted ==
    /\ checkArguments(argv) = "OK"
    /\ \E stray, strayNew \in BOOLEAN : request = formatRequest(argv, stray, strayNew)

\* It is there once the checks have passed, and from then on; the program ends
\* with 2 only if they have not.
CommandInv ==
    /\ argv \in CommandLines
    /\ pc \in MainPcs \ {"check"} => Formatted
    /\ sent => Formatted
    /\ request # <<>> => Formatted
    /\ code = 2 => checkArguments(argv) # "OK"

\* The command line is kept by every step, what is made of it by all but the first.
LEMMA CommandInvariant == Spec => []CommandInv
  <1>1. Init => CommandInv
    BY DEF Init, CommandInv, MainPcs
  <1>2. CommandInv /\ [Next]_vars => CommandInv'
    <2> SUFFICES ASSUME CommandInv, [Next]_vars PROVE CommandInv'
      OBVIOUS
    <2> USE DEF CommandInv, MainPcs, ClosePcs, Goto, End, outside, command, Killed
    <2>1. CASE CheckArguments
      BY <2>1 DEF CheckArguments, Formatted
    <2>2. CASE UNCHANGED command /\ ~CheckArguments
      <3> USE DEF Next, vars, UserStep, Over, RecordRequest, SetupResponseFifo,
            SetupRequestFifo, RecordDown, UnlinkDown, SetupHandlers, SendRequest, SetAlarm,
            ReadReply, RecordReply, Cancel, RecordTimeout, CloseComunication, AlarmFires,
            Interrupt, Kill, ServerStep, ServerReply
      <3>1. Formatted' = Formatted /\ argv' = argv /\ request' = request
        BY <2>2 DEF Formatted
      <3>2. pc' \in MainPcs \ {"check"} => pc \in MainPcs \ {"check"}
        BY <2>2
      <3>3. sent' => sent \/ pc = "send"
        BY <2>2
      <3>4. code' = 2 => code = 2
        BY <2>2
      <3> QED
        BY <3>1, <3>2, <3>3, <3>4
    <2>3. CheckArguments \/ UNCHANGED command
      BY DEF Next, vars, UserStep, Over, RecordRequest, SetupResponseFifo,
            SetupRequestFifo, RecordDown, UnlinkDown, SetupHandlers, SendRequest, SetAlarm,
            ReadReply, RecordReply, Cancel, RecordTimeout, CloseComunication, AlarmFires,
            Interrupt, Kill, ServerStep, ServerReply
    <2> QED
      BY <2>1, <2>2, <2>3
  <1> QED
    BY <1>1, <1>2, PTL DEF Spec

\* What is sent needs no other test, for every bound and width of the numbers,
\* and its passwords have their ends unless they have MAX_PASSWORD_LEN characters.
THEOREM SendsSafe == Spec => []SentSafe
  <1>1. CommandInv => SentSafe
    <2> SUFFICES ASSUME CommandInv, sent PROVE SentSafe
      BY DEF SentSafe
    <2>1. argv \in CommandLine /\ checkArguments(argv) = "OK"
      BY CommandLinesAssumption DEF CommandInv, Formatted
    <2>2. \E stray, strayNew \in BOOLEAN : request = formatRequest(argv, stray, strayNew)
      BY DEF CommandInv, Formatted
    <2> QED
      BY <2>1, <2>2, AcceptedIsSafe DEF SentSafe
  <1> QED
    BY <1>1, CommandInvariant, PTL

\* The program ends with 2 on no legal command, and makes requests of legal
\* commands only, but for numbers that are empty or wider than an int and for a
\* delay of 0.
THEOREM ChecksCommands == Spec => []CommandChecked
  <1>1. CommandInv => CommandChecked
    BY CommandLinesAssumption, LegalIsAccepted, AcceptedIsLegal
       DEF CommandInv, CommandChecked, Formatted
  <1> QED
    BY <1>1, CommandInvariant, PTL
=============================================================================
