---------------------------- MODULE UserSession ----------------------------
(***************************************************************************)
(* The user program (user.c, user_util.c) against its own signals: the     *)
(* alarm and SIGINT, whose handlers close everything and exit and may      *)
(* interrupt main and each other, any other signal, which ends it, and a   *)
(* server that comes and goes.  It starts with the checks of UserCommand.  *)
(*                                                                         *)
(* Calls that concern only this process succeed.  A handler blocks its own *)
(* signal and never returns, so that one pc is enough.                     *)
(***************************************************************************)
EXTENDS UserCommand

CONSTANT CommandLines   \* what users type

ASSUME CommandLinesAssumption == CommandLines \subseteq CommandLine

VARIABLES
    argv,       \* the command line
    request,    \* the request made of it, or <<>>
    pc,         \* where the program is, in main or in a handler
    code,       \* the exit status it is heading for, or Killed
    handled,    \* the signals with a handler
    blocked,    \* the signals whose handler has been entered
    alarm,      \* an alarm is running
    fifo,       \* the name of the reply FIFO exists
    log,        \* what this user has put in ulog.txt
    server,     \* the server's FIFO: no name, no reader, or a reader
    sent,       \* the request is in it
    arrived     \* the reply is in the reply FIFO

command == <<argv, request>>
vars == <<command, pc, code, handled, blocked, alarm, fifo, log, server, sent, arrived>>
outside == <<command, server, arrived>>

Killed == -1

MainPcs == {"check", "start", "mkfifo", "open", "down", "unlinkDown",
            "alrmHandler", "intHandler", "send", "setAlarm", "read", "record", "cancel"}
ClosePcs == {"close", "unlink", "exit"}
Pcs == MainPcs \cup ClosePcs \cup {"timeout", "ended"}

Ended == pc = "ended"
Goto(where) == pc' = where
\* exit(status), or the death by a signal.
End(status) == pc' = "ended" /\ code' = status

-----------------------------------------------------------------------------
(* Plausible bugs: mutated forms of definitions below, no part of the      *)
(* specification.                                                          *)

\* The alarm is not set.
SetAlarmMissing ==
    /\ pc = "setAlarm"
    /\ Goto("read")
    /\ UNCHANGED <<code, handled, blocked, alarm, fifo, log, sent, outside>>

\* main leaves the name when there is no server.
UnlinkDownMissing ==
    /\ pc = "unlinkDown"
    /\ End(4)
    /\ UNCHANGED <<handled, blocked, alarm, fifo, log, sent, outside>>

\* alarm_handler does not record the timeout.
RecordTimeoutMissing ==
    /\ pc = "timeout"
    /\ Goto("close")
    /\ UNCHANGED <<code, handled, blocked, alarm, fifo, log, sent, outside>>

\* The handler of SIGALRM is not set.
SetupIntOnly ==
    /\ \/ pc = "alrmHandler" /\ UNCHANGED handled /\ Goto("intHandler")
       \/ pc = "intHandler" /\ handled' = handled \cup {"INT"} /\ Goto("send")
    /\ UNCHANGED <<code, blocked, alarm, fifo, log, sent, outside>>

-----------------------------------------------------------------------------
Init ==
    /\ argv \in CommandLines /\ request = <<>>
    /\ pc = "check" /\ code = 0
    /\ handled = {} /\ blocked = {} /\ alarm = FALSE
    /\ fifo \in BOOLEAN   \* an earlier process with this pid may have left it
    /\ log = <<>>
    /\ server \in {"none", "noReader", "reading"}
    /\ sent = FALSE /\ arrived = FALSE

CheckArguments ==
    /\ pc = "check"
    /\ \E verdict \in {checkArguments(argv)} :
        \/ /\ verdict = "OK"
           /\ \E stray, strayNew \in BOOLEAN :
                  request' = formatRequest(argv, stray, strayNew)
           /\ Goto("start") /\ UNCHANGED code
        \/ /\ verdict # "OK"
           /\ End(IF verdict = "crash" THEN Killed ELSE 2)
           /\ UNCHANGED request
    /\ UNCHANGED <<argv, handled, blocked, alarm, fifo, log, sent, server, arrived>>

RecordRequest ==
    /\ pc = "start"
    /\ log' = Append(log, "request")
    /\ Goto("mkfifo")
    /\ UNCHANGED <<code, handled, blocked, alarm, fifo, sent, outside>>

\* setupResponseFIFO: mkfifo fails when the name is there.
SetupResponseFifo ==
    /\ pc = "mkfifo"
    /\ IF fifo THEN End(3) /\ UNCHANGED fifo
               ELSE Goto("open") /\ fifo' = TRUE /\ UNCHANGED code
    /\ UNCHANGED <<handled, blocked, alarm, log, sent, outside>>

\* setupRequestFIFO: the open fails without a name and waits for a reader,
\* while no handler is set and no alarm runs.
SetupRequestFifo ==
    /\ pc = "open" /\ server # "noReader"
    /\ Goto(IF server = "none" THEN "down" ELSE "alrmHandler")
    /\ UNCHANGED <<code, handled, blocked, alarm, fifo, log, sent, outside>>

RecordDown ==
    /\ pc = "down"
    /\ log' = Append(log, "down")
    /\ Goto("unlinkDown")
    /\ UNCHANGED <<code, handled, blocked, alarm, fifo, sent, outside>>

UnlinkDown ==
    /\ pc = "unlinkDown"
    /\ fifo' = FALSE
    /\ End(4)
    /\ UNCHANGED <<handled, blocked, alarm, log, sent, outside>>

\* setupHandlers: SIGALRM, then SIGINT.
SetupHandlers ==
    /\ \/ pc = "alrmHandler" /\ handled' = handled \cup {"ALRM"} /\ Goto("intHandler")
       \/ pc = "intHandler" /\ handled' = handled \cup {"INT"} /\ Goto("send")
    /\ UNCHANGED <<code, blocked, alarm, fifo, log, sent, outside>>

\* The write of the request: SIGPIPE without a reader.
SendRequest ==
    /\ pc = "send"
    /\ IF server = "reading" THEN sent' = TRUE /\ Goto("setAlarm") /\ UNCHANGED code
                             ELSE End(Killed) /\ UNCHANGED sent
    /\ UNCHANGED <<handled, blocked, alarm, fifo, log, outside>>

SetAlarm ==
    /\ pc = "setAlarm"
    /\ alarm' = TRUE
    /\ Goto("read")
    /\ UNCHANGED <<code, handled, blocked, fifo, log, sent, outside>>

\* The three reads of a reply, which the server writes at once.
ReadReply ==
    /\ pc = "read" /\ arrived
    /\ Goto("record")
    /\ UNCHANGED <<code, handled, blocked, alarm, fifo, log, sent, outside>>

RecordReply ==
    /\ pc = "record"
    /\ log' = Append(log, "reply")
    /\ Goto("cancel")
    /\ UNCHANGED <<code, handled, blocked, alarm, fifo, sent, outside>>

Cancel ==
    /\ pc = "cancel"
    /\ alarm' = FALSE
    /\ Goto("close")
    /\ UNCHANGED <<code, handled, blocked, fifo, log, sent, outside>>

\* alarm_handler's recordError.
RecordTimeout ==
    /\ pc = "timeout"
    /\ log' = Append(log, "timeout")
    /\ Goto("close")
    /\ UNCHANGED <<code, handled, blocked, alarm, fifo, sent, outside>>

\* closeComunication, by main or by a handler, and the exit.  A close or an
\* unlink of what is gone fails, which only main would notice.
CloseComunication ==
    /\ \/ pc = "close" /\ Goto("unlink") /\ UNCHANGED <<code, fifo>>
       \/ pc = "unlink" /\ fifo' = FALSE
          /\ Goto("exit") /\ code' = IF ~fifo /\ code = 0 THEN 6 ELSE code
       \/ pc = "exit" /\ End(code) /\ UNCHANGED fifo
    /\ UNCHANGED <<handled, blocked, alarm, log, sent, outside>>

UserStep ==
    \/ CheckArguments \/ RecordRequest \/ SetupResponseFifo \/ SetupRequestFifo
    \/ RecordDown \/ UnlinkDown \/ SetupHandlers
    \/ SendRequest \/ SetAlarm \/ ReadReply \/ RecordReply \/ Cancel
    \/ RecordTimeout \/ CloseComunication

-----------------------------------------------------------------------------
\* FIFO_TIMEOUT_SECS have passed: alarm_handler is entered (TypeOK has
\* it set by then).
AlarmFires ==
    /\ ~Ended /\ alarm
    /\ alarm' = FALSE
    /\ blocked' = blocked \cup {"ALRM"}
    /\ code' = 8
    /\ Goto("timeout")
    /\ UNCHANGED <<handled, fifo, log, sent, outside>>

\* SIGINT: signal_handler once it is set, the end of the process before.
Interrupt ==
    /\ ~Ended /\ "INT" \notin blocked
    /\ IF "INT" \in handled
       THEN blocked' = blocked \cup {"INT"} /\ code' = 9 /\ Goto("close")
       ELSE End(Killed) /\ UNCHANGED blocked
    /\ UNCHANGED <<handled, alarm, fifo, log, sent, outside>>

\* Any other signal.
Kill ==
    /\ ~Ended
    /\ End(Killed)
    /\ UNCHANGED <<handled, blocked, alarm, fifo, log, sent, outside>>

\* The server makes its FIFO, opens it, closes it or dies, and unlinks it.
ServerStep ==
    /\ ~Ended
    /\ \/ server = "none" /\ server' = "noReader"
       \/ server = "noReader" /\ server' \in {"reading", "none"}
       \/ server = "reading" /\ server' = "noReader"
    /\ UNCHANGED <<command, pc, code, handled, blocked, alarm, fifo, log, sent, arrived>>

\* An office answers.
ServerReply ==
    /\ ~Ended /\ sent /\ fifo /\ ~arrived
    /\ arrived' = TRUE
    /\ UNCHANGED <<command, pc, code, handled, blocked, alarm, fifo, log, server, sent>>

Over == Ended /\ UNCHANGED vars

Next == UserStep \/ AlarmFires \/ Interrupt \/ Kill \/ ServerStep \/ ServerReply \/ Over

Spec == Init /\ [][Next]_vars
\* The program runs and time passes.  Nothing is assumed of the server, nor of
\* other signals.
FairSpec == Spec /\ WF_vars(UserStep) /\ WF_vars(AlarmFires)

-----------------------------------------------------------------------------
TypeOK ==
    /\ argv \in CommandLines
    /\ pc \in Pcs
    /\ code \in {0, 2, 3, 4, 6, 8, 9, Killed}
    /\ blocked \subseteq handled /\ handled \subseteq {"ALRM", "INT"}
    /\ alarm \in BOOLEAN /\ fifo \in BOOLEAN /\ sent \in BOOLEAN /\ arrived \in BOOLEAN
    /\ log \in Seq({"request", "reply", "timeout", "down"}) /\ Len(log) <= 3
    /\ server \in {"none", "noReader", "reading"}

\* The logs of a user that is still to time out, and of one that has.
Waiting == {<<"request">>, <<"request", "reply">>}
TimedOut == {<<"request", "timeout">>, <<"request", "reply", "timeout">>}

\* The log of a user that left by itself says how the session ended, wherever
\* the alarm and SIGINT hit and whichever handler they interrupted: exactly
\* one outcome follows the request, but that an alarm after the reply was
\* recorded adds a timeout to it, and that SIGINT may leave none.
LogTellsOutcome ==
    Ended =>
        CASE code = 0 -> log = <<"request", "reply">>
          [] code = 2 -> log = <<>>
          [] code = 3 -> log = <<"request">>
          [] code = 4 -> log = <<"request", "down">>
          [] code = 8 -> log \in TimedOut
          [] code = 9 -> log \in Waiting \cup TimedOut
          [] OTHER -> code = Killed

\* A user that made its FIFO and is not killed takes its name with it, unless
\* the name was another's: offices find nobody, and a later process with the same
\* pid can start.
NameRemoved == Ended /\ code \notin {2, 3, Killed} => ~fifo

\* What is sent is a request the server can take without testing it again
\* (server_bank_office.c indexes its accounts with the ids as they come), though
\* the checks and the formatting read the numbers at different widths
\* (user_validation.c:128, user_util.c:267).  Its passwords have the ends that the
\* server's strcpy needs (server_accounts.c:15), but for one of MAX_PASSWORD_LEN
\* characters: that of the header (user_util.c:277) and that of a new account
\* (user_util.c:245) may then be sent without.
SentSafe ==
    sent => /\ SafeFields(request)
            /\ ~request.ended => argv.password.length = MaxLength
            /\ ~request.newEnded => request.kind = 0 /\ request.newLength = MaxLength

\* checkArguments refuses no command that is legal as it is typed, and it
\* accepts only those, empty numbers and numbers wider than an int aside
\* (user_validation.c:6 cuts a long to an int), and but for a delay of 0, which
\* user_validation.h:62 and user_util.c:16 forbid and user_validation.c:78 accepts.
CommandChecked ==
    /\ code = 2 => ~Legal(argv)
    /\ request # <<>> /\ AllFit(argv) => Legal(argv) \/ ZeroDelay(argv)

\* Once it has set its alarm, a user ends, whatever the server does.
EndsOnceSent == pc = "read" ~> Ended
=============================================================================
