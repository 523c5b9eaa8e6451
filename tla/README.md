# A verification of the home banking server and the forensic tool

The repository holds two programs of an operating systems course: *Project 2*, a
bank server with a pool of threads and the user program that talks to it over
FIFOs, and *Project 1*, a tool that scans a directory tree with one process per
directory. This directory models both in TLA+, checks the models with TLC and proves the
invariants of the office pool, of its queue, of the accounts, of the hashing, of the user program and of
the forensic tool with TLAPS.

    cd tla
    tlc -config OfficePoolTimeouts.cfg MCOfficePool.tla
    tlapm OfficePoolProofs.tla
    tlapm OfficePoolLine.tla
    tlapm BankAccountsProofs.tla
    tlapm BankLedgerProofs.tla
    tlapm RequestQueueProofs.tla
    tlapm ShaProofs.tla
    tlapm UserSessionProofs.tla
    tlapm ForensicProofs.tla

## 1. The system

### Parts, state, operations

| part | code (under `src/Project 2/src/`) | state | operations |
|---|---|---|---|
| server main | `server/server.c`, `waitForRequests` and `setupRequestFIFO` in `server/server_bank_office.c` | the read end and a dummy write end of `/tmp/secure_srv` | start the offices, open accounts and FIFO, read requests and push them, close everything after the last |
| office pool | `server/server_bank_office.c` | `shutdown`, `active_thread_cnt`, the offices' threads | take a token, pop, handle, reply, leave |
| synchronisation | `server/server_sync.c` | `empty`, `full`, `request_queue_mutex`, `thread_cnt_mutex` | wait, post, lock, unlock |
| request queue | `request_queue.c` | a linked list with a header node and a size | push at the end, pop the first |
| accounts | `server/server_accounts.c` | `accounts[4096]`, `account_mutex[4096]` | initialise, insert, look up |
| operations | `server/server_operations.c`, `checkRequestHeader` | none of their own | create, balance, transfer, shutdown |
| hashing | `generateSHA256sum` in `server/server_util.c` | two pipes and a child process per call | hash a salted password |
| user | `user/user.c`, `user/user_util.c` | its reply FIFO `/tmp/secure_<pid>`, an alarm | format, send, wait 30 s, close |
| user's commands | `user/user_validation.c`, the `format*` functions of `user/user_util.c` | none of their own | accept or refuse a command line, make a request of it |
| logs | `log.c` | two text files | append a line |
| forensic scan | `src/Project 1/src/forensic.c`, `main.c` | a process tree, counters of files and directories in the root process, an output file | scan a directory, run `file` and the checksums, write a line, signal the root process, wait |
| forensic options | `src/Project 1/src/options.c` | the options, the output and the log file | parse the command line, open the files |

### How they interact

A user creates its own FIFO, opens the server's and writes one request. Main reads
it, waits for a free place (`empty`), pushes it under `request_queue_mutex` and posts
`full`. An office waits for `full`, looks under the mutex whether it should leave,
counts itself in, takes the mutex again, pops, posts `empty`, checks the request's
header, performs the operation under the mutexes of the accounts it touches, opens the
user's FIFO, writes the reply and counts itself out.

A shutdown request sets the flag, removes the write permission of the server FIFO and
closes the dummy writer. Main then reads end-of-file when the last user that has the
FIFO open leaves; it closes and unlinks the FIFO, posts one token per office so that
each wakes up and sees the flag, joins the offices and returns.

The forensic tool's processes only meet through the kernel: a process forks one for each
subdirectory and one for each command on a file, waits for any of its children, and
shares with all the others the output file's offset, and the root process as the address of
the signals that count directories and files.

### What is hard here

* threads: the shutdown test and the pop are two critical sections; the accounts are
  read by the header check without a lock; a transfer holds two mutexes;
* counting: two semaphores, a queue at its limit, and tokens that mean two things
  (a request, or "leave");
* order: offices start before what they use; permissions before the dummy's close; the
  flag before the queue is drained;
* the other side failing: users time out after 30 s, are interrupted or die, and close
  their two FIFOs and unlink the name in separate steps, while an office is about to
  open or write;
* a `fork` among threads: a child inherits other calls' pipes, `wait(NULL)` any child;
* boundaries: `MIN_BALANCE`, `MAX_BALANCE`, equal ids, an id in use; texts that are read as
  a `long`, an `int` and an `unsigned` by turns;
* a tree of processes: waits that take another's child, signals that coalesce, seeks and
  writes on one offset, parents that end before their children.

`PROJECT.json` lists each of these at its line under "hazards", with the properties
that cover it or the reason why none does yet.

### What makes each part correct

* **Pool**: a token is a request; an office that pops finds one; each request is
  popped once, in the order of arrival, and finished once; nobody leaves early; every
  waiting user is answered; a shutdown ends the server and loses nothing.
* **Queue and semaphores**: places are neither made nor lost; never more requests than
  offices; the queue is only touched by the mutex's holder.
* **Accounts**: an operation is indivisible; money is conserved; balances stay within
  bounds; an office that has answered holds no account; nobody waits for ever.
* **Users**: at most one reply each, and none of them can hurt the server; a command that is
  accepted is a request the server can take without testing it again (but for the end of a
  longest password, section 3).
* **Hashing**: a hash ends, and is that of its own input, whatever other threads fork.
* **Forensic tool**: as many waits as children, so that the scan ends; every file has at
  most one line and no line is overwritten; a line that is missing is paid for by a child
  that failed, or its file was skipped by a process that outlived the root; the counts are
  never too high.

## 2. The modules

| module | what it is |
|---|---|
| `RequestLine` | abstract: requests form a line, are taken from its head, served and finished once; it closes only after a shutdown has been taken |
| `OfficePoolState` | constants, variables and pc sets of the pool, and what the kernel shows of a FIFO to the other side |
| `OfficePool` | main, offices and users: the steps, the properties, the mapping to `RequestLine`; a section of plausible bugs that is no part of the specification |
| `OfficePoolProofs`, `OfficePoolLine` | the TLAPS proofs: the invariants and their counts; that the pool implements `RequestLine` and loses nothing |
| `MCOfficePool` | symmetry for TLC |
| `RequestFifo`, `RequestQueue`, `RequestQueueProofs` | a first-in first-out sequence, and the linked list with its size that implements it; the TLAPS proof that it does |
| `ShaCoprocess`, `ShaProofs` | `generateSHA256sum` called by several threads: pipes, forks, inherited descriptors, `wait(NULL)`; the TLAPS proofs about it |
| `UserCommand` | pure: the checks of a command line and the request made of it, against a reference of legal commands and safe requests |
| `UserSession`, `UserSessionProofs`, `MCUserSession` | one user program, from its command line on, against its own signals; the TLAPS proofs about it and about its commands, for every width of the numbers; command lines for TLC |
| `ForensicReport` | abstract: the output file grows by one line at a time, at most one for each file |
| `Forensic`, `ForensicProofs`, `MCForensic` | the processes of a scan, their commands, signals and output file; the TLAPS proofs; a tree, command lines and faults for TLC |
| `BankRequests` | requests, replies, permissions |
| `Ledger` | abstract: every request is one indivisible change of the accounts |
| `BankAccountsState`, `BankAccounts`, `MCBankAccounts` | the accounts under their mutexes, laid out like the pool; the mapping to `Ledger`; sets of requests for TLC |
| `BankAccountsProofs`, `BankLedgerProofs` | the TLAPS proofs: the lock discipline, exclusion and the balances; that the offices implement `Ledger` and conserve money, with the theory of finite sums that takes |

The section of plausible bugs comes first in its module; each bug is the mutated form
of a definition below it, and shows that some property would notice it.

### OfficePool and the code

`mainPc`, `offPc[o]` and `userPc[u]` are the places in `main`, in
`bank_office_service_routine` and in `user.c` between two calls that another thread
or process can see; `answer[u]` is the history of the replies written to a user; every other
variable has the name of the program's. One action
is one such call: `LockToCheck` is line 53 of `server_bank_office.c`, `Check` lines
55 to 61, `CountActive` 65 to 67, `LockToPop` 70, and so on. `queue_pop` is two
actions, `Retrieve` and `Delete`, because it goes through the list twice; the mutex is
what keeps other threads out in between, and `MutexInv`, which is proved, says so. A
`Delete` of an empty list is the null dereference of `queue_delete` and ends the
server (`dead = "segv"`).

FIFOs are modelled by what each side can see of the other: whether the name exists,
whether somebody holds the read end and whether somebody holds a write end.

* `open` for writing fails without a name or a permission (`ServerDown`,
  `ReplyToNobody`), blocks while there is a name and no reader (`BlockOnReply`; the
  user's `OpenServer` is then just not enabled), and succeeds with one. Blocking on a
  reply is a state of its own without a way out, since the only process that would open
  the other end has closed it for good.
* `write` without a reader is SIGPIPE: it ends a user (`SendToNobody`) and the server
  (`BrokenReply`, `dead = "sigpipe"`), neither of which handles it.
* `read` returns data, or end-of-file when there is none and no writer is left
  (`NoWriter`), or waits.

A user opens its own FIFO for reading and writing, so that it never sees end-of-file;
and writes less than `PIPE_BUF`, so that requests do not mix. `GiveUp` is the alarm and
SIGINT, whose handlers both go through `closeComunication`; `Kill` is any signal
without a handler, which leaves the name behind. The kernel's `sem_destroy` is a no-op
for a semaphore that is used afterwards (glibc), which the code relies on
(`server_bank_office.c:376`).

### BankAccounts and the code

`CheckExists` and `CheckPassword` are the header check without a lock; `Lock1` and
`Lock2` the account mutexes, the larger id first; the critical sections follow the
code. `accounts[id] = newAccount` (`server_accounts.c:45`) copies a structure that other
threads read without the mutex: the copy is three steps in any order
(`InsertField`). `InsertInUse` returns with the mutex locked, as line 43 does. A default
mutex locked again by its holder blocks it, so `Lock1` and `Lock2` just require `Free`.

The mapping to `Ledger` says when an operation happens: an insertion as soon as a login
on the new account would succeed (which may be before its balance is written, and
nobody can tell, since reading the balance takes the mutex); a transfer at its debit.
`Promised` is the list of `ret_code` (`types.h:17-30`) with its order; `LeavesTooLittle` is the
one case in which the ledger answers otherwise, as the code does.

### RequestQueue, ShaCoprocess and the code

`RequestQueue` keeps `header->next`, each node's `next` and `element`, the nodes malloced and
`size`; `List` is the chain of nodes that leads from the first to null. `queue_create` does not set `size`; in the builds tried it is zero, since the
allocator hands out fresh memory, and `InitialSizes` holds another value as well: the
first push then walks off the empty list (`PushBeyondEnd`).

`ShaCoprocess` has one pair of pipes and one child per call. A process is the set of pipe
ends it holds; `Fork` copies the server's whole set, which is what the kernel does for
descriptors without `FD_CLOEXEC`. `sha256sum` answers when nobody holds the write end of
its input any more. `Wait` takes any child that has ended.

### UserSession and the code

OfficePool has what the server sees of several users; `UserSession` is one of them in full.
Its first step, `CheckArguments`, is `main`'s use of `UserCommand`. From there `pc` goes
through `main` and the functions it calls; `AlarmFires` and `Interrupt` move it
into a handler from wherever it is. A handler blocks its own signal, may be interrupted by
the other one and never returns, so the place it interrupted need not be kept. `code` is the
exit status it is heading for. `CloseComunication` may find closed what it closes, in a
handler that interrupted another closing; only `main` would notice (status 6), and
`LogTellsOutcome` says that it never does. Before line 35 of `user.c` no handler is set:
SIGINT kills the process and leaves the FIFO's name, and the open of line 30 waits without
an alarm. The server opens, closes and unlinks its FIFO at any time.

The session may be logged twice: an alarm between the record of the reply and `alarm(0)`
(`user_util.c:485-487`) adds a timeout to it. `LogTellsOutcome` allows that one pair, in
that order.

### UserCommand and the code

A text is what `strtol`, `atoi`, `strlen` and `strtok` see of it: the number it starts with,
whether anything follows, its length, and its blanks. `strtol` stops at the ends of a
`long`, `AsInt` is the cut to an `int`, `AsUnsignedLong` the conversion of a negative one; the
widths are constants. The checks keep the code's order up to the first that fails, since a
later one may crash where an earlier one refuses: `strtok` gives NULL for a text of blanks
(`user_validation.c:48`, `170`, `215`). The reasons for refusing are not told apart, because
the program exits with 2 for each. `Legal` and `SafeRequest` are the reference: what a command
is as it is typed and as the headers and messages describe it, and what the server relies on
without testing it: its indexes, amounts and delay (`SafeFields`), and that both passwords
have an end. `formatRequest` copies both without it: `stray` and `strayNew` are whether the byte
that follows MAX_PASSWORD_LEN others, never written, happens to be something else.

### Forensic and the code

`pc[d]` is where the process of directory `d` is in `scan_directory`, `build_file_line` and
`get_cmd_output`; `proc[p]` is what the kernel knows of a process, a directory's or the
`i`-th command on a file: running, a command that has written and not ended, a zombie,
reaped. `CollectCommand` is `get_cmd_output` from its read to its end: the read needs the
command's output or its end, and the `wait` takes any child that has ended, whose status
decides. A command of which nothing came leaves an uninitialised buffer to the string
functions (`file`) or the line without a checksum; the first is a choice between going on and the
process's death.

Signals are the kernel's: a pending set, in which a second signal of a kind is lost, delivered
before the next step of the root process; the root's own signal is handled before `kill`
returns. `Ofd` says whose file description a process writes through: the root's, opened before any
fork, so that one `lseek` moves everybody's offset. `Faults` has what may be wrong with
the tree: a directory that cannot be opened, an entry gone between `readdir` and `lstat`, a
file that cannot be read, output files that exist. Options are taken one by one, with the
names that `-o` and `-v` open: a second `-o` with another name is accepted, and its file is the
report. `skipped` is a history variable: the files passed over because the signal to the root
could not be sent. `Interrupt` is Ctrl-C, to every process
of the tool at once. `setup_signals` never installs `int_signal_handler`
(`sigact.sa_handler;` at line 402 assigns nothing), which also looks for SIGTERM, so that
`program_is_term` is FALSE: the commands die and the scan goes on.

## 3. The runs

| run | instance | what it shows |
|---|---|---|
| `pool_timeouts` | 2 offices, a shutdown and two requests, all users may give up, one may be killed; 1.4 M states | the safety properties of the pool, and `RequestLine` |
| `pool_patient` | the same, nobody gives up; fairness; deadlock checked; 63 k states | every user is answered, a shutdown ends the server, the pop finds a request |
| `pool_pop` | 2 offices, 2 users | **violated**: two offices pass the shutdown test on one request, and the second pops from an empty queue |
| `pool_sigpipe` | 2 offices, 2 users | **violated**: a user that leaves between open and write kills the server |
| `pool_stuck` | 2 offices, 2 users | **violated**: a user between close and unlink blocks an office for ever |
| `accounts` | 2 offices, 2 client accounts, five sets of 3 to 6 requests, leftover balances of 3; fairness; 23 k states | exclusion, conservation, ranges, the ledger but for its one exception; nobody waits for ever but on a mutex lost to an id in use or to a transfer to its source |
| `accounts_duplicate` | an id created twice | **violated**: the second creation keeps the mutex |
| `queue_list` | 4 nodes, 2 requests, an initial size of 0 or 2 | the list and its size are a FIFO and lose no node |
| `sha` | 2 threads, two hashes each; fairness; 16 k states | every hash is that of its own input, children and descriptors balance, and a hash ends unless children hold each other's inputs open |
| `user_session` | one user, 110 command lines, every signal at every place; fairness for the program and its alarm; deadlock checked; 21 k states | no legal command is refused; an illegal one whose numbers fit is accepted only for its delay of 0; what is sent is safe but for the ends of longest passwords; the log tells the outcome, the FIFO's name goes, the wait ends |
| `sha_inherited` | 2 threads, one hash each; fairness | **violated**: a hash may never end |
| `forensic` | 3 directories in a chain, a file in each, 8 command lines, no fault or one of five, Ctrl-C at any point; fairness; 474 k states | waits match children, missing lines are paid for or their files skipped by orphans, counts are sound, the output is a report, the scan ends |

The violated ones are the disagreements between the code and what its headers, its
types or its handout say; `PROJECT.json` quotes both sides under "findings". Other disagreements
have no run of their own. Each is a named exception of a property that holds, which so says that
it is the only one:

* `types.h:28` has a transfer refused (`RC_NO_FUNDS`) when the final balance is below `MIN_BALANCE`
  (1), while `server_operations.c:87` only tests `balance < amount`: 0 is left, or the answer is
  `RC_TOO_HIGH`, which comes later in the list. `ImplementsLedger` passes with the exception
  `LeavesTooLittle` and fails without it.
* `types.h:27` has a transfer to its own source answered with `RC_SAME_ID`. The code has no such
  test: the transfer locks one mutex twice and is never answered, which is the second case of
  `MutexLost` in `AnsweredUnlessMutexLost`. The ledger has the answer that no office gives.
* `user_validation.h:62` and the message at `user_util.c:16` want a delay that is neither negative nor
  zero; `user_validation.c:78` refuses only a negative one. `ZeroDelay` is the one kind of
  illegal command, its numbers fitting an `int`, that `CommandChecked` has accepted.
* `types.h:86` and the request's header have room for a password's end that `user_util.c:245` and
  `277` do not copy: `memcpy` takes `MAX_PASSWORD_LEN` bytes, so that a password of that length
  is sent with whatever follows it, and the server's `strcpy` reads on
  (`server_accounts.c:15`, `server_bank_office.c:121`). `SentSafe` has these two passwords as its exceptions: a
  request without such a one is a `SafeRequest`.
* Ctrl-C does not end a forensic scan, as the handler that nobody installs was meant to.

### Bounds

Two offices and three users are the smallest pool in which the queue fills (its size
is the number of offices), a third request waits in main's hand, one office handles a
shutdown while the other is in any place of its loop, and the tokens of `closeOffices`
meet requests in the queue. Every user sends one request, as the program does, and
nothing else is bounded: the state space is finite. `pool_timeouts` treats offices
as symmetric: no property of it names one.

In `BankAccounts` the variable `sent` is the set of requests that users send, chosen
from `Loads` at the start and constant. `MCBankAccounts` has five loads over two client
accounts, with `MAX_BALANCE` 3: `Crossing` (two creations, a transfer in each direction
and a balance read; the second transfer may lack funds), `Limits` (a destination that
is full, so that `TOO_HIGH` comes alone and together with `NO_FUNDS`), `Duplicate` (an
id created twice), `SelfTransfer`, and `Headers` (requests that the header check
refuses, and logins on an account that is being written). Two offices are enough: an
operation locks at most two accounts, and every conflict over one is between two
holders; a cycle of three would need three transfers, and three accounts.

The command lines of `MCUserSession` put a number at both ends of every range, at the powers of two
at which an `int` and a `long` wrap (4 and 6 bits wide here; the proofs are for any width) and
beyond them, in every position, and have too few and too many words.

`MCForensic`'s tree is a chain of three directories with a file in each: a process between two
others is a parent and a child at once, and a process with a file and a subdirectory has both
orders of the two and of their waits. A vanished file makes the root or the middle process leave with its children
running, so that the others outlive the root and skip their files. With one
checksum a file has two commands, which is all the loop of `build_file_line` can tell apart;
four are within the proofs. One kind of fault at a time is enough to make every error path be taken next to
processes for which nothing is wrong.

`ShaCoprocess` with two threads has every overlap of two calls; with two calls each, a
thread also starts a hash while an earlier child is not yet reaped. The invariants
were also checked with three threads of one hash each.

`CHECK_DEADLOCK FALSE` is set where the system may really stop: an office blocked on a
dead user's FIFO, on a mutex that nobody unlocks or on a hash, a server that died, threads
that have made all their calls, a forensic tool that has ended.
In the others `Quiescent` (`Over` in `UserSession`) marks the states in which everything is done.

### Fairness

Weak fairness for main, for each office, for each user's own steps and for each child process: the threads and
processes are scheduled. Nothing is assumed of `GiveUp` and `Kill`. In
`UserSession` the alarm is fair too (time passes), and the server is not. In `Forensic` every
process and the delivery of signals are fair; Ctrl-C and the shell are not. Semaphores and mutexes
promise that some waiter gets in, not which; no more is needed, because there are
finitely many requests and an office that loses a race loses it to one of them.

## 4. The proofs

`OfficePoolProofs` proves, for every finite non-empty set of offices and every set of
users (`PoolAssumption`):

| theorem | statement |
|---|---|
| `TypeCorrect` | `Spec => []TypeOK`, with both semaphores never negative |
| `QueueMutex` | `Spec => []MutexInv` |
| `TokensAccounted`, `RoomAccounted`, `ActiveCounted` | `TokenInv`, `RoomInv`, `ActiveInv` |
| `QueueBounded` | `QueueBound` |
| `PopSafeWhileOpen` | until `closeOffices` posts its first token, `PopFindsRequest` |
| `OfficesStay` | `Spec => []NoEarlyExit` |
| `OfficesWaitForSetup` | `Spec => []NoEarlyStart` |
| `NoWriterAfterEnd` | `Spec => []NoLateWriter` |
| `RequestsOwned` (in `OfficePoolLine`) | `Spec => []OneOwner` |
| `LineImplemented` | `Spec => ImplementsLine`: the pool implements `RequestLine` |
| `NothingLost` | `Spec => []NothingLeftBehind` |
| `AnsweredOnce` | `Spec => []OneReply` |

The argument of `OfficePoolProofs` has three layers, and `OfficePoolLine` adds two to them.

1. `IInv` is `TypeOK`, `MutexInv` and two facts that make them inductive. `CurInv`: between
   the two halves of a pop an office holds the queue's first request, which is where
   typing `cur` and knowing that the deleted request is the one retrieved comes from.
   `MainInv`: main has a request in hand exactly from its read to its push, and posts at
   most one token per office.
2. `Counts` is `TokenInv`, `RoomInv` and `ActiveInv`. Each says that a number is the
   number of offices at certain places; the lemmas `CountMove` and `CountStay` say how
   such a number changes when one office moves, and `NextCounts` has one step per action.
   Counting needs the finiteness of the offices, and no induction.
3. From the counts: an office that holds a token while nothing is posted proves that a
   request is queued (`TokenMeansRequest`), so the pop finds it; and `NoEarlyExit` is
   inductive because, before the tokens are out, `TokenInv` forbids an office at the test
   with an empty queue. `NoLateWriter` rests on `Unwritable`: the permission bits are off before
   the dummy can be closed, and nothing puts them back.
4. `OwnInv` is about the line itself, the queue, then main's hand, then the FIFO. Nobody is in
   it twice, nobody in it is being served or finished, and no two offices serve one user. It is
   inductive because a user writes once and leaves its place for good, and because a push and a
   read of main do not change the line (`MainLine`), a `Delete` takes its head, which is what the office
   holds (`DeleteLine`, from `CurInv`), and a write extends it (`SendLine`). `StopInv` says that
   whatever a shutdown has changed was changed by a shutdown request that was taken. With
   these two every step is `Take`, `Arrive`, `Finish` or `Stop` of `RequestLine`, or a stutter
   (`StepsLine`).
5. `Held` is everybody in the line, with an office or finished; no step makes it smaller
   (`HeldStays`), and a patient user who has written its request is in it (`HeldInv`). At the end the line is empty and
   no office serves, so what is held is finished: `NothingLeftBehind`. A reply goes to a
   request that is being served, whose user has none yet, and whoever has one is finished: `answer`
   keeps every reply that is written, and never has two of one user (`OneReply`).

`PopSafeWhileOpen` and the run `pool_pop` together say exactly when the pop is safe: any
number of offices and users cannot break it while the server is open, and two offices and
two users break it during a shutdown.

`BankAccountsProofs` and `BankLedgerProofs` prove, for every finite set of ids, every finite set of
requests that users may send, all offices, passwords and bounds of the balances
(`AccountsAssumption`):

| theorem | statement |
|---|---|
| `TypeCorrect` | `Spec => []TypeOK` |
| `MutexesExclude` | `Spec => []Exclusive` |
| `BalancesBounded` | `Spec => []BalanceInRange` |
| `AccountsAreALedger` (in `BankLedgerProofs`) | `Spec => ImplementsLedger`: every step is one indivisible operation of `Ledger`, or a stutter |
| `MoneyConserved` | `Spec => []Conserved` |

1. `IInv` has, besides `TypeOK`, five parts. `LockInv` says which mutexes an office holds at each
   place, and that nobody else does; an insertion that found its id in use keeps one for ever, so
   the holder of a mutex need not be at work. `WorkInv` is what the office has found out on its way:
   the header check was passed by an account that is still there, a transfer is in its second half
   only if the first was allowed. `InsertInv` relates an account that is being written to the
   fields that are in it already. `AccountInv` is about accounts at rest (an account has a password
   and a bounded balance, the admin has no money). `MoneyInv` is the one a transfer needs: between
   credit and debit the source still holds the amount, as tested before the credit, and the target
   what it was given, because `LockInv` says that the mutexes were not given back in between.
   The header check reads accounts without a lock. What makes it right is monotonicity,
   not locking: accounts are never removed and passwords never change once a login works
   (`LoginStays`).
2. The ledger's accounts are those a login would find, with the credit of a running transfer
   taken off its target. `HeldInv` says what the ledger sees of an account that some office
   holds, `ReplyInv` which answers are out, `LoginInv` when a login works. With these, the header
   check is a refusal or nothing (`HeaderStep`); the last field that a login needs is the creation
   (`InsertStep`); a credit changes nothing that the ledger shows (`CreditStep`); a debit is the
   whole transfer (`DebitStep`); a balance is read when it is answered (`ReadStep`); everything
   else is a stutter (`QuietStep`).
3. `Conserved` compares two sums. The library's sum is recursive, and induction over data is out of
   the prover's reach, so the sum of a function over a finite set is shown to be the number of its
   *coins*, the pairs of a member and a number up to its value: `CoinsSum` says that coins
   satisfy the recursion, `SumUnique` that nothing else does (the smallest set on which two
   solutions differ would have a smaller one). From there `SumChange` is a fact about cardinalities: changing one
   value changes the sum by the difference. Only two of the ledger's steps move money: a creation
   adds the same to both sides (`CreateConserves`), a transfer takes from one account what it gives
   to another (`TransferConserves`); conservation is proved of the ledger's view, and the
   interleavings are dealt with by the refinement.

`AccountsAssumption` takes the ids and the sets of requests as finite, which
`MAX_BANK_ACCOUNTS` and the number of user processes justify; the sums need it, nothing else does.

`UserSessionProofs` proves of `UserCommand`, for all bounds and widths within `CommandAssumption`, that an accepted
command makes a request whose fields are safe (`AcceptedIsSafe`), that every legal command is accepted
(`LegalIsAccepted`) and that nothing else is whose numbers fit an `int`, but for a delay of 0
(`AcceptedIsLegal`). `AcceptedIsSafe` also says which ends a request may lack: those of
passwords of MAX_PASSWORD_LEN characters, and none in a request without such a one.
The one place where the two readings of a number could part is an amount, tested as an unsigned
`long` and sent as an `int`: `MAX_BALANCE` is below the `int`'s end, which is what
`AmountRead` uses.

It then proves `TypeOK`, `LogTellsOutcome` and `NameRemoved` of
`UserSession`, and carries the theorems about commands over to the session (`SentSafe`,
`CommandChecked`). The invariant says what the log holds at each place (`LogAt`), where the FIFO
exists (`FifoAt`) and which handlers are set (`SignalsAt`): a handler may start anywhere, so
that what is true when it exits must be known of every place it can interrupt.

`RequestQueueProofs` proves, for any finite memory and any initial sizes (`QueueAssumption`), `TypeOK`
(`TypeCorrect`), `NoLeak` (`NothingLeaks`) and `ImplementsFifo` (`QueueIsFifo`). `ListInv` says that a chain without a
repetition leads from `first` to null through all the used nodes, and that `size` is its length,
or the list is empty and the size was never set. The chain is unique (`OneList`: the first
position at which two chains differ has one before it), which is what makes `List`, a choice,
the chain that a step extends or shortens.

`ShaProofs` proves, for any finite set of threads and any number of calls (`ShaAssumption`):

| theorem | statement |
|---|---|
| `OwnResults` | `Spec => []ResultIsOwn` |
| `WaitsMatchChildren` | `Spec => []ChildrenAccounted` |
| `DescriptorsClosed` | `Spec => []NoDescriptorLeft` |
| `StuckInACircle` | `Spec => [](Stuck => Circle)`: the safety half of `HashEndsUnlessCircle` |

The invariant is about who holds what. `ServerEnds`: the server holds, for each thread, the ends
that its place in the call says, and no other, so that what a child inherits is known.
`ChildInv`: a child holds the write end of its own output until it has written, so its parent
cannot read an end of file in its place; and it answers only when nobody holds its input open,
which the server stops doing after it has written all of it. `HolderInv`: only children that run
hold ends, and none holds its own input after its exec. Whoever keeps an input open that
the server has closed is therefore another child, and if all of these wait, they do so in a
circle.

`ForensicProofs` proves, for every finite tree, all command lines and any set of faults
(`TreeAssumption`), any number of them at once:

| theorem | statement |
|---|---|
| `TypeCorrect` | `Spec => []TypeOK` |
| `ReportImplemented` | `Spec => ImplementsReport`: every step of the tool adds a line or leaves the report alone |
| `WaitsMatchChildren` | `Spec => []ChildrenAccounted` |
| `CountersSound` | `Spec => []CountsSound` |
| `LostLinesPaid` | `Spec => []LinesLost` |

1. `IInv` is `TypeOK` and what makes a write an addition: a process is at the line of a file of its
   own directory that it has read (`Placed`); a directory's process runs only when its
   entry has been read (`FreshDirs`); a file that has its line is over and not taken up
   again (`Once`); and while any process is between its `lseek` and its `write` the shared offset
   stays at the end (`AtEnd`), because everybody else moves it there too. With an offset
   per process the last one fails, and two lines overwrite each other.
2. `JInv` adds which processes are running and which commands are not forked yet (`Alive`,
   `FreshCommands`), and that the unreaped children are as many as the waits to come
   (`Accounted`). Three lemmas say what a fork, a wait and a wait followed by a fork do to the
   set of unreaped children; whichever child a wait takes, the number falls by one.
3. `KInv` adds the counters. What counts is a counter together with its pending signal
   (`Counted`): `Deliver` moves one to the other, a process that signals adds one at most and at
   the same time is counted among the scanned or its file among the examined (`NoneTooMany`).
   Without `-r` no other process leaves `"none"` and nothing is ever pending, so nothing is lost
   (`Alone`); `Fresh` says that before the options are known nothing has happened yet.
4. `LInv` adds, for each directory, that the files that are over without a line (`Lost`) are no
   more than the failed children that a wait has taken (`Paid`). The first set grows in one place,
   where `get_cmd_output` returns -5, and there the second one does. Files skipped because their
   signal failed are kept apart (`skipped`). `SkipInv` says what that takes: the root is reaped and
   some directory's process ended with an error; for a process that outlives the root is, or
   is below, a child that its parent did not wait for (`OrphanSkips`, which is where the
   assumption that the directories are a tree comes in). Nothing is said of the missing lines of a directory
   whose own process ended with an error. Of a line in the making that lacks a checksum
   (`LineLacks`) a command is known that wrote nothing.

Out of the prover's reach, and left to TLC: the liveness properties and the fair
refinements. Every safety property that a passing run checks is stated by one of the theorems.

## 5. What is not modelled, and what is assumed

* Handling a request ends (in `OfficePool`): an office that never comes back from an
  account mutex is `BankAccounts`' subject, and one that never comes back from a hash
  `ShaCoprocess`'. In `BankAccounts` hashing succeeds and ends.
* The pipes are never full, a request arrives in one piece, and reads do not fail.
* A second accepted shutdown closes a descriptor that is already closed and gets EBADF;
  in the program the number may have been given to another thread's file by then.
* `mkfifo`, `pthread_create`, `fchmod` and the log writes succeed; a server that cannot
  start returns from `main` before any of this begins.
* SIGINT and SIGTERM to the server: the handler closes and unlinks the FIFO and exits, and the
  pool ends with it. The user's side of it is in `UserSession`, whose server may leave at any time.
* The restart of a server that died of a signal: its FIFO's name is still there, `mkfifo`
  fails and `main` returns.
* A child of the server whose exec fails, and the byte layout of messages: see the plan.
* Of the forensic tool: the log of `-v`, the failures of `fork`, `pipe` and `exec`, the
  descriptors that `get_cmd_output` leaves open, and a tool called on a file instead of a directory.
* The two log modules (`log.c` and the text of the forensic tool's lines): formatting of text, on
  which no control depends.

## 6. Plan

In this order, the most important first:

1. *(done)* `RequestLine`, `OfficePool` and its proofs; `Ledger`, `BankAccounts`.
2. *(done)* `RequestQueue`, `RequestFifo`.
3. *(done)* `ShaCoprocess`; to come: its error returns, and a child whose exec fails and
   which goes on as a second server.
4. *(done)* `UserCommand`, `UserSession` and their proofs; to come: local calls that fail, and a
   reply for an earlier process with the same pid.
5. *(done)* `Forensic`, `ForensicReport` and their proofs; to come: the log of `-v`, a file as the
   argument, `fork` and `pipe` that fail when descriptors run out.
6. `ServerFds`: descriptor numbers and their reuse between `shutdown_server`, `sendReply`
   and the hash pipes, with two shutdowns.
7. The TLV framing, as an operator against a reference definition.
8. `BankServer`: `OfficePool` with `BankAccounts` as its handling of a request, so that an
   office stuck on an account shows in the pool; the SIGINT and SIGTERM handler, and a restart.

Proofs, after them: the safety halves of the liveness properties (what blocks a process that
cannot go on), and the refinements' lemmas for the modules to come.
