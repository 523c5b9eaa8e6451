------------------------------ MODULE Forensic ------------------------------
(***************************************************************************)
(* The forensic tool of Project 1 (forensic.c, main.c, options.c): one     *)
(* process per directory scans it, forks a process for each subdirectory   *)
(* and, for each regular file, the command `file' and the checksum         *)
(* commands asked for, whose output becomes the file's line in the report. *)
(* Every directory and every file is signalled to the root process, which  *)
(* counts them.                                                            *)
(*                                                                         *)
(* A step ends at the next point where another process can tell the        *)
(* difference; the descriptors' number and the log of -v are left out, and *)
(* fork, pipe and exec succeed.                                            *)
(***************************************************************************)
EXTENDS Integers, FiniteSets, Sequences

CONSTANTS
    Dirs, Files,    \* the directories and regular files of the tree
    Root,           \* the directory named on the command line
    Parent,         \* the directory each of the others is in
    CommandLines,   \* the arguments the tool may be called with
    Faults          \* what may be wrong with the files: see TypeOK

HashNames == {"md5", "sha1", "sha256"}
\* The processes: one per directory, one per command on a file.
Commands == Files \X (1..4)
Procs == Dirs \cup Commands
Entries == (Dirs \ {Root}) \cup Files

ASSUME TreeAssumption ==
    /\ IsFiniteSet(Dirs) /\ IsFiniteSet(Files)
    /\ Root \in Dirs
    /\ Dirs \cap Files = {} /\ Dirs \cap Commands = {}
    /\ Parent \in [Entries -> Dirs]
    \* A tree: from the root one gets to every directory.
    /\ \A S \in SUBSET Dirs :
          Root \in S /\ (\A d \in Dirs \ {Root} : Parent[d] \in S => d \in S) => S = Dirs
    /\ Faults \subseteq [unreadable : SUBSET Dirs, gone : SUBSET Entries,
                         unhashable : SUBSET Files, exists : SUBSET STRING]

VARIABLES
    opt,          \* the options parsed
    faults,       \* directories that cannot be opened, entries gone before their
                  \* lstat, files that cannot be read, output files that exist
    pc,           \* where each directory's process is
    unread,       \* the entries each process has yet to read
    cmd,          \* the command each process last forked: the file and its number
    full,         \* whether each process's line has all its checksums so far
    childCnt,     \* subdirectory processes each process has yet to wait for
    proc,         \* the state of every process
    failed,       \* processes that ended with a status other than 0
    silent,       \* commands that ended before they wrote anything
    pending,      \* signals sent to the root process and not delivered
    dir_cnt, file_cnt,
    out,          \* the lines of the output file
    offset,       \* the offset of each open file description on it
    skipped,      \* history: files passed over since their signal failed
    interrupted   \* SIGINT was sent to the tool's process group

scanVars == <<pc, unread, cmd, full, childCnt>>
procVars == <<proc, failed, silent>>
sigVars == <<pending, dir_cnt, file_cnt>>
fileVars == <<out, offset, skipped>>
envVars == <<opt, faults, interrupted>>
vars == <<scanVars, procVars, sigVars, fileVars, envVars>>

-----------------------------------------------------------------------------
(* Plausible bugs: mutated forms of definitions below, no part of the      *)
(* specification.                                                          *)

\* The entry .. is not skipped.
EntriesWithDotDot(d) ==
    {e \in Entries : Parent[e] = d} \cup (IF d = Root THEN {} ELSE {Parent[d]})
\* wait looks for a subdirectory's process only.
ZombieDirs(d) == {e \in Dirs \ {Root} : Parent[e] = d /\ proc[e] = "zombie"}
\* A handler that counts a directory for either signal.
HandlerCountsBoth(signo) ==
    /\ dir_cnt' = dir_cnt + 1
    /\ file_cnt' = IF signo = "USR2" THEN file_cnt + 1 ELSE file_cnt
    /\ pending' = pending \ {signo}
\* Every process opens the output file itself.
OfdOwn(d) == d
\* A subdirectory's process is not counted.
SubdirectoryUncounted(d) ==
    /\ pc[d] = "loop" /\ (d = Root => pending = {})
    /\ \E e \in (unread[d] \cap Dirs) \ faults.gone :
        /\ unread' = [unread EXCEPT ![d] = @ \ {e}]
        /\ IF opt.check_subdir
           THEN /\ proc' = [proc EXCEPT ![e] = "running"]
                /\ pc' = [pc EXCEPT ![e] = "enter"]
           ELSE UNCHANGED <<proc, pc>>
    /\ UNCHANGED <<childCnt, cmd, full, failed, silent, sigVars, fileVars, envVars>>

-----------------------------------------------------------------------------
Signals == {"USR1", "USR2"}
Pcs == {"none", "main", "enter", "loop", "cmd", "seek", "write", "done"}
States == {"none", "running", "wrote", "zombie", "reaped"}
EntriesOf(d) == {e \in Entries : Parent[e] = d}
\* The processes that d's process forks, and those of them it has not reaped.
ChildrenOf(d) == (EntriesOf(d) \cap Dirs) \cup {c \in Commands : Parent[c[1]] = d}
Unreaped(d) == {p \in ChildrenOf(d) : proc[p] \in {"running", "wrote", "zombie"}}
Zombies(d) == {p \in ChildrenOf(d) : proc[p] = "zombie"}
CommandCount == 1 + Cardinality(opt.hashes)

-----------------------------------------------------------------------------
(* Command line. An argument is a record: its flag, for -h the names it    *)
(* lists, for -o and -v the file's name and whether check_argument takes   *)
(* it (-v has its name from the environment).                              *)

\* parse_options: the arguments that make it fail or exit. The file of -o is
\* created (O_EXCL), so it may neither exist nor have been opened before.
BadArgument(args, i) ==
    \/ args[i].flag \notin {"r", "h", "o", "v"}
    \/ args[i].flag = "h" /\ ~(args[i].names \subseteq HashNames)
    \/ args[i].flag \in {"o", "v"} /\ ~args[i].valid
    \/ /\ args[i].flag = "o"
       /\ \/ args[i].name \in faults.exists
          \/ \E j \in 1..(i - 1) :
                args[j].flag \in {"o", "v"} /\ args[j].name = args[i].name

\* Of two -o the second's file is the report; the first one's stays empty.
ParseOptions(args) ==
    [check_subdir |-> \E i \in DOMAIN args : args[i].flag = "r",
     output |-> \E i \in DOMAIN args : args[i].flag = "o",
     hashes |-> UNION {args[i].names : i \in {j \in DOMAIN args : args[j].flag = "h"}}]

NoOptions == [check_subdir |-> FALSE, output |-> FALSE, hashes |-> {}]

-----------------------------------------------------------------------------
(* Signals to the root process.                                            *)

\* A kill to a process that is gone fails; to one not yet reaped it does nothing.
KillFails == opt.output /\ proc[Root] = "reaped"

usr_signal_handler(signo) ==
    /\ dir_cnt' = IF signo = "USR1" THEN dir_cnt + 1 ELSE dir_cnt
    /\ file_cnt' = IF signo = "USR2" THEN file_cnt + 1 ELSE file_cnt
    /\ pending' = pending \ {signo}

\* kill(process_root_pid, signo): the root takes its own signal before kill
\* returns; another process's is added to the pending set, once.
Signal(d, signo) ==
    IF ~opt.output \/ proc[Root] # "running" THEN UNCHANGED sigVars
    ELSE IF d = Root THEN usr_signal_handler(signo)
    ELSE /\ pending' = pending \cup {signo}
         /\ UNCHANGED <<dir_cnt, file_cnt>>

\* kill_program is set by int_signal_handler alone, and setup_signals never
\* installs that handler: SIGINT runs usr_signal_handler, which ignores it.
program_is_term == FALSE

-----------------------------------------------------------------------------
(* The processes.                                                          *)

Goto(d, where) == pc' = [pc EXCEPT ![d] = where]
\* A signal that is pending is handled before the root's next step.
Awake(d) == d = Root => pending = {}

\* The output file is opened in parse_options, before any fork: all processes
\* share one open file description and its offset.
Ofd(d) == Root
WriteAt(s, o, line) ==
    [i \in 1..(IF o = Len(s) THEN o + 1 ELSE Len(s)) |-> IF i = o + 1 THEN line ELSE s[i]]

\* The process ends, with status 0 or not, and waits for nobody.
Leave(d, ok) ==
    /\ Goto(d, "done")
    /\ proc' = [proc EXCEPT ![d] = "zombie"]
    /\ failed' = IF ok THEN failed ELSE failed \cup {d}
    /\ UNCHANGED silent

\* build_file_line's end, whatever it returns, and the test for SIGINT.
NextEntry(d) ==
    /\ Goto(d, "loop")
    /\ unread' = IF program_is_term THEN [unread EXCEPT ![d] = {}] ELSE unread

Main ==
    /\ pc[Root] = "main"
    /\ \E args \in CommandLines :
        IF \E i \in DOMAIN args : BadArgument(args, i)
        THEN /\ Leave(Root, FALSE)
             /\ UNCHANGED opt
        ELSE /\ opt' = ParseOptions(args)
             /\ Goto(Root, "enter")
             /\ UNCHANGED procVars
    /\ UNCHANGED <<unread, cmd, full, childCnt, sigVars, fileVars, faults, interrupted>>

\* scan_directory up to its loop.
Enter(d) ==
    /\ pc[d] = "enter"
    /\ IF KillFails
       THEN Leave(d, FALSE) /\ UNCHANGED <<sigVars, unread>>
       ELSE /\ Signal(d, "USR1")
            /\ IF d \in faults.unreadable
               THEN Leave(d, FALSE) /\ UNCHANGED unread
               ELSE /\ Goto(d, "loop")
                    /\ unread' = [unread EXCEPT ![d] = EntriesOf(d)]
                    /\ UNCHANGED procVars
    /\ UNCHANGED <<cmd, full, childCnt, fileVars, envVars>>

\* readdir gives an entry that lstat no longer finds: scan_directory returns.
EntryGone(d) ==
    /\ pc[d] = "loop" /\ Awake(d)
    /\ unread[d] \cap faults.gone # {}
    /\ Leave(d, FALSE)
    /\ UNCHANGED <<unread, cmd, full, childCnt, sigVars, fileVars, envVars>>

Subdirectory(d) ==
    /\ pc[d] = "loop" /\ Awake(d)
    /\ \E e \in (unread[d] \cap Dirs) \ faults.gone :
        /\ unread' = [unread EXCEPT ![d] = @ \ {e}]
        /\ IF opt.check_subdir
           THEN /\ childCnt' = [childCnt EXCEPT ![d] = @ + 1]
                /\ proc' = [proc EXCEPT ![e] = "running"]
                /\ Goto(e, "enter")
           ELSE UNCHANGED <<childCnt, proc, pc>>
    /\ UNCHANGED <<cmd, full, failed, silent, sigVars, fileVars, envVars>>

\* pipe and fork of get_cmd_output: the i-th command on f runs.
Run(d, f, i) ==
    /\ cmd' = [cmd EXCEPT ![d] = <<f, i>>]
    /\ Goto(d, "cmd")

\* build_file_line up to the fork of its first command. If its signal fails it
\* returns at once, and scan_directory goes on with the next entry.
RegularFile(d) ==
    /\ pc[d] = "loop" /\ Awake(d)
    /\ \E f \in (unread[d] \cap Files) \ faults.gone :
        /\ unread' = [unread EXCEPT ![d] = @ \ {f}]
        /\ IF KillFails
           THEN /\ skipped' = skipped \cup {f}
                /\ UNCHANGED <<pc, cmd, full, proc, sigVars>>
           ELSE /\ Signal(d, "USR2")
                /\ full' = [full EXCEPT ![d] = TRUE]
                /\ Run(d, f, 1)
                /\ proc' = [proc EXCEPT ![<<f, 1>>] = "running"]
                /\ UNCHANGED skipped
    /\ UNCHANGED <<childCnt, failed, silent, out, offset, envVars>>

\* get_cmd_output from its read to its end: the pipe has data or is closed,
\* and wait takes any child that has ended, the command or a subdirectory's
\* process. Of a command that wrote nothing the line lacks the checksum; if it
\* was `file' the process reads an uninitialised buffer, or stops.
CollectCommand(d) ==
    /\ pc[d] = "cmd" /\ Awake(d)
    /\ proc[cmd[d]] # "running"
    /\ \E p \in Zombies(d) :
        LET f == cmd[d][1]
            i == cmd[d][2]
            reaped == [proc EXCEPT ![p] = "reaped"]
        IN
        \/ /\ p \in failed
           /\ NextEntry(d)
           /\ proc' = reaped
           /\ UNCHANGED <<cmd, full, failed, silent>>
        \/ /\ p \notin failed
           /\ full' = [full EXCEPT ![d] = @ /\ cmd[d] \notin silent]
           /\ IF i < CommandCount
              THEN /\ Run(d, f, i + 1)
                   /\ proc' = [reaped EXCEPT ![<<f, i + 1>>] = "running"]
              ELSE /\ Goto(d, "seek")
                   /\ proc' = reaped
                   /\ UNCHANGED cmd
           /\ UNCHANGED <<unread, failed, silent>>
        \/ /\ p \notin failed /\ cmd[d] \in silent /\ i = 1
           /\ Goto(d, "done")
           /\ proc' = [reaped EXCEPT ![d] = "zombie"]
           /\ failed' = failed \cup {d}
           /\ UNCHANGED <<unread, cmd, full, silent>>
    /\ UNCHANGED <<childCnt, sigVars, fileVars, envVars>>

Seek(d) ==
    /\ pc[d] = "seek" /\ Awake(d)
    /\ offset' = [offset EXCEPT ![Ofd(d)] = Len(out)]
    /\ Goto(d, "write")
    /\ UNCHANGED <<unread, cmd, full, childCnt, procVars, sigVars, out, skipped, envVars>>

Write(d) ==
    /\ pc[d] = "write" /\ Awake(d)
    /\ out' = WriteAt(out, offset[Ofd(d)], [file |-> cmd[d][1], full |-> full[d]])
    /\ offset' = [offset EXCEPT ![Ofd(d)] = @ + 1]
    /\ NextEntry(d)
    /\ UNCHANGED <<cmd, full, childCnt, procVars, sigVars, skipped, envVars>>

\* One turn of the loop that waits for the subdirectories' processes.
WaitChild(d) ==
    /\ pc[d] = "loop" /\ Awake(d)
    /\ unread[d] = {} /\ childCnt[d] > 0
    /\ \E p \in Zombies(d) : proc' = [proc EXCEPT ![p] = "reaped"]
    /\ childCnt' = [childCnt EXCEPT ![d] = @ - 1]
    /\ UNCHANGED <<pc, unread, cmd, full, failed, silent, sigVars, fileVars, envVars>>

ScanEnds(d) ==
    /\ pc[d] = "loop" /\ Awake(d)
    /\ unread[d] = {} /\ childCnt[d] = 0
    /\ Leave(d, TRUE)
    /\ UNCHANGED <<unread, cmd, full, childCnt, sigVars, fileVars, envVars>>

-----------------------------------------------------------------------------
(* Commands, signals, the shell.                                           *)

\* A checksum of a file that cannot be read.
Fails(c) == c[2] > 1 /\ c[1] \in faults.unhashable

CommandWrites(c) ==
    /\ proc[c] = "running" /\ ~Fails(c)
    /\ proc' = [proc EXCEPT ![c] = "wrote"]
    /\ UNCHANGED <<scanVars, failed, silent, sigVars, fileVars, envVars>>

CommandExits(c) ==
    /\ \/ /\ proc[c] = "wrote"
          /\ UNCHANGED <<failed, silent>>
       \/ /\ proc[c] = "running" /\ Fails(c)
          /\ failed' = failed \cup {c}
          /\ silent' = silent \cup {c}
    /\ proc' = [proc EXCEPT ![c] = "zombie"]
    /\ UNCHANGED <<scanVars, sigVars, fileVars, envVars>>

Deliver ==
    /\ proc[Root] = "running"
    /\ \E signo \in pending : usr_signal_handler(signo)
    /\ UNCHANGED <<scanVars, procVars, fileVars, envVars>>

\* Ctrl-C: SIGINT to every process of the tool. Those that scan have a handler,
\* and so has a command before its exec; the others end.
Interrupt ==
    /\ ~interrupted
    /\ proc[Root] = "running" /\ pc[Root] # "main"
    /\ interrupted' = TRUE
    /\ \E early \in SUBSET {c \in Commands : proc[c] = "running"} :
        LET killed == early \cup {c \in Commands : proc[c] = "wrote"}
        IN /\ proc' = [p \in Procs |-> IF p \in killed THEN "zombie" ELSE proc[p]]
           /\ failed' = failed \cup killed
           /\ silent' = silent \cup early
    /\ UNCHANGED <<scanVars, sigVars, fileVars, opt, faults>>

\* The shell waits for the root process.
ShellReaps ==
    /\ proc[Root] = "zombie"
    /\ proc' = [proc EXCEPT ![Root] = "reaped"]
    /\ UNCHANGED <<scanVars, failed, silent, sigVars, fileVars, envVars>>

-----------------------------------------------------------------------------
Init ==
    /\ opt = NoOptions
    /\ faults \in Faults
    /\ pc = [d \in Dirs |-> IF d = Root THEN "main" ELSE "none"]
    /\ unread = [d \in Dirs |-> {}]
    /\ cmd = [d \in Dirs |-> <<>>]
    /\ full = [d \in Dirs |-> FALSE]
    /\ childCnt = [d \in Dirs |-> 0]
    /\ proc = [p \in Procs |-> IF p = Root THEN "running" ELSE "none"]
    /\ failed = {} /\ silent = {}
    /\ pending = {} /\ dir_cnt = 0 /\ file_cnt = 0
    /\ out = <<>>
    /\ offset = [d \in Dirs |-> 0]
    /\ skipped = {}
    /\ interrupted = FALSE

Scan(d) ==
    \/ Enter(d) \/ EntryGone(d) \/ Subdirectory(d) \/ RegularFile(d)
    \/ CollectCommand(d) \/ Seek(d) \/ Write(d) \/ WaitChild(d) \/ ScanEnds(d)
CommandStep(c) == CommandWrites(c) \/ CommandExits(c)

Next ==
    \/ Main
    \/ \E d \in Dirs : Scan(d)
    \/ \E c \in Commands : CommandStep(c)
    \/ Deliver
    \/ Interrupt
    \/ ShellReaps

Spec == Init /\ [][Next]_vars

\* Every process gets to run and every signal is delivered; nobody has to press
\* Ctrl-C, and the shell may be slow.
FairSpec ==
    /\ Spec
    /\ WF_vars(Main)
    /\ \A d \in Dirs : WF_vars(Scan(d))
    /\ \A c \in Commands : WF_vars(CommandStep(c))
    /\ WF_vars(Deliver)

-----------------------------------------------------------------------------
TypeOK ==
    /\ opt \in [check_subdir : BOOLEAN, output : BOOLEAN, hashes : SUBSET HashNames]
    /\ faults \in Faults
    /\ pc \in [Dirs -> Pcs]
    /\ unread \in [Dirs -> SUBSET Entries]
    /\ cmd \in [Dirs -> Commands \cup {<<>>}]
    /\ full \in [Dirs -> BOOLEAN]
    /\ childCnt \in [Dirs -> Nat]
    /\ proc \in [Procs -> States]
    /\ failed \subseteq Procs /\ silent \subseteq Commands
    /\ pending \subseteq Signals /\ dir_cnt \in Nat /\ file_cnt \in Nat
    /\ out \in Seq([file : Files, full : BOOLEAN])
    /\ offset \in [Dirs -> Nat]
    /\ skipped \subseteq Files
    /\ interrupted \in BOOLEAN

\* A process that is scanning has exactly as many children unreaped as it has
\* waits to come: one for the command it reads from and one per subdirectory
\* (forensic.c:61, 333-337), whichever children the waits take. So no wait
\* finds nothing to wait for and a scan that ends well leaves nobody behind.
ChildrenAccounted ==
    \A d \in Dirs :
        /\ pc[d] \in {"loop", "seek", "write"} => Cardinality(Unreaped(d)) = childCnt[d]
        /\ pc[d] = "cmd" => Cardinality(Unreaped(d)) = childCnt[d] + 1
        /\ pc[d] = "done" /\ d \notin failed => Unreaped(d) = {}

\* What is missing from the report, once a directory's process has ended with
\* status 0. Either a file was skipped, since the root process that it is
\* signalled to had gone (forensic.c:125): that takes a process that outlives
\* the root, and so a directory's process that ended with an error and left its
\* children behind (forensic.c:276, 288, 297). Or the missing line is paid for by
\* a child of the directory that failed, the file's own command or, since wait
\* takes any child (forensic.c:61), another's or a subdirectory's process: no
\* more lines are missing than children failed. A line that lacks a checksum is
\* of a file one of whose commands wrote nothing.
LinesLost ==
    /\ skipped # {} => proc[Root] = "reaped" /\ failed \cap Dirs # {}
    /\ \A d \in Dirs : pc[d] = "done" /\ d \notin failed =>
        Cardinality({f \in Files \ skipped :
                        Parent[f] = d /\ \A i \in DOMAIN out : out[i].file # f})
            <= Cardinality(ChildrenOf(d) \cap failed)
    /\ \A i \in DOMAIN out : ~out[i].full => \E c \in silent : c[1] = out[i].file

\* The root's counters never exceed the directories and files met; they may fall
\* short, since signals of one kind coalesce (forensic.c:350), but not when the
\* root process is the only one that signals.
CountsSound ==
    LET met(signo, cnt, n) ==
            LET counted == cnt + Cardinality(pending \cap {signo})
            IN counted <= n /\ (~opt.check_subdir => counted = n)
    IN opt.output =>
        /\ met("USR1", dir_cnt, Cardinality({d \in Dirs : pc[d] \notin {"none", "main", "enter"}}))
        /\ met("USR2", file_cnt, Cardinality({f \in Files : proc[<<f, 1>>] # "none"}))

\* The output file is a report: lines are only added, one per file at most,
\* though every process seeks and writes in two steps (forensic.c:213-215).
Report == INSTANCE ForensicReport WITH report <- out
ImplementsReport == Report!Spec

\* The scan ends: no process waits for one that waits for it, or for a child it
\* does not have (forensic.c:52, 61, 336).
ScanTerminates == <>(pc[Root] = "done")
=============================================================================
