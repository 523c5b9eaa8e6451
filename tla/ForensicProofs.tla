--------------------------- MODULE ForensicProofs ---------------------------
(***************************************************************************)
(* Proofs about Forensic, for every tree, every command line and every set *)
(* of faults: the types, that the output file is a report, that every      *)
(* process waits exactly as often as it has children, that the root does   *)
(* not count too much, and that every missing line is accounted for.       *)
(***************************************************************************)
EXTENDS Forensic, FiniteSetTheorems, SequenceTheorems, TLAPS

-----------------------------------------------------------------------------
(* The inductive invariant behind TypeOK and ImplementsReport.             *)

\* A process that has not begun to read its directory.
Early == {"none", "main", "enter"}
\* A process in the middle of a file's line.
InLine == {"cmd", "seek", "write"}

\* What a process reads is in its directory, and it reads an entry once.
Placed ==
    \A d \in Dirs :
        /\ unread[d] \subseteq EntriesOf(d)
        /\ pc[d] \in InLine =>
              cmd[d] \in Commands /\ Parent[cmd[d][1]] = d /\ cmd[d][1] \notin unread[d]

\* The entry has been read, and the line of the file is over.
Arrived(e) == pc[Parent[e]] \notin Early /\ e \notin unread[Parent[e]]
Over(f) == Arrived(f) /\ (pc[Parent[f]] \in InLine => cmd[Parent[f]][1] # f)

\* A subdirectory's process runs only when its entry has been read.
FreshDirs == \A e \in Dirs \ {Root} : pc[e] # "none" => Arrived(e)

\* A file that has its line is over.
Once == \A i \in 1..Len(out) : Over(out[i].file)

\* Between a process's lseek and its write the shared offset stays at the end.
AtEnd == \A d \in Dirs : pc[d] = "write" => offset[Root] = Len(out)

IInv == TypeOK /\ Placed /\ FreshDirs /\ Once /\ AtEnd

-----------------------------------------------------------------------------
\* The sorts of things a tree is made of.
LEMMA Sorts ==
    /\ Dirs \subseteq Procs /\ Commands \subseteq Procs
    /\ Files \subseteq Entries /\ Dirs \ {Root} \subseteq Entries
    /\ Root \in Dirs /\ Root \notin Entries
    /\ \A e \in Entries : Parent[e] \in Dirs
    /\ \A c \in Commands : c[1] \in Files /\ c[2] \in 1..4 /\ c \notin Dirs /\ c = <<c[1], c[2]>>
    /\ \A f \in Files, i \in 1..4 : <<f, i>> \in Commands
BY TreeAssumption DEF Procs, Entries, Commands

\* At most three checksums are asked for (options.c:10-17), so that a file has
\* at most four commands.
LEMMA FewHashes == \A S \in SUBSET HashNames : Cardinality(S) \in 0..3
<1>1. IsFiniteSet({"md5"}) /\ Cardinality({"md5"}) = 1
  BY FS_Singleton
<1>2. /\ IsFiniteSet({"md5"} \cup {"sha1"})
      /\ Cardinality({"md5"} \cup {"sha1"}) = 2
  BY <1>1, FS_AddElement
<1>3. /\ IsFiniteSet({"md5"} \cup {"sha1"} \cup {"sha256"})
      /\ Cardinality({"md5"} \cup {"sha1"} \cup {"sha256"}) = 3
  BY <1>2, FS_AddElement
<1>4. HashNames = {"md5"} \cup {"sha1"} \cup {"sha256"}
  BY DEF HashNames
<1>5. ASSUME NEW S \in SUBSET HashNames PROVE Cardinality(S) \in 0..3
  <2>1. IsFiniteSet(S) /\ Cardinality(S) <= 3
    BY <1>3, <1>4, FS_Subset
  <2>2. Cardinality(S) \in Nat
    BY <2>1, FS_CardinalityType
  <2>3. QED BY <2>1, <2>2
<1>6. QED BY <1>5

\* A write at the end of the file appends a line.
LEMMA WriteAtEnd ==
    ASSUME NEW S, NEW s \in Seq(S), NEW line \in S
    PROVE  WriteAt(s, Len(s), line) = Append(s, line)
<1> DEFINE w == WriteAt(s, Len(s), line)
<1>1. Len(s) \in Nat /\ s \in [1..Len(s) -> S]
  BY LenProperties
<1>2. w = [i \in 1..(Len(s) + 1) |-> IF i = Len(s) + 1 THEN line ELSE s[i]]
  BY <1>1 DEF WriteAt
<1>3. w \in [1..(Len(s) + 1) -> S]
  BY <1>1, <1>2
<1>4. w \in Seq(S) /\ Len(w) = Len(s) + 1
  BY <1>1, <1>3
<1>5. Append(s, line) \in Seq(S) /\ Len(Append(s, line)) = Len(s) + 1
  OBVIOUS
<1>6. \A i \in 1..Len(w) : w[i] = Append(s, line)[i]
  BY <1>1, <1>2, <1>4
<1>7. QED BY <1>4, <1>5, <1>6, SeqEqual

\* A step of d's process within its loop, whichever: it may go on to another
\* place, read entries, and take up a command of a file that is not over.
LEMMA Moves ==
    ASSUME IInv, NEW d \in Dirs, pc[d] \notin Early,
           NEW where \in Pcs \ Early, pc' = [pc EXCEPT ![d] = where],
           unread' \in [Dirs -> SUBSET Entries], unread'[d] \subseteq unread[d],
           \A b \in Dirs \ {d} : unread'[b] = unread[b] /\ cmd'[b] = cmd[b],
           where \in InLine =>
               /\ cmd'[d] \in Commands /\ Parent[cmd'[d][1]] = d
               /\ cmd'[d][1] \notin unread'[d]
               /\ ~Over(cmd'[d][1])
    PROVE  Placed' /\ FreshDirs' /\ (\A f \in Files : Over(f) => Over(f)')
<1> USE Sorts DEF IInv
<1>1. \A b \in Dirs : pc'[b] = IF b = d THEN where ELSE pc[b]
  BY DEF TypeOK
<1>2. Placed'
  BY <1>1 DEF Placed, EntriesOf
<1>3. \A e \in Entries : Arrived(e) => Arrived(e)'
  BY <1>1 DEF Arrived
<1>4. FreshDirs'
  BY <1>1, <1>3 DEF FreshDirs, Early
<1>5. ASSUME NEW f \in Files, Over(f) PROVE Over(f)'
  <2>1. Arrived(f)'
    BY <1>3, <1>5 DEF Over
  <2>2. CASE Parent[f] = d
    BY <1>1, <1>5, <2>1, <2>2 DEF Over
  <2>3. CASE Parent[f] # d
    BY <1>1, <1>5, <2>1, <2>3 DEF Over
  <2>4. QED BY <2>2, <2>3
<1>6. QED BY <1>2, <1>4, <1>5

\* What is over stays over: the lines of the output file stay right.
LEMMA LinesStay ==
    ASSUME TypeOK, Once, out' = out, \A f \in Files : Over(f) => Over(f)'
    PROVE  Once'
<1>1. ASSUME NEW i \in 1..Len(out) PROVE out[i].file \in Files
  <2>1. out[i] \in [file : Files, full : BOOLEAN]
    BY ElementOfSeq DEF TypeOK
  <2>2. QED BY <2>1
<1>2. QED BY <1>1 DEF Once, Over, Arrived

\* The types of what a process's end and a signal change.
LEMMA LeaveTypes ==
    ASSUME TypeOK, NEW d \in Dirs, NEW ok \in BOOLEAN, Leave(d, ok)
    PROVE  /\ proc' \in [Procs -> States]
           /\ failed' \subseteq Procs /\ silent' \subseteq Commands
<1>1. "zombie" \in States
  BY DEF States
<1>2. QED BY <1>1, Sorts DEF Leave, TypeOK

LEMMA SignalTypes ==
    ASSUME TypeOK, NEW d \in Dirs, NEW signo \in Signals, Signal(d, signo)
    PROVE  pending' \subseteq Signals /\ dir_cnt' \in Nat /\ file_cnt' \in Nat
<1>1. CASE UNCHANGED sigVars
  BY <1>1 DEF TypeOK, sigVars
<1>2. CASE usr_signal_handler(signo)
  BY <1>2 DEF TypeOK, usr_signal_handler
<1>3. CASE pending' = pending \cup {signo} /\ UNCHANGED <<dir_cnt, file_cnt>>
  BY <1>3 DEF TypeOK
<1>4. QED BY <1>1, <1>2, <1>3 DEF Signal

\* The steps of commands, signals and the shell leave the scan alone.
LEMMA Quiet ==
    ASSUME IInv, UNCHANGED <<pc, unread, cmd, out, offset>>
    PROVE  Placed' /\ FreshDirs' /\ Once' /\ AtEnd'
BY DEF IInv, Placed, FreshDirs, Once, AtEnd, Arrived, Over

-----------------------------------------------------------------------------
LEMMA Initial == Init => IInv
<1> SUFFICES ASSUME Init PROVE IInv
  OBVIOUS
<1> USE Sorts DEF Init
<1>1. TypeOK
  <2>1. /\ opt \in [check_subdir : BOOLEAN, output : BOOLEAN, hashes : SUBSET HashNames]
        /\ out \in Seq([file : Files, full : BOOLEAN])
    BY DEF NoOptions
  <2>2. pc \in [Dirs -> Pcs] /\ proc \in [Procs -> States]
    BY DEF Pcs, States
  <2>3. cmd \in [Dirs -> Commands \cup {<<>>}]
    OBVIOUS
  <2>4. QED BY <2>1, <2>2, <2>3 DEF TypeOK
<1>2. Placed /\ FreshDirs /\ Once /\ AtEnd
  BY DEF Placed, FreshDirs, Once, AtEnd, InLine
<1>3. QED BY <1>1, <1>2 DEF IInv

LEMMA MainKeeps == IInv /\ Main => IInv'
<1> SUFFICES ASSUME IInv, Main PROVE IInv'
  OBVIOUS
<1> USE Sorts DEF IInv
<1>1. PICK args \in CommandLines :
        IF \E i \in DOMAIN args : BadArgument(args, i)
        THEN Leave(Root, FALSE) /\ UNCHANGED opt
        ELSE opt' = ParseOptions(args) /\ Goto(Root, "enter") /\ UNCHANGED procVars
  BY DEF Main
<1>2. /\ UNCHANGED <<unread, cmd, full, childCnt, sigVars, fileVars, faults, interrupted>>
      /\ pc[Root] = "main"
  BY DEF Main
<1>3. PICK where \in {"enter", "done"} : pc' = [pc EXCEPT ![Root] = where]
  BY <1>1 DEF Leave, Goto
<1>4. opt' \in [check_subdir : BOOLEAN, output : BOOLEAN, hashes : SUBSET HashNames]
  <2>1. CASE \E i \in DOMAIN args : BadArgument(args, i)
    BY <1>1, <2>1 DEF TypeOK
  <2>2. CASE ~\E i \in DOMAIN args : BadArgument(args, i)
    <3>1. \A i \in DOMAIN args : args[i].flag = "h" => args[i].names \subseteq HashNames
      BY <2>2 DEF BadArgument
    <3>2. UNION {args[i].names : i \in {j \in DOMAIN args : args[j].flag = "h"}}
            \subseteq HashNames
      BY <3>1
    <3>3. ParseOptions(args)
            \in [check_subdir : BOOLEAN, output : BOOLEAN, hashes : SUBSET HashNames]
      BY <3>2 DEF ParseOptions
    <3>4. opt' = ParseOptions(args)
      BY <1>1, <2>2
    <3>5. QED BY <3>3, <3>4
  <2>3. QED BY <2>1, <2>2
<1>5. /\ proc' \in [Procs -> States]
      /\ failed' \subseteq Procs /\ silent' \subseteq Commands
  <2>1. CASE Leave(Root, FALSE)
    BY <2>1, LeaveTypes
  <2>2. CASE UNCHANGED procVars
    BY <2>2 DEF TypeOK, procVars
  <2>3. QED BY <1>1, <2>1, <2>2
<1>6. TypeOK'
  BY <1>2, <1>3, <1>4, <1>5 DEF TypeOK, Pcs, sigVars, fileVars
<1>7. \A b \in Dirs : pc'[b] = IF b = Root THEN where ELSE pc[b]
  BY <1>3 DEF TypeOK
<1>8. Placed' /\ AtEnd'
  BY <1>2, <1>7 DEF Placed, AtEnd, InLine, fileVars
<1>9. \A e \in Entries : Arrived(e) => Arrived(e)'
  BY <1>2, <1>7 DEF Arrived, Early
<1>10. FreshDirs'
  BY <1>7, <1>9 DEF FreshDirs
<1>11. \A f \in Files : Over(f) => Over(f)'
  BY <1>2, <1>7, <1>9 DEF Over, Arrived, Early
<1>12. Once'
  BY <1>2, <1>11, LinesStay DEF fileVars
<1>13. QED BY <1>6, <1>8, <1>10, <1>12

LEMMA EnterKeeps == ASSUME IInv, NEW d \in Dirs, Enter(d) PROVE IInv'
<1> USE Sorts DEF IInv
<1>1. /\ pc[d] = "enter"
      /\ UNCHANGED <<cmd, full, childCnt, fileVars, envVars>>
  BY DEF Enter
<1>2. /\ pending' \subseteq Signals /\ dir_cnt' \in Nat /\ file_cnt' \in Nat
  <2>1. UNCHANGED sigVars \/ Signal(d, "USR1")
    BY DEF Enter
  <2>2. QED BY <2>1, SignalTypes DEF TypeOK, sigVars, Signals
<1>3. /\ proc' \in [Procs -> States]
      /\ failed' \subseteq Procs /\ silent' \subseteq Commands
  <2>1. CASE Leave(d, FALSE)
    BY <2>1, LeaveTypes
  <2>2. CASE UNCHANGED procVars
    BY <2>2 DEF TypeOK, procVars
  <2>3. QED BY <2>1, <2>2 DEF Enter
<1>4. PICK where \in {"loop", "done"} : pc' = [pc EXCEPT ![d] = where]
  BY DEF Enter, Leave, Goto
<1>5. PICK read \in {unread[d], EntriesOf(d)} : unread' = [unread EXCEPT ![d] = read]
  BY SMTT(30), ZenonT(30) DEF Enter, TypeOK
<1>6. /\ \A b \in Dirs : pc'[b] = IF b = d THEN where ELSE pc[b]
      /\ \A b \in Dirs : unread'[b] = IF b = d THEN read ELSE unread[b]
      /\ read \subseteq EntriesOf(d)
  BY <1>4, <1>5 DEF TypeOK, Placed
<1>7. TypeOK'
  BY <1>1, <1>2, <1>3, <1>4, <1>5, <1>6 DEF TypeOK, Pcs, fileVars, envVars, EntriesOf
<1>8. Placed' /\ AtEnd'
  BY <1>1, <1>6 DEF Placed, AtEnd, InLine, fileVars, EntriesOf
<1>9. \A e \in Entries : Arrived(e) => Arrived(e)'
  BY <1>1, <1>6 DEF Arrived, Early
<1>10. FreshDirs'
  BY <1>1, <1>6, <1>9 DEF FreshDirs, Early
<1>11. \A f \in Files : Over(f) => Over(f)'
  BY <1>1, <1>6, <1>9 DEF Over, Arrived, Early
<1>12. Once'
  BY <1>1, <1>11, LinesStay DEF fileVars
<1>13. QED BY <1>7, <1>8, <1>10, <1>12

\* EntryGone and ScanEnds: the process ends.
LEMMA LeavingKeeps ==
    ASSUME IInv, NEW d \in Dirs, pc[d] = "loop", NEW ok \in BOOLEAN, Leave(d, ok),
           UNCHANGED <<unread, cmd, full, childCnt, sigVars, fileVars, envVars>>
    PROVE  IInv'
<1> USE Sorts DEF IInv
<1>1. pc' = [pc EXCEPT ![d] = "done"] /\ "done" \in Pcs \ Early /\ pc[d] \notin Early
  BY DEF Leave, Goto, Pcs, Early
<1>2. /\ proc' \in [Procs -> States]
      /\ failed' \subseteq Procs /\ silent' \subseteq Commands
  BY LeaveTypes
<1>3. TypeOK'
  BY <1>1, <1>2 DEF TypeOK, sigVars, fileVars, envVars
<1>4. Placed' /\ FreshDirs' /\ (\A f \in Files : Over(f) => Over(f)')
  <2>1. unread \in [Dirs -> SUBSET Entries]
    BY DEF TypeOK
  <2>2. QED BY <1>1, <2>1, Moves DEF InLine
<1>5. Once' /\ AtEnd'
  BY <1>1, <1>4, LinesStay DEF AtEnd, TypeOK, fileVars
<1>6. QED BY <1>3, <1>4, <1>5

LEMMA SubdirectoryKeeps == ASSUME IInv, NEW d \in Dirs, Subdirectory(d) PROVE IInv'
<1> USE Sorts DEF IInv
<1>1. PICK e \in (unread[d] \cap Dirs) \ faults.gone :
        /\ unread' = [unread EXCEPT ![d] = @ \ {e}]
        /\ IF opt.check_subdir
           THEN /\ childCnt' = [childCnt EXCEPT ![d] = @ + 1]
                /\ proc' = [proc EXCEPT ![e] = "running"]
                /\ Goto(e, "enter")
           ELSE UNCHANGED <<childCnt, proc, pc>>
  BY DEF Subdirectory
<1>2. /\ pc[d] = "loop"
      /\ UNCHANGED <<cmd, full, failed, silent, sigVars, fileVars, envVars>>
  BY DEF Subdirectory
<1>3. e \in Dirs \ {Root} /\ e \in Entries /\ Parent[e] = d
  BY DEF Placed, EntriesOf
<1>4. pc[e] = "none" /\ e # d
  BY <1>2, <1>3 DEF FreshDirs, Arrived
<1>5. pc' = pc \/ pc' = [pc EXCEPT ![e] = "enter"]
  BY <1>1 DEF Goto
<1>6. /\ proc' \in [Procs -> States] /\ childCnt' \in [Dirs -> Nat]
      /\ unread' \in [Dirs -> SUBSET Entries]
  <2>1. proc' \in [Procs -> States]
    BY <1>1 DEF TypeOK, States
  <2>2. childCnt' \in [Dirs -> Nat]
    <3>1. childCnt \in [Dirs -> Nat]
      BY DEF TypeOK
    <3>2. childCnt' = childCnt \/ childCnt' = [childCnt EXCEPT ![d] = @ + 1]
      BY <1>1
    <3>3. QED BY <3>1, <3>2
  <2>3. unread' \in [Dirs -> SUBSET Entries]
    BY <1>1 DEF TypeOK
  <2>4. QED BY <2>1, <2>2, <2>3
<1>7. TypeOK'
  <2>1. pc' \in [Dirs -> Pcs]
    BY <1>5 DEF TypeOK, Pcs
  <2>2. QED BY <1>2, <1>6, <2>1 DEF TypeOK, sigVars, fileVars, envVars
<1>8. /\ \A b \in Dirs : pc'[b] = pc[b] \/ (b = e /\ pc'[b] = "enter")
      /\ \A b \in Dirs : unread'[b] = IF b = d THEN unread[b] \ {e} ELSE unread[b]
  BY <1>1, <1>5 DEF TypeOK
<1>9. Placed' /\ AtEnd'
  <2>1. \A b \in Dirs : pc'[b] \in InLine => pc[b] \in InLine /\ pc'[b] = pc[b]
    BY <1>8 DEF InLine
  <2>2. Placed'
    <3>1. cmd' = cmd /\ \A b \in Dirs : unread'[b] \subseteq unread[b]
      BY <1>2, <1>8
    <3>2. QED BY <2>1, <3>1 DEF Placed, EntriesOf
  <2>3. AtEnd'
    BY <1>2, <1>8 DEF AtEnd, fileVars
  <2>4. QED BY <2>2, <2>3
<1>10. \A a \in Entries : Arrived(a) => Arrived(a)'
  BY <1>4, <1>8 DEF Arrived, Early
<1>11. Arrived(e)'
  BY <1>2, <1>3, <1>4, <1>8 DEF Arrived, Early
<1>12. FreshDirs'
  BY <1>8, <1>10, <1>11 DEF FreshDirs
<1>13. \A f \in Files : Over(f) => Over(f)'
  BY <1>2, <1>4, <1>8, <1>10 DEF Over, Arrived, Early, InLine
<1>14. Once'
  BY <1>2, <1>13, LinesStay DEF fileVars
<1>15. QED BY <1>7, <1>9, <1>12, <1>14

LEMMA RegularFileKeeps == ASSUME IInv, NEW d \in Dirs, RegularFile(d) PROVE IInv'
<1> USE Sorts DEF IInv
<1>1. PICK f \in (unread[d] \cap Files) \ faults.gone :
        /\ unread' = [unread EXCEPT ![d] = @ \ {f}]
        /\ IF KillFails
           THEN UNCHANGED <<pc, cmd, full, proc, sigVars>>
           ELSE /\ Signal(d, "USR2")
                /\ full' = [full EXCEPT ![d] = TRUE]
                /\ Run(d, f, 1)
                /\ proc' = [proc EXCEPT ![<<f, 1>>] = "running"]
  BY DEF RegularFile
<1>2. pc[d] = "loop" /\ UNCHANGED <<childCnt, failed, silent, out, offset, envVars>>
  BY DEF RegularFile
<1>3. f \in Files /\ Parent[f] = d /\ <<f, 1>> \in Commands
  <2>1. f \in Files /\ f \in EntriesOf(d)
    BY DEF Placed
  <2>2. 1 \in 1..4
    OBVIOUS
  <2>3. QED BY <2>1, <2>2 DEF EntriesOf
<1>4. unread' \in [Dirs -> SUBSET Entries]
  BY <1>1 DEF TypeOK
<1>5. pending' \subseteq Signals /\ dir_cnt' \in Nat /\ file_cnt' \in Nat
  BY <1>1, SignalTypes DEF TypeOK, sigVars, Signals
<1>6. PICK where \in {"loop", "cmd"} :
        /\ pc' = [pc EXCEPT ![d] = where]
        /\ where = "cmd" => cmd' = [cmd EXCEPT ![d] = <<f, 1>>]
        /\ where = "loop" => cmd' = cmd
  BY <1>1, <1>2 DEF Run, Goto, TypeOK
<1>7. /\ cmd' \in [Dirs -> Commands \cup {<<>>}]
      /\ full' \in [Dirs -> BOOLEAN] /\ proc' \in [Procs -> States]
  <2>1. cmd' \in [Dirs -> Commands \cup {<<>>}]
    <3>1. cmd \in [Dirs -> Commands \cup {<<>>}]
      BY DEF TypeOK
    <3>2. CASE where = "loop"
      BY <1>6, <3>1, <3>2
    <3>3. CASE where = "cmd"
      BY <1>3, <1>6, <3>1, <3>3
    <3>4. QED BY <3>2, <3>3
  <2>2. full' \in [Dirs -> BOOLEAN] /\ proc' \in [Procs -> States]
    BY <1>1, ZenonT(60) DEF TypeOK, States
  <2>3. QED BY <2>1, <2>2
<1>8. TypeOK'
  <2>1. skipped' = skipped \/ \E g \in Files : skipped' = skipped \cup {g}
    BY DEF RegularFile
  <2>2. skipped' \subseteq Files
    BY <2>1 DEF TypeOK
  <2>3. QED BY <1>2, <1>4, <1>5, <1>6, <1>7, <2>2 DEF TypeOK, Pcs, envVars
<1>9. Placed' /\ FreshDirs' /\ (\A g \in Files : Over(g) => Over(g)')
  <2>1. \A b \in Dirs \ {d} : unread'[b] = unread[b] /\ cmd'[b] = cmd[b]
    BY <1>1, <1>6 DEF TypeOK
  <2>2. unread'[d] = unread[d] \ {f}
    BY <1>1 DEF TypeOK
  <2>3. where \in InLine => cmd'[d] = <<f, 1>>
    BY <1>6 DEF TypeOK, InLine
  <2>4. ~Over(f)
    BY <1>3 DEF Over, Arrived
  <2>5. where \in Pcs \ Early /\ pc[d] \notin Early
    BY <1>2 DEF Pcs, Early
  <2>6. where \in InLine =>
          /\ cmd'[d] \in Commands /\ Parent[cmd'[d][1]] = d
          /\ cmd'[d][1] \notin unread'[d]
          /\ ~Over(cmd'[d][1])
    <3>1. SUFFICES ASSUME where \in InLine PROVE cmd'[d] \in Commands /\ cmd'[d][1] = f
      BY <1>3, <2>2, <2>4
    <3>2. QED BY <1>3, <2>3, <3>1
  <2>7. QED BY <1>4, <1>6, <2>1, <2>2, <2>5, <2>6, Moves
<1>10. Once' /\ AtEnd'
  BY <1>2, <1>6, <1>9, LinesStay DEF AtEnd, TypeOK
<1>11. QED BY <1>8, <1>9, <1>10

LEMMA CollectKeeps == ASSUME IInv, NEW d \in Dirs, CollectCommand(d) PROVE IInv'
<1> USE Sorts DEF IInv
<1> DEFINE f == cmd[d][1]
           i == cmd[d][2]
<1>1. /\ pc[d] = "cmd"
      /\ UNCHANGED <<childCnt, sigVars, fileVars, envVars>>
  BY DEF CollectCommand
<1>2. /\ cmd[d] \in Commands /\ f \in Files /\ i \in 1..4 /\ Parent[f] = d
      /\ f \notin unread[d]
  BY <1>1 DEF Placed, InLine
<1>3. i < CommandCount => <<f, i + 1>> \in Commands
  <2>1. Cardinality(opt.hashes) \in 0..3
    BY FewHashes DEF TypeOK
  <2>2. i < CommandCount => i + 1 \in 1..4
    BY <1>2, <2>1 DEF CommandCount
  <2>3. QED BY <1>2, <2>2
<1>4. PICK p \in Zombies(d), where \in {"loop", "cmd", "seek", "done"} :
        /\ pc' = [pc EXCEPT ![d] = where]
        /\ \/ where = "cmd" /\ i < CommandCount
              /\ cmd' = [cmd EXCEPT ![d] = <<f, i + 1>>]
              /\ proc' = [[proc EXCEPT ![p] = "reaped"] EXCEPT ![<<f, i + 1>>] = "running"]
              /\ failed' = failed
           \/ where \in {"loop", "seek"} /\ cmd' = cmd
              /\ proc' = [proc EXCEPT ![p] = "reaped"]
              /\ failed' = failed
           \/ where = "done" /\ cmd' = cmd
              /\ proc' = [[proc EXCEPT ![p] = "reaped"] EXCEPT ![d] = "zombie"]
              /\ failed' = failed \cup {d}
        /\ unread' = unread /\ silent' = silent
        /\ \/ full' = full
           \/ full' = [full EXCEPT ![d] = @ /\ cmd[d] \notin silent]
  BY DEF CollectCommand, NextEntry, program_is_term, Goto, Run
<1>5. /\ proc' \in [Procs -> States] /\ failed' \subseteq Procs
      /\ full' \in [Dirs -> BOOLEAN]
  <2>1. "reaped" \in States /\ "running" \in States /\ "zombie" \in States
    BY DEF States
  <2>2. proc' \in [Procs -> States] /\ failed' \subseteq Procs
    <3>1. proc \in [Procs -> States] /\ failed \subseteq Procs /\ d \in Procs
      BY DEF TypeOK
    <3>2. [proc EXCEPT ![p] = "reaped"] \in [Procs -> States]
      BY <2>1, <3>1
    <3>3. failed' \subseteq Procs
      BY <1>4, <3>1
    <3>4. QED BY <1>4, <2>1, <3>2, <3>3
  <2>3. full' \in [Dirs -> BOOLEAN]
    BY <1>4 DEF TypeOK
  <2>4. QED BY <2>2, <2>3
<1>6. cmd' \in [Dirs -> Commands \cup {<<>>}]
  <2>1. cmd \in [Dirs -> Commands \cup {<<>>}]
    BY DEF TypeOK
  <2>2. QED BY <1>3, <1>4, <2>1, SMTT(100), ZenonT(60)
<1>7. TypeOK'
  BY <1>1, <1>4, <1>5, <1>6 DEF TypeOK, Pcs, sigVars, fileVars, envVars
<1>8. Placed' /\ FreshDirs' /\ (\A g \in Files : Over(g) => Over(g)')
  <2>1. \A b \in Dirs \ {d} : unread'[b] = unread[b] /\ cmd'[b] = cmd[b]
    BY <1>4 DEF TypeOK
  <2>2. unread' \in [Dirs -> SUBSET Entries] /\ unread'[d] = unread[d]
    BY <1>4 DEF TypeOK
  <2>3. where \in InLine => cmd'[d] \in Commands /\ cmd'[d][1] = f
    <3>1. CASE where = "cmd"
      <4>1. cmd'[d] = <<f, i + 1>> /\ <<f, i + 1>> \in Commands
        BY <1>3, <1>4, <3>1 DEF TypeOK
      <4>2. QED BY <4>1
    <3>2. CASE where = "seek"
      BY <1>2, <1>4, <3>2
    <3>3. QED BY <3>1, <3>2 DEF InLine
  <2>4. ~Over(f)
    BY <1>1, <1>2 DEF Over, InLine
  <2>5. where \in Pcs \ Early /\ pc[d] \notin Early
    BY <1>1 DEF Pcs, Early
  <2>6. QED BY <1>2, <1>4, <2>1, <2>2, <2>3, <2>4, <2>5, Moves
<1>9. Once' /\ AtEnd'
  BY <1>1, <1>4, <1>8, LinesStay DEF AtEnd, TypeOK, fileVars
<1>10. QED BY <1>7, <1>8, <1>9

LEMMA SeekKeeps == ASSUME IInv, NEW d \in Dirs, Seek(d) PROVE IInv'
<1> USE Sorts DEF IInv
<1>1. /\ pc[d] = "seek" /\ pc' = [pc EXCEPT ![d] = "write"]
      /\ offset' = [offset EXCEPT ![Root] = Len(out)] /\ out' = out
      /\ UNCHANGED <<unread, cmd, full, childCnt, procVars, sigVars, skipped, envVars>>
  BY DEF Seek, Goto, Ofd
<1>2. TypeOK'
  <2>1. Len(out) \in Nat
    BY LenProperties DEF TypeOK
  <2>2. QED BY <1>1, <2>1 DEF TypeOK, Pcs, procVars, sigVars, envVars
<1>3. Placed' /\ FreshDirs' /\ (\A f \in Files : Over(f) => Over(f)')
  <2>1. cmd[d] \in Commands /\ Parent[cmd[d][1]] = d /\ cmd[d][1] \notin unread[d]
    BY <1>1 DEF Placed, InLine
  <2>2. ~Over(cmd[d][1])
    BY <1>1, <2>1 DEF Over, InLine
  <2>3. unread \in [Dirs -> SUBSET Entries]
    BY DEF TypeOK
  <2>4. "write" \in Pcs \ Early /\ pc[d] \notin Early
    BY <1>1 DEF Pcs, Early
  <2>5. QED BY <1>1, <2>1, <2>2, <2>3, <2>4, Moves
<1>4. Once' /\ AtEnd'
  BY <1>1, <1>3, LinesStay DEF AtEnd, TypeOK
<1>5. QED BY <1>2, <1>3, <1>4

\* What a write does to the output file: the line of the file the process is at
\* is appended to lines of other files.
LEMMA WriteAppends ==
    ASSUME IInv, NEW d \in Dirs, Write(d)
    PROVE  LET line == [file |-> cmd[d][1], full |-> full[d]]
           IN /\ line \in [file : Files, full : BOOLEAN]
              /\ out' = Append(out, line)
              /\ \A i \in 1..Len(out) : out[i].file # line.file
<1> USE Sorts DEF IInv
<1> DEFINE line == [file |-> cmd[d][1], full |-> full[d]]
<1>1. pc[d] = "write" /\ out' = WriteAt(out, offset[Root], line)
  BY DEF Write, Ofd
<1>2. cmd[d] \in Commands /\ Parent[cmd[d][1]] = d
  BY <1>1 DEF Placed, InLine
<1>3. line \in [file : Files, full : BOOLEAN]
  BY <1>2 DEF TypeOK
<1>4. out' = Append(out, line)
  <2>1. offset[Root] = Len(out)
    BY <1>1 DEF AtEnd
  <2>2. out \in Seq([file : Files, full : BOOLEAN])
    BY DEF TypeOK
  <2>3. WriteAt(out, Len(out), line) = Append(out, line)
    BY <1>3, <2>2, WriteAtEnd
  <2>4. QED BY <1>1, <2>1, <2>3
<1>5. \A i \in 1..Len(out) : out[i].file # line.file
  <2>1. ~Over(line.file)
    BY <1>1, <1>2 DEF Over, InLine
  <2>2. QED BY <2>1 DEF Once
<1>6. QED BY <1>3, <1>4, <1>5

LEMMA WriteKeeps == ASSUME IInv, NEW d \in Dirs, Write(d) PROVE IInv'
<1> USE Sorts DEF IInv
<1> DEFINE line == [file |-> cmd[d][1], full |-> full[d]]
<1>1. /\ pc[d] = "write" /\ pc' = [pc EXCEPT ![d] = "loop"]
      /\ offset' = [offset EXCEPT ![Root] = @ + 1]
      /\ UNCHANGED <<unread, cmd, full, childCnt, procVars, sigVars, skipped, envVars>>
  BY DEF Write, Goto, Ofd, NextEntry, program_is_term
<1>2. line \in [file : Files, full : BOOLEAN] /\ out' = Append(out, line)
  BY WriteAppends
<1>3. /\ out' \in Seq([file : Files, full : BOOLEAN])
      /\ Len(out) \in Nat /\ Len(out') = Len(out) + 1 /\ out'[Len(out) + 1] = line
      /\ \A i \in 1..Len(out) : out'[i] = out[i]
  <2>1. out \in Seq([file : Files, full : BOOLEAN])
    BY DEF TypeOK
  <2>2. QED BY <1>2, <2>1
<1>4. TypeOK'
  BY <1>1, <1>3 DEF TypeOK, Pcs, procVars, sigVars, envVars
<1>5. Placed' /\ FreshDirs' /\ (\A f \in Files : Over(f) => Over(f)')
  <2>1. unread \in [Dirs -> SUBSET Entries]
    BY DEF TypeOK
  <2>2. "loop" \in Pcs \ Early /\ "loop" \notin InLine /\ pc[d] \notin Early
    BY <1>1 DEF Pcs, Early, InLine
  <2>3. QED BY <1>1, <2>1, <2>2, Moves
<1>6. Over(line.file)'
  <2>1. cmd[d] \in Commands /\ Parent[cmd[d][1]] = d /\ cmd[d][1] \notin unread[d]
    BY <1>1 DEF Placed, InLine
  <2>2. pc'[d] = "loop" /\ unread' = unread
    BY <1>1 DEF TypeOK
  <2>3. QED BY <2>1, <2>2, <1>1 DEF Over, Arrived, Early, InLine
<1>7. Once'
  <2> SUFFICES ASSUME NEW i \in 1..Len(out') PROVE Over(out[i].file)'
    BY DEF Once
  <2>1. CASE i = Len(out) + 1
    <3>1. out'[i].file = cmd[d][1] /\ cmd' = cmd
      BY <1>1, <1>3, <2>1
    <3>2. QED BY <1>1, <1>6, <3>1 DEF Over, Arrived
  <2>2. CASE i \in 1..Len(out)
    <3>1. out[i] \in [file : Files, full : BOOLEAN]
      BY <2>2, ElementOfSeq DEF TypeOK
    <3>2. out[i].file \in Files /\ Over(out[i].file)
      BY <2>2, <3>1 DEF Once
    <3>3. out'[i] = out[i]
      BY <1>3, <2>2
    <3>4. QED BY <1>5, <3>2, <3>3 DEF Over, Arrived
  <2>3. QED BY <1>3, <2>1, <2>2
<1>8. AtEnd'
  BY <1>1, <1>3 DEF AtEnd, TypeOK
<1>9. QED BY <1>4, <1>5, <1>7, <1>8

\* The types of the steps that leave the scan alone.
LEMMA OthersType ==
    ASSUME TypeOK,
           \/ \E d \in Dirs : WaitChild(d)
           \/ \E c \in Commands : CommandStep(c)
           \/ Deliver \/ Interrupt \/ ShellReaps \/ UNCHANGED vars
    PROVE  TypeOK' /\ UNCHANGED <<pc, unread, cmd, out, offset>>
<1> USE Sorts DEF scanVars, procVars, sigVars, fileVars, envVars
<1>1. ASSUME NEW d \in Dirs, WaitChild(d) PROVE TypeOK'
  <2>1. childCnt[d] \in Nat /\ childCnt[d] > 0 /\ childCnt' = [childCnt EXCEPT ![d] = @ - 1]
    BY <1>1 DEF WaitChild, TypeOK
  <2>2. childCnt' \in [Dirs -> Nat]
    BY <2>1 DEF TypeOK
  <2>3. proc' \in [Procs -> States]
    BY <1>1 DEF WaitChild, TypeOK, States
  <2>4. QED BY <1>1, <2>2, <2>3 DEF WaitChild, TypeOK
<1>2. ASSUME NEW c \in Commands, CommandStep(c) PROVE TypeOK'
  <2>1. /\ proc' = [proc EXCEPT ![c] = "wrote"] \/ proc' = [proc EXCEPT ![c] = "zombie"]
        /\ failed' \subseteq failed \cup {c} /\ silent' \subseteq silent \cup {c}
        /\ UNCHANGED <<scanVars, sigVars, fileVars, envVars>>
    BY <1>2 DEF CommandStep, CommandWrites, CommandExits
  <2>2. proc' \in [Procs -> States]
    BY <2>1 DEF TypeOK, States
  <2>3. failed' \subseteq Procs /\ silent' \subseteq Commands
    BY <2>1 DEF TypeOK
  <2>4. QED BY <2>1, <2>2, <2>3 DEF TypeOK
<1>3. CASE Deliver
  BY <1>3, SMTT(30), ZenonT(30) DEF Deliver, usr_signal_handler, TypeOK
<1>4. CASE Interrupt
  BY <1>4 DEF Interrupt, TypeOK, States
<1>5. CASE ShellReaps
  BY <1>5 DEF ShellReaps, TypeOK, States
<1>6. CASE UNCHANGED vars
  BY <1>6 DEF vars, TypeOK
<1>7. TypeOK'
  BY <1>1, <1>2, <1>3, <1>4, <1>5, <1>6
<1>8. UNCHANGED <<pc, unread, cmd, out, offset>>
  BY DEF WaitChild, CommandStep, CommandWrites, CommandExits, Deliver, Interrupt, ShellReaps, vars
<1>9. QED BY <1>7, <1>8

LEMMA Inductive == IInv /\ [Next]_vars => IInv'
<1> SUFFICES ASSUME IInv, [Next]_vars PROVE IInv'
  OBVIOUS
<1>1. CASE Main
  BY <1>1, MainKeeps
<1>2. ASSUME NEW d \in Dirs, Scan(d) PROVE IInv'
  <2>1. CASE Enter(d)
    BY <2>1, EnterKeeps
  <2>2. CASE EntryGone(d)
    BY <2>2, LeavingKeeps DEF EntryGone
  <2>3. CASE Subdirectory(d)
    BY <2>3, SubdirectoryKeeps
  <2>4. CASE RegularFile(d)
    BY <2>4, RegularFileKeeps
  <2>5. CASE CollectCommand(d)
    BY <2>5, CollectKeeps
  <2>6. CASE Seek(d)
    BY <2>6, SeekKeeps
  <2>7. CASE Write(d)
    BY <2>7, WriteKeeps
  <2>8. CASE WaitChild(d)
    BY <2>8, OthersType, Quiet DEF IInv
  <2>9. CASE ScanEnds(d)
    BY <2>9, LeavingKeeps DEF ScanEnds
  <2>10. QED BY <1>2, <2>1, <2>2, <2>3, <2>4, <2>5, <2>6, <2>7, <2>8, <2>9 DEF Scan
<1>3. CASE \/ \E c \in Commands : CommandStep(c)
           \/ Deliver \/ Interrupt \/ ShellReaps \/ UNCHANGED vars
  BY <1>3, OthersType, Quiet DEF IInv
<1>4. QED BY <1>1, <1>2, <1>3 DEF Next

LEMMA Invariant == Spec => []IInv
BY Initial, Inductive, PTL DEF Spec

\* Every variable keeps its type, in every tree and whatever fails: no fifth
\* command is run on a file (forensic.c:182-207) and no count of children waited
\* for (333) goes below zero.
THEOREM TypeCorrect == Spec => []TypeOK
<1>1. IInv => TypeOK
  BY DEF IInv
<1>2. QED BY <1>1, Invariant, PTL

-----------------------------------------------------------------------------
(* The output file is a report.                                            *)

LEMMA StepsReport == IInv /\ [Next]_vars => [Report!Next]_out
<1> SUFFICES ASSUME IInv, [Next]_vars, out' # out PROVE Report!Next
  OBVIOUS
<1>1. PICK d \in Dirs : Write(d)
  BY DEF Next, Scan, CommandStep, Main, Enter, EntryGone, Subdirectory, RegularFile,
         CollectCommand, Seek, WaitChild, ScanEnds, CommandWrites, CommandExits,
         Deliver, Interrupt, ShellReaps, vars, fileVars
<1> DEFINE line == [file |-> cmd[d][1], full |-> full[d]]
<1>2. /\ line \in [file : Files, full : BOOLEAN]
      /\ out' = Append(out, line)
      /\ \A i \in 1..Len(out) : out[i].file # line.file
  BY <1>1, WriteAppends
<1>3. DOMAIN out = 1..Len(out)
  BY LenProperties DEF IInv, TypeOK
<1>4. line \in Report!Line /\ Report!Add(line)
  BY <1>2, <1>3 DEF Report!Line, Report!Add, Report!Reported
<1>5. QED BY <1>4 DEF Report!Next

\* The output file of every scan is a report: lines are only added, none is
\* overwritten and no file has two, though all the processes seek and write in
\* two steps on one offset (forensic.c:213-215).
THEOREM ReportImplemented == Spec => ImplementsReport
<1>1. Init => Report!Init
  BY DEF Init, Report!Init
<1>2. QED BY <1>1, StepsReport, Invariant, PTL DEF Spec, ImplementsReport, Report!Spec

-----------------------------------------------------------------------------
(* Every process waits as often as it has children.                        *)

Busy == {"running", "wrote", "zombie"}

\* A process that is scanning runs, and one that was never forked does not.
Alive ==
    \A d \in Dirs :
        /\ pc[d] \in {"main", "enter", "loop"} \cup InLine => proc[d] = "running"
        /\ pc[d] = "none" => proc[d] = "none"

\* The commands on a file are forked one after the other, once its entry is read.
FreshCommands ==
    \A f \in Files, i \in 1..4 :
        proc[<<f, i>>] # "none" =>
            /\ Arrived(f)
            /\ pc[Parent[f]] = "cmd" /\ cmd[Parent[f]][1] = f => i <= cmd[Parent[f]][2]

Accounted(d) ==
    /\ IsFiniteSet(Unreaped(d))
    /\ pc[d] \in Early => childCnt[d] = 0
    /\ pc[d] \in {"loop", "seek", "write"} => Cardinality(Unreaped(d)) = childCnt[d]
    /\ pc[d] = "cmd" => Cardinality(Unreaped(d)) = childCnt[d] + 1
    /\ pc[d] = "done" /\ d \notin failed => Unreaped(d) = {}

JInv == IInv /\ Alive /\ FreshCommands /\ \A d \in Dirs : Accounted(d)

\* A process is the child of one directory's process only.
LEMMA Children ==
    \A d \in Dirs : \A p \in ChildrenOf(d) :
        p \in Procs /\ p # Root /\ \A b \in Dirs : p \in ChildrenOf(b) => b = d
BY Sorts DEF ChildrenOf, EntriesOf

\* The unreaped children after a fork, after a wait, and after both.
LEMMA UnreapedForked ==
    ASSUME NEW d \in Dirs, NEW c \in ChildrenOf(d),
           IsFiniteSet(Unreaped(d)), proc[c] \notin Busy,
           \A p \in Procs \ {Root} : proc'[p] \in Busy <=> p = c \/ proc[p] \in Busy
    PROVE  /\ IsFiniteSet(Unreaped(d)')
           /\ Cardinality(Unreaped(d)') = Cardinality(Unreaped(d)) + 1
           /\ \A b \in Dirs \ {d} : Unreaped(b)' = Unreaped(b)
<1>1. /\ Unreaped(d)' = Unreaped(d) \cup {c} /\ c \notin Unreaped(d)
      /\ \A b \in Dirs \ {d} : Unreaped(b)' = Unreaped(b)
  BY Children DEF Unreaped, Busy
<1>2. /\ IsFiniteSet(Unreaped(d) \cup {c})
      /\ Cardinality(Unreaped(d) \cup {c}) = Cardinality(Unreaped(d)) + 1
  BY <1>1, FS_AddElement
<1>3. QED BY <1>1, <1>2

LEMMA UnreapedReaped ==
    ASSUME NEW d \in Dirs, NEW c \in ChildrenOf(d),
           IsFiniteSet(Unreaped(d)), proc[c] \in Busy,
           \A p \in Procs \ {Root} : proc'[p] \in Busy <=> p # c /\ proc[p] \in Busy
    PROVE  /\ IsFiniteSet(Unreaped(d)')
           /\ Cardinality(Unreaped(d)) \in Nat
           /\ Cardinality(Unreaped(d)') = Cardinality(Unreaped(d)) - 1
           /\ \A b \in Dirs \ {d} : Unreaped(b)' = Unreaped(b)
<1>1. /\ Unreaped(d)' = Unreaped(d) \ {c} /\ c \in Unreaped(d)
      /\ \A b \in Dirs \ {d} : Unreaped(b)' = Unreaped(b)
  BY Children DEF Unreaped, Busy
<1>2. /\ IsFiniteSet(Unreaped(d) \ {c})
      /\ Cardinality(Unreaped(d) \ {c}) = Cardinality(Unreaped(d)) - 1
  BY <1>1, FS_RemoveElement
<1>3. Cardinality(Unreaped(d)) \in Nat
  BY FS_CardinalityType
<1>4. QED BY <1>1, <1>2, <1>3

LEMMA UnreapedReplaced ==
    ASSUME NEW d \in Dirs, NEW c \in ChildrenOf(d), NEW n \in ChildrenOf(d),
           IsFiniteSet(Unreaped(d)), proc[c] \in Busy, proc[n] \notin Busy,
           \A p \in Procs \ {Root} :
               proc'[p] \in Busy <=> p = n \/ (p # c /\ proc[p] \in Busy)
    PROVE  /\ IsFiniteSet(Unreaped(d)')
           /\ Cardinality(Unreaped(d)') = Cardinality(Unreaped(d))
           /\ \A b \in Dirs \ {d} : Unreaped(b)' = Unreaped(b)
<1> DEFINE kept == Unreaped(d) \ {c}
<1>1. /\ Unreaped(d)' = kept \cup {n} /\ c \in Unreaped(d) /\ n \notin kept
      /\ \A b \in Dirs \ {d} : Unreaped(b)' = Unreaped(b)
  BY Children DEF Unreaped, Busy
<1>2. IsFiniteSet(kept) /\ Cardinality(kept) = Cardinality(Unreaped(d)) - 1
  BY <1>1, FS_RemoveElement
<1>3. Cardinality(Unreaped(d)) \in Nat
  BY FS_CardinalityType
<1> HIDE DEF kept
<1>4. /\ IsFiniteSet(kept \cup {n})
      /\ Cardinality(kept \cup {n}) = Cardinality(kept) + 1
  BY <1>1, <1>2, FS_AddElement
<1>5. QED BY <1>1, <1>2, <1>3, <1>4

\* A directory's process whose own place, count and children are untouched.
LEMMA StaysAccounted ==
    ASSUME NEW b \in Dirs, Accounted(b), Unreaped(b)' = Unreaped(b),
           childCnt'[b] = childCnt[b], pc'[b] = pc[b], failed \subseteq failed'
    PROVE  Accounted(b)'
BY DEF Accounted

\* A directory that is not read yet has no children.
LEMMA NoChildrenYet ==
    ASSUME JInv, NEW d \in Dirs, pc[d] \in Early
    PROVE  Unreaped(d) = {}
<1> USE Sorts DEF JInv, IInv
<1> SUFFICES ASSUME NEW p \in Unreaped(d) PROVE FALSE
  OBVIOUS
<1>1. p \in ChildrenOf(d) /\ proc[p] # "none"
  BY DEF Unreaped
<1>2. CASE p \in Dirs
  <2>1. p # Root /\ Parent[p] = d
    BY <1>1, <1>2 DEF ChildrenOf, EntriesOf
  <2>2. Arrived(p)
    BY <1>1, <1>2, <2>1 DEF Alive, FreshDirs
  <2>3. QED BY <2>1, <2>2 DEF Arrived
<1>3. CASE p \notin Dirs
  <2>1. p \in Commands /\ Parent[p[1]] = d
    BY <1>1, <1>3 DEF ChildrenOf
  <2>2. p[1] \in Files /\ p[2] \in 1..4 /\ proc[<<p[1], p[2]>>] # "none"
    BY <1>1, <2>1
  <2>3. Arrived(p[1])
    BY <2>2 DEF FreshCommands
  <2>4. QED BY <2>1, <2>3 DEF Arrived
<1>4. QED BY <1>2, <1>3

LEMMA InitialAccounts == Init => JInv
<1> SUFFICES ASSUME Init PROVE JInv
  OBVIOUS
<1> USE Sorts DEF Init
<1>1. IInv
  BY Initial
<1>2. Alive /\ FreshCommands
  BY DEF Alive, FreshCommands, InLine
<1>3. ASSUME NEW d \in Dirs PROVE Accounted(d)
  <2>1. Unreaped(d) = {}
    BY Children DEF Unreaped
  <2>2. IsFiniteSet({}) /\ Cardinality({}) = 0
    BY FS_EmptySet
  <2>3. pc[d] \in Early /\ childCnt[d] = 0
    BY DEF Early
  <2>4. QED BY <2>1, <2>2, <2>3 DEF Accounted, Early
<1>4. QED BY <1>1, <1>2, <1>3 DEF JInv

\* What is asked of a step of d's process besides its count.
LEMMA AliveAfter ==
    ASSUME JInv, NEW d \in Dirs, NEW where \in Pcs \ {"none"}, pc[d] \notin {"none", "done"},
           pc' = [pc EXCEPT ![d] = where],
           \A b \in Dirs \ {d} : proc'[b] = proc[b] \/ (proc[b] = "zombie" /\ proc'[b] = "reaped"),
           proc'[d] = IF where = "done" THEN "zombie" ELSE "running"
    PROVE  Alive'
<1>1. \A b \in Dirs : pc'[b] = IF b = d THEN where ELSE pc[b]
  BY DEF JInv, IInv, TypeOK
<1>2. \A b \in Dirs : proc[b] = "zombie" => pc[b] = "done"
  BY DEF JInv, IInv, TypeOK, Alive, Pcs, InLine
<1>3. QED BY <1>1, <1>2 DEF JInv, Alive, InLine

LEMMA MainAccounts == JInv /\ Main => JInv'
<1> SUFFICES ASSUME JInv, Main PROVE JInv'
  OBVIOUS
<1> USE Sorts DEF JInv, IInv
<1>1. IInv'
  BY MainKeeps
<1>2. /\ pc[Root] = "main"
      /\ UNCHANGED <<unread, cmd, full, childCnt>>
  BY DEF Main
<1>3. PICK where \in {"enter", "done"} :
        /\ pc' = [pc EXCEPT ![Root] = where]
        /\ where = "done" => proc' = [proc EXCEPT ![Root] = "zombie"] /\ failed' = failed \cup {Root}
        /\ where = "enter" => UNCHANGED procVars
  BY DEF Main, Leave, Goto
<1>4. /\ \A p \in Procs \ {Root} : proc'[p] = proc[p]
      /\ \A b \in Dirs : pc'[b] = IF b = Root THEN where ELSE pc[b]
      /\ failed \subseteq failed' /\ (where = "done" => Root \in failed')
  BY <1>3 DEF TypeOK, procVars
<1>5. Alive'
  <2>1. proc[Root] = "running" /\ proc'[Root] = IF where = "done" THEN "zombie" ELSE "running"
    BY <1>2, <1>3 DEF Alive, TypeOK, procVars
  <2>2. QED BY <1>2, <1>3, <1>4, <2>1, AliveAfter DEF Pcs
<1>6. FreshCommands'
  <2>1. \A f \in Files, i \in 1..4 : proc'[<<f, i>>] = proc[<<f, i>>]
    BY <1>4
  <2>2. \A e \in Entries : Arrived(e) => Arrived(e)'
    BY <1>2, <1>4 DEF Arrived, Early
  <2>3. QED BY <1>2, <1>4, <2>1, <2>2, ZenonT(60) DEF FreshCommands
<1>7. \A b \in Dirs : Unreaped(b)' = Unreaped(b)
  BY <1>4, Children DEF Unreaped
<1>8. ASSUME NEW b \in Dirs PROVE Accounted(b)'
  <2>1. CASE b = Root
    BY <1>2, <1>4, <1>7, <2>1, NoChildrenYet DEF Accounted, Early
  <2>2. CASE b # Root
    BY <1>2, <1>4, <1>7, <2>2, StaysAccounted
  <2>3. QED BY <2>1, <2>2
<1>9. QED BY <1>1, <1>5, <1>6, <1>8

LEMMA EnterAccounts == ASSUME JInv, NEW d \in Dirs, Enter(d) PROVE JInv'
<1> USE Sorts DEF JInv, IInv
<1>1. IInv'
  BY EnterKeeps
<1>2. pc[d] = "enter" /\ UNCHANGED <<cmd, full, childCnt>>
  BY DEF Enter
<1>3. PICK where \in {"loop", "done"} :
        /\ pc' = [pc EXCEPT ![d] = where]
        /\ where = "done" => proc' = [proc EXCEPT ![d] = "zombie"] /\ failed' = failed \cup {d}
        /\ where = "loop" => UNCHANGED procVars
  BY DEF Enter, Leave, Goto
<1>4. /\ \A p \in Procs \ {d} : proc'[p] = proc[p]
      /\ \A b \in Dirs : pc'[b] = IF b = d THEN where ELSE pc[b]
      /\ failed \subseteq failed' /\ (where = "done" => d \in failed')
  BY <1>3 DEF TypeOK, procVars
<1>5. proc[d] = "running" /\ proc'[d] = IF where = "done" THEN "zombie" ELSE "running"
  BY <1>2, <1>3 DEF Alive, TypeOK, procVars
<1>6. Alive'
  BY <1>2, <1>3, <1>4, <1>5, AliveAfter DEF Pcs
<1>7. FreshCommands'
  <2>1. \A f \in Files, i \in 1..4 : proc'[<<f, i>>] = proc[<<f, i>>]
    BY <1>4
  <2>2. \A e \in Entries : Arrived(e) => Parent[e] # d /\ Arrived(e)'
    <3>1. \A b \in Dirs \ {d} : unread'[b] = unread[b]
      BY DEF Enter, TypeOK
    <3>2. QED BY <1>2, <1>4, <3>1 DEF Arrived, Early
  <2>3. QED BY <1>2, <1>4, <2>1, <2>2, ZenonT(60) DEF FreshCommands
<1>8. \A b \in Dirs : Unreaped(b)' = Unreaped(b)
  BY <1>4, <1>5, Children DEF Unreaped
<1>9. ASSUME NEW b \in Dirs PROVE Accounted(b)'
  <2>1. CASE b = d
    <3>1. Unreaped(d) = {} /\ childCnt[d] = 0 /\ IsFiniteSet({}) /\ Cardinality({}) = 0
      BY <1>2, NoChildrenYet, FS_EmptySet DEF Accounted, Early
    <3>2. QED BY <1>2, <1>4, <1>8, <2>1, <3>1 DEF Accounted, Early
  <2>2. CASE b # d
    BY <1>2, <1>4, <1>8, <2>2, StaysAccounted
  <2>3. QED BY <2>1, <2>2
<1>10. QED BY <1>1, <1>6, <1>7, <1>9

\* EntryGone and ScanEnds: the process ends, and if it ends well it has no
\* children left.
LEMMA LeavingAccounts ==
    ASSUME JInv, NEW d \in Dirs, pc[d] = "loop", NEW ok \in BOOLEAN, Leave(d, ok),
           ok => childCnt[d] = 0,
           UNCHANGED <<unread, cmd, full, childCnt, sigVars, fileVars, envVars>>
    PROVE  JInv'
<1> USE Sorts DEF JInv, IInv
<1>1. IInv'
  BY LeavingKeeps
<1>2. /\ pc' = [pc EXCEPT ![d] = "done"] /\ proc' = [proc EXCEPT ![d] = "zombie"]
      /\ failed' = IF ok THEN failed ELSE failed \cup {d}
  BY DEF Leave, Goto
<1>3. /\ \A p \in Procs \ {d} : proc'[p] = proc[p]
      /\ \A b \in Dirs : pc'[b] = IF b = d THEN "done" ELSE pc[b]
      /\ proc[d] = "running" /\ proc'[d] = "zombie"
  BY <1>2 DEF TypeOK, Alive
<1>4. Alive'
  BY <1>2, <1>3, AliveAfter DEF Pcs
<1>5. FreshCommands'
  <2>1. \A f \in Files, i \in 1..4 : proc'[<<f, i>>] = proc[<<f, i>>]
    BY <1>3, SMTT(100), ZenonT(60)
  <2>2. \A e \in Entries : Arrived(e) => Arrived(e)'
    BY <1>3 DEF Arrived, Early
  <2>3. QED BY <1>3, <2>1, <2>2 DEF FreshCommands
<1>6. \A b \in Dirs : Unreaped(b)' = Unreaped(b)
  BY <1>3, Children DEF Unreaped
<1>7. ASSUME NEW b \in Dirs PROVE Accounted(b)'
  <2>1. CASE b = d
    <3>1. ok => Unreaped(d) = {}
      BY FS_EmptySet DEF Accounted
    <3>2. QED BY <1>2, <1>3, <1>6, <2>1, <3>1 DEF Accounted, Early
  <2>2. CASE b # d
    BY <1>2, <1>3, <1>6, <2>2, StaysAccounted
  <2>3. QED BY <2>1, <2>2
<1>8. QED BY <1>1, <1>4, <1>5, <1>7

LEMMA SubdirectoryAccounts == ASSUME JInv, NEW d \in Dirs, Subdirectory(d) PROVE JInv'
<1> USE Sorts DEF JInv, IInv
<1>1. IInv'
  BY SubdirectoryKeeps
<1>2. PICK e \in (unread[d] \cap Dirs) \ faults.gone :
        /\ unread' = [unread EXCEPT ![d] = @ \ {e}]
        /\ IF opt.check_subdir
           THEN /\ childCnt' = [childCnt EXCEPT ![d] = @ + 1]
                /\ proc' = [proc EXCEPT ![e] = "running"]
                /\ Goto(e, "enter")
           ELSE UNCHANGED <<childCnt, proc, pc>>
  BY DEF Subdirectory
<1>3. pc[d] = "loop" /\ UNCHANGED <<cmd, failed>>
  BY DEF Subdirectory
<1>4. e \in Dirs \ {Root} /\ e \in Entries /\ Parent[e] = d /\ e \in ChildrenOf(d)
  BY DEF Placed, EntriesOf, ChildrenOf
<1>5. pc[e] = "none" /\ proc[e] = "none" /\ e # d
  BY <1>3, <1>4 DEF FreshDirs, Arrived, Alive
<1>6. \A a \in Entries : Arrived(a) => Arrived(a)'
  <2>1. /\ \A b \in Dirs : pc'[b] = pc[b] \/ b = e
        /\ \A b \in Dirs : unread'[b] \subseteq unread[b]
    BY <1>2 DEF Goto, TypeOK
  <2>2. QED BY <1>5, <2>1 DEF Arrived, Early
<1>7. FreshCommands'
  <2>1. \A p \in Procs \ {e} : proc'[p] = proc[p]
    BY <1>2 DEF TypeOK
  <2>2. \A b \in Dirs : pc'[b] = "cmd" => pc[b] = "cmd"
    BY <1>2 DEF Goto, TypeOK
  <2>3. \A f \in Files, i \in 1..4 : proc'[<<f, i>>] = proc[<<f, i>>]
    BY <2>1
  <2>4. QED BY <1>3, <1>6, <2>2, <2>3, SMTT(30), ZenonT(30) DEF FreshCommands
<1>8. CASE opt.check_subdir
  <2>1. /\ \A b \in Dirs : pc'[b] = IF b = e THEN "enter" ELSE pc[b]
        /\ \A p \in Procs : proc'[p] = IF p = e THEN "running" ELSE proc[p]
        /\ \A b \in Dirs : childCnt'[b] = IF b = d THEN childCnt[b] + 1 ELSE childCnt[b]
    BY <1>2, <1>8 DEF Goto, TypeOK
  <2>2. Alive'
    BY <2>1 DEF Alive, InLine
  <2>3. /\ IsFiniteSet(Unreaped(d)')
        /\ Cardinality(Unreaped(d)') = Cardinality(Unreaped(d)) + 1
        /\ \A b \in Dirs \ {d} : Unreaped(b)' = Unreaped(b)
    <3>1. \A p \in Procs \ {Root} : proc'[p] \in Busy <=> p = e \/ proc[p] \in Busy
      BY <2>1 DEF Busy
    <3>2. IsFiniteSet(Unreaped(d)) /\ proc[e] \notin Busy
      BY <1>5 DEF Accounted, Busy
    <3>3. QED BY <1>4, <3>1, <3>2, UnreapedForked
  <2>4. ASSUME NEW b \in Dirs PROVE Accounted(b)'
    <3>1. CASE b = d
      <4>1. pc'[d] = "loop" /\ childCnt'[d] = childCnt[d] + 1
        BY <1>3, <1>5, <2>1
      <4>2. QED BY <1>3, <2>3, <3>1, <4>1 DEF Accounted, Early
    <3>2. CASE b = e
      <4>1. Unreaped(e) = {} /\ childCnt[e] = 0 /\ IsFiniteSet({})
        BY <1>5, NoChildrenYet, FS_EmptySet DEF Accounted, Early
      <4>2. pc'[e] = "enter" /\ childCnt'[e] = 0 /\ Unreaped(e)' = {}
        BY <1>4, <1>5, <2>1, <2>3, <4>1
      <4>3. QED BY <3>2, <4>1, <4>2 DEF Accounted
    <3>3. CASE b # d /\ b # e
      BY <1>3, <2>1, <2>3, <3>3, StaysAccounted
    <3>4. QED BY <3>1, <3>2, <3>3
  <2>5. QED BY <1>1, <1>7, <2>2, <2>4
<1>9. CASE ~opt.check_subdir
  <2>1. UNCHANGED <<childCnt, proc, pc>>
    BY <1>2, <1>9
  <2>2. Alive'
    BY <2>1 DEF Alive
  <2>3. \A b \in Dirs : Accounted(b)'
    BY <1>3, <2>1 DEF Accounted, Unreaped
  <2>4. QED BY <1>1, <1>7, <2>2, <2>3
<1>10. QED BY <1>8, <1>9

LEMMA RegularFileAccounts == ASSUME JInv, NEW d \in Dirs, RegularFile(d) PROVE JInv'
<1> USE Sorts DEF JInv, IInv
<1>1. IInv'
  BY RegularFileKeeps
<1>2. PICK f \in (unread[d] \cap Files) \ faults.gone :
        /\ unread' = [unread EXCEPT ![d] = @ \ {f}]
        /\ IF KillFails
           THEN UNCHANGED <<pc, cmd, proc>>
           ELSE /\ cmd' = [cmd EXCEPT ![d] = <<f, 1>>]
                /\ pc' = [pc EXCEPT ![d] = "cmd"]
                /\ proc' = [proc EXCEPT ![<<f, 1>>] = "running"]
  BY DEF RegularFile, Run, Goto
<1>3. pc[d] = "loop" /\ UNCHANGED <<childCnt, failed>>
  BY DEF RegularFile
<1>4. f \in Files /\ Parent[f] = d
  BY DEF Placed, EntriesOf
<1> DEFINE c == <<f, 1>>
<1>5. c \in Commands /\ c \notin Dirs /\ c \in ChildrenOf(d) /\ c # Root
  <2>1. 1 \in 1..4
    OBVIOUS
  <2>2. c \in Commands /\ c[1] = f
    BY <1>4, <2>1
  <2>3. QED BY <1>4, <2>2 DEF ChildrenOf
<1>6. \A i \in 1..4 : proc[<<f, i>>] = "none"
  BY <1>4 DEF FreshCommands, Arrived
<1>7. /\ \A b \in Dirs \ {d} : unread'[b] = unread[b] /\ pc'[b] = pc[b] /\ cmd'[b] = cmd[b]
      /\ unread'[d] = unread[d] \ {f} /\ pc'[d] \in {"loop", "cmd"}
  BY <1>2, <1>3 DEF TypeOK
<1>8. \A e \in Entries : Arrived(e) => Arrived(e)'
  BY <1>7 DEF Arrived, Early
<1>9. CASE KillFails
  <2>1. UNCHANGED <<pc, cmd, proc>>
    BY <1>2, <1>9
  <2>2. Alive' /\ FreshCommands'
    BY <1>8, <2>1 DEF Alive, FreshCommands
  <2>3. \A b \in Dirs : Accounted(b)'
    BY <1>3, <2>1 DEF Accounted, Unreaped
  <2>4. QED BY <1>1, <2>2, <2>3
<1>10. CASE ~KillFails
  <2>1. /\ cmd' = [cmd EXCEPT ![d] = c] /\ pc' = [pc EXCEPT ![d] = "cmd"]
        /\ proc' = [proc EXCEPT ![c] = "running"]
    BY <1>2, <1>10
  <2>2. /\ \A p \in Procs : proc'[p] = IF p = c THEN "running" ELSE proc[p]
        /\ pc'[d] = "cmd" /\ cmd'[d] = c
    BY <2>1 DEF TypeOK
  <2>3. Alive'
    BY <1>3, <1>5, <2>1, <2>2, AliveAfter DEF Alive, Pcs
  <2>4. FreshCommands'
    <3> SUFFICES ASSUME NEW g \in Files, NEW i \in 1..4, proc'[<<g, i>>] # "none"
                 PROVE  /\ Arrived(g)'
                        /\ pc'[Parent[g]] = "cmd" /\ cmd'[Parent[g]][1] = g => i <= cmd'[Parent[g]][2]
      BY DEF FreshCommands
    <3>1. CASE g = f
      <4>1. <<g, i>> \in Procs /\ i = 1
        BY <1>6, <2>2, <3>1
      <4>2. f \notin unread'[d] /\ pc'[d] \notin Early
        BY <1>7, <2>2 DEF Early
      <4>3. Arrived(f)'
        BY <1>4, <4>2 DEF Arrived
      <4>4. QED BY <1>4, <2>2, <3>1, <4>1, <4>3
    <3>2. CASE g # f
      <4>1. proc[<<g, i>>] # "none"
        BY <2>2, <3>2
      <4>2. Arrived(g)'
        BY <1>8, <4>1 DEF FreshCommands
      <4>3. Parent[g] # d => pc'[Parent[g]] = pc[Parent[g]] /\ cmd'[Parent[g]] = cmd[Parent[g]]
        BY <1>7
      <4>4. Parent[g] = d => cmd'[Parent[g]][1] # g
        BY <2>2, <3>2
      <4>5. QED BY <4>1, <4>2, <4>3, <4>4 DEF FreshCommands
    <3>3. QED BY <3>1, <3>2
  <2>5. /\ IsFiniteSet(Unreaped(d)')
        /\ Cardinality(Unreaped(d)') = Cardinality(Unreaped(d)) + 1
        /\ \A b \in Dirs \ {d} : Unreaped(b)' = Unreaped(b)
    <3>1. \A p \in Procs \ {Root} : proc'[p] \in Busy <=> p = c \/ proc[p] \in Busy
      BY <2>2 DEF Busy
    <3>2. IsFiniteSet(Unreaped(d)) /\ proc[c] \notin Busy
      BY <1>6, <1>4 DEF Accounted, Busy
    <3>3. QED BY <1>5, <3>1, <3>2, UnreapedForked
  <2>6. ASSUME NEW b \in Dirs PROVE Accounted(b)'
    <3>1. CASE b = d
      BY <1>3, <2>2, <2>5, <3>1 DEF Accounted, Early
    <3>2. CASE b # d
      BY <1>3, <1>7, <2>5, <3>2, StaysAccounted
    <3>3. QED BY <3>1, <3>2
  <2>7. QED BY <1>1, <2>3, <2>4, <2>6
<1>11. QED BY <1>9, <1>10

LEMMA CollectAccounts == ASSUME JInv, NEW d \in Dirs, CollectCommand(d) PROVE JInv'
<1> USE Sorts DEF JInv, IInv
<1> DEFINE f == cmd[d][1]
           i == cmd[d][2]
           n == <<f, i + 1>>
<1>1. IInv'
  BY CollectKeeps
<1>2. pc[d] = "cmd" /\ UNCHANGED <<childCnt, faults, opt>>
  BY DEF CollectCommand, envVars
<1>3. /\ cmd[d] \in Commands /\ f \in Files /\ i \in 1..4 /\ Parent[f] = d
      /\ proc[d] = "running"
  BY <1>2 DEF Placed, InLine, Alive
<1>4. PICK p \in Zombies(d), where \in {"loop", "cmd", "seek", "done"} :
        /\ pc' = [pc EXCEPT ![d] = where]
        /\ \/ where = "cmd" /\ i < CommandCount
              /\ cmd' = [cmd EXCEPT ![d] = n]
              /\ proc' = [[proc EXCEPT ![p] = "reaped"] EXCEPT ![n] = "running"]
              /\ failed' = failed
           \/ where \in {"loop", "seek"} /\ cmd' = cmd
              /\ proc' = [proc EXCEPT ![p] = "reaped"]
              /\ failed' = failed
           \/ where = "done" /\ cmd' = cmd
              /\ proc' = [[proc EXCEPT ![p] = "reaped"] EXCEPT ![d] = "zombie"]
              /\ failed' = failed \cup {d}
        /\ unread' = unread
  BY DEF CollectCommand, NextEntry, program_is_term, Goto, Run
<1>5. /\ p \in ChildrenOf(d) /\ p \in Procs /\ p # Root /\ proc[p] = "zombie" /\ p # d
  BY <1>3, Children DEF Zombies
<1>6. /\ \A b \in Dirs : pc'[b] = IF b = d THEN where ELSE pc[b]
      /\ \A b \in Dirs \ {d} : cmd'[b] = cmd[b]
      /\ failed \subseteq failed'
  BY <1>4 DEF TypeOK
<1>7. \A e \in Entries : Arrived(e) => Arrived(e)'
  BY <1>2, <1>4, <1>6 DEF Arrived, Early
<1>8. CASE where = "cmd"
  <2>1. n \in Commands /\ n[1] = f /\ n \in ChildrenOf(d) /\ n \notin Dirs /\ n # Root
    <3>1. Cardinality(opt.hashes) \in 0..3
      BY FewHashes DEF TypeOK
    <3>2. i + 1 \in 1..4
      BY <1>3, <1>4, <1>8, <3>1 DEF CommandCount
    <3>3. QED BY <1>3, <3>2 DEF ChildrenOf
  <2>2. proc[n] = "none" /\ n # p
    <3>1. i + 1 \in 1..4 /\ ~(i + 1 <= i)
      BY <1>3, <2>1
    <3>2. proc[n] = "none"
      BY <1>2, <1>3, <3>1 DEF FreshCommands
    <3>3. QED BY <1>5, <3>2
  <2>3. /\ \A q \in Procs : proc'[q] = IF q = n THEN "running" ELSE IF q = p THEN "reaped" ELSE proc[q]
        /\ cmd'[d] = n
    BY <1>4, <1>8, ZenonT(60) DEF TypeOK
  <2>4. Alive'
    BY <1>2, <1>3, <1>4, <1>5, <1>8, <2>1, <2>3, AliveAfter DEF Pcs
  <2>5. FreshCommands'
    <3> SUFFICES ASSUME NEW g \in Files, NEW k \in 1..4, proc'[<<g, k>>] # "none"
                 PROVE  /\ Arrived(g)'
                        /\ pc'[Parent[g]] = "cmd" /\ cmd'[Parent[g]][1] = g => k <= cmd'[Parent[g]][2]
      BY DEF FreshCommands
    <3>1. CASE <<g, k>> = n
      <4>1. g = f /\ k = i + 1
        BY <3>1
      <4>2. Arrived(f)
        <5>1. f \notin unread[d]
          BY <1>2, <1>3 DEF Placed, InLine
        <5>2. QED BY <1>2, <1>3, <5>1 DEF Arrived, Early
      <4>3. QED BY <1>3, <1>7, <2>3, <4>1, <4>2
    <3>2. CASE <<g, k>> # n
      <4>1. proc[<<g, k>>] # "none"
        BY <1>5, <2>3, <3>2
      <4>2. Arrived(g)'
        BY <1>7, <4>1 DEF FreshCommands
      <4>3. CASE g = f
        <5>1. k <= i
          BY <1>2, <1>3, <4>1, <4>3 DEF FreshCommands
        <5>2. cmd'[Parent[g]][2] = i + 1
          BY <1>3, <2>3, <4>3
        <5>3. QED BY <1>3, <4>2, <5>1, <5>2
      <4>4. CASE g # f
        <5>1. Parent[g] # d => pc'[Parent[g]] = pc[Parent[g]] /\ cmd'[Parent[g]] = cmd[Parent[g]]
          BY <1>6
        <5>2. Parent[g] = d => cmd'[Parent[g]][1] # g
          BY <2>3, <4>4
        <5>3. QED BY <4>1, <4>2, <5>1, <5>2 DEF FreshCommands
      <4>5. QED BY <4>3, <4>4
    <3>3. QED BY <3>1, <3>2
  <2>6. /\ IsFiniteSet(Unreaped(d)')
        /\ Cardinality(Unreaped(d)') = Cardinality(Unreaped(d))
        /\ \A b \in Dirs \ {d} : Unreaped(b)' = Unreaped(b)
    <3>1. \A q \in Procs \ {Root} : proc'[q] \in Busy <=> q = n \/ (q # p /\ proc[q] \in Busy)
      BY <2>3 DEF Busy
    <3>2. IsFiniteSet(Unreaped(d)) /\ proc[p] \in Busy /\ proc[n] \notin Busy
      BY <1>5, <2>2 DEF Accounted, Busy
    <3> HIDE DEF n
    <3>3. QED BY <1>5, <2>1, <3>1, <3>2, UnreapedReplaced
  <2>7. ASSUME NEW b \in Dirs PROVE Accounted(b)'
    <3>1. CASE b = d
      BY <1>2, <1>6, <1>8, <2>6, <3>1 DEF Accounted, Early
    <3>2. CASE b # d
      BY <1>2, <1>6, <2>6, <3>2, StaysAccounted
    <3>3. QED BY <3>1, <3>2
  <2>8. QED BY <1>1, <2>4, <2>5, <2>7
<1>9. CASE where # "cmd"
  <2>1. /\ cmd' = cmd
        /\ \A q \in Procs : proc'[q] = IF q = d /\ where = "done" THEN "zombie"
                                       ELSE IF q = p THEN "reaped" ELSE proc[q]
        /\ where = "done" => d \in failed'
    BY <1>4, <1>9 DEF TypeOK
  <2>2. Alive'
    BY <1>2, <1>3, <1>4, <1>5, <1>9, <2>1, AliveAfter DEF Pcs
  <2>3. FreshCommands'
    <3>1. \A g \in Files, k \in 1..4 : proc'[<<g, k>>] # "none" => proc[<<g, k>>] # "none"
      BY <1>5, <2>1
    <3>2. \A b \in Dirs : pc'[b] = "cmd" => pc[b] = "cmd"
      BY <1>6, <1>9
    <3>3. QED BY <1>7, <2>1, <3>1, <3>2, ZenonT(60) DEF FreshCommands
  <2>4. /\ IsFiniteSet(Unreaped(d)') /\ Cardinality(Unreaped(d)) \in Nat
        /\ Cardinality(Unreaped(d)') = Cardinality(Unreaped(d)) - 1
        /\ \A b \in Dirs \ {d} : Unreaped(b)' = Unreaped(b)
    <3>1. \A q \in Procs \ {Root} : proc'[q] \in Busy <=> q # p /\ proc[q] \in Busy
      BY <1>3, <1>5, <2>1 DEF Busy
    <3>2. IsFiniteSet(Unreaped(d)) /\ proc[p] \in Busy
      BY <1>5 DEF Accounted, Busy
    <3>3. QED BY <1>5, <3>1, <3>2, UnreapedReaped
  <2>5. ASSUME NEW b \in Dirs PROVE Accounted(b)'
    <3>1. CASE b = d
      <4>1. childCnt[d] \in Nat
        BY DEF TypeOK
      <4>2. QED BY <1>2, <1>6, <1>9, <2>1, <2>4, <3>1, <4>1 DEF Accounted, Early
    <3>2. CASE b # d
      BY <1>2, <1>6, <2>4, <3>2, StaysAccounted
    <3>3. QED BY <3>1, <3>2
  <2>6. QED BY <1>1, <2>2, <2>3, <2>5
<1>10. QED BY <1>8, <1>9

\* Seek and Write.
LEMMA OutputAccounts == ASSUME JInv, NEW d \in Dirs, Seek(d) \/ Write(d) PROVE JInv'
<1> USE Sorts DEF JInv, IInv
<1>1. IInv'
  BY SeekKeeps, WriteKeeps
<1>2. UNCHANGED <<unread, cmd, childCnt, proc, failed>>
  BY DEF Seek, Write, NextEntry, program_is_term, procVars
<1>3. PICK where \in {"write", "loop"} :
        pc[d] \in {"seek", "write"} /\ pc' = [pc EXCEPT ![d] = where]
  BY DEF Seek, Write, NextEntry, Goto
<1>4. \A b \in Dirs : pc'[b] = IF b = d THEN where ELSE pc[b]
  BY <1>3 DEF TypeOK
<1>5. Alive'
  BY <1>2, <1>3, <1>4 DEF Alive, InLine
<1>6. \A e \in Entries : Arrived(e) => Arrived(e)'
  BY <1>2, <1>4 DEF Arrived, Early
<1>7. FreshCommands'
  BY <1>2, <1>4, <1>6 DEF FreshCommands
<1>8. \A b \in Dirs : Unreaped(b)' = Unreaped(b)
  BY <1>2 DEF Unreaped
<1>9. ASSUME NEW b \in Dirs PROVE Accounted(b)'
  <2>1. CASE b = d
    BY <1>2, <1>3, <1>4, <1>8, <2>1 DEF Accounted, Early
  <2>2. CASE b # d
    BY <1>2, <1>4, <1>8, <2>2, StaysAccounted
  <2>3. QED BY <2>1, <2>2
<1>10. QED BY <1>1, <1>5, <1>7, <1>9

LEMMA WaitChildAccounts == ASSUME JInv, NEW d \in Dirs, WaitChild(d) PROVE JInv'
<1> USE Sorts DEF JInv, IInv
<1>1. IInv'
  BY OthersType, Quiet
<1>2. /\ pc[d] = "loop" /\ childCnt[d] > 0
      /\ childCnt' = [childCnt EXCEPT ![d] = @ - 1]
      /\ UNCHANGED <<pc, unread, cmd, failed>>
  BY DEF WaitChild
<1>3. PICK p \in Zombies(d) : proc' = [proc EXCEPT ![p] = "reaped"]
  BY DEF WaitChild
<1>4. p \in ChildrenOf(d) /\ p \in Procs /\ proc[p] = "zombie"
  BY Children DEF Zombies
<1>5. \A q \in Procs : proc'[q] = IF q = p THEN "reaped" ELSE proc[q]
  BY <1>3 DEF TypeOK
<1>6. Alive'
  BY <1>2, <1>4, <1>5 DEF Alive
<1>7. FreshCommands'
  <2>1. \A f \in Files, i \in 1..4 : proc'[<<f, i>>] # "none" => proc[<<f, i>>] # "none"
    BY <1>4, <1>5
  <2>2. QED BY <1>2, <2>1 DEF FreshCommands, Arrived
<1>8. /\ IsFiniteSet(Unreaped(d)') /\ Cardinality(Unreaped(d)) \in Nat
      /\ Cardinality(Unreaped(d)') = Cardinality(Unreaped(d)) - 1
      /\ \A b \in Dirs \ {d} : Unreaped(b)' = Unreaped(b)
  <2>1. \A q \in Procs \ {Root} : proc'[q] \in Busy <=> q # p /\ proc[q] \in Busy
    BY <1>5 DEF Busy
  <2>2. IsFiniteSet(Unreaped(d)) /\ proc[p] \in Busy
    BY <1>4 DEF Accounted, Busy
  <2>3. QED BY <1>4, <2>1, <2>2, UnreapedReaped
<1>9. ASSUME NEW b \in Dirs PROVE Accounted(b)'
  <2>1. CASE b = d
    <3>1. childCnt[d] \in Nat /\ childCnt'[d] = childCnt[d] - 1
      BY <1>2 DEF TypeOK
    <3>2. QED BY <1>2, <1>8, <2>1, <3>1 DEF Accounted, Early
  <2>2. CASE b # d
    <3>1. childCnt'[b] = childCnt[b]
      BY <1>2, <2>2 DEF TypeOK
    <3>2. QED BY <1>2, <1>8, <2>2, <3>1, StaysAccounted
  <2>3. QED BY <2>1, <2>2
<1>10. QED BY <1>1, <1>6, <1>7, <1>9

\* Commands, signals and the shell change no process from unreaped to reaped or
\* back but the root's.
LEMMA OthersAccount ==
    ASSUME JInv,
           \/ \E c \in Commands : CommandStep(c)
           \/ Deliver \/ Interrupt \/ ShellReaps \/ UNCHANGED vars
    PROVE  JInv'
<1> USE Sorts DEF JInv, IInv
<1>1. IInv'
  BY OthersType, Quiet
<1>2. UNCHANGED <<pc, unread, cmd, childCnt>> /\ failed \subseteq failed'
  BY DEF CommandStep, CommandWrites, CommandExits, Deliver, Interrupt, ShellReaps,
         vars, scanVars, procVars
<1>3. \A p \in Procs : \/ proc'[p] = proc[p]
                       \/ p \in Commands /\ proc[p] \in {"running", "wrote"}
                            /\ proc'[p] \in {"wrote", "zombie"}
                       \/ p = Root /\ proc[Root] = "zombie" /\ proc'[Root] = "reaped"
  <2>1. ASSUME NEW c \in Commands, CommandStep(c) PROVE <1>3!:
    BY <2>1 DEF CommandStep, CommandWrites, CommandExits, TypeOK
  <2>2. CASE Interrupt
    BY <2>2 DEF Interrupt, TypeOK
  <2>3. CASE ShellReaps
    BY <2>3 DEF ShellReaps, TypeOK
  <2>4. CASE Deliver \/ UNCHANGED vars
    BY <2>4 DEF Deliver, vars, procVars
  <2>5. QED BY <2>1, <2>2, <2>3, <2>4
<1>4. Alive'
  <2>1. \A d \in Dirs : proc[d] \in {"none", "running"} => proc'[d] = proc[d]
    BY <1>3
  <2>2. QED BY <1>2, <2>1 DEF Alive
<1>5. FreshCommands'
  <2>1. \A f \in Files, i \in 1..4 : proc'[<<f, i>>] # "none" => proc[<<f, i>>] # "none"
    BY <1>3
  <2>2. QED BY <1>2, <2>1 DEF FreshCommands, Arrived
<1>6. \A b \in Dirs : Unreaped(b)' = Unreaped(b)
  BY <1>3, Children DEF Unreaped
<1>7. \A b \in Dirs : Accounted(b)'
  BY <1>2, <1>6, StaysAccounted
<1>8. QED BY <1>1, <1>4, <1>5, <1>7

LEMMA AccountsInductive == JInv /\ [Next]_vars => JInv'
<1> SUFFICES ASSUME JInv, [Next]_vars PROVE JInv'
  OBVIOUS
<1>1. CASE Main
  BY <1>1, MainAccounts
<1>2. ASSUME NEW d \in Dirs, Scan(d) PROVE JInv'
  <2>1. CASE Enter(d)
    BY <2>1, EnterAccounts
  <2>2. CASE EntryGone(d)
    BY <2>2, LeavingAccounts DEF EntryGone
  <2>3. CASE Subdirectory(d)
    BY <2>3, SubdirectoryAccounts
  <2>4. CASE RegularFile(d)
    BY <2>4, RegularFileAccounts
  <2>5. CASE CollectCommand(d)
    BY <2>5, CollectAccounts
  <2>6. CASE Seek(d) \/ Write(d)
    BY <2>6, OutputAccounts
  <2>7. CASE WaitChild(d)
    BY <2>7, WaitChildAccounts
  <2>8. CASE ScanEnds(d)
    BY <2>8, LeavingAccounts DEF ScanEnds
  <2>9. QED BY <1>2, <2>1, <2>2, <2>3, <2>4, <2>5, <2>6, <2>7, <2>8 DEF Scan
<1>3. CASE \/ \E c \in Commands : CommandStep(c)
           \/ Deliver \/ Interrupt \/ ShellReaps \/ UNCHANGED vars
  BY <1>3, OthersAccount
<1>4. QED BY <1>1, <1>2, <1>3 DEF Next

\* In every tree, whatever fails and whichever child each wait takes
\* (forensic.c:61, 336), a scanning process has as many children as waits to
\* come, and one that ends well leaves none behind.
THEOREM WaitsMatchChildren == Spec => []ChildrenAccounted
<1>1. JInv => ChildrenAccounted
  BY DEF JInv, Accounted, ChildrenAccounted
<1>2. QED BY <1>1, InitialAccounts, AccountsInductive, PTL DEF Spec

-----------------------------------------------------------------------------
(* The root's counters.                                                    *)

Scanned == {d \in Dirs : pc[d] \notin Early}
Examined == {f \in Files : proc[<<f, 1>>] # "none"}
\* The signals of a kind that the root has handled or will.
Counted(signo, cnt) == cnt + Cardinality(pending \cap {signo})
CountedDirs == Counted("USR1", dir_cnt)
CountedFiles == Counted("USR2", file_cnt)
OthersIdle == \A d \in Dirs \ {Root} : pc[d] = "none"

\* Before the options are parsed nothing has happened.
Fresh ==
    pc[Root] = "main" =>
        /\ opt = NoOptions
        /\ Scanned = {} /\ Examined = {} /\ OthersIdle /\ pending = {}
        /\ CountedDirs = 0 /\ CountedFiles = 0

NoneTooMany ==
    /\ CountedDirs <= Cardinality(Scanned)
    /\ CountedFiles <= Cardinality(Examined)

\* Without -r the root is the only process that scans, so no signal is lost.
Alone ==
    opt.output /\ ~opt.check_subdir =>
        /\ OthersIdle /\ pending = {}
        /\ CountedDirs = Cardinality(Scanned)
        /\ CountedFiles = Cardinality(Examined)

KInv == JInv /\ Fresh /\ NoneTooMany /\ Alone

\* The first command on each file.
LEMMA FirstCommand == \A f \in Files : <<f, 1>> \in Commands /\ <<f, 1>> \in Procs \ Dirs
<1>1. 1 \in 1..4
  OBVIOUS
<1>2. \A f \in Files : <<f, 1>> \in Commands
  BY <1>1, Sorts
<1>3. QED BY <1>2, Sorts

LEMMA Finite ==
    /\ IsFiniteSet(Scanned) /\ Cardinality(Scanned) \in Nat
    /\ IsFiniteSet(Examined) /\ Cardinality(Examined) \in Nat
<1>1. Scanned \subseteq Dirs /\ Examined \subseteq Files
  BY DEF Scanned, Examined
<1>2. QED BY <1>1, TreeAssumption, FS_Subset, FS_CardinalityType

\* A signal is pending once or not at all.
LEMMA PendingOnce ==
    \A signo : Cardinality(pending \cap {signo}) = IF signo \in pending THEN 1 ELSE 0
<1> SUFFICES ASSUME NEW signo
             PROVE  Cardinality(pending \cap {signo}) = IF signo \in pending THEN 1 ELSE 0
  OBVIOUS
<1>1. CASE signo \in pending
  <2>1. pending \cap {signo} = {signo}
    BY <1>1
  <2>2. QED BY <1>1, <2>1, FS_Singleton
<1>2. CASE signo \notin pending
  <2>1. pending \cap {signo} = {}
    BY <1>2
  <2>2. QED BY <1>2, <2>1, FS_EmptySet
<1>3. QED BY <1>1, <1>2

\* The same, in the next state.
LEMMA PendingOnceThen ==
    \A signo : Cardinality(pending' \cap {signo}) = IF signo \in pending' THEN 1 ELSE 0
<1> SUFFICES ASSUME NEW signo
             PROVE  Cardinality(pending' \cap {signo}) = IF signo \in pending' THEN 1 ELSE 0
  OBVIOUS
<1>1. CASE signo \in pending'
  <2>1. pending' \cap {signo} = {signo}
    BY <1>1
  <2>2. QED BY <1>1, <2>1, FS_Singleton
<1>2. CASE signo \notin pending'
  <2>1. pending' \cap {signo} = {}
    BY <1>2
  <2>2. QED BY <1>2, <2>1, FS_EmptySet
<1>3. QED BY <1>1, <1>2

LEMMA CountedTypes == TypeOK => CountedDirs \in Nat /\ CountedFiles \in Nat
<1>1. /\ Cardinality(pending \cap {"USR1"}) \in {0, 1}
      /\ Cardinality(pending \cap {"USR2"}) \in {0, 1}
  BY PendingOnce
<1>2. QED BY <1>1 DEF TypeOK, CountedDirs, CountedFiles, Counted

\* A signal is counted at most once; the root's own is, while it runs and has
\* an output file.
LEMMA SignalCounts ==
    ASSUME TypeOK, NEW d \in Dirs, NEW signo \in Signals, Signal(d, signo)
    PROVE  /\ CountedDirs' \in CountedDirs..(CountedDirs + IF signo = "USR1" THEN 1 ELSE 0)
           /\ CountedFiles' \in CountedFiles..(CountedFiles + IF signo = "USR2" THEN 1 ELSE 0)
           /\ d = Root /\ opt.output /\ proc[Root] = "running" /\ pending = {} =>
                 /\ pending' = {}
                 /\ CountedDirs' = CountedDirs + IF signo = "USR1" THEN 1 ELSE 0
                 /\ CountedFiles' = CountedFiles + IF signo = "USR2" THEN 1 ELSE 0
<1> USE PendingOnce, PendingOnceThen DEF CountedDirs, CountedFiles, Counted
<1>0. dir_cnt \in Nat /\ file_cnt \in Nat /\ signo \in {"USR1", "USR2"}
  BY DEF TypeOK, Signals
<1>1. CASE ~opt.output \/ proc[Root] # "running"
  BY <1>0, <1>1 DEF Signal, sigVars
<1>2. CASE ~(~opt.output \/ proc[Root] # "running") /\ d = Root
  <2>1. /\ dir_cnt' = IF signo = "USR1" THEN dir_cnt + 1 ELSE dir_cnt
        /\ file_cnt' = IF signo = "USR2" THEN file_cnt + 1 ELSE file_cnt
        /\ pending' = pending \ {signo}
    BY <1>2 DEF Signal, usr_signal_handler
  <2>2. QED BY <1>0, <2>1
<1>3. CASE ~(~opt.output \/ proc[Root] # "running") /\ d # Root
  BY <1>0, <1>3 DEF Signal
<1>4. QED BY <1>1, <1>2, <1>3

\* A step that signals nothing and after which no further directory is scanned
\* or file examined.
LEMMA StillCounted ==
    ASSUME KInv, UNCHANGED <<sigVars, opt>>,
           Scanned' = Scanned, Examined' = Examined,
           pc'[Root] = "main" => pc[Root] = "main",
           ~opt.check_subdir /\ OthersIdle => OthersIdle'
    PROVE  Fresh' /\ NoneTooMany' /\ Alone'
<1>1. CountedDirs' = CountedDirs /\ CountedFiles' = CountedFiles
  BY DEF sigVars, CountedDirs, CountedFiles, Counted
<1>2. QED BY <1>1 DEF KInv, Fresh, NoneTooMany, Alone, NoOptions, sigVars

LEMMA InitialCounts == Init => KInv
<1> SUFFICES ASSUME Init PROVE KInv
  OBVIOUS
<1>1. JInv
  BY InitialAccounts
<1>2. Scanned = {} /\ Examined = {} /\ OthersIdle
  BY Sorts, FirstCommand DEF Init, Scanned, Examined, OthersIdle, Early
<1>3. CountedDirs = 0 /\ CountedFiles = 0 /\ Cardinality({}) = 0
  BY PendingOnce, FS_EmptySet DEF Init, CountedDirs, CountedFiles, Counted
<1>4. QED BY <1>1, <1>2, <1>3 DEF Init, KInv, Fresh, NoneTooMany, Alone

LEMMA MainCounts == KInv /\ Main => KInv'
<1> SUFFICES ASSUME KInv, Main PROVE KInv'
  OBVIOUS
<1> USE Sorts DEF KInv, JInv, IInv
<1>1. JInv'
  BY MainAccounts
<1>2. PICK where \in {"enter", "done"} :
        /\ pc' = [pc EXCEPT ![Root] = where]
        /\ where = "done" => proc' = [proc EXCEPT ![Root] = "zombie"] /\ opt' = opt
        /\ where = "enter" => proc' = proc
  BY DEF Main, Leave, Goto, procVars
<1>3. /\ pc[Root] = "main" /\ pending' = pending
      /\ CountedDirs' = CountedDirs /\ CountedFiles' = CountedFiles
  BY DEF Main, sigVars, CountedDirs, CountedFiles, Counted
<1>4. /\ \A d \in Dirs : pc'[d] = IF d = Root THEN where ELSE pc[d]
      /\ \A p \in Procs \ {Root} : proc'[p] = proc[p]
  BY <1>2 DEF TypeOK
<1>5. Examined' = {} /\ OthersIdle'
  BY <1>3, <1>4, FirstCommand DEF Fresh, Examined, OthersIdle
<1>6. where = "enter" => Scanned' = {}
  BY <1>3, <1>4 DEF Fresh, Scanned, Early
<1>7. Cardinality({}) = 0 /\ Cardinality(Scanned)' \in Nat
  <2>1. Scanned' \subseteq Dirs
    BY DEF Scanned
  <2>2. QED BY <2>1, TreeAssumption, FS_Subset, FS_CardinalityType, FS_EmptySet
<1>8. Fresh' /\ NoneTooMany'
  BY <1>3, <1>4, <1>5, <1>7 DEF Fresh, NoneTooMany
<1>9. Alone'
  <2>1. CASE where = "enter"
    BY <1>3, <1>5, <1>6, <1>7, <2>1 DEF Fresh, Alone
  <2>2. CASE where = "done"
    BY <1>2, <1>3, <2>2 DEF Fresh, Alone, NoOptions
  <2>3. QED BY <2>1, <2>2
<1>10. QED BY <1>1, <1>8, <1>9

LEMMA EnterCounts == ASSUME KInv, NEW d \in Dirs, Enter(d) PROVE KInv'
<1> USE Sorts DEF KInv, JInv, IInv
<1>1. JInv'
  BY EnterAccounts
<1>2. pc[d] = "enter" /\ opt' = opt /\ proc[d] = "running"
  BY DEF Enter, envVars, Alive
<1>3. PICK where \in {"loop", "done"} :
        /\ pc' = [pc EXCEPT ![d] = where]
        /\ proc' = IF where = "done" THEN [proc EXCEPT ![d] = "zombie"] ELSE proc
  BY DEF Enter, Leave, Goto, procVars
<1>4. /\ \A b \in Dirs : pc'[b] = IF b = d THEN where ELSE pc[b]
      /\ \A p \in Procs \ {d} : proc'[p] = proc[p]
  BY <1>3 DEF TypeOK
<1>5. Scanned' = Scanned \cup {d} /\ d \notin Scanned /\ Examined' = Examined
  <2>1. Scanned' = Scanned \cup {d} /\ d \notin Scanned
    BY <1>2, <1>4 DEF Scanned, Early
  <2>2. Examined' = Examined
    BY <1>4, FirstCommand DEF Examined
  <2>3. QED BY <2>1, <2>2
<1>6. Cardinality(Scanned') = Cardinality(Scanned) + 1
  BY <1>5, Finite, FS_AddElement
<1>7. /\ CountedDirs' \in CountedDirs..(CountedDirs + 1)
      /\ CountedFiles' = CountedFiles
      /\ d = Root /\ opt.output /\ pending = {} => pending' = {} /\ CountedDirs' = CountedDirs + 1
  <2>1. CountedDirs \in Nat /\ CountedFiles \in Nat
    BY CountedTypes
  <2>2. CASE UNCHANGED sigVars /\ KillFails
    BY <1>2, <2>1, <2>2 DEF KillFails, sigVars, CountedDirs, CountedFiles, Counted
  <2>3. CASE Signal(d, "USR1")
    BY <1>2, <2>1, <2>3, SignalCounts DEF Signals
  <2>4. QED BY <2>2, <2>3 DEF Enter
<1>8. /\ CountedDirs \in Nat /\ CountedFiles \in Nat
      /\ Cardinality(Scanned) \in Nat /\ Cardinality(Examined) \in Nat
  BY CountedTypes, Finite
<1>9. Fresh' /\ NoneTooMany'
  BY <1>2, <1>4, <1>5, <1>6, <1>7, <1>8 DEF Fresh, NoneTooMany, OthersIdle
<1>10. Alone'
  <2>1. SUFFICES ASSUME opt.output, ~opt.check_subdir
                 PROVE  /\ OthersIdle' /\ pending' = {}
                        /\ CountedDirs' = Cardinality(Scanned')
                        /\ CountedFiles' = Cardinality(Examined')
    BY <1>2 DEF Alone
  <2>2. d = Root
    BY <1>2, <2>1 DEF Alone, OthersIdle
  <2>3. QED BY <1>4, <1>5, <1>6, <1>7, <2>1, <2>2 DEF Alone, OthersIdle
<1>11. QED BY <1>1, <1>9, <1>10

LEMMA RegularFileCounts == ASSUME KInv, NEW d \in Dirs, RegularFile(d) PROVE KInv'
<1> USE Sorts DEF KInv, JInv, IInv
<1>1. JInv'
  BY RegularFileAccounts
<1>2. PICK f \in (unread[d] \cap Files) \ faults.gone :
        IF KillFails
        THEN UNCHANGED <<pc, cmd, full, proc, sigVars>>
        ELSE /\ Signal(d, "USR2")
             /\ Run(d, f, 1)
             /\ proc' = [proc EXCEPT ![<<f, 1>>] = "running"]
  BY DEF RegularFile
<1>3. pc[d] = "loop" /\ opt' = opt /\ proc[d] = "running"
  BY DEF RegularFile, envVars, Alive
<1>4. f \in Files /\ Parent[f] = d /\ proc[<<f, 1>>] = "none"
  <2>1. f \in Files /\ f \in EntriesOf(d) /\ f \in unread[d]
    BY DEF Placed
  <2>2. Parent[f] = d /\ 1 \in 1..4
    BY <2>1 DEF EntriesOf
  <2>3. QED BY <2>1, <2>2 DEF FreshCommands, Arrived
<1>5. CASE KillFails
  <2>1. UNCHANGED <<pc, proc, sigVars>>
    BY <1>2, <1>5
  <2>2. QED BY <1>1, <1>3, <2>1, StillCounted DEF Scanned, Examined, OthersIdle
<1>6. CASE ~KillFails
  <2>1. /\ Signal(d, "USR2") /\ pc' = [pc EXCEPT ![d] = "cmd"]
        /\ proc' = [proc EXCEPT ![<<f, 1>>] = "running"]
    BY <1>2, <1>6 DEF Run, Goto
  <2>2. \A b \in Dirs : pc'[b] = IF b = d THEN "cmd" ELSE pc[b]
    BY <2>1 DEF TypeOK
  <2>3. \A g \in Files : proc'[<<g, 1>>] = IF g = f THEN "running" ELSE proc[<<g, 1>>]
    <3>1. proc \in [Procs -> States]
      BY DEF TypeOK
    <3>2. QED BY <2>1, <3>1, FirstCommand
  <2>4. Scanned' = Scanned
    BY <1>3, <2>2 DEF Scanned, Early
  <2>5. Examined' = Examined \cup {f} /\ f \notin Examined
    BY <1>4, <2>3 DEF Examined
  <2>6. Cardinality(Examined') = Cardinality(Examined) + 1
    BY <2>5, Finite, FS_AddElement
  <2>7. /\ CountedDirs \in Nat /\ CountedFiles \in Nat
        /\ Cardinality(Scanned) \in Nat /\ Cardinality(Examined) \in Nat
    BY CountedTypes, Finite
  <2>8. /\ CountedFiles' \in CountedFiles..(CountedFiles + 1)
        /\ CountedDirs' = CountedDirs
        /\ d = Root /\ opt.output /\ pending = {} => pending' = {} /\ CountedFiles' = CountedFiles + 1
    BY <1>3, <2>1, <2>7, SignalCounts DEF Signals
  <2>9. Fresh' /\ NoneTooMany'
    <3>1. pc'[Root] # "main"
      BY <1>3, <2>2, <2>4 DEF Fresh, Scanned, Early
    <3>2. QED BY <2>4, <2>6, <2>7, <2>8, <3>1 DEF Fresh, NoneTooMany
  <2>10. Alone'
    <3>1. SUFFICES ASSUME opt.output, ~opt.check_subdir
                   PROVE  /\ OthersIdle' /\ pending' = {}
                          /\ CountedDirs' = Cardinality(Scanned')
                          /\ CountedFiles' = Cardinality(Examined')
      BY <1>3 DEF Alone
    <3>2. d = Root
      BY <1>3, <3>1 DEF Alone, OthersIdle
    <3>3. QED BY <2>2, <2>4, <2>6, <2>8, <3>1, <3>2 DEF Alone, OthersIdle
  <2>11. QED BY <1>1, <2>9, <2>10
<1>7. QED BY <1>5, <1>6

LEMMA SubdirectoryCounts == ASSUME KInv, NEW d \in Dirs, Subdirectory(d) PROVE KInv'
<1> USE Sorts DEF KInv, JInv, IInv
<1>1. JInv'
  BY SubdirectoryAccounts
<1>2. PICK e \in unread[d] \cap Dirs :
        IF opt.check_subdir
        THEN proc' = [proc EXCEPT ![e] = "running"] /\ pc' = [pc EXCEPT ![e] = "enter"]
        ELSE UNCHANGED <<proc, pc>>
  BY DEF Subdirectory, Goto
<1>3. pc[d] = "loop" /\ opt' = opt /\ UNCHANGED sigVars
  BY DEF Subdirectory, envVars
<1>4. e \in Dirs \ {Root} /\ pc[e] = "none"
  <2>1. e \in Entries /\ Parent[e] = d /\ e # Root
    BY DEF Placed, EntriesOf
  <2>2. QED BY <2>1 DEF FreshDirs, Arrived
<1>5. /\ \A b \in Dirs : pc'[b] = pc[b] \/ (b = e /\ opt.check_subdir /\ pc'[b] = "enter")
      /\ \A p \in Procs \ Dirs : proc'[p] = proc[p]
  BY <1>2 DEF TypeOK
<1>6. Scanned' = Scanned
  BY <1>4, <1>5 DEF Scanned, Early
<1>7. Examined' = Examined
  BY <1>5, FirstCommand DEF Examined
<1>8. /\ pc'[Root] = "main" => pc[Root] = "main"
      /\ ~opt.check_subdir /\ OthersIdle => OthersIdle'
  BY <1>5 DEF OthersIdle
<1>9. QED BY <1>1, <1>3, <1>6, <1>7, <1>8, StillCounted

\* The steps of d's process after which the same directories have been scanned
\* and the same files examined.
LEMMA PlainStep ==
    ASSUME KInv, JInv', NEW d \in Dirs, UNCHANGED <<sigVars, opt>>,
           \/ EntryGone(d) \/ CollectCommand(d) \/ Seek(d) \/ Write(d)
           \/ WaitChild(d) \/ ScanEnds(d)
    PROVE  KInv'
<1> USE Sorts DEF KInv, JInv, IInv
<1>1. PICK where \in {"loop", "cmd", "seek", "write", "done"} :
        pc[d] \in {"loop", "cmd", "seek", "write"} /\ pc' = [pc EXCEPT ![d] = where]
  <2>1. pc[d] \in {"loop", "cmd", "seek", "write"}
    BY DEF EntryGone, CollectCommand, Seek, Write, WaitChild, ScanEnds
  <2>2. pc' = pc => pc' = [pc EXCEPT ![d] = pc[d]]
    BY DEF TypeOK
  <2>3. \/ pc' = pc
        \/ \E where \in {"loop", "cmd", "seek", "write", "done"} : pc' = [pc EXCEPT ![d] = where]
    BY DEF EntryGone, CollectCommand, Seek, Write, WaitChild, ScanEnds, Leave, Goto,
           NextEntry, Run
  <2>4. QED BY <2>1, <2>2, <2>3
<1>2. \A b \in Dirs : pc'[b] = IF b = d THEN where ELSE pc[b]
  BY <1>1 DEF TypeOK
<1>3. Scanned' = Scanned /\ (OthersIdle => OthersIdle') /\ (pc'[Root] = "main" => pc[Root] = "main")
  BY <1>1, <1>2 DEF Scanned, OthersIdle, Early
<1>4. \A f \in Files : proc'[<<f, 1>>] # "none" <=> proc[<<f, 1>>] # "none"
  <2>1. CASE EntryGone(d) \/ ScanEnds(d)
    <3>1. \A p \in Procs \ Dirs : proc'[p] = proc[p]
      BY <2>1 DEF EntryGone, ScanEnds, Leave, TypeOK
    <3>2. QED BY <3>1, FirstCommand
  <2>2. CASE Seek(d) \/ Write(d)
    BY <2>2 DEF Seek, Write, procVars
  <2>3. CASE WaitChild(d)
    <3>1. PICK p \in Zombies(d) : proc' = [proc EXCEPT ![p] = "reaped"]
      BY <2>3 DEF WaitChild
    <3>2. \A q \in Procs : proc'[q] = proc[q] \/ (proc[q] = "zombie" /\ proc'[q] = "reaped")
      BY <3>1 DEF TypeOK, Zombies
    <3>3. QED BY <3>2, FirstCommand
  <2>4. CASE CollectCommand(d)
    <3>1. PICK p \in Zombies(d) :
            LET reaped == [proc EXCEPT ![p] = "reaped"]
                n == <<cmd[d][1], cmd[d][2] + 1>>
            IN \/ proc' = reaped
               \/ proc' = [reaped EXCEPT ![n] = "running"]
               \/ proc' = [reaped EXCEPT ![d] = "zombie"]
      BY <2>4 DEF CollectCommand
    <3>2. cmd[d][2] \in 1..4
      BY <2>4 DEF CollectCommand, Placed, InLine
    <3>3. \A f \in Files : <<f, 1>> # <<cmd[d][1], cmd[d][2] + 1>>
      BY <3>2
    <3>4. \A q \in Procs : q # <<cmd[d][1], cmd[d][2] + 1>> /\ q # d =>
            proc'[q] = proc[q] \/ (proc[q] = "zombie" /\ proc'[q] = "reaped")
      BY <3>1 DEF TypeOK, Zombies
    <3>5. QED BY <3>3, <3>4, FirstCommand
  <2>5. QED BY <2>1, <2>2, <2>3, <2>4
<1>5. Examined' = Examined
  BY <1>4 DEF Examined
<1>6. QED BY <1>3, <1>5, StillCounted

LEMMA OthersCount ==
    ASSUME KInv,
           \/ \E c \in Commands : CommandStep(c)
           \/ Deliver \/ Interrupt \/ ShellReaps \/ UNCHANGED vars
    PROVE  KInv'
<1> USE Sorts DEF KInv, JInv, IInv
<1>1. JInv'
  BY OthersAccount
<1>2. UNCHANGED <<pc, opt>>
  BY DEF CommandStep, CommandWrites, CommandExits, Deliver, Interrupt, ShellReaps,
         vars, scanVars, envVars
<1>3. \A p \in Procs \ Dirs : proc'[p] # "none" <=> proc[p] # "none"
  <2>1. ASSUME NEW c \in Commands, CommandStep(c) PROVE <1>3!:
    BY <2>1 DEF CommandStep, CommandWrites, CommandExits, TypeOK
  <2>2. CASE Interrupt
    BY <2>2 DEF Interrupt, TypeOK
  <2>3. CASE ShellReaps
    BY <2>3 DEF ShellReaps, TypeOK
  <2>4. CASE Deliver \/ UNCHANGED vars
    BY <2>4 DEF Deliver, vars, procVars
  <2>5. QED BY <2>1, <2>2, <2>3, <2>4
<1>4. Examined' = Examined /\ Scanned' = Scanned /\ OthersIdle' = OthersIdle
  <2>1. Examined' = Examined
    BY <1>3, FirstCommand DEF Examined
  <2>2. QED BY <1>2, <2>1 DEF Scanned, OthersIdle
<1>5. CASE UNCHANGED sigVars
  BY <1>1, <1>2, <1>4, <1>5, StillCounted
<1>6. CASE Deliver
  <2>1. PICK signo \in pending : usr_signal_handler(signo)
    BY <1>6 DEF Deliver
  <2>2. CountedDirs' = CountedDirs /\ CountedFiles' = CountedFiles
    <3>1. /\ dir_cnt \in Nat /\ file_cnt \in Nat /\ signo \in {"USR1", "USR2"}
          /\ pending' = pending \ {signo}
          /\ dir_cnt' = IF signo = "USR1" THEN dir_cnt + 1 ELSE dir_cnt
          /\ file_cnt' = IF signo = "USR2" THEN file_cnt + 1 ELSE file_cnt
      BY <2>1 DEF TypeOK, Signals, usr_signal_handler
    <3>2. QED BY <3>1, PendingOnce, PendingOnceThen DEF CountedDirs, CountedFiles, Counted
  <2>3. Fresh' /\ NoneTooMany' /\ Alone'
    BY <1>2, <1>4, <2>1, <2>2 DEF Fresh, NoneTooMany, Alone, NoOptions
  <2>4. QED BY <1>1, <2>3
<1>7. QED
  BY <1>5, <1>6 DEF CommandStep, CommandWrites, CommandExits, Interrupt, ShellReaps, vars

LEMMA CountsInductive == KInv /\ [Next]_vars => KInv'
<1> SUFFICES ASSUME KInv, [Next]_vars PROVE KInv'
  OBVIOUS
<1>1. CASE Main
  BY <1>1, MainCounts
<1>2. ASSUME NEW d \in Dirs, Scan(d) PROVE KInv'
  <2>1. CASE Enter(d)
    BY <2>1, EnterCounts
  <2>2. CASE Subdirectory(d)
    BY <2>2, SubdirectoryCounts
  <2>3. CASE RegularFile(d)
    BY <2>3, RegularFileCounts
  <2>4. CASE \/ EntryGone(d) \/ CollectCommand(d) \/ Seek(d) \/ Write(d)
             \/ WaitChild(d) \/ ScanEnds(d)
    <3>1. JInv'
      BY <1>2, AccountsInductive DEF Next, KInv
    <3>2. UNCHANGED <<sigVars, opt>>
      BY <2>4 DEF EntryGone, CollectCommand, Seek, Write, WaitChild, ScanEnds, envVars
    <3>3. QED BY <2>4, <3>1, <3>2, PlainStep
  <2>5. QED BY <1>2, <2>1, <2>2, <2>3, <2>4 DEF Scan
<1>3. CASE \/ \E c \in Commands : CommandStep(c)
           \/ Deliver \/ Interrupt \/ ShellReaps \/ UNCHANGED vars
  BY <1>3, OthersCount
<1>4. QED BY <1>1, <1>2, <1>3 DEF Next

\* The root's counters and what is pending for them never exceed the directories
\* and files met, whenever the signals are handled and although signals of a kind
\* coalesce (forensic.c:125, 273, 350); without -r they are exact.
THEOREM CountersSound == Spec => []CountsSound
<1>1. KInv => CountsSound
  BY DEF KInv, NoneTooMany, Alone, CountsSound, CountedDirs, CountedFiles, Counted,
         Scanned, Examined, Early
<1>2. QED BY <1>1, InitialCounts, CountsInductive, PTL DEF Spec

-----------------------------------------------------------------------------
(* The lines that are missing.                                             *)

\* The files of the report, and those of a directory that are over without a
\* line, the skipped ones apart.
Written == {out[i].file : i \in DOMAIN out}
Lost(d) == {f \in Files : Parent[f] = d /\ Over(f) /\ f \notin Written \cup skipped}
\* The children that failed and that a wait has taken.
Paid(d) == {p \in ChildrenOf(d) \cap failed : proc[p] = "reaped"}

\* While the process scans, and when it ended well, a lost line is paid for.
Owing(d) == pc[d] = "loop" \/ pc[d] \in InLine \/ (pc[d] = "done" /\ d \notin failed)
Pays(d) == Owing(d) => Cardinality(Lost(d)) <= Cardinality(Paid(d))
ReadAll(d) == pc[d] = "done" /\ d \notin failed => unread[d] = {}

\* A line that lacks a checksum, in the making or written, has its culprit.
Lacks(f) == \E c \in silent : c[1] = f
LineLacks(d) == pc[d] \in InLine /\ ~full[d] => Lacks(cmd[d][1])
ReportLacks == \A i \in DOMAIN out : ~out[i].full => Lacks(out[i].file)

LInv ==
    /\ JInv
    /\ \A d \in Dirs : Pays(d) /\ ReadAll(d) /\ LineLacks(d)
    /\ ReportLacks

LEMMA LostFinite ==
    \A d \in Dirs : /\ IsFiniteSet(Lost(d)) /\ Cardinality(Lost(d)) \in Nat
                    /\ IsFiniteSet(Lost(d)') /\ Cardinality(Lost(d)') \in Nat
<1> SUFFICES ASSUME NEW d \in Dirs
             PROVE  /\ IsFiniteSet(Lost(d)) /\ Cardinality(Lost(d)) \in Nat
                    /\ IsFiniteSet(Lost(d)') /\ Cardinality(Lost(d)') \in Nat
  OBVIOUS
<1>1. Lost(d) \subseteq Files /\ Lost(d)' \subseteq Files
  BY DEF Lost
<1>2. QED BY <1>1, TreeAssumption, FS_Subset, FS_CardinalityType

LEMMA ChildrenFinite == \A d \in Dirs : IsFiniteSet(ChildrenOf(d))
<1> SUFFICES ASSUME NEW d \in Dirs PROVE IsFiniteSet(ChildrenOf(d))
  OBVIOUS
<1>1. IsFiniteSet(1..4)
  <2>1. 1 \in Int /\ 4 \in Int
    OBVIOUS
  <2>2. QED BY <2>1, FS_Interval, Zenon
<1>2. IsFiniteSet(Commands)
  BY <1>1, TreeAssumption, FS_Product DEF Commands
<1>3. IsFiniteSet(Dirs \cup Commands)
  BY <1>2, TreeAssumption, FS_Union
<1>4. ChildrenOf(d) \subseteq Dirs \cup Commands
  BY DEF ChildrenOf
<1>5. QED BY <1>3, <1>4, FS_Subset

LEMMA PaidFinite ==
    \A d \in Dirs : /\ IsFiniteSet(Paid(d)) /\ Cardinality(Paid(d)) \in Nat
                    /\ IsFiniteSet(Paid(d)') /\ Cardinality(Paid(d)') \in Nat
<1> SUFFICES ASSUME NEW d \in Dirs
             PROVE  /\ IsFiniteSet(Paid(d)) /\ Cardinality(Paid(d)) \in Nat
                    /\ IsFiniteSet(Paid(d)') /\ Cardinality(Paid(d)') \in Nat
  OBVIOUS
<1>1. Paid(d) \subseteq ChildrenOf(d) /\ Paid(d)' \subseteq ChildrenOf(d)
  BY DEF Paid, ChildrenOf, EntriesOf
<1>2. QED BY <1>1, ChildrenFinite, FS_Subset, FS_CardinalityType

\* What failed, fell silent, was skipped, reaped or written stays so.
Grown ==
    /\ failed \subseteq failed' /\ silent \subseteq silent' /\ skipped \subseteq skipped'
    /\ \A p \in Procs : proc[p] = "reaped" => proc'[p] = "reaped"
    /\ Written \subseteq Written'

\* A directory where no line more is lost still pays.
LEMMA NoMoreLost ==
    ASSUME Grown, NEW b \in Dirs, Pays(b), Owing(b)' => Owing(b), Lost(b)' \subseteq Lost(b)
    PROVE  Pays(b)'
<1> SUFFICES ASSUME Owing(b)' PROVE Cardinality(Lost(b)') <= Cardinality(Paid(b)')
  BY DEF Pays
<1>1. Cardinality(Lost(b)') <= Cardinality(Lost(b))
  BY LostFinite, FS_Subset
<1>2. Cardinality(Paid(b)) <= Cardinality(Paid(b)')
  <2>1. Paid(b) \subseteq Paid(b)'
    BY Children DEF Paid, Grown, ChildrenOf, EntriesOf
  <2>2. QED BY <2>1, PaidFinite, FS_Subset
<1>3. Cardinality(Lost(b)) <= Cardinality(Paid(b))
  BY DEF Pays
<1>4. QED BY <1>1, <1>2, <1>3, LostFinite, PaidFinite

\* A directory whose process does not step.
LEMMA BystanderPays ==
    ASSUME Grown, NEW b \in Dirs, Pays(b), ReadAll(b), LineLacks(b),
           pc'[b] = pc[b], unread'[b] = unread[b], cmd'[b] = cmd[b], full'[b] = full[b]
    PROVE  Pays(b)' /\ ReadAll(b)' /\ LineLacks(b)'
<1>1. Lost(b)' \subseteq Lost(b)
  BY DEF Lost, Over, Arrived, Grown
<1>2. Owing(b)' => Owing(b)
  BY Sorts DEF Owing, Grown
<1>3. ReadAll(b)' /\ LineLacks(b)'
  BY DEF ReadAll, LineLacks, Lacks, Grown
<1>4. QED BY <1>1, <1>2, <1>3, NoMoreLost

\* A command that has not been forked, and the root before its end, are not reaped.
LEMMA NothingForgotten == JInv /\ [Next]_vars => Grown
<1> SUFFICES ASSUME JInv, [Next]_vars PROVE Grown
  OBVIOUS
<1> USE Sorts DEF JInv, IInv
<1> DEFINE Kept == \A p \in Procs : proc[p] = "reaped" => proc'[p] = "reaped"
<1>0. skipped \subseteq skipped'
  <2>1. ASSUME NEW d \in Dirs, Scan(d) PROVE skipped \subseteq skipped'
    BY <2>1 DEF Scan, Enter, EntryGone, Subdirectory, RegularFile, CollectCommand, Seek, Write,
           WaitChild, ScanEnds, fileVars
  <2>2. CASE Main \/ Deliver \/ Interrupt \/ ShellReaps \/ UNCHANGED vars
    BY <2>2 DEF Main, Deliver, Interrupt, ShellReaps, vars, fileVars
  <2>3. ASSUME NEW c \in Commands, CommandStep(c) PROVE skipped \subseteq skipped'
    BY <2>3 DEF CommandStep, CommandWrites, CommandExits, fileVars
  <2>4. QED BY <2>1, <2>2, <2>3 DEF Next
<1> USE <1>0
<1>1. ASSUME out' = out PROVE Written \subseteq Written'
  BY <1>1 DEF Written
<1>2. CASE Main
  <2>1. /\ failed \subseteq failed' /\ silent' = silent /\ out' = out
        /\ proc' = proc \/ proc' = [proc EXCEPT ![Root] = "zombie"]
    BY <1>2 DEF Main, Leave, procVars, fileVars
  <2>2. proc[Root] = "running"
    BY <1>2 DEF Main, Alive
  <2>3. Kept
    BY <2>1, <2>2 DEF TypeOK
  <2>4. QED BY <1>1, <2>1, <2>3 DEF Grown
<1>3. ASSUME NEW d \in Dirs, Enter(d) \/ EntryGone(d) \/ ScanEnds(d) PROVE Grown
  <2>1. /\ failed \subseteq failed' /\ silent' = silent /\ out' = out
        /\ proc' = proc \/ proc' = [proc EXCEPT ![d] = "zombie"]
    BY <1>3 DEF Enter, EntryGone, ScanEnds, Leave, procVars, fileVars
  <2>2. proc[d] = "running"
    BY <1>3 DEF Enter, EntryGone, ScanEnds, Alive
  <2>3. Kept
    BY <2>1, <2>2 DEF TypeOK
  <2>4. QED BY <1>1, <2>1, <2>3 DEF Grown
<1>4. ASSUME NEW d \in Dirs, Subdirectory(d) PROVE Grown
  <2>1. PICK e \in unread[d] \cap Dirs : proc' = proc \/ proc' = [proc EXCEPT ![e] = "running"]
    BY <1>4 DEF Subdirectory
  <2>2. proc[e] = "none"
    <3>1. e \in Entries /\ Parent[e] = d /\ e # Root
      BY DEF Placed, EntriesOf
    <3>2. QED BY <3>1 DEF FreshDirs, Arrived, Alive
  <2>3. Kept
    BY <2>1, <2>2 DEF TypeOK
  <2>4. failed' = failed /\ silent' = silent /\ out' = out
    BY <1>4 DEF Subdirectory, fileVars
  <2>5. QED BY <1>1, <2>3, <2>4 DEF Grown
<1>5. ASSUME NEW d \in Dirs, RegularFile(d) PROVE Grown
  <2>1. PICK f \in unread[d] \cap Files :
          proc' = proc \/ proc' = [proc EXCEPT ![<<f, 1>>] = "running"]
    BY <1>5 DEF RegularFile
  <2>2. proc[<<f, 1>>] = "none"
    <3>1. f \in Files /\ Parent[f] = d /\ f \in unread[d] /\ 1 \in 1..4
      BY DEF Placed, EntriesOf
    <3>2. QED BY <3>1 DEF FreshCommands, Arrived
  <2>3. Kept
    BY <2>1, <2>2 DEF TypeOK
  <2>4. failed' = failed /\ silent' = silent /\ out' = out
    BY <1>5 DEF RegularFile, fileVars
  <2>5. QED BY <1>1, <2>3, <2>4 DEF Grown
<1>6. ASSUME NEW d \in Dirs, CollectCommand(d) PROVE Grown
  <2> DEFINE f == cmd[d][1]
             i == cmd[d][2]
             n == <<f, i + 1>>
  <2>1. PICK p \in Zombies(d) :
          \/ proc' = [proc EXCEPT ![p] = "reaped"]
          \/ i < CommandCount /\ proc' = [[proc EXCEPT ![p] = "reaped"] EXCEPT ![n] = "running"]
          \/ proc' = [[proc EXCEPT ![p] = "reaped"] EXCEPT ![d] = "zombie"]
    BY <1>6 DEF CollectCommand
  <2>2. pc[d] = "cmd" /\ f \in Files /\ i \in 1..4 /\ Parent[f] = d /\ proc[d] = "running"
    BY <1>6 DEF CollectCommand, Placed, InLine, Alive
  <2>3. i < CommandCount => proc[n] = "none"
    <3>1. Cardinality(opt.hashes) \in 0..3
      BY FewHashes DEF TypeOK
    <3>2. i < CommandCount => i + 1 \in 1..4 /\ ~(i + 1 <= i)
      BY <2>2, <3>1 DEF CommandCount
    <3>3. QED BY <2>2, <3>2 DEF FreshCommands
  <2>4. Kept
    <3>1. CASE proc' = [proc EXCEPT ![p] = "reaped"]
      BY <3>1 DEF TypeOK
    <3>2. CASE i < CommandCount /\ proc' = [[proc EXCEPT ![p] = "reaped"] EXCEPT ![n] = "running"]
      <4> HIDE DEF n
      <4>1. QED BY <2>3, <3>2 DEF TypeOK
    <3>3. CASE proc' = [[proc EXCEPT ![p] = "reaped"] EXCEPT ![d] = "zombie"]
      BY <2>2, <3>3 DEF TypeOK
    <3>4. QED BY <2>1, <3>1, <3>2, <3>3
  <2>5. failed \subseteq failed' /\ silent' = silent /\ out' = out
    BY <1>6 DEF CollectCommand, fileVars
  <2>6. QED BY <1>1, <2>4, <2>5 DEF Grown
<1>7. ASSUME NEW d \in Dirs, Seek(d) PROVE Grown
  BY <1>1, <1>7 DEF Seek, procVars, Grown
<1>8. ASSUME NEW d \in Dirs, Write(d) PROVE Grown
  <2> DEFINE line == [file |-> cmd[d][1], full |-> full[d]]
  <2>1. out \in Seq([file : Files, full : BOOLEAN])
    BY DEF TypeOK
  <2>2. line \in [file : Files, full : BOOLEAN] /\ out' = Append(out, line)
    BY <1>8, WriteAppends
  <2>3. /\ DOMAIN out = 1..Len(out) /\ DOMAIN out' = 1..(Len(out) + 1)
        /\ \A j \in 1..Len(out) : out'[j] = out[j]
    BY <2>1, <2>2
  <2>4. Written \subseteq Written'
    BY <2>1, <2>3 DEF Written
  <2>5. QED BY <1>8, <2>4 DEF Write, procVars, Grown
<1>9. ASSUME NEW d \in Dirs, WaitChild(d) PROVE Grown
  <2>1. Kept
    BY <1>9 DEF WaitChild, TypeOK
  <2>2. QED BY <1>1, <1>9, <2>1 DEF WaitChild, fileVars, Grown
<1>10. ASSUME NEW c \in Commands, CommandStep(c) PROVE Grown
  <2>1. Kept
    BY <1>10 DEF CommandStep, CommandWrites, CommandExits, TypeOK
  <2>2. QED BY <1>1, <1>10, <2>1 DEF CommandStep, CommandWrites, CommandExits, fileVars, Grown
<1>11. CASE Interrupt
  <2>1. Kept
    BY <1>11 DEF Interrupt, TypeOK
  <2>2. QED BY <1>1, <1>11, <2>1 DEF Interrupt, fileVars, Grown
<1>12. CASE Deliver \/ ShellReaps \/ UNCHANGED vars
  <2>1. Kept
    BY <1>12 DEF Deliver, ShellReaps, vars, procVars, TypeOK
  <2>2. QED BY <1>1, <1>12, <2>1 DEF Deliver, ShellReaps, vars, procVars, fileVars, Grown
<1>13. QED
  BY <1>2, <1>3, <1>4, <1>5, <1>6, <1>7, <1>8, <1>9, <1>10, <1>11, <1>12 DEF Next, Scan

\* A step of d's process, and of nobody else's scan.
Alien(d) ==
    \A b \in Dirs \ {d} : /\ pc'[b] = pc[b] /\ unread'[b] = unread[b]
                          /\ cmd'[b] = cmd[b] /\ full'[b] = full[b]

LEMMA DirSteps ==
    ASSUME LInv, [Next]_vars, NEW d \in Dirs, Alien(d),
           Pays(d)', ReadAll(d)', LineLacks(d)', ReportLacks'
    PROVE  LInv'
<1>1. JInv' /\ Grown
  BY AccountsInductive, NothingForgotten DEF LInv
<1>2. ASSUME NEW b \in Dirs PROVE Pays(b)' /\ ReadAll(b)' /\ LineLacks(b)'
  <2>1. CASE b = d
    BY <2>1
  <2>2. CASE b # d
    BY <1>1, <2>2, BystanderPays DEF LInv, Alien
  <2>3. QED BY <2>1, <2>2
<1>3. QED BY <1>1, <1>2 DEF LInv

\* The report lacks nothing more where no line is added.
LEMMA SameReport ==
    ASSUME ReportLacks, Grown, out' = out
    PROVE  ReportLacks'
BY DEF ReportLacks, Lacks, Grown

LEMMA InitialLines == Init => LInv
<1> SUFFICES ASSUME Init PROVE LInv
  OBVIOUS
<1>1. JInv
  BY InitialAccounts
<1>2. \A d \in Dirs : Pays(d) /\ ReadAll(d) /\ LineLacks(d)
  BY DEF Init, Pays, Owing, ReadAll, LineLacks, InLine
<1>3. ReportLacks
  BY DEF Init, ReportLacks
<1>4. QED BY <1>1, <1>2, <1>3 DEF LInv

LEMMA MainLines == LInv /\ Main => LInv'
<1> SUFFICES ASSUME LInv, Main PROVE LInv'
  OBVIOUS
<1> USE Sorts DEF LInv, JInv, IInv
<1>1. [Next]_vars /\ Grown
  BY NothingForgotten DEF Next
<1>2. PICK where \in {"enter", "done"} :
        pc' = [pc EXCEPT ![Root] = where] /\ (where = "done" => failed' = failed \cup {Root})
  BY DEF Main, Leave, Goto
<1>3. UNCHANGED <<unread, cmd, full, out>>
  BY DEF Main, fileVars
<1>4. \A b \in Dirs : pc'[b] = IF b = Root THEN where ELSE pc[b]
  BY <1>2 DEF TypeOK
<1>5. Alien(Root)
  BY <1>3, <1>4 DEF Alien
<1>6. Pays(Root)' /\ ReadAll(Root)' /\ LineLacks(Root)'
  BY <1>2, <1>4 DEF Pays, Owing, ReadAll, LineLacks, InLine
<1>7. ReportLacks'
  BY <1>1, <1>3, SameReport
<1>8. QED BY <1>1, <1>5, <1>6, <1>7, DirSteps

LEMMA EnterLines == ASSUME LInv, NEW d \in Dirs, Enter(d) PROVE LInv'
<1> USE Sorts DEF LInv, JInv, IInv
<1>1. [Next]_vars /\ Grown
  BY NothingForgotten DEF Next, Scan
<1>2. PICK where \in {"loop", "done"} :
        /\ pc' = [pc EXCEPT ![d] = where]
        /\ where = "done" => failed' = failed \cup {d} /\ unread' = unread
        /\ where = "loop" => unread' = [unread EXCEPT ![d] = EntriesOf(d)]
  BY DEF Enter, Leave, Goto
<1>3. UNCHANGED <<cmd, full, out>>
  BY DEF Enter, fileVars
<1>4. \A b \in Dirs : pc'[b] = IF b = d THEN where ELSE pc[b]
  BY <1>2 DEF TypeOK
<1>5. Alien(d)
  BY <1>2, <1>3, <1>4 DEF Alien, TypeOK
<1>6. Pays(d)'
  <2>1. CASE where = "done"
    BY <1>2, <1>4, <2>1 DEF Pays, Owing, InLine
  <2>2. CASE where = "loop"
    <3>1. unread'[d] = EntriesOf(d)
      BY <1>2, <2>2 DEF TypeOK
    <3>2. \A f \in Files : Parent[f] = d => ~Over(f)'
      BY <3>1 DEF Over, Arrived, EntriesOf
    <3>3. Lost(d)' = {}
      BY <3>2 DEF Lost
    <3>4. Cardinality(Lost(d)') = 0 /\ Cardinality(Paid(d)') \in Nat
      BY <3>3, FS_EmptySet, PaidFinite
    <3>5. QED BY <3>4 DEF Pays
  <2>3. QED BY <2>1, <2>2
<1>7. ReadAll(d)' /\ LineLacks(d)'
  BY <1>2, <1>4 DEF ReadAll, LineLacks, InLine
<1>8. ReportLacks'
  BY <1>1, <1>3, SameReport
<1>9. QED BY <1>1, <1>5, <1>6, <1>7, <1>8, DirSteps

\* EntryGone and ScanEnds: the process ends, well only when it has read all.
LEMMA LeavingLines ==
    ASSUME LInv, NEW d \in Dirs, EntryGone(d) \/ ScanEnds(d)
    PROVE  LInv'
<1> USE Sorts DEF LInv, JInv, IInv
<1>1. [Next]_vars /\ Grown
  BY NothingForgotten DEF Next, Scan
<1>2. /\ pc[d] = "loop" /\ pc' = [pc EXCEPT ![d] = "done"]
      /\ d \in failed' \/ unread[d] = {}
      /\ UNCHANGED <<unread, cmd, full, out>>
  BY DEF EntryGone, ScanEnds, Leave, Goto, fileVars
<1>3. \A b \in Dirs : pc'[b] = IF b = d THEN "done" ELSE pc[b]
  BY <1>2 DEF TypeOK
<1>4. Alien(d)
  BY <1>2, <1>3 DEF Alien
<1>5. Lost(d)' \subseteq Lost(d)
  BY <1>1, <1>2, <1>3 DEF Lost, Over, Arrived, Early, InLine, Grown
<1>6. Owing(d)' => Owing(d)
  BY <1>1, <1>2 DEF Owing, Grown
<1>7. Pays(d)'
  BY <1>1, <1>5, <1>6, NoMoreLost
<1>8. ReadAll(d)' /\ LineLacks(d)'
  BY <1>2, <1>3 DEF ReadAll, LineLacks, InLine
<1>9. ReportLacks'
  BY <1>1, <1>2, SameReport
<1>10. QED BY <1>1, <1>4, <1>7, <1>8, <1>9, DirSteps

LEMMA SubdirectoryLines == ASSUME LInv, NEW d \in Dirs, Subdirectory(d) PROVE LInv'
<1> USE Sorts DEF LInv, JInv, IInv
<1>1. JInv' /\ Grown
  BY SubdirectoryAccounts, NothingForgotten DEF Next, Scan
<1>2. PICK e \in unread[d] \cap Dirs :
        /\ unread' = [unread EXCEPT ![d] = @ \ {e}]
        /\ pc' = pc \/ pc' = [pc EXCEPT ![e] = "enter"]
  BY DEF Subdirectory, Goto
<1>3. pc[d] = "loop" /\ UNCHANGED <<cmd, full, failed, out>>
  BY DEF Subdirectory, fileVars
<1>4. e \in Dirs \ {Root} /\ pc[e] = "none" /\ e \notin Files
  <2>1. e \in Entries /\ Parent[e] = d /\ e # Root
    BY DEF Placed, EntriesOf
  <2>2. QED BY <2>1, TreeAssumption DEF FreshDirs, Arrived
<1>5. /\ \A b \in Dirs : pc'[b] = pc[b] \/ (b = e /\ pc'[b] = "enter")
      /\ \A b \in Dirs : unread'[b] = IF b = d THEN unread[b] \ {e} ELSE unread[b]
  BY <1>2 DEF TypeOK
<1>6. ASSUME NEW b \in Dirs PROVE Pays(b)' /\ ReadAll(b)' /\ LineLacks(b)'
  <2>1. CASE pc'[b] = "enter"
    BY <2>1 DEF Pays, Owing, ReadAll, LineLacks, InLine
  <2>2. CASE pc'[b] = pc[b]
    <3>1. \A f \in Files : Parent[f] = b => (f \in unread'[b] <=> f \in unread[b])
      BY <1>4, <1>5
    <3>2. Lost(b)' \subseteq Lost(b)
      BY <1>1, <2>2, <1>3, <3>1 DEF Lost, Over, Arrived, Grown
    <3>3. Owing(b)' => Owing(b)
      BY <1>1, <1>3, <2>2 DEF Owing, Grown
    <3>4. Pays(b)'
      BY <1>1, <3>2, <3>3, NoMoreLost
    <3>5. ReadAll(b)' /\ LineLacks(b)'
      BY <1>1, <1>3, <1>5, <2>2 DEF ReadAll, LineLacks, Lacks, Grown
    <3>6. QED BY <3>4, <3>5
  <2>3. QED BY <1>4, <1>5, <2>1, <2>2
<1>7. ReportLacks'
  BY <1>1, <1>3, SameReport
<1>8. QED BY <1>1, <1>6, <1>7

LEMMA RegularFileLines == ASSUME LInv, NEW d \in Dirs, RegularFile(d) PROVE LInv'
<1> USE Sorts DEF LInv, JInv, IInv
<1>1. [Next]_vars /\ Grown
  BY NothingForgotten DEF Next, Scan
<1>2. PICK f \in unread[d] \cap Files :
        /\ unread' = [unread EXCEPT ![d] = @ \ {f}]
        /\ IF KillFails
           THEN skipped' = skipped \cup {f} /\ UNCHANGED <<pc, cmd, full>>
           ELSE /\ full' = [full EXCEPT ![d] = TRUE]
                /\ cmd' = [cmd EXCEPT ![d] = <<f, 1>>]
                /\ pc' = [pc EXCEPT ![d] = "cmd"]
  BY DEF RegularFile, Run, Goto
<1>3. pc[d] = "loop" /\ UNCHANGED <<failed, out>>
  BY DEF RegularFile
<1>4. f \in Files /\ Parent[f] = d
  BY DEF Placed, EntriesOf
<1>5. unread'[d] = unread[d] \ {f} /\ Alien(d)
  BY <1>2, <1>3 DEF Alien, TypeOK
<1>6. ReportLacks'
  BY <1>1, <1>3, SameReport
<1>7. CASE KillFails
  <2>1. pc' = pc /\ cmd' = cmd /\ f \in skipped'
    BY <1>2, <1>7
  <2>2. Lost(d)' \subseteq Lost(d)
    BY <1>1, <1>3, <1>4, <1>5, <2>1 DEF Lost, Over, Arrived, Early, InLine, Grown
  <2>3. Owing(d)' => Owing(d)
    BY <1>3 DEF Owing
  <2>4. Pays(d)'
    BY <1>1, <2>2, <2>3, NoMoreLost
  <2>5. ReadAll(d)' /\ LineLacks(d)'
    BY <1>3, <2>1 DEF ReadAll, LineLacks, InLine
  <2>6. QED BY <1>1, <1>5, <1>6, <2>4, <2>5, DirSteps
<1>8. CASE ~KillFails
  <2>1. /\ pc'[d] = "cmd" /\ full'[d] = TRUE
        /\ cmd'[d] = <<f, 1>> /\ cmd'[d][1] = f
    BY <1>2, <1>8 DEF TypeOK
  <2>2. Lost(d)' \subseteq Lost(d)
    BY <1>1, <1>3, <1>4, <1>5, <2>1 DEF Lost, Over, Arrived, Early, InLine, Grown
  <2>3. Owing(d)' => Owing(d)
    BY <1>1, <1>3 DEF Owing, Grown
  <2>4. Pays(d)'
    BY <1>1, <2>2, <2>3, NoMoreLost
  <2>5. ReadAll(d)' /\ LineLacks(d)'
    BY <2>1 DEF ReadAll, LineLacks
  <2>6. QED BY <1>1, <1>5, <1>6, <2>4, <2>5, DirSteps
<1>9. QED BY <1>7, <1>8

\* get_cmd_output gives a line up only for a child that failed, which it reaps.
LEMMA CollectLines == ASSUME LInv, NEW d \in Dirs, CollectCommand(d) PROVE LInv'
<1> USE Sorts DEF LInv, JInv, IInv
<1> DEFINE f == cmd[d][1]
           n == <<f, cmd[d][2] + 1>>
<1>1. [Next]_vars /\ Grown
  BY NothingForgotten DEF Next, Scan
<1>2. PICK p \in Zombies(d), where \in {"loop", "cmd", "seek", "done"} :
        /\ pc' = [pc EXCEPT ![d] = where]
        /\ where = "loop" => /\ p \in failed /\ UNCHANGED <<cmd, full, failed>>
                             /\ proc' = [proc EXCEPT ![p] = "reaped"]
        /\ where \in {"cmd", "seek"} =>
              /\ full' = [full EXCEPT ![d] = @ /\ cmd[d] \notin silent]
              /\ cmd' = cmd \/ cmd' = [cmd EXCEPT ![d] = n]
              /\ failed' = failed
        /\ where = "done" => failed' = failed \cup {d} /\ UNCHANGED <<cmd, full>>
  BY SMTT(60), ZenonT(60) DEF CollectCommand, NextEntry, Goto, Run
<1>3. pc[d] = "cmd" /\ UNCHANGED <<unread, out>>
  BY DEF CollectCommand, NextEntry, program_is_term, fileVars
<1>4. cmd[d] \in Commands /\ f \in Files /\ Parent[f] = d /\ f \notin unread[d]
  BY <1>3 DEF Placed, InLine
<1>5. \A b \in Dirs : pc'[b] = IF b = d THEN where ELSE pc[b]
  BY <1>2 DEF TypeOK
<1>6. Alien(d)
  <2>1. ASSUME NEW b \in Dirs \ {d} PROVE cmd'[b] = cmd[b] /\ full'[b] = full[b]
    <3> HIDE DEF n
    <3>1. QED BY <1>2 DEF TypeOK
  <2>2. QED BY <1>3, <1>5, <2>1 DEF Alien
<1>7. ReportLacks'
  BY <1>1, <1>3, SameReport
<1>8. Owing(d)' => Owing(d)
  BY <1>1, <1>3 DEF Owing, InLine, Grown
<1>9. CASE where = "loop"
  <2>1. /\ p \in failed /\ failed' = failed /\ cmd' = cmd
        /\ proc' = [proc EXCEPT ![p] = "reaped"] /\ pc'[d] = "loop"
    BY <1>2, <1>5, <1>9
  <2>2. Lost(d)' \subseteq Lost(d) \cup {f}
    BY <1>1, <1>3, <1>5, <2>1 DEF Lost, Over, Arrived, Early, InLine, Grown
  <2>3. Cardinality(Lost(d)') <= Cardinality(Lost(d)) + 1
    <3>1. IsFiniteSet(Lost(d) \cup {f}) /\ Cardinality(Lost(d) \cup {f}) <= Cardinality(Lost(d)) + 1
      <4>0. IsFiniteSet(Lost(d)) /\ Cardinality(Lost(d)) \in Nat
        BY LostFinite
      <4>1. CASE f \in Lost(d)
        <5>1. Lost(d) \cup {f} = Lost(d)
          BY <4>1
        <5>2. QED BY <4>0, <5>1
      <4>2. CASE f \notin Lost(d)
        <5>1. /\ IsFiniteSet(Lost(d) \cup {f})
              /\ Cardinality(Lost(d) \cup {f}) = Cardinality(Lost(d)) + 1
          BY <4>0, <4>2, FS_AddElement
        <5>2. QED BY <4>0, <5>1
      <4>3. QED BY <4>1, <4>2
    <3>2. Cardinality(Lost(d)') <= Cardinality(Lost(d) \cup {f})
      BY <2>2, <3>1, FS_Subset
    <3>3. Cardinality(Lost(d) \cup {f}) \in Nat
      BY <3>1, FS_CardinalityType
    <3>4. QED BY <3>1, <3>2, <3>3, LostFinite
  <2>4. Paid(d)' = Paid(d) \cup {p} /\ p \notin Paid(d)
    <3>1. p \in ChildrenOf(d) /\ p \in Procs /\ proc[p] = "zombie"
      BY Children DEF Zombies
    <3>2. \A q \in Procs : proc'[q] = IF q = p THEN "reaped" ELSE proc[q]
      BY <2>1 DEF TypeOK
    <3>3. QED BY <2>1, <3>1, <3>2, Children DEF Paid, ChildrenOf, EntriesOf
  <2>5. Cardinality(Paid(d)') = Cardinality(Paid(d)) + 1
    BY <2>4, PaidFinite, FS_AddElement
  <2>6. Pays(d)'
    BY <1>8, <2>3, <2>5, LostFinite, PaidFinite DEF Pays
  <2>7. ReadAll(d)' /\ LineLacks(d)'
    BY <2>1 DEF ReadAll, LineLacks, InLine
  <2>8. QED BY <1>1, <1>6, <1>7, <2>6, <2>7, DirSteps
<1>10. CASE where \in {"cmd", "seek"}
  <2>1. /\ pc'[d] \in {"cmd", "seek"} /\ cmd'[d][1] = f
        /\ full'[d] = (full[d] /\ cmd[d] \notin silent)
    <3>1. pc'[d] \in {"cmd", "seek"}
      BY <1>5, <1>10
    <3>2. cmd'[d] = cmd[d] \/ cmd'[d] = n
      <4> HIDE DEF n
      <4>1. QED BY <1>2, <1>10 DEF TypeOK
    <3>3. full'[d] = (full[d] /\ cmd[d] \notin silent)
      BY <1>2, <1>10, SMTT(30), ZenonT(30) DEF TypeOK
    <3>4. QED BY <3>1, <3>2, <3>3
  <2>2. Lost(d)' \subseteq Lost(d)
    BY <1>1, <1>3, <1>4, <2>1 DEF Lost, Over, Arrived, Early, InLine, Grown
  <2>3. Pays(d)'
    BY <1>1, <1>8, <2>2, NoMoreLost
  <2>4. LineLacks(d)'
    <3>1. SUFFICES ASSUME ~full'[d] PROVE \E c \in silent' : c[1] = f
      BY <2>1 DEF LineLacks, Lacks
    <3>2. CASE ~full[d]
      BY <1>1, <1>3, <3>2 DEF LineLacks, Lacks, InLine, Grown
    <3>3. CASE cmd[d] \in silent
      BY <1>1, <3>3 DEF Grown
    <3>4. QED BY <2>1, <3>1, <3>2, <3>3
  <2>5. ReadAll(d)'
    BY <2>1 DEF ReadAll
  <2>6. QED BY <1>1, <1>6, <1>7, <2>3, <2>4, <2>5, DirSteps
<1>11. CASE where = "done"
  <2>1. pc'[d] = "done" /\ d \in failed'
    BY <1>2, <1>5, <1>11
  <2>2. Pays(d)' /\ ReadAll(d)' /\ LineLacks(d)'
    BY <2>1 DEF Pays, Owing, ReadAll, LineLacks, InLine
  <2>3. QED BY <1>1, <1>6, <1>7, <2>2, DirSteps
<1>12. QED BY <1>9, <1>10, <1>11

LEMMA SeekLines == ASSUME LInv, NEW d \in Dirs, Seek(d) PROVE LInv'
<1> USE Sorts DEF LInv, JInv, IInv
<1>1. [Next]_vars /\ Grown
  BY NothingForgotten DEF Next, Scan
<1>2. /\ pc[d] = "seek" /\ pc' = [pc EXCEPT ![d] = "write"]
      /\ UNCHANGED <<unread, cmd, full, out>>
  BY DEF Seek, Goto
<1>3. \A b \in Dirs : pc'[b] = IF b = d THEN "write" ELSE pc[b]
  BY <1>2 DEF TypeOK
<1>4. Alien(d)
  BY <1>2, <1>3 DEF Alien
<1>5. Lost(d)' \subseteq Lost(d)
  BY <1>1, <1>2, <1>3 DEF Lost, Over, Arrived, Early, InLine, Grown
<1>6. Owing(d)' => Owing(d)
  BY <1>1, <1>2 DEF Owing, InLine, Grown
<1>7. Pays(d)'
  BY <1>1, <1>5, <1>6, NoMoreLost
<1>8. ReadAll(d)' /\ LineLacks(d)'
  BY <1>1, <1>2, <1>3 DEF ReadAll, LineLacks, InLine, Lacks, Grown
<1>9. ReportLacks'
  BY <1>1, <1>2, SameReport
<1>10. QED BY <1>1, <1>4, <1>7, <1>8, <1>9, DirSteps

\* The file whose line is written is over, and not lost.
LEMMA WriteLines == ASSUME LInv, NEW d \in Dirs, Write(d) PROVE LInv'
<1> USE Sorts DEF LInv, JInv, IInv
<1> DEFINE f == cmd[d][1]
           line == [file |-> f, full |-> full[d]]
<1>1. [Next]_vars /\ Grown
  BY NothingForgotten DEF Next, Scan
<1>2. /\ pc[d] = "write" /\ pc' = [pc EXCEPT ![d] = "loop"]
      /\ UNCHANGED <<unread, cmd, full>>
  BY DEF Write, NextEntry, program_is_term, Goto
<1>3. \A b \in Dirs : pc'[b] = IF b = d THEN "loop" ELSE pc[b]
  BY <1>2 DEF TypeOK
<1>4. /\ DOMAIN out = 1..Len(out) /\ DOMAIN out' = 1..(Len(out) + 1) /\ Len(out) \in Nat
      /\ \A j \in 1..Len(out) : out'[j] = out[j]
      /\ out'[Len(out) + 1] = line
  <2>1. out \in Seq([file : Files, full : BOOLEAN])
    BY DEF TypeOK
  <2>2. line \in [file : Files, full : BOOLEAN] /\ out' = Append(out, line)
    BY WriteAppends
  <2> HIDE DEF line
  <2>3. QED BY <2>1, <2>2
<1>5. f \in Written' /\ line.file = f /\ line.full = full[d]
  <2>1. Len(out) + 1 \in DOMAIN out' /\ out'[Len(out) + 1].file = f
    BY <1>4
  <2>2. QED BY <2>1 DEF Written
<1>6. Alien(d)
  BY <1>2, <1>3 DEF Alien
<1>7. Lost(d)' \subseteq Lost(d)
  <2>1. SUFFICES ASSUME NEW g \in Lost(d)' PROVE g \in Lost(d)
    OBVIOUS
  <2>2. g \in Files /\ Parent[g] = d /\ Over(g)' /\ g \notin Written' /\ g # f
    BY <1>5, <2>1 DEF Lost
  <2>3. Over(g)
    BY <1>2, <2>2 DEF Over, Arrived, Early
  <2>4. QED BY <1>1, <2>2, <2>3 DEF Lost, Grown
<1>8. Owing(d)' => Owing(d)
  BY <1>1, <1>2 DEF Owing, InLine, Grown
<1>9. Pays(d)'
  BY <1>1, <1>7, <1>8, NoMoreLost
<1>10. ReadAll(d)' /\ LineLacks(d)'
  BY <1>3 DEF ReadAll, LineLacks, InLine
<1>11. ReportLacks'
  <2>1. SUFFICES ASSUME NEW i \in DOMAIN out', ~out'[i].full
                 PROVE  \E c \in silent' : c[1] = out'[i].file
    BY DEF ReportLacks, Lacks
  <2>2. CASE i \in DOMAIN out
    <3>1. out'[i] = out[i]
      BY <1>4, <2>2
    <3>2. QED BY <1>1, <2>1, <2>2, <3>1 DEF ReportLacks, Lacks, Grown
  <2>3. CASE i = Len(out) + 1
    <3>1. ~full[d] /\ out'[i].file = f
      BY <1>4, <1>5, <2>1, <2>3
    <3>2. QED BY <1>1, <1>2, <3>1 DEF LineLacks, Lacks, InLine, Grown
  <2>4. QED BY <1>4, <2>1, <2>2, <2>3
<1>12. QED BY <1>1, <1>6, <1>9, <1>10, <1>11, DirSteps

\* The steps that leave every scan and the report as they are.
LEMMA OthersLines ==
    ASSUME LInv, [Next]_vars,
           \/ \E d \in Dirs : WaitChild(d)
           \/ \E c \in Commands : CommandStep(c)
           \/ Deliver \/ Interrupt \/ ShellReaps \/ UNCHANGED vars
    PROVE  LInv'
<1> USE Sorts DEF LInv, JInv, IInv
<1>1. Grown
  BY NothingForgotten
<1>2. UNCHANGED <<pc, unread, cmd, full, out>>
  BY DEF WaitChild, CommandStep, CommandWrites, CommandExits, Deliver, Interrupt, ShellReaps,
         vars, scanVars, fileVars
<1>3. ASSUME NEW d \in Dirs PROVE Alien(d) /\ Pays(d)' /\ ReadAll(d)' /\ LineLacks(d)'
  <2>1. Alien(d)
    BY <1>2 DEF Alien
  <2>2. QED BY <1>1, <1>2, <2>1, BystanderPays
<1>4. ReportLacks'
  BY <1>1, <1>2, SameReport
<1>5. QED BY <1>3, <1>4, DirSteps

LEMMA LinesInductive == LInv /\ [Next]_vars => LInv'
<1> SUFFICES ASSUME LInv, [Next]_vars PROVE LInv'
  OBVIOUS
<1>1. CASE Main
  BY <1>1, MainLines
<1>2. ASSUME NEW d \in Dirs, Scan(d) PROVE LInv'
  <2>1. CASE Enter(d)
    BY <2>1, EnterLines
  <2>2. CASE EntryGone(d) \/ ScanEnds(d)
    BY <2>2, LeavingLines
  <2>3. CASE Subdirectory(d)
    BY <2>3, SubdirectoryLines
  <2>4. CASE RegularFile(d)
    BY <2>4, RegularFileLines
  <2>5. CASE CollectCommand(d)
    BY <2>5, CollectLines
  <2>6. CASE Seek(d)
    BY <2>6, SeekLines
  <2>7. CASE Write(d)
    BY <2>7, WriteLines
  <2>8. CASE WaitChild(d)
    BY <2>8, OthersLines
  <2>9. QED BY <1>2, <2>1, <2>2, <2>3, <2>4, <2>5, <2>6, <2>7, <2>8 DEF Scan
<1>3. CASE \/ \E c \in Commands : CommandStep(c)
           \/ Deliver \/ Interrupt \/ ShellReaps \/ UNCHANGED vars
  BY <1>3, OthersLines
<1>4. QED BY <1>1, <1>2, <1>3 DEF Next

\* A file is skipped after the root has been reaped, by a process that nobody
\* waited for: some directory's process ended with an error.
SkipInv == skipped # {} => proc[Root] = "reaped" /\ failed \cap Dirs # {}

\* Who scans when the root is gone has an ancestor that failed: otherwise all the
\* tree below a process that is done would be done, or never have been begun.
LEMMA OrphanSkips == JInv /\ SkipInv /\ [Next]_vars => SkipInv'
<1> SUFFICES ASSUME JInv, SkipInv, [Next]_vars PROVE SkipInv'
  OBVIOUS
<1> USE Sorts DEF JInv, IInv
<1>1. Grown
  BY NothingForgotten
<1>2. ASSUME NEW d \in Dirs, RegularFile(d), KillFails PROVE failed \cap Dirs # {}
  <2> SUFFICES ASSUME failed \cap Dirs = {} PROVE FALSE
    OBVIOUS
  <2> DEFINE S == {b \in Dirs : pc[b] \in {"none", "done"}}
  <2>1. Root \in S
    BY <1>2 DEF KillFails, Alive, TypeOK, Pcs, InLine
  <2>2. ASSUME NEW b \in Dirs \ {Root}, Parent[b] \in S PROVE b \in S
    <3>1. b \in Entries /\ b \in ChildrenOf(Parent[b]) /\ Parent[b] \in Dirs
      BY TreeAssumption DEF Entries, ChildrenOf, EntriesOf
    <3>2. CASE pc[Parent[b]] = "none"
      BY <3>1, <3>2 DEF FreshDirs, Arrived, Early
    <3>3. CASE pc[Parent[b]] = "done"
      <4>1. Unreaped(Parent[b]) = {}
        BY <3>1, <3>3 DEF Accounted
      <4>2. proc[b] \notin {"running", "zombie"}
        BY <3>1, <4>1 DEF Unreaped
      <4>3. QED BY <4>2 DEF Alive, TypeOK, Pcs, InLine
    <3>4. QED BY <2>2, <3>2, <3>3
  <2>3. S = Dirs
    <3>1. S \in SUBSET Dirs
      OBVIOUS
    <3> HIDE DEF S
    <3>2. QED BY <2>1, <2>2, <3>1, TreeAssumption
  <2>4. QED BY <1>2, <2>3 DEF RegularFile
<1>3. ASSUME NEW d \in Dirs, RegularFile(d) PROVE SkipInv'
  <2>1. CASE KillFails
    <3>1. proc[Root] = "reaped" /\ failed \cap Dirs # {}
      BY <1>2, <1>3, <2>1 DEF KillFails
    <3>2. QED BY <1>1, <3>1 DEF SkipInv, Grown
  <2>2. CASE ~KillFails
    <3>1. skipped' = skipped
      BY <1>3, <2>2 DEF RegularFile
    <3>2. QED BY <1>1, <3>1 DEF SkipInv, Grown
  <2>3. QED BY <2>1, <2>2
<1>4. CASE skipped' = skipped
  BY <1>1, <1>4 DEF SkipInv, Grown
<1>5. ASSUME NEW d \in Dirs, Scan(d), ~RegularFile(d) PROVE skipped' = skipped
  BY <1>5 DEF Scan, Enter, EntryGone, Subdirectory, CollectCommand, Seek, Write, WaitChild,
         ScanEnds, fileVars
<1>6. ASSUME Main \/ Deliver \/ Interrupt \/ ShellReaps \/ UNCHANGED vars PROVE skipped' = skipped
  BY <1>6 DEF Main, Deliver, Interrupt, ShellReaps, vars, fileVars
<1>7. ASSUME NEW c \in Commands, CommandStep(c) PROVE skipped' = skipped
  BY <1>7 DEF CommandStep, CommandWrites, CommandExits, fileVars
<1>8. QED BY <1>3, <1>4, <1>5, <1>6, <1>7 DEF Next

\* A file that no line is written of was skipped by a process that outlived the
\* root, after some directory's process had ended with an error (forensic.c:125,
\* 276, 288, 297), or, where the directory's process ended well, is paid for: no
\* more of the others are missing than children failed, whichever child each
\* wait takes (61, 336). A line that lacks a checksum (182-207) is of a file one
\* of whose commands wrote nothing.
THEOREM LostLinesPaid == Spec => []LinesLost
<1>1. LInv /\ SkipInv => LinesLost
  <2> SUFFICES ASSUME LInv, SkipInv PROVE LinesLost
    OBVIOUS
  <2>1. ASSUME NEW d \in Dirs, pc[d] = "done", d \notin failed
        PROVE  Cardinality({f \in Files \ skipped :
                               Parent[f] = d /\ \A i \in DOMAIN out : out[i].file # f})
                 <= Cardinality(ChildrenOf(d) \cap failed)
    <3>1. unread[d] = {} /\ Cardinality(Lost(d)) <= Cardinality(Paid(d))
      BY <2>1 DEF LInv, ReadAll, Pays, Owing
    <3>2. {f \in Files \ skipped : Parent[f] = d /\ \A i \in DOMAIN out : out[i].file # f} = Lost(d)
      BY <2>1, <3>1 DEF Lost, Over, Arrived, Early, InLine, Written
    <3>3. /\ IsFiniteSet(ChildrenOf(d) \cap failed) /\ Paid(d) \subseteq ChildrenOf(d) \cap failed
      BY ChildrenFinite, FS_Subset DEF Paid
    <3>4. /\ Cardinality(Paid(d)) <= Cardinality(ChildrenOf(d) \cap failed)
          /\ Cardinality(ChildrenOf(d) \cap failed) \in Nat
      BY <3>3, FS_Subset, FS_CardinalityType
    <3>5. QED BY <3>1, <3>2, <3>4, LostFinite, PaidFinite
  <2>2. QED BY <2>1 DEF LinesLost, LInv, SkipInv, ReportLacks, Lacks
<1>2. Init => SkipInv
  BY DEF Init, SkipInv
<1>3. LInv /\ SkipInv /\ [Next]_vars => SkipInv'
  BY OrphanSkips DEF LInv
<1>4. QED BY <1>1, <1>2, <1>3, InitialLines, LinesInductive, PTL DEF Spec
=============================================================================
