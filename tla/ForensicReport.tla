--------------------------- MODULE ForensicReport ---------------------------
(***************************************************************************)
(* What the forensic tool's output file promises, whoever writes it: it    *)
(* grows by one line at a time, it has at most one line for each file, and *)
(* a line that is in it stays where it is.                                 *)
(***************************************************************************)
EXTENDS Sequences

CONSTANT Files
VARIABLE report

\* One file's line; full when it has every checksum that was asked for.
Line == [file : Files, full : BOOLEAN]
Reported == {report[i].file : i \in DOMAIN report}

Init == report = <<>>

Add(line) ==
    /\ line.file \notin Reported
    /\ report' = Append(report, line)

Next == \E line \in Line : Add(line)

Spec == Init /\ [][Next]_report
=============================================================================
