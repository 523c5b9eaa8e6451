----------------------------- MODULE MCForensic -----------------------------
EXTENDS Forensic

CONSTANTS root, a, b, x, y, z

\* A file and a subdirectory in the root, the same in that, a file in the last.
MCDirs == {root, a, b}
MCFiles == {x, y, z}
MCParent == [e \in {a, b, x, y, z} |->
    CASE e \in {a, x} -> root [] e \in {b, z} -> a [] e = y -> b]

Arg(flag) == [flag |-> flag]
Hash(names) == [flag |-> "h", names |-> names]
File(flag, name, valid) == [flag |-> flag, name |-> name, valid |-> valid]
Output(name) == File("o", name, TRUE)
MCCommandLines ==
    { <<Arg("r"), Output("a.csv")>>,
      <<Arg("r")>>,
      <<File("v", "log.txt", TRUE), Output("b.csv"), Output("a.csv")>>,
      <<Arg("r"), Output("a.csv"), Hash({"md5"})>>,
      <<Arg("r"), Hash({"sha256", "crc"})>>,
      <<Output("a.csv"), Output("a.csv")>>,
      <<Output("a.csv"), File("v", "a", FALSE)>>,
      <<Arg("q")>> }

NoFault == [unreadable |-> {}, gone |-> {}, unhashable |-> {}, exists |-> {}]
MCFaults ==
    { NoFault,
      [NoFault EXCEPT !.exists = {"a.csv"}],
      [NoFault EXCEPT !.unreadable = {b}],
      [NoFault EXCEPT !.unhashable = {x, z}],
      [NoFault EXCEPT !.gone = {x}],
      [NoFault EXCEPT !.gone = {z}] }
=============================================================================
