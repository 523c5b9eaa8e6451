\* A tree of three directories and three files, one fault at most.
SPECIFICATION FairSpec
CONSTANTS
    root = root
    a = a
    b = b
    x = x
    y = y
    z = z
    Root = root
    Dirs <- MCDirs
    Files <- MCFiles
    Parent <- MCParent
    CommandLines <- MCCommandLines
    Faults <- MCFaults
INVARIANTS TypeOK ChildrenAccounted LinesLost CountsSound
PROPERTIES ImplementsReport ScanTerminates
\* The tool ends.
CHECK_DEADLOCK FALSE
