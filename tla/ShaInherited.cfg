\* Two threads, one hash each.
SPECIFICATION FairSpec
CONSTANTS
    Threads = {t1, t2}
    Calls = 1
    Server = Server
PROPERTY HashEnds
CHECK_DEADLOCK FALSE
