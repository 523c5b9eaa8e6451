\* Two threads, two hashes each.
SPECIFICATION FairSpec
CONSTANTS
    Threads = {t1, t2}
    Calls = 2
    Server = Server
INVARIANTS ResultIsOwn ChildrenAccounted NoDescriptorLeft
PROPERTY HashEndsUnlessCircle
\* Threads stop after their last call, and may wait for ever in it.
CHECK_DEADLOCK FALSE
