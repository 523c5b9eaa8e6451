\* One user; the reply FIFO's name may be there from an earlier process. An int
\* has 4 bits and a long 6, so that every bound and both widths can be passed.
SPECIFICATION FairSpec
CONSTANTS
    MaxAccounts = 3
    MaxBalance = 5
    MaxDelay = 4
    MinLength = 2
    MaxLength = 4
    IntHalf = 8
    LongHalf = 32
    CommandLines <- MCCommandLines
INVARIANTS TypeOK LogTellsOutcome NameRemoved SentSafe CommandChecked
PROPERTY EndsOnceSent
