\* Two offices and five sets of requests, an id created twice and a transfer to
\* its own source among them.
SPECIFICATION FairSpec
CONSTANTS
    Ids <- McIds
    Passwords = {"adm", "pw1", "pw2"}
    AdminPassword = "adm"
    NoPassword = NoPassword
    MinBalance = 1
    MaxBalance = 3
    Requests <- AllRequests
    Loads <- AllLoads
    Offices = {o1, o2}
    Garbage = {3}
    NoRequest = NoRequest
    Free = Free
INVARIANTS TypeOK Exclusive Conserved BalanceInRange
PROPERTIES AnsweredUnlessMutexLost ImplementsLedger
\* A duplicate creation or a transfer to its source stops the offices.
CHECK_DEADLOCK FALSE
