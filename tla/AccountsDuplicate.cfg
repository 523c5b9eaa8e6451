\* An id is created twice.
SPECIFICATION FairSpec
CONSTANTS
    Ids <- McIds
    Passwords = {"adm", "pw1", "pw2"}
    AdminPassword = "adm"
    NoPassword = NoPassword
    MinBalance = 1
    MaxBalance = 3
    Requests <- AllRequests
    Loads <- DuplicateLoad
    Offices = {o1, o2}
    Garbage = {0}
    NoRequest = NoRequest
    Free = Free
PROPERTY EveryRequestAnswered
CHECK_DEADLOCK FALSE
