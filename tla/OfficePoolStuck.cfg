\* A user that times out closes its FIFO before the office opens it.
SPECIFICATION Spec
CONSTANTS
    Offices = {o1, o2}
    Users = {admin, u1}
    ShutdownUsers = {admin}
    Impatient = {admin, u1}
    Killable = {}
    NoUser = NoUser
INVARIANT NoOfficeStuck
CHECK_DEADLOCK FALSE
