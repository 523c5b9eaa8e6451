\* A user that times out closes its FIFO between the office's open and write.
SPECIFICATION Spec
CONSTANTS
    Offices = {o1, o2}
    Users = {admin, u1}
    ShutdownUsers = {admin}
    Impatient = {admin, u1}
    Killable = {}
    NoUser = NoUser
INVARIANT SurvivesUsers
CHECK_DEADLOCK FALSE
