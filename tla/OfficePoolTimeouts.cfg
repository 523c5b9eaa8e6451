\* Two offices, a shutdown and two requests; any user may time out, and one
\* may die without closing its FIFOs.
SPECIFICATION Spec
CONSTANTS
    Offices = {o1, o2}
    Users = {admin, u1, u2}
    ShutdownUsers = {admin}
    Impatient = {admin, u1, u2}
    Killable = {u1}
    NoUser = NoUser
SYMMETRY OfficeSymmetry
INVARIANTS TypeOK TokenInv RoomInv ActiveInv NoEarlyStart NoEarlyExit
           NoLateWriter NothingLeftBehind OneOwner OneReply
PROPERTY ImplementsLine
\* An office may wait for ever on the FIFO of a user that died.
CHECK_DEADLOCK FALSE
