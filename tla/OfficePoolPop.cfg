\* A user that times out leaves its request queued while the server ends.
SPECIFICATION Spec
CONSTANTS
    Offices = {o1, o2}
    Users = {admin, u1}
    ShutdownUsers = {admin}
    Impatient = {admin, u1}
    Killable = {}
    NoUser = NoUser
INVARIANT PopFindsRequest
CHECK_DEADLOCK FALSE
