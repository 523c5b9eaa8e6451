\* Two offices, a shutdown and two requests; users wait for their replies.
SPECIFICATION FairSpec
CONSTANTS
    Offices = {o1, o2}
    Users = {admin, u1, u2}
    ShutdownUsers = {admin}
    Impatient = {}
    Killable = {}
    NoUser = NoUser
INVARIANTS PopFindsRequest
PROPERTIES EveryUserAnswered ShutdownEnds ImplementsFairLine
