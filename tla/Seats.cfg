SPECIFICATION Spec
CONSTANTS
    Procs = {p1, p2}
    NoProc = NoProc
    MaxRequests = 9
    Users <- MCUsers
    Owner = 0
    InvitableRoles = {MEMBER}
    Workspaces = {w1}
    FirstWs = w1
    Slugs = {s1}
    NoSlug = NoSlug
    Names = {n1}
    EnvCeilings = {0, 7}
    StoredValues = {Absent}
    Absent = Absent
    Null = Null
    Malformed = Malformed
    NoCeiling = NoCeiling
    Traffics <- MCTraffics
    Admin = p1
    Invitee = p2
    Waiting = 6
CHECK_DEADLOCK FALSE
INVARIANTS PeopleWithinSeats
