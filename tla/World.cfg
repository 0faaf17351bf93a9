SPECIFICATION Spec
CONSTANTS
    s1 = s1
    s2 = s2
    u1 = u1
    u2 = u2
    z = z
    None = None
    Servers = {s1}
    Users = {u1, u2}
    Zone <- zone
    Sessions = {1, 2}
    MaxInstances = 2
    MaxAuth = 2
CHECK_DEADLOCK FALSE
INVARIANTS RegistryMatchesServers ClientsAreUsers
PROPERTIES AddPlayerReturns LostPlayersLeave
