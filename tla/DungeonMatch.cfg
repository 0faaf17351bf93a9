SPECIFICATION Spec
CONSTANTS
    u1 = u1  u2 = u2  u3 = u3  u4 = u4  d1 = d1  d2 = d2  s1 = s1  s2 = s2  Home = Home  Gone = Gone
    Servers = {s1, s2}
    HomeServer = s1
    GroupSize = 2
    Users = {u1, u2, u3, u4}
    Dungeons = {d1, d2}
    MaxGroups = 2
    MaxRequests = 4
INVARIANTS GroupsAreWhole OnlyLaunchStrands
PROPERTIES EnteredByAll
CHECK_DEADLOCK FALSE
