---------------------------- MODULE DungeonMatch ----------------------------
(***************************************************************************)
(* Dungeon matching in the coordination service                            *)
(* (xr/service/coordination/contents/match/dungeon_match_coordinator.cpp,  *)
(* behind the four ...DungeonMatchAsync calls of coordination_service.cpp). *)
(*                                                                         *)
(* Everything runs on the strand of the service, so an action is what the  *)
(* code does between two co_awaits: one call of the service, one tick of   *)
(* Run, or the rest of HandleMatchGroupApproved after the launch.  Between *)
(* two actions users leave, and their game servers act on what they were   *)
(* last told.                                                              *)
(*                                                                         *)
(* A failed assertion and a null pointer that is used stop the program:    *)
(* fault names what happened and no action follows.                        *)
(*                                                                         *)
(* An operator named Mutant... is the operator that follows it with a      *)
(* plausible mistake in it; no action uses one.                            *)
(***************************************************************************)
EXTENDS Integers, Sequences, FiniteSets, SequencesExt

CONSTANTS
    Users,        \* game users: one id per login, never used again
    Dungeons,     \* zone ids of dungeons
    Servers,      \* game servers
    HomeServer,   \* the server where all users are at first
    Home,         \* their instance there
    Gone,         \* the place of a client that is lost
    GroupSize,    \* matchOrganizeSize
    MaxGroups,    \* bound: groups made for one dungeon
    MaxRequests   \* bound: RequestDungeonMatch calls that are accepted

ASSUME GroupSizeAssumption == GroupSize \in Nat \ {0}
ASSUME BoundAssumption == MaxGroups \in Nat /\ MaxRequests \in Nat

(* The n-th group of a dungeon; also the dungeon instance it launches. *)
GroupIds == Dungeons \X (1 .. MaxGroups)
Instances == {Home} \cup GroupIds
ASSUME HomeAssumption == HomeServer \in Servers /\ Home \notin GroupIds /\ Gone \notin Instances

VARIABLES
    online,      \* users in the node container
    parent,      \* GameUser::_parent
    migrating,   \* GameUser::_migrating
    client,      \* the instance a user's game client is in, or Gone
    host,        \* the server of each launched instance
    match,       \* _matchUsers: state and group of the users in it
    queue,       \* _matchQueues
    group,       \* _matchGroups: the decisions of each group's users
    nextGroup,   \* _nextGroupId, counted for each dungeon
    launching,   \* HandleMatchGroupApproved calls that await the launch
    failed,      \* groups whose launch has failed
    requests,    \* counts towards MaxRequests
    fault        \* what stopped the program

nodeVars == <<online, parent, migrating, client, host>>
matchVars == <<match, queue, group, nextGroup, launching, failed>>
vars == <<nodeVars, matchVars, requests, fault>>

Init ==
    /\ online = Users
    /\ parent = [u \in Users |-> Home]
    /\ migrating = [u \in Users |-> FALSE]
    /\ client = [u \in Users |-> Home]
    /\ host = [i \in {Home} |-> HomeServer]
    /\ match = <<>>
    /\ queue = [d \in Dungeons |-> <<>>]
    /\ group = <<>>
    /\ nextGroup = [d \in Dungeons |-> 0]
    /\ launching = <<>>
    /\ failed = {}
    /\ requests = 0
    /\ fault = "none"

(* The map without the keys ks. *)
Without(map, ks) == [k \in DOMAIN map \ ks |-> map[k]]

-----------------------------------------------------------------------------
(* The calls of a user's game server *)

(* FindGameUser: the instance and the server the game server names are the *)
(* ones the service has.                                                   *)
FindGameUser(u) == fault = "none" /\ u \in online /\ client[u] = parent[u]

RequestDungeonMatch(u, d) ==
    /\ FindGameUser(u)
    /\ u \notin DOMAIN match
    /\ requests < MaxRequests
    /\ requests' = requests + 1
    /\ match' = [v \in DOMAIN match \cup {u} |->
                    IF v = u THEN [state |-> "Waiting", dungeon |-> d] ELSE match[v]]
    /\ queue' = [queue EXCEPT ![d] = Append(@, u)]
    /\ UNCHANGED <<nodeVars, group, nextGroup, launching, failed, fault>>

MayCancel(u) ==
    /\ u \in DOMAIN match /\ match[u].state # "Grouped"
    /\ u \in ToSet(queue[match[u].dungeon])

(* The first one found is erased. *)
Dequeue(q, u) == RemoveAt(q, CHOOSE k \in DOMAIN q : q[k] = u)

CancelDungeonMatch(u) ==
    /\ FindGameUser(u)
    /\ MayCancel(u)
    /\ queue' = [queue EXCEPT ![match[u].dungeon] = Dequeue(@, u)]
    /\ match' = Without(match, {u})
    /\ UNCHANGED <<nodeVars, group, nextGroup, launching, failed, requests, fault>>

(* A user of a group may decide; FindGroup finds the group unless it is    *)
(* gone, and the code tests the id it searched for, not what it found.     *)
MayDecide(u) == FindGameUser(u) /\ u \in DOMAIN match /\ match[u].state = "Grouped"
GroupOf(u) == match[u].group

(* ApproveUserMatch or RejectUserMatch of a user whose group is gone. *)
DecideWithoutGroup(u) ==
    /\ MayDecide(u)
    /\ GroupOf(u) \notin DOMAIN group
    /\ fault' = "null group"
    /\ UNCHANGED <<nodeVars, matchVars, requests>>

(* SetUserDecision succeeds once. *)
Undecided(u) == MayDecide(u) /\ GroupOf(u) \in DOMAIN group /\ group[GroupOf(u)][u] = "Null"

MutantOneApproves(decisions) == \E u \in DOMAIN decisions : decisions[u] = "Approve"
IsApproval(decisions) == \A u \in DOMAIN decisions : decisions[u] = "Approve"

(* Approve; the last approval takes the group out and sends the launch     *)
(* command to the server the load balancer selects.                        *)
ApproveDungeonMatch(u, s) ==
    /\ Undecided(u)
    /\ LET g == GroupOf(u)
           decisions == [group[g] EXCEPT ![u] = "Approve"]
       IN IF IsApproval(decisions)
          THEN /\ launching' = [h \in DOMAIN launching \cup {g} |->
                                  IF h = g THEN [users |-> decisions, server |-> s]
                                           ELSE launching[h]]
               /\ group' = Without(group, {g})
          ELSE /\ group' = [group EXCEPT ![g] = decisions]
               /\ UNCHANGED launching
    /\ UNCHANGED <<nodeVars, match, queue, nextGroup, failed, requests, fault>>

(* FindServerWith: null for a user who has left. *)
HaveServer(us) == us \subseteq online

MutantOnlyRejecter(u, members) == {u}
Forgotten(u, members) == members

(* Reject: HandleMatchGroupRejected forgets the users and sends to each. *)
RejectDungeonMatch(u) ==
    /\ Undecided(u)
    /\ LET g == GroupOf(u)
           members == DOMAIN group[g]
       IN IF HaveServer(members)
          THEN /\ match' = Without(match, Forgotten(u, members))
               /\ group' = Without(group, {g})
               /\ UNCHANGED fault
          ELSE /\ fault' = "no server"
               /\ UNCHANGED <<match, group>>
    /\ UNCHANGED <<nodeVars, queue, nextGroup, launching, failed, requests>>

-----------------------------------------------------------------------------
(* Run *)

Formed(d) == Len(queue[d]) \div GroupSize
NewGroups == {g \in GroupIds : nextGroup[g[1]] < g[2] /\ g[2] <= nextGroup[g[1]] + Formed(g[1])}

MutantSkipsOne(g) == LET k == GroupSize * (g[2] - nextGroup[g[1]] - 1)
                     IN  ToSet(SubSeq(queue[g[1]], k + 2, k + GroupSize))
MembersOf(g) == LET k == GroupSize * (g[2] - nextGroup[g[1]] - 1)
                IN  ToSet(SubSeq(queue[g[1]], k + 1, k + GroupSize))

(* A tick: every queue gives its first users to as many groups as it can,  *)
(* and each of them is told.                                               *)
CreateMatchingGroup ==
    /\ fault = "none"
    /\ \E d \in Dungeons : Formed(d) > 0
    /\ \A d \in Dungeons : nextGroup[d] + Formed(d) <= MaxGroups
    /\ LET members == UNION {MembersOf(g) : g \in NewGroups}
       IN IF HaveServer(members)
          THEN /\ group' = [g \in DOMAIN group \cup NewGroups |->
                               IF g \in NewGroups THEN [u \in MembersOf(g) |-> "Null"]
                                                  ELSE group[g]]
               /\ match' = [u \in DOMAIN match |->
                               IF u \in members
                               THEN [state |-> "Grouped",
                                     group |-> CHOOSE g \in NewGroups : u \in MembersOf(g)]
                               ELSE match[u]]
               /\ queue' = [d \in Dungeons |->
                               SubSeq(queue[d], GroupSize * Formed(d) + 1, Len(queue[d]))]
               /\ nextGroup' = [d \in Dungeons |-> nextGroup[d] + Formed(d)]
               /\ UNCHANGED fault
          ELSE /\ fault' = "no server"
               /\ UNCHANGED <<group, match, queue, nextGroup>>
    /\ UNCHANGED <<nodeVars, launching, failed, requests>>

-----------------------------------------------------------------------------
(* The rest of HandleMatchGroupApproved *)

Launched(g) == [i \in DOMAIN host \cup {g} |-> IF i = g THEN launching[g].server ELSE host[i]]

Movers(g) == DOMAIN launching[g].users \cap online

Migrating(g) == [u \in Users |-> u \in Movers(g) \/ migrating[u]]

(* The dungeon runs: its users forget the match and move there. *)
LaunchSucceeds(g) ==
    /\ fault = "none"
    /\ g \in DOMAIN launching
    /\ host' = Launched(g)
    /\ match' = Without(match, DOMAIN launching[g].users)
    /\ parent' = [u \in Users |-> IF u \in Movers(g) THEN g ELSE parent[u]]
    /\ migrating' = Migrating(g)
    /\ launching' = Without(launching, {g})
    /\ UNCHANGED <<online, client, queue, group, nextGroup, failed, requests, fault>>

(* The server has answered with an exception: the coroutine ends there and *)
(* its users keep the state Grouped.                                       *)
LaunchFails(g) ==
    /\ fault = "none"
    /\ g \in DOMAIN launching
    /\ launching' = Without(launching, {g})
    /\ failed' = failed \cup {g}
    /\ UNCHANGED <<nodeVars, match, queue, group, nextGroup, requests, fault>>

-----------------------------------------------------------------------------
(* The users *)

(* The old server has released the client, which authenticates at the new  *)
(* one (AuthenticatePlayerAsync).                                          *)
Arrive(u) ==
    /\ fault = "none"
    /\ u \in online /\ client[u] # Gone
    /\ migrating[u]
    /\ client' = [client EXCEPT ![u] = parent[u]]
    /\ migrating' = [migrating EXCEPT ![u] = FALSE]
    /\ UNCHANGED <<online, parent, host, matchVars, requests, fault>>

MayRemove(u) == host[client[u]] = host[parent[u]]

(* A client is lost and its server calls RemovePlayerAsync, which refuses  *)
(* a server that is not the one of the user's instance.                    *)
Leave(u) ==
    /\ fault = "none"
    /\ u \in online /\ client[u] # Gone
    /\ client' = [client EXCEPT ![u] = Gone]
    /\ online' = IF MayRemove(u) THEN online \ {u} ELSE online
    /\ UNCHANGED <<parent, migrating, host, matchVars, requests, fault>>

(* Lost after the old server has released it: no server removes it. *)
LostOnTheWay(u) ==
    /\ fault = "none"
    /\ migrating[u] /\ client[u] # Gone
    /\ client' = [client EXCEPT ![u] = Gone]
    /\ UNCHANGED <<online, parent, migrating, host, matchVars, requests, fault>>

-----------------------------------------------------------------------------

UserCall(u) ==
    \/ \E d \in Dungeons : RequestDungeonMatch(u, d)
    \/ CancelDungeonMatch(u)
    \/ \E s \in Servers : ApproveDungeonMatch(u, s)
    \/ RejectDungeonMatch(u)
    \/ DecideWithoutGroup(u)

LaunchAnswer(g) == LaunchSucceeds(g) \/ LaunchFails(g)

Next ==
    \/ CreateMatchingGroup
    \/ \E g \in GroupIds : LaunchAnswer(g)
    \/ \E u \in Users : UserCall(u) \/ Arrive(u) \/ Leave(u) \/ LostOnTheWay(u)

Spec == Init /\ [][Next]_vars

-----------------------------------------------------------------------------
(* Properties *)

TypeOK ==
    /\ online \subseteq Users
    /\ DOMAIN host \subseteq Instances /\ \A i \in DOMAIN host : host[i] \in Servers
    /\ parent \in [Users -> DOMAIN host]
    /\ migrating \in [Users -> BOOLEAN]
    /\ client \in [Users -> DOMAIN host \cup {Gone}]
    /\ DOMAIN match \subseteq Users
    /\ queue \in [Dungeons -> Seq(Users)]
    /\ nextGroup \in [Dungeons -> 0 .. MaxGroups]
    /\ DOMAIN group \subseteq GroupIds /\ DOMAIN launching \subseteq GroupIds
    /\ failed \subseteq GroupIds
    /\ fault \in {"none", "null group", "no server"}

(* The users of a group that decides or launches are all in _matchUsers,   *)
(* Grouped, for this group: the assertions count > 0 of the code, and no   *)
(* user is in two groups.                                                  *)
Members(g) == IF g \in DOMAIN group THEN DOMAIN group[g] ELSE DOMAIN launching[g].users
GroupsAreWhole ==
    \A g \in DOMAIN group \cup DOMAIN launching :
        /\ Cardinality(Members(g)) = GroupSize
        /\ \A u \in Members(g) :
              u \in DOMAIN match /\ match[u].state = "Grouped" /\ match[u].group = g

(* A Grouped user, who can neither cancel nor request, has a group it can  *)
(* decide in, or the group's launch is under way or has failed.  Only the  *)
(* last two are where a decision runs into the null group, and only the    *)
(* last is for ever.                                                       *)
OnlyLaunchStrands ==
    \A u \in DOMAIN match :
        match[u].state = "Grouped" =>
            match[u].group \in DOMAIN group \cup DOMAIN launching \cup failed

(* A user's instance changes only to the dungeon of a group of which every *)
(* user has approved.                                                      *)
EnteredByAll ==
    [][\A u \in Users : parent'[u] # parent[u] =>
          LET g == parent'[u] IN
          /\ g \in DOMAIN launching /\ u \in DOMAIN launching[g].users
          /\ \A v \in DOMAIN launching[g].users : launching[g].users[v] = "Approve"]_vars

=============================================================================
