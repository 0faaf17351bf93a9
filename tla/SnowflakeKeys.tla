---------------------------- MODULE SnowflakeKeys ----------------------------
(***************************************************************************)
(* Unique ids.  The coordination service gives each server a snowflake key *)
(* (PublishSnowflakeKey, ReturnSnowflakeKeyAsync in coordination_service.cpp) *)
(* and a server builds its ids from the time, the low bits of its key and  *)
(* a sequence number (shared/snowflake/snowflake.h).                       *)
(*                                                                         *)
(* The calls of the service run on its strand and Generate under a mutex:  *)
(* each is one action.  A server that crashes forgets its key and asks for *)
(* another one when it is back.                                            *)
(*                                                                         *)
(* An operator named Mutant... is the operator that follows it with a      *)
(* plausible mistake in it; no action uses one.                            *)
(***************************************************************************)
EXTENDS Integers, Sequences, FiniteSets

CONSTANTS
    Requesters,   \* servers
    Keys,         \* 2 ^ (MACHINE_BIT + DATACENTER_BIT), 1024
    Sequences,    \* 2 ^ SEQUENCE_BIT, 4096
    MaxRequests,  \* bound: keys asked for
    MaxTime       \* bound: milliseconds

ASSUME SizeAssumption == Keys \in Nat \ {0} /\ Sequences \in Nat \ {0}
ASSUME BoundAssumption == MaxRequests \in Nat /\ MaxTime \in Nat \ {0}

VARIABLES
    next,           \* _nextSnowflake
    publishedKeys,  \* _publishedSnowflakeKeys
    returned,       \* _returnedSnowflakeKeys
    key,            \* the key a server has, or NoKey
    last,           \* _lastTimePoint of its generator
    sequence,       \* _sequence
    clock,          \* Clock::Now(); it does not go back
    ids,            \* all ids generated so far
    doubles,        \* the ids that were generated more than once
    keyRequests     \* counts towards MaxRequests

generator == <<last, sequence>>
keyVars == <<next, publishedKeys, returned, key, generator, clock, ids, doubles, keyRequests>>

NoKey == -1

KeyInit ==
    /\ next = 0
    /\ publishedKeys = {}
    /\ returned = <<>>
    /\ key = [r \in Requesters |-> NoKey]
    /\ last = [r \in Requesters |-> 0]
    /\ sequence = [r \in Requesters |-> 0]
    /\ clock = 1
    /\ ids = {}
    /\ doubles = {}
    /\ keyRequests = 0

-----------------------------------------------------------------------------
(* The coordination service *)

(* A server has its key: its generator is new. *)
Equip(r, k) ==
    /\ key' = [key EXCEPT ![r] = k]
    /\ last' = [last EXCEPT ![r] = 0]
    /\ sequence' = [sequence EXCEPT ![r] = 0]

Advanced == next + 1

InPool == next <= Keys

Publish(r, k) == publishedKeys \cup {<<r, k>>}

(* RequestSnowflakeKeyAsync: the counter first, then what was returned.    *)
(* _nextSnowflake advances in every call.                                  *)
RequestSnowflakeKey(r) ==
    /\ key[r] = NoKey
    /\ keyRequests < MaxRequests
    /\ keyRequests' = keyRequests + 1
    /\ next' = Advanced
    /\ \/ /\ InPool
          /\ publishedKeys' = Publish(r, next)
          /\ Equip(r, next)
          /\ UNCHANGED returned
       \/ /\ ~InPool /\ returned # <<>>
          /\ publishedKeys' = Publish(r, Head(returned))
          /\ Equip(r, Head(returned))
          /\ returned' = Tail(returned)
       \/ /\ ~InPool /\ returned = <<>>
          /\ UNCHANGED <<publishedKeys, key, generator, returned>>
    /\ UNCHANGED <<clock, ids, doubles>>

MutantStaysPublished(entry) == publishedKeys
Unpublish(entry) == publishedKeys \ {entry}

(* ReturnSnowflakeKeyAsync of a key that is published to the requester. *)
ReturnSnowflakeKey(r) ==
    /\ <<r, key[r]>> \in publishedKeys
    /\ returned' = Append(returned, key[r])
    /\ publishedKeys' = Unpublish(<<r, key[r]>>)
    /\ key' = [key EXCEPT ![r] = NoKey]
    /\ UNCHANGED <<next, generator, clock, ids, doubles, keyRequests>>

-----------------------------------------------------------------------------
(* The servers *)

Crash(r) ==
    /\ key[r] # NoKey
    /\ key' = [key EXCEPT ![r] = NoKey]
    /\ UNCHANGED <<next, publishedKeys, returned, generator, clock, ids, doubles, keyRequests>>

(* The id of a time, a key and a sequence number: machine and data centre  *)
(* are the low bits of the key.                                            *)
Id(t, k, s) == <<t, k % Keys, s>>

MutantNeverWaits(r) == TRUE
HasNumber(r) == clock # last[r] \/ sequence[r] + 1 < Sequences

(* Generate.  When the numbers of a millisecond are used up the call spins *)
(* until the clock has advanced.                                           *)
Generate(r) ==
    /\ key[r] # NoKey
    /\ HasNumber(r)
    /\ LET s == IF clock = last[r] THEN (sequence[r] + 1) % Sequences ELSE 0
           id == Id(clock, key[r], s)
       IN /\ sequence' = [sequence EXCEPT ![r] = s]
          /\ ids' = ids \cup {id}
          /\ doubles' = IF id \in ids THEN doubles \cup {id} ELSE doubles
    /\ last' = [last EXCEPT ![r] = clock]
    /\ UNCHANGED <<next, publishedKeys, returned, key, clock, keyRequests>>

Tick ==
    /\ clock < MaxTime
    /\ clock' = clock + 1
    /\ UNCHANGED <<next, publishedKeys, returned, key, generator, ids, doubles, keyRequests>>

-----------------------------------------------------------------------------

KeyNext ==
    \/ Tick
    \/ \E r \in Requesters :
          RequestSnowflakeKey(r) \/ ReturnSnowflakeKey(r) \/ Crash(r) \/ Generate(r)

KeySpec == KeyInit /\ [][KeyNext]_keyVars

-----------------------------------------------------------------------------
(* Properties *)

KeyTypeOK ==
    /\ next \in Nat
    /\ publishedKeys \subseteq Requesters \X (0 .. Keys)
    /\ returned \in Seq(0 .. Keys)
    /\ key \in [Requesters -> (0 .. Keys) \cup {NoKey}]
    /\ last \in [Requesters -> 0 .. MaxTime]
    /\ sequence \in [Requesters -> 0 .. Sequences - 1]
    /\ clock \in 1 .. MaxTime
    /\ ids \subseteq Nat \X Nat \X Nat
    /\ keyRequests \in 0 .. MaxRequests

(* A key is published to one server or waits to be published again, never  *)
(* two of these at once, through every order of requests, returns and      *)
(* crashes; and a server that has a key is the one it is published to.     *)
EveryKeyOnce ==
    /\ \A e, f \in publishedKeys : e[2] = f[2] => e = f
    /\ \A i, j \in DOMAIN returned : returned[i] = returned[j] => i = j
    /\ \A e \in publishedKeys : \A i \in DOMAIN returned : e[2] # returned[i]
    /\ \A r \in Requesters : key[r] # NoKey => <<r, key[r]>> \in publishedKeys

(* No id is generated twice before the counter has given out all keys that *)
(* fit in the id.                                                          *)
UniqueWithinPool == next <= Keys => doubles = {}

(* What the proofs of the two rest on.  A key that is out comes from below *)
(* the counter; an id bears a time that has been and a key that is out, and *)
(* those of this millisecond and a server's key have numbers its generator  *)
(* has passed.                                                              *)
KeysAreOld ==
    /\ \A e \in publishedKeys : e[2] < next
    /\ \A i \in DOMAIN returned : returned[i] < next
KeysInv == KeyTypeOK /\ EveryKeyOnce /\ KeysAreOld

IdsArePast ==
    next <= Keys =>
        /\ \A id \in ids : id[1] <= clock /\ id[2] < next
        /\ \A r \in Requesters : \A id \in ids :
              key[r] = id[2] /\ clock = id[1] => last[r] = clock /\ id[3] <= sequence[r]
IndInv == KeysInv /\ IdsArePast /\ UniqueWithinPool

=============================================================================
