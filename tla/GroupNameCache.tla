--------------------------- MODULE GroupNameCache ---------------------------
(***************************************************************************)
(* The cache of Spread group names of one out-connector, and the threads   *)
(* that look scopes up in it while they publish (GroupNameCache.cpp).      *)
(* scopeToGroups returns a reference to an entry, after it has let go of   *)
(* the lock; the caller copies the entry later.                            *)
(***************************************************************************)
EXTENDS Naturals, Sequences, FiniteSets, Functions

CONSTANTS
  Threads,        \* threads that publish through the connector
  NoThread,
  Scopes,
  Groups,
  SuperScopes,    \* Scope::superScopes(true): a scope and those above it
  scopeToGroup,   \* a hash that is cut off: two scopes may have one group
  CacheLimit      \* 300

ASSUME CacheAssumption ==
  /\ NoThread \notin Threads
  /\ Scopes # {}
  /\ SuperScopes \in [Scopes -> Seq(Scopes)]
  /\ scopeToGroup \in [Scopes -> Groups]
  /\ CacheLimit \in Nat

VARIABLES
  cache,      \* GroupNameCache::cache, a function on the scopes it holds
  upgradeLock,\* the thread that has GroupNameCache::mutex, or NoThread
  lookup,     \* how far the scopeToGroups of each thread is
  asked,      \* the scope it asks for
  requested   \* history: the scopes asked for so far

cacheVars == <<cache, upgradeLock, lookup, asked, requested>>

Lookups == {"none", "missed", "valid", "dangling"}

CacheTypeOK ==
  /\ IsFiniteSet(DOMAIN cache) /\ DOMAIN cache \subseteq Scopes
  /\ \A s \in DOMAIN cache : cache[s] \in Seq(Groups)
  /\ upgradeLock \in Threads \cup {NoThread}
  /\ lookup \in [Threads -> Lookups]
  /\ asked \in [Threads -> Scopes]
  /\ IsFiniteSet(requested) /\ requested \subseteq Scopes

\* Nothing has been asked for yet.
AnyScope == CHOOSE s \in Scopes : TRUE

CacheInit ==
  /\ cache = [s \in {} |-> <<>>]
  /\ upgradeLock = NoThread
  /\ lookup = [t \in Threads |-> "none"]
  /\ asked = [t \in Threads |-> AnyScope]
  /\ requested = {}

GroupsOf(s) == [i \in DOMAIN SuperScopes[s] |-> scopeToGroup[SuperScopes[s][i]]]

\* Mutant: a shared lock, which does not keep others out of the gap between
\* search and insertion.
FindShared(t, s) ==
  /\ lookup[t] = "none"
  /\ asked' = [asked EXCEPT ![t] = s]
  /\ requested' = requested \cup {s}
  /\ lookup' = [lookup EXCEPT ![t] = IF s \in DOMAIN cache THEN "valid" ELSE "missed"]
  /\ UNCHANGED <<cache, upgradeLock>>

\* The search under the upgrade lock: an entry is returned, and the lock
\* released with it; without an entry the lock is kept.
Find(t, s) ==
  /\ lookup[t] = "none"
  /\ upgradeLock = NoThread
  /\ asked' = [asked EXCEPT ![t] = s]
  /\ requested' = requested \cup {s}
  /\ \/ /\ s \in DOMAIN cache
        /\ lookup' = [lookup EXCEPT ![t] = "valid"]
        /\ UNCHANGED upgradeLock
     \/ /\ s \notin DOMAIN cache
        /\ lookup' = [lookup EXCEPT ![t] = "missed"]
        /\ upgradeLock' = t
  /\ UNCHANGED <<cache>>

\* Mutant: one entry too early.
FullEarly == Cardinality(DOMAIN cache) >= CacheLimit

Full == Cardinality(DOMAIN cache) > CacheLimit

\* Mutant: the limit is never looked at.
KeptAll == DOMAIN cache

\* The entries that survive the clearing of a flooded cache.
Kept == IF Full THEN {} ELSE DOMAIN cache

\* The insertion, which ends with the release of the lock.  push_back appends
\* to what cache[scope] holds.  Clearing the map destroys the entries that
\* other threads still have references to.
Insert(t) ==
  LET s   == asked[t]
      old == IF s \in Kept THEN cache[s] ELSE <<>>
  IN /\ lookup[t] = "missed"
     /\ cache' = [x \in Kept \cup {s} |->
                    IF x = s THEN old \o GroupsOf(s) ELSE cache[x]]
     /\ lookup' = [u \in Threads |->
          CASE u = t -> "valid"
            [] u # t /\ lookup[u] = "valid" /\ asked[u] \notin Kept -> "dangling"
            [] OTHER -> lookup[u]]
     /\ upgradeLock' = NoThread
     /\ UNCHANGED <<asked, requested>>

\* What a thread can read through its reference: anything, if the entry has
\* been destroyed.
Readable(t) ==
  IF lookup[t] = "valid" THEN {Range(cache[asked[t]])} ELSE SUBSET Groups

\* notification->groups = scopeToGroups(...): the copy through the reference.
Copy(t) ==
  /\ lookup[t] \in {"valid", "dangling"}
  /\ lookup' = [lookup EXCEPT ![t] = "none"]
  /\ UNCHANGED <<cache, upgradeLock, asked, requested>>

CacheNext ==
  \E t \in Threads :
    \/ \E s \in Scopes : Find(t, s)
    \/ Insert(t)
    \/ Copy(t)

---------------------------------------------------------------------------

\* An entry holds the group of each super-scope, once, in order, whatever
\* threads meet at an insertion (scopeToGroups, upgrade lock kept from the
\* search to the last push_back).
CacheIsRight == \A s \in DOMAIN cache : cache[s] = GroupsOf(s)

\* The cache is not flooded: it never holds more than one entry beyond the
\* limit ("avoid flooding the cache").
CacheIsBounded == Cardinality(DOMAIN cache) <= CacheLimit + 1

\* The comment on scopeToGroups: "Returns Spread group names for @a scope and
\* its super-scopes."  What the caller reads is what its scope stands for.
RightGroups ==
  \A t \in Threads :
    lookup[t] \in {"valid", "dangling"} => Readable(t) = {Range(GroupsOf(asked[t]))}

\* As long as a connector has published on no more scopes than the cache
\* holds, nothing is ever cleared and every caller gets the right groups.
RightWhileFew == Cardinality(requested) <= CacheLimit + 1 => RightGroups
=============================================================================
