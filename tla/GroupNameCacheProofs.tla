------------------------ MODULE GroupNameCacheProofs ------------------------
(***************************************************************************)
(* Lemmas about GroupNameCache for any threads, scopes, hash and limit.    *)
(* They are about CacheNext; RoutingProofs lifts them to Routing's Spec.   *)
(***************************************************************************)
EXTENDS GroupNameCache, FiniteSetTheorems, TLAPS

\* A thread that is about to insert holds the lock, and its scope is still
\* missing.
GapIsLocked ==
  \A t \in Threads : lookup[t] = "missed" =>
    upgradeLock = t /\ asked[t] \notin DOMAIN cache

ReferenceIsGood ==
  \A t \in Threads : lookup[t] = "valid" => asked[t] \in DOMAIN cache

\* Only what was asked for is in the cache.
Remembered ==
  /\ DOMAIN cache \subseteq requested
  /\ \A t \in Threads : lookup[t] # "none" => asked[t] \in requested

\* Entries are destroyed only after more scopes were asked for than fit.
Few == Cardinality(requested) <= CacheLimit + 1

NothingDestroyed == Few => \A t \in Threads : lookup[t] # "dangling"

CacheInv ==
  /\ CacheTypeOK
  /\ CacheIsRight
  /\ CacheIsBounded
  /\ GapIsLocked
  /\ ReferenceIsGood
  /\ Remembered
  /\ NothingDestroyed

---------------------------------------------------------------------------

\* There is a scope.
LEMMA AnyScopeType == AnyScope \in Scopes
BY CacheAssumption DEF AnyScope

\* The groups of a scope are groups.
LEMMA GroupsOfType == \A s \in Scopes : GroupsOf(s) \in Seq(Groups)
<1> SUFFICES ASSUME NEW s \in Scopes PROVE GroupsOf(s) \in Seq(Groups)
  OBVIOUS
<1> DEFINE n == Len(SuperScopes[s])
<1>1. SuperScopes[s] \in Seq(Scopes)
  BY CacheAssumption
<1>2. n \in Nat /\ DOMAIN SuperScopes[s] = 1..n
  BY <1>1
<1>3. \A i \in 1..n : scopeToGroup[SuperScopes[s][i]] \in Groups
  BY <1>1, CacheAssumption
<1>4. GroupsOf(s) = [i \in 1..n |-> scopeToGroup[SuperScopes[s][i]]]
  BY <1>2 DEF GroupsOf
<1> QED
  BY <1>2, <1>3, <1>4

\* An empty cache is right.
LEMMA CacheInitHolds == CacheInit => CacheInv
<1> SUFFICES ASSUME CacheInit PROVE CacheInv
  OBVIOUS
<1>1. DOMAIN cache = {} /\ requested = {}
  BY DEF CacheInit
<1>2. Cardinality(DOMAIN cache) = 0 /\ IsFiniteSet(DOMAIN cache)
  BY <1>1, FS_EmptySet
<1> QED
  BY <1>1, <1>2, AnyScopeType, CacheAssumption
  DEF CacheInit, CacheInv, CacheTypeOK, Lookups, CacheIsRight, CacheIsBounded,
      GapIsLocked, ReferenceIsGood, Remembered, NothingDestroyed

\* A search does not change the cache, and asks for one scope more.
LEMMA FindStep ==
  ASSUME CacheInv, NEW t \in Threads, NEW s \in Scopes, Find(t, s)
  PROVE  CacheInv'
<1>1. UNCHANGED cache /\ requested' = requested \cup {s}
  BY DEF Find
<1>2. /\ IsFiniteSet(requested')
      /\ Cardinality(requested) <= Cardinality(requested')
      /\ Cardinality(requested) \in Nat /\ Cardinality(requested') \in Nat
  <2>1. IsFiniteSet(requested')
    BY <1>1, FS_AddElement DEF CacheInv, CacheTypeOK
  <2> QED
    BY <1>1, <2>1, FS_Subset, FS_CardinalityType DEF CacheInv, CacheTypeOK
<1>3. asked' = [asked EXCEPT ![t] = s]
  BY DEF Find
<1>4. PICK l \in {"valid", "missed"} :
        /\ lookup' = [lookup EXCEPT ![t] = l]
        /\ l = "valid" => s \in DOMAIN cache /\ upgradeLock' = upgradeLock
        /\ l = "missed" => s \notin DOMAIN cache /\ upgradeLock' = t
  BY DEF Find
<1>9. \A u \in Threads : lookup[u] # "missed"
  BY CacheAssumption DEF Find, CacheInv, GapIsLocked
<1>5. CacheTypeOK'
  BY <1>1, <1>2, <1>3, <1>4 DEF CacheInv, CacheTypeOK, Lookups
<1>6. CacheIsRight' /\ CacheIsBounded'
  BY <1>1 DEF CacheInv, CacheIsRight, CacheIsBounded, GroupsOf
<1>7. GapIsLocked' /\ ReferenceIsGood' /\ Remembered'
  BY <1>1, <1>3, <1>4, <1>9
  DEF CacheInv, CacheTypeOK, GapIsLocked, ReferenceIsGood, Remembered
<1>8. NothingDestroyed'
  <2>1. Few' => Few
    BY <1>2, CacheAssumption DEF Few
  <2>2. \A u \in Threads : lookup'[u] = "dangling" => lookup[u] = "dangling"
    BY <1>4 DEF CacheInv, CacheTypeOK
  <2> QED
    BY <2>1, <2>2 DEF CacheInv, NothingDestroyed
<1> QED
  BY <1>5, <1>6, <1>7, <1>8 DEF CacheInv

\* What is kept leaves room for one entry.
LEMMA RoomForOne ==
  ASSUME CacheInv
  PROVE  /\ Kept \subseteq DOMAIN cache /\ IsFiniteSet(Kept)
         /\ Cardinality(Kept) \in Nat /\ Cardinality(Kept) <= CacheLimit
<1>1. IsFiniteSet(DOMAIN cache) /\ Cardinality(DOMAIN cache) \in Nat
  BY FS_CardinalityType DEF CacheInv, CacheTypeOK
<1>2. CASE Full
  BY <1>2, FS_EmptySet, CacheAssumption DEF Kept
<1>3. CASE ~Full
  BY <1>1, <1>3, CacheAssumption DEF Kept, Full
<1> QED
  BY <1>2, <1>3

\* A cache is only cleared when more scopes were asked for than it holds.
LEMMA FullIsMany ==
  ASSUME CacheInv, NEW t \in Threads, lookup[t] = "missed", Full
  PROVE  ~Few
<1> DEFINE D == DOMAIN cache
<1>1. /\ IsFiniteSet(D) /\ IsFiniteSet(requested)
      /\ asked[t] \notin D /\ D \cup {asked[t]} \subseteq requested
  BY DEF CacheInv, CacheTypeOK, GapIsLocked, Remembered
<1>2. Cardinality(D \cup {asked[t]}) = Cardinality(D) + 1
  BY <1>1, FS_AddElement
<1>3. Cardinality(D \cup {asked[t]}) <= Cardinality(requested)
  BY <1>1, FS_Subset
<1>4. Cardinality(D) \in Nat /\ Cardinality(requested) \in Nat
  BY <1>1, FS_CardinalityType
<1> QED
  BY <1>2, <1>3, <1>4, CacheAssumption DEF Full, Few

\* An insertion, which makes room first if it has to.
LEMMA InsertStep ==
  ASSUME CacheInv, NEW t \in Threads, Insert(t)
  PROVE  CacheInv'
<1> DEFINE s == asked[t]
<1>1. /\ s \in Scopes /\ s \in requested /\ s \notin DOMAIN cache
      /\ lookup[t] = "missed" /\ upgradeLock = t
      /\ UNCHANGED <<asked, requested>> /\ upgradeLock' = NoThread
  BY DEF Insert, CacheInv, CacheTypeOK, GapIsLocked, Remembered
<1>2. /\ DOMAIN cache' = Kept \cup {s}
      /\ \A x \in Kept : cache'[x] = cache[x]
      /\ cache'[s] = <<>> \o GroupsOf(s)
  BY <1>1, RoomForOne DEF Insert
<1>3. cache'[s] = GroupsOf(s) /\ GroupsOf(s) \in Seq(Groups)
  BY <1>1, <1>2, GroupsOfType
<1>4. lookup' = [u \in Threads |->
        CASE u = t -> "valid"
          [] u # t /\ lookup[u] = "valid" /\ asked[u] \notin Kept -> "dangling"
          [] OTHER -> lookup[u]]
  BY DEF Insert
<1>5. /\ lookup' \in [Threads -> Lookups]
      /\ \A u \in Threads : lookup'[u] # "missed"
      /\ \A u \in Threads : lookup'[u] = "valid" => u = t \/ (lookup[u] = "valid" /\ asked[u] \in Kept)
      /\ \A u \in Threads : lookup'[u] # "none" => u = t \/ lookup[u] # "none"
      /\ \A u \in Threads : lookup'[u] = "dangling" =>
           lookup[u] = "dangling" \/ (lookup[u] = "valid" /\ asked[u] \notin Kept)
  <2>1. \A u \in Threads : u # t => lookup[u] # "missed"
    BY <1>1 DEF CacheInv, GapIsLocked
  <2>2. lookup'[t] = "valid"
    BY <1>4
  <2>3. ASSUME NEW u \in Threads, u # t
        PROVE  /\ \/ lookup'[u] = "dangling" /\ lookup[u] = "valid" /\ asked[u] \notin Kept
                  \/ lookup'[u] = lookup[u] /\ (lookup[u] = "valid" => asked[u] \in Kept)
               /\ lookup'[u] \in Lookups
    <3>1. lookup[u] \in Lookups
      BY DEF CacheInv, CacheTypeOK
    <3>2. CASE lookup[u] = "valid" /\ asked[u] \notin Kept
      BY <1>4, <2>3, <3>2 DEF Lookups
    <3>3. CASE ~(lookup[u] = "valid" /\ asked[u] \notin Kept)
      <4>1. lookup'[u] = lookup[u]
        BY <1>4, <2>3, <3>3
      <4> QED
        BY <3>1, <3>3, <4>1
    <3> QED
      BY <3>2, <3>3
  <2>4. lookup' \in [Threads -> Lookups]
    BY <1>4, <2>2, <2>3 DEF Lookups
  <2>5. \A u \in Threads :
          \/ u = t
          \/ lookup'[u] = lookup[u]
          \/ lookup'[u] = "dangling" /\ lookup[u] = "valid" /\ asked[u] \notin Kept
    BY <2>3
  <2>6. \A u \in Threads : u # t /\ lookup'[u] = "valid" => asked[u] \in Kept
    BY <2>3
  <2> HIDE DEF s
  <2> QED
    BY <2>1, <2>2, <2>4, <2>5, <2>6
<1>6. CacheIsRight'
  BY <1>2, <1>3, RoomForOne DEF CacheInv, CacheIsRight, GroupsOf
<1>7. IsFiniteSet(DOMAIN cache') /\ CacheIsBounded'
  <2>1. s \notin Kept
    BY <1>1, RoomForOne
  <2>2. /\ IsFiniteSet(Kept \cup {s})
        /\ Cardinality(Kept \cup {s}) = Cardinality(Kept) + 1
    BY <2>1, RoomForOne, FS_AddElement
  <2> QED
    BY <1>2, <2>2, RoomForOne, CacheAssumption DEF CacheIsBounded
<1>8. CacheTypeOK'
  BY <1>1, <1>2, <1>3, <1>5, <1>7, RoomForOne DEF CacheInv, CacheTypeOK
<1>9. GapIsLocked' /\ ReferenceIsGood' /\ Remembered'
  BY <1>1, <1>2, <1>5, RoomForOne DEF CacheInv, GapIsLocked, ReferenceIsGood, Remembered
<1>10. NothingDestroyed'
  <2>1. Few' <=> Few
    BY <1>1 DEF Few
  <2>2. ASSUME Few PROVE Kept = DOMAIN cache
    BY <1>1, <2>2, FullIsMany DEF Kept
  <2> QED
    BY <1>5, <2>1, <2>2 DEF CacheInv, NothingDestroyed, ReferenceIsGood
<1> QED
  BY <1>6, <1>7, <1>8, <1>9, <1>10 DEF CacheInv

\* Copying ends a lookup and leaves the cache alone.
LEMMA CopyStep ==
  ASSUME CacheInv, NEW t \in Threads, Copy(t)
  PROVE  CacheInv'
BY DEF Copy, CacheInv, CacheTypeOK, Lookups, CacheIsRight, CacheIsBounded, GroupsOf,
       GapIsLocked, ReferenceIsGood, Remembered, NothingDestroyed, Few

\* Steps of others leave the invariant as it is.
LEMMA CacheUnchanged ==
  ASSUME CacheInv, UNCHANGED cacheVars
  PROVE  CacheInv'
BY DEF cacheVars, CacheInv, CacheTypeOK, CacheIsRight, CacheIsBounded, GroupsOf,
       GapIsLocked, ReferenceIsGood, Remembered, NothingDestroyed, Few

\* The invariant of the cache by itself.
LEMMA CacheStep == CacheInv /\ [CacheNext]_cacheVars => CacheInv'
BY FindStep, InsertStep, CopyStep, CacheUnchanged DEF CacheNext

\* With nothing destroyed, what a thread reads is what its scope stands for.
LEMMA FewReadRight == CacheInv => RightWhileFew
<1> SUFFICES ASSUME CacheInv, Few, NEW t \in Threads,
                    lookup[t] \in {"valid", "dangling"}
             PROVE  Readable(t) = {Range(GroupsOf(asked[t]))}
  BY DEF RightWhileFew, RightGroups, Few
<1>1. lookup[t] = "valid" /\ asked[t] \in DOMAIN cache
  BY DEF CacheInv, NothingDestroyed, ReferenceIsGood
<1> QED
  BY <1>1 DEF Readable, CacheInv, CacheIsRight
=============================================================================
