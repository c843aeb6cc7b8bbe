------------------------- MODULE AssemblyPoolProofs -------------------------
(***************************************************************************)
(* Proofs about AssemblyPool for any events, numbers of parts, ages and    *)
(* numbers of controllers.                                                 *)
(***************************************************************************)
EXTENDS AssemblyPool, FiniteSetTheorems, TLAPS

\* The scan is over when the pool is not locked.
ScanIsOver == task # "scanning" => todo = {}

IInv ==
  /\ TypeOK
  /\ ScanIsOver
  /\ IteratorStaysValid
  /\ StoppedWhenReturned
  /\ PoolIsSound
  /\ FragmentsConserved

---------------------------------------------------------------------------
(* Lemmas about parts and slots. *)

\* The slots of an event are as many as its parts.
LEMMA SlotCount ==
  ASSUME NEW e \in Events
  PROVE  IsFiniteSet(PartsOf(e)) /\ Cardinality(PartsOf(e)) = Parts[e]
BY PartsAssumption, FS_Interval DEF PartsOf

\* Filling one more slot raises the number of filled slots by one, and with
\* the last of them all parts are there.
LEMMA SlotFilled ==
  ASSUME NEW e \in Events, NEW S \in SUBSET PartsOf(e), NEW i \in PartsOf(e) \ S
  PROVE  /\ Cardinality(S) \in Nat
         /\ Cardinality(S \cup {i}) = Cardinality(S) + 1
         /\ Cardinality(S) + 1 <= Parts[e]
         /\ Cardinality(S) + 1 = Parts[e] => S \cup {i} = PartsOf(e)
<1>1. IsFiniteSet(S)
  BY SlotCount, FS_Subset
<1>2. Cardinality(S) \in Nat
  BY <1>1, FS_CardinalityType
<1>3. Cardinality(S \cup {i}) = Cardinality(S) + 1
  BY <1>1, FS_AddElement
<1>4. S \cup {i} \subseteq PartsOf(e)
  OBVIOUS
<1>5. /\ Cardinality(S \cup {i}) <= Parts[e]
      /\ Cardinality(S \cup {i}) = Parts[e] => S \cup {i} = PartsOf(e)
  BY <1>4, SlotCount, FS_Subset
<1> QED
  BY <1>2, <1>3, <1>5

\* A fragment is an event and one of its parts.
LEMMA FragmentPair ==
  /\ \A e \in Events : \A i \in PartsOf(e) : <<e, i>> \in Fragments
  /\ \A f \in Fragments : /\ f[1] \in Events /\ f[2] \in PartsOf(f[1])
                          /\ f = <<f[1], f[2]>>
BY DEF Fragments

---------------------------------------------------------------------------
(* Type correctness. *)

\* The initial state has the types.
LEMMA TypeInit == Init => TypeOK
<1> SUFFICES ASSUME Init PROVE TypeOK
  OBVIOUS
<1>1. /\ store \in [Events -> SUBSET Nat] /\ receivedParts \in [Events -> Nat]
      /\ \A e \in Events : receivedParts[e] \in PartsOf(e)
  BY PartsAssumption DEF Init, PartsOf
<1>2. age \in [Events -> 0..(MaxAge + 1)]
  BY AgeAssumption DEF Init
<1>3. /\ delivered \in [Events -> Nat]
      /\ added \in [Fragments -> Nat]
      /\ discarded \in [Fragments -> Nat]
  BY DEF Init
<1> QED
  BY <1>1, <1>2, <1>3 DEF Init, TypeOK

\* Every step keeps the types.
LEMMA TypeStep == TypeOK /\ [Next]_vars => TypeOK'
<1> SUFFICES ASSUME TypeOK, [Next]_vars PROVE TypeOK'
  OBVIOUS
<1> USE OwnerAssumption, AgeAssumption, CopiesAssumption
    DEF TypeOK, poolVars, taskVars, history
<1>1. ASSUME NEW e \in Events, NEW i \in PartsOf(e), Add(e, i) PROVE TypeOK'
  <2>1. i \in Nat /\ <<e, i>> \in Fragments
    BY PartsAssumption, FragmentPair DEF PartsOf
  <2>2. inTransit' \in [Fragments -> 0..MaxCopies]
    BY <1>1, <2>1 DEF Add, Arrives
  <2>3. /\ store' \in [Events -> SUBSET Nat]
        /\ receivedParts' \in [Events -> Nat]
        /\ age' \in [Events -> 0..(MaxAge + 1)]
        /\ \A d \in Events : receivedParts'[d] \in PartsOf(d)
    BY <1>1, <2>1, PartsAssumption DEF Add, Complete, PartsOf
  <2>4. delivered' \in [Events -> Nat] /\ added' \in [Fragments -> Nat]
    BY <1>1, <2>1 DEF Add
  <2> QED
    BY <1>1, <2>2, <2>3, <2>4 DEF Add
<1>2. ASSUME NEW e \in Events, NEW i \in PartsOf(e), AddThrows(e, i) PROVE TypeOK'
  <2>1. <<e, i>> \in Fragments
    BY FragmentPair
  <2> QED
    BY <1>2, <2>1 DEF AddThrows, Arrives
<1>3. CASE Wake \/ LockPool \/ UnlockPool
  BY <1>3 DEF Wake, LockPool, UnlockPool
<1>4. ASSUME NEW e \in Events, Scan(e) PROVE TypeOK'
  BY <1>4, PartsAssumption DEF Scan, PartsOf
<1>5. CASE Tick
  <2>1. age' \in [Events -> 0..(MaxAge + 1)]
    BY <1>5 DEF Tick
  <2> QED
    BY <1>5, <2>1 DEF Tick
<1>6. CASE StartPruning
  BY <1>6 DEF StartPruning
<1>7. ASSUME NEW k \in Controllers, StopPruning(k) \/ StopReturns(k) PROVE TypeOK'
  BY <1>7 DEF StopPruning, StopReturns
<1>8. CASE Destroy
  BY <1>8 DEF Destroy
<1>9. CASE UNCHANGED vars
  BY <1>9 DEF vars
<1> QED
  BY <1>1, <1>2, <1>3, <1>4, <1>5, <1>6, <1>7, <1>8, <1>9 DEF Next, PrunerStep

---------------------------------------------------------------------------
(* The scan, the controllers and the destructor. *)

\* The scan and add() exclude each other; nothing is erased under the scan
\* and the task is waited for.
LEMMA ScanStep ==
  TypeOK /\ ScanIsOver /\ IteratorStaysValid /\ StoppedWhenReturned /\ [Next]_vars
    => (ScanIsOver /\ IteratorStaysValid /\ StoppedWhenReturned)'
<1> SUFFICES ASSUME TypeOK, ScanIsOver, IteratorStaysValid, StoppedWhenReturned,
                    [Next]_vars
             PROVE  (ScanIsOver /\ IteratorStaysValid /\ StoppedWhenReturned)'
  OBVIOUS
<1> USE OwnerAssumption
    DEF TypeOK, ScanIsOver, IteratorStaysValid, StoppedWhenReturned, poolVars,
        taskVars, history
<1>1. ASSUME NEW e \in Events, NEW i \in PartsOf(e), Add(e, i) \/ AddThrows(e, i)
      PROVE  (ScanIsOver /\ IteratorStaysValid /\ StoppedWhenReturned)'
  BY <1>1 DEF Add, AddThrows, PoolLocked
<1>2. CASE PrunerStep
  BY <1>2 DEF PrunerStep, Wake, LockPool, Scan, UnlockPool
<1>3. CASE Tick \/ StartPruning \/ Destroy
  BY <1>3 DEF Tick, StartPruning, Destroy, Idle, isPruning
<1>4. ASSUME NEW k \in Controllers, StopPruning(k) \/ StopReturns(k)
      PROVE  (ScanIsOver /\ IteratorStaysValid /\ StoppedWhenReturned)'
  BY <1>4 DEF StopPruning, StopReturns
<1>5. CASE UNCHANGED vars
  BY <1>5 DEF vars
<1> QED
  BY <1>1, <1>2, <1>3, <1>4, <1>5 DEF Next

---------------------------------------------------------------------------
(* Fragments and assemblies. *)

\* add() keeps the assemblies sound and loses no fragment.
LEMMA AddStep ==
  ASSUME TypeOK, PoolIsSound, FragmentsConserved,
         NEW e \in Events, NEW i \in PartsOf(e), Add(e, i)
  PROVE  (PoolIsSound /\ FragmentsConserved)'
<1>1. /\ store[e] \in SUBSET PartsOf(e) /\ i \notin store[e]
      /\ receivedParts[e] = Cardinality(store[e])
  BY DEF Add, PoolIsSound
<1>2. /\ Cardinality(store[e]) \in Nat
      /\ Cardinality(store[e] \cup {i}) = Cardinality(store[e]) + 1
      /\ Cardinality(store[e]) + 1 <= Parts[e]
      /\ Cardinality(store[e]) + 1 = Parts[e] => store[e] \cup {i} = PartsOf(e)
  BY <1>1, SlotFilled
<1>3. Cardinality({}) = 0 /\ Parts[e] \in Nat \ {0}
  BY FS_EmptySet, PartsAssumption
<1>4. <<e, i>> \in Fragments
  BY FragmentPair
<1>5. CASE Complete(e)
  <2>1. /\ store' = [store EXCEPT ![e] = {}]
        /\ receivedParts' = [receivedParts EXCEPT ![e] = 0]
        /\ pooled' = pooled \ {e}
        /\ delivered' = [delivered EXCEPT ![e] = @ + 1]
        /\ added' = [added EXCEPT ![<<e, i>>] = @ + 1]
        /\ discarded' = discarded
    BY <1>5 DEF Add
  <2>2. PoolIsSound'
    BY <2>1, <1>3 DEF PoolIsSound, TypeOK
  <2>3. store[e] \cup {i} = PartsOf(e)
    BY <1>1, <1>2, <1>5 DEF Complete
  <2>4. FragmentsConserved'
    <3> SUFFICES ASSUME NEW f \in Fragments
                 PROVE  added'[f] = delivered'[f[1]] + discarded'[f]
                                      + IF f[2] \in store'[f[1]] THEN 1 ELSE 0
      BY DEF FragmentsConserved
    <3>1. /\ f[1] \in Events /\ f[2] \in PartsOf(f[1]) /\ f = <<f[1], f[2]>>
          /\ added[f] \in Nat /\ discarded[f] \in Nat /\ delivered[f[1]] \in Nat
          /\ added[f] = delivered[f[1]] + discarded[f]
                          + IF f[2] \in store[f[1]] THEN 1 ELSE 0
      BY FragmentPair DEF FragmentsConserved, TypeOK
    <3>2. CASE f = <<e, i>>
      BY <2>1, <2>3, <1>1, <1>4, <3>1, <3>2 DEF TypeOK
    <3>3. CASE f # <<e, i>> /\ f[1] = e
      BY <2>1, <2>3, <1>1, <1>4, <3>1, <3>3 DEF TypeOK
    <3>4. CASE f[1] # e
      BY <2>1, <1>4, <3>1, <3>4 DEF TypeOK
    <3> QED
      BY <3>2, <3>3, <3>4
  <2> QED
    BY <2>2, <2>4
<1>6. CASE ~Complete(e)
  <2>1. /\ store' = [store EXCEPT ![e] = @ \cup {i}]
        /\ receivedParts' = [receivedParts EXCEPT ![e] = @ + 1]
        /\ pooled' = pooled \cup {e}
        /\ added' = [added EXCEPT ![<<e, i>>] = @ + 1]
        /\ UNCHANGED <<delivered, discarded>>
    BY <1>6 DEF Add
  <2>2. PoolIsSound'
    BY <2>1, <1>1, <1>2, <1>3, <1>6 DEF PoolIsSound, Complete, TypeOK
  <2>3. FragmentsConserved'
    <3> SUFFICES ASSUME NEW f \in Fragments
                 PROVE  added'[f] = delivered'[f[1]] + discarded'[f]
                                      + IF f[2] \in store'[f[1]] THEN 1 ELSE 0
      BY DEF FragmentsConserved
    <3>1. /\ f[1] \in Events /\ f[2] \in PartsOf(f[1]) /\ f = <<f[1], f[2]>>
          /\ added[f] \in Nat /\ discarded[f] \in Nat /\ delivered[f[1]] \in Nat
          /\ added[f] = delivered[f[1]] + discarded[f]
                          + IF f[2] \in store[f[1]] THEN 1 ELSE 0
      BY FragmentPair DEF FragmentsConserved, TypeOK
    <3>2. CASE f = <<e, i>>
      BY <2>1, <1>1, <1>4, <3>1, <3>2 DEF TypeOK
    <3>3. CASE f # <<e, i>> /\ f[1] = e
      BY <2>1, <1>1, <1>4, <3>1, <3>3 DEF TypeOK
    <3>4. CASE f[1] # e
      BY <2>1, <1>4, <3>1, <3>4 DEF TypeOK
    <3> QED
      BY <3>2, <3>3, <3>4
  <2> QED
    BY <2>2, <2>3
<1> QED
  BY <1>5, <1>6

\* Pruning takes an assembly out as a whole and accounts for its fragments.
LEMMA PruneStep ==
  ASSUME TypeOK, PoolIsSound, FragmentsConserved, NEW e \in Events, Scan(e)
  PROVE  (PoolIsSound /\ FragmentsConserved)'
<1>1. Cardinality({}) = 0 /\ Parts[e] \in Nat \ {0}
  BY FS_EmptySet, PartsAssumption
<1>2. CASE age[e] > MaxAge
  <2>1. /\ store' = [store EXCEPT ![e] = {}]
        /\ receivedParts' = [receivedParts EXCEPT ![e] = 0]
        /\ pooled' = pooled \ {e}
        /\ discarded' = [f \in Fragments |->
             discarded[f] + IF f[1] = e /\ f[2] \in store[e] THEN 1 ELSE 0]
        /\ UNCHANGED <<delivered, added>>
    BY <1>2, AgeAssumption DEF Scan, TypeOK, poolVars
  <2>2. PoolIsSound'
    BY <2>1, <1>1 DEF PoolIsSound, TypeOK
  <2>3. FragmentsConserved'
    BY <2>1, FragmentPair DEF FragmentsConserved, TypeOK
  <2> QED
    BY <2>2, <2>3
<1>3. CASE ~(age[e] > MaxAge)
  BY <1>3 DEF Scan, PoolIsSound, FragmentsConserved, poolVars
<1> QED
  BY <1>2, <1>3

\* No other step touches assemblies or the history of fragments.
LEMMA PoolStep ==
  TypeOK /\ PoolIsSound /\ FragmentsConserved /\ [Next]_vars
    => (PoolIsSound /\ FragmentsConserved)'
<1> SUFFICES ASSUME TypeOK, PoolIsSound, FragmentsConserved, [Next]_vars
             PROVE  (PoolIsSound /\ FragmentsConserved)'
  OBVIOUS
<1>1. ASSUME UNCHANGED <<pooled, store, receivedParts, delivered, added, discarded>>
      PROVE  (PoolIsSound /\ FragmentsConserved)'
  BY <1>1 DEF PoolIsSound, FragmentsConserved
<1>2. \/ \E e \in Events : \E i \in PartsOf(e) : Add(e, i)
      \/ \E e \in Events : Scan(e)
      \/ UNCHANGED <<pooled, store, receivedParts, delivered, added, discarded>>
  BY DEF Next, PrunerStep, AddThrows, Wake, LockPool, UnlockPool, Tick, StartPruning,
    StopPruning, StopReturns, Destroy, vars, poolVars, taskVars, history
<1> QED
  BY <1>1, <1>2, AddStep, PruneStep

---------------------------------------------------------------------------
(* The theorems. *)

\* The invariant holds initially.
LEMMA InvInit == Init => IInv
<1> SUFFICES ASSUME Init PROVE IInv
  OBVIOUS
<1>1. PoolIsSound
  BY FS_EmptySet, PartsAssumption DEF Init, PoolIsSound
<1>2. FragmentsConserved
  BY FragmentPair DEF Init, FragmentsConserved
<1> QED
  BY <1>1, <1>2, TypeInit
  DEF Init, IInv, ScanIsOver, IteratorStaysValid, StoppedWhenReturned

\* The invariant holds in every reachable state.
LEMMA Invariance == Spec => []IInv
<1>1. IInv /\ [Next]_vars => IInv'
  BY TypeStep, ScanStep, PoolStep DEF IInv
<1> QED
  BY <1>1, InvInit, PTL DEF Spec

\* Every variable of the pool has its type.
THEOREM TypeCorrect == Spec => []TypeOK
<1>1. IInv => TypeOK
  BY DEF IInv
<1> QED
  BY <1>1, Invariance, PTL

\* Every accepted fragment is returned in a notification, pruned, or waiting
\* in its slot, exactly once.
THEOREM Conservation == Spec => []FragmentsConserved
<1>1. IInv => FragmentsConserved
  BY DEF IInv
<1> QED
  BY <1>1, Invariance, PTL

\* The counters are exact, and what was taken out has left nothing behind.
THEOREM Soundness == Spec => []PoolIsSound
<1>1. IInv => PoolIsSound
  BY DEF IInv
<1> QED
  BY <1>1, Invariance, PTL

\* An event of which every part was accepted and none pruned was returned.
THEOREM Completion == Spec => []CompleteIsDelivered
<1>1. ASSUME IInv, NEW e \in Events,
             \A i \in PartsOf(e) : added[<<e, i>>] > 0 /\ discarded[<<e, i>>] = 0
      PROVE  delivered[e] > 0
  <2> SUFFICES ASSUME delivered[e] = 0 PROVE FALSE
    BY <1>1 DEF IInv, TypeOK
  <2>1. ASSUME NEW i \in PartsOf(e) PROVE i \in store[e]
    <3>1. /\ <<e, i>> \in Fragments
          /\ added[<<e, i>>] > 0 /\ discarded[<<e, i>>] = 0
      BY <1>1, FragmentPair
    <3>2. added[<<e, i>>] = delivered[e] + discarded[<<e, i>>]
                              + IF i \in store[e] THEN 1 ELSE 0
      BY <1>1, <3>1 DEF IInv, FragmentsConserved
    <3> QED
      BY <3>1, <3>2
  <2>2. store[e] = PartsOf(e)
    BY <1>1, <2>1 DEF IInv, PoolIsSound
  <2> QED
    BY <1>1, <2>2, SlotCount, PartsAssumption
    DEF IInv, TypeOK, PoolIsSound, PartsOf
<1>2. IInv => CompleteIsDelivered
  BY <1>1 DEF CompleteIsDelivered
<1> QED
  BY <1>2, Invariance, PTL

\* The iterator of the scan is never invalidated.
THEOREM IteratorValidity == Spec => []IteratorStaysValid
<1>1. IInv => IteratorStaysValid
  BY DEF IInv
<1> QED
  BY <1>1, Invariance, PTL

\* The task has ended when setPruning(false) or the destructor returns.
THEOREM StopIsSynchronous == Spec => []StoppedWhenReturned
<1>1. IInv => StoppedWhenReturned
  BY DEF IInv
<1> QED
  BY <1>1, Invariance, PTL
=============================================================================
