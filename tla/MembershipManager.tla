------------------------ MODULE MembershipManager -------------------------
(***************************************************************************)
(* Reference counts of Spread group memberships (MembershipManager.cpp) on *)
(* top of one connection.  groups[g] = 0 stands for a group that has no    *)
(* entry in the C++ map.  join and leave have several outcomes because the *)
(* connection's methods may throw between two updates of the map.          *)
(***************************************************************************)
EXTENDS SpreadConnection

VARIABLE groups  \* MembershipManager::groups

MembersTypeOK == groups \in [Groups -> Nat]

MembersInit == groups = [g \in Groups |-> 0]

\* The first reference joins the Spread group, later ones only count.
Join(g) ==
  /\ groups' = [groups EXCEPT ![g] = @ + 1]
  /\ \/ groups[g] = 0 /\ ConnJoin(g)
     \/ groups[g] > 0 /\ UNCHANGED connVars

\* Mutant: the entry is made before connection->join throws.
JoinThrowsCounted(g) ==
  /\ groups[g] = 0
  /\ ~Usable
  /\ groups' = [groups EXCEPT ![g] = 1]
  /\ UNCHANGED connVars

\* connection->join threw: the entry has not been made yet.
JoinThrows(g) ==
  /\ groups[g] = 0
  /\ ~Usable
  /\ UNCHANGED <<groups, connVars>>

\* Mutant: every leave() leaves the Spread group.
LeaveAlways(g) ==
  /\ groups[g] > 0
  /\ groups' = [groups EXCEPT ![g] = @ - 1]
  /\ ConnLeave(g)

\* The last reference leaves the Spread group.
Leave(g) ==
  /\ groups[g] > 0
  /\ groups' = [groups EXCEPT ![g] = @ - 1]
  /\ \/ groups[g] = 1 /\ ConnLeave(g)
     \/ groups[g] > 1 /\ UNCHANGED connVars

\* connection->leave threw: the entry has been erased before the call.
LeaveThrows(g) ==
  /\ groups[g] = 1
  /\ ~Usable
  /\ groups' = [groups EXCEPT ![g] = 0]
  /\ UNCHANGED connVars

\* assert(it != groups.end()) in leave fails.
LeaveAsserts(g) ==
  /\ groups[g] = 0
  /\ UNCHANGED <<groups, connVars>>

===========================================================================
