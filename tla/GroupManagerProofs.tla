------------------------- MODULE GroupManagerProofs -------------------------
(***************************************************************************)
(* Proofs about the group manager, for any GPUs and topology, any limit on *)
(* the groups and any number of threads that read them.                    *)
(***************************************************************************)
EXTENDS GroupManager, TLAPS, FiniteSetTheorems, NaturalsInduction, WellFoundedInduction

(* The map is finite, ids of both kinds stay below their counters, and the *)
(* counter of the cards counts them.                                       *)
IInv ==
    /\ IsFiniteSet(DOMAIN groupMap)
    /\ groupSequence \in Nat /\ groupSequence <= MaxSeq + 1
    /\ internalSequence \in Nat \ {0}
    /\ DOMAIN groupMap \subseteq issued /\ issued \subseteq Nat
    /\ \A id \in issued : IF IsBuildIn(id) THEN id < Mask + internalSequence
                          ELSE id < groupSequence
    /\ limited \in BOOLEAN
    /\ BuildInCounted
    /\ UserGroupLimit

-----------------------------------------------------------------------------
(* Counting *)

(* The map is the cards and the user groups.                               *)
LEMMA MapSplit ==
    ASSUME IsFiniteSet(DOMAIN groupMap)
    PROVE  /\ IsFiniteSet(Cards) /\ IsFiniteSet(UserGroups)
           /\ Cardinality(Cards) \in Nat /\ Cardinality(UserGroups) \in Nat
           /\ Cardinality(DOMAIN groupMap) = Cardinality(Cards) + Cardinality(UserGroups)
  <1>1. Cards \subseteq DOMAIN groupMap /\ UserGroups \subseteq DOMAIN groupMap
    BY DEF Cards, UserGroups
  <1>2. IsFiniteSet(Cards) /\ IsFiniteSet(UserGroups)
    BY <1>1, FS_Subset
  <1>3. Cardinality(Cards) \in Nat /\ Cardinality(UserGroups) \in Nat
    BY <1>2, FS_CardinalityType
  <1>4. Cards \cap UserGroups = {} /\ Cards \cup UserGroups = DOMAIN groupMap
    BY DEF Cards, UserGroups
  <1>5. Cardinality(Cards \cup UserGroups)
          = Cardinality(Cards) + Cardinality(UserGroups) - Cardinality(Cards \cap UserGroups)
    BY <1>2, FS_Union
  <1>6. Cardinality(Cards \cap UserGroups) = 0
    BY <1>4, FS_EmptySet
  <1>7. Cardinality(Cards \cup UserGroups) = Cardinality(DOMAIN groupMap)
    BY <1>4
  <1>8. Cardinality(DOMAIN groupMap) = Cardinality(Cards) + Cardinality(UserGroups)
    BY <1>3, <1>5, <1>6, <1>7
  <1>9. QED
    BY <1>2, <1>3, <1>8

(* A step that keeps the ids keeps the counts.                             *)
LEMMA SameIds ==
    ASSUME IInv, DOMAIN groupMap' = DOMAIN groupMap,
           UNCHANGED <<groupSequence, internalSequence, issued>>,
           limited' = limited \/ limited' = FALSE
    PROVE  IInv' /\ Cards' = Cards
  <1>1. Cards' = Cards /\ UserGroups' = UserGroups
    BY DEF Cards, UserGroups
  <1>2. BuildInCounted'
    BY <1>1 DEF IInv, BuildInCounted
  <1>3. UserGroupLimit'
    BY <1>1 DEF IInv, UserGroupLimit
  <1>4. QED
    BY <1>1, <1>2, <1>3 DEF IInv

(* A refused operation keeps the map and tells the limit.                  *)
LEMMA RefusedStep ==
    ASSUME IInv, NEW code, Answer(code), code = "GROUP_LIMIT_REACHED" => LimitReached
    PROVE  IInv' /\ Cards' = Cards /\ UNCHANGED groupMap
  <1>0. UNCHANGED <<groupMap, groupSequence, internalSequence, issued>>
    BY DEF Answer, maps
  <1>1. CASE code # "GROUP_LIMIT_REACHED"
    <2>1. limited' = FALSE
      BY <1>1 DEF Answer
    <2>2. QED
      BY <1>0, <2>1, SameIds
  <1>2. CASE code = "GROUP_LIMIT_REACHED"
    <2>1. Cards' = Cards /\ UserGroups' = UserGroups
      BY <1>0 DEF Cards, UserGroups
    <2>2. Cardinality(UserGroups) = MaxGroups
      <3>1. /\ Cardinality(Cards) \in Nat /\ Cardinality(UserGroups) \in Nat
            /\ Cardinality(DOMAIN groupMap) = Cardinality(Cards) + Cardinality(UserGroups)
        BY MapSplit DEF IInv
      <3>2. internalSequence - 1 = Cardinality(Cards) /\ Cardinality(UserGroups) <= MaxGroups
        BY DEF IInv, BuildInCounted, UserGroupLimit
      <3>3. Cardinality(DOMAIN groupMap) - (internalSequence - 1) >= MaxGroups
        BY <1>2 DEF LimitReached
      <3>4. QED
        BY <3>1, <3>2, <3>3, GroupAssumption DEF IInv
    <2>3. BuildInCounted' /\ UserGroupLimit'
      BY <1>0, <2>1, <2>2 DEF IInv, BuildInCounted, UserGroupLimit
    <2>4. limited' \in BOOLEAN
      BY DEF Answer
    <2>5. QED
      BY <1>0, <2>1, <2>3, <2>4 DEF IInv
  <1>3. QED
    BY <1>1, <1>2

(* createGroup enters a new id.                                            *)
LEMMA CreateStep ==
    ASSUME IInv, CreateGroup
    PROVE  /\ IInv' /\ Cards' = Cards /\ \A id \in Cards : groupMap'[id] = groupMap[id]
           /\ \A id \in DOMAIN groupMap' \ DOMAIN groupMap : id \notin issued
  <1>1. CASE LimitReached
    <2>1. Answer("GROUP_LIMIT_REACHED")
      BY <1>1 DEF CreateGroup
    <2>2. QED
      BY <1>1, <2>1, RefusedStep
  <1>2. CASE ~LimitReached
    <2>1. /\ Insert(groupSequence, NewUnit) /\ groupSequence' = groupSequence + 1
          /\ limited' = FALSE /\ UNCHANGED internalSequence /\ groupSequence <= MaxSeq
      BY <1>2 DEF CreateGroup
    <2>2. ~IsBuildIn(groupSequence)
      BY <2>1, GroupAssumption DEF IInv, IsBuildIn
    <2>3. groupSequence \notin issued
      BY <2>2 DEF IInv
    <2>4. groupSequence \notin DOMAIN groupMap
      BY <2>3 DEF IInv
    <2>5. /\ DOMAIN groupMap' = DOMAIN groupMap \cup {groupSequence}
          /\ \A id \in DOMAIN groupMap : groupMap'[id] = groupMap[id]
          /\ issued' = issued \cup {groupSequence}
      BY <2>1, <2>4 DEF Insert
    <2>6. IsFiniteSet(DOMAIN groupMap')
      BY <2>5, FS_AddElement DEF IInv
    <2>7. Cards' = Cards /\ UserGroups' = UserGroups \cup {groupSequence}
      BY <2>2, <2>5 DEF Cards, UserGroups, IsBuildIn
    <2>8. /\ Cardinality(UserGroups) \in Nat /\ Cardinality(Cards) \in Nat
          /\ Cardinality(DOMAIN groupMap) = Cardinality(Cards) + Cardinality(UserGroups)
          /\ IsFiniteSet(UserGroups)
      BY MapSplit DEF IInv
    <2>9. groupSequence \notin UserGroups
      BY <2>4 DEF UserGroups
    <2>10. Cardinality(UserGroups') = Cardinality(UserGroups) + 1
      BY <2>7, <2>8, <2>9, FS_AddElement
    <2>11. Cardinality(UserGroups) < MaxGroups
      BY <1>2, <2>8, GroupAssumption DEF IInv, BuildInCounted, LimitReached
    <2>12. UserGroupLimit' /\ BuildInCounted'
      BY <2>1, <2>7, <2>8, <2>10, <2>11, GroupAssumption DEF IInv, UserGroupLimit, BuildInCounted
    <2>13. \A id \in issued' : IF IsBuildIn(id) THEN id < Mask + internalSequence'
                               ELSE id < groupSequence'
      <3>1. \A id \in issued : id \in Nat /\ groupSequence \in Nat /\ internalSequence \in Nat
        BY DEF IInv
      <3>2. ASSUME NEW id \in issued'
            PROVE  IF IsBuildIn(id) THEN id < Mask + internalSequence'
                   ELSE id < groupSequence'
        <4>1. CASE id = groupSequence
          BY <2>1, <2>2, <4>1 DEF IInv
        <4>2. CASE id \in issued
          BY <2>1, <3>1, <4>2 DEF IInv
        <4>3. QED
          BY <2>5, <4>1, <4>2
      <3>3. QED
        BY <3>2
    <2>14. groupSequence' \in Nat /\ groupSequence' <= MaxSeq + 1
      BY <2>1, GroupAssumption DEF IInv
    <2>15. DOMAIN groupMap' \subseteq issued' /\ issued' \subseteq Nat
      BY <2>5 DEF IInv
    <2>16. IInv'
      BY <2>1, <2>6, <2>12, <2>13, <2>14, <2>15 DEF IInv, IsBuildIn
    <2>17. \A id \in Cards : groupMap'[id] = groupMap[id]
      BY <2>5 DEF Cards
    <2>18. QED
      BY <2>3, <2>5, <2>7, <2>16, <2>17
  <1>3. QED
    BY <1>1, <1>2

(* destroyGroup removes a user group.                                      *)
LEMMA DestroyStep ==
    ASSUME IInv, NEW g \in Ids, DestroyGroup(g)
    PROVE  /\ IInv' /\ Cards' = Cards /\ \A id \in Cards : groupMap'[id] = groupMap[id]
           /\ DOMAIN groupMap' \subseteq DOMAIN groupMap
  <1>1. CASE IsBuildIn(g)
    BY <1>1, RefusedStep DEF DestroyGroup
  <1>2. CASE ~IsBuildIn(g) /\ g \notin DOMAIN groupMap
    BY <1>2, RefusedStep DEF DestroyGroup
  <1>3. CASE ~IsBuildIn(g) /\ g \in DOMAIN groupMap
    <2>1. /\ groupMap' = [i \in DOMAIN groupMap \ {g} |-> groupMap[i]]
          /\ limited' = FALSE /\ UNCHANGED <<groupSequence, internalSequence, issued>>
      BY <1>3 DEF DestroyGroup
    <2>2. /\ DOMAIN groupMap' = DOMAIN groupMap \ {g}
          /\ \A id \in DOMAIN groupMap \ {g} : groupMap'[id] = groupMap[id]
      BY <2>1
    <2>3. Cards' = Cards /\ UserGroups' \subseteq UserGroups
      BY <1>3, <2>2 DEF Cards, UserGroups, IsBuildIn
    <2>4. IsFiniteSet(UserGroups) /\ Cardinality(UserGroups) \in Nat
      BY MapSplit DEF IInv
    <2>5. Cardinality(UserGroups') <= Cardinality(UserGroups) /\ Cardinality(UserGroups') \in Nat
      BY <2>3, <2>4, FS_Subset, FS_CardinalityType
    <2>6. IsFiniteSet(DOMAIN groupMap')
      BY <2>2, FS_RemoveElement DEF IInv
    <2>7. UserGroupLimit' /\ BuildInCounted'
      BY <2>1, <2>3, <2>4, <2>5, GroupAssumption DEF IInv, UserGroupLimit, BuildInCounted
    <2>8. IInv'
      BY <2>1, <2>2, <2>6, <2>7 DEF IInv, IsBuildIn
    <2>9. \A id \in Cards : groupMap'[id] = groupMap[id]
      BY <1>3, <2>2 DEF Cards
    <2>10. QED
      BY <2>2, <2>3, <2>8, <2>9
  <1>4. QED
    BY <1>1, <1>2, <1>3

(* A change to the devices of a user group.                                *)
LEMMA SetUnitStep ==
    ASSUME IInv, NEW g, ~IsBuildIn(g), NEW unit, SetUnit(g, unit)
    PROVE  /\ IInv' /\ Cards' = Cards /\ \A id \in Cards : groupMap'[id] = groupMap[id]
           /\ DOMAIN groupMap' = DOMAIN groupMap
  <1>1. /\ DOMAIN groupMap' = DOMAIN groupMap
        /\ \A id \in DOMAIN groupMap : id # g => groupMap'[id] = groupMap[id]
    BY DEF SetUnit
  <1>2. IInv' /\ Cards' = Cards
    BY <1>1, SameIds DEF SetUnit
  <1>3. QED
    BY <1>1, <1>2 DEF Cards

(* createBuildInGroup founds a card.                                       *)
LEMMA FoundStep ==
    ASSUME IInv, NEW d, FoundCard(d), UNCHANGED <<groupSequence, limited>>
    PROVE  IInv' /\ \A id \in DOMAIN groupMap' \ DOMAIN groupMap : id \notin issued
  <1> DEFINE g == Mask + internalSequence
  <1>0. /\ Insert(g, [AddTo(NewUnit, d) EXCEPT !.topo = PcieTopo(d)])
        /\ internalSequence' = internalSequence + 1
    BY DEF FoundCard
  <1>1. g \in Nat /\ g >= Mask /\ g < Mask + internalSequence'
    BY <1>0, GroupAssumption DEF IInv
  <1>2. g \notin issued
    BY <1>1, GroupAssumption DEF IInv, IsBuildIn
  <1>3. g \notin DOMAIN groupMap
    BY <1>2 DEF IInv
  <1> HIDE DEF g
  <1>4. DOMAIN groupMap' = DOMAIN groupMap \cup {g} /\ issued' = issued \cup {g}
    BY <1>0, <1>3 DEF Insert
  <1>5. Cards' = Cards \cup {g} /\ UserGroups' = UserGroups
    BY <1>1, <1>4, GroupAssumption DEF Cards, UserGroups, IsBuildIn
  <1>6. IsFiniteSet(Cards) /\ Cardinality(Cards) \in Nat /\ g \notin Cards
    BY <1>3, MapSplit DEF IInv, Cards
  <1>7. Cardinality(Cards') = Cardinality(Cards) + 1
    BY <1>5, <1>6, FS_AddElement
  <1>8. BuildInCounted' /\ UserGroupLimit'
    BY <1>0, <1>5, <1>6, <1>7 DEF IInv, BuildInCounted, UserGroupLimit
  <1>9. IsFiniteSet(DOMAIN groupMap')
    BY <1>4, FS_AddElement DEF IInv
  <1>10. \A id \in issued' : IF IsBuildIn(id) THEN id < Mask + internalSequence'
                             ELSE id < groupSequence'
    BY <1>0, <1>1, <1>4, GroupAssumption DEF IInv, IsBuildIn
  <1>11. IInv'
    BY <1>0, <1>1, <1>4, <1>8, <1>9, <1>10 DEF IInv, IsBuildIn
  <1>12. QED
    BY <1>2, <1>4, <1>11

(* The loop body of createBuildInGroup().                                  *)
LEMMA BuildStep ==
    ASSUME IInv, BuildNext
    PROVE  IInv' /\ \A id \in DOMAIN groupMap' \ DOMAIN groupMap : id \notin issued
  <1> DEFINE d == devices[done + 1]
  <1>0. UNCHANGED <<groupSequence, limited>>
    BY DEF BuildNext
  <1>1. \/ JoinCard(d) \/ FoundCard(d) \/ UNCHANGED <<groupMap, internalSequence, issued>>
    BY DEF BuildNext
  <1> HIDE DEF d
  <1>2. CASE JoinCard(d)
    <2>1. DOMAIN groupMap' = DOMAIN groupMap /\ UNCHANGED <<internalSequence, issued>>
      BY <1>2 DEF JoinCard
    <2>2. QED
      BY <1>0, <2>1, SameIds
  <1>3. CASE FoundCard(d)
    BY <1>0, <1>3, FoundStep
  <1>4. CASE UNCHANGED <<groupMap, internalSequence, issued>>
    BY <1>0, <1>4, SameIds
  <1>5. QED
    BY <1>1, <1>2, <1>3, <1>4

(* The other steps leave the groups alone.                                 *)
LEMMA QuietStep ==
    ASSUME IInv, \/ BuildDone \/ CopySlotNames \/ (\E p \in Procs : Reader(p))
                 \/ UNCHANGED vars
    PROVE  IInv' /\ Cards' = Cards /\ UNCHANGED groupMap
  <1>1. ASSUME NEW p \in Procs, Reader(p) PROVE UNCHANGED <<maps, limited>>
    BY <1>1 DEF Reader, Reading, SiblingsCount, SiblingsFind, ListCount, ListIds, ListGroup,
                ListEnd, Return
  <1>2. UNCHANGED <<maps, limited>>
    BY <1>1 DEF BuildDone, CopySlotNames, vars
  <1>3. QED
    BY <1>2, SameIds DEF maps

(* What a client operation does to the ids and to the cards.               *)
LEMMA OperationStep ==
    ASSUME IInv, Operation
    PROVE  /\ IInv' /\ Cards' = Cards /\ \A id \in Cards : groupMap'[id] = groupMap[id]
           /\ \A id \in DOMAIN groupMap' \ DOMAIN groupMap : id \notin issued
  <1>1. CASE CreateGroup
    BY <1>1, CreateStep
  <1>2. CASE CreateGroupNull
    BY <1>2, RefusedStep DEF CreateGroupNull
  <1>3. ASSUME NEW g \in Ids, DestroyGroup(g)
        PROVE  /\ IInv' /\ Cards' = Cards /\ \A id \in Cards : groupMap'[id] = groupMap[id]
               /\ \A id \in DOMAIN groupMap' \ DOMAIN groupMap : id \notin issued
    BY <1>3, DestroyStep
  <1>4. ASSUME NEW g \in Ids, NEW d \in Device \cup {Stranger}, AddDeviceToGroup(g, d)
        PROVE  /\ IInv' /\ Cards' = Cards /\ \A id \in Cards : groupMap'[id] = groupMap[id]
               /\ \A id \in DOMAIN groupMap' \ DOMAIN groupMap : id \notin issued
    <2>1. \/ \E code \in {"GROUP_CHANGE_NOT_ALLOWED", "GROUP_NOT_FOUND", "DEVICE_NOT_FOUND",
                          "GROUP_DEVICE_DUPLICATED"} : Answer(code)
          \/ ~IsBuildIn(g) /\ SetUnit(g, AddTo(groupMap[g], d))
      BY <1>4 DEF AddDeviceToGroup
    <2>2. CASE \E code \in {"GROUP_CHANGE_NOT_ALLOWED", "GROUP_NOT_FOUND", "DEVICE_NOT_FOUND",
                          "GROUP_DEVICE_DUPLICATED"} : Answer(code)
      BY <2>2, RefusedStep
    <2>3. CASE ~IsBuildIn(g) /\ SetUnit(g, AddTo(groupMap[g], d))
      BY <2>3, SetUnitStep
    <2>4. QED
      BY <2>1, <2>2, <2>3
  <1>5. ASSUME NEW g \in Ids, NEW d \in Device \cup {Stranger}, RemoveDeviceFromGroup(g, d)
        PROVE  /\ IInv' /\ Cards' = Cards /\ \A id \in Cards : groupMap'[id] = groupMap[id]
               /\ \A id \in DOMAIN groupMap' \ DOMAIN groupMap : id \notin issued
    <2>1. \/ \E code \in {"GROUP_CHANGE_NOT_ALLOWED", "GROUP_NOT_FOUND", "DEVICE_NOT_FOUND"} :
               Answer(code)
          \/ ~IsBuildIn(g) /\ \E unit : SetUnit(g, unit)
      BY <1>5 DEF RemoveDeviceFromGroup
    <2>2. CASE \E code \in {"GROUP_CHANGE_NOT_ALLOWED", "GROUP_NOT_FOUND", "DEVICE_NOT_FOUND"} :
               Answer(code)
      BY <2>2, RefusedStep
    <2>3. CASE ~IsBuildIn(g) /\ \E unit : SetUnit(g, unit)
      BY <2>3, SetUnitStep
    <2>4. QED
      BY <2>1, <2>2, <2>3
  <1>6. QED
    BY <1>1, <1>2, <1>3, <1>4, <1>5 DEF Operation

-----------------------------------------------------------------------------
(* Before the first GPU is looked at there are no groups.                  *)
LEMMA InitInv == Init => IInv
  <1> SUFFICES ASSUME Init PROVE IInv
    OBVIOUS
  <1>1. DOMAIN groupMap = {} /\ issued = {} /\ groupSequence = 1 /\ internalSequence = 1
        /\ limited = FALSE
    BY DEF Init
  <1>2. Cards = {} /\ UserGroups = {}
    BY <1>1 DEF Cards, UserGroups
  <1>3. IsFiniteSet({}) /\ Cardinality({}) = 0
    BY FS_EmptySet
  <1>4. BuildInCounted /\ UserGroupLimit
    BY <1>1, <1>2, <1>3, GroupAssumption DEF BuildInCounted, UserGroupLimit
  <1>5. IsFiniteSet(DOMAIN groupMap)
    BY <1>1, <1>3
  <1>6. groupSequence \in Nat /\ groupSequence <= MaxSeq + 1 /\ internalSequence \in Nat \ {0}
    BY <1>1, GroupAssumption
  <1>7. DOMAIN groupMap \subseteq issued /\ issued \subseteq Nat
    BY <1>1
  <1>8. \A id \in issued : IF IsBuildIn(id) THEN id < Mask + internalSequence
                           ELSE id < groupSequence
    BY <1>1
  <1>9. QED
    BY <1>1, <1>4, <1>5, <1>6, <1>7, <1>8 DEF IInv

(* Every step keeps the invariant and hands out only fresh ids.            *)
LEMMA StepInv ==
    ASSUME IInv, [Next]_vars
    PROVE  IInv' /\ \A id \in DOMAIN groupMap' \ DOMAIN groupMap : id \notin issued
  <1>1. CASE BuildNext
    BY <1>1, BuildStep
  <1>2. CASE Operation
    BY <1>2, OperationStep
  <1>3. CASE BuildDone \/ CopySlotNames \/ (\E p \in Procs : Reader(p)) \/ UNCHANGED vars
    <2>1. IInv' /\ UNCHANGED groupMap
      BY <1>3, QuietStep
    <2>2. QED
      BY <2>1
  <1>4. QED
    BY <1>1, <1>2, <1>3 DEF Next, Start

(* The counters and the ids stay in step with the map in every state.      *)
THEOREM Invariance == Spec => []IInv
  <1>1. IInv /\ [Next]_vars => IInv'
    BY StepInv
  <1>2. QED
    BY <1>1, InitInv, PTL DEF Spec

(* createGroup keeps to XPUM_MAX_NUM_GROUPS and refuses only at the limit, *)
(* for any limit, machine and sequence of operations.                      *)
THEOREM GroupsLimited == Spec => []UserGroupLimit
  <1>1. IInv => UserGroupLimit
    BY DEF IInv
  <1>2. QED
    BY <1>1, Invariance, PTL

(* The number createGroup takes off the size of the map is the number of   *)
(* cards, so the unsigned difference never wraps.                          *)
THEOREM CardsCounted == Spec => []BuildInCounted
  <1>1. IInv => BuildInCounted
    BY DEF IInv
  <1>2. QED
    BY <1>1, Invariance, PTL

(* No id is handed out twice, to a user group or to a card.                *)
THEOREM IdsFresh == Spec => IdNeverReused
  <1>1. IInv /\ [Next]_vars =>
          [\A id \in DOMAIN groupMap' \ DOMAIN groupMap : id \notin issued]_vars
    BY StepInv
  <1>2. QED
    BY <1>1, Invariance, PTL DEF Spec, IdNeverReused

(* After init() no operation touches a card, whatever its arguments.       *)
THEOREM CardsStayFixed == Spec => CardsFixed
  <1>1. ASSUME IInv, [Next]_vars, stage = "ready"
        PROVE  Cards' = Cards /\ \A id \in Cards : groupMap'[id] = groupMap[id]
    <2>1. ~BuildNext
      BY <1>1 DEF BuildNext
    <2>2. CASE Operation
      BY <1>1, <2>2, OperationStep
    <2>3. CASE BuildDone \/ CopySlotNames \/ (\E p \in Procs : Reader(p)) \/ UNCHANGED vars
      BY <1>1, <2>3, QuietStep
    <2>4. QED
      BY <1>1, <2>1, <2>2, <2>3 DEF Next, Start
  <1>2. IInv /\ [Next]_vars =>
          [stage = "ready" => /\ Cards' = Cards
                              /\ \A id \in Cards : groupMap'[id] = groupMap[id]]_vars
    BY <1>1
  <1>3. QED
    BY <1>2, Invariance, PTL DEF Spec, CardsFixed

-----------------------------------------------------------------------------
(* What getSiblingDevices finds *)

(* The record of a thread that reads the groups.                           *)
Fields == {"pc", "dev", "count", "left", "short", "res"}
Shaped(r) == r = [f \in Fields |-> r[f]]

(* The cards of a map that hold a GPU, and its siblings there.             *)
In(m, d) == {id \in DOMAIN m : IsBuildIn(id) /\ d \in Range(m[id].devices)}
Siblings(m, d) == IF In(m, d) = {} THEN {d} ELSE Range(m[Min(In(m, d))].devices)

(* A search that is over found the card, if the map had not grown.         *)
Found(r, m) == r.pc = "siblings" /\ ~r.short => r.res = Siblings(m, r.dev)

(* Nobody reads the groups before init() is over.                          *)
QueryInv ==
    /\ query = [p \in Procs |-> query[p]]
    /\ \A p \in Procs : Shaped(query[p]) /\ Found(query[p], groupMap)
    /\ stage = "ready" \/ \A p \in Procs : query[p].pc = "idle"

LEMMA MinIn ==
    ASSUME NEW S \in SUBSET Nat, S # {}
    PROVE  Min(S) \in S
  <1> DEFINE R == OpToRel(<, Nat)
  <1>1. \E x \in S : \A y \in S : ~(<<y, x>> \in R)
    <2> HIDE DEF R
    <2>1. IsWellFoundedOn(R, Nat)
      BY NatLessThanWellFounded DEF R
    <2>2. QED
      BY <2>1, WFMin
  <1>2. PICK x \in S : \A y \in S : ~(<<y, x>> \in R)
    BY <1>1
  <1>3. \A y \in S : x <= y
    <2>1. R = {ss \in Nat \X Nat : ss[1] < ss[2]}
      BY DEF OpToRel
    <2> HIDE DEF R
    <2> TAKE y \in S
    <2>2. y < x => <<y, x>> \in R
      BY <2>1
    <2>3. QED
      BY <1>2, <2>2
  <1>4. QED
    BY <1>3 DEF Min

(* While the cards stay as they are, so do the siblings of a GPU.          *)
LEMMA SameSiblings ==
    ASSUME NEW m, NEW n, NEW d, DOMAIN m \subseteq Nat,
           {id \in DOMAIN n : IsBuildIn(id)} = {id \in DOMAIN m : IsBuildIn(id)},
           \A id \in {i \in DOMAIN m : IsBuildIn(i)} : n[id] = m[id]
    PROVE  Siblings(n, d) = Siblings(m, d)
  <1>1. In(n, d) = In(m, d)
    BY DEF In
  <1>2. CASE In(m, d) = {}
    BY <1>1, <1>2 DEF Siblings
  <1>3. CASE In(m, d) # {}
    <2>1. Min(In(m, d)) \in In(m, d)
      <3>1. In(m, d) \in SUBSET Nat
        BY DEF In
      <3>2. QED
        BY <1>3, <3>1, MinIn
    <2>2. n[Min(In(m, d))] = m[Min(In(m, d))]
      BY <2>1 DEF In
    <2>3. QED
      BY <1>1, <1>3, <2>2 DEF Siblings
  <1>4. QED
    BY <1>2, <1>3

(* The search of getSiblingDevices over the groups it has read.            *)
LEMMA SearchFinds ==
    ASSUME NEW d
    PROVE  /\ SiblingsIn(DOMAIN groupMap, d) = Siblings(groupMap, d)
           /\ SiblingsIn(Cards, d) = Siblings(groupMap, d)
  <1>1. /\ {id \in DOMAIN groupMap : id \in CardsOf(d)} = In(groupMap, d)
        /\ {id \in Cards : id \in CardsOf(d)} = In(groupMap, d)
    BY DEF CardsOf, Cards, Members, In
  <1>2. QED
    BY <1>1 DEF SiblingsIn, Siblings, Members

(* A step of a reader.                                                     *)
LEMMA ReaderStep ==
    ASSUME QueryInv, NEW p \in Procs, Reader(p)
    PROVE  QueryInv'
  <1>0. UNCHANGED <<groupMap, stage>> /\ stage = "ready"
    BY DEF Reader, Reading, SiblingsCount, SiblingsFind, ListCount, ListIds, ListGroup,
           ListEnd, Return, maps, boot
  <1>1. Shaped(query[p]) /\ Shaped(NoQuery) /\ p \in DOMAIN query
    <2>1. Shaped(NoQuery)
      BY DEF Shaped, NoQuery, Fields
    <2>2. QED
      BY <2>1 DEF QueryInv
  <1> DEFINE Fits(r) == Shaped(r) /\ Found(r, groupMap)
  <1>2. ASSUME NEW r, query' = [query EXCEPT ![p] = r], Fits(r)
        PROVE  QueryInv'
    <2>1. query' = [q \in Procs |-> IF q = p THEN r ELSE query[q]]
      BY <1>2 DEF QueryInv
    <2>2. \A q \in Procs : Shaped(query'[q]) /\ Found(query'[q], groupMap)
      BY <1>2, <2>1 DEF QueryInv
    <2>3. query' = [q \in Procs |-> query'[q]]
      BY <2>1
    <2>4. QED
      BY <1>0, <2>2, <2>3 DEF QueryInv, Shaped, Found
  <1>3. ASSUME NEW d \in Range(devices), SiblingsCount(p, d) PROVE QueryInv'
    <2>1. PICK r : /\ r = [NoQuery EXCEPT !.pc = "sibling_ids", !.dev = d,
                                          !.count = Cardinality(DOMAIN groupMap)]
                   /\ query' = [query EXCEPT ![p] = r]
      BY <1>3 DEF SiblingsCount
    <2>2. Fits(r)
      BY <1>1, <2>1 DEF Shaped, Fields, Found
    <2>3. QED
      BY <1>2, <2>1, <2>2
  <1>4. CASE SiblingsFind(p)
    <2>1. PICK res : /\ query' = [query EXCEPT ![p].pc = "siblings", ![p].short = TooSmall(query[p].count),
                                               ![p].count = 0, ![p].res = res]
                     /\ ~TooSmall(query[p].count) =>
                          res = SiblingsIn(DOMAIN groupMap, query[p].dev)
      BY <1>4 DEF SiblingsFind
    <2>2. PICK r : /\ r = [query[p] EXCEPT !.pc = "siblings", !.short = TooSmall(query[p].count),
                                           !.count = 0, !.res = res]
                   /\ query' = [query EXCEPT ![p] = r]
      BY <2>1 DEF QueryInv
    <2>3. SiblingsIn(DOMAIN groupMap, query[p].dev) = Siblings(groupMap, query[p].dev)
      BY SearchFinds
    <2>4. Fits(r)
      <3>1. /\ Shaped(r) /\ r.short = TooSmall(query[p].count) /\ r.res = res
            /\ r.dev = query[p].dev
        BY <1>1, <2>2 DEF Shaped, Fields
      <3>2. QED
        BY <2>1, <2>3, <3>1 DEF Found
    <2>5. QED
      BY <1>2, <2>2, <2>4
  <1>5. CASE ListCount(p)
    <2>1. PICK r : /\ r = [NoQuery EXCEPT !.pc = "list_ids", !.count = Cardinality(DOMAIN groupMap)]
                   /\ query' = [query EXCEPT ![p] = r]
      BY <1>5 DEF ListCount
    <2>2. Fits(r)
      BY <1>1, <2>1 DEF Shaped, Fields, Found
    <2>3. QED
      BY <1>2, <2>1, <2>2
  <1>6. CASE ListIds(p)
    <2>1. PICK r, ids : /\ r = [NoQuery EXCEPT !.pc = "failed"]
                           \/ r = [NoQuery EXCEPT !.pc = "list", !.left = ids]
                        /\ query' = [query EXCEPT ![p] = r]
      BY <1>6 DEF ListIds
    <2>2. Fits(r)
      BY <1>1, <2>1 DEF Shaped, Fields, Found
    <2>3. QED
      BY <1>2, <2>1, <2>2
  <1>7. CASE ListGroup(p)
    <2>1. PICK left, res : query' = [query EXCEPT ![p].left = left, ![p].res = res]
      BY <1>7 DEF ListGroup
    <2>2. PICK r : /\ r = [query[p] EXCEPT !.left = left, !.res = res]
                   /\ query' = [query EXCEPT ![p] = r]
      BY <2>1 DEF QueryInv
    <2>3. query[p].pc = "list"
      BY <1>7 DEF ListGroup, Reading
    <2>4. Fits(r)
      BY <1>1, <2>2, <2>3 DEF Shaped, Fields, Found
    <2>5. QED
      BY <1>2, <2>2, <2>4
  <1>8. CASE ListEnd(p)
    <2> DEFINE r == [query[p] EXCEPT !.pc = "listed"]
    <2>1. query' = [query EXCEPT ![p] = r]
      BY <1>8 DEF ListEnd
    <2>2. Fits(r)
      BY <1>1 DEF Shaped, Fields, Found
    <2>3. QED
      BY <1>2, <2>1, <2>2
  <1>9. CASE Return(p)
    <2>1. Fits(NoQuery)
      BY <1>1 DEF NoQuery, Found
    <2>2. QED
      BY <1>2, <1>9, <2>1 DEF Return
  <1>10. QED
    BY <1>3, <1>4, <1>5, <1>6, <1>7, <1>8, <1>9 DEF Reader

(* The other steps do not touch the readers, and while there are any they  *)
(* do not touch the cards.                                                 *)
LEMMA OtherStep ==
    ASSUME IInv, QueryInv, Start \/ Operation \/ UNCHANGED vars
    PROVE  QueryInv'
  <1>1. UNCHANGED query
    BY DEF Start, BuildNext, BuildDone, CopySlotNames, Operation, CreateGroup, CreateGroupNull,
           DestroyGroup, AddDeviceToGroup, RemoveDeviceFromGroup, Ready, vars
  <1>2. CASE Start
    <2>1. \A p \in Procs : query[p].pc = "idle"
      BY <1>2 DEF Start, BuildNext, BuildDone, CopySlotNames, QueryInv
    <2>2. QED
      BY <1>1, <2>1 DEF QueryInv, Found, Shaped
  <1>3. CASE Operation \/ UNCHANGED vars
    <2>1. UNCHANGED stage
      BY <1>3 DEF Operation, CreateGroup, CreateGroupNull, DestroyGroup, AddDeviceToGroup,
                  RemoveDeviceFromGroup, Ready, boot, vars
    <2>2. Cards' = Cards /\ \A id \in Cards : groupMap'[id] = groupMap[id]
      BY <1>3, OperationStep, QuietStep
    <2>3. DOMAIN groupMap \subseteq Nat
      BY DEF IInv
    <2>4. ASSUME NEW p \in Procs
          PROVE  Siblings(groupMap', query[p].dev) = Siblings(groupMap, query[p].dev)
      BY <2>2, <2>3, SameSiblings DEF Cards
    <2>5. QED
      BY <1>1, <2>1, <2>4 DEF QueryInv, Found, Shaped
  <1>4. QED
    BY <1>2, <1>3

(* getSiblingDevices, whose answer the firmware manager locks, finds the   *)
(* whole card unless a group was added between its two calls.              *)
THEOREM SiblingsFound == Spec => []SiblingsIfNotOutgrown
  <1>1. ASSUME Init PROVE QueryInv
    <2>1. Shaped(NoQuery) /\ NoQuery.pc = "idle"
      BY DEF NoQuery, Shaped, Fields
    <2>2. query = [p \in Procs |-> NoQuery]
      BY <1>1 DEF Init
    <2>3. \A p \in Procs : query[p] = NoQuery
      BY <2>2
    <2>4. QED
      BY <2>1, <2>2, <2>3 DEF QueryInv, Found
  <1>2. ASSUME IInv, QueryInv, [Next]_vars PROVE QueryInv'
    BY <1>2, ReaderStep, OtherStep DEF Next
  <1>3. ASSUME QueryInv PROVE SiblingsIfNotOutgrown
    <2> SUFFICES ASSUME NEW p \in Procs, query[p].pc = "siblings", ~query[p].short
                 PROVE  query[p].res = SiblingsIn(Cards, query[p].dev)
      BY DEF SiblingsIfNotOutgrown
    <2>1. query[p].res = Siblings(groupMap, query[p].dev)
      BY <1>3 DEF QueryInv, Found
    <2>2. QED
      BY <2>1, SearchFinds
  <1>4. IInv /\ QueryInv /\ [Next]_vars => QueryInv'
    BY <1>2
  <1>5. QED
    BY <1>1, <1>3, <1>4, Invariance, PTL DEF Spec

=============================================================================
