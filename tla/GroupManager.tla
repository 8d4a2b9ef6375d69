---------------------------- MODULE GroupManager ----------------------------
(***************************************************************************)
(* Device groups: the user groups a client creates, fills and destroys,    *)
(* and the build-in groups ("cards") that init() derives from the PCIe     *)
(* topology of the GPUs.  Every public operation runs under                *)
(* GroupManager::mutex, so it is one step here; what is not one step are   *)
(* the callers that make several calls: getSiblingDevices of the firmware  *)
(* manager and getAllGroups of the daemon first ask for the number of      *)
(* groups, then for the ids, then for each group.                          *)
(***************************************************************************)
EXTENDS Naturals, Sequences, FiniteSets, FiniteSetsExt, SequencesExt

CONSTANTS
    Device,       \* the GPUs a machine may hold
    Stranger,     \* a device id no GPU has
    ConfGroup,    \* the "group" column of pci.conf: "yes", "no" or "none" (no entry)
    PciePath,     \* the bridges above a GPU, nearest first: [bus, device]
    Board,        \* the board a GPU is soldered on
    Slot,         \* slot names of dmidecode
    NoSlot,       \* the empty slot name
    Procs,        \* threads that read the groups in several calls
    MaxGroups,    \* XPUM_MAX_NUM_GROUPS (64)
    Mask,         \* BUILD_IN_GROUP_MASK (0x80000000)
    MaxSeq        \* bound: the last value of groupSequence that is explored

ASSUME GroupAssumption ==
    /\ MaxGroups \in Nat \ {0}
    /\ Mask \in Nat
    /\ MaxSeq \in Nat
    /\ MaxSeq < Mask
    /\ Stranger \notin Device
    /\ NoSlot \notin Slot

VARIABLES
    groupMap,          \* id -> [devices, topo, topoLevel]
    groupSequence,     \* next id of a user group
    internalSequence,  \* next number of a card
    devices,           \* DeviceManager's device list, in its order
    done,              \* GPUs init() has been through
    stage,             \* "build", "slots" or "ready"
    bGroupDevice,      \* the local of createBuildInGroup()
    slot,              \* the PCI_SLOT property of each GPU
    limited,           \* the last client operation was refused for the limit
    query,             \* the threads that read the groups in several calls
    issued             \* history: every id createGroup has handed out

maps == <<groupMap, groupSequence, internalSequence, issued>>
boot == <<devices, done, stage, bGroupDevice, slot>>
vars == <<maps, boot, limited, query>>

IsBuildIn(id) == id >= Mask
UserGroups == {id \in DOMAIN groupMap : ~IsBuildIn(id)}
Cards == {id \in DOMAIN groupMap : IsBuildIn(id)}
Members(id) == Range(groupMap[id].devices)

NewUnit == [devices |-> <<>>, topo |-> <<>>, topoLevel |-> 0]
NoQuery == [pc |-> "idle", dev |-> Stranger, count |-> 0, left |-> <<>>,
            short |-> FALSE, res |-> {}]

Init ==
    /\ groupMap = <<>>
    /\ groupSequence = 1
    /\ internalSequence = 1
    /\ devices \in UNION {SetToSeqs(S) : S \in SUBSET Device}
    /\ done = 0
    /\ stage = "build"
    /\ bGroupDevice = FALSE
    /\ slot \in [Device -> Slot \cup {NoSlot}]
    /\ limited = FALSE
    /\ query = [p \in Procs |-> NoQuery]
    /\ issued = {}

-----------------------------------------------------------------------------
LimitReachedLate == Cardinality(DOMAIN groupMap) - (internalSequence - 1) > MaxGroups

(* createGroup, the part all callers share: the user groups are counted as *)
(* what is left of the map without the cards, internalSequence - 1 of them.*)
LimitReached == Cardinality(DOMAIN groupMap) - (internalSequence - 1) >= MaxGroups

Insert(id, unit) ==
    /\ groupMap' = IF id \in DOMAIN groupMap THEN groupMap
                   ELSE [i \in DOMAIN groupMap \cup {id} |->
                            IF i = id THEN unit ELSE groupMap[i]]
    /\ issued' = issued \cup {id}

-----------------------------------------------------------------------------
(* Building the cards *)

(* Two GPUs hang off one switch when, at some level, their bridges are     *)
(* different ports of one bus.                                             *)
PortsOfOneSwitch(p, q, i) ==
    /\ p[i + 1].bus = q[i + 1].bus
    /\ p[i + 1].device # q[i + 1].device

SiblingLevelsTop(unit, path) ==
    {i \in {Len(path) - 1} : Len(path) = Len(unit.topo) /\ path # <<>>
                             /\ path[i + 1].device = unit.topo[i + 1].device}

(* GroupUnit::deviceInGroup: the levels at which the GPU is a sibling of   *)
(* the one the card was created for; a level other than 0 is remembered.   *)
SiblingLevels(unit, path) ==
    IF unit.topoLevel # 0
    THEN {i \in {unit.topoLevel} :
            Len(path) > i /\ PortsOfOneSwitch(path, unit.topo, i)}
    ELSE {i \in 0..(Len(path) - 1) :
            Len(path) = Len(unit.topo) /\ PortsOfOneSwitch(path, unit.topo, i)}

(* Topology::getPcieTopo: only a GPU that pci.conf lists has a path.       *)
PcieTopo(d) == IF ConfGroup[d] = "none" THEN <<>> ELSE PciePath[d]

(* GroupUnit::addDevice *)
AddTo(unit, d) ==
    IF d \in Range(unit.devices) THEN unit
    ELSE [unit EXCEPT !.devices = Append(@, d)]

(* createBuildInGroup(bBuildInDevice, ...): join the first card the GPU is *)
(* a sibling in, or found one.                                             *)
JoinCard(d) ==
    LET fits == {id \in Cards : SiblingLevels(groupMap[id], PcieTopo(d)) # {}}
        id   == Min(fits)
        unit == AddTo(groupMap[id], d)
    IN  /\ fits # {}
        /\ groupMap' = [groupMap EXCEPT ![id] =
             [unit EXCEPT !.topoLevel = Min(SiblingLevels(groupMap[id], PcieTopo(d)))]]
        /\ UNCHANGED <<internalSequence, issued>>

FoundCard(d) ==
    /\ \A id \in Cards : SiblingLevels(groupMap[id], PcieTopo(d)) = {}
    /\ Insert(Mask + internalSequence, [AddTo(NewUnit, d) EXCEPT !.topo = PcieTopo(d)])
    /\ internalSequence' = internalSequence + 1

(* The loop body of createBuildInGroup().  bGroupDevice is declared outside*)
(* the loop, and a GPU that pci.conf does not list leaves it as it was.    *)
BuildNext ==
    /\ stage = "build" /\ done < Len(devices)
    /\ LET d       == devices[done + 1]
           grouped == IF ConfGroup[d] = "none" THEN bGroupDevice
                      ELSE ConfGroup[d] = "yes"
       IN  /\ bGroupDevice' = grouped
           /\ IF grouped THEN JoinCard(d) \/ FoundCard(d)
              ELSE UNCHANGED <<groupMap, internalSequence, issued>>
    /\ done' = done + 1
    /\ UNCHANGED <<groupSequence, devices, stage, slot, limited, query>>

BuildDone ==
    /\ stage = "build" /\ done = Len(devices)
    /\ stage' = "slots"
    /\ UNCHANGED <<maps, devices, done, bGroupDevice, slot, limited, query>>

(* copySlotNameForBuildinGroups: members of a card without a slot name get *)
(* the name of the last member that has one.                               *)
LastSlot(ds) ==
    LET named == {i \in DOMAIN ds : slot[ds[i]] # NoSlot}
    IN  IF named = {} THEN NoSlot ELSE slot[ds[Max(named)]]

CopySlotNames ==
    /\ stage = "slots"
    /\ slot' = [d \in Device |->
         LET cards == {id \in Cards : d \in Members(id)}
         IN  IF slot[d] = NoSlot /\ cards # {}
             THEN LastSlot(groupMap[Min(cards)].devices) ELSE slot[d]]
    /\ stage' = "ready"
    /\ UNCHANGED <<maps, devices, done, bGroupDevice, limited, query>>

-----------------------------------------------------------------------------
(* The operations of the clients.  They are served once Core::init has     *)
(* returned.  Of what they return only GROUP_LIMIT_REACHED is kept.        *)

Ready == stage = "ready" /\ UNCHANGED <<boot, query>>

Answer(code) == limited' = (code = "GROUP_LIMIT_REACHED") /\ UNCHANGED maps

(* createGroup(name, &id) *)
CreateGroup ==
    /\ Ready
    /\ groupSequence <= MaxSeq
    /\ IF LimitReached THEN Answer("GROUP_LIMIT_REACHED")
       ELSE /\ Insert(groupSequence, NewUnit)
            /\ groupSequence' = groupSequence + 1
            /\ limited' = FALSE
            /\ UNCHANGED internalSequence

(* createGroup with a null name or a null place for the id *)
CreateGroupNull == Ready /\ Answer("GENERIC_ERROR")

DestroyGroup(id) ==
    /\ Ready
    /\ IF IsBuildIn(id) THEN Answer("GROUP_CHANGE_NOT_ALLOWED")
       ELSE IF id \notin DOMAIN groupMap THEN Answer("GROUP_NOT_FOUND")
       ELSE /\ groupMap' = [i \in DOMAIN groupMap \ {id} |-> groupMap[i]]
            /\ limited' = FALSE
            /\ UNCHANGED <<groupSequence, internalSequence, issued>>

SetUnit(id, unit) ==
    /\ groupMap' = [groupMap EXCEPT ![id] = unit]
    /\ limited' = FALSE
    /\ UNCHANGED <<groupSequence, internalSequence, issued>>

AddDeviceToGroup(id, d) ==
    /\ Ready
    /\ IF IsBuildIn(id) THEN Answer("GROUP_CHANGE_NOT_ALLOWED")
       ELSE IF id \notin DOMAIN groupMap THEN Answer("GROUP_NOT_FOUND")
       ELSE IF d \notin Range(devices) THEN Answer("DEVICE_NOT_FOUND")
       ELSE IF d \in Members(id) THEN Answer("GROUP_DEVICE_DUPLICATED")
       ELSE SetUnit(id, AddTo(groupMap[id], d))

RemoveDeviceFromGroup(id, d) ==
    /\ Ready
    /\ IF IsBuildIn(id) THEN Answer("GROUP_CHANGE_NOT_ALLOWED")
       ELSE IF id \notin DOMAIN groupMap THEN Answer("GROUP_NOT_FOUND")
       ELSE IF d \notin Members(id) THEN Answer("DEVICE_NOT_FOUND")
       ELSE SetUnit(id, [groupMap[id] EXCEPT !.devices =
                            SelectSeq(@, LAMBDA x : x # d)])

-----------------------------------------------------------------------------
(* Readers that make several calls *)

Reading(p, pc) == stage = "ready" /\ query[p].pc = pc /\ UNCHANGED <<maps, boot, limited>>

(* getAllGroupIds with room for count ids: BUFFER_TOO_SMALL *)
TooSmall(count) == count < Cardinality(DOMAIN groupMap)

GroupInfo(id) == [id |-> id, devices |-> Members(id)]

CardsOf(d) == {id \in Cards : d \in Members(id)}

(* getSiblingDevices(pDevice): getAllGroupIds(nullptr, &count) *)
SiblingsCount(p, d) ==
    /\ Reading(p, "idle")
    /\ query' = [query EXCEPT ![p] =
         [NoQuery EXCEPT !.pc = "sibling_ids", !.dev = d,
                         !.count = Cardinality(DOMAIN groupMap)]]

(* Siblings of d among the ids that were read *)
SiblingsIn(ids, d) ==
    LET cards == {id \in ids : id \in CardsOf(d)}
    IN  IF cards = {} THEN {d} ELSE Members(Min(cards))

(* What the search returns when the map outgrew the array between the two  *)
(* calls: getAllGroupIds answers BUFFER_TOO_SMALL and raises count, the    *)
(* caller looks at neither, so it reads the zeros of its array (no card)   *)
(* and then past its end.  A word there is skipped, or is the id of the    *)
(* card, or is a card id no group has, whose group info stays unset.       *)
PastTheEnd(d) == {{d}, SiblingsIn(Cards, d), {Stranger}}

SiblingsFindExact(p) ==
    /\ Reading(p, "sibling_ids")
    /\ LET short == TooSmall(query[p].count)
       IN  \E res \in IF query[p].count # Cardinality(DOMAIN groupMap)
                      THEN PastTheEnd(query[p].dev)
                      ELSE {SiblingsIn(DOMAIN groupMap, query[p].dev)} :
             query' = [query EXCEPT ![p].pc = "siblings", ![p].short = short,
                                    ![p].count = 0, ![p].res = res]

(* getAllGroupIds(ids, &count) and the search for the card.  The cards are *)
(* looked up one getGroupInfo at a time; CardsFixed makes that one step.   *)
SiblingsFind(p) ==
    /\ Reading(p, "sibling_ids")
    /\ LET short == TooSmall(query[p].count)
       IN  \E res \in IF short THEN PastTheEnd(query[p].dev)
                      ELSE {SiblingsIn(DOMAIN groupMap, query[p].dev)} :
             query' = [query EXCEPT ![p].pc = "siblings", ![p].short = short,
                                    ![p].count = 0, ![p].res = res]

(* getAllGroups of the daemon: count, ids, then each group.  A group that  *)
(* is gone by then is left out of the list.                                *)
ListCount(p) ==
    /\ Reading(p, "idle")
    /\ query' = [query EXCEPT ![p] =
         [NoQuery EXCEPT !.pc = "list_ids", !.count = Cardinality(DOMAIN groupMap)]]

ListIdsCut(p) ==
    /\ Reading(p, "list_ids")
    /\ query' = [query EXCEPT ![p] =
         [NoQuery EXCEPT !.pc = "list",
            !.left = [i \in 1..Min({query[p].count, Cardinality(DOMAIN groupMap)}) |->
                        SetToSortSeq(DOMAIN groupMap, <)[i]]]]

ListIds(p) ==
    /\ Reading(p, "list_ids")
    /\ query' = [query EXCEPT ![p] =
         IF TooSmall(query[p].count)
         THEN [NoQuery EXCEPT !.pc = "failed"]
         ELSE [NoQuery EXCEPT !.pc = "list",
                              !.left = SetToSortSeq(DOMAIN groupMap, <)]]

ListGroup(p) ==
    /\ Reading(p, "list") /\ query[p].left # <<>>
    /\ LET id == Head(query[p].left)
       IN  query' = [query EXCEPT ![p].left = Tail(@),
             ![p].res = IF id \in DOMAIN groupMap
                        THEN @ \cup {GroupInfo(id)} ELSE @]

ListEnd(p) ==
    /\ Reading(p, "list") /\ query[p].left = <<>>
    /\ query' = [query EXCEPT ![p].pc = "listed"]

Return(p) ==
    /\ stage = "ready" /\ query[p].pc \in {"siblings", "failed", "listed"}
    /\ query' = [query EXCEPT ![p] = NoQuery]
    /\ UNCHANGED <<maps, boot, limited>>

-----------------------------------------------------------------------------
Ids == 0..MaxSeq \cup {Mask + n : n \in 1..Cardinality(Device)}

Start == BuildNext \/ BuildDone \/ CopySlotNames

Operation ==
    \/ CreateGroup
    \/ CreateGroupNull
    \/ \E id \in Ids : DestroyGroup(id)
    \/ \E id \in Ids, d \in Device \cup {Stranger} : AddDeviceToGroup(id, d)
    \/ \E id \in Ids, d \in Device \cup {Stranger} : RemoveDeviceFromGroup(id, d)

Reader(p) ==
    \/ \E d \in Range(devices) : SiblingsCount(p, d)
    \/ SiblingsFind(p)
    \/ ListCount(p) \/ ListIds(p) \/ ListGroup(p) \/ ListEnd(p)
    \/ Return(p)

Next == Start \/ Operation \/ \E p \in Procs : Reader(p)

Spec == Init /\ [][Next]_vars

-----------------------------------------------------------------------------
(* Properties *)

(* createGroup never takes the user groups past XPUM_MAX_NUM_GROUPS, and   *)
(* refuses only when they are that many, however many cards there are and  *)
(* whatever was destroyed before.                                          *)
UserGroupLimit ==
    /\ Cardinality(UserGroups) <= MaxGroups
    /\ limited => Cardinality(UserGroups) = MaxGroups

(* internalSequence - 1, which createGroup takes off the size of the map,  *)
(* is the number of cards in it: the unsigned difference never wraps.      *)
BuildInCounted == internalSequence - 1 = Cardinality(Cards)

(* An id is handed out once: a client that still holds the id of a         *)
(* destroyed group never reaches somebody else's group through it.         *)
IdNeverReused ==
    [][\A id \in DOMAIN groupMap' \ DOMAIN groupMap : id \notin issued]_vars

(* Once init() is over no operation creates, removes or changes a card, so *)
(* what firmware_manager.cpp locks as the siblings of a GPU stays right.   *)
CardsFixed ==
    [][stage = "ready" =>
        /\ Cards' = Cards
        /\ \A id \in Cards : groupMap'[id] = groupMap[id]]_vars

(* For GPUs of the multi-GPU board that pci.conf marks for grouping, and   *)
(* whatever the order in which they were discovered: two of them are in    *)
(* one card exactly when they sit on one board.                            *)
CardsMatchBoards ==
    stage # "build" =>
      \A d, e \in {x \in Range(devices) : ConfGroup[x] = "yes"} :
        (Board[d] = Board[e]) <=> (CardsOf(d) = CardsOf(e) /\ CardsOf(d) # {})

(* When no group was added between its two calls, getSiblingDevices finds  *)
(* the whole card of the GPU, groups being destroyed in between included.  *)
SiblingsIfNotOutgrown ==
    \A p \in Procs : query[p].pc = "siblings" /\ ~query[p].short =>
      query[p].res = SiblingsIn(Cards, query[p].dev)

(* A listing of the daemon that succeeds holds every card with all its     *)
(* GPUs, and no group twice, however the user groups change meanwhile.     *)
ListingWhole ==
    \A p \in Procs : query[p].pc = "listed" =>
      /\ \A id \in Cards : GroupInfo(id) \in query[p].res
      /\ \A g, h \in query[p].res : g.id = h.id => g = h

=============================================================================
