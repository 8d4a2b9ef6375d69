---------------------------- MODULE VgpuManager ----------------------------
(***************************************************************************)
(* Virtual functions of one GPU: createVf and removeAllVf of concurrent    *)
(* clients, each a series of writes to files of the kernel driver, any of  *)
(* which may fail and leave what was written before.  VgpuManager::mutex   *)
(* is held from the test of sriov_numvfs to the last write.                *)
(***************************************************************************)
EXTENDS Integers, FiniteSets, FiniteSetsExt

CONSTANTS
    VfClients,    \* threads that serve the calls
    NumTiles,     \* tiles of the GPU
    MaxVfs,       \* getVFMaxNumberByPciDeviceId
    Memory,       \* local memory of a tile
    Conf,         \* vgpu.conf: Conf[n] = [lmem, lmemEcc, rest] for n VFs, lmem 0: no item
    VfCounts,     \* the numVfs a client may pass
    LmemAsked,    \* what a client may pass as lmemPerVf; 0: as in vgpu.conf
    VfNobody,     \* owner of the free mutex
    Mixed         \* a VF of whose other quotas only some were written

ASSUME VfNobodyAssumption == VfNobody \notin VfClients

VARIABLES
    numvfs,       \* sriov_numvfs of the driver
    quota,        \* <<VF, tile>> -> [lmem, rest]: lmem_quota; ggtt, doorbells and contexts
    vfMutex,      \* VgpuManager::mutex
    vfCall,       \* the call each client is in
    enabled,      \* history: [n, lmem] of the createVf that enabled the VFs
    clean         \* history: no quota was written since removeAllVf returned XPUM_OK

vgpuVars == <<numvfs, quota, vfMutex, vfCall, enabled, clean>>

Tile == 0..(NumTiles - 1)
Place == (1..MaxVfs) \X Tile
NoQuota == [lmem |-> 0, rest |-> 0]
NotEnabled == [n |-> 0, lmem |-> 0]
VfIdle == [pc |-> "idle", n |-> 0, lmem |-> 0, rest |-> 0, free |-> 0, todo |-> {}]

VgpuInit ==
    /\ numvfs = 0
    /\ quota = [p \in Place |-> NoQuota]
    /\ vfMutex = VfNobody
    /\ vfCall = [c \in VfClients |-> VfIdle]
    /\ enabled = NotEnabled
    /\ clean = FALSE

-----------------------------------------------------------------------------
(* lmem_free of a tile, as the driver accounts for it                      *)
LmemFree(t) == Memory - MapThenSumSet(LAMBDA v : quota[<<v, t>>].lmem, 1..MaxVfs)

(* "Each VF should be mapped to only one tile, except the case of 1 VF on  *)
(* 2 tiles": the files a createVf of n VFs writes.                         *)
PlacesOf(n) == {p \in Place : p[1] <= n /\ (n = 1 \/ p[1] % NumTiles = p[2])}

(* What createVfInternal writes for a VF on a tile.  For one VF on several *)
(* tiles the memory is divided once, but the other quotas are divided again*)
(* in every round of the loop over the tiles.                              *)
QuotaOf(n, t, lmem, rest) ==
    IF n = 1 /\ NumTiles > 1
    THEN [lmem |-> lmem \div NumTiles, rest |-> rest \div NumTiles^(t + 1)]
    ELSE [lmem |-> lmem, rest |-> rest]

(* writeVfAttrToSysfs that fails: the exceptions of writeFile leave the    *)
(* quotas as they were, or the memory written, or some of the others too   *)
(* (exec_quantum_ms and preempt_timeout_us, written before, are left out). *)
Broken(old, new) ==
    {old, [old EXCEPT !.lmem = new.lmem],
     [lmem |-> new.lmem, rest |-> IF old.rest = new.rest THEN new.rest ELSE Mixed]}

VfReturn(c) == vfMutex' = VfNobody /\ vfCall' = [vfCall EXCEPT ![c] = VfIdle]

-----------------------------------------------------------------------------
(* createVf, up to the mutex: loadSriovData reads the free memory.         *)
CreateLoad(c, n, asked) ==
    /\ vfCall[c].pc = "idle"
    /\ vfCall' = [vfCall EXCEPT ![c] =
         [VfIdle EXCEPT !.pc = "create", !.n = n, !.lmem = asked,
                        !.free = MapThenSumSet(LmemFree, Tile)]]
    /\ UNCHANGED <<numvfs, quota, vfMutex, enabled, clean>>

ValidNumVfs(n) ==
    /\ n > 0 /\ n <= MaxVfs
    /\ ~(NumTiles > 1 /\ n > 1 /\ n % 2 # 0)
    /\ Conf[n].lmem # 0

(* The memory of a VF: what was asked for or what vgpu.conf says, with or  *)
(* without ECC.                                                            *)
LmemToUse(n, asked, ecc) ==
    IF asked > 0 THEN asked ELSE IF ecc THEN Conf[n].lmemEcc ELSE Conf[n].lmem

(* DIRTY_PF, INVALID_NUMVFS, INVALID_LMEM, or an unreadable file *)
CreateRefused(c) ==
    /\ vfCall[c].pc = "create" /\ vfMutex = VfNobody
    /\ VfReturn(c)
    /\ UNCHANGED <<numvfs, quota, enabled, clean>>

CreateAccept(c) ==
    LET n == vfCall[c].n IN
    /\ vfCall[c].pc = "create" /\ vfMutex = VfNobody
    /\ numvfs = 0 /\ ValidNumVfs(n)
    /\ \E ecc \in BOOLEAN :
         LET lmem == LmemToUse(n, vfCall[c].lmem, ecc) IN
         /\ lmem * n <= vfCall[c].free
         /\ vfCall' = [vfCall EXCEPT ![c].pc = "write", ![c].lmem = lmem,
                                     ![c].rest = Conf[n].rest, ![c].todo = PlacesOf(n)]
    /\ vfMutex' = c
    /\ clean' = FALSE
    /\ UNCHANGED <<numvfs, quota, enabled>>

(* The loops of createVfInternal: tile by tile, and VF by VF on a tile     *)
NextWrite(todo, p) ==
    /\ p \in todo
    /\ \A q \in todo : p[2] < q[2] \/ (p[2] = q[2] /\ p[1] <= q[1])

(* The driver refuses a memory quota it has no memory for.                 *)
WriteQuota(c, p) ==
    LET new == QuotaOf(vfCall[c].n, p[2], vfCall[c].lmem, vfCall[c].rest) IN
    /\ vfCall[c].pc = "write" /\ NextWrite(vfCall[c].todo, p)
    /\ new.lmem - quota[p].lmem <= LmemFree(p[2])
    /\ quota' = [quota EXCEPT ![p] = new]
    /\ vfCall' = [vfCall EXCEPT ![c].todo = @ \ {p}]
    /\ UNCHANGED <<numvfs, vfMutex, enabled, clean>>

WriteFailsOn(c, p) ==
    /\ vfCall[c].pc = "write" /\ NextWrite(vfCall[c].todo, p)
    /\ \E q \in Broken(quota[p], QuotaOf(vfCall[c].n, p[2], vfCall[c].lmem, vfCall[c].rest)) :
         quota' = [quota EXCEPT ![p] = q]
    /\ vfCall' = [vfCall EXCEPT ![c].todo = @ \ {p}]
    /\ UNCHANGED <<numvfs, vfMutex, enabled, clean>>

(* CREATE_VF_FAILED: nothing is taken back *)
WriteFails(c, p) ==
    /\ vfCall[c].pc = "write" /\ NextWrite(vfCall[c].todo, p)
    /\ \E q \in Broken(quota[p], QuotaOf(vfCall[c].n, p[2], vfCall[c].lmem, vfCall[c].rest)) :
         quota' = [quota EXCEPT ![p] = q]
    /\ VfReturn(c)
    /\ UNCHANGED <<numvfs, enabled, clean>>

(* sriov_drivers_autoprobe, then sriov_numvfs *)
Enable(c) ==
    /\ vfCall[c].pc = "write" /\ vfCall[c].todo = {}
    /\ numvfs' = vfCall[c].n
    /\ enabled' = [n |-> vfCall[c].n, lmem |-> vfCall[c].lmem]
    /\ VfReturn(c)
    /\ UNCHANGED <<quota, clean>>

EnableFails(c) ==
    /\ vfCall[c].pc = "write" /\ vfCall[c].todo = {}
    /\ VfReturn(c)
    /\ UNCHANGED <<numvfs, quota, enabled, clean>>

-----------------------------------------------------------------------------
(* removeAllVf: sriov_numvfs becomes 0 first (when that fails nothing      *)
(* changes); opendir may fail after that.                                  *)
RemoveBegin(c) ==
    /\ vfCall[c].pc = "idle" /\ vfMutex = VfNobody
    /\ numvfs' = 0 /\ enabled' = NotEnabled
    /\ \/ VfReturn(c)
       \/ /\ vfMutex' = c
          /\ vfCall' = [vfCall EXCEPT ![c] = [VfIdle EXCEPT !.pc = "clear", !.todo = Place]]
    /\ UNCHANGED <<quota, clean>>

(* The VFs in the order of readdir, each on all its tiles                  *)
NextClear(todo, p) ==
    LET begun == {q[1] : q \in {r \in todo : {r[1]} \X Tile \ todo # {}}} IN
    /\ p \in todo
    /\ begun = {} \/ p[1] \in begun
    /\ \A q \in todo : p[1] = q[1] => p[2] <= q[2]

ClearQuota(c, p) ==
    /\ vfCall[c].pc = "clear" /\ NextClear(vfCall[c].todo, p)
    /\ quota' = [quota EXCEPT ![p] = NoQuota]
    /\ vfCall' = [vfCall EXCEPT ![c].todo = @ \ {p}]
    /\ UNCHANGED <<numvfs, vfMutex, enabled, clean>>

ClearFailsOn(c, p) ==
    /\ vfCall[c].pc = "clear" /\ NextClear(vfCall[c].todo, p)
    /\ \E q \in Broken(quota[p], NoQuota) : quota' = [quota EXCEPT ![p] = q]
    /\ vfCall' = [vfCall EXCEPT ![c].todo = @ \ {p}]
    /\ UNCHANGED <<numvfs, vfMutex, enabled, clean>>

(* REMOVE_VF_FAILED at the first write that fails *)
ClearFails(c, p) ==
    /\ vfCall[c].pc = "clear" /\ NextClear(vfCall[c].todo, p)
    /\ \E q \in Broken(quota[p], NoQuota) : quota' = [quota EXCEPT ![p] = q]
    /\ VfReturn(c)
    /\ UNCHANGED <<numvfs, enabled, clean>>

RemoveDone(c) ==
    /\ vfCall[c].pc = "clear" /\ vfCall[c].todo = {}
    /\ clean' = TRUE
    /\ VfReturn(c)
    /\ UNCHANGED <<numvfs, quota, enabled>>

-----------------------------------------------------------------------------
VgpuStep(c) ==
    \/ \E n \in VfCounts, asked \in LmemAsked : CreateLoad(c, n, asked)
    \/ CreateRefused(c) \/ CreateAccept(c)
    \/ \E p \in Place : WriteQuota(c, p) \/ WriteFails(c, p)
    \/ Enable(c) \/ EnableFails(c)
    \/ RemoveBegin(c)
    \/ \E p \in Place : ClearQuota(c, p) \/ ClearFails(c, p)
    \/ RemoveDone(c)

VgpuNext == \E c \in VfClients : VgpuStep(c)

VgpuSpec == VgpuInit /\ [][VgpuNext]_vgpuVars

-----------------------------------------------------------------------------
(* While VFs are enabled, each of them has, on every tile it is mapped to, *)
(* exactly the quotas of the createVf that enabled them: no write that     *)
(* failed, no other createVf and no removeAllVf got in between.            *)
VfsProvisioned ==
    numvfs > 0 =>
      /\ numvfs = enabled.n
      /\ \A p \in PlacesOf(numvfs) :
           quota[p] = QuotaOf(numvfs, p[2], enabled.lmem, Conf[numvfs].rest)

(* When removeAllVf has returned XPUM_OK no VF holds a quota on any tile,  *)
(* those that an earlier createVf left behind when it failed included.     *)
RemoveClears == clean => \A p \in Place : quota[p] = NoQuota

=============================================================================
