-------------------------- MODULE VgpuManagerProofs --------------------------
(***************************************************************************)
(* Proofs about the virtual functions, for any number of clients, tiles    *)
(* and VFs, any memory and any vgpu.conf.                                  *)
(***************************************************************************)
EXTENDS VgpuManager, TLAPS

Fields == {"pc", "n", "lmem", "rest", "free", "todo"}
Shaped(r) == r = [f \in Fields |-> r[f]]

Busy(r) == r.pc \in {"write", "clear"}

(* What a call has achieved that is between the test of sriov_numvfs and   *)
(* its last write, for the files it has behind it.                         *)
Written(r, q, nv, cl) ==
    r.pc = "write" =>
      /\ nv = 0 /\ ~cl
      /\ r.rest = Conf[r.n].rest
      /\ \A p \in PlacesOf(r.n) : p \notin r.todo => q[p] = QuotaOf(r.n, p[2], r.lmem, r.rest)

Cleared(r, q, nv) ==
    r.pc = "clear" => nv = 0 /\ \A p \in Place : p \notin r.todo => q[p] = NoQuota

(* The mutex admits one such call, so no other call disturbs these facts.  *)
IInv ==
    /\ DOMAIN vfCall = VfClients /\ vfCall = [c \in VfClients |-> vfCall[c]]
    /\ quota = [p \in Place |-> quota[p]]
    /\ \A c \in VfClients :
         /\ Shaped(vfCall[c])
         /\ Busy(vfCall[c]) => vfMutex = c
         /\ Written(vfCall[c], quota, numvfs, clean)
         /\ Cleared(vfCall[c], quota, numvfs)
    /\ VfsProvisioned
    /\ RemoveClears

-----------------------------------------------------------------------------
(* To show the invariant after a step of c it is enough to look at c, when *)
(* no other call is busy or nothing that it relies on has changed.         *)
LEMMA OneCall ==
    ASSUME IInv, NEW c \in VfClients, NEW r,
           vfCall' = [vfCall EXCEPT ![c] = r],
           quota' = [p \in Place |-> quota'[p]],
           \/ vfMutex = c \/ vfMutex = VfNobody
           \/ UNCHANGED <<quota, numvfs, clean, vfMutex>>,
           Shaped(r),
           Busy(r) => vfMutex' = c,
           Written(r, quota', numvfs', clean'),
           Cleared(r, quota', numvfs'),
           VfsProvisioned', RemoveClears'
    PROVE  IInv'
  <1>1. vfCall'[c] = r /\ \A d \in VfClients \ {c} : vfCall'[d] = vfCall[d]
    BY DEF IInv
  <1>2. DOMAIN vfCall' = VfClients /\ vfCall' = [d \in VfClients |-> vfCall'[d]]
    BY DEF IInv
  <1>3. ASSUME NEW d \in VfClients \ {c}
        PROVE  /\ Shaped(vfCall[d])
               /\ Busy(vfCall[d]) => vfMutex' = d
               /\ Written(vfCall[d], quota', numvfs', clean')
               /\ Cleared(vfCall[d], quota', numvfs')
    <2>1. CASE UNCHANGED <<quota, numvfs, clean, vfMutex>>
      BY <2>1 DEF IInv, Written, Cleared
    <2>2. CASE vfMutex = c \/ vfMutex = VfNobody
      <3>1. ~Busy(vfCall[d])
        BY <2>2, VfNobodyAssumption DEF IInv
      <3>2. QED
        BY <3>1 DEF IInv, Busy, Written, Cleared
    <2>3. QED
      BY <2>1, <2>2
  <1>4. ASSUME NEW d \in VfClients
        PROVE  /\ Shaped(vfCall'[d])
               /\ Busy(vfCall'[d]) => vfMutex' = d
               /\ Written(vfCall'[d], quota', numvfs', clean')
               /\ Cleared(vfCall'[d], quota', numvfs')
    <2>1. CASE d = c
      BY <2>1, <1>1
    <2>2. CASE d # c
      BY <2>2, <1>1, <1>3
    <2>3. QED
      BY <2>1, <2>2
  <1> HIDE DEF VfsProvisioned, RemoveClears
  <1>5. QED
    BY <1>2, <1>4 DEF IInv, Shaped, Busy, Written, Cleared

(* Facts that hold while a call is busy, after it and when none is         *)
LEMMA IdleCall ==
    /\ Shaped(VfIdle) /\ ~Busy(VfIdle)
    /\ \A q, nv, cl : Written(VfIdle, q, nv, cl) /\ Cleared(VfIdle, q, nv)
  BY DEF VfIdle, Shaped, Fields, Busy, Written, Cleared

(* createVf leaves the VFs and the quotas alone until it has been accepted.*)
LEMMA CreateLoadStep ==
    ASSUME IInv, NEW c \in VfClients, NEW n, NEW asked, CreateLoad(c, n, asked)
    PROVE  IInv'
  <1> DEFINE r == [VfIdle EXCEPT !.pc = "create", !.n = n, !.lmem = asked,
                                !.free = MapThenSumSet(LmemFree, Tile)]
  <1>1. r.pc = "create" /\ Shaped(r)
    BY DEF VfIdle, Shaped, Fields
  <1>2. vfCall' = [vfCall EXCEPT ![c] = r] /\ UNCHANGED <<numvfs, quota, vfMutex, enabled, clean>>
    BY DEF CreateLoad
  <1> HIDE DEF r
  <1>3. VfsProvisioned' /\ RemoveClears' /\ quota' = [p \in Place |-> quota'[p]]
    BY <1>2 DEF IInv, VfsProvisioned, RemoveClears
  <1>4. /\ Busy(r) => vfMutex' = c
        /\ Written(r, quota', numvfs', clean') /\ Cleared(r, quota', numvfs')
    BY <1>1 DEF Busy, Written, Cleared
  <1>5. QED
    BY <1>1, <1>2, <1>3, <1>4, OneCall

(* A call that returns and has changed neither VFs nor quotas              *)
LEMMA ReturnStep ==
    ASSUME IInv, NEW c \in VfClients, vfMutex \in {c, VfNobody},
           VfReturn(c), UNCHANGED <<numvfs, quota, enabled, clean>>
    PROVE  IInv'
  <1>1. VfsProvisioned' /\ RemoveClears' /\ quota' = [p \in Place |-> quota'[p]]
    BY DEF IInv, VfsProvisioned, RemoveClears
  <1>2. QED
    BY <1>1, IdleCall, OneCall DEF VfReturn

LEMMA CreateAcceptStep ==
    ASSUME IInv, NEW c \in VfClients, CreateAccept(c)
    PROVE  IInv'
  <1> DEFINE n == vfCall[c].n
  <1>1. PICK lmem : vfCall' = [vfCall EXCEPT ![c].pc = "write", ![c].lmem = lmem,
                                 ![c].rest = Conf[n].rest, ![c].todo = PlacesOf(n)]
    BY DEF CreateAccept
  <1> DEFINE r == [vfCall[c] EXCEPT !.pc = "write", !.lmem = lmem,
                                    !.rest = Conf[n].rest, !.todo = PlacesOf(n)]
  <1>2. vfCall' = [vfCall EXCEPT ![c] = r]
    BY <1>1 DEF IInv
  <1>3. /\ Shaped(r) /\ r.pc = "write" /\ r.n = n
        /\ r.rest = Conf[n].rest /\ r.todo = PlacesOf(n)
    <2>1. Shaped(vfCall[c])
      BY DEF IInv
    <2>2. QED
      BY <2>1 DEF Shaped, Fields
  <1> HIDE DEF r
  <1>4. /\ vfMutex = VfNobody /\ vfMutex' = c /\ numvfs = 0 /\ clean' = FALSE
        /\ UNCHANGED <<numvfs, quota, enabled>>
    BY DEF CreateAccept
  <1>5. VfsProvisioned' /\ RemoveClears' /\ quota' = [p \in Place |-> quota'[p]]
    BY <1>4 DEF IInv, VfsProvisioned, RemoveClears
  <1>6. Written(r, quota', numvfs', clean') /\ Cleared(r, quota', numvfs')
    BY <1>3, <1>4 DEF Written, Cleared
  <1>7. QED
    BY <1>2, <1>3, <1>4, <1>5, <1>6, OneCall

(* While a call is busy there are no VFs, so only the quotas behind it and *)
(* the promise of the last removeAllVf are at stake.                       *)
LEMMA WriteQuotaStep ==
    ASSUME IInv, NEW c \in VfClients, NEW p \in Place, WriteQuota(c, p)
    PROVE  IInv'
  <1> DEFINE r == [vfCall[c] EXCEPT !.todo = vfCall[c].todo \ {p}]
  <1> DEFINE new == QuotaOf(vfCall[c].n, p[2], vfCall[c].lmem, vfCall[c].rest)
  <1>1. vfCall' = [vfCall EXCEPT ![c] = r]
    BY DEF WriteQuota, IInv
  <1>2. /\ Shaped(r) /\ r.pc = vfCall[c].pc /\ r.n = vfCall[c].n /\ r.lmem = vfCall[c].lmem
        /\ r.rest = vfCall[c].rest /\ r.todo = vfCall[c].todo \ {p}
    <2>1. Shaped(vfCall[c])
      BY DEF IInv
    <2>2. QED
      BY <2>1 DEF Shaped, Fields
  <1>3. /\ vfCall[c].pc = "write" /\ quota' = [quota EXCEPT ![p] = new]
        /\ UNCHANGED <<numvfs, vfMutex, enabled, clean>>
    BY DEF WriteQuota
  <1> HIDE DEF r, new
  <1>4. /\ vfMutex = c /\ numvfs = 0 /\ ~clean /\ vfCall[c].rest = Conf[vfCall[c].n].rest
        /\ \A q \in PlacesOf(vfCall[c].n) : q \notin vfCall[c].todo =>
             quota[q] = QuotaOf(vfCall[c].n, q[2], vfCall[c].lmem, vfCall[c].rest)
    BY <1>3 DEF IInv, Busy, Written
  <1>5. /\ quota'[p] = new /\ \A q \in Place \ {p} : quota'[q] = quota[q]
        /\ quota' = [q \in Place |-> quota'[q]]
    BY <1>3 DEF IInv
  <1>6. VfsProvisioned' /\ RemoveClears'
    BY <1>3, <1>4 DEF VfsProvisioned, RemoveClears
  <1>7. \A q \in PlacesOf(r.n) : q \notin r.todo =>
          quota'[q] = QuotaOf(r.n, q[2], r.lmem, r.rest)
    <2> TAKE q \in PlacesOf(r.n)
    <2>1. q \in Place
      BY DEF PlacesOf
    <2>2. CASE q = p
      BY <2>2, <1>2, <1>5 DEF new
    <2>3. CASE q # p
      BY <2>1, <2>3, <1>2, <1>4, <1>5
    <2>4. QED
      BY <2>2, <2>3
  <1>8. Written(r, quota', numvfs', clean') /\ Cleared(r, quota', numvfs')
    BY <1>2, <1>3, <1>4, <1>7 DEF Written, Cleared
  <1>9. QED
    BY <1>1, <1>2, <1>3, <1>4, <1>5, <1>6, <1>8, OneCall

LEMMA WriteFailsStep ==
    ASSUME IInv, NEW c \in VfClients, NEW p \in Place, WriteFails(c, p)
    PROVE  IInv'
  <1>1. PICK q : quota' = [quota EXCEPT ![p] = q]
    BY DEF WriteFails
  <1>2. vfCall[c].pc = "write" /\ VfReturn(c) /\ UNCHANGED <<numvfs, enabled, clean>>
    BY DEF WriteFails
  <1>3. vfMutex = c /\ numvfs = 0 /\ ~clean
    BY <1>2 DEF IInv, Busy, Written
  <1>4. VfsProvisioned' /\ RemoveClears' /\ quota' = [x \in Place |-> quota'[x]]
    BY <1>1, <1>2, <1>3 DEF IInv, VfsProvisioned, RemoveClears
  <1>5. QED
    BY <1>2, <1>3, <1>4, IdleCall, OneCall DEF VfReturn

(* Enabling the VFs is where the facts about the writes become those about *)
(* the VFs.                                                                *)
LEMMA EnableStep ==
    ASSUME IInv, NEW c \in VfClients, Enable(c)
    PROVE  IInv'
  <1>1. /\ vfCall[c].pc = "write" /\ vfCall[c].todo = {} /\ numvfs' = vfCall[c].n
        /\ enabled' = [n |-> vfCall[c].n, lmem |-> vfCall[c].lmem]
        /\ VfReturn(c) /\ UNCHANGED <<quota, clean>>
    BY DEF Enable
  <1>2. /\ vfMutex = c /\ ~clean /\ vfCall[c].rest = Conf[vfCall[c].n].rest
        /\ \A p \in PlacesOf(vfCall[c].n) :
             quota[p] = QuotaOf(vfCall[c].n, p[2], vfCall[c].lmem, vfCall[c].rest)
    BY <1>1 DEF IInv, Busy, Written
  <1>3. VfsProvisioned'
    BY <1>1, <1>2 DEF VfsProvisioned
  <1>4. RemoveClears' /\ quota' = [x \in Place |-> quota'[x]]
    BY <1>1, <1>2 DEF IInv, RemoveClears
  <1>5. QED
    BY <1>1, <1>2, <1>3, <1>4, IdleCall, OneCall DEF VfReturn

LEMMA RemoveBeginStep ==
    ASSUME IInv, NEW c \in VfClients, RemoveBegin(c)
    PROVE  IInv'
  <1>1. vfMutex = VfNobody /\ numvfs' = 0 /\ UNCHANGED <<quota, clean>>
    BY DEF RemoveBegin
  <1>2. VfsProvisioned' /\ RemoveClears' /\ quota' = [x \in Place |-> quota'[x]]
    BY <1>1 DEF IInv, VfsProvisioned, RemoveClears
  <1>3. CASE VfReturn(c)
    BY <1>1, <1>2, <1>3, IdleCall, OneCall DEF VfReturn
  <1>4. CASE vfMutex' = c /\ vfCall' = [vfCall EXCEPT ![c] =
                                          [VfIdle EXCEPT !.pc = "clear", !.todo = Place]]
    <2> DEFINE r == [VfIdle EXCEPT !.pc = "clear", !.todo = Place]
    <2>1. Shaped(r) /\ r.pc = "clear" /\ r.todo = Place
      BY DEF VfIdle, Shaped, Fields
    <2>2. vfCall' = [vfCall EXCEPT ![c] = r] /\ vfMutex' = c
      BY <1>4
    <2> HIDE DEF r
    <2>3. Written(r, quota', numvfs', clean') /\ Cleared(r, quota', numvfs')
      BY <1>1, <2>1 DEF Written, Cleared
    <2>4. QED
      BY <1>1, <1>2, <2>1, <2>2, <2>3, OneCall
  <1>5. QED
    BY <1>3, <1>4 DEF RemoveBegin

(* Clearing one file never undoes an earlier removeAllVf.                  *)
LEMMA ClearQuotaStep ==
    ASSUME IInv, NEW c \in VfClients, NEW p \in Place, ClearQuota(c, p)
    PROVE  IInv'
  <1> DEFINE r == [vfCall[c] EXCEPT !.todo = vfCall[c].todo \ {p}]
  <1>1. vfCall' = [vfCall EXCEPT ![c] = r]
    BY DEF ClearQuota, IInv
  <1>2. Shaped(r) /\ r.pc = vfCall[c].pc /\ r.todo = vfCall[c].todo \ {p}
    <2>1. Shaped(vfCall[c])
      BY DEF IInv
    <2>2. QED
      BY <2>1 DEF Shaped, Fields
  <1>3. /\ vfCall[c].pc = "clear" /\ quota' = [quota EXCEPT ![p] = NoQuota]
        /\ UNCHANGED <<numvfs, vfMutex, enabled, clean>>
    BY DEF ClearQuota
  <1> HIDE DEF r
  <1>4. /\ vfMutex = c /\ numvfs = 0
        /\ \A q \in Place : q \notin vfCall[c].todo => quota[q] = NoQuota
    BY <1>3 DEF IInv, Busy, Cleared
  <1>5. /\ quota'[p] = NoQuota /\ \A q \in Place \ {p} : quota'[q] = quota[q]
        /\ quota' = [q \in Place |-> quota'[q]]
    BY <1>3 DEF IInv
  <1>6. VfsProvisioned' /\ RemoveClears'
    BY <1>3, <1>4, <1>5 DEF IInv, VfsProvisioned, RemoveClears
  <1>7. Written(r, quota', numvfs', clean') /\ Cleared(r, quota', numvfs')
    BY <1>2, <1>3, <1>4, <1>5 DEF Written, Cleared
  <1>8. QED
    BY <1>1, <1>2, <1>3, <1>4, <1>5, <1>6, <1>7, OneCall

LEMMA ClearFailsStep ==
    ASSUME IInv, NEW c \in VfClients, NEW p \in Place, ClearFails(c, p)
    PROVE  IInv'
  <1>1. PICK q \in Broken(quota[p], NoQuota) : quota' = [quota EXCEPT ![p] = q]
    BY DEF ClearFails
  <1>2. vfCall[c].pc = "clear" /\ VfReturn(c) /\ UNCHANGED <<numvfs, enabled, clean>>
    BY DEF ClearFails
  <1>3. vfMutex = c /\ numvfs = 0
    BY <1>2 DEF IInv, Busy, Cleared
  <1>4. quota[p] = NoQuota => q = NoQuota
    BY DEF Broken, NoQuota
  <1>5. VfsProvisioned' /\ quota' = [x \in Place |-> quota'[x]]
    BY <1>1, <1>2, <1>3 DEF IInv, VfsProvisioned
  <1>6. RemoveClears'
    <2>1. quota'[p] = q /\ \A x \in Place \ {p} : quota'[x] = quota[x]
      BY <1>1 DEF IInv
    <2>2. QED
      BY <1>2, <1>4, <2>1 DEF IInv, RemoveClears
  <1>7. QED
    BY <1>2, <1>3, <1>5, <1>6, IdleCall, OneCall DEF VfReturn

LEMMA RemoveDoneStep ==
    ASSUME IInv, NEW c \in VfClients, RemoveDone(c)
    PROVE  IInv'
  <1>1. /\ vfCall[c].pc = "clear" /\ vfCall[c].todo = {}
        /\ VfReturn(c) /\ UNCHANGED <<numvfs, quota, enabled>>
    BY DEF RemoveDone
  <1>2. vfMutex = c /\ \A p \in Place : quota[p] = NoQuota
    BY <1>1 DEF IInv, Busy, Cleared
  <1>3. VfsProvisioned' /\ RemoveClears' /\ quota' = [x \in Place |-> quota'[x]]
    BY <1>1, <1>2 DEF IInv, VfsProvisioned, RemoveClears
  <1>4. QED
    BY <1>1, <1>2, <1>3, IdleCall, OneCall DEF VfReturn

-----------------------------------------------------------------------------
(* The facts about the files behind a busy call hold for ever.             *)
THEOREM Invariance == VgpuSpec => []IInv
  <1>1. VgpuInit => IInv
    <2> SUFFICES ASSUME VgpuInit PROVE IInv
      OBVIOUS
    <2>1. \A c \in VfClients : vfCall[c] = VfIdle
      BY DEF VgpuInit
    <2>2. VfsProvisioned /\ RemoveClears
      BY DEF VgpuInit, VfsProvisioned, RemoveClears
    <2>3. /\ DOMAIN vfCall = VfClients /\ vfCall = [c \in VfClients |-> vfCall[c]]
          /\ quota = [p \in Place |-> quota[p]]
      BY DEF VgpuInit
    <2>4. QED
      BY <2>1, <2>2, <2>3, IdleCall DEF IInv
  <1>2. IInv /\ [VgpuNext]_vgpuVars => IInv'
    <2> SUFFICES ASSUME IInv, [VgpuNext]_vgpuVars PROVE IInv'
      OBVIOUS
    <2>1. ASSUME NEW c \in VfClients, VgpuStep(c) PROVE IInv'
      <3>1. ASSUME NEW n \in VfCounts, NEW asked \in LmemAsked, CreateLoad(c, n, asked)
            PROVE  IInv'
        BY <3>1, CreateLoadStep
      <3>2. CASE CreateRefused(c)
        BY <3>2, ReturnStep DEF CreateRefused
      <3>3. CASE CreateAccept(c)
        BY <3>3, CreateAcceptStep
      <3>4. ASSUME NEW p \in Place, WriteQuota(c, p) \/ WriteFails(c, p) PROVE IInv'
        BY <3>4, WriteQuotaStep, WriteFailsStep
      <3>5. CASE Enable(c)
        BY <3>5, EnableStep
      <3>6. CASE EnableFails(c)
        <4>1. vfMutex = c
          BY <3>6 DEF EnableFails, IInv, Busy
        <4>2. QED
          BY <3>6, <4>1, ReturnStep DEF EnableFails
      <3>7. CASE RemoveBegin(c)
        BY <3>7, RemoveBeginStep
      <3>8. ASSUME NEW p \in Place, ClearQuota(c, p) \/ ClearFails(c, p) PROVE IInv'
        BY <3>8, ClearQuotaStep, ClearFailsStep
      <3>9. CASE RemoveDone(c)
        BY <3>9, RemoveDoneStep
      <3>10. QED
        BY <2>1, <3>1, <3>2, <3>3, <3>4, <3>5, <3>6, <3>7, <3>8, <3>9 DEF VgpuStep
    <2>2. CASE UNCHANGED vgpuVars
      BY <2>2 DEF vgpuVars, IInv, VfsProvisioned, RemoveClears, Shaped, Busy, Written, Cleared
    <2>3. QED
      BY <2>1, <2>2 DEF VgpuNext
  <1>3. QED
    BY <1>1, <1>2, PTL DEF VgpuSpec

(* Enabled VFs always have the whole quotas of their own createVf.         *)
THEOREM EnabledVfsAreProvisioned == VgpuSpec => []VfsProvisioned
  <1>1. IInv => VfsProvisioned
    BY DEF IInv
  <1>2. QED
    BY <1>1, Invariance, PTL

(* A removeAllVf that returns XPUM_OK has left no quota behind.            *)
THEOREM RemoveLeavesNothing == VgpuSpec => []RemoveClears
  <1>1. IInv => RemoveClears
    BY DEF IInv
  <1>2. QED
    BY <1>1, Invariance, PTL

=============================================================================
