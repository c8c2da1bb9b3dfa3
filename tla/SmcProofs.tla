----------------------------- MODULE SmcProofs -----------------------------
(***************************************************************************)
(* Safety of self-modifying code, for any number of vcpus, embedder        *)
(* threads, pages, keys and writes; what one vcpu that patches its own     *)
(* code can rely on; and at the end, of the specification RangeSpec, the   *)
(* code-range watermark inlined stores test before they announce anything. *)
(***************************************************************************)
EXTENDS Smc, CodeRange, TLAPS

(* The unit in hand is there when a step installs or publishes it.         *)
CurIsUnit ==
  \A v \in Vcpus : pc[v] \in {"upgrade", "insert", "publish"} => cur[v] \in Units

Types == TypeOK /\ CurIsUnit

LEMMA InitTypes == Init => Types
<1> SUFFICES ASSUME Init PROVE Types
    BY Zenon
<1>1. ver \in [Pages -> Versions] /\ refills \in [Vcpus -> 0 .. Cap]
      BY BoundAssumption DEF Init, Versions
<1>2. fast \in [Vcpus -> [Keys -> Units \cup {None}]]
      BY Zenon DEF Init
<1> QED BY <1>1, <1>2, Zenon DEF Init, Types, TypeOK, CurIsUnit, Labels

(* What a lift makes is a translation unit.                                *)
LEMMA LiftedIsUnit ==
  ASSUME TypeOK, NEW k \in Keys
  PROVE  Lifted(k) \in Units
  BY ShapeAssumption, HomeAssumption, TieringAssumption, BoundAssumption
  DEF TypeOK, Lifted, Units, Versions

LEMMA RefillFits ==
  ASSUME NEW n \in 0 .. Cap, n # Cap
  PROVE  n + 1 \in 0 .. Cap
  BY BoundAssumption

(* Returning from resolve with a unit keeps the vcpu's state well typed.   *)
LEMMA ReturnTypes ==
  ASSUME Types, NEW v \in Vcpus, NEW u \in Units, Return(v, u)
  PROVE  /\ cur' \in [Vcpus -> Units \cup {None}]
         /\ fast' \in [Vcpus -> [Keys -> Units \cup {None}]]
         /\ pc' \in [Vcpus -> Labels]
         /\ UNCHANGED <<ret, rip, since, snap, fast_epoch, refills>>
         /\ CurIsUnit'
<1> USE DEF Types, TypeOK, Return
<1>1. fast' \in [Vcpus -> [Keys -> Units \cup {None}]]
  <2>1. CASE u.comp /\ ret[v] # "link"
        BY <2>1, Zenon
  <2>2. CASE ~(u.comp /\ ret[v] # "link")
        BY <2>2, Zenon
  <2> QED BY <2>1, <2>2, Zenon
<1>2. pc' \in [Vcpus -> Labels]
      BY Zenon DEF Goto, Labels
<1>3. CurIsUnit'
      BY Zenon DEF CurIsUnit, Goto
<1> QED BY <1>1, <1>2, <1>3, Zenon

LEMMA NextTypes == Types /\ [Next]_vars => Types'
<1> SUFFICES ASSUME Types, [Next]_vars PROVE Types'
    BY Zenon
<1> USE BoundAssumption DEF Types, TypeOK, CurIsUnit, Labels, Goto
<1>a. ASSUME NEW v \in Vcpus, NEW u \in Units, Return(v, u)
      PROVE  /\ cur' \in [Vcpus -> Units \cup {None}]
             /\ fast' \in [Vcpus -> [Keys -> Units \cup {None}]]
             /\ pc' \in [Vcpus -> Labels]
             /\ UNCHANGED <<ret, rip, since, snap, fast_epoch, refills>>
             /\ CurIsUnit'
      BY <1>a, ReturnTypes, Zenon
<1>1. ASSUME NEW v \in Vcpus, HandleSmc(v) PROVE Types'
  <2>1. CASE SmcLoad(v)
        BY <2>1, Zenon DEF SmcLoad, memory, cache, slots, store, dispatch, smc, private
  <2>2. CASE SmcClaim(v)
        BY <2>2, Zenon DEF SmcClaim, cache, slots, store, dispatch, smc, private
  <2>3. CASE SmcTake(v)
        BY <2>3, Zenon DEF SmcTake, cache, slots, store, dispatch, private
  <2>4. CASE SmcDropped(v)
        BY <2>4, Zenon DEF SmcDropped, memory, cache, slots, store, dispatch, smc, private
  <2>5. CASE SmcUnlink(v)
        BY <2>5, Zenon DEF SmcUnlink, memory, cache, store, dispatch, private
  <2>6. ASSUME NEW p \in Pages, SmcDrop(v, p) PROVE Types'
        BY <2>6 DEF SmcDrop, slots, store, dispatch, private
  <2> QED BY <1>1, <2>1, <2>2, <2>3, <2>4, <2>5, <2>6, Zenon DEF HandleSmc
<1>2. ASSUME NEW v \in Vcpus, SyncAndProbe(v) PROVE Types'
  <2> DEFINE probe == IF epoch # fast_epoch[v] THEN NoFast ELSE fast[v]
  <2>1. probe \in [Keys -> Units \cup {None}]
        BY Zenon DEF NoFast
  <2>2. /\ fast' = [fast EXCEPT ![v] = probe]
        /\ fast_epoch' = [fast_epoch EXCEPT ![v] = epoch]
        /\ cur' = [cur EXCEPT ![v] = probe[rip[v]]] \/ cur' = cur
        /\ ret' = [ret EXCEPT ![v] = "outer"] \/ ret' = ret
        /\ pc' = [pc EXCEPT ![v] = "chain"] \/ pc' = [pc EXCEPT ![v] = "snap"]
        /\ UNCHANGED <<memory, cache, slots, store, rip, since, snap, smc, refills>>
        BY <1>2, Zenon DEF SyncAndProbe
  <2> HIDE DEF probe
  <2>3. probe[rip[v]] \in Units \cup {None}
        BY <2>1, Zenon
  <2>4. /\ fast' \in [Vcpus -> [Keys -> Units \cup {None}]]
        /\ cur' \in [Vcpus -> Units \cup {None}]
        BY <2>1, <2>2, <2>3, Zenon
  <2>5. TypeOK'
        BY <2>2, <2>4, Zenon DEF memory, cache, slots, store, smc
  <2>6. CurIsUnit'
        BY <2>2
  <2> QED BY <2>5, <2>6, Zenon
<1>3. ASSUME NEW v \in Vcpus, Resolve(v) PROVE Types'
  <2>1. CASE ResolveSnap(v)
        BY <2>1, Zenon DEF ResolveSnap, memory, cache, slots, store, smc, private
  <2>2. CASE ResolveHit(v)
    <3>1. map[rip[v]] \in Units /\ Return(v, map[rip[v]])
          BY <2>2, Zenon DEF ResolveHit
    <3>2. TypeOK' /\ CurIsUnit'
          BY <2>2, <3>1, <1>a, Zenon DEF ResolveHit, memory, cache, slots, store, smc
    <3> QED BY <3>2, Zenon
  <2>3. CASE ResolveHot(v)
    <3>1. map[rip[v]] \in Units
          BY <2>3, Zenon DEF ResolveHot
    <3>2. [map[rip[v]] EXCEPT !.comp = TRUE] \in Units
          BY <3>1, Zenon DEF Units
    <3> QED BY <2>3, <3>2, Zenon DEF ResolveHot, memory, cache, slots, store, smc, private
  <2>4. CASE ResolveUpgrade(v)
    <3>1. cur[v] \in Units
          BY <2>4, Zenon DEF ResolveUpgrade
    <3>2. CASE epoch = snap[v]
          BY <2>4, <3>1, <3>2, <1>a, Zenon
          DEF ResolveUpgrade, memory, slots, store, smc
    <3>3. CASE epoch # snap[v]
          BY <2>4, <3>3, Zenon DEF ResolveUpgrade, memory, slots, store, smc, dispatch, private
    <3> QED BY <3>2, <3>3, Zenon
  <2>5. CASE ResolveMiss(v)
        BY <2>5, Zenon DEF ResolveMiss, memory, cache, slots, store, dispatch, smc, private
  <2>6. CASE ResolveLift(v)
    <3>1. Lifted(rip[v]) \in Units
          BY LiftedIsUnit, Zenon
    <3> QED BY <2>6, <3>1, Zenon DEF ResolveLift, memory, cache, slots, store, smc, private
  <2>7. CASE ResolveInsert(v)
    <3> DEFINE u == [cur[v] EXCEPT !.late = Unnoticed(cur[v])]
    <3>1. cur[v] \in Units
          BY <2>7, Zenon DEF ResolveInsert
    <3>2. u \in Units /\ cur[v].span \subseteq Pages
          BY <3>1, Zenon DEF Units, Unnoticed
    <3>3. /\ map' = [map EXCEPT ![rip[v]] = u]
          /\ tag' = tag \cup cur[v].span
          /\ Return(v, u)
          BY <2>7, Zenon DEF ResolveInsert
    <3> HIDE DEF u
    <3>4. map' \in [Keys -> Units \cup {None}] /\ tag' \subseteq Pages
          BY <3>2, <3>3, Zenon
    <3>5. /\ cur' \in [Vcpus -> Units \cup {None}]
          /\ fast' \in [Vcpus -> [Keys -> Units \cup {None}]]
          /\ pc' \in [Vcpus -> Labels]
          /\ UNCHANGED <<ret, rip, since, snap, fast_epoch, refills>>
          /\ CurIsUnit'
          BY <3>2, <3>3, <1>a, Zenon
    <3>6. TypeOK'
          BY <2>7, <3>4, <3>5, Zenon DEF ResolveInsert, slots, store, smc
    <3> QED BY <3>5, <3>6, Zenon
  <2> QED BY <1>3, <2>1, <2>2, <2>3, <2>4, <2>5, <2>6, <2>7, Zenon DEF Resolve
<1>4. ASSUME NEW v \in Vcpus, ChainCheck(v) PROVE Types'
      BY <1>4, Zenon DEF ChainCheck, memory, cache, slots, store, dispatch, smc, private
<1>5. ASSUME NEW v \in Vcpus, Exec(v) PROVE Types'
  <2>1. ASSUME NEW k \in Keys, ExitToOuter(v, k) PROVE Types'
        BY <2>1, Zenon DEF ExitToOuter, memory, cache, slots, store, smc, private
  <2>2. ASSUME NEW u \in Units, ExitChain(v, u) PROVE Types'
    <3>1. u.key \in Keys
          BY Zenon DEF Units
    <3> QED BY <2>2, <3>1, Zenon DEF ExitChain, memory, cache, slots, store, smc, private
  <2>3. ASSUME NEW k \in Keys, FollowLink(v, k) PROVE Types'
        BY <2>2, <2>3, Zenon DEF FollowLink
  <2>4. CASE FollowIbtc(v)
        BY <2>2, <2>4, Zenon DEF FollowIbtc
  <2>5. ASSUME NEW k \in Keys, NEW kind \in {"link", "ibtc"}, ExitMiss(v, k, kind)
        PROVE  Types'
        BY <2>5, Zenon DEF ExitMiss, memory, cache, slots, store, smc, private
  <2> QED BY <1>5, <2>1, <2>3, <2>4, <2>5, Zenon DEF Exec
<1>6. ASSUME NEW v \in Vcpus, SinceSnap(v) PROVE Types'
  <2> DEFINE probe == IF ret[v] = "ibtc" THEN fast[v][rip[v]] ELSE None
  <2>1. probe \in Units \cup {None}
        OBVIOUS
  <2>2. /\ since' = [since EXCEPT ![v] = epoch]
        /\ cur' = IF probe = None THEN cur ELSE [cur EXCEPT ![v] = probe]
        /\ pc' = [pc EXCEPT ![v] = IF probe = None THEN "snap" ELSE "publish"]
        /\ UNCHANGED <<memory, cache, slots, store, ret, rip, snap, smc, private>>
        BY <1>6, Zenon DEF SinceSnap
  <2> HIDE DEF probe
  <2> QED BY <2>1, <2>2, Zenon DEF memory, cache, slots, store, smc, private
<1>7. ASSUME NEW v \in Vcpus, PublishLink(v) PROVE Types'
  <2>1. cur[v] \in Units
        BY <1>7, Zenon DEF PublishLink
  <2>2. fast' \in [Vcpus -> [Keys -> Units \cup {None}]]
    <3>1. fast' = fast \/ fast' = [fast EXCEPT ![v][rip[v]] = cur[v]]
          BY <1>7, Zenon DEF PublishLink
    <3>2. fast \in [Vcpus -> [Keys -> Units \cup {None}]] /\ rip[v] \in Keys
          BY Zenon
    <3> HIDE DEF Types, TypeOK, CurIsUnit
    <3>3. CASE fast' = fast
          BY <3>2, <3>3, Zenon
    <3>4. CASE fast' = [fast EXCEPT ![v][rip[v]] = cur[v]]
          BY <2>1, <3>2, <3>4, Zenon
    <3> QED BY <3>1, <3>3, <3>4, Zenon
  <2> QED BY <1>7, <2>1, <2>2, Zenon DEF PublishLink, memory, cache, store, dispatch, smc
<1>8. ASSUME NEW v \in Vcpus, PublishIbtc(v) PROVE Types'
  <2>1. cur[v] \in Units
        BY <1>8, Zenon DEF PublishIbtc
  <2>2. refills' \in [Vcpus -> 0 .. Cap]
    <3>1. CASE refills[v] = Cap
          BY <1>8, <3>1, Zenon DEF PublishIbtc
    <3>2. CASE refills[v] # Cap
      <4>1. refills[v] + 1 \in 0 .. Cap
            BY <3>2, RefillFits, Zenon
      <4>2. refills' = [refills EXCEPT ![v] = refills[v] + 1]
            BY <1>8, <3>2, Zenon DEF PublishIbtc
      <4> QED BY <4>1, <4>2, Zenon
    <3> QED BY <3>1, <3>2, Zenon
  <2>3. pc' \in [Vcpus -> Labels] /\ CurIsUnit'
        BY <1>8, Zenon DEF PublishIbtc, dispatch
  <2> QED BY <1>8, <2>1, <2>2, <2>3, Zenon
          DEF PublishIbtc, memory, cache, store, dispatch, smc
<1>9. ASSUME NEW t \in Threads, NEW S \in SUBSET Pages, WriteBytes(t, S) PROVE Types'
  <2>1. ver' \in [Pages -> Versions]
        BY <1>9 DEF WriteBytes, Versions
  <2> QED BY <1>9, <2>1, Zenon DEF WriteBytes, cache, slots, dispatch, smc, private
<1>10. ASSUME NEW t \in Threads, Note(t) PROVE Types'
  <2>1. CASE NoteFlag(t)
        BY <2>1, Zenon DEF NoteFlag, cache, slots, dispatch, smc, private
  <2>2. ASSUME NEW p \in Pages, NotePage(t, p) PROVE Types'
        BY <2>2 DEF NotePage, cache, slots, dispatch, smc, private
  <2> QED BY <1>10, <2>1, <2>2, Zenon DEF Note
<1>11. CASE UNCHANGED vars
       BY <1>11, Zenon DEF vars, memory, cache, slots, store, dispatch, smc, private
<1> QED BY <1>1, <1>2, <1>3, <1>4, <1>5, <1>6, <1>7, <1>8, <1>9, <1>10, <1>11,
           StoresAssumption, Zenon
        DEF Next, Vcpu, GuestStore, EmbedderWrite, Threads

(* Every state of every behaviour is well typed (run smc_two_vcpus checks  *)
(* it on a small instance).                                                *)
THEOREM TypesHold == Spec => []TypeOK
<1>1. Spec => []Types
      BY InitTypes, NextTypes, PTL DEF Spec
<1>2. Types => TypeOK
      BY Zenon DEF Types
<1> QED BY <1>1, <1>2, PTL
-----------------------------------------------------------------------------
(* A step of one vcpu leaves the private state of the others alone.        *)
LEMMA Frame ==
  ASSUME Types, NEW v \in Vcpus, Vcpu(v), NEW w \in Vcpus, w # v
  PROVE  /\ pc'[w] = pc[w] /\ ret'[w] = ret[w] /\ rip'[w] = rip[w]
         /\ cur'[w] = cur[w] /\ since'[w] = since[w] /\ snap'[w] = snap[w]
         /\ todo'[w] = todo[w] /\ owes'[w] = owes[w]
         /\ fast'[w] = fast[w] /\ fast_epoch'[w] = fast_epoch[w]
<1> USE DEF Types, TypeOK, Goto, memory, cache, slots, store, dispatch, smc, private
<1>1. CASE HandleSmc(v)
      BY <1>1 DEF HandleSmc, SmcLoad, SmcClaim, SmcTake, SmcDrop, SmcDropped, SmcUnlink
<1>2. CASE SyncAndProbe(v)
      BY <1>2 DEF SyncAndProbe
<1>3. CASE Resolve(v)
      BY <1>3 DEF Resolve, ResolveSnap, ResolveHit, ResolveHot, ResolveUpgrade,
                  ResolveMiss, ResolveLift, ResolveInsert, Return
<1>4. CASE ChainCheck(v)
      BY <1>4, Zenon DEF ChainCheck
<1>5. CASE Exec(v)
      BY <1>5 DEF Exec, ExitToOuter, FollowLink, FollowIbtc, ExitChain, ExitMiss
<1>6. CASE SinceSnap(v)
      BY <1>6, Zenon DEF SinceSnap
<1>7. CASE PublishLink(v)
      BY <1>7 DEF PublishLink
<1>8. CASE PublishIbtc(v)
      BY <1>8 DEF PublishIbtc
<1> QED BY <1>1, <1>2, <1>3, <1>4, <1>5, <1>6, <1>7, <1>8, Zenon DEF Vcpu

(* take_dirty_code and note_write, one step of a vcpu.                     *)
LEMMA VcpuAnnounces ==
  ASSUME Types, DirtyIsAnnounced, NEW v \in Vcpus, Vcpu(v)
  PROVE  DirtyIsAnnounced'
<1> USE DEF Types, TypeOK, DirtyIsAnnounced
<1>1. CASE SmcClaim(v)
      BY <1>1, Zenon DEF SmcClaim, Goto, store
<1>2. CASE SmcTake(v)
      BY <1>2, Zenon DEF SmcTake
<1>3. ASSUME pc[v] # "take", UNCHANGED <<dirty, dirty_flag, flagging>>
      PROVE  DirtyIsAnnounced'
  <2>1. \A w \in Vcpus : pc[w] = "take" => pc'[w] = "take"
        BY <1>3, Frame, Zenon
  <2> QED BY <1>3, <2>1, Zenon
<1>4. CASE SmcLoad(v) \/ SmcDropped(v) \/ SmcUnlink(v) \/ \E p \in Pages : SmcDrop(v, p)
      BY <1>3, <1>4, Zenon DEF SmcLoad, SmcDropped, SmcUnlink, SmcDrop, memory, store
<1>5. CASE SyncAndProbe(v) \/ ChainCheck(v) \/ SinceSnap(v) \/ PublishLink(v) \/ PublishIbtc(v)
      BY <1>3, <1>5, Zenon
      DEF SyncAndProbe, ChainCheck, SinceSnap, PublishLink, PublishIbtc, memory, store
<1>6. CASE Resolve(v)
      BY <1>3, <1>6, Zenon DEF Resolve, ResolveSnap, ResolveHit, ResolveHot, ResolveUpgrade,
         ResolveMiss, ResolveLift, ResolveInsert, memory, store
<1>7. CASE Exec(v)
      BY <1>3, <1>7, Zenon
      DEF Exec, ExitToOuter, FollowLink, FollowIbtc, ExitChain, ExitMiss, memory, store
<1> QED BY <1>1, <1>2, <1>4, <1>5, <1>6, <1>7, Zenon DEF Vcpu, HandleSmc

LEMMA NextAnnounces == Types /\ DirtyIsAnnounced /\ [Next]_vars => DirtyIsAnnounced'
<1> SUFFICES ASSUME Types, DirtyIsAnnounced, [Next]_vars PROVE DirtyIsAnnounced'
    BY Zenon
<1> USE DEF Types, TypeOK, DirtyIsAnnounced
<1>1. ASSUME NEW v \in Vcpus, Vcpu(v) PROVE DirtyIsAnnounced'
      BY <1>1, VcpuAnnounces, Zenon
<1>2. ASSUME NEW t \in Threads, NEW S \in Stores, WriteBytes(t, S) PROVE DirtyIsAnnounced'
      BY <1>2, Zenon DEF WriteBytes
<1>3. ASSUME NEW t \in Threads, NoteFlag(t) PROVE DirtyIsAnnounced'
      BY <1>3, Zenon DEF NoteFlag
<1>4. ASSUME NEW t \in Threads, NEW p \in Pages, NotePage(t, p) PROVE DirtyIsAnnounced'
      BY <1>4, Zenon DEF NotePage
<1>5. CASE UNCHANGED vars
      BY <1>5, Zenon DEF vars, memory, store
<1> QED BY <1>1, <1>2, <1>3, <1>4, <1>5, Zenon
        DEF Next, GuestStore, EmbedderWrite, Note, Threads

(* Whatever the interleaving of note_write and take_dirty_code, a dirty    *)
(* page is never stranded with the flag down (run smc_two_vcpus).          *)
THEOREM DirtyPagesAreAnnounced == Spec => []DirtyIsAnnounced
<1>1. Init => Types /\ DirtyIsAnnounced
      BY InitTypes, Zenon DEF Init, DirtyIsAnnounced
<1>2. Types /\ DirtyIsAnnounced /\ [Next]_vars => Types' /\ DirtyIsAnnounced'
      BY NextTypes, NextAnnounces, Zenon
<1> QED BY <1>1, <1>2, PTL DEF Spec
-----------------------------------------------------------------------------
(* The epoch never goes back, and while it stands still no unit leaves the *)
(* cache: invalidate_overlapping is the only way out.                      *)
LEMMA EpochGuardsCache ==
  ASSUME Types, [Next]_vars
  PROVE  /\ epoch \in Nat /\ epoch' \in Nat /\ epoch <= epoch'
         /\ epoch' = epoch => \A k \in Keys : map[k] # None => map'[k] # None
<1> DEFINE Kept == /\ epoch \in Nat /\ epoch' \in Nat /\ epoch <= epoch'
                   /\ epoch' = epoch => \A k \in Keys : map[k] # None => map'[k] # None
<1> SUFFICES Kept
    BY Zenon
<1>0. epoch \in Nat
      BY Zenon DEF Types, TypeOK
<1>1. ASSUME UNCHANGED cache PROVE Kept
      BY <1>0, <1>1 DEF cache
<1>2. ASSUME NEW v \in Vcpus, NEW p \in Pages, SmcDrop(v, p) PROVE Kept
  <2>1. CASE Victims(p) = {}
        BY <1>0, <1>2, <2>1 DEF SmcDrop
  <2>2. CASE Victims(p) # {}
        BY <1>0, <1>2, <2>2 DEF SmcDrop
  <2> QED BY <2>1, <2>2, Zenon
<1>3. ASSUME NEW v \in Vcpus, ResolveUpgrade(v) PROVE Kept
  <2>1. cur[v] # None
        BY <1>3, NoneAssumption, Zenon DEF ResolveUpgrade, Types, CurIsUnit
  <2> QED BY <1>0, <1>3, <2>1 DEF ResolveUpgrade, Types, TypeOK
<1>4. ASSUME NEW v \in Vcpus, ResolveInsert(v) PROVE Kept
  <2> DEFINE u == [cur[v] EXCEPT !.late = Unnoticed(cur[v])]
  <2>1. cur[v] \in Units
        BY <1>4, Zenon DEF ResolveInsert, Types, CurIsUnit
  <2>2. u # None
        BY <2>1, NoneAssumption, Zenon DEF Units, Unnoticed
  <2>3. map' = [map EXCEPT ![rip[v]] = u] /\ epoch' = epoch
        BY <1>4, Zenon DEF ResolveInsert
  <2> HIDE DEF u
  <2> QED BY <1>0, <2>2, <2>3 DEF Types, TypeOK
<1>5. ASSUME NEW v \in Vcpus, Vcpu(v) PROVE Kept
  <2> USE DEF cache
  <2>1. CASE HandleSmc(v)
        BY <1>1, <1>2, <2>1, Zenon
        DEF HandleSmc, SmcLoad, SmcClaim, SmcTake, SmcDropped, SmcUnlink
  <2>2. CASE Resolve(v)
        BY <1>1, <1>3, <1>4, <2>2, Zenon
        DEF Resolve, ResolveSnap, ResolveHit, ResolveHot, ResolveMiss, ResolveLift
  <2>3. CASE Exec(v)
        BY <1>1, <2>3, Zenon DEF Exec, ExitToOuter, FollowLink, FollowIbtc, ExitChain, ExitMiss
  <2> QED BY <1>1, <1>5, <2>1, <2>2, <2>3, Zenon
          DEF Vcpu, SyncAndProbe, ChainCheck, SinceSnap, PublishLink, PublishIbtc
<1>6. CASE UNCHANGED vars
      BY <1>1, <1>6, Zenon DEF vars
<1> HIDE DEF Kept
<1> QED BY <1>1, <1>5, <1>6, Zenon
        DEF Next, Note, NoteFlag, NotePage, GuestStore, EmbedderWrite, WriteBytes

(* What each vcpu knows of the cache.  Its snapshots of the epoch are not  *)
(* ahead of it; what it resolved since a snapshot is still cached if the   *)
(* epoch has not moved; it owes a clearing of the slots only inside        *)
(* handle_smc.                                                             *)
Coherent(v) ==
  /\ owes[v] => pc[v] \in {"drop", "unlink"}
  /\ snap[v] <= epoch /\ since[v] <= epoch /\ fast_epoch[v] <= epoch
  /\ pc[v] = "upgrade" /\ snap[v] = epoch => map[rip[v]] # None
  /\ pc[v] = "publish" /\ ret[v] = "link" /\ since[v] = epoch => map[rip[v]] # None
  /\ \A k \in Keys : fast[v][k] # None /\ fast_epoch[v] = epoch => map[k] # None

(* A step that leaves the private state of a vcpu alone leaves it coherent.*)
LEMMA OthersStayCoherent ==
  ASSUME Types, [Next]_vars, NEW w \in Vcpus, Coherent(w),
         pc'[w] = pc[w], ret'[w] = ret[w], rip'[w] = rip[w],
         since'[w] = since[w], snap'[w] = snap[w], owes'[w] = owes[w],
         fast'[w] = fast[w], fast_epoch'[w] = fast_epoch[w]
  PROVE  Coherent(w)'
<1>1. /\ epoch \in Nat /\ epoch' \in Nat /\ epoch <= epoch'
      /\ epoch' = epoch => \A k \in Keys : map[k] # None => map'[k] # None
      BY EpochGuardsCache, Zenon
<1>2. /\ snap[w] \in Nat /\ since[w] \in Nat /\ fast_epoch[w] \in Nat /\ rip[w] \in Keys
      BY Zenon DEF Types, TypeOK
<1> QED BY <1>1, <1>2 DEF Coherent

(* The unit resolve returns is cached at that moment.                      *)
LEMMA ReturnCoherent ==
  ASSUME Types, [Next]_vars, NEW v \in Vcpus, Coherent(v),
         NEW u, Return(v, u), map'[rip[v]] # None, epoch' = epoch, owes' = owes,
         pc[v] \notin {"drop", "unlink"}
  PROVE  Coherent(v)'
<1> USE DEF Types, TypeOK, Return, Goto
<1>1. \A k \in Keys : map[k] # None => map'[k] # None
      BY EpochGuardsCache, Zenon
<1>2. \A k \in Keys : k # rip[v] => fast'[v][k] = fast[v][k]
      BY Zenon
<1>3. pc'[v] \in {"chain", "interp", "publish", "smc"} /\ ~owes[v]
      BY Zenon DEF Coherent
<1> QED BY <1>1, <1>2, <1>3, Zenon DEF Coherent

(* A step of a vcpu leaves that vcpu coherent.                             *)
LEMMA ActorStaysCoherent ==
  ASSUME Types, [Next]_vars, NEW v \in Vcpus, Vcpu(v), Coherent(v)
  PROVE  Coherent(v)'
<1> USE DEF Types, TypeOK, Goto
<1>0. /\ epoch \in Nat /\ epoch' \in Nat /\ epoch <= epoch'
      /\ epoch' = epoch => \A k \in Keys : map[k] # None => map'[k] # None
      BY EpochGuardsCache, Zenon
<1>1. CASE HandleSmc(v)
  <2> USE DEF memory, cache, dispatch, private, smc
  <2>1. CASE SmcLoad(v) \/ SmcClaim(v) \/ SmcTake(v) \/ SmcDropped(v) \/ SmcUnlink(v)
        BY <2>1 DEF SmcLoad, SmcClaim, SmcTake, SmcDropped, SmcUnlink, Coherent
  <2>2. ASSUME NEW p \in Pages, SmcDrop(v, p) PROVE Coherent(v)'
        BY <1>0, <2>2 DEF SmcDrop, Coherent
  <2> QED BY <1>1, <2>1, <2>2, Zenon DEF HandleSmc
<1>2. CASE SyncAndProbe(v)
  <2>1. /\ UNCHANGED <<map, epoch, owes, since, snap, rip>>
        /\ pc[v] = "sync" /\ pc'[v] \in {"chain", "snap"}
        /\ fast_epoch'[v] = epoch
        /\ fast'[v] = IF epoch # fast_epoch[v] THEN NoFast ELSE fast[v]
        BY <1>2, Zenon DEF SyncAndProbe, cache, smc
  <2> QED BY <1>0, <2>1, Zenon DEF Coherent, NoFast
<1>3. CASE Resolve(v)
  <2> USE DEF cache, private, smc
  <2>1. CASE ResolveSnap(v)
        BY <1>0, <2>1, Zenon DEF ResolveSnap, Coherent
  <2>2. CASE ResolveHit(v)
        BY <2>2, ReturnCoherent, Zenon DEF ResolveHit
  <2>3. CASE ResolveHot(v)
        BY <2>3, Zenon DEF ResolveHot, Coherent
  <2>4. CASE ResolveUpgrade(v)
    <3>1. CASE epoch = snap[v]
      <4>1. cur[v] # None
            BY <2>4, NoneAssumption, Zenon DEF ResolveUpgrade, CurIsUnit
      <4>2. map'[rip[v]] # None
            BY <2>4, <3>1, <4>1 DEF ResolveUpgrade
      <4> QED BY <2>4, <3>1, <4>2, ReturnCoherent, Zenon DEF ResolveUpgrade
    <3>2. CASE epoch # snap[v]
          BY <2>4, <3>2, Zenon DEF ResolveUpgrade, dispatch, Coherent
    <3> QED BY <3>1, <3>2, Zenon
  <2>5. CASE ResolveMiss(v) \/ ResolveLift(v)
        BY <2>5 DEF ResolveMiss, ResolveLift, dispatch, Coherent
  <2>6. CASE ResolveInsert(v)
    <3> DEFINE u == [cur[v] EXCEPT !.late = Unnoticed(cur[v])]
    <3>1. cur[v] \in Units
          BY <2>6, Zenon DEF ResolveInsert, CurIsUnit
    <3>2. u # None
          BY <3>1, NoneAssumption, Zenon DEF Units, Unnoticed
    <3>3. /\ map' = [map EXCEPT ![rip[v]] = u] /\ Return(v, u)
          /\ epoch' = epoch /\ owes' = owes /\ pc[v] = "insert"
          BY <2>6, Zenon DEF ResolveInsert
    <3> HIDE DEF u
    <3> QED BY <3>2, <3>3, ReturnCoherent, Zenon
  <2> QED BY <1>3, <2>1, <2>2, <2>3, <2>4, <2>5, <2>6, Zenon DEF Resolve
<1>4. CASE ChainCheck(v) \/ PublishIbtc(v)
      BY <1>4, Zenon DEF ChainCheck, PublishIbtc, Coherent, cache, dispatch, private, smc
<1>5. CASE Exec(v)
      BY <1>5 DEF Exec, ExitToOuter, FollowLink, FollowIbtc, ExitChain, ExitMiss,
                  Coherent, cache, private, smc
<1>6. CASE SinceSnap(v)
  <2>1. /\ UNCHANGED <<map, epoch, owes, snap, fast, fast_epoch, ret, rip>>
        /\ pc[v] = "since" /\ since'[v] = epoch
        /\ pc'[v] = "publish" => ret[v] = "ibtc"
        /\ pc'[v] \in {"snap", "publish"}
        BY <1>6, Zenon DEF SinceSnap, cache, smc, private
  <2> QED BY <1>0, <2>1, Zenon DEF Coherent
<1>7. CASE PublishLink(v)
  <2>1. /\ UNCHANGED <<map, epoch, owes, snap, since, fast_epoch, ret, rip>>
        /\ pc[v] = "publish" /\ ret[v] = "link" /\ pc'[v] \in {"chain", "smc"}
        /\ \/ fast' = fast
           \/ epoch = since[v] /\ fast' = [fast EXCEPT ![v][rip[v]] = cur[v]]
        BY <1>7, Zenon DEF PublishLink, cache, smc, dispatch
  <2>2. \A k \in Keys : fast'[v][k] # fast[v][k] => k = rip[v] /\ epoch = since[v]
        BY <2>1
  <2> QED BY <2>1, <2>2, Zenon DEF Coherent
<1> QED BY <1>1, <1>2, <1>3, <1>4, <1>5, <1>6, <1>7, Zenon DEF Vcpu

Coherence == Types /\ (\A v \in Vcpus : Coherent(v)) /\ LinksAreCurrent

LEMMA InitCoherence == Init => Coherence
  BY InitTypes DEF Init, Coherence, Coherent, LinksAreCurrent

LEMMA NextLinks ==
  ASSUME Coherence, [Next]_vars
  PROVE  LinksAreCurrent'
<1> USE DEF Coherence, LinksAreCurrent, Types, TypeOK
<1>0. epoch' = epoch => \A k \in Keys : map[k] # None => map'[k] # None
      BY EpochGuardsCache, Zenon
<1>1. ASSUME epoch' = epoch, owes' = owes, link' = link PROVE LinksAreCurrent'
      BY <1>0, <1>1, Zenon
<1>2. ASSUME NEW v \in Vcpus, HandleSmc(v) PROVE LinksAreCurrent'
  <2>1. CASE SmcLoad(v) \/ SmcClaim(v) \/ SmcDropped(v)
        BY <1>1, <2>1, Zenon DEF SmcLoad, SmcClaim, SmcDropped, cache, slots, smc
  <2>2. CASE SmcTake(v)
    <3>1. ~owes[v]
          BY <2>2, Zenon DEF SmcTake, Coherent
    <3> QED BY <1>1, <2>2, <3>1 DEF SmcTake, cache, slots
  <2>3. ASSUME NEW p \in Pages, SmcDrop(v, p) PROVE LinksAreCurrent'
    <3>1. CASE Victims(p) = {}
          BY <1>1, <2>3, <3>1 DEF SmcDrop, slots
    <3>2. CASE Victims(p) # {}
          BY <2>3, <3>2, Zenon DEF SmcDrop, slots
    <3> QED BY <3>1, <3>2, Zenon
  <2>4. CASE SmcUnlink(v)
        BY <2>4, Zenon DEF SmcUnlink
  <2> QED BY <1>2, <2>1, <2>2, <2>3, <2>4, Zenon DEF HandleSmc
<1>3. ASSUME NEW v \in Vcpus, PublishLink(v) PROVE LinksAreCurrent'
  <2>1. UNCHANGED <<epoch, map, owes>>
        BY <1>3, Zenon DEF PublishLink, cache, smc
  <2>2. CASE epoch = since[v]
    <3>1. map[rip[v]] # None
          BY <1>3, <2>2, Zenon DEF PublishLink, Coherent
    <3> QED BY <1>3, <2>1, <2>2, <3>1 DEF PublishLink
  <2>3. CASE epoch # since[v]
        BY <1>1, <1>3, <2>1, <2>3, Zenon DEF PublishLink
  <2> QED BY <2>2, <2>3, Zenon
<1>4. ASSUME NEW v \in Vcpus, Vcpu(v) PROVE LinksAreCurrent'
  <2> USE DEF cache, slots, smc
  <2>1. CASE SyncAndProbe(v) \/ ChainCheck(v) \/ SinceSnap(v) \/ PublishIbtc(v)
        BY <1>1, <2>1, Zenon DEF SyncAndProbe, ChainCheck, SinceSnap, PublishIbtc
  <2>2. CASE Resolve(v)
        BY <1>1, <2>2, Zenon DEF Resolve, ResolveSnap, ResolveHit, ResolveHot, ResolveUpgrade,
           ResolveMiss, ResolveLift, ResolveInsert
  <2>3. CASE Exec(v)
        BY <1>1, <2>3, Zenon DEF Exec, ExitToOuter, FollowLink, FollowIbtc, ExitChain, ExitMiss
  <2> QED BY <1>2, <1>3, <1>4, <2>1, <2>2, <2>3, Zenon DEF Vcpu
<1>5. CASE UNCHANGED vars
      BY <1>1, <1>5, Zenon DEF vars, cache, slots, smc
<1> QED BY <1>1, <1>4, <1>5, Zenon
        DEF Next, Note, NoteFlag, NotePage, GuestStore, EmbedderWrite, WriteBytes,
            cache, slots, smc

LEMMA NextCoherence == Coherence /\ [Next]_vars => Coherence'
<1> SUFFICES ASSUME Coherence, [Next]_vars PROVE Coherence'
    BY Zenon
<1>1. Types' /\ LinksAreCurrent'
      BY NextTypes, NextLinks, Zenon DEF Coherence
<1>2. ASSUME NEW w \in Vcpus PROVE Coherent(w)'
  <2>1. Types /\ Coherent(w)
        BY Zenon DEF Coherence
  <2>2. CASE Vcpu(w)
        BY <2>1, <2>2, ActorStaysCoherent, Zenon
  <2>3. ASSUME NEW v \in Vcpus, v # w, Vcpu(v) PROVE Coherent(w)'
        BY <2>1, <2>3, Frame, OthersStayCoherent
  <2>4. ASSUME UNCHANGED <<pc, dispatch, smc, private>> PROVE Coherent(w)'
        BY <2>1, <2>4, OthersStayCoherent, Zenon DEF dispatch, smc, private
  <2> QED BY <2>2, <2>3, <2>4, Zenon
          DEF Next, Note, NoteFlag, NotePage, GuestStore, EmbedderWrite, WriteBytes, vars
<1> QED BY <1>1, <1>2, Zenon DEF Coherence

(* publish_if_current keeps link slots current: no link slot is refilled   *)
(* with an entry that was dropped after it was resolved (run               *)
(* smc_two_vcpus).                                                         *)
THEOREM LinkSlotsAreCurrent == Spec => []LinksAreCurrent
<1>1. Spec => []Coherence
      BY InitCoherence, NextCoherence, PTL DEF Spec
<1>2. Coherence => LinksAreCurrent
      BY Zenon DEF Coherence
<1> QED BY <1>1, <1>2, PTL

(* The epoch is enough to keep the vcpu-private fast-resolve cache current *)
(* without a lock (run smc_two_vcpus).                                     *)
THEOREM FastCacheIsCurrent == Spec => []FastIsCurrent
<1>1. Spec => []Coherence
      BY InitCoherence, NextCoherence, PTL DEF Spec
<1>2. Coherence => FastIsCurrent
      BY Zenon DEF Coherence, Coherent, FastIsCurrent
<1> QED BY <1>1, <1>2, PTL
-----------------------------------------------------------------------------
(* The extent of a block does not depend on its bytes.  Without this       *)
(* TagsCoverUnits fails (SmcShape.cfg).                                    *)
FixedShape == \A k \in Keys, n \in Versions : Shape[k][n] = Shape[k][0]

(* Under FixedShape every unit has the extent of its key.                  *)
Fit ==
  /\ \A k \in Keys : map[k] # None => map[k].span = Shape[k][0]
  /\ \A v \in Vcpus :
       pc[v] \in {"upgrade", "insert"} => cur[v].span = Shape[rip[v]][0]

(* A vcpu has drained pages in hand only in the loop of handle_smc.        *)
TodoInDrop == \A v \in Vcpus : todo[v] # {} => pc[v] = "drop"

(* OutOfDateIsPending for the unit a vcpu is compiling from cached IR: if  *)
(* no drop intervened, a write to its bytes is still on its way.           *)
UpgradeIsPending ==
  \A v \in Vcpus :
    pc[v] = "upgrade" /\ snap[v] = epoch /\ Unnoticed(cur[v]) => cur[v].late

Noticed ==
  /\ Coherence /\ Fit /\ TodoInDrop
  /\ TagsCoverUnits /\ OutOfDateIsPending /\ UpgradeIsPending

LEMMA InitNoticed == Init => Noticed
<1> SUFFICES ASSUME Init PROVE Noticed
    BY Zenon
<1>1. /\ \A k \in Keys : map[k] = None
      /\ \A v \in Vcpus : pc[v] = "smc" /\ todo[v] = {}
      BY Zenon DEF Init
<1>2. Fit /\ TodoInDrop
      BY <1>1, Zenon DEF Fit, TodoInDrop
<1>3. TagsCoverUnits /\ OutOfDateIsPending
      BY <1>1, Zenon DEF TagsCoverUnits, OutOfDateIsPending
<1>4. UpgradeIsPending
      BY <1>1, Zenon DEF UpgradeIsPending
<1> QED BY <1>2, <1>3, <1>4, InitCoherence, Zenon DEF Noticed

LEMMA NextFit ==
  ASSUME FixedShape, Types, Fit, [Next]_vars
  PROVE  Fit'
<1> USE DEF Types, TypeOK, Fit, Goto
<1>1. ASSUME UNCHANGED map,
             \A w \in Vcpus : pc'[w] \in {"upgrade", "insert"} =>
               cur'[w].span = Shape[rip'[w]][0]
      PROVE  Fit'
      BY <1>1, Zenon
<1>2. ASSUME NEW v \in Vcpus, Vcpu(v), UNCHANGED map,
             pc'[v] \in {"upgrade", "insert"} => cur'[v].span = Shape[rip'[v]][0]
      PROVE  Fit'
  <2>1. ASSUME NEW w \in Vcpus, w # v, pc'[w] \in {"upgrade", "insert"}
        PROVE  cur'[w].span = Shape[rip'[w]][0]
    <3>1. pc'[w] = pc[w] /\ cur'[w] = cur[w] /\ rip'[w] = rip[w]
          BY <1>2, <2>1, Frame
    <3> QED BY <2>1, <3>1, Zenon
  <2> QED BY <1>1, <1>2, <2>1, Zenon
<1>a. ASSUME NEW v \in Vcpus, Vcpu(v), pc'[v] \notin {"upgrade", "insert"},
             \A k \in Keys : map'[k] # None => map'[k].span = Shape[k][0]
      PROVE  Fit'
  <2>1. ASSUME NEW w \in Vcpus, pc'[w] \in {"upgrade", "insert"}
        PROVE  cur'[w].span = Shape[rip'[w]][0]
    <3>1. w # v
          BY <1>a, <2>1, Zenon
    <3>2. pc'[w] = pc[w] /\ cur'[w] = cur[w] /\ rip'[w] = rip[w]
          BY <1>a, <3>1, Frame
    <3> QED BY <2>1, <3>2, Zenon
  <2> QED BY <1>a, <2>1, Zenon
<1>3. ASSUME NEW v \in Vcpus, Vcpu(v) PROVE Fit'
  <2>1. CASE HandleSmc(v)
    <3>1. ASSUME NEW p \in Pages, SmcDrop(v, p)
          PROVE  /\ \A k \in Keys : map'[k] \in {map[k], None}
                 /\ pc'[v] \notin {"upgrade", "insert"}
          BY <3>1, Zenon DEF SmcDrop
    <3>2. /\ \A k \in Keys : map'[k] \in {map[k], None}
          /\ pc'[v] \notin {"upgrade", "insert"}
      <4>1. CASE SmcLoad(v) \/ SmcClaim(v) \/ SmcTake(v) \/ SmcDropped(v) \/ SmcUnlink(v)
        <5>1. UNCHANGED map /\ pc'[v] \notin {"upgrade", "insert"}
              BY <4>1, Zenon DEF SmcLoad, SmcClaim, SmcTake, SmcDropped, SmcUnlink, cache
        <5> QED BY <5>1, Zenon
      <4> QED BY <2>1, <3>1, <4>1, Zenon DEF HandleSmc
    <3> QED BY <1>a, <1>3, <3>2
  <2>2. CASE SyncAndProbe(v) \/ ChainCheck(v) \/ SinceSnap(v) \/ PublishLink(v) \/ PublishIbtc(v)
    <3>1. UNCHANGED map
          BY <2>2, Zenon
          DEF SyncAndProbe, ChainCheck, SinceSnap, PublishLink, PublishIbtc, cache
    <3>2. pc'[v] \in {"snap", "chain", "smc", "exec", "publish"}
      <4>1. CASE SyncAndProbe(v) \/ ChainCheck(v)
            BY <4>1, Zenon DEF SyncAndProbe, ChainCheck
      <4>2. CASE SinceSnap(v) \/ PublishLink(v)
            BY <4>2, Zenon DEF SinceSnap, PublishLink
      <4>3. CASE PublishIbtc(v)
            BY <4>3, Zenon DEF PublishIbtc
      <4> QED BY <2>2, <4>1, <4>2, <4>3
    <3>3. pc'[v] \notin {"upgrade", "insert"}
          BY <3>2
    <3> QED BY <1>2, <1>3, <3>1, <3>3, Zenon
  <2>3. CASE Exec(v)
    <3>1. UNCHANGED map /\ pc'[v] \notin {"upgrade", "insert"}
          BY <2>3 DEF Exec, ExitToOuter, FollowLink, FollowIbtc, ExitChain, ExitMiss, cache
    <3> QED BY <1>2, <1>3, <3>1, Zenon
  <2>4. CASE ResolveSnap(v) \/ ResolveHit(v) \/ ResolveMiss(v)
        BY <1>2, <1>3, <2>4, Zenon DEF ResolveSnap, ResolveHit, Return, ResolveMiss, cache
  <2>5. CASE ResolveHot(v)
    <3>1. map[rip[v]] \in Units
          BY <2>5, Zenon DEF ResolveHot
    <3>2. [map[rip[v]] EXCEPT !.comp = TRUE].span = map[rip[v]].span
          BY <3>1, Zenon DEF Units
    <3> QED BY <1>2, <1>3, <2>5, <3>2, Zenon DEF ResolveHot, cache
  <2>6. CASE ResolveUpgrade(v)
    <3>1. CASE epoch = snap[v]
      <4>1. /\ map' = [map EXCEPT ![rip[v]] = cur[v]]
            /\ pc[v] = "upgrade" /\ pc'[v] \notin {"upgrade", "insert"}
            BY <2>6, <3>1 DEF ResolveUpgrade, Return
      <4>2. \A k \in Keys : map'[k] # None => map'[k].span = Shape[k][0]
            BY <4>1, Zenon
      <4> QED BY <1>a, <1>3, <4>1, <4>2, Zenon
    <3>2. CASE epoch # snap[v]
          BY <1>2, <1>3, <2>6, <3>2, Zenon DEF ResolveUpgrade
    <3> QED BY <3>1, <3>2, Zenon
  <2>7. CASE ResolveLift(v)
    <3>1. Lifted(rip[v]).span = Shape[rip[v]][0]
          BY HomeAssumption, Zenon DEF Lifted, FixedShape
    <3> QED BY <1>2, <1>3, <2>7, <3>1, Zenon DEF ResolveLift, cache
  <2>8. CASE ResolveInsert(v)
    <3> DEFINE u == [cur[v] EXCEPT !.late = Unnoticed(cur[v])]
    <3>1. cur[v] \in Units
          BY <2>8, Zenon DEF ResolveInsert, CurIsUnit
    <3>2. u.span = Shape[rip[v]][0]
          BY <2>8, <3>1, Zenon DEF Units, ResolveInsert
    <3>3. /\ map' = [map EXCEPT ![rip[v]] = u]
          /\ pc'[v] \notin {"upgrade", "insert"}
          BY <2>8, Zenon DEF ResolveInsert, Return
    <3>4. \A k \in Keys : map'[k] # None => map'[k].span = Shape[k][0]
      <4> HIDE DEF u
      <4> QED BY <3>2, <3>3, Zenon
    <3> QED BY <1>a, <1>3, <3>3, <3>4, Zenon
  <2> QED BY <1>3, <2>1, <2>2, <2>3, <2>4, <2>5, <2>6, <2>7, <2>8, Zenon DEF Vcpu, Resolve
<1>4. ASSUME UNCHANGED <<map, pc, cur, rip>> PROVE Fit'
      BY <1>4, Zenon
<1> QED BY <1>3, <1>4, Zenon
        DEF Next, Note, NoteFlag, NotePage, GuestStore, EmbedderWrite, WriteBytes,
            vars, cache, dispatch

LEMMA NextTodo ==
  ASSUME Types, TodoInDrop, [Next]_vars
  PROVE  TodoInDrop'
<1> USE DEF Types, TypeOK, TodoInDrop, Goto
<1>1. ASSUME NEW v \in Vcpus, Vcpu(v), pc[v] # "drop", UNCHANGED todo PROVE TodoInDrop'
      BY <1>1, Frame, Zenon
<1>2. ASSUME NEW v \in Vcpus, Vcpu(v) PROVE TodoInDrop'
  <2>1. CASE HandleSmc(v)
    <3>1. todo'[v] # {} => pc'[v] = "drop"
          BY <2>1, Zenon DEF HandleSmc, SmcLoad, SmcClaim, SmcTake, SmcDropped, SmcUnlink,
                      SmcDrop, smc
    <3> QED BY <1>2, <3>1, Frame
  <2>2. CASE SyncAndProbe(v) \/ ChainCheck(v) \/ SinceSnap(v) \/ PublishLink(v) \/ PublishIbtc(v)
        BY <1>1, <1>2, <2>2, Zenon
        DEF SyncAndProbe, ChainCheck, SinceSnap, PublishLink, PublishIbtc, smc
  <2>3. CASE Resolve(v)
        BY <1>1, <1>2, <2>3, Zenon
        DEF Resolve, ResolveSnap, ResolveHit, ResolveHot, ResolveUpgrade, ResolveMiss,
            ResolveLift, ResolveInsert, smc
  <2>4. CASE Exec(v)
        BY <1>1, <1>2, <2>4, Zenon
        DEF Exec, ExitToOuter, FollowLink, FollowIbtc, ExitChain, ExitMiss, smc
  <2> QED BY <1>2, <2>1, <2>2, <2>3, <2>4, Zenon DEF Vcpu
<1>3. ASSUME UNCHANGED <<pc, todo>> PROVE TodoInDrop'
      BY <1>3, Zenon
<1> QED BY <1>2, <1>3, Zenon
        DEF Next, Note, NoteFlag, NotePage, GuestStore, EmbedderWrite, WriteBytes,
            vars, smc

LEMMA NextTags ==
  ASSUME Coherence, Fit, TagsCoverUnits, [Next]_vars
  PROVE  TagsCoverUnits'
<1> USE DEF Coherence, Types, TypeOK, TagsCoverUnits
<1>1. ASSUME UNCHANGED <<map, tag>> PROVE TagsCoverUnits'
      BY <1>1, Zenon
<1>2. ASSUME NEW v \in Vcpus, NEW p \in Pages, SmcDrop(v, p) PROVE TagsCoverUnits'
      BY <1>2, Zenon DEF SmcDrop, Victims
<1>3. ASSUME NEW v \in Vcpus, ResolveUpgrade(v) PROVE TagsCoverUnits'
  <2>1. CASE epoch = snap[v]
    <3>1. map[rip[v]] # None /\ cur[v].span = map[rip[v]].span
          BY <1>3, <2>1 DEF ResolveUpgrade, Coherent, Fit
    <3>2. cur[v].span \subseteq tag
          BY <3>1, Zenon
    <3>3. map' = [map EXCEPT ![rip[v]] = cur[v]] /\ tag' = tag
          BY <1>3, <2>1, Zenon DEF ResolveUpgrade, memory
    <3> QED BY <3>2, <3>3, Zenon
  <2>2. CASE epoch # snap[v]
        BY <1>1, <1>3, <2>2, Zenon DEF ResolveUpgrade, memory
  <2> QED BY <2>1, <2>2, Zenon
<1>4. ASSUME NEW v \in Vcpus, ResolveInsert(v) PROVE TagsCoverUnits'
  <2> DEFINE u == [cur[v] EXCEPT !.late = Unnoticed(cur[v])]
  <2>1. u.span = cur[v].span
        BY <1>4, Zenon DEF ResolveInsert, CurIsUnit, Units
  <2>2. map' = [map EXCEPT ![rip[v]] = u] /\ tag' = tag \cup cur[v].span
        BY <1>4, Zenon DEF ResolveInsert
  <2> HIDE DEF u
  <2> QED BY <2>1, <2>2, Zenon
<1>5. ASSUME NEW v \in Vcpus, Vcpu(v) PROVE TagsCoverUnits'
  <2> USE DEF cache, memory
  <2>1. CASE HandleSmc(v)
        BY <1>1, <1>2, <2>1, Zenon
        DEF HandleSmc, SmcLoad, SmcClaim, SmcTake, SmcDropped, SmcUnlink
  <2>2. CASE Resolve(v)
        BY <1>1, <1>3, <1>4, <2>2, Zenon
        DEF Resolve, ResolveSnap, ResolveHit, ResolveHot, ResolveMiss, ResolveLift
  <2>3. CASE Exec(v)
        BY <1>1, <2>3, Zenon DEF Exec, ExitToOuter, FollowLink, FollowIbtc, ExitChain, ExitMiss
  <2> QED BY <1>1, <1>5, <2>1, <2>2, <2>3, Zenon
          DEF Vcpu, SyncAndProbe, ChainCheck, SinceSnap, PublishLink, PublishIbtc
<1>6. CASE UNCHANGED vars
      BY <1>1, <1>6, Zenon DEF vars, memory, cache
<1> QED BY <1>1, <1>5, <1>6, Zenon
        DEF Next, Note, NoteFlag, NotePage, GuestStore, EmbedderWrite, WriteBytes, cache

(* A page stops being pending in two ways only: its store finds it not     *)
(* tagged, or it is invalidated.                                           *)
LEMMA StepNotices ==
  ASSUME Types, TodoInDrop, [Next]_vars, NEW p \in Pages, ~Pending(p)'
  PROVE  /\ ver'[p] = ver[p]
         /\ Pending(p) => p \notin tag \/ \E v \in Vcpus : SmcDrop(v, p)
<1> DEFINE Goal == /\ ver'[p] = ver[p]
                   /\ Pending(p) => p \notin tag \/ \E v \in Vcpus : SmcDrop(v, p)
<1> SUFFICES Goal
    BY Zenon
<1> USE DEF Types, TypeOK, Pending
<1>1. ASSUME UNCHANGED <<ver, dirty, noting, todo>> PROVE Goal
      BY <1>1, Zenon
<1>2. ASSUME NEW v \in Vcpus, SmcTake(v) PROVE Goal
  <2>1. todo[v] = {}
        BY <1>2, Zenon DEF SmcTake, TodoInDrop
  <2>2. p \notin dirty
        BY <1>2, Zenon DEF SmcTake
  <2>3. \A w \in Vcpus : p \notin todo[w]
        BY <1>2, <2>1, Zenon DEF SmcTake
  <2> QED BY <1>2, <2>2, <2>3, Zenon DEF SmcTake, store
<1>3. ASSUME NEW v \in Vcpus, NEW q \in Pages, SmcDrop(v, q) PROVE Goal
  <2>1. CASE q = p
        BY <1>3, <2>1, Zenon DEF SmcDrop
  <2>2. CASE q # p
    <3>1. \A w \in Vcpus : p \notin todo[w]
          BY <1>3, <2>2, Zenon DEF SmcDrop
    <3> QED BY <1>3, <3>1, Zenon DEF SmcDrop, store
  <2> QED BY <2>1, <2>2, Zenon
<1>4. ASSUME NEW t \in Threads, NEW S \in SUBSET Pages, WriteBytes(t, S) PROVE Goal
      BY <1>4, Zenon DEF WriteBytes, Quiet, smc
<1>5. ASSUME NEW t \in Threads, NEW q \in Pages, NotePage(t, q) PROVE Goal
      BY <1>5, Zenon DEF NotePage, smc
<1>6. ASSUME NEW v \in Vcpus, Vcpu(v) PROVE Goal
  <2> USE DEF memory, store, smc
  <2>1. CASE HandleSmc(v)
        BY <1>1, <1>2, <1>3, <2>1, Zenon
        DEF HandleSmc, SmcLoad, SmcClaim, SmcDropped, SmcUnlink
  <2>2. CASE Resolve(v)
        BY <1>1, <2>2, Zenon
        DEF Resolve, ResolveSnap, ResolveHit, ResolveHot, ResolveUpgrade, ResolveMiss,
            ResolveLift, ResolveInsert
  <2>3. CASE Exec(v)
        BY <1>1, <2>3, Zenon DEF Exec, ExitToOuter, FollowLink, FollowIbtc, ExitChain, ExitMiss
  <2> QED BY <1>1, <1>6, <2>1, <2>2, <2>3, Zenon
          DEF Vcpu, SyncAndProbe, ChainCheck, SinceSnap, PublishLink, PublishIbtc
<1>7. ASSUME NEW t \in Threads, NoteFlag(t) PROVE Goal
      BY <1>1, <1>7, Zenon DEF NoteFlag, smc
<1>8. CASE UNCHANGED vars
      BY <1>1, <1>8, Zenon DEF vars, memory, store, smc
<1> HIDE DEF Goal
<1> QED BY <1>4, <1>5, <1>6, <1>7, <1>8, StoresAssumption, Zenon
        DEF Next, Note, GuestStore, EmbedderWrite, Threads

(* A unit on tagged pages goes out of date unnoticed only by the very      *)
(* invalidation of one of its pages.                                       *)
LEMMA UnitNotices ==
  ASSUME Types, TodoInDrop, [Next]_vars, NEW u \in Units, u.span \subseteq tag,
         Unnoticed(u)', ~Unnoticed(u)
  PROVE  \E v \in Vcpus, p \in u.span : p \in Pages /\ SmcDrop(v, p)
<1>1. PICK p \in u.span : u.seen[p] # ver'[p] /\ ~Pending(p)'
      BY Zenon DEF Unnoticed
<1>2. p \in Pages
      BY Zenon DEF Units
<1>3. ver'[p] = ver[p] /\ (Pending(p) => p \notin tag \/ \E v \in Vcpus : SmcDrop(v, p))
      BY <1>1, <1>2, StepNotices, Zenon
<1>4. Pending(p)
      BY <1>1, <1>3, Zenon DEF Unnoticed
<1> QED BY <1>2, <1>3, <1>4, Zenon

(* A step that touches neither bytes nor pending pages notices the same.   *)
LEMMA SameNotice ==
  ASSUME UNCHANGED <<ver, dirty, noting, todo>>, NEW u
  PROVE  Unnoticed(u)' = Unnoticed(u)
  BY Zenon DEF Unnoticed, Pending

(* insert, upgrade and invalidate_overlapping are the steps that change    *)
(* the entry of a key.                                                     *)
LEMMA MapSteps ==
  ASSUME [Next]_vars, NEW k \in Keys, map'[k] # map[k], map'[k] # None
  PROVE  \E v \in Vcpus : ResolveInsert(v) \/ (ResolveUpgrade(v) /\ epoch = snap[v])
<1>1. ASSUME NEW v \in Vcpus, Vcpu(v)
      PROVE  ResolveInsert(v) \/ (ResolveUpgrade(v) /\ epoch = snap[v])
  <2> USE DEF cache
  <2>1. CASE HandleSmc(v)
        BY <2>1, Zenon
        DEF HandleSmc, SmcLoad, SmcClaim, SmcTake, SmcDrop, SmcDropped, SmcUnlink
  <2>2. CASE Resolve(v)
        BY <2>2, Zenon DEF Resolve, ResolveSnap, ResolveHit, ResolveHot, ResolveUpgrade,
           ResolveMiss, ResolveLift
  <2>3. CASE Exec(v)
        BY <2>3, Zenon DEF Exec, ExitToOuter, FollowLink, FollowIbtc, ExitChain, ExitMiss
  <2> QED BY <1>1, <2>1, <2>2, <2>3, Zenon
          DEF Vcpu, SyncAndProbe, ChainCheck, SinceSnap, PublishLink, PublishIbtc
<1> QED BY <1>1, Zenon
        DEF Next, Note, NoteFlag, NotePage, GuestStore, EmbedderWrite, WriteBytes,
            cache, vars

LEMMA NextOutOfDate ==
  ASSUME Noticed, [Next]_vars
  PROVE  OutOfDateIsPending'
<1> USE DEF Noticed, Coherence, Types
<1> SUFFICES ASSUME NEW k \in Keys, NEW m, m = map'[k], m # None, Unnoticed(m)'
             PROVE  m.late
    BY Zenon DEF OutOfDateIsPending, Unnoticed
<1>1. CASE m = map[k]
  <2>1. m \in Units /\ m.span \subseteq tag
        BY <1>1, Zenon DEF TypeOK, TagsCoverUnits
  <2>2. CASE Unnoticed(m)
        BY <1>1, <2>2, Zenon DEF OutOfDateIsPending
  <2>3. CASE ~Unnoticed(m)
    <3>1. PICK v \in Vcpus, p \in m.span : SmcDrop(v, p)
          BY <2>1, <2>3, UnitNotices, Zenon
    <3> QED BY <1>1, <3>1, Zenon DEF SmcDrop, Victims
  <2> QED BY <2>2, <2>3, Zenon
<1>2. CASE m # map[k]
  <2>1. PICK v \in Vcpus : ResolveInsert(v) \/ (ResolveUpgrade(v) /\ epoch = snap[v])
        BY <1>2, MapSteps, Zenon
  <2>2. /\ UNCHANGED <<ver, dirty, noting, todo>>
        /\ cur[v] \in Units
        BY <2>1, Zenon DEF ResolveInsert, ResolveUpgrade, memory, store, smc, CurIsUnit
  <2>3. Unnoticed(m)
        BY <2>2, SameNotice, Zenon
  <2>4. CASE ResolveInsert(v)
    <3> DEFINE u == [cur[v] EXCEPT !.late = Unnoticed(cur[v])]
    <3>1. map' = [map EXCEPT ![rip[v]] = u]
          BY <2>4, Zenon DEF ResolveInsert
    <3>2. m = u
          BY <1>2, <3>1, Zenon DEF TypeOK
    <3>3. u.span = cur[v].span /\ u.seen = cur[v].seen /\ u.late = Unnoticed(cur[v])
          BY <2>2, Zenon DEF Units
    <3>4. Unnoticed(cur[v])
          BY <2>3, <3>2, <3>3 DEF Unnoticed
    <3> QED BY <3>2, <3>3, <3>4, Zenon
  <2>5. CASE ResolveUpgrade(v) /\ epoch = snap[v]
    <3>1. map' = [map EXCEPT ![rip[v]] = cur[v]] /\ pc[v] = "upgrade"
          BY <2>5, Zenon DEF ResolveUpgrade
    <3>2. m = cur[v]
          BY <1>2, <3>1, Zenon DEF TypeOK
    <3> QED BY <2>3, <2>5, <3>1, <3>2, Zenon DEF UpgradeIsPending
  <2> QED BY <2>1, <2>4, <2>5, Zenon
<1> QED BY <1>1, <1>2, Zenon

(* Compilation from cached IR begins in one way.                           *)
LEMMA UpgradeBegins ==
  ASSUME Types, NEW v \in Vcpus, Vcpu(v), pc'[v] = "upgrade"
  PROVE  ResolveHot(v)
<1> USE DEF Types, TypeOK, Goto
<1>1. CASE HandleSmc(v)
      BY <1>1, Zenon DEF HandleSmc, SmcLoad, SmcClaim, SmcTake, SmcDrop, SmcDropped, SmcUnlink
<1>2. CASE Resolve(v)
      BY <1>2 DEF Resolve, ResolveSnap, ResolveHit, ResolveUpgrade, ResolveMiss,
         ResolveLift, ResolveInsert, Return
<1>3. CASE Exec(v)
      BY <1>3, Zenon DEF Exec, ExitToOuter, FollowLink, FollowIbtc, ExitChain, ExitMiss
<1> QED BY <1>1, <1>2, <1>3
        DEF Vcpu, SyncAndProbe, ChainCheck, SinceSnap, PublishLink, PublishIbtc

LEMMA NextUpgrade ==
  ASSUME Noticed, [Next]_vars
  PROVE  UpgradeIsPending'
<1> USE DEF Noticed, Coherence, Types
<1> SUFFICES ASSUME NEW w \in Vcpus, NEW m, m = cur'[w],
                    pc'[w] = "upgrade", snap'[w] = epoch', Unnoticed(m)'
             PROVE  m.late
    BY Zenon DEF UpgradeIsPending, Unnoticed
<1>1. ASSUME pc'[w] = pc[w], snap'[w] = snap[w], cur'[w] = cur[w] PROVE m.late
  <2>1. epoch' = epoch /\ snap[w] = epoch /\ epoch \in Nat
    <3>1. epoch \in Nat /\ epoch' \in Nat /\ epoch <= epoch'
          BY EpochGuardsCache, Zenon
    <3>2. snap[w] <= epoch /\ snap[w] \in Nat
          BY Zenon DEF Coherent, TypeOK
    <3> HIDE DEF Noticed, Coherence, Types
    <3>3. snap[w] = epoch'
          BY <1>1, Zenon
    <3> QED BY <3>1, <3>2, <3>3
  <2>2. map[rip[w]] # None /\ rip[w] \in Keys /\ m \in Units
        BY <1>1, <2>1, Zenon DEF Coherent, TypeOK, CurIsUnit
  <2>3. m.span = map[rip[w]].span
        BY <1>1, <2>2, Zenon DEF Fit
  <2>4. CASE Unnoticed(m)
        BY <1>1, <2>1, <2>4, Zenon DEF UpgradeIsPending
  <2>5. CASE ~Unnoticed(m)
    <3>1. m.span \subseteq tag
          BY <2>2, <2>3, Zenon DEF TagsCoverUnits
    <3>2. PICK v \in Vcpus, p \in m.span : p \in Pages /\ SmcDrop(v, p)
          BY <2>2, <2>5, <3>1, UnitNotices, Zenon
    <3>3. rip[w] \in Victims(p)
          BY <2>2, <2>3, <3>2, Zenon DEF Victims
    <3>4. epoch' = epoch + 1
          BY <3>2, <3>3, Zenon DEF SmcDrop
    <3> HIDE DEF Noticed, Coherence, Types
    <3>5. epoch + 1 # epoch
          BY <2>1
    <3> QED BY <2>1, <3>4, <3>5, Zenon
  <2> QED BY <2>4, <2>5, Zenon
<1>2. CASE Vcpu(w)
  <2>1. ResolveHot(w)
        BY <1>2, UpgradeBegins, Zenon
  <2>2. /\ UNCHANGED <<ver, dirty, noting, todo>>
        /\ m = [map[rip[w]] EXCEPT !.comp = TRUE]
        /\ map[rip[w]] \in Units /\ rip[w] \in Keys
        BY <2>1, Zenon DEF ResolveHot, memory, store, smc, TypeOK
  <2>3. Unnoticed(m)
        BY <2>2, SameNotice, Zenon
  <2>4. /\ m.span = map[rip[w]].span /\ m.seen = map[rip[w]].seen
        /\ m.late = map[rip[w]].late
        BY <2>2, Zenon DEF Units
  <2>5. Unnoticed(map[rip[w]])
        BY <2>3, <2>4, Zenon DEF Unnoticed
  <2> QED BY <2>2, <2>4, <2>5, NoneAssumption, Zenon DEF OutOfDateIsPending
<1>3. ASSUME NEW v \in Vcpus, v # w, Vcpu(v) PROVE m.late
      BY <1>1, <1>3, Frame, Zenon
<1>4. ASSUME UNCHANGED <<pc, dispatch>> PROVE m.late
      BY <1>1, <1>4, Zenon DEF dispatch
<1> QED BY <1>2, <1>3, <1>4, Zenon
        DEF Next, Note, NoteFlag, NotePage, GuestStore, EmbedderWrite, WriteBytes, vars

LEMMA NoticedHolds ==
  ASSUME FixedShape
  PROVE  Spec => []Noticed
<1>1. Noticed /\ [Next]_vars => Noticed'
  <2> SUFFICES ASSUME Noticed, [Next]_vars PROVE Noticed'
      BY Zenon
  <2>1. Coherence' /\ Fit' /\ TodoInDrop' /\ TagsCoverUnits'
        BY NextCoherence, NextFit, NextTodo, NextTags, Zenon DEF Noticed, Coherence
  <2> QED BY <2>1, NextOutOfDate, NextUpgrade, Zenon DEF Noticed
<1> QED BY <1>1, InitNoticed, PTL DEF Spec

(* If the extent of a block does not depend on its bytes, every page of    *)
(* every cached unit stays tagged, whatever races insert, upgrade and      *)
(* invalidate_overlapping run (run smc_two_vcpus).                         *)
THEOREM LivePagesStayTagged == FixedShape => (Spec => []TagsCoverUnits)
<1> SUFFICES ASSUME FixedShape PROVE Spec => []TagsCoverUnits
    BY Zenon
<1>1. Noticed => TagsCoverUnits
      BY Zenon DEF Noticed
<1> QED BY <1>1, NoticedHolds, PTL

(* No rewrite of the bytes of a cached unit is lost: until the unit is     *)
(* dropped the write is being reported, on the dirty list or in the hands  *)
(* of handle_smc.  The exception is a unit that was out of date when it    *)
(* was inserted (run smc_two_vcpus).                                       *)
THEOREM RewritesAreNoticed == FixedShape => (Spec => []OutOfDateIsPending)
<1> SUFFICES ASSUME FixedShape PROVE Spec => []OutOfDateIsPending
    BY Zenon
<1>1. Noticed => OutOfDateIsPending
      BY Zenon DEF Noticed
<1> QED BY <1>1, NoticedHolds, PTL
-----------------------------------------------------------------------------
(* Nothing but one vcpu writes guest memory.  With another writer          *)
(* EntersFresh fails (SmcOwnPatch.cfg).                                    *)
OneThread == Embedders = {} /\ \E v : Vcpus = {v}

(* The pages whose writes v has still to act upon.                         *)
Awaited(v) == noting[v] \cup dirty \cup todo[v]

(* The unit is the cached one, or differs from it in its tier only.        *)
Follows(u) ==
  /\ u.key \in Keys /\ map[u.key] # None
  /\ map[u.key].span = u.span /\ map[u.key].seen = u.seen

(* A cached unit of rewritten bytes is about to be dropped.                *)
CacheWaits(v) ==
  \A k \in Keys : map[k] # None =>
    /\ map[k].key = k /\ map[k].span \subseteq tag
    /\ \A p \in map[k].span : map[k].seen[p] # ver[p] => p \in Awaited(v)

(* The slots follow the cache except while v owes their clearing, the      *)
(* fast-resolve cache except while it is behind the epoch.                 *)
SlotsFollow(v) ==
  /\ ~owes[v] => /\ \A k \in Keys : link[k] # None => Follows(link[k])
                 /\ ibtc # None => Follows(ibtc)
  /\ fast_epoch[v] = epoch =>
       \A k \in Keys : fast[v][k] # None => fast[v][k].key = k /\ Follows(fast[v][k])

(* What v goes to next follows the cache; what it inserts is new.          *)
InHand(v) ==
  /\ pc[v] \in {"chain", "publish", "upgrade"} =>
       cur[v] \in Units /\ cur[v].key = rip[v] /\ Follows(cur[v])
  /\ pc[v] \in {"lift", "insert"} => map[rip[v]] = None
  /\ pc[v] = "insert" => cur[v].key = rip[v] /\ ~OutOfDate(cur[v])

(* Where in run_inner what can be pending.  The outer loop gets to resolve *)
(* with nothing dirty; a chain may resolve with stores of its own pending. *)
Phase(v) ==
  /\ ~Quiet(v) => pc[v] \in {"interp", "exec"}
  /\ todo[v] # {} => pc[v] = "drop"
  /\ owes[v] => pc[v] \in {"drop", "unlink"}
  /\ pc[v] = "claim" => dirty_flag
  /\ pc[v] = "since" => ret[v] # "outer"
  /\ fast_epoch[v] <= epoch
  /\ pc[v] \notin {"drop", "unlink", "sync"} => fast_epoch[v] = epoch
  /\ \/ pc[v] \in {"drop", "unlink", "sync"}
     \/ pc[v] \in {"snap", "get", "upgrade", "lift", "insert"} /\ ret[v] = "outer"
     => dirty = {}

Alone(v) == CacheWaits(v) /\ SlotsFollow(v) /\ InHand(v) /\ Phase(v)

Informed == Types /\ DirtyIsAnnounced /\ \A v \in Vcpus : Alone(v)

LEMMA InitAlone ==
  ASSUME Init, NEW v \in Vcpus
  PROVE  Alone(v)
<1>1. /\ pc[v] = "smc" /\ fast_epoch[v] = 0 /\ epoch = 0
      /\ todo[v] = {} /\ ~owes[v] /\ noting[v] = {} /\ ~flagging[v]
      BY Zenon DEF Init, Threads
<1>2. /\ \A k \in Keys : map[k] = None /\ link[k] = None /\ fast[v][k] = None
      /\ ibtc = None
      BY Zenon DEF Init
<1> QED BY <1>1, <1>2 DEF Alone, CacheWaits, SlotsFollow, InHand, Phase, Quiet

(* One thread: a step is one of its own.                                   *)
LEMMA OneThreadSteps ==
  ASSUME NEW v, Vcpus = {v}, Embedders = {}, [Next]_vars
  PROVE  \/ Vcpu(v)
         \/ pc[v] \in {"interp", "exec"} /\ \E S \in Stores : WriteBytes(v, S)
         \/ NoteFlag(v)
         \/ \E p \in Pages : NotePage(v, p)
         \/ UNCHANGED vars
  BY Zenon DEF Next, GuestStore, EmbedderWrite, Note, Threads

(* A tier-up or an insertion leaves what follows the cache following it.   *)
LEMMA StillFollows ==
  ASSUME Types, NEW k \in Keys, NEW w \in Units, w.key = k,
         map' = [map EXCEPT ![k] = w], map[k] = None \/ Follows(w),
         NEW u, Follows(u)
  PROVE  Follows(u)'
<1>1. map \in [Keys -> Units \cup {None}] /\ w # None
      BY NoneAssumption, Zenon DEF Types, TypeOK
<1>2. CASE u.key = k
      BY <1>1, <1>2, Zenon DEF Follows
<1>3. CASE u.key # k
      BY <1>1, <1>3, Zenon DEF Follows
<1> QED BY <1>2, <1>3, Zenon

LEMMA PhaseStep ==
  ASSUME NEW v, Vcpus = {v}, Embedders = {}, Types, DirtyIsAnnounced, Phase(v), [Next]_vars
  PROVE  Phase(v)'
<1> USE DEF Types, TypeOK, Goto
<1>0. v \in Vcpus /\ v \in Threads /\ Threads = {v}
      BY Zenon DEF Threads
<1>1. CASE SmcLoad(v)
  <2>1. ~dirty_flag => dirty = {}
        BY <1>0, <1>1, Zenon DEF SmcLoad, DirtyIsAnnounced, Phase, Quiet
  <2> QED BY <1>0, <1>1, <2>1, Zenon
          DEF SmcLoad, Phase, Quiet, memory, cache, store, dispatch, smc, private
<1>2. CASE SmcClaim(v) \/ SmcTake(v) \/ SmcDropped(v) \/ SmcUnlink(v)
      BY <1>0, <1>2 DEF SmcClaim, SmcTake, SmcDropped, SmcUnlink, Phase, Quiet, memory, cache,
                        store, dispatch, smc, private
<1>3. ASSUME NEW p \in Pages, SmcDrop(v, p) PROVE Phase(v)'
  <2>1. epoch' \in Nat /\ epoch <= epoch' /\ fast_epoch[v] \in Nat
        BY <1>0, <1>3 DEF SmcDrop
  <2>2. fast_epoch'[v] <= epoch'
        BY <1>0, <1>3, <2>1 DEF SmcDrop, Phase, private
  <2>3. pc'[v] = "drop"
        BY <1>3, Zenon DEF SmcDrop
  <2> QED BY <1>0, <1>3, <2>2, <2>3, Zenon DEF SmcDrop, Phase, Quiet, store
<1>4. CASE SyncAndProbe(v)
  <2>1. fast_epoch'[v] = epoch' /\ pc[v] = "sync" /\ pc'[v] \in {"chain", "snap"}
        BY <1>0, <1>4, Zenon DEF SyncAndProbe, cache
  <2>2. epoch' <= epoch'
        BY <1>4 DEF SyncAndProbe, cache
  <2> QED BY <1>0, <1>4, <2>1, <2>2, Zenon DEF SyncAndProbe, Phase, Quiet, memory, store, smc
<1>5. ASSUME NEW u, Return(v, u), pc[v] \in {"get", "upgrade", "insert"},
             UNCHANGED <<dirty, dirty_flag, epoch, store, smc>>
      PROVE  Phase(v)'
      BY <1>0, <1>5, Zenon DEF Return, Phase, Quiet, store, smc
<1>6. CASE ResolveHit(v) \/ ResolveInsert(v)
      BY <1>5, <1>6, Zenon DEF ResolveHit, ResolveInsert, memory, cache
<1>7. CASE ResolveUpgrade(v)
  <2>1. CASE epoch = snap[v]
        BY <1>5, <1>7, <2>1, Zenon DEF ResolveUpgrade, memory
  <2>2. CASE epoch # snap[v]
        BY <1>0, <1>7, <2>2
        DEF ResolveUpgrade, Phase, Quiet, memory, store, smc, dispatch, private
  <2> QED BY <2>1, <2>2, Zenon
<1>8. CASE ResolveSnap(v) \/ ResolveHot(v) \/ ResolveMiss(v) \/ ResolveLift(v)
      BY <1>0, <1>8, Zenon
      DEF ResolveSnap, ResolveHot, ResolveMiss, ResolveLift, Phase, Quiet, memory,
                        cache, store, dispatch, smc, private
<1>9. CASE ChainCheck(v) \/ SinceSnap(v)
      BY <1>0, <1>9 DEF ChainCheck, SinceSnap, Phase, Quiet, memory, cache, store, dispatch,
                        smc, private
<1>10. CASE Exec(v)
  <2>1. ASSUME pc[v] \in {"interp", "exec"}, Quiet(v),
               pc'[v] \in {"smc", "chain", "since"}, pc'[v] = "since" => ret'[v] # "outer",
               UNCHANGED <<memory, cache, store, smc, private>>
        PROVE  Phase(v)'
        BY <1>0, <2>1, Zenon DEF Phase, Quiet, memory, cache, store, smc, private
  <2>2. ASSUME NEW k \in Keys, ExitToOuter(v, k) PROVE Phase(v)'
        BY <1>0, <2>1, <2>2, Zenon DEF ExitToOuter
  <2>3. ASSUME NEW u, ExitChain(v, u) PROVE Phase(v)'
        BY <1>0, <2>1, <2>3, Zenon DEF ExitChain
  <2>4. ASSUME NEW k \in Keys, NEW kind \in {"link", "ibtc"}, ExitMiss(v, k, kind)
        PROVE  Phase(v)'
        BY <1>0, <2>1, <2>4, Zenon DEF ExitMiss
  <2> QED BY <1>10, <2>2, <2>3, <2>4, Zenon DEF Exec, FollowLink, FollowIbtc
<1>11. CASE PublishLink(v) \/ PublishIbtc(v)
       BY <1>0, <1>11
       DEF PublishLink, PublishIbtc, Phase, Quiet, memory, cache, store, dispatch,
                          smc
<1>12. ASSUME pc[v] \in {"interp", "exec"}, NEW S \in Stores, WriteBytes(v, S)
       PROVE  Phase(v)'
       BY <1>0, <1>12, Zenon DEF WriteBytes, Phase, Quiet, cache, dispatch, smc, private
<1>13. CASE NoteFlag(v) \/ \E p \in Pages : NotePage(v, p)
       BY <1>0, <1>13, Zenon
       DEF NoteFlag, NotePage, Phase, Quiet, cache, dispatch, smc, private
<1>14. CASE UNCHANGED vars
       BY <1>14, Zenon DEF Phase, Quiet, vars, memory, cache, store, dispatch, smc, private
<1> QED BY <1>1, <1>2, <1>3, <1>4, <1>6, <1>7, <1>8, <1>9, <1>10, <1>11, <1>12, <1>13, <1>14,
           OneThreadSteps DEF Vcpu, HandleSmc, Resolve

LEMMA CacheWaitsStep ==
  ASSUME NEW v, Vcpus = {v}, Embedders = {}, Types, Alone(v), [Next]_vars
  PROVE  CacheWaits(v)'
<1> USE DEF Types, TypeOK
<1>0. v \in Vcpus /\ v \in Threads /\ CacheWaits(v) /\ Phase(v) /\ InHand(v)
      BY Zenon DEF Threads, Alone
<1>1. ASSUME UNCHANGED <<ver, tag, map>>, Awaited(v) \subseteq Awaited(v)'
      PROVE  CacheWaits(v)'
      BY <1>0, <1>1, Zenon DEF CacheWaits
<1>2. ASSUME UNCHANGED <<memory, map, store, smc>> PROVE CacheWaits(v)'
      BY <1>1, <1>2, Zenon DEF memory, store, smc, Awaited
<1>3. CASE SmcLoad(v) \/ SmcDropped(v)
      BY <1>2, <1>3, Zenon DEF SmcLoad, SmcDropped, cache
<1>4. CASE SmcClaim(v)
      BY <1>1, <1>4, Zenon DEF SmcClaim, cache, store, smc, Awaited
<1>5. CASE SmcTake(v)
  <2>1. todo[v] = {} /\ todo'[v] = dirty /\ noting'[v] = noting[v]
        BY <1>0, <1>5, Zenon DEF SmcTake, Phase, store
  <2> QED BY <1>1, <1>5, <2>1, Zenon DEF SmcTake, cache, Awaited
<1>6. CASE SmcUnlink(v)
      BY <1>1, <1>6, Zenon DEF SmcUnlink, memory, cache, store, Awaited
<1>7. ASSUME NEW p \in Pages, SmcDrop(v, p) PROVE CacheWaits(v)'
  <2>1. /\ \A q \in Awaited(v) : q # p => q \in Awaited(v)'
        /\ tag' = tag \ {p} /\ ver' = ver
        BY <1>0, <1>7, Zenon DEF SmcDrop, store, Awaited
  <2>2. ASSUME NEW k \in Keys, map'[k] # None
        PROVE  map'[k] = map[k] /\ p \notin map[k].span
        BY <1>7, <2>2, Zenon DEF SmcDrop, Victims
  <2> QED BY <1>0, <2>1, <2>2 DEF CacheWaits
<1>8. CASE SyncAndProbe(v) \/ ChainCheck(v) \/ SinceSnap(v) \/ PublishLink(v) \/ PublishIbtc(v)
      BY <1>2, <1>8, Zenon
      DEF SyncAndProbe, ChainCheck, SinceSnap, PublishLink, PublishIbtc, cache
<1>9. CASE ResolveSnap(v) \/ ResolveHit(v) \/ ResolveHot(v) \/ ResolveMiss(v) \/ ResolveLift(v)
      BY <1>2, <1>9, Zenon
      DEF ResolveSnap, ResolveHit, ResolveHot, ResolveMiss, ResolveLift, cache
<1>10. CASE ResolveUpgrade(v)
  <2>1. CASE epoch = snap[v]
    <3>1. /\ map' = [map EXCEPT ![rip[v]] = cur[v]] /\ cur[v].key = rip[v] /\ Follows(cur[v])
          /\ UNCHANGED <<memory, store, smc>>
          BY <1>0, <1>10, <2>1, Zenon DEF ResolveUpgrade, InHand
    <3>2. Awaited(v)' = Awaited(v) /\ ver' = ver /\ tag' = tag
          BY <3>1, Zenon DEF memory, store, smc, Awaited
    <3>3. ASSUME NEW k \in Keys, map'[k] # None
          PROVE  /\ map[k] # None /\ map'[k].key = k
                 /\ map'[k].span = map[k].span /\ map'[k].seen = map[k].seen
          BY <1>0, <3>1, <3>3, Zenon DEF Follows, CacheWaits
    <3>4. ASSUME NEW k \in Keys, map'[k] # None
          PROVE  /\ map'[k].span \subseteq tag
                 /\ \A p \in map'[k].span : map'[k].seen[p] # ver[p] => p \in Awaited(v)
          BY <1>0, <3>3, <3>4, Zenon DEF CacheWaits
    <3> QED BY <3>2, <3>3, <3>4, Zenon DEF CacheWaits
  <2>2. CASE epoch # snap[v]
        BY <1>2, <1>10, <2>2, Zenon DEF ResolveUpgrade
  <2> QED BY <2>1, <2>2, Zenon
<1>11. CASE ResolveInsert(v)
  <2> PICK u : u = [cur[v] EXCEPT !.late = Unnoticed(cur[v])]
      BY Zenon
  <2>1. /\ map' = [map EXCEPT ![rip[v]] = u] /\ tag' = tag \cup u.span /\ ver' = ver
        /\ u.key = rip[v] /\ u.span = cur[v].span /\ u.seen = cur[v].seen
    <3>1. cur[v] \in Units /\ cur[v].key = rip[v]
          BY <1>0, <1>11, Zenon DEF ResolveInsert, CurIsUnit, InHand
    <3> QED BY <1>0, <1>11, <3>1, Zenon DEF ResolveInsert, Units
  <2>2. Awaited(v)' = Awaited(v)
        BY <1>11, Zenon DEF ResolveInsert, store, smc, Awaited
  <2>3. \A p \in u.span : u.seen[p] = ver[p]
        BY <1>0, <1>11, <2>1, Zenon DEF ResolveInsert, InHand, OutOfDate
  <2>4. ASSUME NEW k \in Keys, map'[k] # None, k # rip[v]
        PROVE  map'[k] = map[k]
        BY <2>1, <2>4, Zenon
  <2>5. map'[rip[v]] = u
        BY <1>0, <2>1, Zenon
  <2> QED BY <1>0, <2>1, <2>2, <2>3, <2>4, <2>5 DEF CacheWaits
<1>12. CASE Exec(v)
       BY <1>2, <1>12, Zenon
       DEF Exec, ExitToOuter, FollowLink, FollowIbtc, ExitChain, ExitMiss, cache
<1>13. ASSUME NEW S \in Stores, WriteBytes(v, S) PROVE CacheWaits(v)'
  <2>1. Awaited(v)' = Awaited(v) \cup S /\ UNCHANGED <<tag, map>>
        BY <1>0, <1>13, Zenon DEF WriteBytes, Quiet, cache, smc, Awaited
  <2>2. \A p \in Pages : ver'[p] # ver[p] => p \in S
        BY <1>13, Zenon DEF WriteBytes
  <2>3. \A k \in Keys : map[k] # None => map[k].span \subseteq Pages
        BY Zenon DEF Units
  <2> QED BY <1>0, <2>1, <2>2, <2>3, Zenon DEF CacheWaits
<1>14. CASE NoteFlag(v)
       BY <1>1, <1>14, Zenon DEF NoteFlag, cache, smc, Awaited
<1>15. ASSUME NEW p \in Pages, NotePage(v, p) PROVE CacheWaits(v)'
  <2>1. UNCHANGED <<ver, tag, map>>
        BY <1>15, Zenon DEF NotePage, cache
  <2>2. \A q \in Awaited(v) : q \in tag => q \in Awaited(v)'
        BY <1>0, <1>15 DEF NotePage, smc, Awaited
  <2> QED BY <1>0, <2>1, <2>2, Zenon DEF CacheWaits
<1>16. CASE UNCHANGED vars
       BY <1>2, <1>16, Zenon DEF vars, cache
<1> QED BY <1>3, <1>4, <1>5, <1>6, <1>7, <1>8, <1>9, <1>10, <1>11, <1>12, <1>13, <1>14, <1>15,
           <1>16, OneThreadSteps DEF Vcpu, HandleSmc, Resolve

LEMMA SlotsFollowStep ==
  ASSUME NEW v, Vcpus = {v}, Embedders = {}, Types, Alone(v), [Next]_vars
  PROVE  SlotsFollow(v)'
<1> USE DEF Types, TypeOK
<1>0. v \in Vcpus /\ CacheWaits(v) /\ SlotsFollow(v) /\ Phase(v) /\ InHand(v) /\ rip[v] \in Keys
      BY Zenon DEF Alone
<1>1. ASSUME UNCHANGED <<map, epoch, link, ibtc, owes, fast, fast_epoch>>
      PROVE  SlotsFollow(v)'
      BY <1>0, <1>1 DEF SlotsFollow, Follows
<1>a. ASSUME map' = map PROVE \A x : Follows(x) => Follows(x)'
      BY <1>a, Zenon DEF Follows
<1>2. ASSUME UNCHANGED <<cache, slots, smc, private>> PROVE SlotsFollow(v)'
      BY <1>1, <1>2, Zenon DEF cache, slots, smc, private
<1>3. CASE SmcLoad(v) \/ SmcClaim(v) \/ SmcDropped(v)
      BY <1>2, <1>3, Zenon DEF SmcLoad, SmcClaim, SmcDropped
<1>4. CASE SmcTake(v)
  <2>1. owes'[v] = owes[v]
        BY <1>0, <1>4, Zenon DEF SmcTake, Phase
  <2> QED BY <1>0, <1>4, <2>1, Zenon DEF SmcTake, SlotsFollow, Follows, cache, slots, private
<1>5. CASE SmcUnlink(v)
  <2>1. (\A k \in Keys : link'[k] = None) /\ ibtc' = None
        BY <1>5, Zenon DEF SmcUnlink
  <2> QED BY <1>0, <1>5, <2>1 DEF SmcUnlink, SlotsFollow, Follows, cache, private
<1>6. ASSUME NEW p \in Pages, SmcDrop(v, p) PROVE SlotsFollow(v)'
  <2>1. CASE Victims(p) = {}
    <3>1. map' = map
          BY <1>6, <2>1, Zenon DEF SmcDrop
    <3>2. owes'[v] = owes[v] /\ epoch' = epoch
          BY <1>0, <1>6, <2>1, Zenon DEF SmcDrop
    <3>3. UNCHANGED <<link, ibtc, fast, fast_epoch>>
          BY <1>6, Zenon DEF SmcDrop, slots, private
    <3> QED BY <1>0, <1>a, <3>1, <3>2, <3>3, Zenon DEF SlotsFollow
  <2>2. CASE Victims(p) # {}
    <3>1. owes'[v]
          BY <1>0, <1>6, <2>2, Zenon DEF SmcDrop
    <3>2. epoch' = epoch + 1 /\ fast_epoch' = fast_epoch
          BY <1>6, <2>2, Zenon DEF SmcDrop, private
    <3>3. fast_epoch'[v] # epoch'
          BY <1>0, <3>2 DEF Phase
    <3> QED BY <3>1, <3>3, Zenon DEF SlotsFollow
  <2> QED BY <2>1, <2>2, Zenon
<1>7. CASE SyncAndProbe(v)
  <2>1. UNCHANGED <<map, epoch, link, ibtc, owes>>
        BY <1>7, Zenon DEF SyncAndProbe, cache, slots, smc
  <2>2. ASSUME NEW k \in Keys, fast'[v][k] # None
        PROVE  fast'[v][k] = fast[v][k] /\ fast_epoch[v] = epoch
        BY <1>0, <1>7, <2>2, Zenon DEF SyncAndProbe, NoFast
  <2> QED BY <1>0, <1>a, <2>1, <2>2, Zenon DEF SlotsFollow
<1>8. ASSUME NEW u, u # None, u.key = rip[v], Follows(u)', Return(v, u),
             \A x : Follows(x) => Follows(x)', UNCHANGED <<epoch, slots, smc>>
      PROVE  SlotsFollow(v)'
  <2>1. ASSUME NEW k \in Keys
        PROVE  fast'[v][k] = fast[v][k] \/ (k = rip[v] /\ fast'[v][k] = u)
        BY <1>0, <1>8, Zenon DEF Return
  <2>2. UNCHANGED <<fast_epoch, link, ibtc, owes>>
        BY <1>8, Zenon DEF Return, slots, smc
  <2> QED BY <1>0, <1>8, <2>1, <2>2, Zenon DEF SlotsFollow
<1>9. CASE ResolveHit(v)
  <2>1. map' = map /\ map[rip[v]] # None /\ map[rip[v]].key = rip[v]
        BY <1>0, <1>9, Zenon DEF ResolveHit, CacheWaits, cache
  <2> PICK u : u = map[rip[v]]
      BY Zenon
  <2>2. Follows(u)'
        BY <1>0, <2>1, Zenon DEF Follows
  <2>3. Return(v, u) /\ UNCHANGED <<epoch, slots, smc>>
        BY <1>9, Zenon DEF ResolveHit, cache
  <2> QED BY <1>8, <1>a, <2>1, <2>2, <2>3, Zenon
<1>10. CASE ResolveUpgrade(v)
  <2>1. CASE epoch = snap[v]
    <3> PICK u : u = cur[v]
        BY Zenon
    <3>1. /\ map' = [map EXCEPT ![rip[v]] = u] /\ u \in Units /\ u.key = rip[v] /\ Follows(u)
          /\ Return(v, u) /\ UNCHANGED <<epoch, slots, smc>>
          BY <1>0, <1>10, <2>1, Zenon DEF ResolveUpgrade, InHand
    <3>2. \A x : Follows(x) => Follows(x)'
          BY <1>0, <3>1, StillFollows, Zenon
    <3> QED BY <1>8, <3>1, <3>2, NoneAssumption, Zenon
  <2>2. CASE epoch # snap[v]
        BY <1>1, <1>10, <2>2, Zenon DEF ResolveUpgrade, slots, smc, private
  <2> QED BY <2>1, <2>2, Zenon
<1>11. CASE ResolveInsert(v)
  <2> PICK u : u = [cur[v] EXCEPT !.late = Unnoticed(cur[v])]
      BY Zenon
  <2>1. cur[v] \in Units /\ cur[v].key = rip[v] /\ map[rip[v]] = None
        BY <1>0, <1>11, Zenon DEF ResolveInsert, CurIsUnit, InHand
  <2>2. u \in Units /\ u.key = rip[v]
        BY <2>1, Zenon DEF Units, Unnoticed
  <2>3. /\ map' = [map EXCEPT ![rip[v]] = u]
        /\ Return(v, u) /\ UNCHANGED <<epoch, slots, smc>>
        BY <1>11, Zenon DEF ResolveInsert
  <2>4. \A x : Follows(x) => Follows(x)'
        BY <1>0, <2>1, <2>2, <2>3, StillFollows, Zenon
  <2>5. Follows(u)'
        BY <1>0, <2>2, <2>3, NoneAssumption, Zenon DEF Follows
  <2> QED BY <1>8, <2>2, <2>3, <2>4, <2>5, NoneAssumption, Zenon
<1>12. CASE ResolveSnap(v) \/ ResolveHot(v) \/ ResolveMiss(v) \/ ResolveLift(v)
       BY <1>2, <1>12, Zenon DEF ResolveSnap, ResolveHot, ResolveMiss, ResolveLift
<1>13. CASE ChainCheck(v) \/ SinceSnap(v)
       BY <1>2, <1>13, Zenon DEF ChainCheck, SinceSnap
<1>14. CASE Exec(v)
       BY <1>2, <1>14, Zenon DEF Exec, ExitToOuter, FollowLink, FollowIbtc, ExitChain, ExitMiss
<1>15. CASE PublishLink(v) \/ PublishIbtc(v)
  <2>1. cur[v].key = rip[v] /\ Follows(cur[v])
        BY <1>0, <1>15, Zenon DEF PublishLink, PublishIbtc, InHand
  <2>2. UNCHANGED <<map, epoch, fast_epoch, owes>>
        BY <1>15, Zenon DEF PublishLink, PublishIbtc, cache, smc
  <2>3. /\ \A k \in Keys : link'[k] = link[k] \/ link'[k] = cur[v]
        /\ ibtc' = ibtc \/ ibtc' = cur[v]
        /\ \A k \in Keys : fast'[v][k] = fast[v][k] \/ (k = rip[v] /\ fast'[v][k] = cur[v])
        BY <1>0, <1>15 DEF PublishLink, PublishIbtc
  <2> PICK u : u = cur[v]
      BY Zenon
  <2>4. Follows(u)' /\ u.key = rip[v]
        BY <1>a, <2>1, <2>2, Zenon
  <2> QED BY <1>0, <1>a, <2>2, <2>3, <2>4, Zenon DEF SlotsFollow
<1>16. CASE NoteFlag(v) \/ (\E S \in Stores : WriteBytes(v, S)) \/ \E p \in Pages : NotePage(v, p)
       BY <1>2, <1>16, Zenon DEF NoteFlag, WriteBytes, NotePage
<1>17. CASE UNCHANGED vars
       BY <1>2, <1>17, Zenon DEF vars
<1> QED BY <1>3, <1>4, <1>5, <1>6, <1>7, <1>9, <1>10, <1>11, <1>12, <1>13, <1>14, <1>15, <1>16,
           <1>17, OneThreadSteps DEF Vcpu, HandleSmc, Resolve

LEMMA InHandStep ==
  ASSUME NEW v, Vcpus = {v}, Embedders = {}, Types, Alone(v), [Next]_vars
  PROVE  InHand(v)'
<1> USE DEF Types, TypeOK, Goto
<1>0. v \in Vcpus /\ CacheWaits(v) /\ SlotsFollow(v) /\ Phase(v) /\ InHand(v) /\ rip[v] \in Keys
      BY Zenon DEF Alone
<1>1. ASSUME pc'[v] \notin {"chain", "publish", "upgrade", "lift", "insert"} PROVE InHand(v)'
      BY <1>1, Zenon DEF InHand
<1>a. ASSUME map' = map PROVE \A x : Follows(x) => Follows(x)'
      BY <1>a, Zenon DEF Follows
<1>2. ASSUME NEW u \in Units, u.key = rip'[v], Follows(u)', cur'[v] = u,
             pc'[v] \notin {"lift", "insert"}
      PROVE  InHand(v)'
      BY <1>2, Zenon DEF InHand
<1>3. CASE SmcLoad(v) \/ SmcClaim(v) \/ SmcTake(v) \/ SmcDropped(v) \/ SmcUnlink(v)
      BY <1>0, <1>1, <1>3 DEF SmcLoad, SmcClaim, SmcTake, SmcDropped, SmcUnlink
<1>4. ASSUME NEW p \in Pages, SmcDrop(v, p) PROVE InHand(v)'
      BY <1>0, <1>1, <1>4, Zenon DEF SmcDrop
<1>5. CASE SyncAndProbe(v)
  <2>1. CASE pc'[v] = "snap"
        BY <1>1, <2>1, Zenon
  <2>2. CASE pc'[v] # "snap"
    <3>1. /\ fast[v][rip[v]] # None /\ fast_epoch[v] = epoch /\ cur'[v] = fast[v][rip[v]]
          /\ pc'[v] = "chain" /\ rip' = rip /\ map' = map
          BY <1>0, <1>5, <2>2, Zenon DEF SyncAndProbe, NoFast, cache
    <3> PICK u : u = fast[v][rip[v]]
        BY Zenon
    <3>2. u \in Units /\ u.key = rip[v] /\ Follows(u)
      <4>1. fast[v] \in [Keys -> Units \cup {None}]
            BY <1>0, Zenon
      <4>2. u \in Units
            BY <1>0, <3>1, <4>1, Zenon
      <4> QED BY <1>0, <3>1, <4>2, Zenon DEF SlotsFollow
    <3>3. Follows(u)'
          BY <1>a, <3>1, <3>2, Zenon
    <3> QED BY <1>2, <3>1, <3>2, <3>3, Zenon
  <2> QED BY <2>1, <2>2, Zenon
<1>6. ASSUME NEW u \in Units, u.key = rip[v], Follows(u)', Return(v, u)
      PROVE  InHand(v)'
  <2>1. cur'[v] = u /\ rip' = rip /\ pc'[v] \notin {"lift", "insert"}
        BY <1>0, <1>6, Zenon DEF Return
  <2> QED BY <1>2, <1>6, <2>1, Zenon
<1>7. CASE ResolveSnap(v)
      BY <1>0, <1>1, <1>7, Zenon DEF ResolveSnap
<1>8. CASE ResolveHit(v)
  <2>1. map' = map /\ map[rip[v]] # None /\ map[rip[v]].key = rip[v]
        BY <1>0, <1>8, Zenon DEF ResolveHit, CacheWaits, cache
  <2> PICK u : u = map[rip[v]]
      BY Zenon
  <2>2. Follows(u)' /\ u \in Units
        BY <1>0, <2>1, Zenon DEF Follows
  <2>3. Return(v, u)
        BY <1>8, Zenon DEF ResolveHit
  <2> QED BY <1>6, <2>1, <2>2, <2>3, Zenon
<1>9. CASE ResolveHot(v)
  <2> PICK u : u = [map[rip[v]] EXCEPT !.comp = TRUE]
      BY Zenon
  <2>1. map' = map /\ rip' = rip /\ map[rip[v]] \in Units /\ map[rip[v]] # None
        BY <1>0, <1>9 DEF ResolveHot, cache
  <2>2. u \in Units /\ u.span = map[rip[v]].span /\ u.seen = map[rip[v]].seen
        /\ u.key = map[rip[v]].key
        BY <2>1, Zenon DEF Units
  <2>3. u.key = rip[v]
        BY <1>0, <2>1, <2>2, Zenon DEF CacheWaits
  <2>4. Follows(u)'
        BY <1>0, <2>1, <2>2, <2>3, Zenon DEF Follows
  <2>5. cur'[v] = u /\ pc'[v] = "upgrade"
        BY <1>0, <1>9, Zenon DEF ResolveHot
  <2> QED BY <1>2, <2>1, <2>2, <2>3, <2>4, <2>5, Zenon
<1>10. CASE ResolveUpgrade(v)
  <2>1. CASE epoch = snap[v]
    <3> PICK u : u = cur[v]
        BY Zenon
    <3>1. /\ map' = [map EXCEPT ![rip[v]] = u] /\ u \in Units /\ u.key = rip[v] /\ Follows(u)
          /\ Return(v, u)
          BY <1>0, <1>10, <2>1, Zenon DEF ResolveUpgrade, InHand
    <3>2. Follows(u)'
          BY <1>0, <3>1, StillFollows, Zenon
    <3> QED BY <1>6, <3>1, <3>2, Zenon
  <2>2. CASE epoch # snap[v]
        BY <1>0, <1>1, <1>10, <2>2, Zenon DEF ResolveUpgrade
  <2> QED BY <2>1, <2>2, Zenon
<1>11. CASE ResolveMiss(v)
  <2>1. map'[rip'[v]] = None /\ pc'[v] = "lift"
        BY <1>0, <1>11, Zenon DEF ResolveMiss, cache, dispatch
  <2> QED BY <2>1, Zenon DEF InHand
<1>12. CASE ResolveLift(v)
  <2> PICK u : u = Lifted(rip[v])
      BY Zenon
  <2>1. map'[rip'[v]] = None /\ pc'[v] = "insert" /\ cur'[v] = u /\ ver' = ver /\ rip' = rip
        BY <1>0, <1>12, Zenon DEF ResolveLift, InHand, cache, memory
  <2>2. u.key = rip[v] /\ u.span \subseteq Pages /\ \A p \in u.span : u.seen[p] = ver[p]
    <3>1. u \in Units
          BY <1>0, LiftedIsUnit, Zenon
    <3> QED BY <3>1, Zenon DEF Lifted, Units
  <2> QED BY <2>1, <2>2, Zenon DEF InHand, OutOfDate
<1>13. CASE ResolveInsert(v)
  <2> PICK u : u = [cur[v] EXCEPT !.late = Unnoticed(cur[v])]
      BY Zenon
  <2>1. cur[v] \in Units /\ cur[v].key = rip[v]
        BY <1>0, <1>13, Zenon DEF ResolveInsert, CurIsUnit, InHand
  <2>2. u \in Units /\ u.key = rip[v]
        BY <2>1, Zenon DEF Units, Unnoticed
  <2>3. map' = [map EXCEPT ![rip[v]] = u] /\ Return(v, u)
        BY <1>13, Zenon DEF ResolveInsert
  <2>4. Follows(u)'
        BY <1>0, <2>2, <2>3, NoneAssumption, Zenon DEF Follows
  <2> QED BY <1>6, <2>2, <2>3, <2>4, Zenon
<1>14. CASE ChainCheck(v)
       BY <1>0, <1>1, <1>14, Zenon DEF ChainCheck
<1>15. CASE SinceSnap(v)
  <2>1. CASE pc'[v] = "snap"
        BY <1>1, <2>1, Zenon
  <2>2. CASE pc'[v] # "snap"
    <3>1. /\ fast[v][rip[v]] # None /\ cur'[v] = fast[v][rip[v]]
          /\ pc'[v] = "publish" /\ rip' = rip /\ map' = map
          BY <1>0, <1>15, <2>2, Zenon DEF SinceSnap, cache
    <3> PICK u : u = fast[v][rip[v]]
        BY Zenon
    <3>2. fast_epoch[v] = epoch
          BY <1>0, <1>15, Zenon DEF SinceSnap, Phase
    <3>3. u \in Units /\ u.key = rip[v] /\ Follows(u)
      <4>1. fast[v] \in [Keys -> Units \cup {None}]
            BY <1>0, Zenon
      <4>2. u \in Units
            BY <1>0, <3>1, <4>1
      <4> QED BY <1>0, <3>1, <3>2, <4>2, Zenon DEF SlotsFollow
    <3>4. Follows(u)'
          BY <1>a, <3>1, <3>3, Zenon
    <3> QED BY <1>2, <3>1, <3>3, <3>4, Zenon
  <2> QED BY <2>1, <2>2, Zenon
<1>16. ASSUME NEW u \in Units, Follows(u), ExitChain(v, u) PROVE InHand(v)'
  <2>1. cur'[v] = u /\ rip'[v] = u.key /\ pc'[v] = "chain" /\ map' = map
        BY <1>0, <1>16, Zenon DEF ExitChain, cache
  <2>2. Follows(u)'
        BY <1>a, <1>16, <2>1, Zenon
  <2> QED BY <1>2, <1>16, <2>1, <2>2, Zenon
<1>17. CASE Exec(v)
  <2>1. ASSUME NEW k \in Keys, FollowLink(v, k) PROVE InHand(v)'
    <3>1. pc[v] = "exec" /\ link[k] # None /\ ExitChain(v, link[k])
          BY <2>1, Zenon DEF FollowLink, ExitChain
    <3>2. ~owes[v]
          BY <1>0, <3>1, Zenon DEF Phase
    <3>3. link[k] \in Units /\ Follows(link[k])
          BY <1>0, <3>1, <3>2 DEF SlotsFollow
    <3> QED BY <1>16, <3>1, <3>3, Zenon
  <2>2. CASE FollowIbtc(v)
    <3>1. pc[v] = "exec" /\ ibtc # None /\ ExitChain(v, ibtc)
          BY <2>2, Zenon DEF FollowIbtc, ExitChain
    <3>2. ~owes[v]
          BY <1>0, <3>1, Zenon DEF Phase
    <3>3. ibtc \in Units /\ Follows(ibtc)
          BY <1>0, <3>1, <3>2, Zenon DEF SlotsFollow
    <3> QED BY <1>16, <3>1, <3>3, Zenon
  <2>3. ASSUME NEW k \in Keys, ExitToOuter(v, k) PROVE InHand(v)'
        BY <1>0, <1>1, <2>3, Zenon DEF ExitToOuter
  <2>4. ASSUME NEW k \in Keys, NEW kind, ExitMiss(v, k, kind) PROVE InHand(v)'
        BY <1>0, <1>1, <2>4, Zenon DEF ExitMiss
  <2> QED BY <1>17, <2>1, <2>2, <2>3, <2>4, Zenon DEF Exec
<1>18. ASSUME UNCHANGED <<map, dispatch>>, pc[v] = "publish", pc'[v] \in {"smc", "chain"}
       PROVE  InHand(v)'
  <2>1. CASE pc'[v] = "chain"
    <3> PICK u : u = cur[v]
        BY Zenon
    <3>1. u \in Units /\ u.key = rip[v] /\ Follows(u)
          BY <1>0, <1>18, <2>1, Zenon DEF InHand
    <3>2. Follows(u)' /\ rip' = rip /\ cur' = cur
          BY <1>a, <1>18, <3>1, Zenon DEF dispatch
    <3> QED BY <1>2, <2>1, <3>1, <3>2, Zenon
  <2>2. CASE pc'[v] # "chain"
        BY <1>1, <1>18, <2>2, Zenon
  <2> QED BY <2>1, <2>2, Zenon
<1>19. CASE PublishLink(v) \/ PublishIbtc(v)
  <2>1. UNCHANGED <<map, dispatch>> /\ pc[v] = "publish" /\ pc'[v] \in {"smc", "chain"}
        BY <1>0, <1>19 DEF PublishLink, PublishIbtc, cache
  <2> QED BY <1>18, <2>1, Zenon
<1>20. ASSUME NEW S \in Stores, pc[v] \in {"interp", "exec"}, WriteBytes(v, S)
       PROVE  InHand(v)'
       BY <1>1, <1>20, Zenon DEF WriteBytes
<1>21. CASE NoteFlag(v) \/ \E p \in Pages : NotePage(v, p)
  <2>1. pc[v] \in {"interp", "exec"} /\ pc' = pc
        BY <1>0, <1>21, Zenon DEF NoteFlag, NotePage, Phase, Quiet
  <2> QED BY <1>1, <2>1, Zenon
<1>22. CASE UNCHANGED vars
       BY <1>0, <1>22, Zenon DEF InHand, OutOfDate, Follows, vars, memory, cache, dispatch
<1> QED BY <1>3, <1>4, <1>5, <1>7, <1>8, <1>9, <1>10, <1>11, <1>12, <1>13, <1>14, <1>15, <1>17,
           <1>19, <1>20, <1>21, <1>22, OneThreadSteps, Zenon DEF Vcpu, HandleSmc, Resolve

(* A vcpu that starts to execute a block takes one of these steps.         *)
LEMMA Entering ==
  ASSUME NEW v, Vcpus = {v}, Embedders = {}, Types, Next,
         pc'[v] \in {"exec", "interp"}, pc'[v] # pc[v]
  PROVE  \/ ChainCheck(v) /\ ~dirty_flag
         \/ pc[v] \in {"get", "upgrade", "insert"} /\ ret[v] = "outer" /\ Resolve(v)
<1> USE DEF Types, TypeOK, Goto
<1>0. v \in Vcpus
      BY Zenon
<1>1. ~HandleSmc(v)
      BY <1>0 DEF HandleSmc, SmcLoad, SmcClaim, SmcTake, SmcDropped, SmcUnlink, SmcDrop
<1>2. ~SyncAndProbe(v) /\ ~SinceSnap(v) /\ ~PublishLink(v) /\ ~PublishIbtc(v)
  <2>1. ~SyncAndProbe(v)
    <3>1. ASSUME SyncAndProbe(v)
          PROVE  pc' = [pc EXCEPT ![v] = "chain"] \/ pc' = [pc EXCEPT ![v] = "snap"]
          BY <3>1, Zenon DEF SyncAndProbe
    <3> QED BY <1>0, <3>1
  <2>2. ~SinceSnap(v)
        BY <1>0, Zenon DEF SinceSnap
  <2>3. ~PublishLink(v) /\ ~PublishIbtc(v)
        BY <1>0, Zenon DEF PublishLink, PublishIbtc
  <2> QED BY <2>1, <2>2, <2>3, Zenon
<1>3. ~Exec(v)
      BY <1>0, Zenon DEF Exec, ExitToOuter, FollowLink, FollowIbtc, ExitChain, ExitMiss
<1>4. ASSUME Resolve(v) PROVE pc[v] \in {"get", "upgrade", "insert"} /\ ret[v] = "outer"
      BY <1>0, <1>4 DEF Resolve, ResolveSnap, ResolveHit, ResolveHot, ResolveUpgrade,
         ResolveMiss, ResolveLift, ResolveInsert, Return
<1>5. ASSUME ChainCheck(v) PROVE ~dirty_flag
      BY <1>0, <1>5, Zenon DEF ChainCheck
<1>6. /\ ~NoteFlag(v) /\ \A p \in Pages : ~NotePage(v, p)
      /\ \A S \in Stores : ~WriteBytes(v, S)
      BY Zenon DEF NoteFlag, NotePage, WriteBytes
<1>7. Vcpu(v)
  <2>1. ~UNCHANGED vars
        BY Zenon DEF vars
  <2> QED BY <1>6, <2>1, OneThreadSteps, Zenon
<1> QED BY <1>1, <1>2, <1>3, <1>4, <1>5, <1>7 DEF Vcpu

(* What has just been entered and follows the cache is up to date when     *)
(* nothing is awaited.                                                     *)
LEMMA NothingAwaited ==
  ASSUME NEW v, CacheWaits(v), Awaited(v) = {}, NEW u, Follows(u)
  PROVE  ~OutOfDate(u)
  BY Zenon DEF CacheWaits, Follows, OutOfDate

LEMMA EntersUpToDate ==
  ASSUME NEW v, Vcpus = {v}, Embedders = {}, Types, DirtyIsAnnounced, Alone(v), Next,
         pc'[v] \in {"exec", "interp"}, pc'[v] # pc[v]
  PROVE  ~OutOfDate(cur'[v])
<1> USE DEF Types, TypeOK, Goto
<1>0. /\ v \in Vcpus /\ Threads = {v} /\ rip[v] \in Keys
      /\ CacheWaits(v) /\ SlotsFollow(v) /\ Phase(v) /\ InHand(v)
      BY Zenon DEF Alone, Threads
<1>1. CASE ChainCheck(v) /\ ~dirty_flag
  <2>1. pc[v] = "chain" /\ cur' = cur
        BY <1>1, Zenon DEF ChainCheck, dispatch
  <2>2. noting[v] = {} /\ ~flagging[v] /\ todo[v] = {}
        BY <1>0, <2>1, Zenon DEF Phase, Quiet
  <2>3. dirty = {}
        BY <1>0, <1>1, <2>1, <2>2, Zenon DEF DirtyIsAnnounced
  <2>4. Awaited(v) = {}
        BY <2>2, <2>3, Zenon DEF Awaited
  <2>5. Follows(cur[v])
        BY <1>0, <2>1, Zenon DEF InHand
  <2> QED BY <1>0, <2>1, <2>4, <2>5, NothingAwaited, Zenon
<1>2. CASE pc[v] \in {"get", "upgrade", "insert"} /\ ret[v] = "outer" /\ Resolve(v)
  <2>1. Awaited(v) = {}
        BY <1>0, <1>2, Zenon DEF Phase, Quiet, Awaited
  <2>2. CASE pc[v] = "get"
    <3>1. ResolveHit(v)
          BY <1>0, <1>2, <2>2, Zenon
          DEF Resolve, ResolveSnap, ResolveHot, ResolveUpgrade, ResolveMiss,
             ResolveLift, ResolveInsert
    <3>2. cur'[v] = map[rip[v]] /\ map[rip[v]] # None
          BY <1>0, <3>1, Zenon DEF ResolveHit, Return
    <3>3. Follows(map[rip[v]])
          BY <1>0, <3>2, Zenon DEF CacheWaits, Follows
    <3> QED BY <1>0, <2>1, <3>2, <3>3, NothingAwaited, Zenon
  <2>3. CASE pc[v] = "upgrade"
    <3>1. ResolveUpgrade(v) /\ Follows(cur[v])
          BY <1>0, <1>2, <2>3, Zenon
          DEF Resolve, ResolveSnap, ResolveHit, ResolveHot, ResolveMiss,
             ResolveLift, ResolveInsert, InHand
    <3>2. cur'[v] = cur[v]
          BY <1>0, <3>1, Zenon DEF ResolveUpgrade, Return, dispatch
    <3> QED BY <1>0, <2>1, <3>1, <3>2, NothingAwaited, Zenon
  <2>4. CASE pc[v] = "insert"
    <3>1. ResolveInsert(v) /\ cur[v] \in Units /\ ~OutOfDate(cur[v])
          BY <1>0, <1>2, <2>4, Zenon
          DEF Resolve, ResolveSnap, ResolveHit, ResolveHot, ResolveUpgrade,
             ResolveMiss, ResolveLift, CurIsUnit, InHand
    <3>2. cur'[v].span = cur[v].span /\ cur'[v].seen = cur[v].seen
          BY <1>0, <3>1, Zenon DEF ResolveInsert, Return, Units
    <3> QED BY <3>1, <3>2, Zenon DEF OutOfDate
  <2> QED BY <1>2, <2>2, <2>3, <2>4, Zenon
<1> QED BY <1>1, <1>2, Entering, Zenon

LEMMA InformedHolds ==
  ASSUME OneThread
  PROVE  Spec => []Informed
<1>1. Init => Informed
      BY InitTypes, InitAlone, Zenon DEF Init, DirtyIsAnnounced, Informed
<1>2. Informed /\ [Next]_vars => Informed'
  <2> SUFFICES ASSUME Informed, [Next]_vars PROVE Informed'
      BY Zenon
  <2>1. Types' /\ DirtyIsAnnounced'
        BY NextTypes, NextAnnounces, Zenon DEF Informed
  <2>2. PICK v : Vcpus = {v} /\ Embedders = {}
        BY Zenon DEF OneThread
  <2>3. CacheWaits(v)' /\ SlotsFollow(v)' /\ InHand(v)' /\ Phase(v)'
        BY <2>2, CacheWaitsStep, SlotsFollowStep, InHandStep, PhaseStep, Zenon
        DEF Alone, Informed
  <2> QED BY <2>1, <2>2, <2>3, Zenon DEF Alone, Informed
<1> QED BY <1>1, <1>2, PTL DEF Spec

(* A program that patches its own code runs the patched code: with one     *)
(* vcpu and no other writer, whatever its tiers, links, descriptors and    *)
(* fast-resolve cache hold, and even if a patch changes where a block ends,*)
(* no block is entered from bytes it has rewritten (run smc_one_vcpu).     *)
THEOREM OwnPatchesAreSeen ==
  ASSUME OneThread
  PROVE  Spec => EntersFresh
<1>1. Informed /\ [Next]_vars =>
        [\A v \in Storers :
           pc'[v] \in {"exec", "interp"} /\ pc'[v] # pc[v] => ~OutOfDate(cur'[v])]_vars
  <2> SUFFICES ASSUME Informed, Next, NEW v \in Storers,
                      pc'[v] \in {"exec", "interp"}, pc'[v] # pc[v]
               PROVE  ~OutOfDate(cur'[v])
      BY Zenon
  <2>1. Vcpus = {v} /\ Embedders = {}
        BY StoresAssumption, Zenon DEF OneThread
  <2> QED BY <2>1, EntersUpToDate, Zenon DEF Informed
<1> QED BY <1>1, InformedHolds, PTL DEF Spec, EntersFresh

(* The indirect-branch descriptor of a Vm with one vcpu leads to a cached  *)
(* key or is about to be cleared, as the comment on publish_if_current     *)
(* says: what run smc_ibtc finds needs a second thread, whose store makes  *)
(* a drop after the outer loop has flushed the fast cache.                 *)
THEOREM OwnDescriptorsAreCurrent ==
  ASSUME OneThread
  PROVE  Spec => []IbtcIsCurrent
<1>1. Informed => IbtcIsCurrent
  <2> SUFFICES ASSUME Informed, ibtc # None
               PROVE  map[ibtc.key] # None \/ \E v \in Vcpus : owes[v]
      BY Zenon DEF IbtcIsCurrent
  <2>1. PICK v \in Vcpus : SlotsFollow(v)
        BY Zenon DEF OneThread, Informed, Alone
  <2> QED BY <2>1, Zenon DEF SlotsFollow, Follows
<1> QED BY <1>1, InformedHolds, PTL

(* The pages of a cached unit stay tagged and no cached unit is out of     *)
(* date without an invalidation on its way, for one vcpu and any rewriting *)
(* of its code: LivePagesStayTagged and RewritesAreNoticed without their   *)
(* hypothesis on where blocks end.  What SmcLiftRace.cfg and SmcShape.cfg  *)
(* show needs a second writer.                                             *)
THEOREM OwnPatchesAreNoticed ==
  ASSUME OneThread
  PROVE  Spec => [](TagsCoverUnits /\ NothingUnnoticed)
<1>1. Informed => TagsCoverUnits /\ NothingUnnoticed
  <2> SUFFICES ASSUME Informed PROVE TagsCoverUnits /\ NothingUnnoticed
      BY Zenon
  <2>1. PICK v \in Vcpus : Vcpus = {v} /\ CacheWaits(v) /\ Embedders = {}
        BY Zenon DEF OneThread, Informed, Alone
  <2>2. TagsCoverUnits
        BY <2>1, Zenon DEF CacheWaits, TagsCoverUnits
  <2>3. NothingUnnoticed
        BY <2>1, Zenon DEF CacheWaits, NothingUnnoticed, Unnoticed, Pending, Awaited, Threads
  <2> QED BY <2>2, <2>3, Zenon
<1> QED BY <1>1, InformedHolds, PTL

(* ----------------------- The code-range watermark ----------------------- *)

(* The watermark theorems, for any number of pages and of marking threads. *)
(* They hold for every span strictly below the one fresh_code_pages still  *)
(* accepts: at the limit itself the length overflows its half of the word  *)
(* (CodeRangeLimit.cfg).                                                   *)

(* The guest span leaves one page of room below the packed word's limit.   *)
SpanFits == NPages + 1 < FieldSize

(* The words the loop ever installs: empty, or a range that ends at most   *)
(* one page above the last page, and only when it starts at page 0 (where  *)
(* the skew has nowhere to go).                                            *)
RangeOK(w) ==
  \/ w = EmptyRange
  \/ /\ w.len >= 2
     /\ w.lo = 0 => w.len <= NPages + 1
     /\ w.lo > 0 => w.lo + w.len <= NPages

(* What a marker has loaded is never wider than the word now is.           *)
SeenIsBehind ==
  \A m \in Markers : \A p \in GuestPages : InRange(p, seen[m]) => InRange(p, code_range)

RangeInv ==
  /\ RangeTypeOK
  /\ RangeOK(code_range)
  /\ \A m \in Markers : RangeOK(seen[m])
  /\ SeenIsBehind
  /\ CodePagesCovered

(* One turn of the widen loop: the new word is well formed, holds the new  *)
(* page and every page the old word held.                                  *)
LEMMA WidenedFacts ==
  ASSUME NEW w \in Words, NEW p \in GuestPages, RangeOK(w), SpanFits,
         ~(w.len # 0 /\ InRange(p, w))
  PROVE  /\ Widened(w, p) \in Words
         /\ RangeOK(Widened(w, p))
         /\ InRange(p, Widened(w, p))
         /\ \A q \in GuestPages : InRange(q, w) => InRange(q, Widened(w, p))
<1> USE NPagesAssumption, FieldSizeAssumption
<1>1. CASE w.len = 0
  <2>1. w.lo = 0
    BY <1>1 DEF RangeOK, EmptyRange
  <2>2. Widened(w, p) = [lo |-> SatPred(p), len |-> 2]
    BY <1>1, SpanFits DEF Widened, Pack, SpanFits, GuestPages, SatPred
  <2> QED
    BY <1>1, <2>1, <2>2 DEF Words, RangeOK, InRange, SatPred, GuestPages, SpanFits, EmptyRange
<1>2. CASE w.len # 0
  <2>1. /\ w.lo \in Nat /\ w.len \in Nat /\ w.len >= 2
        /\ w.lo = 0 => w.len <= NPages + 1
        /\ w.lo > 0 => w.lo + w.len <= NPages
    BY <1>2 DEF RangeOK, EmptyRange, Words
  <2>2. p < w.lo \/ p >= w.lo + w.len
    BY <1>2, <2>1 DEF InRange, GuestPages
  <2> DEFINE nlo == Least(w.lo + 1, p)
             nhi == Greatest(w.lo + w.len - 1, p)
  <2>3. nlo \in Nat /\ nhi \in Nat /\ nlo <= nhi /\ nhi - nlo + 2 < FieldSize
    BY <2>1, <2>2 DEF Least, Greatest, GuestPages, SpanFits
  <2>4. Widened(w, p) = [lo |-> SatPred(nlo), len |-> nhi - nlo + 2]
    BY <1>2, <2>3 DEF Widened, Pack
  <2>5. CASE p < w.lo
    <3>1. nlo = p /\ nhi = w.lo + w.len - 1
      BY <2>1, <2>5 DEF Least, Greatest, GuestPages
    <3> QED
      BY <2>1, <2>3, <2>4, <2>5, <3>1
      DEF Words, RangeOK, InRange, SatPred, GuestPages, SpanFits, EmptyRange
  <2>6. CASE p >= w.lo + w.len
    <3>1. nlo = w.lo + 1 /\ nhi = p
      BY <2>1, <2>6 DEF Least, Greatest, GuestPages
    <3> QED
      BY <2>1, <2>3, <2>4, <2>6, <3>1
      DEF Words, RangeOK, InRange, SatPred, GuestPages, SpanFits, EmptyRange
  <2> QED
    BY <2>2, <2>5, <2>6
<1> QED
  BY <1>1, <1>2

(* When the loop stops without a store, the page is in the word it loaded. *)
LEMMA SettledInRange ==
  ASSUME NEW w \in Words, NEW p \in GuestPages, RangeOK(w), SpanFits, Settled(w, p)
  PROVE  InRange(p, w)
BY WidenedFacts DEF Settled

LEMMA RangeInitInv == RangeInit => RangeInv
BY NPagesAssumption, FieldSizeAssumption
DEF RangeInit, RangeInv, RangeTypeOK, RangeOK, SeenIsBehind, CodePagesCovered, Marked, EmptyRange,
    Words, InRange, GuestPages

(* The inductive step, one case per operation of the watermark.            *)
LEMMA RangeNextInv ==
  ASSUME SpanFits, RangeInv, [RangeNext]_rangeVars
  PROVE  RangeInv'
<1> USE NPagesAssumption, FieldSizeAssumption, NoPageAssumption
<1> SUFFICES ASSUME RangeNext
             PROVE  RangeInv'
  BY DEF RangeInv, RangeTypeOK, RangeOK, SeenIsBehind, CodePagesCovered, Marked, rangeVars
<1>1. ASSUME NEW m \in Markers, NEW p \in GuestPages, MarkCode(m, p)
      PROVE  RangeInv'
  <2>1. RangeTypeOK' /\ RangeOK(code_range')
    BY <1>1 DEF RangeInv, RangeTypeOK, MarkCode
  <2>2. \A n \in Markers : seen'[n] = IF n = m THEN code_range ELSE seen[n]
    BY <1>1 DEF RangeInv, RangeTypeOK, MarkCode
  <2>3. SeenIsBehind' /\ \A n \in Markers : RangeOK(seen'[n])
    BY <1>1, <2>2 DEF RangeInv, SeenIsBehind, MarkCode
  <2>4. \A q \in GuestPages : Marked(q)' => Marked(q)
    BY <1>1 DEF RangeInv, RangeTypeOK, Marked, MarkCode, GuestPages
  <2>5. CodePagesCovered'
    BY <1>1, <2>4 DEF RangeInv, CodePagesCovered, MarkCode
  <2> QED
    BY <2>1, <2>3, <2>5 DEF RangeInv
<1>2. ASSUME NEW m \in Markers, WidenSettled(m)
      PROVE  RangeInv'
  <2>1. mark[m] \in GuestPages /\ seen[m] \in Words /\ RangeOK(seen[m])
    BY <1>2 DEF WidenSettled, RangeInv, RangeTypeOK
  <2>2. InRange(mark[m], seen[m])
    BY <1>2, <2>1, SettledInRange DEF WidenSettled
  <2>3. InRange(mark[m], code_range)
    BY <2>1, <2>2 DEF RangeInv, SeenIsBehind
  <2>4. CodePagesCovered'
    BY <1>2, <2>3 DEF WidenSettled, RangeInv, RangeTypeOK, CodePagesCovered, Marked
  <2> QED
    BY <1>2, <2>4 DEF WidenSettled, RangeInv, RangeTypeOK, SeenIsBehind
<1>3. ASSUME NEW m \in Markers, WidenSwap(m)
      PROVE  RangeInv'
  <2>1. /\ mark[m] \in GuestPages /\ code_range \in Words /\ RangeOK(code_range)
        /\ ~(code_range.len # 0 /\ InRange(mark[m], code_range))
        /\ code_range' = Widened(code_range, mark[m])
    BY <1>3 DEF WidenSwap, RangeInv, RangeTypeOK, Settled
  <2>2. /\ code_range' \in Words
        /\ RangeOK(code_range')
        /\ InRange(mark[m], code_range')
        /\ \A q \in GuestPages : InRange(q, code_range) => InRange(q, code_range')
    BY <2>1, WidenedFacts
  <2>3. CodePagesCovered'
    BY <1>3, <2>2 DEF WidenSwap, RangeInv, RangeTypeOK, CodePagesCovered, Marked
  <2>4. SeenIsBehind'
    BY <1>3, <2>2 DEF WidenSwap, RangeInv, SeenIsBehind
  <2> QED
    BY <1>3, <2>2, <2>3, <2>4 DEF WidenSwap, RangeInv, RangeTypeOK
<1>4. ASSUME NEW m \in Markers, WidenRetry(m)
      PROVE  RangeInv'
  BY <1>4 DEF RangeInv, RangeTypeOK, RangeOK, SeenIsBehind, CodePagesCovered, Marked, WidenRetry
<1>5. ASSUME NEW p \in GuestPages, ClearCodePage(p)
      PROVE  RangeInv'
  BY <1>5 DEF RangeInv, RangeTypeOK, RangeOK, SeenIsBehind, CodePagesCovered, Marked, ClearCodePage
<1>6. ASSUME ClearAllCodePages
      PROVE  RangeInv'
  BY <1>6 DEF RangeInv, RangeTypeOK, RangeOK, SeenIsBehind, CodePagesCovered, Marked, ClearAllCodePages
<1> QED
  BY <1>1, <1>2, <1>3, <1>4, <1>5, <1>6 DEF RangeNext

(* In every reachable state a store that starts in a page whose mark_code  *)
(* has returned passes the gate of generated code.                         *)
THEOREM MarkedPagesAreCovered == SpanFits => (RangeSpec => []CodePagesCovered)
<1> SUFFICES ASSUME SpanFits
             PROVE  RangeSpec => []CodePagesCovered
  OBVIOUS
<1>1. RangeInv => CodePagesCovered
  BY DEF RangeInv
<1>2. RangeInv /\ [RangeNext]_rangeVars => RangeInv'
  BY RangeNextInv
<1> QED
  BY RangeInitInv, <1>1, <1>2, PTL DEF RangeSpec

(* widen_code_range only ever widens: no step of any thread narrows the    *)
(* word, so a concurrent mark_code is never undone.                        *)
THEOREM WatermarkOnlyWidens == SpanFits => (RangeSpec => RangeOnlyWidens)
<1> SUFFICES ASSUME SpanFits
             PROVE  RangeSpec => RangeOnlyWidens
  OBVIOUS
<1>1. ASSUME RangeInv, [RangeNext]_rangeVars
      PROVE  [\A p \in GuestPages : InRange(p, code_range) => InRange(p, code_range')]_rangeVars
  <2>1. ASSUME NEW m \in Markers, WidenSwap(m)
        PROVE  \A p \in GuestPages : InRange(p, code_range) => InRange(p, code_range')
    BY <1>1, <2>1, WidenedFacts, NoPageAssumption DEF WidenSwap, RangeInv, RangeTypeOK, Settled
  <2> QED
    BY <1>1, <2>1
    DEF RangeNext, rangeVars, MarkCode, WidenSettled, WidenRetry, ClearCodePage, ClearAllCodePages
<1>2. RangeInv /\ [RangeNext]_rangeVars => RangeInv'
  BY RangeNextInv
<1> QED
  BY RangeInitInv, <1>1, <1>2, PTL DEF RangeSpec, RangeOnlyWidens
=============================================================================
