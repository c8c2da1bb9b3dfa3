-------------------------------- MODULE Smc --------------------------------
(***************************************************************************)
(* Self-modifying code across vcpus: the translation cache (cache.rs), the *)
(* code-page tags and the dirty list of guest memory (memory.rs), and the  *)
(* dispatcher loop of every vcpu (vm.rs: handle_smc, resolve, run_inner)   *)
(* with the three shortcuts past the cache: link slots of direct edges,    *)
(* IBTC descriptors of indirect edges and the vcpu-private fast-resolve    *)
(* cache.                                                                  *)
(*                                                                         *)
(* Guest bytes are a version number per page.  A translation remembers the *)
(* versions it was lifted from; where a block ends depends on its bytes,   *)
(* so its span is a function (Shape) of the version of its first page.     *)
(* One step of a thread makes at most one access to shared state, except   *)
(* where the code holds the spans and map write locks across several.      *)
(***************************************************************************)
EXTENDS Integers, FiniteSets

CONSTANTS
  Vcpus,      \* vcpus, each on its own host thread
  Embedders,  \* other host threads that write guest memory (write_bytes)
  Pages,      \* guest pages
  Keys,       \* entry addresses of translations (BlockKey)
  Home,       \* key -> the page its first byte is in
  Shape,      \* key -> version of the home page -> pages its block spans
  Storers,    \* the vcpus whose guest code stores
  Stores,     \* the page sets one store may touch
  MaxWrites,  \* bound: stores to a page in a behaviour
  Tiering,    \* Vm::tier_up_after is set: blocks start interpreted
  Cap,        \* IBTC_MEGAMORPHIC_CAP
  None

ASSUME BoundAssumption == MaxWrites \in Nat /\ Cap \in Nat
ASSUME TieringAssumption == Tiering \in BOOLEAN
ASSUME HomeAssumption == Home \in [Keys -> Pages]
ASSUME ShapeAssumption ==
  /\ Shape \in [Keys -> [0 .. MaxWrites -> SUBSET Pages]]
  /\ \A k \in Keys, n \in 0 .. MaxWrites : Home[k] \in Shape[k][n]
ASSUME StoresAssumption == Stores \subseteq SUBSET Pages /\ Storers \subseteq Vcpus

Threads == Vcpus \cup Embedders

Versions == 0 .. MaxWrites

(* A translation (CachedBlock with its spans): comp is TRUE for compiled   *)
(* code, FALSE for IR the interpreter runs.  late is history: the unit was *)
(* already out of date, with the write past its report, when inserted.     *)
Units ==
  [key : Keys, span : SUBSET Pages, seen : [Pages -> Versions], comp : BOOLEAN,
   late : BOOLEAN]

ASSUME NoneAssumption == None \notin Units

VARIABLES
  ver,        \* page -> version of its bytes
  tag,        \* tagged pages (Memory::code_page)
  dirty,      \* code pages written since the last drain (Memory::dirty)
  dirty_flag, \* Memory::dirty_flag
  map,        \* key -> cached unit or None (map and spans, in lockstep)
  epoch,      \* TranslationCache::epoch
  link,       \* key -> entry in the link slot of a direct edge to it, or None
  ibtc,       \* entry in the descriptor of the indirect site, or None
  noting,     \* thread -> pages its store still has to report (note_write)
  flagging,   \* thread -> it pushed a dirty page and has not set the flag yet
  pc,         \* vcpu -> where it is in run_inner
  ret,        \* vcpu -> the call of resolve it is in: "outer", "link", "ibtc"
  rip,        \* vcpu -> the key it goes to next
  cur,        \* vcpu -> the unit in hand
  since,      \* vcpu -> since_epoch of a RET_LINK or RET_IBTC_MISS
  snap,       \* vcpu -> the epoch resolve read before its lookup
  todo,       \* vcpu -> drained dirty pages not yet invalidated
  owes,       \* vcpu -> handle_smc dropped a unit: invalidate_links is due
  fast,       \* vcpu -> key -> entry of the fast-resolve cache or None
  fast_epoch, \* vcpu -> epoch the fast-resolve cache was last flushed at
  refills     \* vcpu -> descriptors it published for the indirect site

memory == <<ver, tag, dirty, dirty_flag>>
cache == <<map, epoch>>
slots == <<link, ibtc>>
store == <<noting, flagging>>
private == <<fast, fast_epoch, refills>>
dispatch == <<ret, rip, cur, since, snap>>
smc == <<todo, owes>>
vars == <<memory, cache, slots, store, pc, dispatch, smc, private>>

(* A write to the page is on its way to an invalidation.                   *)
Pending(p) ==
  \/ \E t \in Threads : p \in noting[t]
  \/ p \in dirty
  \/ \E v \in Vcpus : p \in todo[v]

(* The unit was translated from bytes that have changed since.             *)
OutOfDate(u) == \E p \in u.span : u.seen[p] # ver[p]

Unnoticed(u) == \E p \in u.span : u.seen[p] # ver[p] /\ ~Pending(p)

Goto(v, l) == pc' = [pc EXCEPT ![v] = l]

(* A thread between a store's bytes and the end of its note_write does     *)
(* nothing else.                                                           *)
Quiet(t) == noting[t] = {} /\ ~flagging[t]
-----------------------------------------------------------------------------
Init ==
  /\ ver = [p \in Pages |-> 0]
  /\ tag = {} /\ dirty = {} /\ dirty_flag = FALSE
  /\ map = [k \in Keys |-> None] /\ epoch = 0
  /\ link = [k \in Keys |-> None] /\ ibtc = None
  /\ noting = [t \in Threads |-> {}] /\ flagging = [t \in Threads |-> FALSE]
  /\ pc = [v \in Vcpus |-> "smc"]
  /\ ret = [v \in Vcpus |-> "outer"]
  /\ rip \in [Vcpus -> Keys]
  /\ cur = [v \in Vcpus |-> None]
  /\ since = [v \in Vcpus |-> 0] /\ snap = [v \in Vcpus |-> 0]
  /\ todo = [v \in Vcpus |-> {}] /\ owes = [v \in Vcpus |-> FALSE]
  /\ fast = [v \in Vcpus |-> [k \in Keys |-> None]]
  /\ fast_epoch = [v \in Vcpus |-> 0]
  /\ refills = [v \in Vcpus |-> 0]
-----------------------------------------------------------------------------
(* Memory::write, write_bytes and inlined stores: the bytes first.         *)
WriteBytes(t, S) ==
  /\ Quiet(t)
  /\ \A p \in S : ver[p] < MaxWrites
  /\ ver' = [p \in Pages |-> IF p \in S THEN ver[p] + 1 ELSE ver[p]]
  /\ noting' = [noting EXCEPT ![t] = S]
  /\ UNCHANGED <<tag, dirty, dirty_flag, cache, slots, flagging, pc, dispatch, smc, private>>

(* note_write, one page: a tagged page joins the dirty list (under its     *)
(* lock; a page pushed twice is one element here).                         *)
NotePage(t, p) ==
  /\ p \in noting[t] /\ ~flagging[t]
  /\ noting' = [noting EXCEPT ![t] = @ \ {p}]
  /\ dirty' = IF p \in tag THEN dirty \cup {p} ELSE dirty
  /\ flagging' = [flagging EXCEPT ![t] = p \in tag]
  /\ UNCHANGED <<ver, tag, dirty_flag, cache, slots, pc, dispatch, smc, private>>

(* note_write, the flag that lets the dispatcher skip the lock.            *)
NoteFlag(t) ==
  /\ flagging[t]
  /\ flagging' = [flagging EXCEPT ![t] = FALSE]
  /\ dirty_flag' = TRUE
  /\ UNCHANGED <<ver, tag, dirty, cache, slots, noting, pc, dispatch, smc, private>>

(* An embedder thread writes guest memory whenever it likes; a vcpu stores *)
(* only while it executes a block.                                         *)
EmbedderWrite(t, S) == t \in Embedders /\ WriteBytes(t, S)

GuestStore(v, S) == pc[v] \in {"interp", "exec"} /\ WriteBytes(v, S)
-----------------------------------------------------------------------------
(* take_dirty_code, first look at the flag: a plain load.                  *)
SmcLoad(v) ==
  /\ pc[v] = "smc"
  /\ Goto(v, IF dirty_flag THEN "claim" ELSE "sync")
  /\ UNCHANGED <<memory, cache, slots, store, dispatch, smc, private>>

(* take_dirty_code, the swap: another vcpu may have claimed it already.    *)
SmcClaim(v) ==
  /\ pc[v] = "claim"
  /\ dirty_flag' = FALSE
  /\ Goto(v, IF dirty_flag THEN "take" ELSE "sync")
  /\ UNCHANGED <<ver, tag, dirty, cache, slots, store, dispatch, smc, private>>

(* take_dirty_code, mem::take of the list.                                 *)
SmcTake(v) ==
  /\ pc[v] = "take"
  /\ todo' = [todo EXCEPT ![v] = dirty]
  /\ dirty' = {}
  /\ owes' = [owes EXCEPT ![v] = FALSE]
  /\ Goto(v, "drop")
  /\ UNCHANGED <<ver, tag, dirty_flag, cache, slots, store, dispatch, private>>

(* Mutant: only units that begin on the page are found.                    *)
VictimsByEntry(p) == {k \in Keys : map[k] # None /\ Home[k] = p}

(* The units invalidate_overlapping drops for a page.                      *)
Victims(p) == {k \in Keys : map[k] # None /\ p \in map[k].span}

(* invalidate_overlapping for one drained page, all under the spans and    *)
(* map locks: drop the victims, clear the tag, move the epoch if any.      *)
SmcDrop(v, p) ==
  /\ pc[v] = "drop" /\ p \in todo[v]
  /\ todo' = [todo EXCEPT ![v] = @ \ {p}]
  /\ map' = [k \in Keys |-> IF k \in Victims(p) THEN None ELSE map[k]]
  /\ tag' = tag \ {p}
  /\ epoch' = IF Victims(p) = {} THEN epoch ELSE epoch + 1
  /\ owes' = [owes EXCEPT ![v] = @ \/ Victims(p) # {}]
  /\ UNCHANGED <<ver, dirty, dirty_flag, slots, store, pc, dispatch, private>>

(* Mutant: the flag is lowered once the drained pages are done.            *)
SmcDroppedLowersFlag(v) ==
  /\ pc[v] = "drop" /\ todo[v] = {}
  /\ dirty_flag' = FALSE
  /\ Goto(v, IF owes[v] THEN "unlink" ELSE "sync")
  /\ UNCHANGED <<ver, tag, dirty, cache, slots, store, dispatch, smc, private>>

(* handle_smc, after its loop: invalidate_links only if a unit was dropped.*)
SmcDropped(v) ==
  /\ pc[v] = "drop" /\ todo[v] = {}
  /\ Goto(v, IF owes[v] THEN "unlink" ELSE "sync")
  /\ UNCHANGED <<memory, cache, slots, store, dispatch, smc, private>>

(* JitBackend::invalidate_links: zero every slot.                          *)
SmcUnlink(v) ==
  /\ pc[v] = "unlink"
  /\ link' = [k \in Keys |-> None] /\ ibtc' = None
  /\ owes' = [owes EXCEPT ![v] = FALSE]
  /\ Goto(v, "sync")
  /\ UNCHANGED <<memory, cache, store, dispatch, todo, private>>
-----------------------------------------------------------------------------
NoFast == [k \in Keys |-> None]

(* Mutant: the new epoch is recorded, the entries stay.                    *)
SyncWithoutFlush(v) ==
  /\ pc[v] = "sync"
  /\ fast_epoch' = [fast_epoch EXCEPT ![v] = epoch]
  /\ LET hit == fast[v][rip[v]] # None
     IN  /\ cur' = IF hit THEN [cur EXCEPT ![v] = fast[v][rip[v]]] ELSE cur
         /\ ret' = IF hit THEN ret ELSE [ret EXCEPT ![v] = "outer"]
         /\ Goto(v, IF hit THEN "chain" ELSE "snap")
  /\ UNCHANGED <<memory, cache, slots, store, rip, since, snap, smc, fast, refills>>

(* run_inner: flush the fast-resolve cache if the epoch moved, then probe  *)
(* it.  A hit is compiled code; a miss goes to resolve.                    *)
SyncAndProbe(v) ==
  LET probe == IF epoch # fast_epoch[v] THEN NoFast ELSE fast[v]
  IN  /\ pc[v] = "sync"
      /\ fast' = [fast EXCEPT ![v] = probe]
      /\ fast_epoch' = [fast_epoch EXCEPT ![v] = epoch]
      /\ IF probe[rip[v]] # None
         THEN /\ cur' = [cur EXCEPT ![v] = probe[rip[v]]]
              /\ Goto(v, "chain")
              /\ UNCHANGED ret
         ELSE /\ ret' = [ret EXCEPT ![v] = "outer"]
              /\ Goto(v, "snap")
              /\ UNCHANGED cur
      /\ UNCHANGED <<memory, cache, slots, store, rip, since, snap, smc, refills>>

(* What the caller of resolve does with the unit it gets.  Compiled: the   *)
(* outer loop and the IBTC miss keep it in the fast-resolve cache, a link  *)
(* or IBTC miss goes on to publish it.  Interpreted: the outer loop runs   *)
(* it, a chain falls back to the outer loop.                               *)
Return(v, u) ==
  /\ cur' = [cur EXCEPT ![v] = u]
  /\ fast' = IF u.comp /\ ret[v] # "link"
             THEN [fast EXCEPT ![v][rip[v]] = u] ELSE fast
  /\ Goto(v, IF ret[v] = "outer" THEN IF u.comp THEN "chain" ELSE "interp"
             ELSE IF u.comp THEN "publish" ELSE "smc")
  /\ UNCHANGED <<ret, rip, since, snap, fast_epoch, refills>>

(* resolve: read the epoch before the lookup.                              *)
ResolveSnap(v) ==
  /\ pc[v] = "snap"
  /\ snap' = [snap EXCEPT ![v] = epoch]
  /\ Goto(v, "get")
  /\ UNCHANGED <<memory, cache, slots, store, ret, rip, cur, since, smc, private>>

(* resolve: the lookup hits, and the unit is compiled or not hot yet.      *)
ResolveHit(v) ==
  /\ pc[v] = "get" /\ map[rip[v]] # None
  /\ Return(v, map[rip[v]])
  /\ UNCHANGED <<memory, cache, slots, store, smc>>

(* resolve: the lookup hits an interpreted unit that has become hot; it is *)
(* compiled from its IR, outside any lock.                                 *)
ResolveHot(v) ==
  /\ pc[v] = "get" /\ map[rip[v]] # None
  /\ Tiering /\ ~map[rip[v]].comp
  /\ cur' = [cur EXCEPT ![v] = [map[rip[v]] EXCEPT !.comp = TRUE]]
  /\ Goto(v, "upgrade")
  /\ UNCHANGED <<memory, cache, slots, store, ret, rip, since, snap, smc, private>>

(* Mutant: the compiled unit is installed at whatever epoch.               *)
UpgradeAlways(v) ==
  /\ pc[v] = "upgrade"
  /\ map' = [map EXCEPT ![rip[v]] = cur[v]]
  /\ Return(v, cur[v])
  /\ UNCHANGED <<memory, epoch, slots, store, smc>>

(* TranslationCache::upgrade: publish only at the epoch read before the    *)
(* lookup, else start over.  The pages are not tagged again.               *)
ResolveUpgrade(v) ==
  /\ pc[v] = "upgrade"
  /\ IF epoch = snap[v]
     THEN /\ map' = [map EXCEPT ![rip[v]] = cur[v]]
          /\ Return(v, cur[v])
     ELSE /\ Goto(v, "snap")
          /\ UNCHANGED <<map, dispatch, private>>
  /\ UNCHANGED <<memory, epoch, slots, store, smc>>

(* resolve: the lookup misses.                                             *)
ResolveMiss(v) ==
  /\ pc[v] = "get" /\ map[rip[v]] = None
  /\ Goto(v, "lift")
  /\ UNCHANGED <<memory, cache, slots, store, dispatch, smc, private>>

(* The unit lift_block makes of the bytes as they are now.                 *)
Lifted(k) ==
  LET S == Shape[k][ver[Home[k]]]
  IN  [key |-> k, span |-> S, comp |-> ~Tiering, late |-> FALSE,
       seen |-> [p \in Pages |-> IF p \in S THEN ver[p] ELSE 0]]

(* resolve: a miss lifts and, unless blocks start interpreted, compiles.   *)
ResolveLift(v) ==
  /\ pc[v] = "lift"
  /\ cur' = [cur EXCEPT ![v] = Lifted(rip[v])]
  /\ Goto(v, "insert")
  /\ UNCHANGED <<memory, cache, slots, store, ret, rip, since, snap, smc, private>>

(* TranslationCache::insert under the spans lock: tag the pages (on_mark), *)
(* cache the unit.  Nothing is compared with the epoch or the bytes.       *)
ResolveInsert(v) ==
  /\ pc[v] = "insert"
  /\ tag' = tag \cup cur[v].span
  /\ LET u == [cur[v] EXCEPT !.late = Unnoticed(cur[v])]
     IN  map' = [map EXCEPT ![rip[v]] = u] /\ Return(v, u)
  /\ UNCHANGED <<ver, dirty, dirty_flag, epoch, slots, store, smc>>
-----------------------------------------------------------------------------
(* Mutant: the chain is followed whatever is pending.                      *)
ChainAlways(v) ==
  /\ pc[v] = "chain"
  /\ Goto(v, "exec")
  /\ UNCHANGED <<memory, cache, slots, store, dispatch, smc, private>>

(* run_inner, top of the chain loop: pending SMC work ends the chain, else *)
(* call the compiled block.                                                *)
ChainCheck(v) ==
  /\ pc[v] = "chain"
  /\ Goto(v, IF dirty_flag THEN "smc" ELSE "exec")
  /\ UNCHANGED <<memory, cache, slots, store, dispatch, smc, private>>

(* A block ends and execution goes back to the outer loop: an interpreted  *)
(* block, RET_CONTINUE, an exit of run() that is entered again.            *)
ExitToOuter(v, k) ==
  /\ pc[v] \in {"interp", "exec"} /\ Quiet(v)
  /\ rip' = [rip EXCEPT ![v] = k]
  /\ Goto(v, "smc")
  /\ UNCHANGED <<memory, cache, slots, store, ret, cur, since, snap, smc, private>>

(* A compiled block ends in an edge whose slot leads on (RET_CHAIN): a     *)
(* link slot, or an IBTC descriptor for the computed target.               *)
ExitChain(v, u) ==
  /\ pc[v] = "exec" /\ Quiet(v)
  /\ rip' = [rip EXCEPT ![v] = u.key]
  /\ cur' = [cur EXCEPT ![v] = u]
  /\ Goto(v, "chain")
  /\ UNCHANGED <<memory, cache, slots, store, ret, since, snap, smc, private>>

FollowLink(v, k) == link[k] # None /\ ExitChain(v, link[k])

FollowIbtc(v) == ibtc # None /\ ExitChain(v, ibtc)

(* An edge whose slot does not lead on: RET_LINK or RET_IBTC_MISS.         *)
ExitMiss(v, k, kind) ==
  /\ pc[v] = "exec" /\ Quiet(v)
  /\ IF kind = "link" THEN link[k] = None ELSE ~(ibtc # None /\ ibtc.key = k)
  /\ rip' = [rip EXCEPT ![v] = k]
  /\ ret' = [ret EXCEPT ![v] = kind]
  /\ Goto(v, "since")
  /\ UNCHANGED <<memory, cache, slots, store, cur, since, snap, smc, private>>

(* Snapshot before resolving.  The IBTC miss probes the fast-resolve cache *)
(* first; nothing compares the cache with the epoch here.                  *)
SinceSnap(v) ==
  LET probe == IF ret[v] = "ibtc" THEN fast[v][rip[v]] ELSE None
  IN  /\ pc[v] = "since"
      /\ since' = [since EXCEPT ![v] = epoch]
      /\ cur' = IF probe = None THEN cur ELSE [cur EXCEPT ![v] = probe]
      /\ Goto(v, IF probe = None THEN "snap" ELSE "publish")
      /\ UNCHANGED <<memory, cache, slots, store, ret, rip, snap, smc, private>>

(* Mutant: the link slot is stored at whatever epoch.                      *)
PublishLinkAlways(v) ==
  /\ pc[v] = "publish" /\ ret[v] = "link"
  /\ link' = [link EXCEPT ![rip[v]] = cur[v]]
  /\ fast' = [fast EXCEPT ![v][rip[v]] = cur[v]]
  /\ Goto(v, "chain")
  /\ UNCHANGED <<memory, cache, ibtc, store, dispatch, smc, fast_epoch, refills>>

(* publish_if_current of a link slot, then the fast-resolve cache.         *)
PublishLink(v) ==
  /\ pc[v] = "publish" /\ ret[v] = "link"
  /\ IF epoch = since[v]
     THEN /\ link' = [link EXCEPT ![rip[v]] = cur[v]]
          /\ fast' = [fast EXCEPT ![v][rip[v]] = cur[v]]
          /\ Goto(v, "chain")
     ELSE /\ Goto(v, "smc")
          /\ UNCHANGED <<link, fast>>
  /\ UNCHANGED <<memory, cache, ibtc, store, dispatch, smc, fast_epoch, refills>>

(* publish_if_current of an IBTC descriptor; a megamorphic site is left    *)
(* alone and the transfer goes ahead without a comparison.                 *)
PublishIbtc(v) ==
  /\ pc[v] = "publish" /\ ret[v] = "ibtc"
  /\ IF refills[v] = Cap
     THEN /\ Goto(v, "chain")
          /\ UNCHANGED <<ibtc, refills>>
     ELSE /\ refills' = [refills EXCEPT ![v] = @ + 1]
          /\ IF epoch = since[v]
             THEN ibtc' = cur[v] /\ Goto(v, "chain")
             ELSE Goto(v, "smc") /\ UNCHANGED ibtc
  /\ UNCHANGED <<memory, cache, link, store, dispatch, smc, fast, fast_epoch>>
-----------------------------------------------------------------------------
HandleSmc(v) ==
  \/ SmcLoad(v) \/ SmcClaim(v) \/ SmcTake(v) \/ SmcDropped(v) \/ SmcUnlink(v)
  \/ \E p \in Pages : SmcDrop(v, p)

Resolve(v) ==
  \/ ResolveSnap(v) \/ ResolveHit(v) \/ ResolveHot(v) \/ ResolveUpgrade(v)
  \/ ResolveMiss(v) \/ ResolveLift(v) \/ ResolveInsert(v)

Exec(v) ==
  \/ \E k \in Keys : ExitToOuter(v, k) \/ FollowLink(v, k)
  \/ FollowIbtc(v)
  \/ \E k \in Keys, kind \in {"link", "ibtc"} : ExitMiss(v, k, kind)

Note(t) == NoteFlag(t) \/ \E p \in Pages : NotePage(t, p)

Vcpu(v) ==
  \/ HandleSmc(v) \/ SyncAndProbe(v) \/ Resolve(v) \/ ChainCheck(v) \/ Exec(v)
  \/ SinceSnap(v) \/ PublishLink(v) \/ PublishIbtc(v)

Next ==
  \/ \E v \in Vcpus : Vcpu(v) \/ (v \in Storers /\ \E S \in Stores : GuestStore(v, S))
  \/ \E t \in Threads : Note(t)
  \/ \E t \in Embedders, S \in Stores : EmbedderWrite(t, S)

Spec == Init /\ [][Next]_vars

(* A host thread inside run() or inside a write keeps running.             *)
FairSpec ==
  /\ Spec
  /\ \A v \in Vcpus : WF_vars(Vcpu(v))
  /\ \A t \in Threads : WF_vars(Note(t))
-----------------------------------------------------------------------------
Labels ==
  {"smc", "claim", "take", "drop", "unlink", "sync", "snap", "get", "upgrade", "lift",
   "insert", "interp", "chain", "exec", "since", "publish"}

(* Types of the shared and the per-vcpu state.                             *)
TypeOK ==
  /\ ver \in [Pages -> Versions]
  /\ tag \subseteq Pages /\ dirty \subseteq Pages /\ dirty_flag \in BOOLEAN
  /\ map \in [Keys -> Units \cup {None}] /\ epoch \in Nat
  /\ link \in [Keys -> Units \cup {None}] /\ ibtc \in Units \cup {None}
  /\ noting \in [Threads -> SUBSET Pages] /\ flagging \in [Threads -> BOOLEAN]
  /\ pc \in [Vcpus -> Labels]
  /\ ret \in [Vcpus -> {"outer", "link", "ibtc"}]
  /\ rip \in [Vcpus -> Keys]
  /\ cur \in [Vcpus -> Units \cup {None}]
  /\ since \in [Vcpus -> Nat] /\ snap \in [Vcpus -> Nat]
  /\ todo \in [Vcpus -> SUBSET Pages] /\ owes \in [Vcpus -> BOOLEAN]
  /\ fast \in [Vcpus -> [Keys -> Units \cup {None}]]
  /\ fast_epoch \in [Vcpus -> Nat]
  /\ refills \in [Vcpus -> 0 .. Cap]

(* take_dirty_code against note_write: a dirty page is never stranded on   *)
(* the list with the flag down; while the flag is down, the thread that    *)
(* pushed it is about to raise it, or a vcpu that swapped it is about to   *)
(* take the list.                                                          *)
DirtyIsAnnounced ==
  dirty # {} =>
    \/ dirty_flag
    \/ \E t \in Threads : flagging[t]
    \/ \E v \in Vcpus : pc[v] = "take"

(* "No live block's page is ever left cleared" (invalidate_overlapping     *)
(* against insert and upgrade): every page of every cached unit is tagged, *)
(* so a store there is noticed.                                            *)
TagsCoverUnits == \A k \in Keys : map[k] # None => map[k].span \subseteq tag

(* A cached unit whose bytes have been rewritten is on its way out: the    *)
(* page is being reported, is on the dirty list or is about to be          *)
(* invalidated.  Only a unit that raced with a write on insertion (see     *)
(* SmcLiftRace.cfg) is exempt.                                             *)
OutOfDateIsPending ==
  \A k \in Keys : map[k] # None /\ Unnoticed(map[k]) => map[k].late

(* publish_if_current for direct edges: a link slot leads to a key that is *)
(* cached, or the vcpu that dropped it has still to zero the slots.        *)
LinksAreCurrent ==
  \A k \in Keys : link[k] # None => map[k] # None \/ \E v \in Vcpus : owes[v]

(* The epoch as the coherence channel of the fast-resolve cache: at the    *)
(* epoch it was flushed at it holds only cached keys.                      *)
FastIsCurrent ==
  \A v \in Vcpus, k \in Keys :
    fast[v][k] # None /\ fast_epoch[v] = epoch => map[k] # None

(* run_inner breaks a chain on pending SMC work: no transfer of a vcpu     *)
(* that patches code, dispatched or chained, enters a translation of bytes *)
(* it has rewritten.  It holds with one vcpu and fails with two (see       *)
(* SmcOwnPatch.cfg).                                                       *)
EntersFresh ==
  [][\A v \in Storers :
       pc'[v] \in {"exec", "interp"} /\ pc'[v] # pc[v] => ~OutOfDate(cur'[v])]_vars

(* Self-modification takes effect: a cached unit of rewritten bytes does   *)
(* not stay in the cache as long as vcpus keep running.                    *)
OutOfDateIsDropped ==
  \A k \in Keys :
    map[k] # None /\ OutOfDate(map[k]) /\ ~map[k].late
      ~> map[k] = None \/ ~OutOfDate(map[k])

(* cache.rs: "An entry resolved before an invalidation must NOT be         *)
(* published after it": an IBTC descriptor leads to a cached key, or the   *)
(* vcpu that dropped it has still to zero the slots.                       *)
IbtcIsCurrent == ibtc # None => map[ibtc.key] # None \/ \E v \in Vcpus : owes[v]

(* vm.rs: a dropped block is re-lifted from fresh bytes: no cached unit is *)
(* out of date without an invalidation on its way.                         *)
NothingUnnoticed == \A k \in Keys : map[k] # None => ~Unnoticed(map[k])
=============================================================================
