------------------------------- MODULE TierUp -------------------------------
(***************************************************************************)
(* Background tier-up: vcpus that find a hot interpreted block submit it   *)
(* to the compile worker and keep interpreting; finished units are         *)
(* published on a later dispatch (vm.rs: resolve, drain_tier_up; cache.rs: *)
(* hotness, tier_pending, region_decision, upgrade_region; cranelift       *)
(* lib.rs: tier_up_async, worker_loop, wait_idle, pause_compiler, Drop).   *)
(*                                                                         *)
(* Every key has a page of its own and a page is named by its key.  What   *)
(* the module Smc splits into steps is one step here: a store with the     *)
(* handle_smc that follows it (Write), a lift with its insert (Relift).    *)
(***************************************************************************)
EXTENDS Integers, Sequences, FiniteSets

CONSTANTS
  Vcpus,
  Keys,       \* entry addresses, each on a page of its own
  Region,     \* key -> the pages its superblock spans
  Loop,       \* key -> version of its page -> lift_region finds a loop
  Caps,       \* the backend forms regions (region_caps)
  Thr, T2,    \* tier_up_after, tier_up_region_after
  QueueCap,   \* TIER_QUEUE_CAP
  MaxWrites,  \* bound: stores in a behaviour
  None

ASSUME ThrAssumption == Thr \in Nat /\ T2 \in Nat
ASSUME CapAssumption == QueueCap \in Nat \ {0} /\ MaxWrites \in Nat
ASSUME CapsAssumption == Caps \in BOOLEAN
ASSUME RegionAssumption ==
  /\ Region \in [Keys -> SUBSET Keys] /\ \A k \in Keys : k \in Region[k]
  /\ Loop \in [Keys -> [0 .. MaxWrites -> BOOLEAN]]

Units == [key : Keys, comp : BOOLEAN, span : SUBSET Keys, seen : [Keys -> Nat]]

ASSUME NoneAssumption == None \notin Units

VARIABLES
  ver, writes,    \* page -> version of its bytes; bound: stores so far
  tag,            \* tagged pages
  map,            \* key -> cached unit or None
  epoch,          \* TranslationCache::epoch
  hot,            \* key -> hotness, kept at Top once there
  decision,       \* key -> region_decision: None, TRUE or FALSE
  decided,        \* history: key -> version of the page it was decided on
  tier_pending,   \* keys with an in-flight marker
  items,          \* Queue::items
  outstanding,    \* Queue::outstanding
  paused,         \* Queue::paused
  shutdown,       \* Queue::shutdown
  done,           \* Shared::done (ready is its length)
  wpc, job,       \* the worker, and the request it compiles
  pc, rip,        \* vcpu -> where it is in resolve, and the key it resolves
  fin,            \* vcpu -> finished units it still has to publish
  snap, req,      \* vcpu -> the epoch it read, the unit it lifted
  waiter,         \* a thread in wait_idle: "out", "check", "asleep"
  owner           \* the thread that pauses the compiler and drops the backend

bytes == <<ver, writes, tag>>
cache == <<map, epoch, hot, decision, decided>>
queue == <<items, outstanding, paused, shutdown>>
worker == <<wpc, job>>
locals == <<rip, fin, snap, req>>
vars == <<bytes, cache, tier_pending, queue, done, worker, pc, locals, waiter, owner>>

(* The unit a lift makes of the bytes of some pages.                       *)
Unit(k, S, comp) ==
  [key |-> k, comp |-> comp, span |-> S,
   seen |-> [p \in Keys |-> IF p \in S THEN ver[p] ELSE 0]]

(* A count above both thresholds is as good as one at the higher of them.  *)
Top == IF Thr < T2 THEN T2 ELSE Thr

Fresh(u) == \A p \in u.span : u.seen[p] = ver[p]

HasKey(s, k) == \E i \in DOMAIN s : s[i].unit.key = k

(* A request for the key has not been published or rejected yet.           *)
InFlight(k) ==
  \/ HasKey(items, k)
  \/ wpc = "compile" /\ job.unit.key = k
  \/ HasKey(done, k)
  \/ \E v \in Vcpus : HasKey(fin[v], k)

Goto(v, l) == pc' = [pc EXCEPT ![v] = l]
-----------------------------------------------------------------------------
Init ==
  /\ ver = [k \in Keys |-> 0] /\ writes = 0 /\ tag = {}
  /\ map = [k \in Keys |-> None] /\ epoch = 0 /\ hot = [k \in Keys |-> 0]
  /\ decision = [k \in Keys |-> None] /\ decided = [k \in Keys |-> 0]
  /\ tier_pending = {}
  /\ items = <<>> /\ outstanding = 0 /\ paused = FALSE /\ shutdown = FALSE
  /\ done = <<>> /\ wpc = "unborn" /\ job = None
  /\ pc = [v \in Vcpus |-> "run"] /\ rip \in [Vcpus -> Keys]
  /\ fin = [v \in Vcpus |-> <<>>] /\ snap = [v \in Vcpus |-> 0]
  /\ req = [v \in Vcpus |-> None]
  /\ waiter = "out" /\ owner = "idle"
-----------------------------------------------------------------------------
(* The units invalidate_overlapping drops for a page.                      *)
Victims(p) == {k \in Keys : map[k] # None /\ p \in map[k].span}

(* A guest store and the invalidation it causes: unseen if the page is not *)
(* tagged, else invalidate_overlapping, which also drops the hotness and   *)
(* the in-flight markers of its victims.  region_decision is kept.         *)
Write(p) ==
  /\ writes < MaxWrites /\ ~shutdown
  /\ writes' = writes + 1
  /\ ver' = [ver EXCEPT ![p] = @ + 1]
  /\ LET V == IF p \in tag THEN Victims(p) ELSE {}
     IN  /\ map' = [k \in Keys |-> IF k \in V THEN None ELSE map[k]]
         /\ hot' = [k \in Keys |-> IF k \in V THEN 0 ELSE hot[k]]
         /\ tier_pending' = tier_pending \ V
         /\ epoch' = IF V = {} THEN epoch ELSE epoch + 1
  /\ tag' = tag \ {p}
  /\ UNCHANGED <<decision, decided, queue, done, worker, pc, locals, waiter, owner>>
-----------------------------------------------------------------------------
(* A block has run; resolve is called for the next one.                    *)
Dispatch(v, k) ==
  /\ pc[v] = "run" /\ ~shutdown
  /\ rip' = [rip EXCEPT ![v] = k]
  /\ Goto(v, "drain")
  /\ UNCHANGED <<bytes, cache, tier_pending, queue, done, worker, fin, snap, req,
                 waiter, owner>>

(* drain_tier_up: take what the worker has finished.                       *)
DrainTake(v) ==
  /\ pc[v] = "drain"
  /\ fin' = [fin EXCEPT ![v] = done]
  /\ done' = <<>>
  /\ Goto(v, "publish")
  /\ UNCHANGED <<bytes, cache, tier_pending, queue, worker, rip, snap, req, waiter, owner>>

(* Mutant: published at whatever epoch.                                    *)
DrainPublishAlways(v) ==
  /\ pc[v] = "publish" /\ fin[v] # <<>>
  /\ LET f == Head(fin[v])
     IN  /\ tag' = tag \cup f.unit.span
         /\ map' = [map EXCEPT ![f.unit.key] = f.unit]
         /\ hot' = [hot EXCEPT ![f.unit.key] = 0]
  /\ Goto(v, "end")
  /\ UNCHANGED <<ver, writes, epoch, decision, decided, tier_pending, queue, done,
                 worker, locals, waiter, owner>>

(* drain_tier_up: upgrade_region, unless a drop moved the epoch since the  *)
(* request was made.                                                       *)
DrainPublish(v) ==
  /\ pc[v] = "publish" /\ fin[v] # <<>>
  /\ LET f == Head(fin[v])
         current == epoch = f.epoch
     IN  /\ tag' = IF current THEN tag \cup f.unit.span ELSE tag
         /\ map' = IF current THEN [map EXCEPT ![f.unit.key] = f.unit] ELSE map
         /\ hot' = IF current THEN [hot EXCEPT ![f.unit.key] = 0] ELSE hot
  /\ Goto(v, "end")
  /\ UNCHANGED <<ver, writes, epoch, decision, decided, tier_pending, queue, done,
                 worker, locals, waiter, owner>>

(* Mutant: a rejected unit keeps its marker.                               *)
DrainEndIfPublished(v) ==
  /\ pc[v] = "end"
  /\ tier_pending' = IF Head(fin[v]).epoch = epoch
                     THEN tier_pending \ {Head(fin[v]).unit.key} ELSE tier_pending
  /\ fin' = [fin EXCEPT ![v] = Tail(@)]
  /\ Goto(v, "publish")
  /\ UNCHANGED <<bytes, cache, queue, done, worker, rip, snap, req, waiter, owner>>

(* drain_tier_up: end_tier_up, published or not.                           *)
DrainEnd(v) ==
  /\ pc[v] = "end"
  /\ tier_pending' = tier_pending \ {Head(fin[v]).unit.key}
  /\ fin' = [fin EXCEPT ![v] = Tail(@)]
  /\ Goto(v, "publish")
  /\ UNCHANGED <<bytes, cache, queue, done, worker, rip, snap, req, waiter, owner>>

(* resolve: the epoch, before the lookup.                                  *)
Snap(v) ==
  /\ pc[v] = "publish" /\ fin[v] = <<>>
  /\ snap' = [snap EXCEPT ![v] = epoch]
  /\ Goto(v, "get")
  /\ UNCHANGED <<bytes, cache, tier_pending, queue, done, worker, rip, fin, req,
                 waiter, owner>>

(* resolve, a miss: lift the block, insert it interpreted, run it.         *)
Relift(v) ==
  /\ pc[v] = "get" /\ map[rip[v]] = None
  /\ map' = [map EXCEPT ![rip[v]] = Unit(rip[v], {rip[v]}, FALSE)]
  /\ tag' = tag \cup {rip[v]}
  /\ Goto(v, "run")
  /\ UNCHANGED <<ver, writes, epoch, hot, decision, decided, tier_pending, queue, done,
                 worker, locals, waiter, owner>>

(* resolve, a hit: compiled code is run; an interpreted block goes along   *)
(* in req.                                                                 *)
Hit(v) ==
  LET u == map[rip[v]]
  IN  /\ pc[v] = "get" /\ u # None
      /\ req' = IF u.comp THEN req
                ELSE [req EXCEPT ![v] = [unit |-> u, epoch |-> snap[v], count |-> 0]]
      /\ Goto(v, IF u.comp THEN "run" ELSE "bump")
      /\ UNCHANGED <<bytes, cache, tier_pending, queue, done, worker, rip, fin, snap,
                     waiter, owner>>

(* resolve: bump_hotness, and the first threshold.                         *)
Bump(v) ==
  LET k == rip[v]
      count == IF hot[k] < Top THEN hot[k] + 1 ELSE Top
  IN  /\ pc[v] = "bump"
      /\ hot' = [hot EXCEPT ![k] = count]
      /\ req' = [req EXCEPT ![v].count = count]
      /\ Goto(v, IF count < Thr THEN "run" ELSE "decide")
      /\ UNCHANGED <<bytes, map, epoch, decision, decided, tier_pending, queue, done,
                     worker, rip, fin, snap, waiter, owner>>

(* resolve: region_decision, taken once per key; a loop waits for the      *)
(* second threshold.                                                       *)
Decide(v) ==
  LET k == rip[v]
      known == ~Caps \/ decision[k] # None
      c == IF known THEN Caps /\ decision[k] ELSE Loop[k][ver[k]]
  IN  /\ pc[v] = "decide"
      /\ decision' = IF known THEN decision ELSE [decision EXCEPT ![k] = c]
      /\ decided' = IF known THEN decided ELSE [decided EXCEPT ![k] = ver[k]]
      /\ Goto(v, IF c /\ req[v].count < T2 THEN "run" ELSE IF c THEN "region" ELSE "block")
      /\ UNCHANGED <<bytes, map, epoch, hot, tier_pending, queue, done, worker, locals,
                     waiter, owner>>

(* resolve: try_begin_tier_up.                                             *)
Begin(v, from, to) ==
  /\ pc[v] = from
  /\ tier_pending' = tier_pending \cup {rip[v]}
  /\ Goto(v, IF rip[v] \in tier_pending THEN "run" ELSE to)
  /\ UNCHANGED <<bytes, cache, queue, done, worker, locals, waiter, owner>>

(* The unit to compile: the cached IR, or a region lifted from the bytes   *)
(* as they are now.                                                        *)
Prepare(v) ==
  LET k == rip[v]
      region == pc[v] = "lift" /\ Loop[k][ver[k]]
      u == IF region THEN Unit(k, Region[k], TRUE) ELSE [req[v].unit EXCEPT !.comp = TRUE]
  IN  /\ pc[v] \in {"lift", "ir"}
      /\ req' = [req EXCEPT ![v].unit = u]
      /\ Goto(v, "submit")
      /\ UNCHANGED <<bytes, cache, tier_pending, queue, done, worker, rip, fin, snap,
                     waiter, owner>>

(* Mutant: a declined request is counted.                                  *)
SubmitCountsBusy(v) ==
  /\ pc[v] = "submit"
  /\ wpc' = IF wpc = "unborn" THEN "check" ELSE wpc
  /\ outstanding' = outstanding + 1
  /\ IF Len(items) >= QueueCap
     THEN Goto(v, "busy") /\ UNCHANGED items
     ELSE /\ items' = Append(items, [unit |-> req[v].unit, epoch |-> req[v].epoch])
          /\ Goto(v, "notify")
  /\ UNCHANGED <<bytes, cache, tier_pending, paused, shutdown, done, job, locals,
                 waiter, owner>>

(* tier_up_async: start the worker if need be; a full queue declines.      *)
Submit(v) ==
  /\ pc[v] = "submit"
  /\ wpc' = IF wpc = "unborn" THEN "check" ELSE wpc
  /\ IF Len(items) >= QueueCap
     THEN Goto(v, "busy") /\ UNCHANGED <<items, outstanding>>
     ELSE /\ items' = Append(items, [unit |-> req[v].unit, epoch |-> req[v].epoch])
          /\ outstanding' = outstanding + 1
          /\ Goto(v, "notify")
  /\ UNCHANGED <<bytes, cache, tier_pending, paused, shutdown, done, job, locals,
                 waiter, owner>>

(* tier_up_async: notify_one, after the lock is released.                  *)
Notify(v) ==
  /\ pc[v] = "notify"
  /\ wpc' = IF wpc = "asleep" THEN "check" ELSE wpc
  /\ Goto(v, "run")
  /\ UNCHANGED <<bytes, cache, tier_pending, queue, done, job, locals, waiter, owner>>

(* resolve: Busy gives the marker back.                                    *)
Busy(v) ==
  /\ pc[v] = "busy"
  /\ tier_pending' = tier_pending \ {rip[v]}
  /\ Goto(v, "run")
  /\ UNCHANGED <<bytes, cache, queue, done, worker, locals, waiter, owner>>
-----------------------------------------------------------------------------
(* Mutant: a paused worker sleeps through a shutdown.                      *)
WorkerCheckPausedFirst ==
  /\ wpc = "check"
  /\ IF (items = <<>> /\ ~shutdown) \/ paused
     THEN wpc' = "asleep" /\ UNCHANGED <<items, job>>
     ELSE IF items = <<>>
     THEN wpc' = "exited" /\ UNCHANGED <<items, job>>
     ELSE wpc' = "compile" /\ job' = Head(items) /\ items' = Tail(items)
  /\ UNCHANGED <<bytes, cache, tier_pending, outstanding, paused, shutdown, done, pc,
                 locals, waiter, owner>>

(* worker_loop: park, leave, or take the oldest request.                   *)
WorkerCheck ==
  /\ wpc = "check"
  /\ IF (items = <<>> \/ paused) /\ ~shutdown
     THEN wpc' = "asleep" /\ UNCHANGED <<items, job>>
     ELSE IF items = <<>>
     THEN wpc' = "exited" /\ UNCHANGED <<items, job>>
     ELSE wpc' = "compile" /\ job' = Head(items) /\ items' = Tail(items)
  /\ UNCHANGED <<bytes, cache, tier_pending, outstanding, paused, shutdown, done, pc,
                 locals, waiter, owner>>

(* worker_loop: compile, outside the lock, and push the result.            *)
WorkerCompile ==
  /\ wpc = "compile"
  /\ done' = Append(done, job)
  /\ job' = None
  /\ wpc' = "retire"
  /\ UNCHANGED <<bytes, cache, tier_pending, queue, pc, locals, waiter, owner>>

(* Mutant: the idle waiters are not told.                                  *)
WorkerRetireSilent ==
  /\ wpc = "retire"
  /\ outstanding' = outstanding - 1
  /\ wpc' = "check"
  /\ UNCHANGED <<bytes, cache, tier_pending, items, paused, shutdown, done, job, pc,
                 locals, waiter, owner>>

(* worker_loop: one less outstanding; the last one wakes wait_idle.        *)
WorkerRetire ==
  /\ wpc = "retire"
  /\ outstanding' = outstanding - 1
  /\ waiter' = IF outstanding = 1 /\ waiter = "asleep" THEN "check" ELSE waiter
  /\ wpc' = "check"
  /\ UNCHANGED <<bytes, cache, tier_pending, items, paused, shutdown, done, job, pc,
                 locals, owner>>

Worker == WorkerCheck \/ WorkerCompile \/ WorkerRetire
-----------------------------------------------------------------------------
(* wait_idle: called, and each look at the queue.                          *)
WaitIdle ==
  /\ waiter = "out" /\ waiter' = "check"
  /\ UNCHANGED <<bytes, cache, tier_pending, queue, done, worker, pc, locals, owner>>

WaitCheck ==
  /\ waiter = "check"
  /\ waiter' = IF outstanding > 0 THEN "asleep" ELSE "out"
  /\ UNCHANGED <<bytes, cache, tier_pending, queue, done, worker, pc, locals, owner>>

(* pause_compiler, and its guard's drop: the flag, then notify_all.        *)
Pause ==
  /\ owner = "idle" /\ owner' = "paused" /\ paused' = TRUE
  /\ UNCHANGED <<bytes, cache, tier_pending, items, outstanding, shutdown, done, worker,
                 pc, locals, waiter>>

Unpause ==
  /\ owner = "paused" /\ owner' = "wake" /\ paused' = FALSE
  /\ UNCHANGED <<bytes, cache, tier_pending, items, outstanding, shutdown, done, worker,
                 pc, locals, waiter>>

(* Drop needs the backend for itself: every vcpu has left run().  The flag *)
(* is set, the worker woken, then joined.                                  *)
Drop ==
  /\ owner \in {"idle", "paused"} /\ \A v \in Vcpus : pc[v] = "run"
  /\ owner' = "drop" /\ shutdown' = TRUE
  /\ UNCHANGED <<bytes, cache, tier_pending, items, outstanding, paused, done, worker,
                 pc, locals, waiter>>

Wake ==
  /\ owner \in {"wake", "drop"}
  /\ owner' = IF owner = "wake" THEN "idle" ELSE "join"
  /\ wpc' = IF wpc = "asleep" THEN "check" ELSE wpc
  /\ UNCHANGED <<bytes, cache, tier_pending, queue, done, job, pc, locals, waiter>>

Join ==
  /\ owner = "join" /\ wpc \in {"unborn", "exited"}
  /\ owner' = "gone"
  /\ UNCHANGED <<bytes, cache, tier_pending, queue, done, worker, pc, locals, waiter>>

Owner == Pause \/ Unpause \/ Drop \/ Wake \/ Join
-----------------------------------------------------------------------------
Resolve(v) ==
  \/ DrainTake(v) \/ DrainPublish(v) \/ DrainEnd(v) \/ Snap(v) \/ Relift(v)
  \/ Hit(v) \/ Bump(v) \/ Decide(v)
  \/ Begin(v, "region", "lift") \/ Begin(v, "block", "ir")
  \/ Prepare(v) \/ Submit(v) \/ Notify(v) \/ Busy(v)

(* The program is over when the backend is gone.                           *)
Gone == owner = "gone" /\ UNCHANGED vars

Next ==
  \/ \E p \in Keys : Write(p)
  \/ \E v \in Vcpus : Resolve(v) \/ \E k \in Keys : Dispatch(v, k)
  \/ Worker \/ WaitIdle \/ WaitCheck \/ Owner \/ Gone

Spec == Init /\ [][Next]_vars

(* Threads run: a vcpu inside resolve, the worker, a woken waiter, a drop  *)
(* or unpause once begun.                                                  *)
FairSpec ==
  /\ Spec
  /\ \A v \in Vcpus : WF_vars(Resolve(v))
  /\ WF_vars(Worker) /\ WF_vars(WaitCheck) /\ WF_vars(Unpause \/ Wake \/ Join)
-----------------------------------------------------------------------------
Labels ==
  {"run", "drain", "publish", "end", "get", "bump", "decide", "region", "block", "lift", "ir",
   "submit", "notify", "busy"}

(* Types; the queue respects its bound.                                    *)
TypeOK ==
  /\ tag \subseteq Keys /\ tier_pending \subseteq Keys /\ epoch \in Nat
  /\ hot \in [Keys -> 0 .. Top] /\ decision \in [Keys -> BOOLEAN \cup {None}]
  /\ Len(items) \in 0 .. QueueCap /\ outstanding \in 0 .. QueueCap + 1
  /\ wpc \in {"unborn", "check", "asleep", "compile", "retire", "exited"}
  /\ pc \in [Vcpus -> Labels] /\ rip \in [Vcpus -> Keys]

(* "Requests submitted but not yet completed (queued + the one compiling)" *)
(* (Queue::outstanding, what wait_idle and Drop rely on).                  *)
OutstandingIsExact ==
  outstanding = Len(items) + IF wpc \in {"compile", "retire"} THEN 1 ELSE 0

(* "This must return to 0 once the queue drains - no stuck marker after a  *)
(* race" (tier_pending_len): a marker means a request in flight, or a vcpu *)
(* about to submit or to give it back.                                     *)
NoStuckMarker ==
  \A k \in tier_pending :
    \/ InFlight(k)
    \/ \E v \in Vcpus : rip[v] = k /\ pc[v] \in {"lift", "ir", "submit", "busy"}

(* A condition on the constants: a superblock spans no page but its own    *)
(* entry's, or the backend forms none.                                     *)
NoWideRegions == Caps => \A k \in Keys : Region[k] = {k}

(* upgrade_region's epoch check: what is cached was translated from the    *)
(* bytes as they are.                                                      *)
CachedIsFresh == \A k \in Keys : map[k] # None => Fresh(map[k])

(* Every cached unit is on tagged pages, regions included.                 *)
TagsCoverUnits == \A k \in Keys : map[k] # None => map[k].span \subseteq tag

(* "Submit once - try_begin_tier_up gates re-submission" (resolve): no two *)
(* requests for a key are in flight at the current epoch.                  *)
SubmittedOnce ==
  \A i, j \in DOMAIN items :
    items[i].unit.key = items[j].unit.key /\ items[i].epoch = epoch
      /\ items[j].epoch = epoch => i = j

(* "A stale entry after SMC just re-decides on the fresh block"            *)
(* (region_decision): a decision in use was taken on the current bytes.    *)
DecisionIsFresh ==
  \A v \in Vcpus :
    pc[v] \in {"region", "block"} /\ Fresh(req[v].unit) /\ decision[rip[v]] # None
      => decided[rip[v]] = ver[rip[v]]

(* wait_idle returns, provided the compiler is not left paused.            *)
WaitIdleReturns == waiter \in {"check", "asleep"} ~> waiter = "out" \/ paused

(* Drop never hangs, paused or not, with requests queued or not.           *)
DropReturns == owner = "drop" ~> owner = "gone"

(* A block that stays hot is compiled in the end: no lost wakeup, stuck    *)
(* marker, full queue or rejected compile leaves it interpreted for good.  *)
HotTiersUp ==
  \A k \in Keys :
    ([]<>(\E v \in Vcpus : rip[v] = k /\ pc[v] = "get") /\ <>[]~paused)
      => <>[](map[k] # None /\ map[k].comp)
=============================================================================
