------------------------------ MODULE Regions ------------------------------
(***************************************************************************)
(* The guest address space: Vm::map and Vm::unmap with everything they     *)
(* keep in step (memory.rs: map, unmap, reprotect, region_at, trap_window, *)
(* code_slice; vm.rs: map, unmap, materialize; cranelift checked_addr).    *)
(* Regions tag ranges of one backing span; a guard-page hook opens and     *)
(* closes host pages; compiled code bakes in the hull of the Trap regions  *)
(* and does not look at regions again; translations of unmapped bytes, or  *)
(* with an outdated hull, are dropped.                                     *)
(*                                                                         *)
(* map and unmap take &mut Vm, so no vcpu runs while they do: each is one  *)
(* step.  A compile on the background worker may be in flight meanwhile.   *)
(***************************************************************************)
EXTENDS Integers, Sequences, FiniteSets, FiniteSetsExt

CONSTANTS
  Span,       \* Memory::size: guest addresses are Base .. Span - 1
  Base,       \* guest_base
  Cap,        \* length of the backing
  PageSize,   \* HOST_PAGE and CODE_PAGE_SIZE
  Starts,     \* addresses the embedder maps regions at
  Sizes,      \* sizes of the regions it maps (an empty region tags nothing)
  Kinds,      \* kinds of the regions it maps (here a Rom region is as Ram)
  Keys,       \* block entry addresses
  BlockLen,   \* bytes a block decodes to, unless its region ends before
  MaxAccess,  \* widest access
  MaxChanges, \* bound: calls of map and unmap
  None

ASSUME SpaceAssumption ==
  /\ Base \in Nat /\ Span \in Nat /\ Base <= Span
  /\ Cap \in Nat /\ Span - Base <= Cap /\ PageSize \in Nat \ {0}
ASSUME RegionAssumption ==
  Starts \subseteq Nat /\ Sizes \subseteq Nat \ {0} /\ Kinds \subseteq {"Ram", "Rom", "Trap"}
ASSUME BlockAssumption ==
  Keys \subseteq Nat /\ BlockLen \in Nat \ {0} /\ MaxAccess \in Nat /\ MaxChanges \in Nat

Region == [start : Nat, size : Nat \ {0}, kind : {"Ram", "Rom", "Trap"}]
Windows == [lo : Nat, hi : Nat]
Units == [lo : Nat, hi : Nat, comp : BOOLEAN, window : Windows]

ASSUME NoneAssumption == None \notin Units

VARIABLES
  regions,     \* Memory::regions, in the order they were mapped
  last_region, \* the index region_at found last
  open,        \* host pages the hook has made accessible
  map,         \* key -> cached unit or None
  tag,         \* tagged code pages
  epoch,       \* TranslationCache::epoch
  link,        \* key -> entry in the link slot of an edge to it, or None
  flight,      \* the compile in flight: [key, unit, epoch] or None
  changes      \* bound: calls of map and unmap so far

space == <<regions, last_region, open>>
cache == <<map, tag, epoch, link>>
vars == <<space, cache, flight, changes>>

End(r) == r.start + r.size

(* The pages of [lo, hi): reprotect's rounding outward, of host pages by   *)
(* offset in the backing; mark_code's, of code pages by guest address.     *)
Rounded(lo, hi) == (lo \div PageSize) .. ((hi + PageSize - 1) \div PageSize) - 1

HostPages(r) == Rounded(r.start - Base, End(r) - Base)

CodePages(lo, hi) == Rounded(lo, hi)

(* reprotect's test that a surviving region shares the host page.          *)
Shares(r, p) ==
  /\ r.start - Base < Min({PageSize * p + PageSize, Cap})
  /\ PageSize * p < End(r) - Base

Contains(r, a, n) == r.start <= a /\ a + n <= End(r)

Overlaps(r, lo, hi) == lo < End(r) /\ r.start < hi

(* region_at by scan, and by the hint it tries first; 0 is Unmapped.       *)
Scan(a, n) ==
  LET I == {i \in DOMAIN regions : Contains(regions[i], a, n)}
  IN  IF I = {} THEN 0 ELSE Min(I)

RegionAt(a, n) ==
  IF last_region \in DOMAIN regions /\ Contains(regions[last_region], a, n)
  THEN last_region ELSE Scan(a, n)

(* Mutant: the hull ends where the last Trap region starts.                *)
TrapWindowShort ==
  LET T == {i \in DOMAIN regions : regions[i].kind = "Trap"}
  IN  IF T = {} THEN [lo |-> 0, hi |-> 0]
      ELSE [lo |-> Min({regions[i].start : i \in T}), hi |-> Max({regions[i].start : i \in T})]

(* trap_window: the hull of the Trap regions; an empty one matches nothing.*)
TrapWindow ==
  LET T == {i \in DOMAIN regions : regions[i].kind = "Trap"}
  IN  IF T = {} THEN [lo |-> 0, hi |-> 0]
      ELSE [lo |-> Min({regions[i].start : i \in T}), hi |-> Max({End(regions[i]) : i \in T})]
-----------------------------------------------------------------------------
Init ==
  /\ regions = <<>> /\ last_region = 1 /\ open = {}
  /\ map = [k \in Keys |-> None] /\ tag = {} /\ epoch = 0
  /\ link = [k \in Keys |-> None] /\ flight = None /\ changes = 0
-----------------------------------------------------------------------------
(* invalidate_overlapping over [lo, hi), with the tags to clear.           *)
Victims(lo, hi) == {k \in Keys : map[k] # None /\ map[k].lo < hi /\ lo < map[k].hi}

Invalidate(V, cleared) ==
  /\ map' = [k \in Keys |-> IF k \in V THEN None ELSE map[k]]
  /\ tag' = tag \ cleared
  /\ epoch' = IF V = {} THEN epoch ELSE epoch + 1

(* Memory::map's checks: inside the span, overlapping no region.  A call   *)
(* that fails them changes nothing.                                        *)
Fits(s, n) ==
  /\ s >= Base /\ s + n <= Span
  /\ \A i \in DOMAIN regions : ~Overlaps(regions[i], s, s + n)

(* Vm::map: tag the range, open its host pages; a Trap region changes the  *)
(* hull, so every translation is dropped and the slots are cleared.        *)
Map(s, n, kind) ==
  /\ changes < MaxChanges /\ Fits(s, n)
  /\ regions' = Append(regions, [start |-> s, size |-> n, kind |-> kind])
  /\ open' = open \cup HostPages([start |-> s, size |-> n, kind |-> kind])
  /\ IF kind = "Trap"
     THEN /\ Invalidate({k \in Keys : map[k] # None}, tag)
          /\ link' = [k \in Keys |-> None]
     ELSE UNCHANGED cache
  /\ changes' = changes + 1
  /\ UNCHANGED <<last_region, flight>>

(* Vec::remove.                                                            *)
Removed(i) ==
  [j \in 1 .. Len(regions) - 1 |-> IF j < i THEN regions[j] ELSE regions[j + 1]]

(* Mutant: every host page of the region is closed.                        *)
ClosedAll(i) == HostPages(regions[i])

(* reprotect: a host page a surviving region shares stays open.            *)
Closed(i) ==
  {p \in HostPages(regions[i]) : \A j \in DOMAIN regions \ {i} : ~Shares(regions[j], p)}

(* Mutant: translations that start before the region are not found.        *)
UnmapByStart(i) ==
  LET r == regions[i]
      V == {k \in Keys : map[k] # None /\ r.start < map[k].lo /\ map[k].lo < End(r)}
  IN  /\ changes < MaxChanges
      /\ regions' = Removed(i) /\ open' = open \ Closed(i)
      /\ Invalidate(V, CodePages(r.start, End(r)))
      /\ link' = IF V = {} THEN link ELSE [k \in Keys |-> None]
      /\ changes' = changes + 1
      /\ UNCHANGED <<last_region, flight>>

(* Vm::unmap of the whole region i: drop the tag, close its host pages,    *)
(* drop the translations that overlap it, clear its code-page tags, and    *)
(* the slots if anything was dropped.                                      *)
Unmap(i) ==
  LET r == regions[i]
      V == Victims(r.start, End(r))
  IN  /\ changes < MaxChanges
      /\ regions' = Removed(i) /\ open' = open \ Closed(i)
      /\ Invalidate(V, CodePages(r.start, End(r)))
      /\ link' = IF V = {} THEN link ELSE [k \in Keys |-> None]
      /\ changes' = changes + 1
      /\ UNCHANGED <<last_region, flight>>

(* An access by the interpreter leaves the hint where it found its region. *)
Access(a, n) ==
  /\ RegionAt(a, n) # 0
  /\ last_region' = RegionAt(a, n)
  /\ UNCHANGED <<regions, open, cache, flight, changes>>
-----------------------------------------------------------------------------
(* resolve, a miss: code_slice feeds the decoder up to the region's end;   *)
(* the unit is inserted and its pages tagged.  Compiled code gets the hull *)
(* of this moment.                                                         *)
Translate(k, comp) ==
  \E i \in DOMAIN regions :
    LET r == regions[i]
        hi == Min({k + BlockLen, End(r)})
    IN  /\ r.start <= k /\ k < End(r) /\ map[k] = None
        /\ map' = [map EXCEPT ![k] = [lo |-> k, hi |-> hi, comp |-> comp, window |-> TrapWindow]]
        /\ tag' = tag \cup CodePages(k, hi)
        /\ UNCHANGED <<space, epoch, link, flight, changes>>

(* RET_LINK: a slot is filled with a compiled unit.                        *)
Link(k) ==
  /\ map[k] # None /\ map[k].comp
  /\ link' = [link EXCEPT ![k] = map[k]]
  /\ UNCHANGED <<space, map, tag, epoch, flight, changes>>

(* resolve: a hot interpreted unit is sent to the worker, with the hull    *)
(* and the epoch of this moment.                                           *)
Submit(k) ==
  /\ flight = None /\ map[k] # None /\ ~map[k].comp
  /\ flight' = [key |-> k, epoch |-> epoch,
                unit |-> [lo |-> map[k].lo, hi |-> map[k].hi, comp |-> TRUE, window |-> TrapWindow]]
  /\ UNCHANGED <<space, cache, changes>>

(* drain_tier_up: upgrade_region, refused if the epoch has moved.          *)
Publish ==
  /\ flight # None
  /\ flight' = None
  /\ IF epoch = flight.epoch
     THEN /\ map' = [map EXCEPT ![flight.key] = flight.unit]
          /\ tag' = tag \cup CodePages(flight.unit.lo, flight.unit.hi)
     ELSE UNCHANGED <<map, tag>>
  /\ UNCHANGED <<space, epoch, link, changes>>
-----------------------------------------------------------------------------
Widths == 1 .. MaxAccess
Addresses == 0 .. Span

Next ==
  \/ \E s \in Starts, n \in Sizes, kind \in Kinds : Map(s, n, kind)
  \/ \E i \in DOMAIN regions : Unmap(i)
  \/ \E a \in Addresses, n \in Widths : Access(a, n)
  \/ \E k \in Keys : Link(k) \/ Submit(k) \/ \E comp \in BOOLEAN : Translate(k, comp)
  \/ Publish

Spec == Init /\ [][Next]_vars
-----------------------------------------------------------------------------
TypeOK ==
  /\ regions \in Seq(Region) /\ last_region \in Nat \ {0} /\ open \subseteq Nat
  /\ map \in [Keys -> Units \cup {None}] /\ tag \subseteq Nat /\ epoch \in Nat
  /\ link \in [Keys -> Units \cup {None}] /\ changes \in 0 .. MaxChanges

(* Memory::map refuses what overlaps: no byte is in two regions, and all   *)
(* of them are in the span.  region_at's hint and unmap's exact match rely *)
(* on it.                                                                  *)
RegionsAreDisjoint ==
  /\ \A i \in DOMAIN regions : Base <= regions[i].start /\ End(regions[i]) <= Span
  /\ \A i, j \in DOMAIN regions :
       i # j => ~Overlaps(regions[i], regions[j].start, End(regions[j]))

(* reprotect: a host page is accessible exactly while some region is on it *)
(* ("a page shared with a live neighbor stays accessible"), in whatever    *)
(* order regions that share pages come and go.                             *)
GuardsAreExact ==
  \A p \in open \cup 0 .. (Cap \div PageSize) :
    p \in open <=> \E i \in DOMAIN regions : Shares(regions[i], p)

(* region_at: "a stale index just misses the fast path".  The hint, which  *)
(* map and unmap leave alone, never changes what an access finds.          *)
HintIsHarmless == \A a \in Addresses, n \in Widths : RegionAt(a, n) = Scan(a, n)

(* Vm::unmap: "a block cached from the now-unmapped range must not stay    *)
(* executable".                                                            *)
UnitsAreMapped ==
  \A k \in Keys : map[k] # None =>
    \E i \in DOMAIN regions : Contains(regions[i], map[k].lo, map[k].hi - map[k].lo)

(* Vm::unmap: no "chained edge jumps into it": what a link slot leads to   *)
(* is in the cache.                                                        *)
LinksAreCached == \A k \in Keys : link[k] # None => link[k] = map[k]

(* What an access of compiled code does: bounds check, hull, host page.    *)
Jit(u, a, n) ==
  IF a < Base \/ a + n > Span THEN "Unmapped"
  ELSE IF u.window.lo <= a /\ a < u.window.hi THEN "defer"
  ELSE IF \E p \in Rounded(a - Base, a + n - Base) : p \notin open THEN "guard"
  ELSE "inline"

(* Vm::map drops every translation when the hull changes, and unmap lets   *)
(* it only shrink: cached compiled code, published late or not, defers     *)
(* every access of a Trap region, and reaches every mapped byte.           *)
BackendsAgree ==
  \A k \in Keys : map[k] # None /\ map[k].comp =>
    \A a \in Addresses, n \in Widths :
      LET i == Scan(a, n)
      IN  i # 0 => IF regions[i].kind = "Trap" THEN Jit(map[k], a, n) = "defer"
                   ELSE Jit(map[k], a, n) \in {"defer", "inline"}

(* invalidate_overlapping: "no live block's page is ever left cleared".    *)
TagsCoverUnits ==
  \A k \in Keys : map[k] # None => CodePages(map[k].lo, map[k].hi) \subseteq tag

(* RegionKind::Trap: "every access yields Exit::MmioRead/MmioWrite": of    *)
(* the accesses all of whose bytes are mapped, compiled code performs none *)
(* inline that touches a Trap region.                                      *)
TrapIsNeverInline ==
  \A k \in Keys : map[k] # None /\ map[k].comp =>
    \A a \in Addresses, n \in Widths, i \in DOMAIN regions :
      /\ \A b \in a .. a + n - 1 : Scan(b, 1) # 0
      /\ regions[i].kind = "Trap" /\ Overlaps(regions[i], a, a + n)
      => Jit(map[k], a, n) # "inline"
=============================================================================
