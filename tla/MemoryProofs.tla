---------------------------- MODULE MemoryProofs ----------------------------
(***************************************************************************)
(* The theorems about two structures of Memory: the regions with what is   *)
(* baked from them (Regions), and the dirty tracking of watched pages      *)
(* (WatchPages).  Each is about the specification of its own module, Spec  *)
(* or WatchSpec.                                                           *)
(***************************************************************************)
EXTENDS Regions, WatchPages, SequenceTheorems, FiniteSetTheorems,
        WellFoundedInduction, TLAPS

(* ------------------------------- Regions ------------------------------- *)

(* The address-space theorems, for every span, page size, set of regions   *)
(* and of blocks: regions stay disjoint, the guard pages follow them, the  *)
(* lookup hint is harmless, and no translation or link of unmapped bytes   *)
(* is left, a compile in flight across map and unmap included; and what    *)
(* compiled code does inline agrees with the interpreter.                  *)

(* A page number is at least the quotient exactly when its end is beyond.  *)
LEMMA Floor ==
  ASSUME NEW n \in Nat, NEW d \in Nat \ {0}, NEW p \in Int
  PROVE  (n \div d <= p) <=> (n < d * p + d)
<1> DEFINE q == n \div d
<1>1. q \in Int /\ d * q <= n /\ n < d * q + d
  BY SMT
<1>2. q <= p => d * q <= d * p
  BY <1>1, SMT
<1>3. q > p => d * (p + 1) <= d * q
  BY <1>1, SMT
<1>4. d * (p + 1) = d * p + d /\ d * p \in Int /\ d * q \in Int
  BY <1>1, SMT
<1> HIDE DEF q
<1>5. (q <= p) <=> (n < d * p + d)
  BY <1>1, <1>2, <1>3, <1>4
<1> QED
  BY <1>5, Zenon DEF q

InSpan(r) == r \in Region /\ Base <= r.start /\ End(r) <= Span

(* reprotect rounds outward to the pages its sharing test names.           *)
LEMMA PagesAreShared ==
  ASSUME NEW r, InSpan(r), NEW p \in Int
  PROVE  p \in HostPages(r) <=> (p \in Nat /\ Shares(r, p))
<1> DEFINE s == r.start - Base
           e == End(r) - Base
<1>1. s \in Nat /\ e \in Nat /\ s < e /\ e <= Cap
  BY SpaceAssumption DEF InSpan, Region, End
<1>2. PageSize \in Nat \ {0} /\ Cap \in Nat /\ PageSize * p \in Int
  BY SpaceAssumption, SMT
<1>3. (s \div PageSize <= p) <=> (s < PageSize * p + PageSize)
  BY <1>1, <1>2, Floor, Zenon
<1>4. ((e + PageSize - 1) \div PageSize <= p) <=> (e + PageSize - 1 < PageSize * p + PageSize)
  BY <1>1, <1>2, Floor
<1>5. s \div PageSize \in Nat /\ (e + PageSize - 1) \div PageSize \in Nat
  BY <1>1, <1>2, SMT
<1>6. Min({PageSize * p + PageSize, Cap})
        = IF PageSize * p + PageSize <= Cap THEN PageSize * p + PageSize ELSE Cap
  BY <1>2 DEF Min
<1>7. Shares(r, p) <=> (s < PageSize * p + PageSize /\ PageSize * p < e)
  BY <1>1, <1>2, <1>6 DEF Shares
<1>8. p \in HostPages(r) <=>
        (s \div PageSize <= p /\ p <= ((e + PageSize - 1) \div PageSize) - 1)
  BY <1>5 DEF HostPages, Rounded
<1> HIDE DEF s, e
<1> QED
  BY <1>1, <1>2, <1>3, <1>4, <1>5, <1>7, <1>8
-----------------------------------------------------------------------------
IsUnit(u) ==
  /\ u = [lo |-> u.lo, hi |-> u.hi, comp |-> u.comp, window |-> u.window]
  /\ u.lo \in Nat /\ u.hi \in Nat /\ u.lo < u.hi /\ u.comp \in BOOLEAN

IsFlight(f) ==
  f.key \in Keys /\ f.epoch \in Nat /\ f.epoch <= epoch /\ IsUnit(f.unit)

(* A compile that can still be published is one of the interpreted unit    *)
(* the cache holds: whatever drops that unit moves the epoch.              *)
FlightIsCurrent ==
  flight # None /\ flight.epoch = epoch =>
    LET u == map[flight.key]
    IN  u # None /\ ~u.comp /\ u.lo = flight.unit.lo /\ u.hi = flight.unit.hi

Typed ==
  /\ regions \in Seq(Region) /\ epoch \in Nat /\ open \subseteq Int
  /\ map = [k \in Keys |-> map[k]] /\ link = [k \in Keys |-> link[k]]
  /\ \A k \in Keys : map[k] # None => IsUnit(map[k])
  /\ flight # None => IsFlight(flight)

OpenIsShared ==
  \A p \in Int : p \in open <=> (p \in Nat /\ \E i \in DOMAIN regions : Shares(regions[i], p))

IInv ==
  /\ Typed /\ RegionsAreDisjoint /\ OpenIsShared /\ UnitsAreMapped /\ FlightIsCurrent
  /\ LinksAreCached /\ \A k \in Keys : link[k] # None => link[k].comp
-----------------------------------------------------------------------------
(* What dropping the units V of the cache leaves in order, whatever the    *)
(* regions do: used for Map of a Trap region and for Unmap.                *)
LEMMA InvalidateFacts ==
  ASSUME IInv, NEW V \in SUBSET {k \in Keys : map[k] # None}, NEW C, Invalidate(V, C),
         link' = (IF V = {} THEN link ELSE [k \in Keys |-> None]) \/ link' = [k \in Keys |-> None],
         UNCHANGED flight
  PROVE  /\ epoch' \in Nat /\ map' = [k \in Keys |-> map'[k]] /\ link' = [k \in Keys |-> link'[k]]
         /\ \A k \in Keys : map'[k] # None => map'[k] = map[k] /\ k \notin V
         /\ \A k \in Keys : map'[k] # None => IsUnit(map'[k])
         /\ flight' # None => IsFlight(flight)'
         /\ FlightIsCurrent' /\ LinksAreCached'
         /\ \A k \in Keys : link'[k] # None => link'[k].comp
<1>1. /\ epoch \in Nat /\ map = [k \in Keys |-> map[k]] /\ link = [k \in Keys |-> link[k]]
      /\ \A k \in Keys : map[k] # None => IsUnit(map[k])
      /\ flight # None => IsFlight(flight)
  BY Zenon DEF IInv, Typed
<1>2. epoch' = (IF V = {} THEN epoch ELSE epoch + 1) /\ epoch' \in Nat /\ epoch <= epoch'
  BY <1>1 DEF Invalidate
<1>3. /\ map' = [k \in Keys |-> IF k \in V THEN None ELSE map[k]]
      /\ \A k \in Keys : map'[k] = IF k \in V THEN None ELSE map[k]
  BY Zenon DEF Invalidate
<1>4. link' = [k \in Keys |-> link'[k]] /\ map' = [k \in Keys |-> map'[k]]
  BY <1>1, <1>3, Zenon
<1>5. \A k \in Keys : map'[k] # None => map'[k] = map[k] /\ k \notin V
  BY <1>3, Zenon
<1>6. \A k \in Keys : link'[k] # None => V = {} /\ link'[k] = link[k]
  BY Zenon
<1>7. \A k \in Keys : link[k] # None => link[k] = map[k] /\ link[k].comp
  BY Zenon DEF IInv, LinksAreCached
<1>8. LinksAreCached' /\ \A k \in Keys : link'[k] # None => link'[k].comp
  BY <1>3, <1>6, <1>7, Zenon DEF LinksAreCached
<1>9. flight' # None => IsFlight(flight)'
  BY <1>1, <1>2, SMT DEF IsFlight
<1>10. FlightIsCurrent'
  <2>1. SUFFICES ASSUME flight # None, flight.epoch = epoch'
                 PROVE  LET u == map'[flight.key]
                        IN u # None /\ ~u.comp /\ u.lo = flight.unit.lo /\ u.hi = flight.unit.hi
    BY Zenon DEF FlightIsCurrent
  <2>2. V = {} /\ flight.epoch = epoch /\ flight.key \in Keys
    BY <1>1, <1>2, <2>1, SMT DEF IsFlight
  <2>3. map'[flight.key] = map[flight.key]
    BY <1>3, <2>2, Zenon
  <2> QED
    BY <2>1, <2>2, <2>3, Zenon DEF IInv, FlightIsCurrent
<1> QED
  BY <1>1, <1>2, <1>3, <1>4, <1>5, <1>8, <1>9, <1>10, Zenon

(* Vec::remove: the sequence that is left, and where its elements were.    *)
LEMMA RemovedFacts ==
  ASSUME regions \in Seq(Region), NEW i \in DOMAIN regions
  PROVE  /\ Removed(i) \in Seq(Region) /\ DOMAIN Removed(i) = 1 .. Len(regions) - 1
         /\ \A j \in DOMAIN Removed(i) :
              LET o == IF j < i THEN j ELSE j + 1
              IN  o \in DOMAIN regions \ {i} /\ Removed(i)[j] = regions[o]
         /\ \A o \in DOMAIN regions \ {i} :
              \E j \in DOMAIN Removed(i) : Removed(i)[j] = regions[o]
<1>1. /\ Len(regions) \in Nat /\ DOMAIN regions = 1 .. Len(regions)
      /\ \A j \in DOMAIN regions : regions[j] \in Region
  BY LenProperties, Zenon
<1>2. DOMAIN Removed(i) = 1 .. Len(regions) - 1 /\ Len(regions) - 1 \in Nat
  BY <1>1 DEF Removed
<1>3. \A j \in DOMAIN Removed(i) :
        LET o == IF j < i THEN j ELSE j + 1
        IN  o \in DOMAIN regions \ {i} /\ Removed(i)[j] = regions[o]
  BY <1>1, <1>2 DEF Removed
<1>4. Removed(i) \in [1 .. Len(regions) - 1 -> Region]
  BY <1>1, <1>2, <1>3, Zenon DEF Removed
<1>5. Removed(i) \in Seq(Region)
  BY <1>2, <1>4, SeqDef, Zenon
<1>6. ASSUME NEW o \in DOMAIN regions \ {i}
      PROVE  \E j \in DOMAIN Removed(i) : Removed(i)[j] = regions[o]
  <2>1. CASE o < i
    <3>1. o \in DOMAIN Removed(i)
      BY <1>1, <1>2, <2>1
    <3> QED
      BY <1>3, <2>1, <3>1, Zenon
  <2>2. CASE o > i
    <3>1. o - 1 \in DOMAIN Removed(i) /\ ~(o - 1 < i) /\ (o - 1) + 1 = o
      BY <1>1, <1>2, <2>2
    <3> QED
      BY <1>3, <3>1, Zenon
  <2> QED
    BY <1>1, <2>1, <2>2
<1> QED
  BY <1>2, <1>3, <1>5, <1>6, Zenon
-----------------------------------------------------------------------------
LEMMA MapPreserves ==
  ASSUME IInv, NEW s \in Starts, NEW n \in Sizes, NEW kind \in Kinds, Map(s, n, kind)
  PROVE  IInv'
<1> DEFINE r == [start |-> s, size |-> n, kind |-> kind]
           L == Len(regions)
<1>1. r \in Region /\ InSpan(r) /\ End(r) = s + n
  BY RegionAssumption, SpaceAssumption, Zenon DEF Region, InSpan, End, Map, Fits
<1>2. /\ L \in Nat /\ DOMAIN regions = 1 .. L
      /\ regions' \in Seq(Region) /\ DOMAIN regions' = 1 .. L + 1
      /\ \A i \in 1 .. L : regions'[i] = regions[i] /\ regions[i] \in Region
      /\ regions'[L + 1] = r
  <2>1. regions \in Seq(Region) /\ regions' = Append(regions, r)
    BY Zenon DEF IInv, Typed, Map
  <2>2. L \in Nat /\ DOMAIN regions = 1 .. L /\ \A i \in 1 .. L : regions[i] \in Region
    BY <2>1, LenProperties, Zenon
  <2>3. /\ regions' \in Seq(Region) /\ Len(regions') = L + 1
        /\ \A i \in 1 .. L : regions'[i] = regions[i]
        /\ regions'[L + 1] = r
    BY <1>1, <2>1, AppendProperties
  <2> QED
    BY <2>2, <2>3, LenProperties, Zenon
<1>3. \A i \in 1 .. L : ~Overlaps(regions[i], r.start, End(r))
  BY <1>1, <1>2, Zenon DEF Map, Fits
<1> HIDE DEF r, L
<1>4. RegionsAreDisjoint'
  <2>1. \A i \in DOMAIN regions' : Base <= regions'[i].start /\ End(regions'[i]) <= Span
    BY <1>1, <1>2 DEF IInv, RegionsAreDisjoint, InSpan
  <2>2. ASSUME NEW i \in DOMAIN regions', NEW j \in DOMAIN regions', i # j
        PROVE  ~Overlaps(regions'[i], regions'[j].start, End(regions'[j]))
    <3>1. CASE i \in 1 .. L /\ j \in 1 .. L
      BY <1>2, <2>2, <3>1, Zenon DEF IInv, RegionsAreDisjoint
    <3>2. CASE i \in 1 .. L /\ j = L + 1
      BY <1>2, <1>3, <3>2, Zenon
    <3>3. CASE i = L + 1 /\ j \in 1 .. L
      BY <1>1, <1>2, <1>3, <3>3, Zenon DEF Overlaps
    <3> QED
      BY <1>2, <2>2, <3>1, <3>2, <3>3
  <2> QED
    BY <2>1, <2>2, Zenon DEF RegionsAreDisjoint
<1>5. open' = open \cup HostPages(r)
  BY Zenon DEF Map, r
<1>6. OpenIsShared'
  <2>1. SUFFICES ASSUME NEW p \in Int
                 PROVE  p \in open' <=> (p \in Nat /\ \E i \in DOMAIN regions' : Shares(regions'[i], p))
    BY Zenon DEF OpenIsShared
  <2>2. p \in HostPages(r) <=> (p \in Nat /\ Shares(r, p))
    BY <1>1, PagesAreShared, Zenon
  <2>3. p \in open <=> (p \in Nat /\ \E i \in 1 .. L : Shares(regions[i], p))
    BY <1>2, Zenon DEF IInv, OpenIsShared
  <2>4. (\E i \in DOMAIN regions' : Shares(regions'[i], p))
          <=> (Shares(r, p) \/ \E i \in 1 .. L : Shares(regions[i], p))
    BY <1>2
  <2> QED
    BY <1>5, <2>2, <2>3, <2>4, Zenon
<1>7. open' \subseteq Int
  BY <1>1, <1>5, SpaceAssumption, SMT DEF IInv, Typed, HostPages, Rounded, End, Region
<1>8. CASE kind = "Trap"
  <2> DEFINE V == {k \in Keys : map[k] # None}
  <2>1. /\ Invalidate(V, tag) /\ link' = [k \in Keys |-> None] /\ UNCHANGED flight
    BY <1>8, Zenon DEF Map
  <2>2. /\ epoch' \in Nat /\ map' = [k \in Keys |-> map'[k]] /\ link' = [k \in Keys |-> link'[k]]
        /\ \A k \in Keys : map'[k] # None => map'[k] = map[k] /\ k \notin V
        /\ \A k \in Keys : map'[k] # None => IsUnit(map'[k])
        /\ flight' # None => IsFlight(flight)'
        /\ FlightIsCurrent' /\ LinksAreCached'
        /\ \A k \in Keys : link'[k] # None => link'[k].comp
    BY <2>1, InvalidateFacts, Zenon
  <2>3. \A k \in Keys : map'[k] = None
    BY <2>2, Zenon
  <2> QED
    BY <1>2, <1>4, <1>6, <1>7, <2>2, <2>3 DEF IInv, Typed, UnitsAreMapped, IsUnit
<1>9. CASE kind # "Trap"
  <2>1. UNCHANGED <<map, epoch, link, flight>>
    BY <1>9, Zenon DEF Map, cache
  <2>2. UnitsAreMapped'
    BY <1>2, <2>1 DEF IInv, UnitsAreMapped
  <2>3. Typed'
    BY <1>2, <1>7, <2>1, Zenon DEF IInv, Typed, IsFlight
  <2> QED
    BY <1>4, <1>6, <2>1, <2>2, <2>3 DEF IInv, FlightIsCurrent, LinksAreCached
<1> QED
  BY <1>8, <1>9, Zenon

LEMMA UnmapPreserves ==
  ASSUME IInv, NEW i \in DOMAIN regions, Unmap(i)
  PROVE  IInv'
<1> DEFINE r == regions[i]
           V == Victims(r.start, End(r))
<1>1. /\ regions' = Removed(i) /\ regions \in Seq(Region)
      /\ \A j \in DOMAIN regions : InSpan(regions[j])
  BY LenProperties, Zenon DEF Unmap, IInv, Typed, RegionsAreDisjoint, InSpan
<1>2. /\ regions' \in Seq(Region)
      /\ \A j \in DOMAIN regions' :
           LET o == IF j < i THEN j ELSE j + 1
           IN  o \in DOMAIN regions \ {i} /\ regions'[j] = regions[o]
      /\ \A o \in DOMAIN regions \ {i} : \E j \in DOMAIN regions' : regions'[j] = regions[o]
      /\ DOMAIN regions' \subseteq Nat /\ i \in Nat
  <2>1. Len(regions) \in Nat /\ DOMAIN regions = 1 .. Len(regions)
    BY <1>1, LenProperties, Zenon
  <2> QED
    BY <1>1, <2>1, RemovedFacts
<1>3. RegionsAreDisjoint'
  <2>1. ASSUME NEW j \in DOMAIN regions', NEW k \in DOMAIN regions', j # k
        PROVE  ~Overlaps(regions'[j], regions'[k].start, End(regions'[k]))
    <3> DEFINE oj == IF j < i THEN j ELSE j + 1
               ok == IF k < i THEN k ELSE k + 1
    <3>1. oj # ok
      BY <1>2, <2>1
    <3>2. oj \in DOMAIN regions /\ ok \in DOMAIN regions
          /\ regions'[j] = regions[oj] /\ regions'[k] = regions[ok]
      BY <1>2, Zenon
    <3> QED
      BY <3>1, <3>2, Zenon DEF IInv, RegionsAreDisjoint
  <2> QED
    BY <1>2, <2>1, Zenon DEF IInv, RegionsAreDisjoint
<1>4. OpenIsShared'
  <2>1. SUFFICES ASSUME NEW p \in Int
                 PROVE  p \in open' <=> (p \in Nat /\ \E j \in DOMAIN regions' : Shares(regions'[j], p))
    BY Zenon DEF OpenIsShared
  <2>2. p \in HostPages(r) <=> (p \in Nat /\ Shares(r, p))
    BY <1>1, PagesAreShared, Zenon
  <2>3. p \in open <=> (p \in Nat /\ \E j \in DOMAIN regions : Shares(regions[j], p))
    BY Zenon DEF IInv, OpenIsShared
  <2>4. p \in open' <=> (p \in open /\ ~(p \in HostPages(r)
                           /\ \A j \in DOMAIN regions \ {i} : ~Shares(regions[j], p)))
    BY Zenon DEF Unmap, Closed
  <2>5. (\E j \in DOMAIN regions' : Shares(regions'[j], p))
          <=> \E j \in DOMAIN regions \ {i} : Shares(regions[j], p)
    BY <1>2, Zenon
  <2> QED
    BY <2>2, <2>3, <2>4, <2>5, Zenon
<1>5. V \in SUBSET {k \in Keys : map[k] # None}
  BY Zenon DEF Victims
<1>6. /\ Invalidate(V, CodePages(r.start, End(r))) /\ UNCHANGED flight
      /\ link' = IF V = {} THEN link ELSE [k \in Keys |-> None]
  BY Zenon DEF Unmap
<1>7. /\ epoch' \in Nat /\ map' = [k \in Keys |-> map'[k]] /\ link' = [k \in Keys |-> link'[k]]
      /\ \A k \in Keys : map'[k] # None => map'[k] = map[k] /\ k \notin V
      /\ \A k \in Keys : map'[k] # None => IsUnit(map'[k])
      /\ flight' # None => IsFlight(flight)'
      /\ FlightIsCurrent' /\ LinksAreCached'
      /\ \A k \in Keys : link'[k] # None => link'[k].comp
  <2> HIDE DEF V
  <2> QED
    BY <1>5, <1>6, InvalidateFacts, Zenon
<1>8. UnitsAreMapped'
  <2>1. SUFFICES ASSUME NEW k \in Keys, map'[k] # None
                 PROVE  \E j \in DOMAIN regions' :
                          Contains(regions'[j], map'[k].lo, map'[k].hi - map'[k].lo)
    BY Zenon DEF UnitsAreMapped
  <2>2. map'[k] = map[k] /\ k \notin V /\ map[k] # None /\ IsUnit(map[k])
    BY <1>7, <2>1, Zenon
  <2>3. PICK o \in DOMAIN regions : Contains(regions[o], map[k].lo, map[k].hi - map[k].lo)
    BY <2>2, Zenon DEF IInv, UnitsAreMapped
  <2>4. o # i
    <3>1. SUFFICES ASSUME o = i PROVE k \in V
      BY <2>2, Zenon
    <3>2. r.start \in Nat /\ End(r) \in Nat
      BY <1>1 DEF InSpan, Region, End
    <3> QED
      BY <2>2, <2>3, <3>1, <3>2 DEF Contains, Victims, IsUnit
  <2> QED
    BY <1>2, <2>2, <2>3, <2>4, Zenon
<1>9. open' \subseteq Int
  BY Zenon DEF IInv, Typed, Unmap
<1> QED
  BY <1>2, <1>3, <1>4, <1>7, <1>8, <1>9, Zenon DEF IInv, Typed, IsUnit
-----------------------------------------------------------------------------
LEMMA RegionFacts ==
  ASSUME regions \in Seq(Region), NEW i \in DOMAIN regions
  PROVE  /\ i \in Nat /\ regions[i] \in Region
         /\ regions[i].start \in Nat /\ End(regions[i]) \in Nat
<1>1. i \in Nat /\ regions[i] \in Region
  BY LenProperties
<1> QED
  BY <1>1 DEF Region, End

LEMMA TranslatePreserves ==
  ASSUME IInv, NEW k \in Keys, NEW comp \in BOOLEAN, Translate(k, comp)
  PROVE  IInv'
<1>1. PICK i \in DOMAIN regions :
        LET r == regions[i]
            hi == Min({k + BlockLen, End(r)})
        IN  /\ r.start <= k /\ k < End(r) /\ map[k] = None
            /\ map' = [map EXCEPT ![k] = [lo |-> k, hi |-> hi, comp |-> comp, window |-> TrapWindow]]
            /\ tag' = tag \cup CodePages(k, hi)
            /\ UNCHANGED <<space, epoch, link, flight, changes>>
  BY Zenon DEF Translate
<1> DEFINE r == regions[i]
           hi == Min({k + BlockLen, End(r)})
           u == [lo |-> k, hi |-> hi, comp |-> comp, window |-> TrapWindow]
<1>2. r \in Region /\ End(r) \in Nat /\ r.start \in Nat
  BY RegionFacts, Zenon DEF IInv, Typed
<1>3. k \in Nat /\ BlockLen \in Nat \ {0}
  BY BlockAssumption, Zenon
<1>4. hi \in Nat /\ k < hi /\ hi <= End(r)
  BY <1>1, <1>2, <1>3 DEF Min
<1> HIDE DEF hi
<1>5. IsUnit(u) /\ Contains(r, u.lo, u.hi - u.lo)
  BY <1>1, <1>2, <1>3, <1>4 DEF IsUnit, Contains
<1>6. /\ map = [x \in Keys |-> map[x]] /\ map' = [map EXCEPT ![k] = u]
      /\ UNCHANGED <<regions, open, epoch, link, flight>> /\ map[k] = None
  BY <1>1, Zenon DEF IInv, Typed, space, hi
<1> HIDE DEF u, r
<1>7. map' = [x \in Keys |-> map'[x]] /\ \A x \in Keys : map'[x] = IF x = k THEN u ELSE map[x]
  BY <1>6, Zenon
<1>8. Typed'
  BY <1>5, <1>6, <1>7, Zenon DEF IInv, Typed, IsFlight
<1>9. UnitsAreMapped'
  BY <1>5, <1>6, <1>7, Zenon DEF IInv, UnitsAreMapped, r
<1>10. FlightIsCurrent'
  BY <1>6, <1>7, Zenon DEF IInv, Typed, FlightIsCurrent, IsFlight
<1>11. LinksAreCached' /\ \A x \in Keys : link'[x] # None => link'[x].comp
  BY <1>6, <1>7, Zenon DEF IInv, LinksAreCached
<1> QED
  BY <1>6, <1>8, <1>9, <1>10, <1>11, Zenon DEF IInv, RegionsAreDisjoint, OpenIsShared

LEMMA LinkPreserves ==
  ASSUME IInv, NEW k \in Keys, Link(k)
  PROVE  IInv'
<1>1. /\ link = [x \in Keys |-> link[x]] /\ link' = [link EXCEPT ![k] = map[k]]
      /\ map[k] # None /\ map[k].comp
      /\ UNCHANGED <<regions, open, epoch, map, flight>>
  BY Zenon DEF IInv, Typed, Link, space
<1>2. link' = [x \in Keys |-> link'[x]] /\ \A x \in Keys : link'[x] = IF x = k THEN map[k] ELSE link[x]
  BY <1>1, Zenon
<1>3. LinksAreCached' /\ \A x \in Keys : link'[x] # None => link'[x].comp
  BY <1>1, <1>2, Zenon DEF IInv, LinksAreCached
<1>4. Typed'
  BY <1>1, <1>2, Zenon DEF IInv, Typed, IsFlight
<1> QED
  BY <1>1, <1>3, <1>4, Zenon
     DEF IInv, RegionsAreDisjoint, OpenIsShared, UnitsAreMapped, FlightIsCurrent

LEMMA SubmitPreserves ==
  ASSUME IInv, NEW k \in Keys, Submit(k)
  PROVE  IInv'
<1> DEFINE u == [lo |-> map[k].lo, hi |-> map[k].hi, comp |-> TRUE, window |-> TrapWindow]
<1>1. /\ map[k] # None /\ ~map[k].comp /\ IsUnit(map[k]) /\ epoch \in Nat
      /\ flight' = [key |-> k, epoch |-> epoch, unit |-> u]
      /\ UNCHANGED <<regions, open, epoch, map, link>>
  BY Zenon DEF IInv, Typed, Submit, space, cache
<1>2. IsUnit(u) /\ u.lo = map[k].lo /\ u.hi = map[k].hi
  BY <1>1, Zenon DEF IsUnit
<1> HIDE DEF u
<1>3. IsFlight(flight)' /\ FlightIsCurrent'
  BY <1>1, <1>2 DEF IsFlight, FlightIsCurrent
<1>4. Typed'
  BY <1>1, <1>3, Zenon DEF IInv, Typed
<1> QED
  BY <1>1, <1>3, <1>4, Zenon
     DEF IInv, RegionsAreDisjoint, OpenIsShared, UnitsAreMapped, LinksAreCached

LEMMA PublishPreserves ==
  ASSUME IInv, Publish
  PROVE  IInv'
<1>1. /\ flight # None /\ IsFlight(flight) /\ flight' = None
      /\ UNCHANGED <<regions, open, epoch, link>> /\ map = [x \in Keys |-> map[x]]
  BY Zenon DEF IInv, Typed, Publish, space
<1>2. FlightIsCurrent'
  BY <1>1, Zenon DEF FlightIsCurrent
<1>3. CASE epoch # flight.epoch
  <2>1. UNCHANGED map
    BY <1>3, Zenon DEF Publish
  <2>2. Typed'
    BY <1>1, <2>1, Zenon DEF IInv, Typed
  <2> QED
    BY <1>1, <1>2, <2>1, <2>2, Zenon
       DEF IInv, RegionsAreDisjoint, OpenIsShared, UnitsAreMapped, LinksAreCached
<1>4. CASE epoch = flight.epoch
  <2> DEFINE f == flight.key
             u == flight.unit
  <2>1. /\ map' = [map EXCEPT ![f] = u] /\ f \in Keys /\ IsUnit(u)
        /\ map[f] # None /\ ~map[f].comp /\ map[f].lo = u.lo /\ map[f].hi = u.hi
    BY <1>1, <1>4, Zenon DEF Publish, IInv, FlightIsCurrent, IsFlight
  <2> HIDE DEF f, u
  <2>2. map' = [x \in Keys |-> map'[x]] /\ \A x \in Keys : map'[x] = IF x = f THEN u ELSE map[x]
    BY <1>1, <2>1, Zenon
  <2>3. link[f] = None
    BY <2>1, Zenon DEF IInv, LinksAreCached
  <2>4. LinksAreCached' /\ \A x \in Keys : link'[x] # None => link'[x].comp
    BY <1>1, <2>2, <2>3, Zenon DEF IInv, LinksAreCached
  <2>5. UnitsAreMapped'
    BY <1>1, <2>1, <2>2, Zenon DEF IInv, UnitsAreMapped
  <2>6. Typed'
    BY <1>1, <2>1, <2>2, Zenon DEF IInv, Typed
  <2> QED
    BY <1>1, <1>2, <2>4, <2>5, <2>6, Zenon DEF IInv, RegionsAreDisjoint, OpenIsShared
<1> QED
  BY <1>3, <1>4, Zenon

LEMMA StutterPreserves ==
  ASSUME IInv, UNCHANGED <<regions, open, cache, flight>>
  PROVE  IInv'
<1>1. UNCHANGED <<regions, open, map, epoch, link, flight>>
  BY Zenon DEF cache
<1>2. Typed'
  BY <1>1, Zenon DEF IInv, Typed, IsFlight
<1> QED
  BY <1>1, <1>2, Zenon
     DEF IInv, RegionsAreDisjoint, OpenIsShared, UnitsAreMapped, FlightIsCurrent,
         LinksAreCached
-----------------------------------------------------------------------------
LEMMA InitIInv == Init => IInv
<1> SUFFICES ASSUME Init PROVE IInv
  BY Zenon
<1>1. regions = <<>> /\ regions \in Seq(Region) /\ DOMAIN regions = {}
  BY DEF Init
<1>2. Typed
  BY <1>1, Zenon DEF Init, Typed
<1> QED
  BY <1>1, <1>2, Zenon
     DEF Init, IInv, RegionsAreDisjoint, OpenIsShared, UnitsAreMapped, FlightIsCurrent,
         LinksAreCached

LEMMA NextIInv == IInv /\ [Next]_vars => IInv'
<1> SUFFICES ASSUME IInv, [Next]_vars PROVE IInv'
  BY Zenon
<1>1. ASSUME NEW a \in Addresses, NEW n \in Widths, Access(a, n) PROVE IInv'
  BY <1>1, StutterPreserves, Zenon DEF Access
<1>2. CASE UNCHANGED vars
  BY <1>2, StutterPreserves, Zenon DEF vars, space
<1> QED
  BY <1>1, <1>2, MapPreserves, UnmapPreserves, TranslatePreserves, LinkPreserves,
     SubmitPreserves, PublishPreserves DEF Next

LEMMA InductiveInvariant == Spec => []IInv
  BY InitIInv, NextIInv, PTL DEF Spec

(* Memory::map keeps the regions disjoint and inside the span.             *)
THEOREM RegionsStayDisjoint == Spec => []RegionsAreDisjoint
<1>1. IInv => RegionsAreDisjoint
  BY Zenon DEF IInv
<1> QED
  BY <1>1, InductiveInvariant, PTL

(* reprotect: the host pages that are accessible are those of the mapped   *)
(* regions, whatever their alignment and their order of coming and going.  *)
THEOREM GuardPagesFollowRegions == Spec => []GuardsAreExact
<1>1. IInv => GuardsAreExact
  <2>1. Cap \div PageSize \in Nat
    BY SpaceAssumption, SMT
  <2> QED
    BY <2>1 DEF IInv, Typed, OpenIsShared, GuardsAreExact
<1> QED
  BY <1>1, InductiveInvariant, PTL

(* No two regions hold an access: a scan finds the one that does.          *)
LEMMA ScanFinds ==
  ASSUME IInv, NEW a \in Addresses, NEW n \in Widths,
         NEW h \in DOMAIN regions, Contains(regions[h], a, n)
  PROVE  Scan(a, n) = h
<1>1. /\ DOMAIN regions \subseteq Nat
      /\ \A i \in DOMAIN regions : regions[i].start \in Nat /\ End(regions[i]) \in Nat
  BY RegionFacts, Zenon DEF IInv, Typed
<1>2. a \in Int /\ n \in Int /\ n >= 1
  BY SpaceAssumption, BlockAssumption DEF Addresses, Widths
<1>3. \A i \in DOMAIN regions : Contains(regions[i], a, n) => i = h
  BY <1>1, <1>2 DEF IInv, RegionsAreDisjoint, Overlaps, Contains
<1>4. {i \in DOMAIN regions : Contains(regions[i], a, n)} = {h}
  BY <1>3, Zenon
<1>5. Min({h}) = h
  BY <1>1 DEF Min
<1> QED
  BY <1>4, <1>5, Zenon DEF Scan

(* region_at: the hint that map and unmap leave behind is never wrong.     *)
THEOREM StaleHintIsHarmless == Spec => []HintIsHarmless
<1>1. IInv => HintIsHarmless
  BY ScanFinds, Zenon DEF HintIsHarmless, RegionAt
<1> QED
  BY <1>1, InductiveInvariant, PTL

(* Vm::unmap: no translation of unmapped bytes stays in the cache, nor is  *)
(* one published later by a compile that was in flight.                    *)
THEOREM UnmappedCodeIsDropped == Spec => []UnitsAreMapped
<1>1. IInv => UnitsAreMapped
  BY Zenon DEF IInv
<1> QED
  BY <1>1, InductiveInvariant, PTL

(* Vm::map and Vm::unmap: no chained edge leads to a dropped translation.  *)
THEOREM LinksLeadToCachedUnits == Spec => []LinksAreCached
<1>1. IInv => LinksAreCached
  BY Zenon DEF IInv
<1> QED
  BY <1>1, InductiveInvariant, PTL
-----------------------------------------------------------------------------
(* A set of naturals has a least element, and a greatest if bounded.       *)
LEMMA LeastOf ==
  ASSUME NEW S \in SUBSET Nat, S # {}
  PROVE  \E m \in S : \A x \in S : m <= x
<1> DEFINE R == OpToRel(<, Nat)
<1>1. PICK m \in S : \A x \in S : ~(<<x, m>> \in R)
  <2>1. IsWellFoundedOn(R, Nat)
    BY NatLessThanWellFounded, Zenon
  <2> HIDE DEF R
  <2> QED
    BY <2>1, WFMin, Zenon
<1>2. \A x \in S : x < m => <<x, m>> \in R
  BY Zenon DEF OpToRel
<1> HIDE DEF R
<1>3. \A x \in S : x \in Nat
  BY Zenon
<1>4. \A x \in S : ~(x < m)
  BY <1>1, <1>2, Zenon
<1>5. \A x \in S : m <= x
  BY <1>3, <1>4
<1> QED
  BY <1>5, Zenon

LEMMA GreatestOf ==
  ASSUME NEW S \in SUBSET Nat, S # {}, NEW b \in Nat, \A x \in S : x <= b
  PROVE  \E m \in S : \A x \in S : x <= m
<1> DEFINE B == {n \in Nat : \A x \in S : x <= n}
<1>1. B \in SUBSET Nat /\ B # {}
  BY Zenon
<1>2. PICK m \in B : \A n \in B : m <= n
  BY <1>1, LeastOf, Zenon
<1>3. m \in S
  <2>1. SUFFICES ASSUME m \notin S PROVE FALSE
    BY Zenon
  <2>2. \A x \in S : x < m
    BY <1>2, <2>1
  <2>3. PICK y \in S : TRUE
    BY Zenon
  <2>4. y \in Nat /\ m \in Nat /\ y < m /\ \A x \in S : x \in Nat
    BY <2>2, Zenon
  <2>5. m - 1 \in Nat /\ \A x \in S : x <= m - 1
    BY <2>2, <2>4
  <2>6. m - 1 \in B /\ ~(m <= m - 1)
    BY <2>4, <2>5
  <2> QED
    BY <1>2, <2>6, Zenon
<1> QED
  BY <1>2, <1>3, Zenon

LEMMA MinMax ==
  ASSUME NEW S \in SUBSET Nat, S # {}, NEW b \in Nat, \A x \in S : x <= b
  PROVE  /\ Min(S) \in S /\ \A x \in S : Min(S) <= x
         /\ Max(S) \in S /\ \A x \in S : x <= Max(S)
<1>1. \E m \in S : \A x \in S : m <= x
  BY LeastOf, Zenon
<1>2. \E m \in S : \A x \in S : m >= x
  BY GreatestOf, Zenon
<1> QED
  BY <1>1, <1>2, Zenon DEF Min, Max

(* The hull baked into compiled code covers every Trap region.             *)
Covers(w) ==
  /\ w.lo \in Nat /\ w.hi \in Nat
  /\ \A i \in DOMAIN regions :
       regions[i].kind = "Trap" => w.lo <= regions[i].start /\ End(regions[i]) <= w.hi

(* Of the code in the cache, and of what may still be published.           *)
HullIsCovered ==
  /\ \A k \in Keys : map[k] # None /\ map[k].comp => Covers(map[k].window)
  /\ flight # None /\ flight.epoch = epoch => Covers(flight.unit.window)

(* trap_window, as its minimum and maximum say.                            *)
LEMMA TrapWindowCovers ==
  ASSUME IInv
  PROVE  Covers(TrapWindow)
<1> DEFINE T == {i \in DOMAIN regions : regions[i].kind = "Trap"}
           L == {regions[i].start : i \in T}
           H == {End(regions[i]) : i \in T}
<1>1. CASE T = {}
  <2>1. TrapWindow = [lo |-> 0, hi |-> 0]
    BY <1>1, Zenon DEF TrapWindow
  <2> QED
    BY <1>1, <2>1, Zenon DEF Covers
<1>2. CASE T # {}
  <2>1. TrapWindow = [lo |-> Min(L), hi |-> Max(H)]
    BY <1>2, Zenon DEF TrapWindow
  <2>2. ASSUME NEW i \in T
        PROVE  /\ regions[i].start \in Nat /\ End(regions[i]) \in Nat
               /\ regions[i].start <= Span /\ End(regions[i]) <= Span
    <3>1. regions[i].start \in Nat /\ End(regions[i]) \in Nat /\ regions[i] \in Region
      BY RegionFacts, Zenon DEF IInv, Typed
    <3>2. End(regions[i]) <= Span
      BY Zenon DEF IInv, RegionsAreDisjoint
    <3>3. regions[i].start <= End(regions[i])
      BY <3>1 DEF End, Region
    <3> QED
      BY <3>1, <3>2, <3>3, SpaceAssumption
  <2>3. L \in SUBSET Nat /\ L # {} /\ \A x \in L : x <= Span
    BY <1>2, <2>2, Zenon
  <2>4. H \in SUBSET Nat /\ H # {} /\ \A x \in H : x <= Span
    BY <1>2, <2>2, Zenon
  <2>5. \A i \in T : regions[i].start \in L /\ End(regions[i]) \in H
    BY Zenon
  <2> HIDE DEF L, H
  <2>6. Min(L) \in L /\ \A x \in L : Min(L) <= x
    BY <2>3, MinMax, SpaceAssumption, Zenon
  <2>7. Max(H) \in H /\ \A x \in H : x <= Max(H)
    BY <2>4, MinMax, SpaceAssumption, Zenon
  <2>8. \A i \in T : Min(L) <= regions[i].start /\ End(regions[i]) <= Max(H)
    BY <2>5, <2>6, <2>7, Zenon
  <2> QED
    BY <2>1, <2>3, <2>4, <2>6, <2>7, <2>8, Zenon DEF Covers
<1> QED
  BY <1>1, <1>2, Zenon

LEMMA HullIsKept == IInv /\ HullIsCovered /\ [Next]_vars => HullIsCovered'
<1> SUFFICES ASSUME IInv, HullIsCovered, [Next]_vars PROVE HullIsCovered'
  BY Zenon
<1>1. ASSUME NEW w, UNCHANGED regions, Covers(w) PROVE Covers(w)'
  BY <1>1, Zenon DEF Covers
<1>2. ASSUME NEW s \in Starts, NEW n \in Sizes, NEW kind \in Kinds, Map(s, n, kind)
      PROVE  HullIsCovered'
  <2>1. CASE kind = "Trap"
    <3>1. /\ \A k \in Keys : map'[k] = None
          /\ epoch' = IF {k \in Keys : map[k] # None} = {} THEN epoch ELSE epoch + 1
          /\ flight' = flight
      BY <1>2, <2>1, Zenon DEF Map, Invalidate
    <3>2. flight # None => flight.epoch # epoch'
      <4>1. SUFFICES ASSUME flight # None, flight.epoch = epoch' PROVE FALSE
        BY Zenon
      <4>2. epoch \in Nat /\ flight.epoch \in Nat /\ flight.epoch <= epoch /\ flight.key \in Keys
        BY <4>1, Zenon DEF IInv, Typed, IsFlight
      <4>3. epoch' = epoch /\ \A k \in Keys : map[k] = None
        BY <3>1, <4>1, <4>2
      <4> QED
        BY <4>1, <4>2, <4>3, Zenon DEF IInv, FlightIsCurrent
    <3> QED
      BY <3>1, <3>2, Zenon DEF HullIsCovered
  <2>2. CASE kind # "Trap"
    <3>1. UNCHANGED <<map, epoch, flight>>
      BY <1>2, <2>2, Zenon DEF Map, cache
    <3> DEFINE r == [start |-> s, size |-> n, kind |-> kind]
    <3>2. regions \in Seq(Region) /\ regions' = Append(regions, r) /\ r \in Region
      BY <1>2, RegionAssumption, Zenon DEF Map, IInv, Typed, Region
    <3>3. /\ DOMAIN regions = 1 .. Len(regions) /\ Len(regions) \in Nat
          /\ DOMAIN regions' = 1 .. Len(regions) + 1
          /\ \A i \in 1 .. Len(regions) : regions'[i] = regions[i]
          /\ regions'[Len(regions) + 1] = r
      <4> HIDE DEF r
      <4> QED  BY <3>2, AppendProperties, LenProperties
    <3>4. \A i \in DOMAIN regions' : regions'[i].kind = "Trap" =>
            i \in DOMAIN regions /\ regions'[i] = regions[i]
      BY <2>2, <3>3
    <3>5. ASSUME NEW w, Covers(w) PROVE Covers(w)'
      BY <3>4, <3>5, Zenon DEF Covers
    <3> QED
      BY <3>1, <3>5, Zenon DEF HullIsCovered
  <2> QED
    BY <2>1, <2>2, Zenon
<1>3. ASSUME NEW i \in DOMAIN regions, Unmap(i) PROVE HullIsCovered'
  <2>1. /\ regions' = Removed(i) /\ regions \in Seq(Region) /\ flight' = flight
        /\ \A k \in Keys : map'[k] # None => map'[k] = map[k]
        /\ epoch' = epoch \/ epoch' = epoch + 1
    BY <1>3, Zenon DEF Unmap, Invalidate, IInv, Typed
  <2>2. \A j \in DOMAIN regions' : \E o \in DOMAIN regions : regions'[j] = regions[o]
    BY <2>1, RemovedFacts
  <2>3. ASSUME NEW w, Covers(w) PROVE Covers(w)'
    BY <2>2, <2>3, Zenon DEF Covers
  <2>4. flight # None /\ flight.epoch = epoch' => flight.epoch = epoch
    BY <2>1 DEF IInv, Typed, IsFlight
  <2> QED
    BY <2>1, <2>3, <2>4, Zenon DEF HullIsCovered
<1>4. ASSUME NEW k \in Keys, NEW comp \in BOOLEAN, Translate(k, comp) PROVE HullIsCovered'
  <2>1. PICK hi : map' = [map EXCEPT ![k] = [lo |-> k, hi |-> hi, comp |-> comp,
                                             window |-> TrapWindow]]
    BY <1>4, Zenon DEF Translate
  <2>2. UNCHANGED <<regions, epoch, flight>>
    BY <1>4, Zenon DEF Translate, space
  <2>3. \A x \in Keys : IF x = k THEN map'[x].window = TrapWindow ELSE map'[x] = map[x]
    BY <2>1, Zenon DEF IInv, Typed
  <2>4. Covers(TrapWindow)
    BY TrapWindowCovers, Zenon
  <2> QED
    BY <1>1, <2>2, <2>3, <2>4, Zenon DEF HullIsCovered
<1>5. ASSUME NEW k \in Keys, Submit(k) PROVE HullIsCovered'
  <2>1. UNCHANGED <<regions, epoch, map>> /\ flight'.unit.window = TrapWindow
    BY <1>5, Zenon DEF Submit, space, cache
  <2>2. Covers(TrapWindow)
    BY TrapWindowCovers, Zenon
  <2> QED
    BY <1>1, <2>1, <2>2, Zenon DEF HullIsCovered
<1>6. CASE Publish
  <2>1. UNCHANGED <<regions, epoch>> /\ flight # None /\ flight' = None
    BY <1>6, Zenon DEF Publish, space
  <2>2. CASE epoch = flight.epoch
    <3>1. \A x \in Keys : IF x = flight.key THEN map'[x] = flight.unit ELSE map'[x] = map[x]
      BY <1>6, <2>2 DEF Publish, IInv, Typed
    <3> QED
      BY <1>1, <2>1, <2>2, <3>1, Zenon DEF HullIsCovered
  <2>3. CASE epoch # flight.epoch
    BY <1>1, <1>6, <2>1, <2>3, Zenon DEF Publish, HullIsCovered
  <2> QED
    BY <2>2, <2>3, Zenon
<1>7. ASSUME UNCHANGED <<regions, map, epoch, flight>> PROVE HullIsCovered'
  BY <1>1, <1>7, Zenon DEF HullIsCovered
<1> QED
  BY <1>2, <1>3, <1>4, <1>5, <1>6, <1>7 DEF Next, vars, space, cache, Access, Link

(* Vm::map drops every translation when the hull of the Trap regions       *)
(* grows, so compiled code, published late or not, defers every access of  *)
(* a Trap region, and performs or defers every other mapped one.           *)
THEOREM CompiledAccessesAgree == Spec => []BackendsAgree
<1>1. Init => HullIsCovered
  BY Zenon DEF Init, HullIsCovered
<1>2. IInv /\ HullIsCovered => BackendsAgree
  <2>1. SUFFICES ASSUME IInv, HullIsCovered, NEW k \in Keys, map[k] # None, map[k].comp,
                        NEW a \in Addresses, NEW n \in Widths, Scan(a, n) # 0
                 PROVE  IF regions[Scan(a, n)].kind = "Trap" THEN Jit(map[k], a, n) = "defer"
                        ELSE Jit(map[k], a, n) \in {"defer", "inline"}
    BY Zenon DEF BackendsAgree
  <2>2. PICK i \in DOMAIN regions : Contains(regions[i], a, n)
    BY <2>1, Zenon DEF Scan
  <2>3. Scan(a, n) = i
    BY <2>1, <2>2, ScanFinds, Zenon
  <2>4. /\ a \in Nat /\ n \in Nat \ {0} /\ Base \in Nat /\ Span \in Nat
    BY SpaceAssumption, BlockAssumption DEF Addresses, Widths
  <2>5. /\ regions[i] \in Region /\ regions[i].start \in Nat /\ End(regions[i]) \in Nat
        /\ Base <= regions[i].start /\ End(regions[i]) <= Span
        /\ regions[i].start <= a /\ a + n <= End(regions[i])
    BY <2>1, <2>2, RegionFacts, Zenon DEF IInv, Typed, RegionsAreDisjoint, Contains
  <2>6. ~(a < Base \/ a + n > Span)
    BY <2>4, <2>5
  <2>7. CASE regions[i].kind = "Trap"
    <3>1. map[k].window.lo <= regions[i].start /\ End(regions[i]) <= map[k].window.hi
      BY <2>1, <2>7, Zenon DEF HullIsCovered, Covers
    <3>2. map[k].window.lo \in Nat /\ map[k].window.hi \in Nat
      BY <2>1, Zenon DEF HullIsCovered, Covers
    <3>3. map[k].window.lo <= a /\ a < map[k].window.hi
      BY <2>4, <2>5, <3>1, <3>2
    <3> QED
      BY <2>3, <2>6, <2>7, <3>3, Zenon DEF Jit
  <2>8. CASE regions[i].kind # "Trap"
    <3> DEFINE r == [start |-> a, size |-> n, kind |-> "Ram"]
    <3>1. InSpan(r) /\ InSpan(regions[i]) /\ HostPages(r) = Rounded(a - Base, a + n - Base)
      BY <2>4, <2>5, <2>6 DEF InSpan, Region, End, HostPages
    <3>2. ASSUME NEW p \in HostPages(r) PROVE p \in open
      <4>1. p \in Int
        BY <2>4, <3>1, SpaceAssumption, SMT DEF Rounded
      <4>2. p \in Nat /\ Shares(r, p)
        BY <3>1, <3>2, <4>1, PagesAreShared, Zenon
      <4>3. PageSize * p \in Int /\ PageSize \in Nat /\ Cap \in Nat
        BY <4>1, SpaceAssumption, SMT
      <4> DEFINE m == PageSize * p + PageSize
      <4>4. Min({m, Cap}) \in Int
        <5>1. m \in Int
          BY <4>3
        <5> HIDE DEF m
        <5>2. Min({m, Cap}) = IF m <= Cap THEN m ELSE Cap
          BY <4>3, <5>1 DEF Min
        <5> QED  BY <4>3, <5>1, <5>2
      <4>5. Shares(regions[i], p)
        BY <2>4, <2>5, <4>2, <4>3, <4>4 DEF Shares, End
      <4> QED
        BY <2>1, <4>1, <4>2, <4>5, Zenon DEF IInv, OpenIsShared
    <3> QED
      BY <2>3, <2>6, <2>8, <3>1, <3>2, Zenon DEF Jit
  <2> QED
    BY <2>7, <2>8, Zenon
<1> QED
  BY <1>1, <1>2, HullIsKept, InitIInv, NextIInv, PTL DEF Spec
-----------------------------------------------------------------------------
Aligned(x) == \E q \in Nat : x = PageSize * q

(* Every region the embedder maps starts on a page boundary; where it ends *)
(* is left open.                                                           *)
PagedStarts == \A s \in Starts : Aligned(s)

RegionsArePaged == \A i \in DOMAIN regions : Aligned(regions[i].start)

(* A page of [lo, hi), where lo is not before a page boundary s, does not  *)
(* begin before s.                                                         *)
LEMMA PageIsInside ==
  ASSUME NEW s \in Nat, NEW lo \in Nat, NEW hi \in Nat, s <= lo, Aligned(s),
         NEW p \in CodePages(lo, hi)
  PROVE  p \in Int /\ s <= PageSize * p /\ PageSize * p < hi
<1>1. PageSize \in Nat \ {0}
  BY SpaceAssumption
<1>2. lo \div PageSize \in Int /\ (hi + PageSize - 1) \div PageSize \in Int
  BY <1>1, SMT
<1>3. p \in Int /\ lo \div PageSize <= p /\ ~((hi + PageSize - 1) \div PageSize <= p)
  BY <1>2 DEF CodePages, Rounded
<1>4. PageSize * p \in Int
  BY <1>1, <1>3, SMT
<1>5. lo < PageSize * p + PageSize
  BY <1>1, <1>3, Floor, Zenon
<1>6. ~(hi + PageSize - 1 < PageSize * p + PageSize)
  <2>1. hi + PageSize - 1 \in Nat
    BY <1>1
  <2> QED
    BY <1>1, <1>3, <2>1, Floor, Zenon
<1>7. PICK q \in Nat : s = PageSize * q
  BY Zenon DEF Aligned
<1>8. p < q => PageSize * (p + 1) <= PageSize * q
  BY <1>1, <1>3, SMT
<1>9. PageSize * (p + 1) = PageSize * p + PageSize
  BY <1>1, <1>3, SMT
<1>10. ~(p < q)
  <2>1. PageSize * q \in Int /\ s <= lo
    BY <1>7
  <2> QED
    BY <1>1, <1>4, <1>5, <1>7, <1>8, <1>9, <2>1
<1>11. PageSize * q <= PageSize * p
  BY <1>1, <1>3, <1>10, SMT
<1> QED
  BY <1>1, <1>3, <1>4, <1>6, <1>7, <1>11

(* The pages Vm::unmap clears with one region hold no byte of a unit that  *)
(* lies in another.                                                        *)
LEMMA PagesAreApart ==
  ASSUME IInv, RegionsArePaged, NEW i \in DOMAIN regions, NEW j \in DOMAIN regions, i # j,
         NEW u, IsUnit(u), Contains(regions[j], u.lo, u.hi - u.lo)
  PROVE  CodePages(u.lo, u.hi) \cap CodePages(regions[i].start, End(regions[i])) = {}
<1> SUFFICES ASSUME NEW p \in CodePages(u.lo, u.hi),
                    p \in CodePages(regions[i].start, End(regions[i]))
             PROVE  FALSE
  BY Zenon
<1>1. /\ regions[i].start \in Nat /\ End(regions[i]) \in Nat
      /\ regions[j].start \in Nat /\ End(regions[j]) \in Nat
  BY RegionFacts, Zenon DEF IInv, Typed
<1>2. /\ u.lo \in Nat /\ u.hi \in Nat
      /\ regions[j].start <= u.lo /\ u.hi <= End(regions[j])
  BY <1>1 DEF IsUnit, Contains
<1>3. p \in Int /\ regions[j].start <= PageSize * p /\ PageSize * p < u.hi
  BY <1>1, <1>2, PageIsInside, Zenon DEF RegionsArePaged
<1>4. regions[i].start <= regions[i].start
  BY <1>1
<1>5. regions[i].start <= PageSize * p /\ PageSize * p < End(regions[i])
  BY <1>1, <1>4, PageIsInside, Zenon DEF RegionsArePaged
<1>6. PageSize * p \in Int
  BY <1>3, SpaceAssumption, SMT
<1>7. Overlaps(regions[i], regions[j].start, End(regions[j]))
  BY <1>1, <1>2, <1>3, <1>5, <1>6 DEF Overlaps
<1> QED
  BY <1>7, Zenon DEF IInv, RegionsAreDisjoint

LEMMA TagsAreKept ==
  ASSUME PagedStarts
  PROVE  IInv /\ RegionsArePaged /\ TagsCoverUnits /\ [Next]_vars
           => RegionsArePaged' /\ TagsCoverUnits'
<1> SUFFICES ASSUME IInv, RegionsArePaged, TagsCoverUnits, [Next]_vars
             PROVE  RegionsArePaged' /\ TagsCoverUnits'
  BY Zenon
<1>1. ASSUME UNCHANGED <<regions, map>>, tag \subseteq tag'
      PROVE  RegionsArePaged' /\ TagsCoverUnits'
  BY <1>1, Zenon DEF RegionsArePaged, TagsCoverUnits
<1>2. ASSUME NEW s \in Starts, NEW n \in Sizes, NEW kind \in Kinds, Map(s, n, kind)
      PROVE  RegionsArePaged' /\ TagsCoverUnits'
  <2>1. RegionsArePaged'
    <3> DEFINE r == [start |-> s, size |-> n, kind |-> kind]
    <3>1. r \in Region /\ r.start = s /\ regions \in Seq(Region) /\ regions' = Append(regions, r)
      BY <1>2, RegionAssumption DEF Region, Map, IInv, Typed
    <3> HIDE DEF r
    <3>2. \A i \in DOMAIN regions' : regions'[i] = r \/ (i \in DOMAIN regions /\ regions'[i] = regions[i])
      BY <3>1, AppendProperties, LenProperties
    <3> QED
      BY <3>1, <3>2, Zenon DEF RegionsArePaged, PagedStarts
  <2>2. TagsCoverUnits'
    <3>1. CASE kind = "Trap"
      BY <1>2, <3>1, Zenon DEF Map, Invalidate, TagsCoverUnits
    <3>2. CASE kind # "Trap"
      BY <1>2, <3>2, Zenon DEF Map, cache, TagsCoverUnits
    <3> QED
      BY <3>1, <3>2, Zenon
  <2> QED
    BY <2>1, <2>2, Zenon
<1>3. ASSUME NEW i \in DOMAIN regions, Unmap(i)
      PROVE  RegionsArePaged' /\ TagsCoverUnits'
  <2>1. /\ regions' = Removed(i) /\ regions \in Seq(Region)
        /\ tag' = tag \ CodePages(regions[i].start, End(regions[i]))
        /\ \A k \in Keys : map'[k] # None =>
             map'[k] = map[k] /\ k \notin Victims(regions[i].start, End(regions[i]))
    BY <1>3, Zenon DEF Unmap, Invalidate, IInv, Typed
  <2>2. \A j \in DOMAIN regions' : \E o \in DOMAIN regions : regions'[j] = regions[o]
    BY <1>3, <2>1, RemovedFacts, Zenon
  <2>3. ASSUME NEW k \in Keys, map'[k] # None
        PROVE  CodePages(map'[k].lo, map'[k].hi) \subseteq tag'
    <3>1. /\ map'[k] = map[k] /\ map[k] # None /\ IsUnit(map[k])
          /\ k \notin Victims(regions[i].start, End(regions[i]))
      BY <2>1, <2>3, Zenon DEF IInv, Typed
    <3>2. PICK j \in DOMAIN regions : Contains(regions[j], map[k].lo, map[k].hi - map[k].lo)
      BY <3>1, Zenon DEF IInv, UnitsAreMapped
    <3>3. j # i
      <4>1. regions[i].start \in Nat /\ End(regions[i]) \in Nat
        BY <1>3, <2>1, RegionFacts, Zenon
      <4>2. SUFFICES ASSUME j = i PROVE k \in Victims(regions[i].start, End(regions[i]))
        BY <3>1, Zenon
      <4> QED
        BY <3>1, <3>2, <4>1, <4>2 DEF Contains, Victims, IsUnit
    <3>4. CodePages(map[k].lo, map[k].hi) \cap CodePages(regions[i].start, End(regions[i])) = {}
      BY <1>3, <3>1, <3>2, <3>3, PagesAreApart, Zenon
    <3>5. CodePages(map[k].lo, map[k].hi) \subseteq tag
      BY <3>1, Zenon DEF TagsCoverUnits
    <3> QED
      BY <2>1, <3>1, <3>4, <3>5, Zenon
  <2> QED
    BY <2>2, <2>3, Zenon DEF RegionsArePaged, TagsCoverUnits
<1>4. ASSUME NEW k \in Keys, NEW comp \in BOOLEAN, Translate(k, comp)
      PROVE  RegionsArePaged' /\ TagsCoverUnits'
  <2>1. PICK h : /\ regions' = regions /\ tag' = tag \cup CodePages(k, h)
                 /\ map' = [map EXCEPT ![k] = [lo |-> k, hi |-> h, comp |-> comp,
                                              window |-> TrapWindow]]
    BY <1>4, Zenon DEF Translate, space
  <2>2. map = [x \in Keys |-> map[x]]
    BY Zenon DEF IInv, Typed
  <2>3. ASSUME NEW x \in Keys, map'[x] # None
        PROVE  \/ map'[x] = map[x]
               \/ map'[x].lo = k /\ map'[x].hi = h
    BY <2>1, <2>2
  <2> QED
    BY <2>1, <2>3, Zenon DEF RegionsArePaged, TagsCoverUnits
<1>5. CASE Publish
  <2>1. /\ regions' = regions /\ tag \subseteq tag'
        /\ \/ map' = map
           \/ /\ map' = [map EXCEPT ![flight.key] = flight.unit]
              /\ tag' = tag \cup CodePages(flight.unit.lo, flight.unit.hi)
    BY <1>5, Zenon DEF Publish, space
  <2>2. map = [x \in Keys |-> map[x]]
    BY Zenon DEF IInv, Typed
  <2>3. ASSUME NEW x \in Keys, map'[x] # None
        PROVE  \/ map'[x] = map[x]
               \/ /\ map'[x] = flight.unit
                  /\ tag' = tag \cup CodePages(flight.unit.lo, flight.unit.hi)
    BY <2>1, <2>2, Zenon
  <2> QED
    BY <2>1, <2>3, Zenon DEF RegionsArePaged, TagsCoverUnits
<1> QED
  BY <1>1, <1>2, <1>3, <1>4, <1>5 DEF Next, vars, space, cache, Access, Link, Submit

(* invalidate_overlapping, "no live block's page is ever left cleared":    *)
(* if regions start on page boundaries, unmapping one, by page, leaves the *)
(* pages of every surviving translation tagged.  Regions that share a page *)
(* break this (RegionsShared.cfg).                                         *)
THEOREM PagedRegionsKeepTags ==
  ASSUME PagedStarts
  PROVE  Spec => []TagsCoverUnits
<1>1. Init => RegionsArePaged /\ TagsCoverUnits
  BY DEF Init, RegionsArePaged, TagsCoverUnits
<1> QED
  BY <1>1, TagsAreKept, InitIInv, NextIInv, PTL DEF Spec

(* ---------------------------- Watched pages ---------------------------- *)

(* Dirty tracking with one embedder thread and any number of writers,      *)
(* pages, words and stores: no written page is lost and a drain is         *)
(* complete.  With two embedder threads neither holds: the second to watch *)
(* a page returns at once, while the first has yet to raise the count, and *)
(* a store in between is stopped by the gate.                              *)

OneEmbedder == \A e, f \in Embedders : e = f

(* Pages of embedders at a place.                                          *)
PagesAt(l) == {page[e] : e \in {f \in Embedders : pc[f] = l}}

Types ==
  /\ watch \subseteq Pages
  /\ pc \in [Embedders -> {"idle", "wcount", "wword", "ucount", "udirty", "utest",
                            "uremove", "lock", "scan"}]
  /\ page \in [Embedders -> Pages \cup {Nothing}]
  /\ scan \in [Embedders -> SUBSET {WordOf(p) : p \in Pages}]
  /\ words \subseteq {WordOf(p) : p \in Pages}
  /\ DOMAIN got = Embedders /\ DOMAIN must = Embedders
  /\ wpc \in [Writers -> {"idle", "gate", "test", "load", "set"}]
  /\ todo \in [Writers -> SUBSET Pages] /\ at \in [Writers -> Pages \cup {Nothing}]
  /\ written \subseteq registered /\ registered \subseteq watch

(* Where the embedder is tells how far its page is watched.                *)
Places ==
  \A e \in Embedders :
    /\ pc[e] \in {"wcount", "wword"} => page[e] \in watch \ registered
    /\ pc[e] \in {"ucount", "udirty"} => page[e] \in Pages \ watch
    /\ pc[e] \notin {"wcount", "wword"} => watch = registered
    /\ pc[e] \in {"wcount", "wword"} => watch = registered \cup {page[e]}
    /\ pc[e] = "uremove" => InWord(watch, WordOf(page[e])) = {}

(* The pages that count counts.                                            *)
Counted == (watch \ PagesAt("wcount")) \cup PagesAt("ucount")

CountMatches == count = Cardinality(Counted)

Listed == \A p \in registered : WordOf(p) \in words

WritersIdle ==
  \A t \in Writers :
    /\ wpc[t] = "idle" => todo[t] = {}
    /\ wpc[t] \notin {"load", "set"} => at[t] = Nothing

(* What the running drain still owes is dirty, in a word it will reach.    *)
Owed ==
  \A e \in Embedders : pc[e] \in {"lock", "scan"} =>
    \A p \in must[e] :
      \/ p \in got[e]
      \/ /\ p \in dirty
         /\ pc[e] = "lock" => WordOf(p) \in words
         /\ pc[e] = "scan" => WordOf(p) \in scan[e]

WatchInv == Types /\ Places /\ CountMatches /\ Listed /\ WritersIdle /\ NoPageLost /\ Owed
-----------------------------------------------------------------------------
LEMMA CountedIsFinite ==
  ASSUME Types, Places
  PROVE  Counted \subseteq Pages /\ IsFiniteSet(Counted)
<1>1. Counted \subseteq Pages
      BY DEF Types, Places, Counted, PagesAt
<1> QED BY <1>1, PagesAssumption, FS_Subset, Zenon

(* A registered page keeps the gate of the store path open.                *)
LEMMA GateIsOpen ==
  ASSUME WatchInv, registered # {}
  PROVE  count # 0
<1>1. registered \subseteq Counted
      BY DEF WatchInv, Types, Places, Counted, PagesAt
<1>2. IsFiniteSet(Counted)
      BY CountedIsFinite DEF WatchInv
<1> QED BY <1>1, <1>2, FS_EmptySet DEF WatchInv, CountMatches

LEMMA WatchInitInv == WatchInit => WatchInv
<1> SUFFICES ASSUME WatchInit PROVE WatchInv
    OBVIOUS
<1>1. Counted = {}
      BY DEF WatchInit, Counted, PagesAt
<1>2. CountMatches
      BY <1>1, FS_EmptySet DEF WatchInit, CountMatches
<1> QED BY <1>2 DEF WatchInit, WatchInv, Types, Places, Listed, WritersIdle, NoPageLost, Owed

LEMMA EmbedderStep ==
  ASSUME OneEmbedder, WatchInv, NEW e \in Embedders, Embedder(e)
  PROVE  WatchInv'
<1> USE DEF Goto
<1>0. /\ Types /\ Places /\ Listed /\ WritersIdle /\ NoPageLost /\ Owed
      /\ \A f \in Embedders : f = e
      BY DEF WatchInv, OneEmbedder
<1>w. ASSUME UNCHANGED writer, Types' PROVE WritersIdle' /\ Noting' = Noting
      BY <1>0, <1>w DEF writer, WritersIdle, Noting
<1>c. ASSUME Counted' = Counted, count' = count PROVE CountMatches'
      BY <1>c DEF WatchInv, CountMatches
<1>1. ASSUME NEW p \in Pages, WatchSet(e, p) PROVE WatchInv'
  <2> USE DEF WatchSet
  <2>1. Types'
        BY <1>0, <1>1 DEF Types, drain, writer
  <2>2. Places'
        BY <1>0, <1>1 DEF Types, Places, InWord
  <2>3. Counted' = Counted
        BY <1>0, <1>1 DEF Types, Counted, PagesAt
  <2>4. Listed'
        BY <1>0, <1>1 DEF Listed, Places
  <2>5. Owed'
        BY <1>0, <1>1 DEF Types, Owed, drain
  <2> QED BY <1>0, <1>1, <1>w, <1>c, <2>1, <2>2, <2>3, <2>4, <2>5 DEF WatchInv, NoPageLost
<1>2. ASSUME NEW p \in Pages, UnwatchClear(e, p) PROVE WatchInv'
  <2> USE DEF UnwatchClear
  <2>1. Types'
        BY <1>0, <1>2 DEF Types, drain, writer
  <2>2. Places'
        BY <1>0, <1>2 DEF Types, Places, InWord
  <2>3. Counted' = Counted
        BY <1>0, <1>2 DEF Types, Counted, PagesAt
  <2>4. Listed'
        BY <1>0, <1>2 DEF Listed
  <2>5. Owed'
        BY <1>0, <1>2 DEF Types, Owed, drain
  <2> QED BY <1>0, <1>2, <1>w, <1>c, <2>1, <2>2, <2>3, <2>4, <2>5 DEF WatchInv, NoPageLost
<1>3. CASE WatchCount(e)
  <2> USE DEF WatchCount
  <2>1. Types' /\ Places'
        BY <1>0, <1>3 DEF Types, Places, drain, writer
  <2>2. page[e] \in watch /\ page[e] \notin Counted /\ Counted' = Counted \cup {page[e]}
        BY <1>0, <1>3 DEF Types, Places, Counted, PagesAt
  <2>3. CountMatches'
        BY <1>0, <1>3, <2>2, CountedIsFinite, FS_AddElement, Zenon DEF WatchInv, CountMatches
  <2>4. Listed' /\ Owed'
        BY <1>0, <1>3 DEF Types, Listed, Owed, drain
  <2> QED BY <1>0, <1>3, <1>w, <2>1, <2>3, <2>4 DEF WatchInv, NoPageLost
<1>4. CASE WatchWord(e)
  <2> USE DEF WatchWord
  <2>1. Types' /\ Places'
        BY <1>0, <1>4 DEF Types, Places, drain, writer
  <2>2. Counted' = Counted
        BY <1>0, <1>4 DEF Types, Counted, PagesAt
  <2>3. Listed' /\ Owed'
        BY <1>0, <1>4 DEF Types, Listed, Owed, drain
  <2> QED BY <1>0, <1>4, <1>w, <1>c, <2>1, <2>2, <2>3 DEF WatchInv, NoPageLost
<1>5. CASE UnwatchCount(e)
  <2> USE DEF UnwatchCount
  <2>1. Types' /\ Places'
        BY <1>0, <1>5 DEF Types, Places, drain, writer
  <2>2. page[e] \in Counted /\ Counted' = Counted \ {page[e]}
        BY <1>0, <1>5 DEF Types, Places, Counted, PagesAt
  <2>3. CountMatches'
        BY <1>0, <1>5, <2>2, CountedIsFinite, FS_RemoveElement, Zenon DEF WatchInv, CountMatches
  <2>4. Listed' /\ Owed'
        BY <1>0, <1>5 DEF Types, Listed, Owed, drain
  <2> QED BY <1>0, <1>5, <1>w, <2>1, <2>3, <2>4 DEF WatchInv, NoPageLost
<1>6. CASE UnwatchDirty(e)
  <2> USE DEF UnwatchDirty
  <2>1. Types' /\ Places'
        BY <1>0, <1>6 DEF Types, Places, drain, writer
  <2>2. Counted' = Counted
        BY <1>0, <1>6 DEF Types, Counted, PagesAt
  <2>3. Listed' /\ Owed'
        BY <1>0, <1>6 DEF Types, Listed, Owed, drain
  <2>4. page[e] \notin written
        BY <1>0, <1>6 DEF Types, Places
  <2> QED BY <1>0, <1>6, <1>w, <1>c, <2>1, <2>2, <2>3, <2>4 DEF WatchInv, NoPageLost
<1>7. CASE UnwatchTest(e)
  <2> USE DEF UnwatchTest
  <2>1. Types' /\ Places'
        BY <1>0, <1>7 DEF Types, Places, InWord, bitmaps, drain, writer
  <2>2. Counted' = Counted
        BY <1>0, <1>7 DEF Types, Counted, PagesAt, bitmaps
  <2>3. Listed' /\ Owed'
        BY <1>0, <1>7 DEF Types, Listed, Owed, bitmaps, drain
  <2> QED BY <1>0, <1>7, <1>w, <1>c, <2>1, <2>2, <2>3 DEF WatchInv, NoPageLost, bitmaps
<1>8. CASE UnwatchRemove(e)
  <2> USE DEF UnwatchRemove
  <2>1. Types' /\ Places'
        BY <1>0, <1>8 DEF Types, Places, drain, writer
  <2>2. Counted' = Counted
        BY <1>0, <1>8 DEF Types, Counted, PagesAt
  <2>3. Listed'
        BY <1>0, <1>8 DEF Types, Places, Listed, InWord
  <2>4. Owed'
        BY <1>0, <1>8 DEF Types, Owed, drain
  <2> QED BY <1>0, <1>8, <1>w, <1>c, <2>1, <2>2, <2>3, <2>4 DEF WatchInv, NoPageLost
<1>9. CASE TakeGate(e)
  <2> USE DEF TakeGate
  <2>1. Types' /\ Places'
        BY <1>0, <1>9 DEF Types, Places, bitmaps, writer
  <2>2. Counted' = Counted
        BY <1>0, <1>9 DEF Types, Counted, PagesAt, bitmaps
  <2>3. written \ Noting \subseteq dirty /\ \A p \in written : WordOf(p) \in words
        BY <1>0 DEF NoPageLost, Listed, Types
  <2>4. Listed' /\ Owed'
        BY <1>0, <1>9, <2>3 DEF Types, Listed, Owed, bitmaps
  <2> QED BY <1>0, <1>9, <1>w, <1>c, <2>1, <2>2, <2>4 DEF WatchInv, NoPageLost, bitmaps
<1>10. CASE TakeLock(e)
  <2> USE DEF TakeLock
  <2>1. Types' /\ Places'
        BY <1>0, <1>10, Zenon DEF Types, Places, bitmaps, writer
  <2>2. Counted' = Counted
        BY <1>0, <1>10 DEF Types, Counted, PagesAt, bitmaps
  <2>3. Listed' /\ Owed'
        BY <1>0, <1>10 DEF Types, Listed, Owed, bitmaps
  <2> QED BY <1>0, <1>10, <1>w, <1>c, <2>1, <2>2, <2>3 DEF WatchInv, NoPageLost, bitmaps
<1>11. CASE TakeWord(e)
  <2>1. PICK w : /\ scan' = [scan EXCEPT ![e] = scan[e] \ {w}]
                 /\ got' = [got EXCEPT ![e] = got[e] \cup InWord(dirty, w)]
                 /\ dirty' = dirty \ InWord(dirty, w)
                 /\ written' = written \ InWord(dirty, w)
        BY <1>11, Zenon DEF TakeWord
  <2>2. pc[e] = "scan" /\ UNCHANGED <<watch, words, count, pc, page, must, writer, registered>>
        BY <1>11 DEF TakeWord
  <2>3. Types' /\ Places'
        BY <1>0, <2>1, <2>2, Zenon DEF Types, Places, writer
  <2>4. Counted' = Counted
        BY <2>2 DEF Counted, PagesAt
  <2>5. Listed'
        BY <1>0, <2>2 DEF Listed
  <2>6. Owed'
        BY <1>0, <2>1, <2>2 DEF Types, Owed, InWord
  <2> QED BY <1>0, <1>w, <1>c, <2>1, <2>2, <2>3, <2>4, <2>5, <2>6 DEF WatchInv, NoPageLost
<1>12. CASE TakeDone(e)
  <2>1. pc' = [pc EXCEPT ![e] = "idle"] /\ pc[e] = "scan"
        /\ UNCHANGED <<bitmaps, page, scan, got, must, writer, registered, written>>
        BY <1>12 DEF TakeDone
  <2>2. Types' /\ Places'
        BY <1>0, <2>1, Zenon DEF Types, Places, bitmaps, writer
  <2>3. Counted' = Counted
        BY <1>0, <2>1 DEF Types, Counted, PagesAt, bitmaps
  <2>4. Listed' /\ Owed'
        BY <1>0, <2>1 DEF Types, Listed, Owed, bitmaps
  <2> QED BY <1>0, <1>w, <1>c, <2>1, <2>2, <2>3, <2>4 DEF WatchInv, NoPageLost, bitmaps
<1> QED BY <1>1, <1>2, <1>3, <1>4, <1>5, <1>6, <1>7, <1>8, <1>9, <1>10, <1>11, <1>12
        DEF Embedder

(* What a writer's step leaves alone, and what is left to show of it.      *)
LEMMA WriterKeeps ==
  ASSUME WatchInv, UNCHANGED <<watch, words, count, pc, page, drain, registered>>,
         dirty \subseteq dirty', written' \subseteq registered,
         wpc' \in [Writers -> {"idle", "gate", "test", "load", "set"}],
         todo' \in [Writers -> SUBSET Pages], at' \in [Writers -> Pages \cup {Nothing}],
         WritersIdle', NoPageLost'
  PROVE  WatchInv'
<1>1. Types' /\ Places'
      BY Zenon DEF WatchInv, Types, Places, drain
<1>2. CountMatches' /\ Listed'
      BY Zenon DEF WatchInv, CountMatches, Counted, PagesAt, Listed
<1>3. Owed'
      BY DEF WatchInv, Owed, drain
<1> QED BY <1>1, <1>2, <1>3 DEF WatchInv

(* A page that leaves the hands of the writers is dirty or not written.    *)
LEMMA StillNoted ==
  ASSUME WatchInv, written' = written, dirty \subseteq dirty', NEW t \in Writers, NEW x,
         \A u \in Writers \ {t} : todo'[u] = todo[u] /\ at'[u] = at[u],
         \A p \in todo[t] \cup {at[t]} :
           p # x => p \in todo'[t] \/ at'[t] = p \/ p = Nothing \/ p \notin written,
         x \in written => x \in dirty'
  PROVE  NoPageLost'
<1> SUFFICES ASSUME NEW p \in written PROVE p \in dirty' \cup Noting'
    BY DEF NoPageLost
<1>1. p # Nothing /\ p \in Pages
      BY NothingAssumption DEF WatchInv, Types
<1>2. p \in dirty \/ \E u \in Writers : p \in todo[u] \/ at[u] = p
      BY <1>1 DEF WatchInv, NoPageLost, Noting
<1>3. p \in dirty' \/ \E u \in Writers : p \in todo'[u] \/ at'[u] = p
      BY <1>1, <1>2, Zenon
<1> QED BY <1>1, <1>3 DEF Noting

LEMMA WriterStep ==
  ASSUME WatchInv, NEW t \in Writers, Writer(t)
  PROVE  WatchInv'
<1>0. /\ WritersIdle /\ NoPageLost
      /\ written \subseteq registered /\ registered \subseteq watch /\ watch \subseteq Pages
      /\ wpc \in [Writers -> {"idle", "gate", "test", "load", "set"}]
      /\ todo \in [Writers -> SUBSET Pages] /\ at \in [Writers -> Pages \cup {Nothing}]
      BY DEF WatchInv, Types
<1>1. ASSUME NEW S \in Stores, Store(t, S) PROVE WatchInv'
  <2>1. /\ todo' = [todo EXCEPT ![t] = S] /\ wpc' = [wpc EXCEPT ![t] = "gate"]
        /\ written' = written \cup (S \cap registered)
        /\ todo[t] = {} /\ wpc[t] = "idle"
        /\ UNCHANGED <<bitmaps, pc, page, drain, at, registered>>
        BY <1>0, <1>1 DEF Store, WritersIdle
  <2>2. S \subseteq Pages
        BY StoresAssumption
  <2>3. NoPageLost'
    <3> SUFFICES ASSUME NEW p \in written' PROVE p \in dirty' \cup Noting'
        BY DEF NoPageLost
    <3>1. p # Nothing /\ p \in Pages
          BY <1>0, <2>1, NothingAssumption
    <3>2. p \in S \/ p \in dirty \/ \E u \in Writers : p \in todo[u] \/ at[u] = p
          BY <1>0, <2>1, <3>1 DEF NoPageLost, Noting
    <3>3. p \in dirty' \/ \E u \in Writers : p \in todo'[u] \/ at'[u] = p
          BY <1>0, <2>1, <3>2 DEF bitmaps
    <3> QED BY <3>1, <3>3 DEF Noting
  <2>4. WritersIdle'
        BY <1>0, <2>1 DEF WritersIdle
  <2> QED BY <1>0, <2>1, <2>2, <2>3, <2>4, WriterKeeps DEF bitmaps
<1>2. CASE NoteGate(t)
  <2>1. CASE count = 0
    <3>1. written = {} /\ registered = {}
          BY <1>0, <2>1, GateIsOpen
    <3>2. /\ todo' = [todo EXCEPT ![t] = {}] /\ wpc' = [wpc EXCEPT ![t] = "idle"]
          /\ wpc[t] = "gate"
          /\ UNCHANGED <<bitmaps, pc, page, drain, at, registered, written>>
          BY <1>2, <2>1 DEF NoteGate
    <3>3. NoPageLost' /\ WritersIdle'
          BY <1>0, <3>1, <3>2 DEF NoPageLost, WritersIdle
    <3> QED BY <1>0, <3>2, <3>3, WriterKeeps DEF bitmaps
  <2>2. CASE count # 0
    <3>1. /\ wpc' = [wpc EXCEPT ![t] = "test"] /\ wpc[t] = "gate"
          /\ UNCHANGED <<bitmaps, pc, page, drain, todo, at, registered, written>>
          BY <1>2, <2>2 DEF NoteGate
    <3>2. NoPageLost' /\ WritersIdle'
          BY <1>0, <3>1 DEF NoPageLost, WritersIdle, Noting, bitmaps
    <3> QED BY <1>0, <3>1, <3>2, WriterKeeps DEF bitmaps
  <2> QED BY <2>1, <2>2
<1>3. ASSUME NEW p \in Pages, NoteTest(t, p) PROVE WatchInv'
  <2>0. /\ wpc[t] = "test" /\ p \in todo[t]
        /\ UNCHANGED <<bitmaps, pc, page, drain, registered, written>>
        BY <1>3 DEF NoteTest
  <2>1. CASE p \in watch
    <3>1. /\ at' = [at EXCEPT ![t] = p] /\ todo' = [todo EXCEPT ![t] = todo[t] \ {p}]
          /\ wpc' = [wpc EXCEPT ![t] = "load"] /\ at[t] = Nothing
          BY <1>0, <1>3, <2>1 DEF NoteTest, WritersIdle
    <3>2. NoPageLost'
      <4>1. \A u \in Writers \ {t} : todo'[u] = todo[u] /\ at'[u] = at[u]
            BY <1>0, <3>1
      <4>2. \A q \in todo[t] \cup {at[t]} : q # Nothing => q \in todo'[t] \/ at'[t] = q
            BY <1>0, <3>1
      <4>3. Nothing \notin written
            BY <1>0, NothingAssumption
      <4> QED BY <2>0, <4>1, <4>2, <4>3, StillNoted DEF bitmaps
    <3>3. WritersIdle'
          BY <1>0, <3>1 DEF WritersIdle
    <3> QED BY <1>0, <2>0, <3>1, <3>2, <3>3, WriterKeeps DEF bitmaps
  <2>2. CASE p \notin watch
    <3>1. /\ todo' = [todo EXCEPT ![t] = todo[t] \ {p}] /\ UNCHANGED at
          /\ wpc' = [wpc EXCEPT ![t] = IF todo[t] \ {p} = {} THEN "idle" ELSE "test"]
          BY <1>3, <2>2 DEF NoteTest, NextPage
    <3>2. p \notin written
          BY <1>0, <2>2
    <3>3. NoPageLost'
      <4>1. \A u \in Writers \ {t} : todo'[u] = todo[u] /\ at'[u] = at[u]
            BY <1>0, <3>1
      <4>2. \A q \in todo[t] \cup {at[t]} : q # p => q \in todo'[t] \/ at'[t] = q
            BY <1>0, <3>1
      <4> QED BY <2>0, <3>2, <4>1, <4>2, StillNoted DEF bitmaps
    <3>4. WritersIdle'
          BY <1>0, <2>0, <3>1 DEF WritersIdle
    <3> QED BY <1>0, <2>0, <3>1, <3>3, <3>4, WriterKeeps DEF bitmaps
  <2> QED BY <2>1, <2>2
<1>4. CASE MarkLoad(t)
  <2>0. wpc[t] = "load" /\ UNCHANGED <<bitmaps, pc, page, drain, registered, written>>
        BY <1>4 DEF MarkLoad
  <2>1. CASE at[t] \in dirty
    <3>1. /\ at' = [at EXCEPT ![t] = Nothing] /\ todo' = [todo EXCEPT ![t] = todo[t]]
          /\ wpc' = [wpc EXCEPT ![t] = IF todo[t] = {} THEN "idle" ELSE "test"]
          BY <1>4, <2>1 DEF MarkLoad, NextPage
    <3>2. NoPageLost'
      <4>1. \A u \in Writers \ {t} : todo'[u] = todo[u] /\ at'[u] = at[u]
            BY <1>0, <3>1
      <4>2. \A q \in todo[t] \cup {at[t]} : q # at[t] => q \in todo'[t]
            BY <1>0, <3>1
      <4> QED BY <2>0, <2>1, <4>1, <4>2, StillNoted DEF bitmaps
    <3>3. WritersIdle'
          BY <1>0, <2>0, <3>1 DEF WritersIdle
    <3> QED BY <1>0, <2>0, <3>1, <3>2, <3>3, WriterKeeps DEF bitmaps
  <2>2. CASE at[t] \notin dirty
    <3>1. wpc' = [wpc EXCEPT ![t] = "set"] /\ UNCHANGED <<todo, at>>
          BY <1>4, <2>2 DEF MarkLoad
    <3>2. NoPageLost' /\ WritersIdle'
          BY <1>0, <2>0, <3>1 DEF NoPageLost, WritersIdle, Noting, bitmaps
    <3> QED BY <1>0, <2>0, <3>1, <3>2, WriterKeeps DEF bitmaps
  <2> QED BY <2>1, <2>2
<1>5. CASE MarkSet(t)
  <2>1. /\ wpc[t] = "set" /\ dirty' = dirty \cup {at[t]}
        /\ at' = [at EXCEPT ![t] = Nothing] /\ todo' = [todo EXCEPT ![t] = todo[t]]
        /\ wpc' = [wpc EXCEPT ![t] = IF todo[t] = {} THEN "idle" ELSE "test"]
        /\ UNCHANGED <<watch, words, count, pc, page, drain, registered, written>>
        BY <1>5 DEF MarkSet, NextPage
  <2>2. NoPageLost'
    <3>1. \A u \in Writers \ {t} : todo'[u] = todo[u] /\ at'[u] = at[u]
          BY <1>0, <2>1
    <3>2. \A q \in todo[t] \cup {at[t]} : q # at[t] => q \in todo'[t]
          BY <1>0, <2>1
    <3>3. dirty \subseteq dirty' /\ at[t] \in dirty'
          BY <2>1
    <3> QED BY <2>1, <3>1, <3>2, <3>3, StillNoted
  <2>3. WritersIdle'
        BY <1>0, <2>1 DEF WritersIdle
  <2> QED BY <1>0, <2>1, <2>2, <2>3, WriterKeeps
<1> QED BY <1>1, <1>2, <1>3, <1>4, <1>5 DEF Writer

LEMMA IInvHolds == ASSUME OneEmbedder PROVE WatchSpec => []WatchInv
<1>1. WatchInv /\ [WatchNext]_watchVars => WatchInv'
  <2> SUFFICES ASSUME WatchInv, [WatchNext]_watchVars PROVE WatchInv'
      BY Zenon
  <2>1. CASE UNCHANGED watchVars
    <3>1. UNCHANGED <<watch, dirty, words, count, pc, page, scan, got, must, wpc, todo, at,
                      registered, written>>
          BY <2>1, Zenon DEF watchVars, bitmaps, drain, writer
    <3>2. Types' /\ Places'
          BY <3>1, Zenon DEF WatchInv, Types, Places
    <3>3. CountMatches' /\ Listed'
          BY <3>1, Zenon DEF WatchInv, CountMatches, Counted, PagesAt, Listed
    <3>4. WritersIdle' /\ Owed'
          BY <3>1, Zenon DEF WatchInv, WritersIdle, Owed
    <3>5. NoPageLost'
          BY <3>1, Zenon DEF WatchInv, NoPageLost, Noting
    <3> QED BY <3>2, <3>3, <3>4, <3>5, Zenon DEF WatchInv
  <2>2. CASE WatchNext
        BY <2>2, EmbedderStep, WriterStep DEF WatchNext
  <2> QED BY <2>1, <2>2
<1> QED BY <1>1, WatchInitInv, PTL DEF WatchSpec

(* "No page is ever lost" (mark_dirty): with one embedder thread, whatever *)
(* writers, watches, unwatches and drains interleave, a written page that  *)
(* is still watched and unreported is dirty or about to be marked.         *)
THEOREM NoWrittenPageIsLost == OneEmbedder => (WatchSpec => []NoPageLost)
<1> SUFFICES ASSUME OneEmbedder PROVE WatchSpec => []NoPageLost
    OBVIOUS
<1>1. WatchInv => NoPageLost
      BY DEF WatchInv
<1> QED BY <1>1, IInvHolds, PTL

(* take_dirty_ranges returns every page that was written and noted before  *)
(* the call.                                                               *)
THEOREM DrainsAreComplete == OneEmbedder => (WatchSpec => []DrainIsComplete)
<1> SUFFICES ASSUME OneEmbedder PROVE WatchSpec => []DrainIsComplete
    OBVIOUS
<1>1. WatchInv => DrainIsComplete
      BY Zenon DEF WatchInv, Owed, DrainIsComplete
<1> QED BY <1>1, IInvHolds, PTL
=============================================================================
