---------------------------- MODULE TierUpProofs ----------------------------
(***************************************************************************)
(* Background tier-up, for any number of vcpus, keys and writes, any queue *)
(* bound and any thresholds: the count of outstanding requests is exact,   *)
(* no in-flight marker is left behind, the pages of cached units are       *)
(* tagged, and no unit of rewritten bytes is published.                    *)
(***************************************************************************)
EXTENDS TierUp, TLAPS

Requests == [unit : Units, epoch : Nat]

(* The places of resolve where the vcpu holds a unit of its key.           *)
Holding == {"bump", "decide", "region", "block", "lift", "ir", "submit"}

Types ==
  /\ ver \in [Keys -> Nat] /\ epoch \in Nat /\ hot \in [Keys -> Nat]
  /\ map \in [Keys -> Units \cup {None}]
  /\ items \in Seq(Requests) /\ done \in Seq(Requests)
  /\ fin \in [Vcpus -> Seq(Requests)]
  /\ outstanding \in Int
  /\ pc \in [Vcpus -> Labels] /\ rip \in [Vcpus -> Keys]
  /\ snap \in [Vcpus -> Nat]
  /\ DOMAIN req = Vcpus

(* A unit is cached under its key, and a vcpu submits a unit of the key it *)
(* resolves.                                                               *)
KeysMatch ==
  /\ \A k \in Keys : map[k] # None => map[k].key = k
  /\ \A v \in Vcpus : pc[v] \in Holding =>
       /\ req[v] \in [unit : Units, epoch : Nat, count : Nat]
       /\ req[v].unit.key = rip[v]

(* What a thread overwrites it has finished with: a vcpu takes the done    *)
(* list only when it has published the last one, and the worker has no job *)
(* when it takes the next.                                                 *)
NothingOverwritten ==
  /\ \A v \in Vcpus : pc[v] \notin {"publish", "end"} => fin[v] = <<>>
  /\ \A v \in Vcpus : pc[v] = "end" => fin[v] # <<>>
  /\ wpc = "compile" => job \in Requests

Basics == Types /\ KeysMatch /\ NothingOverwritten

-----------------------------------------------------------------------------
LEMMA AppendIsRequests ==
  ASSUME NEW s \in Seq(Requests), NEW x \in Requests
  PROVE  /\ Append(s, x) \in Seq(Requests)
         /\ Len(Append(s, x)) = Len(s) + 1
  OBVIOUS

LEMMA TailIsRequests ==
  ASSUME NEW s \in Seq(Requests), s # <<>>
  PROVE  /\ Head(s) \in Requests
         /\ Tail(s) \in Seq(Requests)
         /\ Len(Tail(s)) = Len(s) - 1
  OBVIOUS

(* The keys of a queue after an Append, and before a Tail.                 *)
LEMMA AppendHasKey ==
  ASSUME NEW s \in Seq(Requests), NEW x \in Requests, NEW k
  PROVE  /\ HasKey(s, k) => HasKey(Append(s, x), k)
         /\ x.unit.key = k => HasKey(Append(s, x), k)
<1>1. ASSUME HasKey(s, k) PROVE HasKey(Append(s, x), k)
  <2>1. PICK i \in DOMAIN s : s[i].unit.key = k
        BY <1>1, Zenon DEF HasKey
  <2>2. i \in DOMAIN Append(s, x) /\ Append(s, x)[i] = s[i]
        BY <2>1
  <2> QED BY <2>1, <2>2, Zenon DEF HasKey
<1>2. ASSUME x.unit.key = k PROVE HasKey(Append(s, x), k)
  <2>1. Len(s) + 1 \in DOMAIN Append(s, x) /\ Append(s, x)[Len(s) + 1] = x
        OBVIOUS
  <2> QED BY <1>2, <2>1, Zenon DEF HasKey
<1> QED BY <1>1, <1>2, Zenon

LEMMA TailHasKey ==
  ASSUME NEW s \in Seq(Requests), s # <<>>, NEW k, HasKey(s, k)
  PROVE  Head(s).unit.key = k \/ HasKey(Tail(s), k)
<1>1. PICK i \in DOMAIN s : s[i].unit.key = k
      BY Zenon DEF HasKey
<1>2. CASE i = 1
      BY <1>1, <1>2
<1>3. CASE i # 1
  <2>1. i - 1 \in DOMAIN Tail(s) /\ Tail(s)[i - 1] = s[i]
        BY <1>1, <1>3
  <2> QED BY <1>1, <2>1, Zenon DEF HasKey
<1> QED BY <1>2, <1>3, Zenon

LEMMA EmptyHasNoKey == ASSUME NEW k PROVE ~HasKey(<<>>, k)
  BY DEF HasKey
-----------------------------------------------------------------------------
LEMMA UnitIsUnit ==
  ASSUME ver \in [Keys -> Nat], NEW k \in Keys, NEW S \in SUBSET Keys, NEW c \in BOOLEAN
  PROVE  Unit(k, S, c) \in Units /\ Unit(k, S, c).key = k
<1>1. [q \in Keys |-> IF q \in S THEN ver[q] ELSE 0] \in [Keys -> Nat]
      BY Zenon
<1> QED BY <1>1, Zenon DEF Unit, Units

LEMMA InitBasics == Init => Basics
<1> SUFFICES ASSUME Init PROVE Basics
    BY Zenon
<1>1. Types
      BY DEF Init, Types, Labels
<1>2. KeysMatch
      BY Zenon DEF Init, KeysMatch, Holding
<1>3. NothingOverwritten
      BY Zenon DEF Init, NothingOverwritten
<1> QED BY <1>1, <1>2, <1>3, Zenon DEF Basics

LEMMA NextBasics == Basics /\ [Next]_vars => Basics'
<1> SUFFICES ASSUME Basics, [Next]_vars PROVE Basics'
    BY Zenon
<1> USE DEF Basics, Types, KeysMatch, NothingOverwritten
<1>1. CASE UNCHANGED vars
      BY <1>1, Zenon DEF vars, bytes, cache, queue, worker, locals
<1>2. ASSUME NEW p \in Keys, Write(p) PROVE Basics'
      BY <1>2 DEF Write, queue, worker, locals
<1>3. ASSUME NEW v \in Vcpus, NEW k \in Keys, Dispatch(v, k) PROVE Basics'
      BY <1>3, Zenon DEF Dispatch, Goto, Labels, Holding, bytes, cache, queue, worker
<1>4. ASSUME NEW v \in Vcpus, DrainTake(v) PROVE Basics'
      BY <1>4 DEF DrainTake, Goto, Labels, Holding, bytes, cache, queue, worker
<1>5. ASSUME NEW v \in Vcpus, DrainPublish(v) PROVE Basics'
  <2>1. Head(fin[v]) \in Requests
        BY <1>5, TailIsRequests, Zenon DEF DrainPublish
  <2>2. Head(fin[v]).unit \in Units /\ Head(fin[v]).unit.key \in Keys
        BY <2>1, Zenon DEF Requests, Units
  <2> QED BY <1>5, <2>2, Zenon DEF DrainPublish, Goto, Labels, Holding, queue, worker, locals
<1>6. ASSUME NEW v \in Vcpus, DrainEnd(v) PROVE Basics'
  <2>1. Tail(fin[v]) \in Seq(Requests)
        BY <1>6, TailIsRequests, Zenon DEF DrainEnd
  <2> QED BY <1>6, <2>1, Zenon DEF DrainEnd, Goto, Labels, Holding, bytes, cache, queue, worker
<1>7. ASSUME NEW v \in Vcpus, Snap(v) PROVE Basics'
      BY <1>7, Zenon DEF Snap, Goto, Labels, Holding, bytes, cache, queue, worker
<1>8. ASSUME NEW v \in Vcpus, Relift(v) PROVE Basics'
  <2>1. Unit(rip[v], {rip[v]}, FALSE) \in Units /\ Unit(rip[v], {rip[v]}, FALSE).key = rip[v]
    <3>1. rip[v] \in Keys /\ {rip[v]} \in SUBSET Keys /\ FALSE \in BOOLEAN
          OBVIOUS
    <3> QED BY <3>1, UnitIsUnit, Zenon
  <2> QED BY <1>8, <2>1, Zenon DEF Relift, Goto, Labels, Holding, queue, worker, locals
<1>9. ASSUME NEW v \in Vcpus, Hit(v) PROVE Basics'
  <2> DEFINE u == map[rip[v]]
  <2>1. u \in Units /\ u.key = rip[v]
        BY <1>9 DEF Hit
  <2>2. CASE u.comp
        BY <1>9, <2>2, Zenon DEF Hit, Goto, Labels, Holding, bytes, cache, queue, worker
  <2>3. CASE ~u.comp
    <3>1. [unit |-> u, epoch |-> snap[v], count |-> 0] \in [unit : Units, epoch : Nat, count : Nat]
          BY <2>1, Zenon
    <3> QED BY <1>9, <2>1, <2>3, <3>1, Zenon
            DEF Hit, Goto, Labels, Holding, bytes, cache, queue, worker
  <2> QED BY <2>2, <2>3, Zenon
<1>10. ASSUME NEW v \in Vcpus, Bump(v) PROVE Basics'
  <2> DEFINE count == IF hot[rip[v]] < Top THEN hot[rip[v]] + 1 ELSE Top
  <2>1. count \in Nat
        BY ThrAssumption DEF Top
  <2>2. req[v] \in [unit : Units, epoch : Nat, count : Nat] /\ req[v].unit.key = rip[v]
        BY <1>10, Zenon DEF Bump, Holding
  <2>3. hot' = [hot EXCEPT ![rip[v]] = count] /\ req' = [req EXCEPT ![v].count = count]
        /\ pc' = [pc EXCEPT ![v] = IF count < Thr THEN "run" ELSE "decide"]
        /\ UNCHANGED <<bytes, map, epoch, queue, done, worker, rip, fin, snap>>
        BY <1>10, Zenon DEF Bump, Goto
  <2> HIDE DEF count
  <2>4. req'[v] \in [unit : Units, epoch : Nat, count : Nat] /\ req'[v].unit.key = rip[v]
        BY <2>1, <2>2, <2>3, Zenon
  <2>5. Types'
        BY <2>1, <2>3, Zenon DEF Labels, bytes, queue, worker
  <2>6. KeysMatch'
        BY <2>3, <2>4, Zenon DEF Holding
  <2>7. NothingOverwritten' /\ pc[v] = "bump"
        BY <1>10, <2>3, Zenon DEF Bump, worker
  <2> QED BY <2>5, <2>6, <2>7, Zenon
<1>11. ASSUME NEW v \in Vcpus, Decide(v) PROVE Basics'
  <2>1. /\ pc[v] = "decide"
        /\ \E l \in {"run", "region", "block"} : pc' = [pc EXCEPT ![v] = l]
        /\ UNCHANGED <<bytes, map, epoch, hot, queue, done, worker, locals>>
        BY <1>11, Zenon DEF Decide, Goto
  <2>2. PICK l \in Labels : pc' = [pc EXCEPT ![v] = l] /\ l \notin {"publish", "end"}
        BY <2>1, Zenon DEF Labels
  <2>3. Types'
        BY <2>1, <2>2, Zenon DEF bytes, queue, worker, locals
  <2>4. KeysMatch'
        BY <2>1, <2>2 DEF Holding, locals
  <2>5. NothingOverwritten'
        BY <2>1, <2>2, Zenon DEF worker, locals
  <2> QED BY <2>3, <2>4, <2>5, Zenon
<1>12. ASSUME NEW v \in Vcpus, Begin(v, "region", "lift") \/ Begin(v, "block", "ir") PROVE Basics'
  <2>1. /\ pc[v] \in {"region", "block"}
        /\ \E l \in {"run", "lift", "ir"} : pc' = [pc EXCEPT ![v] = l]
        /\ UNCHANGED <<bytes, cache, queue, done, worker, locals>>
        BY <1>12, Zenon DEF Begin, Goto
  <2>2. PICK l \in Labels : pc' = [pc EXCEPT ![v] = l] /\ l \notin {"publish", "end"}
        BY <2>1, Zenon DEF Labels
  <2>3. Types'
        BY <2>1, <2>2, Zenon DEF bytes, cache, queue, worker, locals
  <2>4. KeysMatch'
        BY <2>1, <2>2, Zenon DEF Holding, cache, locals
  <2>5. NothingOverwritten'
        BY <2>1, <2>2, Zenon DEF worker, locals
  <2> QED BY <2>3, <2>4, <2>5, Zenon
<1>13. ASSUME NEW v \in Vcpus, Prepare(v) PROVE Basics'
  <2>1. req[v] \in [unit : Units, epoch : Nat, count : Nat] /\ req[v].unit.key = rip[v]
        BY <1>13, Zenon DEF Prepare, Holding
  <2>2. PICK u \in Units : u.key = rip[v] /\ req' = [req EXCEPT ![v].unit = u]
    <3>1. Unit(rip[v], Region[rip[v]], TRUE) \in Units
          /\ Unit(rip[v], Region[rip[v]], TRUE).key = rip[v]
          BY UnitIsUnit, RegionAssumption, Zenon
    <3>2. [req[v].unit EXCEPT !.comp = TRUE] \in Units
          /\ [req[v].unit EXCEPT !.comp = TRUE].key = rip[v]
          BY <2>1, Zenon DEF Units
    <3> QED BY <1>13, <3>1, <3>2, Zenon DEF Prepare
  <2>3. req'[v] \in [unit : Units, epoch : Nat, count : Nat] /\ req'[v].unit.key = rip[v]
        BY <2>1, <2>2, Zenon
  <2>4. /\ pc[v] \in {"lift", "ir"} /\ pc' = [pc EXCEPT ![v] = "submit"]
        /\ UNCHANGED <<bytes, cache, queue, done, worker, rip, fin, snap>>
        BY <1>13, Zenon DEF Prepare, Goto
  <2>5. Types'
        BY <2>2, <2>4, Zenon DEF Labels, bytes, cache, queue, worker
  <2>6. KeysMatch'
        BY <2>2, <2>3, <2>4, Zenon DEF Holding, cache
  <2>7. NothingOverwritten'
        BY <2>4, Zenon DEF worker
  <2> QED BY <2>5, <2>6, <2>7, Zenon
<1>14. ASSUME NEW v \in Vcpus, Submit(v) PROVE Basics'
  <2>1. req[v] \in [unit : Units, epoch : Nat, count : Nat]
        BY <1>14, Zenon DEF Submit, Holding
  <2>2. [unit |-> req[v].unit, epoch |-> req[v].epoch] \in Requests
        BY <2>1, Zenon DEF Requests
  <2>3. Append(items, [unit |-> req[v].unit, epoch |-> req[v].epoch]) \in Seq(Requests)
        BY <2>2, AppendIsRequests, Zenon
  <2>4. /\ pc[v] = "submit" /\ (pc' = [pc EXCEPT ![v] = "busy"] \/ pc' = [pc EXCEPT ![v] = "notify"])
        /\ wpc' = "compile" => wpc = "compile"
        /\ UNCHANGED <<bytes, cache, done, job, locals>>
        BY <1>14, Zenon DEF Submit, Goto
  <2>5. items' \in Seq(Requests) /\ outstanding' \in Int
    <3>1. CASE Len(items) >= QueueCap
          BY <1>14, <3>1, Zenon DEF Submit
    <3>2. CASE ~(Len(items) >= QueueCap)
      <4>1. /\ items' = Append(items, [unit |-> req[v].unit, epoch |-> req[v].epoch])
            /\ outstanding' = outstanding + 1
            BY <1>14, <3>2, Zenon DEF Submit
      <4> QED BY <2>3, <4>1
    <3> QED BY <3>1, <3>2, Zenon
  <2>6. Types'
        BY <2>4, <2>5, Zenon DEF Labels, bytes, cache, locals
  <2>7. KeysMatch'
        BY <2>4, Zenon DEF Holding, cache, locals
  <2>8. NothingOverwritten'
        BY <2>4 DEF locals
  <2> QED BY <2>6, <2>7, <2>8, Zenon
<1>15. ASSUME NEW v \in Vcpus, Notify(v) \/ Busy(v) PROVE Basics'
  <2>1. /\ pc[v] \in {"notify", "busy"} /\ pc' = [pc EXCEPT ![v] = "run"]
        /\ wpc' = "compile" => wpc = "compile"
        /\ UNCHANGED <<bytes, cache, queue, done, job, locals>>
        BY <1>15, Zenon DEF Notify, Busy, Goto, worker
  <2>2. Types'
        BY <2>1, Zenon DEF Labels, bytes, cache, queue, locals
  <2>3. KeysMatch'
        BY <2>1, Zenon DEF Holding, cache, locals
  <2>4. NothingOverwritten'
        BY <2>1, Zenon DEF locals
  <2> QED BY <2>2, <2>3, <2>4, Zenon
<1>16. CASE WorkerCheck
  <2>1. items # <<>> => Head(items) \in Requests /\ Tail(items) \in Seq(Requests)
        BY TailIsRequests, Zenon
  <2> QED BY <1>16, <2>1, Zenon DEF WorkerCheck, bytes, cache, locals
<1>17. CASE WorkerCompile
      BY <1>17, AppendIsRequests, Zenon DEF WorkerCompile, bytes, cache, queue, locals
<1>18. CASE WorkerRetire
      BY <1>18 DEF WorkerRetire, bytes, cache, locals
<1>19. CASE WaitIdle \/ WaitCheck
      BY <1>19, Zenon DEF WaitIdle, WaitCheck, bytes, cache, queue, worker, locals
<1>20. CASE Owner
      BY <1>20, Zenon
      DEF Owner, Pause, Unpause, Drop, Wake, Join, bytes, cache, queue, worker, locals
<1>21. CASE Gone
      BY <1>1, <1>21, Zenon DEF Gone
<1> QED BY <1>1, <1>2, <1>3, <1>4, <1>5, <1>6, <1>7, <1>8, <1>9, <1>10, <1>11, <1>12, <1>13,
           <1>14, <1>15, <1>16, <1>17, <1>18, <1>19, <1>20, <1>21
        DEF Next, Resolve, Worker
-----------------------------------------------------------------------------
LEMMA OutstandingStep ==
  Basics /\ OutstandingIsExact /\ [Next]_vars => OutstandingIsExact'
<1> SUFFICES ASSUME Basics, OutstandingIsExact, [Next]_vars PROVE OutstandingIsExact'
    BY Zenon
<1>1. items \in Seq(Requests) /\ outstanding \in Int
      BY Zenon DEF Basics, Types
<1> USE DEF OutstandingIsExact
<1>2. CASE UNCHANGED <<items, outstanding, wpc>>
      BY <1>2, Zenon
<1>3. ASSUME NEW v \in Vcpus, Submit(v) PROVE OutstandingIsExact'
  <2>1. [unit |-> req[v].unit, epoch |-> req[v].epoch] \in Requests
        BY <1>3, Zenon DEF Submit, Basics, KeysMatch, Holding, Requests
  <2>2. Len(Append(items, [unit |-> req[v].unit, epoch |-> req[v].epoch])) = Len(items) + 1
        BY <1>1, <2>1, AppendIsRequests, Zenon
  <2> QED BY <1>1, <1>3, <2>2 DEF Submit
<1>4. CASE WorkerCheck
  <2>1. items # <<>> => Len(Tail(items)) = Len(items) - 1
        BY <1>1, TailIsRequests, Zenon
  <2> QED BY <1>1, <1>4, <2>1 DEF WorkerCheck
<1>5. CASE WorkerCompile
      BY <1>1, <1>5, Zenon DEF WorkerCompile, queue
<1>6. CASE WorkerRetire
      BY <1>1, <1>6 DEF WorkerRetire
<1>7. ASSUME NEW v \in Vcpus, Notify(v) PROVE OutstandingIsExact'
      BY <1>7, Zenon DEF Notify, queue
<1>8. CASE Wake
      BY <1>8, Zenon DEF Wake, queue
<1>9. ASSUME NEW v \in Vcpus, Resolve(v), ~Submit(v), ~Notify(v)
      PROVE  UNCHANGED <<items, outstanding, wpc>>
      BY <1>9, Zenon
      DEF Resolve, DrainTake, DrainPublish, DrainEnd, Snap, Relift, Hit, Bump, Decide,
                  Begin, Prepare, Busy, queue, worker
<1>10. ASSUME Owner, ~Wake PROVE UNCHANGED <<items, outstanding, wpc>>
      BY <1>10, Zenon DEF Owner, Pause, Unpause, Drop, Join, queue, worker
<1>11. ASSUME (\E p \in Keys : Write(p)) \/ (\E v \in Vcpus, k \in Keys : Dispatch(v, k))
              \/ WaitIdle \/ WaitCheck \/ Gone \/ UNCHANGED vars
      PROVE  UNCHANGED <<items, outstanding, wpc>>
      BY <1>11, Zenon DEF Write, Dispatch, WaitIdle, WaitCheck, Gone, vars, queue, worker
<1> QED BY <1>2, <1>3, <1>4, <1>5, <1>6, <1>7, <1>8, <1>9, <1>10, <1>11, Zenon DEF Next, Worker

(* Queue::outstanding is the number of requests queued or compiling: what  *)
(* wait_idle and the tests that drain the compiler rely on.                *)
THEOREM OutstandingCounts == Spec => []OutstandingIsExact
<1>1. Init => OutstandingIsExact
      BY DEF Init, OutstandingIsExact
<1> QED BY <1>1, InitBasics, NextBasics, OutstandingStep, PTL DEF Spec
-----------------------------------------------------------------------------
(* Why a key's marker is not stuck.                                        *)
Accounted(k) ==
  \/ InFlight(k)
  \/ \E v \in Vcpus : rip[v] = k /\ pc[v] \in {"lift", "ir", "submit", "busy"}

Submitting == {"lift", "ir", "submit", "busy"}

(* A step that moves no request and leaves no such place keeps what is     *)
(* accounted for.                                                          *)
LEMMA StaysAccounted ==
  ASSUME NEW k, Accounted(k), UNCHANGED <<items, done, fin, rip>>,
         wpc = "compile" => UNCHANGED <<wpc, job>>,
         \A v \in Vcpus : pc[v] \in Submitting => pc'[v] \in Submitting
  PROVE  Accounted(k)'
  BY Zenon DEF Accounted, InFlight, HasKey, Submitting

LEMMA MarkerStep == Basics /\ NoStuckMarker /\ [Next]_vars => NoStuckMarker'
<1> SUFFICES ASSUME Basics, NoStuckMarker, [Next]_vars, NEW k \in tier_pending'
             PROVE  Accounted(k)'
    BY Zenon DEF NoStuckMarker, Accounted
<1>a. k \in tier_pending => Accounted(k)
      BY Zenon DEF NoStuckMarker, Accounted
<1>t. Types /\ NothingOverwritten
      BY Zenon DEF Basics
<1>1. CASE UNCHANGED vars
      BY <1>1, <1>a, StaysAccounted, Zenon DEF vars, queue, worker, locals
<1>2. ASSUME NEW p \in Keys, Write(p) PROVE Accounted(k)'
      BY <1>2, <1>a, StaysAccounted, Zenon DEF Write, queue, worker, locals
<1>3. ASSUME NEW v \in Vcpus, NEW j \in Keys, Dispatch(v, j) PROVE Accounted(k)'
  <2>1. Accounted(k) /\ UNCHANGED <<items, wpc, job, done, fin>> /\ pc[v] = "run"
        BY <1>3, <1>a, Zenon DEF Dispatch, queue, worker
  <2>2. \A w \in Vcpus : pc[w] \in Submitting => pc'[w] = pc[w] /\ rip'[w] = rip[w]
        BY <1>3, <1>t, Zenon DEF Dispatch, Goto, Types, Submitting
  <2> QED BY <2>1, <2>2, Zenon DEF Accounted, InFlight, HasKey, Submitting
<1>4. ASSUME NEW v \in Vcpus, DrainTake(v) PROVE Accounted(k)'
  <2>1. /\ Accounted(k) /\ UNCHANGED <<items, wpc, job, rip>>
        /\ pc[v] = "drain" /\ fin[v] = <<>> /\ fin' = [fin EXCEPT ![v] = done]
        BY <1>4, <1>a, <1>t, Zenon DEF DrainTake, queue, worker, NothingOverwritten
  <2>2. \A w \in Vcpus : pc[w] \in Submitting => pc'[w] = pc[w]
        BY <1>4, <1>t, Zenon DEF DrainTake, Goto, Types, Submitting
  <2>3. HasKey(done, k) => HasKey(fin'[v], k)
        BY <2>1, <1>t, Zenon DEF Types
  <2>4. \A w \in Vcpus : HasKey(fin[w], k) => HasKey(fin'[w], k)
        BY <2>1, <1>t, EmptyHasNoKey, Zenon DEF Types
  <2>5. HasKey(items, k) => HasKey(items', k)
        BY <2>1, Zenon
  <2> QED BY <2>1, <2>2, <2>3, <2>4, <2>5, Zenon DEF Accounted, InFlight, Submitting, HasKey
<1>5. ASSUME NEW v \in Vcpus,
             DrainPublish(v) \/ Snap(v) \/ Relift(v) \/ Hit(v) \/ Bump(v) \/ Decide(v)
      PROVE  Accounted(k)'
  <2>1. Accounted(k) /\ UNCHANGED <<items, wpc, job, done, fin, rip>>
        BY <1>5, <1>a, Zenon
        DEF DrainPublish, Snap, Relift, Hit, Bump, Decide, queue, worker, locals
  <2>2. /\ pc[v] \in {"publish", "get", "bump", "decide"}
        /\ \E l \in Labels : pc' = [pc EXCEPT ![v] = l]
        BY <1>5, Zenon DEF DrainPublish, Snap, Relift, Hit, Bump, Decide, Goto, Labels
  <2>3. \A w \in Vcpus : pc[w] \in Submitting => pc'[w] \in Submitting
        BY <2>2, <1>t, Zenon DEF Types, Submitting
  <2> QED BY <2>1, <2>3, StaysAccounted, Zenon
<1>6. ASSUME NEW v \in Vcpus, DrainEnd(v) PROVE Accounted(k)'
  <2>1. /\ Accounted(k) /\ UNCHANGED <<items, wpc, job, done, rip>>
        /\ fin[v] # <<>> /\ fin' = [fin EXCEPT ![v] = Tail(fin[v])]
        /\ Head(fin[v]).unit.key # k
        BY <1>6, <1>a, <1>t, Zenon DEF DrainEnd, queue, worker, NothingOverwritten
  <2>2. \A w \in Vcpus : pc[w] \in Submitting => pc'[w] = pc[w]
        BY <1>6, <1>t, Zenon DEF DrainEnd, Goto, Types, Submitting
  <2>3. HasKey(fin[v], k) => HasKey(Tail(fin[v]), k)
        BY <2>1, <1>t, TailHasKey, Zenon DEF Types
  <2>4. \A w \in Vcpus : HasKey(fin[w], k) => HasKey(fin'[w], k)
        BY <2>1, <2>3, <1>t, Zenon DEF Types
  <2>5. (HasKey(items, k) => HasKey(items', k)) /\ (HasKey(done, k) => HasKey(done', k))
        BY <2>1, Zenon
  <2> QED BY <2>1, <2>2, <2>4, <2>5, Zenon DEF Accounted, InFlight, Submitting
<1>7. ASSUME NEW v \in Vcpus, NEW to \in {"lift", "ir"}, NEW from \in {"region", "block"},
             Begin(v, from, to)
      PROVE  Accounted(k)'
  <2>1. /\ UNCHANGED <<items, wpc, job, done, fin, rip>>
        /\ \A w \in Vcpus : pc[w] \in Submitting => pc'[w] = pc[w]
        BY <1>7, <1>t, Zenon DEF Begin, Goto, queue, worker, locals, Types, Submitting
  <2>2. CASE k \in tier_pending
        BY <1>a, <2>1, <2>2, StaysAccounted, Zenon
  <2>3. CASE k \notin tier_pending
    <3>1. rip'[v] = k /\ pc'[v] = to
          BY <1>7, <2>1, <2>3, <1>t, Zenon DEF Begin, Goto, Types
    <3> QED BY <3>1, Zenon DEF Accounted
  <2> QED BY <2>2, <2>3, Zenon
<1>8. ASSUME NEW v \in Vcpus, Prepare(v) PROVE Accounted(k)'
  <2>1. /\ Accounted(k) /\ UNCHANGED <<items, wpc, job, done, fin, rip>>
        /\ pc' = [pc EXCEPT ![v] = "submit"]
        BY <1>8, <1>a, Zenon DEF Prepare, Goto, queue, worker
  <2>2. \A w \in Vcpus : pc[w] \in Submitting => pc'[w] \in Submitting
        BY <2>1, <1>t, Zenon DEF Types, Submitting
  <2> QED BY <2>1, <2>2, StaysAccounted, Zenon
<1>9. ASSUME NEW v \in Vcpus, Submit(v) PROVE Accounted(k)'
  <2> DEFINE x == [unit |-> req[v].unit, epoch |-> req[v].epoch]
  <2>1. x \in Requests /\ x.unit.key = rip[v]
        BY <1>9, Zenon DEF Submit, Basics, KeysMatch, Holding, Requests
  <2>2. /\ Accounted(k) /\ UNCHANGED <<job, done, fin, rip>>
        /\ wpc = "compile" <=> wpc' = "compile"
        BY <1>9, <1>a, Zenon DEF Submit, locals
  <2>3. CASE Len(items) >= QueueCap
    <3>1. UNCHANGED items /\ pc' = [pc EXCEPT ![v] = "busy"]
          BY <1>9, <2>3, Zenon DEF Submit, Goto
    <3>2. \A w \in Vcpus : pc[w] \in Submitting => pc'[w] \in Submitting
          BY <3>1, <1>t, Zenon DEF Types, Submitting
    <3> QED BY <2>2, <3>1, <3>2, StaysAccounted, Zenon
  <2>4. CASE ~(Len(items) >= QueueCap)
    <3>1. items' = Append(items, x) /\ pc' = [pc EXCEPT ![v] = "notify"]
          BY <1>9, <2>4, Zenon DEF Submit, Goto
    <3>2. (HasKey(items, k) => HasKey(items', k)) /\ (rip[v] = k => HasKey(items', k))
      <4> HIDE DEF x
      <4> QED BY <2>1, <3>1, <1>t, AppendHasKey, Zenon DEF Types
    <3>3. \A w \in Vcpus : pc[w] \in Submitting /\ w # v => pc'[w] = pc[w]
          BY <3>1, <1>t, Zenon DEF Types
    <3> QED BY <2>2, <3>2, <3>3, Zenon DEF Accounted, InFlight, HasKey, Submitting
  <2> QED BY <2>3, <2>4, Zenon
<1>10. ASSUME NEW v \in Vcpus, Notify(v) PROVE Accounted(k)'
  <2>1. /\ Accounted(k) /\ UNCHANGED <<items, job, done, fin, rip>>
        /\ wpc = "compile" => wpc' = wpc
        BY <1>10, <1>a, Zenon DEF Notify, queue, locals
  <2>2. \A w \in Vcpus : pc[w] \in Submitting => pc'[w] = pc[w]
        BY <1>10, <1>t, Zenon DEF Notify, Goto, Types, Submitting
  <2> QED BY <2>1, <2>2, StaysAccounted, Zenon
<1>11. ASSUME NEW v \in Vcpus, Busy(v) PROVE Accounted(k)'
  <2>1. /\ Accounted(k) /\ UNCHANGED <<items, wpc, job, done, fin, rip>> /\ rip[v] # k
        BY <1>11, <1>a, Zenon DEF Busy, queue, worker, locals
  <2>2. \A w \in Vcpus : w # v => pc'[w] = pc[w]
        BY <1>11, <1>t, Zenon DEF Busy, Goto, Types
  <2> QED BY <2>1, <2>2, Zenon DEF Accounted, InFlight, HasKey
<1>12. CASE WorkerCheck
  <2>1. Accounted(k) /\ UNCHANGED <<done, fin, rip, pc>> /\ wpc = "check"
        BY <1>12, <1>a, Zenon DEF WorkerCheck, locals
  <2>2. CASE UNCHANGED items
        BY <1>12, <2>1, <2>2, Zenon DEF Accounted, InFlight, HasKey
  <2>3. CASE items # <<>> /\ wpc' = "compile" /\ job' = Head(items) /\ items' = Tail(items)
    <3>1. HasKey(items, k) => job'.unit.key = k \/ HasKey(items', k)
          BY <2>3, <1>t, TailHasKey, Zenon DEF Types
    <3>2. HasKey(done, k) => HasKey(done', k)
          BY <2>1, Zenon
    <3> QED BY <2>1, <2>3, <3>1, <3>2, Zenon DEF Accounted, InFlight
  <2> QED BY <1>12, <2>2, <2>3, Zenon DEF WorkerCheck
<1>13. CASE WorkerCompile
  <2>1. /\ Accounted(k) /\ UNCHANGED <<items, fin, rip, pc>>
        /\ job \in Requests /\ done' = Append(done, job)
        BY <1>13, <1>a, <1>t, Zenon DEF WorkerCompile, queue, locals, NothingOverwritten
  <2>2. (HasKey(done, k) => HasKey(done', k)) /\ (job.unit.key = k => HasKey(done', k))
        BY <2>1, <1>t, AppendHasKey, Zenon DEF Types
  <2>3. HasKey(items, k) => HasKey(items', k)
        BY <2>1, Zenon
  <2> QED BY <2>1, <2>2, <2>3, Zenon DEF Accounted, InFlight
<1>14. CASE WorkerRetire
      BY <1>14, <1>a, StaysAccounted, Zenon DEF WorkerRetire, locals
<1>15. CASE WaitIdle \/ WaitCheck
      BY <1>15, <1>a, StaysAccounted, Zenon DEF WaitIdle, WaitCheck, queue, worker, locals
<1>16. CASE Owner
      BY <1>16, <1>a, StaysAccounted, Zenon
      DEF Owner, Pause, Unpause, Drop, Wake, Join, queue, worker, locals
<1>17. CASE Gone
      BY <1>1, <1>17, Zenon DEF Gone
<1> QED BY <1>1, <1>2, <1>3, <1>4, <1>5, <1>6, <1>7, <1>8, <1>9, <1>10, <1>11, <1>12, <1>13,
           <1>14, <1>15, <1>16, <1>17, Zenon
        DEF Next, Resolve, Worker

(* tier_pending_len "must return to 0 once the queue drains": every marker *)
(* belongs to a request in flight, or to a vcpu about to submit it or to   *)
(* give the marker back, whatever is rewritten, declined or rejected.      *)
THEOREM NoMarkerIsStuck == Spec => []NoStuckMarker
<1>1. Init => NoStuckMarker
      BY Zenon DEF Init, NoStuckMarker
<1> QED BY <1>1, InitBasics, NextBasics, MarkerStep, PTL DEF Spec
-----------------------------------------------------------------------------
(* Every page a cached unit was translated from is tagged, whatever the    *)
(* superblocks span: handle_smc drops units and tags together, and         *)
(* drain_tier_up tags what it publishes.                                   *)
THEOREM CachedUnitsAreTagged == Spec => []TagsCoverUnits
<1>1. Init => TagsCoverUnits
      BY DEF Init, TagsCoverUnits
<1>2. Basics /\ TagsCoverUnits /\ [Next]_vars => TagsCoverUnits'
  <2> SUFFICES ASSUME Basics, TagsCoverUnits, [Next]_vars PROVE TagsCoverUnits'
      BY Zenon
  <2>t. map \in [Keys -> Units \cup {None}] /\ rip \in [Vcpus -> Keys]
        /\ fin \in [Vcpus -> Seq(Requests)]
        BY Zenon DEF Basics, Types
  <2>1. ASSUME NEW p \in Keys, Write(p) PROVE TagsCoverUnits'
        BY <2>1, <2>t, Zenon DEF Write, Victims, TagsCoverUnits
  <2>2. ASSUME NEW v \in Vcpus, DrainPublish(v) PROVE TagsCoverUnits'
    <3> DEFINE f == Head(fin[v])
    <3>1. CASE epoch = f.epoch
      <4>1. tag' = tag \cup f.unit.span /\ map' = [map EXCEPT ![f.unit.key] = f.unit]
            BY <2>2, <3>1, Zenon DEF DrainPublish
      <4> HIDE DEF f
      <4> QED BY <2>t, <4>1, Zenon DEF TagsCoverUnits
    <3>2. CASE epoch # f.epoch
          BY <2>2, <3>2, Zenon DEF DrainPublish, TagsCoverUnits
    <3> QED BY <3>1, <3>2, Zenon
  <2>3. ASSUME NEW v \in Vcpus, Relift(v) PROVE TagsCoverUnits'
        BY <2>3, <2>t, Zenon DEF Relift, Unit, TagsCoverUnits
  <2>4. ASSUME NEW v \in Vcpus, Resolve(v), ~DrainPublish(v), ~Relift(v)
        PROVE  UNCHANGED <<map, tag>>
        BY <2>4, Zenon
        DEF Resolve, DrainTake, DrainEnd, Snap, Hit, Bump, Decide, Begin, Prepare,
                    Submit, Notify, Busy, bytes, cache
  <2>5. ASSUME Worker \/ Owner \/ WaitIdle \/ WaitCheck \/ Gone \/ UNCHANGED vars
               \/ (\E v \in Vcpus, k \in Keys : Dispatch(v, k))
        PROVE  UNCHANGED <<map, tag>>
        BY <2>5, Zenon
        DEF Worker, WorkerCheck, WorkerCompile, WorkerRetire, Owner, Pause, Unpause, Drop,
                    Wake, Join, WaitIdle, WaitCheck, Gone, Dispatch, vars, bytes, cache
  <2>6. UNCHANGED <<map, tag>> => TagsCoverUnits'
        BY Zenon DEF TagsCoverUnits
  <2> QED BY <2>1, <2>2, <2>3, <2>4, <2>5, <2>6, Zenon DEF Next
<1> QED BY <1>1, <1>2, InitBasics, NextBasics, PTL DEF Spec
-----------------------------------------------------------------------------
Members(s) == {s[i] : i \in DOMAIN s}

Request(v) == [unit |-> req[v].unit, epoch |-> req[v].epoch]

(* Every request that is made or still to be made.                         *)
Held == {v \in Vcpus : pc[v] \in Holding}
Pending ==
  UNION {Members(items), Members(done), UNION {Members(fin[v]) : v \in Vcpus},
         IF wpc = "compile" THEN {job} ELSE {}, {Request(v) : v \in Held}}

(* A request of the current epoch is for a unit that is still cached, and  *)
(* was made of the bytes as they are.                                      *)
Kept(r) ==
  LET u == r.unit
  IN  /\ r.epoch <= epoch /\ u.span = {u.key}
      /\ r.epoch = epoch => map[u.key] # None /\ u.seen[u.key] = ver[u.key]

Sound ==
  /\ \A k \in Keys : map[k] # None =>
       map[k].span = {k} /\ map[k].seen[k] = ver[k] /\ k \in tag
  /\ \A r \in Pending : Kept(r)
  /\ \A v \in Vcpus : snap[v] <= epoch /\ (pc[v] \in {"region", "lift"} => Caps)

LEMMA AppendMembers ==
  ASSUME NEW s \in Seq(Requests), NEW x \in Requests
  PROVE  Members(Append(s, x)) \subseteq Members(s) \cup {x}
<1>1. ASSUME NEW i \in DOMAIN Append(s, x) PROVE Append(s, x)[i] \in Members(s) \cup {x}
  <2>1. (i \in DOMAIN s /\ Append(s, x)[i] = s[i]) \/ Append(s, x)[i] = x
        OBVIOUS
  <2> QED BY <2>1, Zenon DEF Members
<1> QED BY <1>1, Zenon DEF Members

LEMMA TailMembers ==
  ASSUME NEW s \in Seq(Requests), s # <<>>
  PROVE  Head(s) \in Members(s) /\ Members(Tail(s)) \subseteq Members(s)
<1>1. 1 \in DOMAIN s /\ Head(s) = s[1]
      OBVIOUS
<1>2. ASSUME NEW i \in DOMAIN Tail(s) PROVE Tail(s)[i] \in Members(s)
  <2>1. i + 1 \in DOMAIN s /\ Tail(s)[i] = s[i + 1]
        OBVIOUS
  <2> QED BY <2>1, Zenon DEF Members
<1> QED BY <1>1, <1>2, Zenon DEF Members

(* What is pending after a step, place by place.                           *)
LEMMA PendingIn ==
  ASSUME NEW X, Members(items') \subseteq X, Members(done') \subseteq X,
         \A v \in Vcpus : Members(fin'[v]) \subseteq X,
         wpc' = "compile" => job' \in X,
         \A v \in Vcpus : pc'[v] \in Holding => Request(v)' \in X
  PROVE  Pending' \subseteq X
<1>1. UNION {Members(fin'[v]) : v \in Vcpus} \subseteq X
      BY Zenon
<1>2. (IF wpc' = "compile" THEN {job'} ELSE {}) \subseteq X
      BY Zenon
<1>3. {Request(v) : v \in Held}' \subseteq X
      BY Zenon DEF Held
<1> QED BY <1>1, <1>2, <1>3, Zenon DEF Pending

LEMMA PendingHas ==
  /\ Members(items) \subseteq Pending /\ Members(done) \subseteq Pending
  /\ \A v \in Vcpus : Members(fin[v]) \subseteq Pending
  /\ wpc = "compile" => job \in Pending
  /\ \A v \in Vcpus : pc[v] \in Holding => Request(v) \in Pending
<1>1. Members(items) \subseteq Pending /\ Members(done) \subseteq Pending
      BY Zenon DEF Pending
<1>2. UNION {Members(fin[v]) : v \in Vcpus} \subseteq Pending
      BY Zenon DEF Pending
<1>3. (IF wpc = "compile" THEN {job} ELSE {}) \subseteq Pending
      BY Zenon DEF Pending
<1>4. {Request(v) : v \in Held} \subseteq Pending
      BY Zenon DEF Pending
<1> QED BY <1>1, <1>2, <1>3, <1>4, Zenon DEF Held

(* Only Hit and Prepare make a request that was not pending.               *)
LEMMA PendingStep ==
  ASSUME Basics, [Next]_vars, \A v \in Vcpus : ~Hit(v) /\ ~Prepare(v)
  PROVE  Pending' \subseteq Pending
<1>t. /\ items \in Seq(Requests) /\ done \in Seq(Requests) /\ fin \in [Vcpus -> Seq(Requests)]
      /\ pc \in [Vcpus -> Labels] /\ DOMAIN req = Vcpus
      BY Zenon DEF Basics, Types
<1>0. Members(<<>>) = {}
      BY DEF Members
<1>a. ASSUME UNCHANGED <<items, done, fin, req>>, wpc' = "compile" => wpc = "compile" /\ job' = job,
             \A v \in Vcpus : pc'[v] \in Holding => pc[v] \in Holding
      PROVE  Pending' \subseteq Pending
  <2>1. \A v \in Vcpus : pc'[v] \in Holding => Request(v)' \in Pending
        BY <1>a, PendingHas, Zenon DEF Request
  <2> QED BY <1>a, <2>1, PendingHas, PendingIn, Zenon
<1>1. CASE UNCHANGED vars
      BY <1>1, <1>a, Zenon DEF vars, queue, worker, locals
<1>2. ASSUME NEW p \in Keys, Write(p) PROVE Pending' \subseteq Pending
      BY <1>2, <1>a, Zenon DEF Write, queue, worker, locals
<1>3. ASSUME NEW v \in Vcpus,
             (\E k \in Keys : Dispatch(v, k)) \/ DrainPublish(v) \/ Snap(v) \/ Relift(v) \/ Decide(v)
             \/ Begin(v, "region", "lift") \/ Begin(v, "block", "ir") \/ Notify(v) \/ Busy(v)
      PROVE  Pending' \subseteq Pending
  <2>1. UNCHANGED <<items, done, fin, req>> /\ (wpc' = "compile" => wpc = "compile" /\ job' = job)
        BY <1>3, Zenon DEF Dispatch, DrainPublish, Snap, Relift, Decide, Begin, Notify, Busy,
                    queue, worker, locals
  <2>2. PICK l : pc' = [pc EXCEPT ![v] = l] /\ (l \in Holding => pc[v] \in Holding)
        BY <1>3
        DEF Dispatch, DrainPublish, Snap, Relift, Decide, Begin, Notify, Busy, Goto, Holding
  <2>3. \A w \in Vcpus : pc'[w] \in Holding => pc[w] \in Holding
        BY <1>t, <2>2, Zenon
  <2> QED BY <1>a, <2>1, <2>3, Zenon
<1>4. ASSUME NEW v \in Vcpus, DrainTake(v) PROVE Pending' \subseteq Pending
  <2>1. UNCHANGED <<items, req, wpc, job>> /\ done' = <<>> /\ fin' = [fin EXCEPT ![v] = done]
        BY <1>4, Zenon DEF DrainTake, queue, worker
  <2>2. \A w \in Vcpus : pc'[w] \in Holding => pc[w] \in Holding
        BY <1>4, <1>t, Zenon DEF DrainTake, Goto, Holding
  <2>3. \A w \in Vcpus : Members(fin'[w]) \subseteq Pending
        BY <1>t, <2>1, PendingHas, Zenon
  <2>4. \A w \in Vcpus : pc'[w] \in Holding => Request(w)' \in Pending
        BY <2>1, <2>2, PendingHas, Zenon DEF Request
  <2>5. Members(items') \subseteq Pending /\ Members(done') \subseteq Pending
        /\ (wpc' = "compile" => job' \in Pending)
        BY <1>0, <2>1, PendingHas, Zenon
  <2> QED BY <2>3, <2>4, <2>5, PendingIn, Zenon
<1>5. ASSUME NEW v \in Vcpus, DrainEnd(v) PROVE Pending' \subseteq Pending
  <2>1. /\ UNCHANGED <<items, done, req, wpc, job>> /\ fin' = [fin EXCEPT ![v] = Tail(fin[v])]
        /\ fin[v] # <<>> /\ fin[v] \in Seq(Requests)
        BY <1>5, <1>t, Zenon DEF DrainEnd, queue, worker, Basics, NothingOverwritten
  <2>2. \A w \in Vcpus : pc'[w] \in Holding => pc[w] \in Holding
        BY <1>5, <1>t, Zenon DEF DrainEnd, Goto, Holding
  <2>3. Members(Tail(fin[v])) \subseteq Members(fin[v])
        BY <2>1, TailMembers, Zenon
  <2>4. \A w \in Vcpus : Members(fin'[w]) \subseteq Pending
        BY <1>t, <2>1, <2>3, PendingHas, Zenon
  <2>5. \A w \in Vcpus : pc'[w] \in Holding => Request(w)' \in Pending
        BY <2>1, <2>2, PendingHas, Zenon DEF Request
  <2>6. Members(items') \subseteq Pending /\ Members(done') \subseteq Pending
        /\ (wpc' = "compile" => job' \in Pending)
        BY <2>1, PendingHas, Zenon
  <2> QED BY <2>4, <2>5, <2>6, PendingIn, Zenon
<1>6. ASSUME NEW v \in Vcpus, Bump(v) PROVE Pending' \subseteq Pending
  <2>1. /\ UNCHANGED <<items, done, fin, wpc, job>> /\ pc[v] = "bump"
        /\ \E c : req' = [req EXCEPT ![v].count = c]
        BY <1>6, Zenon DEF Bump, queue, worker
  <2>2. \A w \in Vcpus : pc'[w] \in Holding => pc[w] \in Holding
        BY <1>6, <1>t, Zenon DEF Bump, Goto, Holding
  <2>3. req[v] \in [unit : Units, epoch : Nat, count : Nat]
        BY <2>1, Zenon DEF Basics, KeysMatch, Holding
  <2>4. \A w \in Vcpus : req'[w].unit = req[w].unit /\ req'[w].epoch = req[w].epoch
        BY <1>t, <2>1, <2>3
  <2>5. \A w \in Vcpus : pc'[w] \in Holding => Request(w)' \in Pending
        BY <2>2, <2>4, PendingHas, Zenon DEF Request
  <2>6. /\ Members(items') \subseteq Pending /\ Members(done') \subseteq Pending
        /\ \A w \in Vcpus : Members(fin'[w]) \subseteq Pending
        /\ wpc' = "compile" => job' \in Pending
        BY <2>1, PendingHas, Zenon
  <2> QED BY <2>5, <2>6, PendingIn, Zenon
<1>7. ASSUME NEW v \in Vcpus, Submit(v) PROVE Pending' \subseteq Pending
  <2>1. /\ UNCHANGED <<done, fin, req, job>> /\ (wpc' = "compile" => wpc = "compile")
        /\ pc[v] = "submit" /\ (items' = items \/ items' = Append(items, Request(v)))
        BY <1>7, Zenon DEF Submit, locals, Request
  <2>2. \A w \in Vcpus : pc'[w] \in Holding => pc[w] \in Holding
        BY <1>7, <1>t, Zenon DEF Submit, Goto, Holding
  <2>3. Request(v) \in Requests /\ Request(v) \in Pending
        BY <2>1, PendingHas, Zenon DEF Basics, KeysMatch, Holding, Requests, Request
  <2>4. Members(items') \subseteq Pending
    <3>1. Members(Append(items, Request(v))) \subseteq Members(items) \cup {Request(v)}
          BY <1>t, <2>3, AppendMembers, Zenon
    <3> QED BY <2>1, <2>3, <3>1, PendingHas, Zenon
  <2>5. \A w \in Vcpus : pc'[w] \in Holding => Request(w)' \in Pending
        BY <2>1, <2>2, PendingHas, Zenon DEF Request
  <2>6. /\ Members(done') \subseteq Pending
        /\ \A w \in Vcpus : Members(fin'[w]) \subseteq Pending
        /\ wpc' = "compile" => job' \in Pending
        BY <2>1, PendingHas, Zenon
  <2> QED BY <2>4, <2>5, <2>6, PendingIn, Zenon
<1>8. CASE WorkerCheck
  <2>1. UNCHANGED <<done, fin, req, pc>> /\ wpc = "check"
        BY <1>8, Zenon DEF WorkerCheck, locals
  <2>2. CASE wpc' # "compile" /\ UNCHANGED <<items, job>>
        BY <1>a, <2>1, <2>2, Zenon
  <2>3. CASE items # <<>> /\ wpc' = "compile" /\ job' = Head(items) /\ items' = Tail(items)
    <3>1. Members(items') \subseteq Pending /\ job' \in Pending
          BY <1>t, <2>3, TailMembers, PendingHas, Zenon
    <3>2. /\ Members(done') \subseteq Pending
          /\ \A w \in Vcpus : Members(fin'[w]) \subseteq Pending
          /\ \A w \in Vcpus : pc'[w] \in Holding => Request(w)' \in Pending
          BY <2>1, PendingHas, Zenon DEF Request
    <3> QED BY <3>1, <3>2, PendingIn, Zenon
  <2> QED BY <1>8, <2>2, <2>3, Zenon DEF WorkerCheck
<1>9. CASE WorkerCompile
  <2>1. /\ UNCHANGED <<items, fin, req, pc>> /\ job \in Requests /\ wpc = "compile"
        /\ done' = Append(done, job) /\ wpc' = "retire"
        BY <1>9, Zenon DEF WorkerCompile, queue, locals, Basics, NothingOverwritten
  <2>2. Members(done') \subseteq Pending
        BY <1>t, <2>1, AppendMembers, PendingHas
  <2>3. /\ Members(items') \subseteq Pending
        /\ \A w \in Vcpus : Members(fin'[w]) \subseteq Pending
        /\ wpc' # "compile"
        /\ \A w \in Vcpus : pc'[w] \in Holding => Request(w)' \in Pending
        BY <2>1, PendingHas, Zenon DEF Request
  <2> QED BY <2>2, <2>3, PendingIn, Zenon
<1>10. CASE WorkerRetire \/ WaitIdle \/ WaitCheck \/ Owner
  <2>1. UNCHANGED <<items, done, fin, req, pc>> /\ (wpc' = "compile" => wpc = "compile" /\ job' = job)
        BY <1>10, Zenon
        DEF WorkerRetire, WaitIdle, WaitCheck, Owner, Pause, Unpause, Drop, Wake, Join,
                     queue, worker, locals
  <2> QED BY <1>a, <2>1, Zenon
<1>11. CASE Gone
      BY <1>1, <1>11, Zenon DEF Gone
<1> QED BY <1>1, <1>2, <1>3, <1>4, <1>5, <1>6, <1>7, <1>8, <1>9, <1>10, <1>11, Zenon
        DEF Next, Resolve, Worker

LEMMA PendingIsRequests == Basics => Pending \subseteq Requests
<1> SUFFICES ASSUME Basics, NEW r \in Pending PROVE r \in Requests
    BY Zenon
<1>1. ASSUME NEW s \in Seq(Requests) PROVE Members(s) \subseteq Requests
      BY DEF Members
<1>2. Members(items) \subseteq Requests /\ Members(done) \subseteq Requests
      /\ \A v \in Vcpus : Members(fin[v]) \subseteq Requests
      BY <1>1, Zenon DEF Basics, Types
<1>3. UNION {Members(fin[v]) : v \in Vcpus} \subseteq Requests
      BY <1>2, Zenon
<1>4. (IF wpc = "compile" THEN {job} ELSE {}) \subseteq Requests
      BY Zenon DEF Basics, NothingOverwritten
<1>5. {Request(v) : v \in Held} \subseteq Requests
      BY DEF Basics, KeysMatch, Held, Request, Requests
<1> QED BY <1>2, <1>3, <1>4, <1>5, Zenon DEF Pending

(* A store into a cached page moves the epoch; one into another page       *)
(* concerns no request of the current epoch.                               *)
LEMMA KeptStep ==
  ASSUME Basics, Sound, [Next]_vars, NEW r \in Requests, Kept(r)
  PROVE  Kept(r)'
<1>t. /\ map \in [Keys -> Units \cup {None}] /\ epoch \in Nat /\ ver \in [Keys -> Nat]
      /\ rip \in [Vcpus -> Keys] /\ fin \in [Vcpus -> Seq(Requests)]
      BY Zenon DEF Basics, Types
<1>r. r.epoch \in Nat /\ r.unit \in Units /\ r.unit.key \in Keys
      BY Zenon DEF Requests, Units
<1>1. ASSUME NEW p \in Keys, Write(p) PROVE Kept(r)'
  <2> DEFINE V == IF p \in tag THEN Victims(p) ELSE {}
  <2>1. /\ map' = [k \in Keys |-> IF k \in V THEN None ELSE map[k]]
        /\ epoch' = IF V = {} THEN epoch ELSE epoch + 1
        /\ ver' = [ver EXCEPT ![p] = ver[p] + 1]
        BY <1>1, Zenon DEF Write
  <2>2. map[p] # None => p \in V
        BY Zenon DEF Sound, Victims
  <2> HIDE DEF V
  <2>3. r.epoch <= epoch' /\ r.unit.span = {r.unit.key}
        BY <1>t, <1>r, <2>1 DEF Kept
  <2>4. ASSUME r.epoch = epoch' PROVE map'[r.unit.key] # None /\ r.unit.seen[r.unit.key] = ver'[r.unit.key]
    <3>1. V = {} /\ r.epoch = epoch
          BY <1>t, <1>r, <2>1, <2>4 DEF Kept
    <3>2. map[p] = None /\ map[r.unit.key] # None /\ r.unit.seen[r.unit.key] = ver[r.unit.key]
          BY <2>2, <3>1, Zenon DEF Kept
    <3> QED BY <1>t, <1>r, <2>1, <3>1, <3>2, Zenon
  <2> QED BY <2>3, <2>4, Zenon DEF Kept
<1>2. ASSUME UNCHANGED <<ver, epoch>>, \A k \in Keys : map[k] # None => map'[k] # None
      PROVE  Kept(r)'
      BY <1>2, <1>r, Zenon DEF Kept
<1>n. \A x \in Units : x # None
      BY NoneAssumption, Zenon DEF Units
<1>3. ASSUME NEW v \in Vcpus, DrainPublish(v) PROVE Kept(r)'
  <2>1. Head(fin[v]) \in Requests
        BY <1>3, <1>t, TailIsRequests, Zenon DEF DrainPublish
  <2>2. Head(fin[v]).unit \in Units
        BY <2>1, Zenon DEF Requests
  <2>3. UNCHANGED <<ver, epoch>> /\ (map' = map \/ map' = [map EXCEPT ![Head(fin[v]).unit.key] = Head(fin[v]).unit])
        BY <1>3, Zenon DEF DrainPublish
  <2> QED BY <1>2, <1>n, <1>t, <2>2, <2>3, Zenon
<1>4. ASSUME NEW v \in Vcpus, Relift(v) PROVE Kept(r)'
  <2>0. rip[v] \in Keys /\ {rip[v]} \in SUBSET Keys /\ FALSE \in BOOLEAN
        BY <1>t
  <2>1. Unit(rip[v], {rip[v]}, FALSE) \in Units
        BY <1>t, <2>0, UnitIsUnit, Zenon
  <2>2. UNCHANGED <<ver, epoch>> /\ map' = [map EXCEPT ![rip[v]] = Unit(rip[v], {rip[v]}, FALSE)]
        BY <1>4, Zenon DEF Relift
  <2> QED BY <1>2, <1>n, <1>t, <2>1, <2>2, Zenon
<1>5. ASSUME UNCHANGED <<ver, epoch, map>> PROVE Kept(r)'
      BY <1>2, <1>5, Zenon
<1>6. ASSUME NEW v \in Vcpus, Resolve(v), ~DrainPublish(v), ~Relift(v)
      PROVE  UNCHANGED <<ver, epoch, map>>
      BY <1>6, Zenon DEF Resolve, DrainTake, DrainEnd, Snap, Hit, Bump, Decide, Begin, Prepare,
                  Submit, Notify, Busy, bytes, cache
<1>7. ASSUME Worker \/ Owner \/ WaitIdle \/ WaitCheck \/ Gone \/ UNCHANGED vars
             \/ (\E v \in Vcpus, k \in Keys : Dispatch(v, k))
      PROVE  UNCHANGED <<ver, epoch, map>>
      BY <1>7, Zenon
      DEF Worker, WorkerCheck, WorkerCompile, WorkerRetire, Owner, Pause, Unpause, Drop,
                  Wake, Join, WaitIdle, WaitCheck, Gone, Dispatch, vars, bytes, cache
<1> QED BY <1>1, <1>3, <1>4, <1>5, <1>6, <1>7, Zenon DEF Next

LEMMA SoundStep ==
  ASSUME NoWideRegions
  PROVE  Basics /\ Sound /\ [Next]_vars => Sound'
<1> SUFFICES ASSUME Basics, Sound, [Next]_vars PROVE Sound'
    BY Zenon
<1>t. /\ map \in [Keys -> Units \cup {None}] /\ epoch \in Nat /\ ver \in [Keys -> Nat]
      /\ rip \in [Vcpus -> Keys] /\ fin \in [Vcpus -> Seq(Requests)] /\ snap \in [Vcpus -> Nat]
      /\ pc \in [Vcpus -> Labels] /\ DOMAIN req = Vcpus
      BY Zenon DEF Basics, Types
<1>k. ASSUME NEW r \in Pending PROVE Kept(r)'
      BY KeptStep, PendingIsRequests, Zenon DEF Sound
<1>1. \A k \in Keys : map'[k] # None =>
        map'[k].span = {k} /\ map'[k].seen[k] = ver'[k] /\ k \in tag'
  <2> DEFINE Goal == \A k \in Keys : map'[k] # None =>
                       map'[k].span = {k} /\ map'[k].seen[k] = ver'[k] /\ k \in tag'
  <2>1. ASSUME NEW p \in Keys, Write(p) PROVE Goal
        BY <2>1, <1>t, Zenon DEF Write, Victims, Sound
  <2>2. ASSUME NEW v \in Vcpus, DrainPublish(v) PROVE Goal
    <3> DEFINE f == Head(fin[v])
    <3>1. f \in Requests /\ f \in Pending
          BY <1>t, <2>2, TailIsRequests, TailMembers, PendingHas, Zenon DEF DrainPublish
    <3>2. f.unit.key \in Keys /\ Kept(f)
          BY <3>1, Zenon DEF Requests, Units, Sound
    <3>3. UNCHANGED ver
          BY <2>2, Zenon DEF DrainPublish
    <3>4. CASE epoch = f.epoch
      <4>1. tag' = tag \cup f.unit.span /\ map' = [map EXCEPT ![f.unit.key] = f.unit]
            BY <2>2, <3>4, Zenon DEF DrainPublish
      <4> HIDE DEF f
      <4>2. f.unit.span = {f.unit.key} /\ f.unit.seen[f.unit.key] = ver[f.unit.key]
            BY <3>2, <3>4, Zenon DEF Kept
      <4> QED BY <1>t, <3>2, <3>3, <4>1, <4>2, Zenon DEF Sound
    <3>5. CASE epoch # f.epoch
          BY <2>2, <3>3, <3>5, Zenon DEF DrainPublish, Sound
    <3> QED BY <3>4, <3>5, Zenon
  <2>3. ASSUME NEW v \in Vcpus, Relift(v) PROVE Goal
        BY <2>3, <1>t, Zenon DEF Relift, Unit, Sound
  <2>4. ASSUME NEW v \in Vcpus, Resolve(v), ~DrainPublish(v), ~Relift(v)
        PROVE  UNCHANGED <<ver, map, tag>>
        BY <2>4, Zenon
        DEF Resolve, DrainTake, DrainEnd, Snap, Hit, Bump, Decide, Begin, Prepare,
                    Submit, Notify, Busy, bytes, cache
  <2>5. ASSUME Worker \/ Owner \/ WaitIdle \/ WaitCheck \/ Gone \/ UNCHANGED vars
               \/ (\E v \in Vcpus, k \in Keys : Dispatch(v, k))
        PROVE  UNCHANGED <<ver, map, tag>>
        BY <2>5, Zenon
        DEF Worker, WorkerCheck, WorkerCompile, WorkerRetire, Owner, Pause, Unpause, Drop,
                    Wake, Join, WaitIdle, WaitCheck, Gone, Dispatch, vars, bytes, cache
  <2>6. UNCHANGED <<ver, map, tag>> => Goal
        BY Zenon DEF Sound
  <2> HIDE DEF Goal
  <2>7. Goal
        BY <2>1, <2>2, <2>3, <2>4, <2>5, <2>6, Zenon DEF Next
  <2> QED BY <2>7, Zenon DEF Goal
<1>2. \A v \in Vcpus : snap'[v] <= epoch' /\ (pc'[v] \in {"region", "lift"} => Caps)
  <2>0. \A v \in Vcpus : snap[v] <= epoch /\ (pc[v] \in {"region", "lift"} => Caps)
        BY Zenon DEF Sound
  <2>1. ASSUME NEW v \in Vcpus PROVE snap'[v] <= epoch'
    <3>1. epoch' \in Nat /\ epoch <= epoch' /\ (snap'[v] = snap[v] \/ snap'[v] = epoch)
      <4>1. \/ UNCHANGED snap /\ (epoch' = epoch \/ epoch' = epoch + 1)
            \/ UNCHANGED epoch /\ \E w \in Vcpus : snap' = [snap EXCEPT ![w] = epoch]
        <5>1. ASSUME NEW p \in Keys, Write(p)
              PROVE  UNCHANGED snap /\ (epoch' = epoch \/ epoch' = epoch + 1)
              BY <5>1, Zenon DEF Write, locals
        <5>2. ASSUME NEW w \in Vcpus, Snap(w)
              PROVE  UNCHANGED epoch /\ snap' = [snap EXCEPT ![w] = epoch]
              BY <5>2, Zenon DEF Snap, cache
        <5>3. ASSUME NEW w \in Vcpus, Resolve(w), ~Snap(w) PROVE UNCHANGED <<epoch, snap>>
              BY <5>3, Zenon
              DEF Resolve, DrainTake, DrainPublish, DrainEnd, Relift, Hit, Bump, Decide,
                          Begin, Prepare, Submit, Notify, Busy, cache, locals
        <5>4. ASSUME Worker \/ Owner \/ WaitIdle \/ WaitCheck \/ Gone \/ UNCHANGED vars
                     \/ (\E w \in Vcpus, k \in Keys : Dispatch(w, k))
              PROVE  UNCHANGED <<epoch, snap>>
              BY <5>4, Zenon
              DEF Worker, WorkerCheck, WorkerCompile, WorkerRetire, Owner, Pause, Unpause,
                          Drop, Wake, Join, WaitIdle, WaitCheck, Gone, Dispatch, vars, cache,
                          locals
        <5> QED BY <5>1, <5>2, <5>3, <5>4, Zenon DEF Next
      <4> QED BY <1>t, <4>1
    <3>2. snap[v] \in Nat /\ snap[v] <= epoch /\ epoch \in Nat
          BY <1>t, <2>0, Zenon
    <3>3. snap'[v] \in Nat /\ snap'[v] <= epoch
          BY <3>1, <3>2
    <3> QED BY <3>1, <3>2, <3>3
  <2>2. ASSUME NEW v \in Vcpus, pc'[v] \in {"region", "lift"}, ~Caps PROVE FALSE
    <3>1. pc[v] \notin {"region", "lift"}
          BY <2>0, <2>2, Zenon
    <3>2. ASSUME NEW w \in Vcpus, Resolve(w) \/ (\E k \in Keys : Dispatch(w, k)) PROVE FALSE
      <4>1. w = v
            BY <1>t, <2>2, <3>1, <3>2, Zenon
            DEF Resolve, DrainTake, DrainPublish, DrainEnd, Snap, Relift, Hit, Bump, Decide,
                Begin,
                Prepare, Submit, Notify, Busy, Dispatch, Goto
      <4> QED BY <1>t, <2>2, <3>1, <3>2, <4>1
              DEF Resolve, DrainTake, DrainPublish, DrainEnd, Snap, Relift, Hit, Bump, Decide,
                  Begin, Prepare, Submit, Notify, Busy, Dispatch, Goto
    <3>3. UNCHANGED pc => FALSE
          BY <2>2, <3>1, Zenon
    <3> QED BY <3>2, <3>3, Zenon
            DEF Next, Write, Worker, WorkerCheck, WorkerCompile, WorkerRetire, Owner, Pause,
                Unpause, Drop, Wake, Join, WaitIdle, WaitCheck, Gone, vars
  <2> QED BY <2>1, <2>2, Zenon
<1>3. \A r \in Pending' : Kept(r)'
  <2>1. CASE \A v \in Vcpus : ~Hit(v) /\ ~Prepare(v)
        BY <1>k, <2>1, PendingStep, Zenon
  <2>2. ASSUME NEW v \in Vcpus, NEW x, UNCHANGED <<items, done, fin, wpc, job>>, Kept(x)',
               \A w \in Vcpus : pc'[w] \in Holding =>
                 Request(w)' = x \/ (pc[w] \in Holding /\ Request(w)' = Request(w))
        PROVE  \A r \in Pending' : Kept(r)'
    <3>1. /\ Members(items') \subseteq Pending \cup {x} /\ Members(done') \subseteq Pending \cup {x}
          /\ \A w \in Vcpus : Members(fin'[w]) \subseteq Pending \cup {x}
          /\ wpc' = "compile" => job' \in Pending \cup {x}
          BY <2>2, PendingHas, Zenon
    <3>2. \A w \in Vcpus : pc'[w] \in Holding => Request(w)' \in Pending \cup {x}
          BY <2>2, PendingHas, Zenon
    <3>3. Pending' \subseteq Pending \cup {x}
          BY <3>1, <3>2, PendingIn, Zenon
    <3> QED BY <1>k, <2>2, <3>3, Zenon
  <2>3. ASSUME NEW v \in Vcpus, Hit(v) PROVE \A r \in Pending' : Kept(r)'
    <3>1. /\ UNCHANGED <<items, done, fin, wpc, job, rip, ver, epoch, map>> /\ map[rip[v]] # None
          BY <2>3, Zenon DEF Hit, queue, worker, bytes, cache
    <3>x. PICK x : x = [unit |-> map[rip[v]], epoch |-> snap[v]]
          BY Zenon
    <3>2. map[rip[v]].key = rip[v] /\ rip[v] \in Keys
          BY <1>t, <3>1, Zenon DEF Basics, KeysMatch
    <3>3. Kept(x)'
          BY <3>1, <3>2, <3>x, Zenon DEF Sound, Kept
    <3>4. \A w \in Vcpus : pc'[w] \in Holding =>
            Request(w)' = x \/ (pc[w] \in Holding /\ Request(w)' = Request(w))
          BY <1>t, <2>3, <3>x, Zenon DEF Hit, Goto, Holding, Request
    <3> QED BY <2>2, <3>1, <3>3, <3>4, Zenon
  <2>4. ASSUME NEW v \in Vcpus, Prepare(v) PROVE \A r \in Pending' : Kept(r)'
    <3>1. /\ UNCHANGED <<items, done, fin, wpc, job, rip, ver, epoch, map>>
          /\ pc[v] \in {"lift", "ir"} /\ pc' = [pc EXCEPT ![v] = "submit"]
          BY <2>4, Zenon DEF Prepare, Goto, queue, worker, bytes, cache
    <3>2. /\ req[v] \in [unit : Units, epoch : Nat, count : Nat] /\ req[v].unit.key = rip[v]
          /\ rip[v] \in Keys /\ Request(v) \in Pending
          BY <1>t, <3>1, PendingHas, Zenon DEF Basics, KeysMatch, Holding
    <3>3. Kept(Request(v))
          BY <3>2, Zenon DEF Sound
    <3>4. PICK u : /\ req' = [req EXCEPT ![v].unit = u]
                   /\ u.key = rip[v] /\ u.span = {rip[v]}
                   /\ u.seen[rip[v]] = ver[rip[v]] \/ u.seen = req[v].unit.seen
      <4>1. CASE pc[v] = "lift" /\ Loop[rip[v]][ver[rip[v]]]
        <5>1. Region[rip[v]] = {rip[v]}
              BY <3>2, <4>1, Zenon DEF Sound, NoWideRegions
        <5>2. req' = [req EXCEPT ![v].unit = Unit(rip[v], {rip[v]}, TRUE)]
              BY <2>4, <4>1, <5>1, Zenon DEF Prepare
        <5>3. /\ Unit(rip[v], {rip[v]}, TRUE).key = rip[v]
              /\ Unit(rip[v], {rip[v]}, TRUE).span = {rip[v]}
              /\ Unit(rip[v], {rip[v]}, TRUE).seen[rip[v]] = ver[rip[v]]
              BY <3>2, Zenon DEF Unit
        <5> QED BY <5>2, <5>3, Zenon
      <4>2. CASE ~(pc[v] = "lift" /\ Loop[rip[v]][ver[rip[v]]])
        <5>1. req' = [req EXCEPT ![v].unit = [req[v].unit EXCEPT !.comp = TRUE]]
              BY <2>4, <4>2, Zenon DEF Prepare
        <5>2. req[v].unit.span = {rip[v]}
              BY <3>2, <3>3, Zenon DEF Kept, Request
        <5>3. PICK u : u = [req[v].unit EXCEPT !.comp = TRUE]
              BY Zenon
        <5>4. u.key = rip[v] /\ u.span = {rip[v]} /\ u.seen = req[v].unit.seen
              BY <3>2, <5>2, <5>3, Zenon DEF Units
        <5> QED BY <5>1, <5>3, <5>4, Zenon
      <4> QED BY <4>1, <4>2, Zenon
    <3>x. PICK x : x = [unit |-> u, epoch |-> req[v].epoch]
          BY Zenon
    <3>5. Kept(x)'
      <4>1. req[v].epoch <= epoch /\ (req[v].epoch = epoch =>
              map[rip[v]] # None /\ req[v].unit.seen[rip[v]] = ver[rip[v]])
            BY <3>2, <3>3, Zenon DEF Kept, Request
      <4> QED BY <3>1, <3>4, <3>x, <4>1, Zenon DEF Kept
    <3>6. \A w \in Vcpus : pc'[w] \in Holding =>
            Request(w)' = x \/ (pc[w] \in Holding /\ Request(w)' = Request(w))
      <4>1. req'[v].unit = u /\ req'[v].epoch = req[v].epoch
            BY <1>t, <3>2, <3>4, Zenon
      <4>2. \A w \in Vcpus : w # v => req'[w] = req[w] /\ pc'[w] = pc[w]
            BY <1>t, <3>1, <3>4, Zenon
      <4> QED BY <3>x, <4>1, <4>2, Zenon DEF Request
    <3> QED BY <2>2, <3>1, <3>5, <3>6, Zenon
  <2> QED BY <2>1, <2>3, <2>4, Zenon
<1> QED BY <1>1, <1>2, <1>3, Zenon DEF Sound

(* upgrade_region: with the epoch of a request checked under the lock, no  *)
(* compile that a store has overtaken is ever published, as long as a      *)
(* superblock is on its entry's page alone.  TierUpStale.cfg shows why     *)
(* that much is needed.                                                    *)
THEOREM NothingStaleIsPublished == ASSUME NoWideRegions PROVE Spec => []CachedIsFresh
<1>1. Init => Sound
  <2> SUFFICES ASSUME Init PROVE Sound
      BY Zenon
  <2>1. Pending = {}
    <3>1. Members(<<>>) = {}
          BY DEF Members
    <3>2. \A v \in Vcpus : Members(fin[v]) = {}
          BY <3>1, Zenon DEF Init
    <3>3. Held = {}
          BY Zenon DEF Init, Held, Holding
    <3>4. Members(items) = {} /\ Members(done) = {} /\ wpc # "compile"
          BY <3>1, Zenon DEF Init
    <3>5. UNION {Members(fin[v]) : v \in Vcpus} = {}
          BY <3>2, Zenon
    <3>6. {Request(v) : v \in Held} = {}
          BY <3>3, Zenon
    <3> QED BY <3>4, <3>5, <3>6, Zenon DEF Pending
  <2>2. \A v \in Vcpus : snap[v] <= epoch /\ pc[v] = "run"
        BY DEF Init
  <2>3. \A k \in Keys : map[k] = None
        BY Zenon DEF Init
  <2> QED BY <2>1, <2>2, <2>3, Zenon DEF Sound
<1>2. Sound => CachedIsFresh
      BY Zenon DEF Sound, CachedIsFresh, Fresh
<1> QED BY <1>1, <1>2, InitBasics, NextBasics, SoundStep, PTL DEF Spec
=============================================================================
