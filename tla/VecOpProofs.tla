---------------------------- MODULE VecOpProofs -----------------------------
(***************************************************************************)
(* What one vector op does to the state, in the interpreter and in         *)
(* compiled code.  First the helpers of VecRegs and VecShared, then every  *)
(* handler, emitter and helper, then walk_ops and Translator::op as a      *)
(* whole (InterpDoes, JitDoes).                                            *)
(***************************************************************************)
EXTENDS VecJit, TLAPS

(* ------------------------- What a step may do --------------------------- *)

Fields == {"r", "k", "m", "x", "rip", "noted", "lim", "trap", "parts", "pend", "fl", "g", "t"}

State(s) == DOMAIN s = Fields /\ DOMAIN s.m = 0 .. 7 /\ s.lim \in Nat

(* t differs from s in registers, flags and temporaries only.              *)
Calm(s, t) ==
  /\ State(t)
  /\ t.x = s.x /\ t.m = s.m /\ t.noted = s.noted /\ t.lim = s.lim /\ t.trap = s.trap

(* The exit of t names the instruction and a byte that is not backed.      *)
Exact(s, t) ==
  t.x[1] = "Unmapped" => t.rip = "insn" /\ (s.lim % 8 = 0 => t.x[2] >= s.lim)

Reports(s, t) ==
  /\ s.noted \subseteq t.noted
  /\ \A c \in 0 .. 7 : t.m[c] = s.m[c] \/ c \in t.noted

(* Memory is accessed, the registers are not.                              *)
Accessed(s, t) ==
  /\ State(t)
  /\ t.lim = s.lim /\ t.trap = s.trap
  /\ Arch(t) = Arch(s)
  /\ t.x # None => Exact(s, t)

Tries(s, t) == Accessed(s, t) /\ Reports(s, t)

(* What every operation may do: an exit leaves the registers alone.        *)
Obeys(s, t) ==
  /\ State(t)
  /\ t.lim = s.lim /\ t.trap = s.trap
  /\ Reports(s, t)
  /\ t.x # None => Arch(t) = Arch(s) /\ Exact(s, t)

LEMMA CalmObeys ==
  ASSUME NEW s, NEW t, s.x = None, Calm(s, t)
  PROVE  Obeys(s, t)
BY DEF Calm, Obeys, Reports

LEMMA TriesObeys ==
  ASSUME NEW s, NEW t, Tries(s, t)
  PROVE  Obeys(s, t)
BY DEF Tries, Accessed, Obeys

LEMMA TriesSame ==
  ASSUME NEW s, State(s), s.x = None
  PROVE  Tries(s, s)
BY DEF Tries, Accessed, Reports

LEMMA TriesState ==
  ASSUME NEW s, NEW t, Tries(s, t)
  PROVE  State(t)
BY DEF Tries, Accessed

LEMMA TryThen ==
  ASSUME NEW s, NEW t, NEW u, Tries(s, t), t.x = None, Calm(t, u)
  PROVE  Obeys(s, u)
BY DEF Tries, Accessed, Calm, Obeys, Reports, Exact

LEMMA TryTry ==
  ASSUME NEW s, NEW t, NEW u, Tries(s, t), Tries(t, u)
  PROVE  Tries(s, u)
<1>1. Reports(s, u)
  BY DEF Tries, Reports
<1> QED
  BY <1>1 DEF Tries, Accessed, Exact

LEMMA CalmSame ==
  ASSUME NEW s, State(s)
  PROVE  Calm(s, s)
BY DEF Calm

LEMMA CalmCalm ==
  ASSUME NEW s, NEW t, NEW u, Calm(s, t), Calm(t, u)
  PROVE  Calm(s, u)
BY DEF Calm

(* ------------------------- Writes of registers -------------------------- *)

LEMMA SetLaneCalm ==
  ASSUME NEW s, NEW t, Calm(s, t), NEW d, NEW i, NEW v
  PROVE  Calm(s, SetLane(t, d, i, v))
BY DEF Calm, State, Fields, SetLane

LEMMA set_vecCalm ==
  ASSUME NEW s, NEW t, Calm(s, t), NEW d, NEW n, NEW v
  PROVE  Calm(s, set_vec(t, d, v, n)) /\ Calm(s, set_vec_low(t, d, v, n))
BY DEF Calm, State, Fields, set_vec, set_vec_low

LEMMA CommitCalm ==
  ASSUME NEW s, NEW t, Calm(s, t), NEW o, NEW d, NEW n, NEW v
  PROVE  Calm(s, Commit(t, o, v, n)) /\ Calm(s, write_masked(t, d, v, o, n))
BY set_vecCalm DEF Commit, write_masked

LEMMA OtherCalm ==
  ASSUME NEW s, NEW t, Calm(s, t), NEW d, NEW v
  PROVE  /\ Calm(s, SetMask(t, d, v))
         /\ Calm(s, SetFlags(t, v))
         /\ Calm(s, SetTemp(t, v))
BY DEF Calm, State, Fields, SetMask, SetFlags, SetTemp

LEMMA UpperCalm ==
  ASSUME NEW s, NEW t, Calm(s, t), NEW o, NEW d, NEW n
  PROVE  Calm(s, store_lanes_zeroed_above(t, d, n)) /\ Calm(s, ZeroedIfWide(o, t))
BY DEF Calm, State, Fields, store_lanes_zeroed_above, ZeroedIfWide

LEMMA LoopCalm ==
  ASSUME NEW s, NEW t, Calm(s, t), NEW o, NEW n
  PROVE  /\ Calm(s, LaneLoop(o, t, n))
         /\ Calm(s, LaneLoopUnary(o, t, n))
         /\ Calm(s, LaneLoopB(o, t, n))
<1>1. Calm(s, LaneLoop(o, t, n))
  BY SetLaneCalm, Zenon DEF LaneLoop, EachLane, ForLanes
<1>2. Calm(s, LaneLoopUnary(o, t, n))
  BY SetLaneCalm, Zenon DEF LaneLoopUnary, EachLane, ForLanes
<1>3. Calm(s, LaneLoopB(o, t, n))
  BY SetLaneCalm, Zenon DEF LaneLoopB, EachLane, ForLanes
<1> QED
  BY <1>1, <1>2, <1>3

(* --------------------------- Accesses to memory ------------------------- *)

(* Memory that ends between two chunks ends before a chunk that is not all *)
(* there.                                                                  *)
LEMMA EndsBetween ==
  ASSUME NEW lim \in Nat, lim % 8 = 0, NEW c \in Nat, NEW n \in 1 .. 8, 8 * c + n > lim
  PROVE  8 * c >= lim
<1> DEFINE q == lim \div 8
<1>1. q \in Nat /\ lim = 8 * q
  OBVIOUS
<1> HIDE DEF q
<1> QED
  BY <1>1

LEMMA ExitTries ==
  ASSUME NEW s, State(s), NEW kind, NEW off, NEW acc,
         kind = "Unmapped" /\ s.lim % 8 = 0 => off >= s.lim
  PROVE  Tries(s, Exit(s, kind, off, acc))
BY DEF Tries, Accessed, State, Fields, Exit, Exact, Arch, Reports

LEMMA readTries ==
  ASSUME NEW s, State(s), s.x = None, NEW c \in Nat, NEW n \in 1 .. 8
  PROVE  Tries(s, read(s, 8 * c, n))
<1>1. 8 * c + n > s.lim /\ s.lim % 8 = 0 => 8 * c >= s.lim
  BY EndsBetween, Zenon DEF State
<1> QED
  BY <1>1, TriesSame, ExitTries DEF read, RegionAt

LEMMA PutReports ==
  ASSUME NEW s, State(s), s.x = None, NEW c \in 0 .. 7, NEW n, NEW v
  PROVE  Tries(s, [Put(s, 8 * c, n, v) EXCEPT !.noted = @ \cup {(8 * c) \div 8}])
<1>1. (8 * c) \div 8 = c
  OBVIOUS
<1> DEFINE new == IF n = 8 THEN v ELSE <<"part", v, s.m[c]>>
<1> DEFINE t == [Put(s, 8 * c, n, v) EXCEPT !.noted = @ \cup {(8 * c) \div 8}]
<1>2. /\ DOMAIN t = Fields /\ t.m = [s.m EXCEPT ![c] = new] /\ t.noted = s.noted \cup {c}
      /\ t.lim = s.lim /\ t.trap = s.trap /\ t.x = None
      /\ t.r = s.r /\ t.k = s.k /\ t.g = s.g /\ t.fl = s.fl
  BY <1>1 DEF Put, State, Fields
<1> HIDE DEF new, t
<1>3. Tries(s, t)
  BY <1>2 DEF Tries, Accessed, State, Arch, Reports
<1> QED
  BY <1>3 DEF t

LEMMA writeTries ==
  ASSUME NEW s, State(s), s.x = None, NEW c \in 0 .. 7, NEW n \in 1 .. 8, NEW v
  PROVE  Tries(s, write(s, 8 * c, n, v))
<1>1. c \in Nat
  OBVIOUS
<1>2. 8 * c + n > s.lim /\ s.lim % 8 = 0 => 8 * c >= s.lim
  BY <1>1, EndsBetween, Zenon DEF State
<1> QED
  BY <1>2, PutReports, ExitTries DEF write, RegionAt

LEMMA AnsweredTries ==
  ASSUME NEW s, State(s), s.x = None, NEW off
  PROVE  Tries(s, record_mmio_part([s EXCEPT !.pend = FALSE], off))
BY DEF Tries, Accessed, State, Fields, record_mmio_part, Arch, Reports

(* The offsets of the parts of an operand.                                 *)
Offsets == {0, 8, 16, 24, 32, 40, 48, 56}

LEMMA vpartTries ==
  ASSUME NEW s, State(s), s.x = None, NEW off \in Offsets, NEW n \in 1 .. 8, NEW v
  PROVE  /\ Tries(s, read(s, off, n)) /\ Tries(s, write(s, off, n, v))
         /\ Tries(s, vpart(s, off, n)) /\ Tries(s, vpart_store(s, off, n, v))
<1>1. PICK c \in 0 .. 7 : off = 8 * c
  BY DEF Offsets
<1>2. Tries(s, read(s, off, n)) /\ Tries(s, write(s, off, n, v))
  BY <1>1, readTries, writeTries
<1> QED
  BY <1>2, TriesSame, AnsweredTries, Zenon DEF vpart, vpart_store

LEMMA vloadTries ==
  ASSUME NEW s, State(s), s.x = None, NEW off \in Offsets, NEW n, NEW v, n = 16 => off # 56
  PROVE  Tries(s, vload(s, off, n)) /\ Tries(s, vstore(s, off, v, n))
<1>1. n = 16 => off + 8 \in Offsets
  BY DEF Offsets
<1>2. ASSUME NEW w
      PROVE  /\ Tries(s, vpart(s, off, 8)) /\ Tries(s, vpart(s, off, 4))
             /\ Tries(s, vpart_store(s, off, 8, w)) /\ Tries(s, vpart_store(s, off, 4, w))
  BY vpartTries
<1>3. ASSUME NEW t, Tries(s, t), t.x = None, n = 16, NEW w
      PROVE  Tries(s, vpart(t, off + 8, 8)) /\ Tries(s, vpart_store(t, off + 8, 8, w))
  <2>1. State(t)
    BY <1>3, TriesState, Zenon
  <2>2. Tries(t, vpart(t, off + 8, 8)) /\ Tries(t, vpart_store(t, off + 8, 8, w))
    BY <1>1, <1>3, <2>1, vpartTries
  <2> QED
    BY <1>3, <2>2, TryTry, Zenon
<1> QED
  BY <1>2, <1>3, Zenon DEF vload, vstore, Then

LEMMA LaneOffset ==
  ASSUME NEW i \in 1 .. 4
  PROVE  /\ 16 * (i - 1) \in Offsets /\ 16 * (i - 1) # 56 /\ 16 * (i - 1) + 8 \in Offsets
         /\ 8 * (i - 1) \in Offsets
         /\ 8 * (2 * i - 2) \in Offsets /\ (8 * (2 * i - 2)) \div 8 = 2 * i - 2
         /\ 8 * (2 * i - 1) \in Offsets /\ (8 * (2 * i - 1)) \div 8 = 2 * i - 1
BY DEF Offsets

LEMMA LaneTries ==
  ASSUME NEW s, NEW t, Tries(s, t), NEW i \in 1 .. 4, NEW v
  PROVE  Tries(s, vload_lane(t, i)) /\ Tries(s, vstore_lane(t, i, v))
<1>1. State(t)
  BY TriesState, Zenon
<1>2. 16 * (i - 1) \in Offsets /\ 16 * (i - 1) # 56
  BY LaneOffset, Zenon
<1>3. t.x = None => Tries(t, vload(t, 16 * (i - 1), 16)) /\ Tries(t, vstore(t, 16 * (i - 1), v, 16))
  BY <1>1, <1>2, vloadTries, Zenon
<1> QED
  BY <1>3, TryTry, Zenon DEF vload_lane, vstore_lane, Then

LEMMA LanesTry ==
  ASSUME NEW s, State(s), s.x = None, NEW n
  PROVE  Tries(s, vload_lanes(s, n))
<1>1. Tries(s, s)
  BY TriesSame, Zenon
<1>2. 1 \in 1 .. 4 /\ 2 \in 1 .. 4 /\ 3 \in 1 .. 4 /\ 4 \in 1 .. 4
  OBVIOUS
<1> QED
  BY <1>1, <1>2, LaneTries, Zenon DEF vload_lanes, ForLanes

LEMMA sloadTries ==
  ASSUME NEW s, State(s), s.x = None, NEW raw \in BOOLEAN, NEW off \in Offsets
  PROVE  Tries(s, sload(s, raw, off, 8))
<1>1. off + 8 > s.lim /\ s.lim % 8 = 0 => off >= s.lim
  BY DEF State, Offsets
<1>2. off + 8 > s.lim => Tries(s, Exit(s, "Unmapped", off, "Read"))
  BY <1>1, ExitTries
<1>3. Tries(s, read(s, off, 8)) /\ Tries(s, s)
  BY vpartTries, TriesSame
<1> QED
  BY <1>2, <1>3, Zenon DEF sload

LEMMA RunLanesTry ==
  ASSUME NEW s, State(s), s.x = None, NEW raw \in BOOLEAN, NEW n
  PROVE  Tries(s, RunLanes(s, raw, n))
<1>1. ASSUME NEW t, Tries(s, t), NEW i \in 1 .. 4 PROVE Tries(s, RunLane(t, raw, i))
  <2>1. ASSUME NEW u, Tries(s, u), u.x = None, NEW off \in Offsets
        PROVE  Tries(s, sload(u, raw, off, 8))
    <3>1. State(u)
      BY <2>1, TriesState, Zenon
    <3>2. Tries(u, sload(u, raw, off, 8))
      BY <2>1, <3>1, sloadTries, Zenon
    <3> QED
      BY <2>1, <3>2, TryTry, Zenon
  <2> QED
    BY <1>1, <2>1, LaneOffset, Zenon DEF RunLane, load_lane16, Then
<1>2. Tries(s, s)
  BY TriesSame, Zenon
<1>3. 1 \in 1 .. 4 /\ 2 \in 1 .. 4 /\ 3 \in 1 .. 4 /\ 4 \in 1 .. 4
  OBVIOUS
<1> QED
  BY <1>1, <1>2, <1>3, Zenon DEF RunLanes, ForLanes

LEMMA checked_addrTries ==
  ASSUME NEW s, State(s), s.x = None, NEW n, NEW acc
  PROVE  Tries(s, checked_addr(s, n, acc))
<1>1. s.lim >= s.lim
  BY DEF State
<1> QED
  BY <1>1, TriesSame, ExitTries DEF checked_addr

LEMMA LoadingTries ==
  ASSUME NEW s, State(s), s.x = None, NEW o, NEW n
  PROVE  Tries(s, Loading(o, s, n)) /\ Tries(s, Checking(o, s, n))
BY TriesSame, LanesTry, checked_addrTries, Zenon DEF Loading, Checking

LEMMA TriesCalm ==
  ASSUME NEW s, NEW t, Tries(s, t)
  PROVE  Calm(t, t)
BY TriesState, CalmSame, Zenon


(* --------------------------- Special accesses --------------------------- *)

LEMMA LoadTries ==
  ASSUME NEW s, State(s), s.x = None, NEW n
  PROVE  /\ Tries(s, vload(s, 0, n)) /\ Tries(s, read(s, 0, 8)) /\ Tries(s, vload_lanes(s, n))
         /\ Tries(s, sload(s, FALSE, 0, 8)) /\ Tries(s, RunLanes(s, FALSE, n))
         /\ Tries(s, sload(s, TRUE, 0, 8)) /\ Tries(s, RunLanes(s, TRUE, n))
<1>1. 0 \in Offsets /\ 0 # 56 /\ 8 \in 1 .. 8 /\ FALSE \in BOOLEAN /\ TRUE \in BOOLEAN
  BY DEF Offsets
<1> QED
  BY <1>1, vloadTries, vpartTries, sloadTries, RunLanesTry, LanesTry, Zenon

LEMMA TriesTemp ==
  ASSUME NEW s, NEW t, Tries(s, t), NEW v
  PROVE  Tries(s, SetTemp(t, v)) /\ Tries(s, [t EXCEPT !.pend = FALSE])
BY DEF Tries, Accessed, State, Fields, Arch, Reports, Exact, SetTemp

(* A store that bypasses the watch can only find no memory.                *)
Raw(s, t) == Accessed(s, t) /\ (t.x # None => t.x[1] = "Unmapped")
Try(raw, s, t) == IF raw THEN Raw(s, t) ELSE Tries(s, t)
Picks(o, t) == t.x # None => t.x[2] \div 8 \in o.act

LEMMA TryAccessed ==
  ASSUME NEW raw, NEW s, NEW t, Try(raw, s, t)
  PROVE  Accessed(s, t) /\ State(t)
BY DEF Try, Raw, Tries, Accessed

LEMMA TrySame ==
  ASSUME NEW s, State(s), s.x = None, NEW raw
  PROVE  Try(raw, s, s)
BY TriesSame, Zenon DEF Try, Raw, Tries

LEMMA TryTries ==
  ASSUME NEW raw, NEW s, NEW t, NEW u, Try(raw, s, t), t.x = None, Try(raw, t, u)
  PROVE  Try(raw, s, u)
<1>1. raw => Raw(s, u)
  BY DEF Try, Raw, Accessed, Exact
<1>2. ~raw => Tries(s, u)
  BY TryTry, Zenon DEF Try
<1> QED
  BY <1>1, <1>2, Zenon DEF Try

LEMMA sstoreTries ==
  ASSUME NEW s, State(s), s.x = None, NEW raw \in BOOLEAN, NEW off \in Offsets, NEW v
  PROVE  LET t == sstore(s, raw, off, 8, v) IN Try(raw, s, t) /\ (t.x # None => t.x[2] = off)
<1>1. PICK c \in 0 .. 7 : off = 8 * c
  BY DEF Offsets
<1>2. CASE ~raw
  <2>1. Tries(s, write(s, off, 8, v))
    BY vpartTries
  <2>2. write(s, off, 8, v).x # None => write(s, off, 8, v).x[2] = off
    BY DEF write, Exit, Put, State, Fields
  <2> QED
    BY <1>2, <2>1, <2>2, Zenon DEF sstore, Try
<1>3. CASE raw /\ off + 8 > s.lim
  <2>1. s.lim % 8 = 0 => off >= s.lim
    BY <1>1, <1>3 DEF State
  <2>2. Tries(s, Exit(s, "Unmapped", off, "Write"))
    BY <2>1, ExitTries
  <2>3. Exit(s, "Unmapped", off, "Write").x = <<"Unmapped", off, "Write">>
    BY DEF Exit, State, Fields
  <2>4. Try(raw, s, Exit(s, "Unmapped", off, "Write"))
    BY <1>3, <2>2, <2>3 DEF Try, Raw, Tries
  <2>5. sstore(s, raw, off, 8, v) = Exit(s, "Unmapped", off, "Write")
    BY <1>3, Zenon DEF sstore
  <2>6. <<"Unmapped", off, "Write">>[2] = off
    OBVIOUS
  <2> QED
    BY <2>3, <2>4, <2>5, <2>6, Zenon
<1>4. CASE raw /\ ~(off + 8 > s.lim)
  <2> DEFINE t == Put(s, off, 8, v)
  <2>1. /\ DOMAIN t = Fields /\ t.m = [s.m EXCEPT ![off \div 8] = v]
        /\ t.lim = s.lim /\ t.trap = s.trap /\ t.x = None
        /\ t.r = s.r /\ t.k = s.k /\ t.g = s.g /\ t.fl = s.fl
    BY DEF Put, State, Fields
  <2> HIDE DEF t
  <2>2. Raw(s, t)
    BY <2>1 DEF Raw, Accessed, State, Arch
  <2> QED
    BY <1>4, <2>1, <2>2, Zenon DEF t, sstore, Try
<1> QED
  BY <1>2, <1>3, <1>4

LEMMA sloadPicks ==
  ASSUME NEW s, State(s), s.x = None, NEW raw, NEW off
  PROVE  sload(s, raw, off, 8).x # None => sload(s, raw, off, 8).x[2] = off
BY DEF sload, read, Exit, State, Fields

LEMMA ChunkTries ==
  ASSUME NEW s, NEW t, NEW o, NEW raw \in BOOLEAN, NEW c \in 0 .. 7, NEW v, Picks(o, t)
  PROVE  /\ Tries(s, t) => LET u == LoadChunk(o, t, raw, c) IN Tries(s, u) /\ Picks(o, u)
         /\ Try(raw, s, t) => LET u == StoreChunk(o, t, raw, c, v) IN Try(raw, s, u) /\ Picks(o, u)
<1>1. 8 * c \in Offsets /\ (8 * c) \div 8 = c
  BY DEF Offsets
<1>2. ASSUME Tries(s, t)
      PROVE  LET u == LoadChunk(o, t, raw, c) IN Tries(s, u) /\ Picks(o, u)
  <2>1. State(t)
    BY <1>2, TriesState, Zenon
  <2>2. t.x = None => LET u == sload(t, raw, 8 * c, 8) IN Tries(t, u) /\ (u.x # None => u.x[2] = 8 * c)
    BY <1>1, <2>1, sloadTries, sloadPicks, Zenon
  <2>3. t.x = None => Tries(s, sload(t, raw, 8 * c, 8))
    BY <1>2, <2>2, TryTry, Zenon
  <2> QED
    BY <1>1, <1>2, <2>2, <2>3, Zenon DEF LoadChunk, Picks
<1>3. ASSUME Try(raw, s, t)
      PROVE  LET u == StoreChunk(o, t, raw, c, v) IN Try(raw, s, u) /\ Picks(o, u)
  <2>1. State(t)
    BY <1>3, TryAccessed, Zenon
  <2>2. t.x = None => LET u == sstore(t, raw, 8 * c, 8, v)
                      IN Try(raw, t, u) /\ (u.x # None => u.x[2] = 8 * c)
    BY <1>1, <2>1, sstoreTries, Zenon
  <2>3. t.x = None => Try(raw, s, sstore(t, raw, 8 * c, 8, v))
    BY <1>3, <2>2, TryTries, Zenon
  <2> QED
    BY <1>1, <1>3, <2>2, <2>3, Zenon DEF StoreChunk, Picks
<1> QED
  BY <1>2, <1>3, Zenon

LEMMA ActiveTries ==
  ASSUME NEW s, State(s), s.x = None, NEW o, NEW raw \in BOOLEAN
  PROVE  /\ LET t == LoadActive(o, s, raw) IN Tries(s, t) /\ Picks(o, t)
         /\ LET t == masked_store_run(o, s, raw) IN Try(raw, s, t) /\ Picks(o, t)
<1>1. ASSUME NEW t, NEW i \in 1 .. 4, NEW v, Picks(o, t)
      PROVE  /\ Tries(s, t) =>
                  LET u == LoadChunk(o, LoadChunk(o, t, raw, 2 * i - 2), raw, 2 * i - 1)
                  IN Tries(s, u) /\ Picks(o, u)
             /\ Try(raw, s, t) => LET u == StoreLane(o, t, raw, i, v) IN Try(raw, s, u) /\ Picks(o, u)
  <2>1. 2 * i - 2 \in 0 .. 7 /\ 2 * i - 1 \in 0 .. 7
    OBVIOUS
  <2> QED
    BY <1>1, <2>1, ChunkTries, Zenon DEF StoreLane
<1>2. 1 \in 1 .. 4 /\ 2 \in 1 .. 4 /\ 3 \in 1 .. 4 /\ 4 \in 1 .. 4
  OBVIOUS
<1>3. Tries(s, s) /\ Try(raw, s, s) /\ Picks(o, s)
  BY TriesSame, TrySame, Zenon DEF Picks
<1>4. LET t == LoadActive(o, s, raw) IN Tries(s, t) /\ Picks(o, t)
  BY <1>1, <1>2, <1>3, Zenon DEF LoadActive, ForLanes
<1>5. LET t == masked_store_run(o, s, raw) IN Try(raw, s, t) /\ Picks(o, t)
  BY <1>1, <1>2, <1>3, Zenon DEF masked_store_run, ForLanes
<1> QED
  BY <1>4, <1>5

LEMMA NarrowTries ==
  ASSUME NEW s, State(s), s.x = None, NEW o, NEW raw \in BOOLEAN
  PROVE  Try(raw, s, narrow_store_run(o, s, raw))
<1>1. ASSUME NEW t, NEW i \in 1 .. 4, NEW v, Try(raw, s, t)
      PROVE  Try(raw, s, StoreNarrow(t, raw, i, v))
  <2>1. State(t) /\ 8 * (i - 1) \in Offsets
    BY <1>1, TryAccessed, LaneOffset, Zenon
  <2>2. t.x = None => Try(raw, t, sstore(t, raw, 8 * (i - 1), 8, v))
    BY <2>1, sstoreTries, Zenon
  <2> QED
    BY <1>1, <2>2, TryTries, Zenon DEF StoreNarrow, Then
<1>2. 1 \in 1 .. 4 /\ 2 \in 1 .. 4 /\ 3 \in 1 .. 4 /\ 4 \in 1 .. 4
  OBVIOUS
<1>3. Try(raw, s, s)
  BY TrySame, Zenon
<1> QED
  BY <1>1, <1>2, <1>3, Zenon DEF narrow_store_run, ForLanes

(* Only memory below n is written, and nothing is reported yet.            *)
Within(n, s, t) ==
  /\ State(t)
  /\ t.x = s.x /\ t.noted = s.noted /\ t.lim = s.lim /\ t.trap = s.trap /\ Arch(t) = Arch(s)
  /\ \A c \in 0 .. 7 : 8 * c >= n => t.m[c] = s.m[c]

LEMMA WithinNoted ==
  ASSUME NEW s, NEW n \in Nat, NEW t, s.x = None, Within(n, s, t)
  PROVE  Tries(s, note_store(t, n))
<1> DEFINE u == note_store(t, n)
<1>1. /\ DOMAIN u = Fields /\ u.m = t.m /\ u.noted = t.noted \cup {c \in 0 .. 7 : 8 * c < n}
      /\ u.lim = s.lim /\ u.trap = s.trap /\ u.x = None /\ Arch(u) = Arch(s)
  BY DEF note_store, State, Fields, Within, Arch
<1> HIDE DEF u
<1>2. Tries(s, u)
  BY <1>1 DEF Tries, Accessed, Within, State, Reports
<1> QED
  BY <1>2 DEF u

LEMMA gstoreWithin ==
  ASSUME NEW s, NEW n \in Nat, NEW t, Within(n, s, t), NEW i \in 1 .. 4, 16 * i <= n, NEW v
  PROVE  Within(n, s, gstore(t, i, v))
<1> DEFINE u == gstore(t, i, v)
<1>1. /\ DOMAIN u = Fields /\ u.m = [t.m EXCEPT ![2 * i - 2] = Lo(v), ![2 * i - 1] = Hi(v)]
      /\ u.lim = t.lim /\ u.trap = t.trap /\ u.x = t.x /\ u.noted = t.noted /\ Arch(u) = Arch(t)
  BY DEF gstore, State, Fields, Within, Arch
<1> HIDE DEF u
<1>2. Within(n, s, u)
  BY <1>1 DEF Within, State
<1> QED
  BY <1>2 DEF u

LEMMA PutWithin ==
  ASSUME NEW s, State(s), NEW n \in Nat \ {0}, NEW v
  PROVE  Within(n, s, s) /\ Within(n, s, Put(s, 0, n, v))
<1>1. Within(n, s, s)
  BY DEF Within
<1> DEFINE u == Put(s, 0, n, v)
<1>2. 0 \div 8 = 0
  OBVIOUS
<1>3. /\ DOMAIN u = Fields /\ u.m = [s.m EXCEPT ![0] = IF n = 8 THEN v ELSE <<"part", v, s.m[0]>>]
      /\ u.lim = s.lim /\ u.trap = s.trap /\ u.x = s.x /\ u.noted = s.noted /\ Arch(u) = Arch(s)
  BY <1>2 DEF Put, State, Fields, Arch
<1> HIDE DEF u
<1>4. Within(n, s, u)
  BY <1>3 DEF Within, State
<1> QED
  BY <1>1, <1>4 DEF u

(* -------------------- What an op does, by its name ---------------------- *)

Marked ==
  TempOps \cup PlainOps \cup LaneOps \cup Selective \cup Unnoted \cup {"VShufps256"}

(* Nothing but register d differs.                                         *)
Beside(d, s, t) ==
  /\ [t.r EXCEPT ![d] = <<>>] = [s.r EXCEPT ![d] = <<>>]
  /\ t.k = s.k /\ t.g = s.g /\ t.fl = s.fl

Does(e, o, s, t) ==
  /\ State(t) /\ t.lim = s.lim /\ t.trap = s.trap
  /\ IF e = "jit" /\ o.op \in Unnoted THEN t.x # None => t.x[1] = "Unmapped" ELSE Reports(s, t)
  /\ Never(o) => t.x = None
  /\ o.op \in TempOps => Arch(t) = Arch(s)
  /\ e = "interp" /\ o.op \in LaneOps => Beside(o.d, s, t)
  /\ t.x # None =>
       /\ Arch(t) = Arch(s) \/ (e = "interp" /\ o.op \in LaneOps /\ o.w # 16)
       /\ t.x[1] = "Unmapped" =>
            /\ t.rip = "insn" \/ o.op = "VGf2p8M"
            /\ s.lim % 8 = 0 => t.x[2] >= s.lim \/ o.op = "VExtractLaneWideM"
            /\ o.op \in Selective => t.x[2] \div 8 \in o.act

LEMMA CalmDoes ==
  ASSUME NEW e, NEW o, NEW s, NEW t, s.x = None, Calm(s, t), o.op \notin TempOps \cup LaneOps
  PROVE  Does(e, o, s, t)
<1>1. t.x = None /\ Reports(s, t)
  BY DEF Calm, Reports
<1> QED
  BY <1>1 DEF Calm, Does

Kept(s, t) == Calm(s, t) /\ Arch(t) = Arch(s)

LEMMA SetTempKept ==
  ASSUME NEW s, State(s), NEW v
  PROVE  Kept(s, SetTemp(s, v))
BY CalmSame, OtherCalm DEF Kept, SetTemp, Arch, State, Fields

LEMMA KeptDoes ==
  ASSUME NEW e, NEW o, NEW s, NEW t, s.x = None, Kept(s, t), o.op \notin LaneOps
  PROVE  Does(e, o, s, t)
<1>1. t.x = None /\ Reports(s, t)
  BY DEF Kept, Calm, Reports
<1> QED
  BY <1>1 DEF Kept, Calm, Does

LEMMA ObeysDoes ==
  ASSUME NEW e, NEW o, NEW s, NEW t, Obeys(s, t),
         o.op \notin Marked \/ (e = "interp" /\ o.op = "VPmovNarrowMem")
                            \/ (e = "jit" /\ o.op \in LaneOps)
  PROVE  Does(e, o, s, t)
BY DEF Obeys, Does, Exact, Marked, Never, TempOps, PlainOps, LaneOps, Selective, Unnoted

LEMMA LoadDoes ==
  ASSUME NEW e, NEW o, NEW s, NEW t, Tries(s, t), o.op = "Load"
  PROVE  Does(e, o, s, t)
BY DEF Tries, Accessed, Does, Exact, Never, TempOps, PlainOps, LaneOps, Selective, Unnoted

LEMMA PicksDoes ==
  ASSUME NEW e, NEW o, NEW s, NEW t, Obeys(s, t), Picks(o, t), o.op \in Selective,
         e = "jit" => o.op \in {"VMaskLoadMem", "VVecMaskLoadMem"}
  PROVE  Does(e, o, s, t)
BY DEF Obeys, Picks, Does, Exact, Never, TempOps, PlainOps, LaneOps, Selective, Unnoted

LEMMA RawDoes ==
  ASSUME NEW o, NEW s, NEW t, Raw(s, t), o.op \in Unnoted, o.op # "VPmovNarrowMem" => Picks(o, t)
  PROVE  Does("jit", o, s, t)
BY DEF Raw, Accessed, Picks, Does, Exact, Never, TempOps, PlainOps, LaneOps, Selective, Unnoted

LEMMA ShufpsDoes ==
  ASSUME NEW e, NEW o, NEW s, NEW t, s.x = None, o.op = "VShufps256",
         Obeys(s, t), o.b # Mem => Calm(s, t)
  PROVE  Does(e, o, s, t)
BY DEF Obeys, Calm, Does, Exact, Never, TempOps, PlainOps, LaneOps, Selective, Unnoted

(* -------------------- Special handlers of the interpreter --------------- *)

LEMMA DirectCalm ==
  ASSUME NEW s, NEW t, Calm(s, t), NEW d, NEW v, NEW w
  PROVE  /\ Calm(s, [t EXCEPT !.g[1] = v, !.fl = w]) /\ Calm(s, [t EXCEPT !.r[0][1] = v, !.fl = w])
         /\ Calm(s, [t EXCEPT !.g[1] = v]) /\ Calm(s, [t EXCEPT !.r[d] = v])
         /\ Calm(s, [t EXCEPT !.r = v])
BY DEF Calm, State, Fields

LEMMA InterpStores ==
  ASSUME NEW s, State(s), s.x = None, NEW o
  PROVE  /\ o.op = "VStore" => Does("interp", o, s, exec_v_store(o, s))
         /\ o.op = "VStoreWide" => Does("interp", o, s, exec_v_store_wide(o, s))
         /\ o.op = "VStoreHalf" => Does("interp", o, s, exec_v_store_half(o, s))
         /\ o.op = "Store" /\ o.n = 8 => Does("interp", o, s, exec_store(o, s))
         /\ o.op = "VPmovNarrowMem" => Does("interp", o, s, exec_v_pmov_narrow_mem(o, s))
<1>1. 0 \in Offsets /\ 0 # 56 /\ 8 \in 1 .. 8 /\ FALSE \in BOOLEAN
  BY DEF Offsets
<1>2. 1 \in 1 .. 4 /\ 2 \in 1 .. 4 /\ 3 \in 1 .. 4 /\ 4 \in 1 .. 4
  OBVIOUS
<1>3. Tries(s, exec_v_store(o, s)) /\ Tries(s, exec_v_store_half(o, s))
  BY <1>1, vloadTries, Zenon DEF exec_v_store, exec_v_store_half
<1>4. Tries(s, exec_v_store_wide(o, s))
  BY <1>2, TriesSame, LaneTries, Zenon DEF exec_v_store_wide, ForLanes
<1>5. o.n = 8 => Tries(s, exec_store(o, s))
  BY <1>1, vpartTries, TriesSame, TriesTemp, Zenon DEF exec_store
<1>6. Tries(s, exec_v_pmov_narrow_mem(o, s))
  BY <1>1, NarrowTries, Zenon DEF exec_v_pmov_narrow_mem, Try
<1>7. o.op \in {"VStore", "VStoreWide", "VStoreHalf", "Store"} => o.op \notin Marked
  BY DEF Marked, TempOps, PlainOps, LaneOps, Selective, Unnoted
<1> QED
  BY <1>3, <1>4, <1>5, <1>6, <1>7, TriesObeys, ObeysDoes, Zenon

LEMMA InterpLoad ==
  ASSUME NEW s, State(s), s.x = None, NEW o, o.op = "Load", o.n = 8
  PROVE  Does("interp", o, s, exec_load(o, s))
<1>1. Tries(s, exec_load(o, s))
  BY LoadTries, TriesSame, TriesTemp, Zenon DEF exec_load, Then
<1> QED
  BY <1>1, LoadDoes, Zenon

LEMMA TriesVec ==
  ASSUME NEW s, NEW t, Tries(s, t), t.x = None, NEW o, Picks(o, t), NEW d, NEW v, NEW n
  PROVE  Obeys(s, set_vec(t, d, v, n)) /\ Picks(o, set_vec(t, d, v, n))
<1>1. Calm(t, set_vec(t, d, v, n))
  BY TriesCalm, set_vecCalm, Zenon
<1>2. set_vec(t, d, v, n).x = None
  BY <1>1, Zenon DEF Calm
<1> QED
  BY <1>1, <1>2, TryThen, Zenon DEF Picks

LEMMA MaskedDoes ==
  ASSUME NEW s, State(s), s.x = None, NEW o, NEW raw \in BOOLEAN, NEW z
  PROVE  /\ LET t == masked_load_run(o, s, raw, z) IN Obeys(s, t) /\ Picks(o, t)
         /\ LET t == masked_store_run(o, s, raw) IN Try(raw, s, t) /\ Picks(o, t)
<1>1. LET t == LoadActive(o, s, raw) IN Tries(s, t) /\ Picks(o, t)
  BY ActiveTries, Zenon
<1>2. LET t == masked_load_run(o, s, raw, z) IN Obeys(s, t) /\ Picks(o, t)
  BY <1>1, TriesVec, TriesObeys, Zenon DEF masked_load_run, Then
<1> QED
  BY <1>2, ActiveTries, Zenon

LEMMA InterpMasked ==
  ASSUME NEW s, State(s), s.x = None, NEW o
  PROVE  /\ o.op = "VMaskLoadMem" => Does("interp", o, s, exec_v_mask_load_mem(o, s))
         /\ o.op = "VMaskStoreMem" => Does("interp", o, s, exec_v_mask_store_mem(o, s))
         /\ o.op = "VVecMaskLoadMem" => Does("interp", o, s, exec_v_vecmask_load_mem(o, s))
         /\ o.op = "VVecMaskStoreMem" => Does("interp", o, s, exec_v_vecmask_store_mem(o, s))
<1>1. FALSE \in BOOLEAN /\ "interp" # "jit"
  OBVIOUS
<1>2. o.op \in {"VMaskLoadMem", "VMaskStoreMem", "VVecMaskLoadMem", "VVecMaskStoreMem"}
        => o.op \in Selective
  BY DEF Selective
<1>3. ASSUME NEW z
      PROVE  /\ LET t == masked_load_run(o, s, FALSE, z) IN Obeys(s, t) /\ Picks(o, t)
             /\ LET t == masked_store_run(o, s, FALSE) IN Obeys(s, t) /\ Picks(o, t)
  BY <1>1, MaskedDoes, TriesObeys, Zenon DEF Try
<1> QED
  BY <1>1, <1>2, <1>3, PicksDoes, Zenon
     DEF exec_v_mask_load_mem, exec_v_mask_store_mem, exec_v_vecmask_load_mem,
         exec_v_vecmask_store_mem

LEMMA InterpShufps ==
  ASSUME NEW s, State(s), s.x = None, NEW o, o.op = "VShufps256"
  PROVE  Does("interp", o, s, exec_v_shufps256(o, s))
<1>1. Obeys(s, exec_v_shufps256(o, s))
  BY LoadingTries, TriesCalm, TryThen, TriesObeys, set_vecCalm, Zenon
     DEF exec_v_shufps256, Low256, Src, Then
<1>2. o.b # Mem => Calm(s, exec_v_shufps256(o, s))
  BY CalmSame, set_vecCalm, Zenon DEF exec_v_shufps256, Low256, Src, Loading, Then
<1> QED
  BY <1>1, <1>2, ShufpsDoes, Zenon

(* The one handler that leaves RIP alone.                                  *)
LEMMA GaloisDoes ==
  ASSUME NEW e, NEW s, State(s), s.x = None, NEW o, o.op = "VGf2p8M", NEW raw \in BOOLEAN
  PROVE  Does(e, o, s, gf2p8_mem_run(o, s, raw))
<1>1. PICK t : t = RunLanes(s, raw, o.w)
  OBVIOUS
<1>2. Tries(s, t)
  BY <1>1, RunLanesTry, Zenon
<1>3. o.op \notin Marked /\ o.op \notin LaneOps \cup TempOps \cup Unnoted \cup Selective
      /\ ~Never(o)
  BY DEF Marked, TempOps, PlainOps, LaneOps, Selective, Unnoted, Never
<1>4. CASE t.x = None
  <2>1. Obeys(s, exec_gf2p8(o, t))
    BY <1>2, <1>4, TriesCalm, TryThen, CommitCalm, Zenon DEF exec_gf2p8
  <2> QED
    BY <1>1, <1>3, <1>4, <2>1, ObeysDoes, Zenon DEF gf2p8_mem_run
<1>5. CASE t.x # None
  <2>1. PICK u : u = [t EXCEPT !.rip = s.rip]
    BY Zenon
  <2>2. /\ State(u) /\ u.lim = t.lim /\ u.trap = t.trap /\ u.x = t.x /\ u.m = t.m
        /\ u.noted = t.noted /\ Arch(u) = Arch(t)
    BY <1>2, <2>1 DEF Tries, Accessed, State, Fields, Arch
  <2>3. Does(e, o, s, u)
    BY <1>2, <1>3, <2>2 DEF Does, Tries, Accessed, Exact, Reports
  <2> QED
    BY <1>1, <1>5, <2>1, <2>3, Zenon DEF gf2p8_mem_run
<1> QED
  BY <1>4, <1>5

(* A probe names the lane, not the byte.                                   *)
Probes(s, t) ==
  /\ State(t) /\ t.lim = s.lim /\ t.trap = s.trap /\ Arch(t) = Arch(s) /\ Reports(s, t)
  /\ t.x # None /\ t.x[1] = "Unmapped" => t.rip = "insn"

LEMMA ProbesTry ==
  ASSUME NEW s, NEW t, Probes(s, t), NEW i \in 1 .. 4, NEW v
  PROVE  Probes(s, probe_lane(t, i)) /\ Probes(s, vstore_lane(t, i, v))
<1>1. Probes(s, probe_lane(t, i))
  BY DEF Probes, probe_lane, Then, probe_write, Exit, State, Fields, Arch, Reports
<1>2. CASE t.x # None
  BY <1>1, <1>2, Zenon DEF vstore_lane, Then
<1>3. CASE t.x = None
  <2>1. PICK u : u = vstore_lane(t, i, v)
    BY Zenon
  <2>2. Tries(t, t)
    BY <1>3, TriesSame, Zenon DEF Probes
  <2>3. Tries(t, u)
    BY <2>1, <2>2, LaneTries, Zenon
  <2>4. Reports(s, u)
    BY <2>3 DEF Tries, Probes, Reports
  <2>5. Probes(s, u)
    BY <2>3, <2>4 DEF Tries, Accessed, Exact, Probes
  <2> QED
    BY <1>1, <2>1, <2>5, Zenon
<1> QED
  BY <1>2, <1>3, Zenon

LEMMA InterpExtract ==
  ASSUME NEW s, State(s), s.x = None, NEW o, o.op = "VExtractLaneWideM"
  PROVE  Does("interp", o, s, exec_v_extract_lane_wide_m(o, s))
<1>1. Probes(s, s)
  BY DEF Probes, Reports
<1>2. 1 \in 1 .. 4 /\ 2 \in 1 .. 4 /\ 3 \in 1 .. 4 /\ 4 \in 1 .. 4
  OBVIOUS
<1>3. Probes(s, ForLanes(16 * o.n, s, probe_lane))
  BY <1>1, <1>2, ProbesTry, Zenon DEF ForLanes
<1>4. PICK t : t = exec_v_extract_lane_wide_m(o, s)
  BY Zenon
<1>5. Probes(s, t)
  BY <1>2, <1>3, <1>4, ProbesTry, Zenon DEF exec_v_extract_lane_wide_m, ForLanes
<1>6. Does("interp", o, s, t)
  BY <1>5 DEF Probes, Does, Never, TempOps, PlainOps, LaneOps, Selective, Unnoted
<1> QED
  BY <1>4, <1>6, Zenon

(* Lanes of register d are written one by one.                             *)
LaneWise(d, s, t) ==
  /\ State(t) /\ t.lim = s.lim /\ t.trap = s.trap /\ Reports(s, t) /\ Beside(d, s, t)
  /\ t.x # None => Exact(s, t)

LEMMA SetLaneBeside ==
  ASSUME NEW s, NEW t, NEW d, Beside(d, s, t), State(t), NEW i, NEW v
  PROVE  Beside(d, s, SetLane(t, d, i, v))
BY DEF Beside, SetLane, State, Fields

LEMMA LaneWiseTurn ==
  ASSUME NEW s, NEW t, NEW d, LaneWise(d, s, t), NEW i \in 1 .. 4, NEW v
  PROVE  /\ LaneWise(d, s, vload_lane(t, i))
         /\ t.x = None => LaneWise(d, s, SetLane(t, d, i, v))
<1>1. State(t)
  BY DEF LaneWise
<1>2. t.x = None => LaneWise(d, s, SetLane(t, d, i, v))
  <2>1. PICK u : u = SetLane(t, d, i, v)
    BY Zenon
  <2>2. Calm(t, u) /\ Beside(d, s, u)
    BY <1>1, <2>1, CalmSame, SetLaneCalm, SetLaneBeside, Zenon DEF LaneWise
  <2>3. t.x = None => LaneWise(d, s, u)
    BY <2>2 DEF LaneWise, Calm, Reports
  <2> QED
    BY <2>1, <2>3, Zenon
<1>3. CASE t.x # None
  BY <1>2, <1>3, Zenon DEF vload_lane, Then
<1>4. CASE t.x = None
  <2>1. PICK u : u = vload_lane(t, i)
    BY Zenon
  <2>2. Tries(t, u)
    BY <1>1, <1>4, <2>1, TriesSame, LaneTries, Zenon
  <2>3. Reports(s, u)
    BY <2>2 DEF Tries, LaneWise, Reports
  <2>4. u.r = t.r /\ u.k = t.k /\ u.g = t.g /\ u.fl = t.fl
    BY <2>2 DEF Tries, Accessed, Arch
  <2>5. LaneWise(d, s, u)
    BY <2>2, <2>3, <2>4 DEF Tries, Accessed, Exact, LaneWise, Beside
  <2> QED
    BY <1>2, <2>1, <2>5, Zenon
<1> QED
  BY <1>3, <1>4

LEMMA InterpByLane ==
  ASSUME NEW s, State(s), s.x = None, NEW o
  PROVE  /\ o.op = "VDppsM" => Does("interp", o, s, exec_v_dpps_m(o, s))
         /\ o.op = "VPsignM" => Does("interp", o, s, exec_v_psign_m(o, s))
<1>1. LaneWise(o.d, s, s)
  BY DEF LaneWise, Beside, Reports
<1>2. 1 \in 1 .. 4 /\ 2 \in 1 .. 4 /\ 3 \in 1 .. 4 /\ 4 \in 1 .. 4 /\ ~(16 > 16) /\ ~(16 > 32)
  OBVIOUS
<1>3. ASSUME NEW t, LaneWise(o.d, s, t), NEW i \in 1 .. 4
      PROVE  LaneWise(o.d, s, dpps_lane(o, t, i)) /\ LaneWise(o.d, s, psign_lane(o, t, i))
  BY <1>3, LaneWiseTurn, Zenon DEF dpps_lane, psign_lane, Then
<1>4. LaneWise(o.d, s, exec_v_dpps_m(o, s)) /\ LaneWise(o.d, s, exec_v_psign_m(o, s))
  BY <1>1, <1>2, <1>3, Zenon DEF exec_v_dpps_m, exec_v_psign_m, ForLanes
<1>5. Tries(s, vload_lane(s, 1))
  BY <1>2, TriesSame, LaneTries, Zenon
<1>6. o.w = 16 => Obeys(s, exec_v_dpps_m(o, s)) /\ Obeys(s, exec_v_psign_m(o, s))
  BY <1>2, <1>5, TriesCalm, TryThen, TriesObeys, SetLaneCalm, Zenon
     DEF exec_v_dpps_m, exec_v_psign_m, ForLanes, dpps_lane, psign_lane, Then
<1>7. ASSUME NEW t, LaneWise(o.d, s, t), o.w = 16 => Obeys(s, t), o.op \in LaneOps
      PROVE  Does("interp", o, s, t)
  BY <1>7
  DEF LaneWise, Obeys, Does, Exact, Never, TempOps, PlainOps, LaneOps, Selective, Unnoted
<1> QED
  BY <1>4, <1>6, <1>7 DEF LaneOps

LEMMA InterpGalois ==
  ASSUME NEW s, State(s), s.x = None, NEW o, o.op = "VGf2p8M"
  PROVE  Does("interp", o, s, exec_v_gf2p8_m(o, s))
BY GaloisDoes, Zenon DEF exec_v_gf2p8_m

(* An access, then a write of registers unless it trapped.                 *)
LEMMA LaterCalm ==
  ASSUME NEW s, NEW t, NEW u, Tries(s, t), Calm(t, u)
  PROVE  Obeys(s, IF t.x = None THEN u ELSE t)
BY TryThen, TriesObeys, Zenon

LEMMA Later ==
  ASSUME NEW s, NEW t, Tries(s, t), NEW d, NEW i, NEW v, NEW n, NEW o
  PROVE  /\ Obeys(s, IF t.x = None THEN SetLane(t, d, i, v) ELSE t)
         /\ Obeys(s, IF t.x = None THEN set_vec(t, d, v, n) ELSE t)
         /\ Obeys(s, IF t.x = None THEN set_vec_low(t, d, v, n) ELSE t)
         /\ Obeys(s, IF t.x = None THEN Commit(t, o, v, n) ELSE t)
         /\ Obeys(s, IF t.x = None THEN SetMask(t, d, v) ELSE t)
         /\ Obeys(s, IF t.x = None THEN LaneLoop(o, t, n) ELSE t)
         /\ Obeys(s, IF t.x = None THEN [t EXCEPT !.g[1] = v, !.fl = n] ELSE t)
         /\ Obeys(s, IF t.x = None THEN [t EXCEPT !.r[0][1] = v, !.fl = n] ELSE t)
<1>1. Calm(t, t)
  BY TriesCalm, Zenon
<1>2. Calm(t, SetLane(t, d, i, v)) /\ Calm(t, set_vec(t, d, v, n))
      /\ Calm(t, set_vec_low(t, d, v, n))
  BY <1>1, SetLaneCalm, set_vecCalm, Zenon
<1>3. Calm(t, Commit(t, o, v, n)) /\ Calm(t, SetMask(t, d, v)) /\ Calm(t, LaneLoop(o, t, n))
  BY <1>1, CommitCalm, OtherCalm, LoopCalm, Zenon
<1>4. /\ Calm(t, [t EXCEPT !.g[1] = v, !.fl = n]) /\ Calm(t, [t EXCEPT !.r[0][1] = v, !.fl = n])
  BY <1>1, DirectCalm, Zenon
<1> QED
  BY <1>2, <1>3, <1>4, LaterCalm, Zenon

LEMMA SharedObeys ==
  ASSUME NEW s, State(s), s.x = None, NEW o
  PROVE  /\ Obeys(s, Low256(o, s)) /\ Obeys(s, Low256Unary(o, s)) /\ Obeys(s, Lane0(o, s))
         /\ Obeys(s, exec_v_aes(o, s)) /\ Obeys(s, exec_v_sha(o, s)) /\ Obeys(s, exec_v_gfni(o, s))
         /\ Obeys(s, exec_v_pclmul(o, s))
<1>1. Tries(s, Loading(o, s, 16)) /\ Tries(s, Loading(o, s, 32))
  BY LoadingTries, Zenon
<1>2. Obeys(s, Low256(o, s)) /\ Obeys(s, Low256Unary(o, s)) /\ Obeys(s, Lane0(o, s))
  BY <1>1, Later, Zenon DEF Low256, Low256Unary, Lane0, Src, Then
<1>3. /\ Obeys(s, exec_v_aes(o, s)) /\ Obeys(s, exec_v_sha(o, s))
  BY <1>1, Later, Zenon DEF exec_v_aes, exec_v_sha, CryptoXmm, Src, Then
<1>4. /\ Obeys(s, exec_v_gfni(o, s)) /\ Obeys(s, exec_v_pclmul(o, s))
  BY <1>1, Later, Zenon DEF exec_v_gfni, exec_v_pclmul, CryptoXmm, Src, Then
<1> QED
  BY <1>2, <1>3, <1>4

LEMMA InterpIf ==
  ASSUME NEW s, State(s), s.x = None, NEW o
  PROVE  Obeys(s, exec_v_insert128(o, s)) /\ Obeys(s, exec_v_broadcast_m(o, s))
<1>1. Obeys(s, exec_v_insert128(o, s))
  <2>1. PICK t : t = Loading(o, s, 16)
    BY Zenon
  <2>2. PICK v : v = IF o.imm = 1 THEN <<A(o, t, 1), B(o, t, 1)>> ELSE <<B(o, t, 1), A(o, t, 2)>>
    BY Zenon
  <2>3. exec_v_insert128(o, s) = IF t.x = None THEN set_vec_low(t, o.d, v, 32) ELSE t
    BY <2>1, <2>2 DEF exec_v_insert128, Src, Then
  <2>4. Obeys(s, IF t.x = None THEN set_vec_low(t, o.d, v, 32) ELSE t)
    BY <2>1, LoadingTries, Later, Zenon
  <2> QED
    BY <2>3, <2>4
<1>2. Obeys(s, exec_v_broadcast_m(o, s))
  <2>1. PICK t : t = read(s, 0, 8)
    BY Zenon
  <2>2. PICK v : v = <<K(o, <<Loaded(t, 8)>>), IF o.w = 32 THEN K(o, <<Loaded(t, 8)>>) ELSE Zero>>
    BY Zenon
  <2>3. exec_v_broadcast_m(o, s) = IF t.x = None THEN set_vec_low(t, o.d, v, 32) ELSE t
    BY <2>1, <2>2 DEF exec_v_broadcast_m, Then
  <2>4. Obeys(s, IF t.x = None THEN set_vec_low(t, o.d, v, 32) ELSE t)
    BY <2>1, LoadTries, Later, Zenon
  <2> QED
    BY <2>3, <2>4
<1> QED
  BY <1>1, <1>2
LEMMA walk_shuffle256Does ==
  ASSUME NEW s, State(s), s.x = None, NEW o,
         o.op \in {"VUnpack256", "VCvtPh2Ps", "VCvtPs2Ph", "VPhMinPosUw", "VMpsadbw",
                   "VFloatUnary"}
  PROVE  Does("interp", o, s, walk_shuffle256(o, s))
<1>1. /\ Calm(s, VCvtPh2Ps(o, s)) /\ Calm(s, VCvtPs2Ph(o, s)) /\ Calm(s, VPhMinPosUw(o, s))
      /\ Calm(s, VMpsadbw(o, s))
  BY CalmSame, SetLaneCalm, set_vecCalm, LoopCalm, Zenon
     DEF VCvtPh2Ps, VCvtPs2Ph, VPhMinPosUw, VMpsadbw
<1>2. Obeys(s, exec_v_unpack256(o, s))
  BY SharedObeys, Zenon DEF exec_v_unpack256
<1>3. Obeys(s, exec_v_float_unary(o, s))
  BY LoadTries, LoadingTries, Later, CalmSame, CalmObeys, SetLaneCalm, Zenon
     DEF exec_v_float_unary, FSrc, Src, Then
<1>4. /\ o.op \in {"VCvtPh2Ps", "VCvtPs2Ph", "VPhMinPosUw", "VMpsadbw"}
           => o.op \notin TempOps \cup LaneOps
      /\ o.op \in {"VUnpack256", "VFloatUnary"} => o.op \notin Marked
  BY DEF Marked, TempOps, PlainOps, LaneOps, Selective, Unnoted
<1> QED
  BY <1>1, <1>2, <1>3, <1>4, CalmDoes, ObeysDoes, Zenon DEF walk_shuffle256

LEMMA walk_compare_convertDoes ==
  ASSUME NEW s, State(s), s.x = None, NEW o,
         o.op \in {"VFloatCmpMask256", "VFloatCmp", "VCvtFromInt", "VCvtToInt", "VCvtFloat",
                   "VPackedCvt", "VFloatBin256", "VFloatUnary256", "VPackedCvt256",
                   "VPackedCvtWide256", "VShufps256"}
           \/ Does("interp", o, s, walk_shuffle256(o, s))
  PROVE  Does("interp", o, s, walk_compare_convert(o, s))
<1>1. /\ Calm(s, exec_v_float_cmp(o, s)) /\ Calm(s, exec_v_cvt_from_int(o, s))
      /\ Calm(s, exec_v_cvt_float(o, s)) /\ Calm(s, exec_v_packed_cvt(o, s))
      /\ Calm(s, exec_v_packed_cvt_wide256(o, s))
  BY CalmSame, SetLaneCalm, set_vecCalm, OtherCalm, Zenon
     DEF exec_v_float_cmp, exec_v_cvt_from_int, exec_v_cvt_float, exec_v_packed_cvt,
     exec_v_packed_cvt_wide256
<1>2. Kept(s, exec_v_cvt_to_int(o, s))
  BY SetTempKept, Zenon DEF exec_v_cvt_to_int
<1>3. /\ Obeys(s, exec_v_float_cmp_mask256(o, s)) /\ Obeys(s, exec_v_float_bin256(o, s))
      /\ Obeys(s, exec_v_float_unary256(o, s)) /\ Obeys(s, exec_v_packed_cvt256(o, s))
  BY SharedObeys, Zenon DEF exec_v_float_cmp_mask256, exec_v_float_bin256,
     exec_v_float_unary256, exec_v_packed_cvt256
<1>4. /\ o.op \in {"VFloatCmp", "VCvtFromInt", "VCvtFloat", "VPackedCvt", "VPackedCvtWide256"}
           => o.op \notin TempOps \cup LaneOps
      /\ o.op \in {"VCvtToInt"} => o.op \notin LaneOps
      /\ o.op \in {"VFloatCmpMask256", "VFloatBin256", "VFloatUnary256", "VPackedCvt256"}
           => o.op \notin Marked
  BY DEF Marked, TempOps, PlainOps, LaneOps, Selective, Unnoted
<1> QED
  BY <1>1, <1>2, <1>3, <1>4, CalmDoes, KeptDoes, ObeysDoes, InterpShufps, Zenon
     DEF walk_compare_convert

LEMMA walk_floatDoes ==
  ASSUME NEW s, State(s), s.x = None, NEW o,
         o.op \in {"VPMaddM", "VInsertW", "VInsertLane", "VFloatMov", "VFloatBin", "VHFloat",
                   "VHInt", "VFloatCmpMask"}
           \/ Does("interp", o, s, walk_compare_convert(o, s))
  PROVE  Does("interp", o, s, walk_float(o, s))
<1>1. /\ Calm(s, exec_v_insert_w(o, s)) /\ Calm(s, exec_v_insert_lane(o, s))
      /\ Calm(s, exec_v_float_mov(o, s))
  BY CalmSame, SetLaneCalm, Zenon DEF exec_v_insert_w, exec_v_insert_lane, exec_v_float_mov
<1>2. /\ Obeys(s, exec_v_pmadd_m(o, s)) /\ Obeys(s, exec_v_float_bin(o, s))
  BY LoadTries, LoadingTries, Later, CalmSame, CalmObeys, SetLaneCalm, Zenon
     DEF exec_v_pmadd_m, exec_v_float_bin, FSrc, Src, Then
<1>3. /\ Obeys(s, exec_v_h_float(o, s)) /\ Obeys(s, exec_v_h_int(o, s))
  BY LoadingTries, Later, Zenon DEF exec_v_h_float, hfloat_mem, hfloat_reg, exec_v_h_int,
     hint_mem, hint_reg, Src, Then
<1>4. Obeys(s, exec_v_float_cmp_mask(o, s))
  BY LoadTries, LoadingTries, Later, CalmSame, CalmObeys, SetLaneCalm, Zenon
     DEF exec_v_float_cmp_mask, exec_v_float_bin, FSrc, Src, Then
<1>5. /\ o.op \in {"VInsertW", "VInsertLane", "VFloatMov"} => o.op \notin TempOps \cup LaneOps
      /\ o.op \in {"VPMaddM", "VFloatBin", "VHFloat", "VHInt", "VFloatCmpMask"}
           => o.op \notin Marked
  BY DEF Marked, TempOps, PlainOps, LaneOps, Selective, Unnoted
<1> QED
  BY <1>1, <1>2, <1>3, <1>4, <1>5, CalmDoes, ObeysDoes, Zenon DEF walk_float

LEMMA walk_cryptoDoes ==
  ASSUME NEW s, State(s), s.x = None, NEW o,
         o.op \in {"VAesImc", "VAesKeygen", "VSha", "VGfni", "VPclmul", "VPsign", "VPsignM",
                   "VShufps", "VShuffle16", "VUnpackLow", "VPackUsWB", "VPMAddWd", "VPMadd"}
           \/ Does("interp", o, s, walk_float(o, s))
  PROVE  Does("interp", o, s, walk_crypto(o, s))
<1>1. /\ Calm(s, exec_v_psign(o, s)) /\ Calm(s, exec_v_shuffle16(o, s))
      /\ Calm(s, exec_v_pack_us_w_b(o, s)) /\ Calm(s, exec_pmaddwd(o, s))
      /\ Calm(s, exec_v_pmadd(o, s))
  BY CalmSame, SetLaneCalm, set_vecCalm, LoopCalm, Zenon
     DEF exec_v_psign, exec_v_shuffle16, exec_v_pack_us_w_b, exec_pmaddwd, exec_v_pmadd
<1>2. /\ Obeys(s, exec_v_sha(o, s)) /\ Obeys(s, exec_v_gfni(o, s))
      /\ Obeys(s, exec_v_pclmul(o, s)) /\ Obeys(s, exec_v_shufps(o, s))
      /\ Obeys(s, exec_v_unpack_low(o, s))
  BY SharedObeys, Zenon DEF exec_v_shufps, exec_v_unpack_low
<1>3. /\ Obeys(s, exec_v_aes_imc(o, s)) /\ Obeys(s, exec_v_aes_keygen(o, s))
  BY LoadingTries, Later, Zenon DEF exec_v_aes_imc, exec_v_aes_keygen, Src, Then
<1>4. /\ o.op \in {"VPsign", "VShuffle16", "VPackUsWB", "VPMAddWd", "VPMadd"}
           => o.op \notin TempOps \cup LaneOps
      /\ o.op \in {"VAesImc", "VAesKeygen", "VSha", "VGfni", "VPclmul", "VShufps", "VUnpackLow"}
           => o.op \notin Marked
  BY DEF Marked, TempOps, PlainOps, LaneOps, Selective, Unnoted
<1> QED
  BY <1>1, <1>2, <1>3, <1>4, CalmDoes, ObeysDoes, InterpByLane, Zenon DEF walk_crypto

LEMMA walk_lanesDoes ==
  ASSUME NEW s, State(s), s.x = None, NEW o,
         o.op \in {"VPerm1M", "VInsert128", "VExtract128", "VPshufb256", "VPshufbWide",
                   "VPackedShift256", "VPermq", "VPermd", "VPermilVar", "VPerm2i128",
                   "VPalignr256", "VPtest", "VTestFp", "VZeroUpper", "VZeroUpperAll",
                   "VPshufb", "VAlignr", "VAes"}
           \/ Does("interp", o, s, walk_crypto(o, s))
  PROVE  Does("interp", o, s, walk_lanes(o, s))
<1>1. /\ Calm(s, exec_v_extract128(o, s)) /\ Calm(s, exec_v_pshufb_wide(o, s))
      /\ Calm(s, exec_v_packed_shift256(o, s)) /\ Calm(s, exec_v_permq(o, s))
      /\ Calm(s, exec_v_permd(o, s))
  BY CalmSame, set_vecCalm, CommitCalm, LoopCalm, Zenon
     DEF exec_v_extract128, exec_v_pshufb_wide, exec_vpshufb_wide, exec_v_packed_shift256,
     exec_v_permq, exec_v_permd
<1>2. /\ Calm(s, exec_v_permil_var(o, s)) /\ Calm(s, exec_v_perm2i128(o, s))
      /\ Calm(s, exec_v_palignr256(o, s)) /\ Calm(s, exec_v_ptest(o, s))
      /\ Calm(s, exec_v_test_fp(o, s))
  BY CalmSame, set_vecCalm, OtherCalm, LoopCalm, Zenon DEF exec_v_permil_var, exec_v_perm2i128,
     exec_v_palignr256, exec_v_ptest, exec_v_test_fp
<1>3. /\ Calm(s, exec_v_zero_upper(o, s)) /\ Calm(s, exec_v_zero_upper_all(o, s))
  BY CalmSame, DirectCalm, Zenon DEF exec_v_zero_upper, exec_v_zero_upper_all
<1>4. /\ Obeys(s, exec_v_pshufb(o, s)) /\ Obeys(s, exec_v_alignr(o, s))
      /\ Obeys(s, exec_v_aes(o, s))
  BY SharedObeys, Zenon DEF exec_v_pshufb, Lane0Dst, exec_v_alignr
<1>5. /\ Obeys(s, exec_v_perm1_m(o, s)) /\ Obeys(s, exec_v_pshufb256(o, s))
  BY LoadTries, LoadingTries, Later, Zenon DEF exec_v_perm1_m, vperm1_run, exec_vperm1,
     exec_v_pshufb256, Src, Then
<1>6. Obeys(s, exec_v_insert128(o, s))
  BY InterpIf, Zenon
<1>7. /\ o.op \in {"VExtract128", "VPshufbWide", "VPackedShift256", "VPermq", "VPermd", "VPermilVar",
                      "VPerm2i128", "VPalignr256", "VPtest", "VTestFp", "VZeroUpper",
                      "VZeroUpperAll"} => o.op \notin TempOps \cup LaneOps
      /\ o.op \in {"VPerm1M", "VInsert128", "VPshufb256", "VPshufb", "VAlignr", "VAes"}
           => o.op \notin Marked
  BY DEF Marked, TempOps, PlainOps, LaneOps, Selective, Unnoted
<1> QED
  BY <1>1, <1>2, <1>3, <1>4, <1>5, <1>6, <1>7, CalmDoes, ObeysDoes, Zenon DEF walk_lanes

LEMMA walk_opmask_narrowDoes ==
  ASSUME NEW s, State(s), s.x = None, NEW o,
         o.op \in {"VKOrTest", "VKFromGpr", "VKToGpr", "VKMovKK", "VKUnpack", "VKBinOp",
                   "VKNot", "VKShift", "VPmovNarrow", "VPmovNarrowMem", "VPermT2", "VPermT2M",
                   "VPerm1"}
           \/ Does("interp", o, s, walk_lanes(o, s))
  PROVE  Does("interp", o, s, walk_opmask_narrow(o, s))
<1>1. /\ Calm(s, exec_v_k_or_test(o, s)) /\ Calm(s, exec_v_k_from_gpr(o, s))
      /\ Calm(s, exec_v_k_mov_k_k(o, s)) /\ Calm(s, exec_v_k_unpack(o, s))
      /\ Calm(s, exec_v_k_bin_op(o, s))
  BY CalmSame, OtherCalm, Zenon DEF exec_v_k_or_test, exec_v_k_from_gpr, exec_v_k_mov_k_k,
     exec_v_k_unpack, exec_v_k_bin_op
<1>2. /\ Calm(s, exec_v_k_not(o, s)) /\ Calm(s, exec_v_k_shift(o, s))
      /\ Calm(s, exec_v_pmov_narrow(o, s)) /\ Calm(s, exec_v_perm_t2(o, s))
      /\ Calm(s, exec_v_perm1(o, s))
  BY CalmSame, set_vecCalm, CommitCalm, OtherCalm, Zenon
     DEF exec_v_k_not, exec_v_k_shift, exec_v_pmov_narrow, exec_vpmov_narrow, exec_v_perm_t2,
     exec_vpermt2, permute2, exec_v_perm1, exec_vperm1
<1>3. Kept(s, exec_v_k_to_gpr(o, s))
  BY SetTempKept, Zenon DEF exec_v_k_to_gpr
<1>4. Obeys(s, exec_v_perm_t2_m(o, s))
  BY LoadTries, Later, Zenon DEF exec_v_perm_t2_m, permute2_run, permute2, Src, Then
<1>5. /\ o.op \in {"VKOrTest", "VKFromGpr", "VKMovKK", "VKUnpack", "VKBinOp", "VKNot", "VKShift",
                      "VPmovNarrow", "VPermT2", "VPerm1"} => o.op \notin TempOps \cup LaneOps
      /\ o.op \in {"VKToGpr"} => o.op \notin LaneOps
      /\ o.op \in {"VPermT2M"} => o.op \notin Marked
  BY DEF Marked, TempOps, PlainOps, LaneOps, Selective, Unnoted
<1> QED
  BY <1>1, <1>2, <1>3, <1>4, <1>5, CalmDoes, KeptDoes, ObeysDoes, InterpStores, Zenon
     DEF walk_opmask_narrow

LEMMA walk_half_broadcastDoes ==
  ASSUME NEW s, State(s), s.x = None, NEW o,
         o.op \in {"VLoadHalf", "VStoreHalf", "VExtractW", "VExtractLane", "VMoveMaskB",
                   "VMoveMaskFp", "VBroadcast", "VBroadcastM", "VBroadcastGpr",
                   "VBroadcastLane", "VBroadcastLaneM", "VPCmpToMask", "VPTestToMask"}
           \/ Does("interp", o, s, walk_opmask_narrow(o, s))
  PROVE  Does("interp", o, s, walk_half_broadcast(o, s))
<1>1. /\ Calm(s, exec_v_broadcast(o, s)) /\ Calm(s, exec_v_broadcast_gpr(o, s))
      /\ Calm(s, exec_v_broadcast_lane(o, s))
  BY CalmSame, set_vecCalm, CommitCalm, Zenon DEF exec_v_broadcast, exec_v_broadcast_gpr,
     exec_v_broadcast_lane, exec_broadcast_lane
<1>2. /\ Kept(s, exec_v_extract_w(o, s)) /\ Kept(s, exec_v_extract_lane(o, s))
      /\ Kept(s, exec_v_move_mask_b(o, s)) /\ Kept(s, exec_v_move_mask_fp(o, s))
  BY SetTempKept, Zenon DEF exec_v_extract_w, exec_v_extract_lane, exec_v_move_mask_b,
     exec_v_move_mask_fp
<1>3. /\ Obeys(s, exec_v_load_half(o, s)) /\ Obeys(s, exec_v_broadcast_lane_m(o, s))
  BY LoadTries, Later, Zenon DEF exec_v_load_half, exec_v_broadcast_lane_m,
     broadcast_lane_mem_run, exec_broadcast_lane, Src, Then
<1>4. /\ Obeys(s, exec_v_p_cmp_to_mask(o, s)) /\ Obeys(s, exec_v_p_test_to_mask(o, s))
  BY LoadingTries, Later, Zenon DEF exec_v_p_cmp_to_mask, exec_v_p_test_to_mask, Src, Then
<1>5. Obeys(s, exec_v_broadcast_m(o, s))
  BY InterpIf, Zenon
<1>6. /\ o.op \in {"VBroadcast", "VBroadcastGpr", "VBroadcastLane"}
           => o.op \notin TempOps \cup LaneOps
      /\ o.op \in {"VExtractW", "VExtractLane", "VMoveMaskB", "VMoveMaskFp"} => o.op \notin LaneOps
      /\ o.op \in {"VLoadHalf", "VBroadcastM", "VBroadcastLaneM", "VPCmpToMask", "VPTestToMask"}
           => o.op \notin Marked
  BY DEF Marked, TempOps, PlainOps, LaneOps, Selective, Unnoted
<1> QED
  BY <1>1, <1>2, <1>3, <1>4, <1>5, <1>6, CalmDoes, KeptDoes, ObeysDoes, InterpStores, Zenon
     DEF walk_half_broadcast

LEMMA walk_shift_fmaDoes ==
  ASSUME NEW s, State(s), s.x = None, NEW o,
         o.op \in {"VGf2p8M", "VByteShift", "VShuffle32", "VBlendW", "VBlendD", "VFma",
                   "VFmaM", "VPackWide", "VPackWideM", "VShuffle32Wide", "VMoveHalf"}
           \/ Does("interp", o, s, walk_half_broadcast(o, s))
  PROVE  Does("interp", o, s, walk_shift_fma(o, s))
<1>1. /\ Calm(s, exec_v_byte_shift(o, s)) /\ Calm(s, exec_v_shuffle32(o, s))
      /\ Calm(s, exec_v_blend_w(o, s)) /\ Calm(s, exec_v_blend_d(o, s))
      /\ Calm(s, exec_v_fma(o, s))
  BY CalmSame, set_vecCalm, CommitCalm, Zenon DEF exec_v_byte_shift, exec_v_shuffle32,
     exec_v_blend_w, exec_v_blend_d, exec_v_fma, exec_fma
<1>2. /\ Calm(s, exec_v_pack_wide(o, s)) /\ Calm(s, exec_v_shuffle32_wide(o, s))
      /\ Calm(s, exec_v_move_half(o, s))
  BY CalmSame, SetLaneCalm, set_vecCalm, CommitCalm, Zenon
     DEF exec_v_pack_wide, exec_vpack, exec_v_shuffle32_wide, exec_vshuffle32_wide,
     exec_v_move_half
<1>3. /\ Obeys(s, exec_v_fma_m(o, s)) /\ Obeys(s, exec_v_pack_wide_m(o, s))
  BY LoadTries, Later, Zenon DEF exec_v_fma_m, fma_mem_run, exec_fma, exec_v_pack_wide_m,
     pack_wide_mem_from, Src, Then
<1>4. /\ o.op \in {"VByteShift", "VShuffle32", "VBlendW", "VBlendD", "VFma", "VPackWide",
                      "VShuffle32Wide", "VMoveHalf"} => o.op \notin TempOps \cup LaneOps
      /\ o.op \in {"VFmaM", "VPackWideM"} => o.op \notin Marked
  BY DEF Marked, TempOps, PlainOps, LaneOps, Selective, Unnoted
<1> QED
  BY <1>1, <1>2, <1>3, <1>4, CalmDoes, ObeysDoes, InterpGalois, Zenon DEF walk_shift_fma

LEMMA walk_wideDoes ==
  ASSUME NEW s, State(s), s.x = None, NEW o,
         o.op \in {"VPackedWide", "VMoveMaskB256", "VFromGpr", "VToGpr", "VLogic",
                   "VPackedBin", "VLogicM", "VPackedShift", "VMaskedShift", "VShiftReg",
                   "VShiftVar", "VGf2p8"}
           \/ Does("interp", o, s, walk_shift_fma(o, s))
  PROVE  Does("interp", o, s, walk_wide(o, s))
<1>1. /\ Calm(s, exec_v_from_gpr(o, s)) /\ Calm(s, exec_v_logic(o, s))
      /\ Calm(s, exec_v_packed_shift(o, s)) /\ Calm(s, exec_v_masked_shift(o, s))
      /\ Calm(s, exec_shift_reg(o, s))
  BY CalmSame, SetLaneCalm, CommitCalm, Zenon
     DEF exec_v_from_gpr, exec_v_logic, exec_v_packed_shift, exec_v_masked_shift,
     apply_masked_shift, exec_shift_reg
<1>2. /\ Calm(s, exec_var_shift(o, s)) /\ Calm(s, exec_gf2p8(o, s))
  BY CalmSame, CommitCalm, Zenon DEF exec_var_shift, exec_gf2p8
<1>3. /\ Kept(s, exec_v_move_mask_b256(o, s)) /\ Kept(s, exec_v_to_gpr(o, s))
  BY SetTempKept, Zenon DEF exec_v_move_mask_b256, exec_v_to_gpr
<1>4. /\ Obeys(s, exec_v_packed_wide(o, s)) /\ Obeys(s, exec_v_packed_bin(o, s))
  BY LoadTries, LoadingTries, Later, CalmSame, CalmObeys, SetLaneCalm, Zenon
     DEF exec_v_packed_wide, exec_v_packed_bin, Src, Then
<1>5. Obeys(s, exec_v_logic_m(o, s))
  BY LoadTries, Later, Zenon DEF exec_v_logic_m, Src, Then
<1>6. /\ o.op \in {"VFromGpr", "VLogic", "VPackedShift", "VMaskedShift", "VShiftReg", "VShiftVar",
                      "VGf2p8"} => o.op \notin TempOps \cup LaneOps
      /\ o.op \in {"VMoveMaskB256", "VToGpr"} => o.op \notin LaneOps
      /\ o.op \in {"VPackedWide", "VPackedBin", "VLogicM"} => o.op \notin Marked
  BY DEF Marked, TempOps, PlainOps, LaneOps, Selective, Unnoted
<1> QED
  BY <1>1, <1>2, <1>3, <1>4, <1>5, <1>6, CalmDoes, KeptDoes, ObeysDoes, Zenon DEF walk_wide

LEMMA walk_dotDoes ==
  ASSUME NEW s, State(s), s.x = None, NEW o,
         o.op \in {"VInsertPs", "VInsertPs3", "VDpps", "VDppsM", "VDppd", "VDp3", "VAlign",
                   "VPTernlog", "VLogic256M", "VPackedBin256"}
           \/ Does("interp", o, s, walk_wide(o, s))
  PROVE  Does("interp", o, s, walk_dot(o, s))
<1>1. /\ Calm(s, exec_v_dpps(o, s)) /\ Calm(s, exec_v_align(o, s))
  BY CalmSame, set_vecCalm, LoopCalm, Zenon DEF exec_v_dpps, exec_v_align, exec_valign
<1>2. /\ Obeys(s, exec_v_insert_ps(o, s)) /\ Obeys(s, exec_v_insert_ps3(o, s))
  BY LoadTries, Later, CalmSame, CalmObeys, SetLaneCalm, Zenon
     DEF exec_v_insert_ps, exec_v_insert_ps3, Src, Then
<1>3. /\ Obeys(s, exec_v_dppd(o, s)) /\ Obeys(s, exec_v_dp3(o, s))
  BY LoadingTries, Later, Zenon DEF exec_v_dppd, exec_v_dp3, Src, Then
<1>4. /\ Obeys(s, exec_v_p_ternlog(o, s)) /\ Obeys(s, exec_v_logic256_m(o, s))
  BY LoadingTries, Later, Zenon DEF exec_v_p_ternlog, exec_v_logic256_m, Src, Then
<1>5. Obeys(s, exec_v_packed_bin256(o, s))
  BY LoadingTries, Later, CalmSame, CalmObeys, SetLaneCalm, LoopCalm, Zenon
     DEF exec_v_packed_bin256, Src, Then
<1>6. /\ o.op \in {"VDpps", "VAlign"} => o.op \notin TempOps \cup LaneOps
      /\ o.op \in {"VInsertPs", "VInsertPs3", "VDppd", "VDp3", "VPTernlog", "VLogic256M",
                      "VPackedBin256"} => o.op \notin Marked
  BY DEF Marked, TempOps, PlainOps, LaneOps, Selective, Unnoted
<1> QED
  BY <1>1, <1>2, <1>3, <1>4, <1>5, <1>6, CalmDoes, ObeysDoes, InterpByLane, Zenon DEF walk_dot

LEMMA walk_round_insertDoes ==
  ASSUME NEW s, State(s), s.x = None, NEW o,
         o.op \in {"VBlendI", "VPRound", "VPRoundM", "VMaskedLogic", "VMaskedPacked",
                   "VInsertLaneWide", "VExtractLaneWide", "VExtractLaneWideM", "VPcmpStr",
                   "VPcmpStrMask"}
           \/ Does("interp", o, s, walk_dot(o, s))
  PROVE  Does("interp", o, s, walk_round_insert(o, s))
<1>1. /\ Calm(s, exec_v_p_round(o, s)) /\ Calm(s, exec_v_masked_logic(o, s))
      /\ Calm(s, exec_v_masked_packed(o, s)) /\ Calm(s, exec_v_insert_lane_wide(o, s))
      /\ Calm(s, exec_v_extract_lane_wide(o, s))
  BY CalmSame, set_vecCalm, CommitCalm, LoopCalm, Zenon
     DEF exec_v_p_round, exec_v_masked_logic, apply_masked_logic, exec_v_masked_packed,
     apply_masked_packed, exec_v_insert_lane_wide, exec_v_extract_lane_wide
<1>2. /\ Obeys(s, exec_v_blend_i(o, s)) /\ Obeys(s, exec_v_p_round_m(o, s))
  BY LoadTries, LoadingTries, Later, Zenon DEF exec_v_blend_i, exec_v_p_round_m, Src, Then
<1>3. /\ Obeys(s, exec_v_pcmp_str(o, s)) /\ Obeys(s, exec_v_pcmp_str_mask(o, s))
  BY LoadingTries, Later, Zenon DEF exec_v_pcmp_str, exec_v_pcmp_str_mask, Src, Then
<1>4. /\ o.op \in {"VPRound", "VMaskedLogic", "VMaskedPacked", "VInsertLaneWide", "VExtractLaneWide"}
           => o.op \notin TempOps \cup LaneOps
      /\ o.op \in {"VBlendI", "VPRoundM", "VPcmpStr", "VPcmpStrMask"} => o.op \notin Marked
  BY DEF Marked, TempOps, PlainOps, LaneOps, Selective, Unnoted
<1> QED
  BY <1>1, <1>2, <1>3, <1>4, CalmDoes, ObeysDoes, InterpExtract, Zenon DEF walk_round_insert

LEMMA walk_extend_blendDoes ==
  ASSUME NEW s, State(s), s.x = None, NEW o,
         o.op \in {"VPMovExtend", "VPMovExtendWide", "VPAbs", "VpUnaryLane", "VpBlendm",
                   "VShuffLane", "VpMultishift", "VPBlendV", "VPBlendVM", "VPBlendVX"}
           \/ Does("interp", o, s, walk_round_insert(o, s))
  PROVE  Does("interp", o, s, walk_extend_blend(o, s))
<1>1. /\ Calm(s, exec_v_p_mov_extend_wide(o, s)) /\ Calm(s, exec_v_p_abs(o, s))
      /\ Calm(s, exec_v_p_unary_lane(o, s)) /\ Calm(s, exec_v_p_blendm(o, s))
      /\ Calm(s, exec_v_shuf_lane(o, s))
  BY CalmSame, set_vecCalm, CommitCalm, Zenon
     DEF exec_v_p_mov_extend_wide, exec_vpmov_extend_wide, exec_v_p_abs, exec_vpabs,
     exec_v_p_unary_lane, exec_vp_unary_lane, exec_v_p_blendm, exec_vp_blendm,
     exec_v_shuf_lane, exec_vshuf_lane
<1>2. /\ Calm(s, exec_v_p_multishift(o, s)) /\ Calm(s, exec_v_p_blend_v(o, s))
  BY CalmSame, SetLaneCalm, CommitCalm, Zenon DEF exec_v_p_multishift, exec_vp_multishift,
     exec_v_p_blend_v
<1>3. /\ Obeys(s, exec_v_p_mov_extend(o, s)) /\ Obeys(s, exec_v_p_blend_v_m(o, s))
  BY LoadTries, Later, CalmSame, CalmObeys, SetLaneCalm, Zenon
     DEF exec_v_p_mov_extend, exec_v_p_blend_v_m, Src, Then
<1>4. Obeys(s, exec_v_p_blend_v_x(o, s))
  BY LoadingTries, Later, Zenon DEF exec_v_p_blend_v_x, Src, Then
<1>5. /\ o.op \in {"VPMovExtendWide", "VPAbs", "VpUnaryLane", "VpBlendm", "VShuffLane", "VpMultishift",
                      "VPBlendV"} => o.op \notin TempOps \cup LaneOps
      /\ o.op \in {"VPMovExtend", "VPBlendVM", "VPBlendVX"} => o.op \notin Marked
  BY DEF Marked, TempOps, PlainOps, LaneOps, Selective, Unnoted
<1> QED
  BY <1>1, <1>2, <1>3, <1>4, <1>5, CalmDoes, ObeysDoes, Zenon DEF walk_extend_blend

LEMMA walk_movesDoes ==
  ASSUME NEW s, State(s), s.x = None, NEW o,
         o.op \in {"VLoad", "VStore", "VMov", "VMov256", "VLoadWide", "VStoreWide",
                   "VMovWide", "VMaskMov", "VMaskLoadMem", "VMaskStoreMem", "VVecMaskLoadMem",
                   "VVecMaskStoreMem", "VLogic256", "VLogicWide", "VPopcnt"}
           \/ Does("interp", o, s, walk_extend_blend(o, s))
  PROVE  Does("interp", o, s, walk_moves(o, s))
<1>1. /\ Calm(s, exec_v_mov(o, s)) /\ Calm(s, VMov256(o, s)) /\ Calm(s, exec_v_mov_wide(o, s))
      /\ Calm(s, exec_v_mask_mov(o, s)) /\ Calm(s, exec_v_logic256(o, s))
  BY CalmSame, SetLaneCalm, set_vecCalm, CommitCalm, LoopCalm, Zenon
     DEF exec_v_mov, VMov256, exec_v_mov_wide, exec_v_mask_mov, exec_v_logic256
<1>2. /\ Obeys(s, exec_v_load(o, s)) /\ Obeys(s, exec_v_load_wide(o, s))
  BY LoadTries, Later, Zenon DEF exec_v_load, exec_v_load_wide, Src, Then
<1>3. /\ Obeys(s, exec_v_logic_wide(o, s)) /\ Obeys(s, exec_v_popcnt(o, s))
  BY LoadingTries, Later, Zenon DEF exec_v_logic_wide, exec_v_popcnt, Src, Then
<1>4. /\ o.op \in {"VMov", "VMov256", "VMovWide", "VMaskMov", "VLogic256"}
           => o.op \notin TempOps \cup LaneOps
      /\ o.op \in {"VLoad", "VLoadWide", "VLogicWide", "VPopcnt"} => o.op \notin Marked
  BY DEF Marked, TempOps, PlainOps, LaneOps, Selective, Unnoted
<1> QED
  BY <1>1, <1>2, <1>3, <1>4, CalmDoes, ObeysDoes, InterpMasked, InterpStores, Zenon
     DEF walk_moves

LEMMA walk_opsDoes ==
  ASSUME NEW s, State(s), s.x = None, NEW o,
         o.op \in {"ReadReg", "WriteReg", "Load", "Store"}
           \/ Does("interp", o, s, walk_moves(o, s)),
         o.op \in {"Load", "Store"} => o.n = 8
  PROVE  Does("interp", o, s, walk_ops(o, s))
<1>1. Calm(s, exec_write_reg(o, s))
  BY CalmSame, DirectCalm, Zenon DEF exec_write_reg
<1>2. Kept(s, exec_read_reg(o, s))
  BY SetTempKept, Zenon DEF exec_read_reg
<1>3. /\ o.op \in {"WriteReg"} => o.op \notin TempOps \cup LaneOps
      /\ o.op \in {"ReadReg"} => o.op \notin LaneOps
  BY DEF TempOps, LaneOps
<1> QED
  BY <1>1, <1>2, <1>3, CalmDoes, KeptDoes, InterpLoad, InterpStores, Zenon DEF walk_ops

(* ---------------------- Handlers of compiled code ----------------------- *)

LEMMA EmitCalm ==
  ASSUME NEW s, NEW t, Calm(s, t), NEW d, NEW v, NEW w, NEW o
  PROVE  /\ Calm(s, store_xmm(t, d, v)) /\ Calm(s, store_ymm_hi(t, d, v))
         /\ Calm(s, store_ymm_hi(store_xmm(t, d, v), d, w))
         /\ Calm(s, AcrossLanes(o, t, v)) /\ Calm(s, Broadcast(o, t, v))
<1>1. ASSUME NEW y PROVE Calm(s, store_ymm_hi(store_xmm(t, d, v), d, y))
  BY SetLaneCalm, Zenon DEF store_xmm, store_ymm_hi
<1>2. ASSUME NEW x, NEW y PROVE Calm(s, store_ymm_hi(store_xmm(t, o.d, x), o.d, y))
  BY SetLaneCalm, Zenon DEF store_xmm, store_ymm_hi
<1>3. Calm(s, store_xmm(t, d, v)) /\ Calm(s, store_ymm_hi(t, d, v))
  BY SetLaneCalm, Zenon DEF store_xmm, store_ymm_hi
<1> QED
  BY <1>1, <1>2, <1>3 DEF AcrossLanes, Broadcast

LEMMA WideCalm ==
  ASSUME NEW s, State(s), NEW o
  PROVE  /\ Calm(s, emit_v_mov_wide(o, s)) /\ Calm(s, emit_v_insert_lane_wide(o, s))
         /\ Calm(s, emit_v_extract_lane_wide(o, s)) /\ Calm(s, emit_v_broadcast_gpr(o, s))
         /\ Calm(s, emit_v_mov256(o, s))
<1>1. Calm(s, emit_v_mov_wide(o, s)) /\ Calm(s, emit_v_extract_lane_wide(o, s))
  <2>1. Calm(s, EachLane(s, o.w, o.d, LAMBDA t, i : A(o, t, i)))
    BY CalmSame, SetLaneCalm, Zenon DEF EachLane, ForLanes
  <2>2. Calm(s, EachLane(s, 16 * o.n, o.d, LAMBDA t, j : s.r[o.a][o.imm * o.n + j]))
    BY CalmSame, SetLaneCalm, Zenon DEF EachLane, ForLanes
  <2> QED
    BY <2>1, <2>2, UpperCalm, Zenon DEF emit_v_mov_wide, emit_v_extract_lane_wide
<1>2. Calm(s, emit_v_insert_lane_wide(o, s))
  <2>1. PICK t : t = EachLane(s, o.w, o.d, LAMBDA x, i : A(o, x, i))
    BY Zenon
  <2>2. Calm(s, t)
    BY <2>1, CalmSame, SetLaneCalm, Zenon DEF EachLane, ForLanes
  <2>3. Calm(s, ForLanes(16 * o.n, t, LAMBDA x, j : SetLane(x, o.d, o.imm * o.n + j, s.r[o.b][j])))
    BY <2>2, SetLaneCalm, Zenon DEF ForLanes
  <2> QED
    BY <2>1, <2>3, UpperCalm, Zenon DEF emit_v_insert_lane_wide
<1>3. Calm(s, emit_v_broadcast_gpr(o, s))
  <2>1. PICK v : v = K(o, <<s.t>>)
    BY Zenon
  <2>2. PICK w : w = <<v, IF o.w >= 32 THEN v ELSE Zero, IF o.w >= 64 THEN v ELSE Zero,
                       IF o.w >= 64 THEN v ELSE Zero>>
    BY Zenon
  <2>3. Calm(s, [s EXCEPT !.r[o.d] = w])
    BY CalmSame, DirectCalm, Zenon
  <2> QED
    BY <2>1, <2>2, <2>3 DEF emit_v_broadcast_gpr
<1>4. Calm(s, emit_v_mov256(o, s))
  BY CalmSame, EmitCalm, Zenon DEF emit_v_mov256
<1> QED
  BY <1>1, <1>2, <1>3, <1>4

LEMMA Laters ==
  ASSUME NEW s, NEW t, Tries(s, t), NEW d, NEW v, NEW n, NEW m, NEW o
  PROVE  /\ Obeys(s, IF t.x = None THEN store_xmm(t, d, v) ELSE t)
         /\ Obeys(s, IF t.x = None THEN Broadcast(o, t, v) ELSE t)
         /\ Obeys(s, IF t.x = None THEN LaneLoop(o, t, n) ELSE t)
         /\ Obeys(s, IF t.x = None THEN LaneLoopB(o, t, n) ELSE t)
         /\ Obeys(s, IF t.x = None THEN ZeroedIfWide(o, LaneLoop(o, t, n)) ELSE t)
         /\ Obeys(s, IF t.x = None THEN store_lanes_zeroed_above(LaneLoop(o, t, n), d, m) ELSE t)
         /\ Obeys(s, IF t.x = None THEN store_lanes_zeroed_above(LaneLoopB(o, t, n), d, m) ELSE t)
<1>1. Calm(t, t)
  BY TriesCalm, Zenon
<1>2. /\ Calm(t, LaneLoop(o, t, n)) /\ Calm(t, LaneLoopB(o, t, n)) /\ Calm(t, store_xmm(t, d, v))
      /\ Calm(t, Broadcast(o, t, v))
  BY <1>1, EmitCalm, LoopCalm, Zenon
<1>3. /\ Calm(t, ZeroedIfWide(o, LaneLoop(o, t, n)))
      /\ Calm(t, store_lanes_zeroed_above(LaneLoop(o, t, n), d, m))
      /\ Calm(t, store_lanes_zeroed_above(LaneLoopB(o, t, n), d, m))
  BY <1>2, UpperCalm, Zenon
<1> QED
  BY <1>2, <1>3, LaterCalm, Zenon

LEMMA StoreThen ==
  ASSUME NEW s, State(s), s.x = None, NEW m, NEW n \in Nat, NEW u,
         Within(n, checked_addr(s, m, "Write"), u)
  PROVE  LET t == checked_addr(s, m, "Write")
         IN Tries(s, IF t.x = None THEN note_store(u, n) ELSE t)
<1>1. PICK t : t = checked_addr(s, m, "Write")
  BY Zenon
<1>2. Tries(s, t) /\ Within(n, t, u)
  BY <1>1, checked_addrTries, Zenon
<1>3. t.x = None => Tries(t, note_store(u, n))
  BY <1>2, WithinNoted, Zenon
<1> QED
  BY <1>1, <1>2, <1>3, TryTry, Zenon


LEMMA gstoreLane ==
  ASSUME NEW t, NEW n \in Widths, NEW u, Within(n, t, u), NEW v
  PROVE  /\ Within(n, t, gstore(u, 1, v))
         /\ n > 16 => Within(n, t, gstore(u, 2, v))
         /\ n > 32 => Within(n, t, gstore(u, 3, v)) /\ Within(n, t, gstore(u, 4, v))
BY gstoreWithin DEF Widths

LEMMA JitStores ==
  ASSUME NEW s, State(s), s.x = None, NEW o
  PROVE  /\ o.op = "VStore" /\ o.n \in {8, 16} => Does("jit", o, s, emit_v_store(o, s))
         /\ o.op = "VStoreWide" /\ o.w \in Widths => Does("jit", o, s, emit_v_store_wide(o, s))
         /\ o.op = "VStoreHalf" => Does("jit", o, s, emit_v_store_half(o, s))
         /\ o.op = "Store" /\ o.n = 8 => Does("jit", o, s, emit_store(o, s))
         /\ o.op = "VExtractLaneWideM" /\ o.n \in {1, 2}
              => Does("jit", o, s, emit_v_extract_lane_wide_m(o, s))
<1>1. ASSUME NEW m PROVE Tries(s, checked_addr(s, m, "Write")) /\ State(checked_addr(s, m, "Write"))
  BY checked_addrTries, TriesState, Zenon
<1>2. ASSUME NEW t, State(t), NEW n \in Nat \ {0}, NEW v
      PROVE  Within(n, t, t) /\ Within(n, t, Put(t, 0, n, v))
  BY <1>2, PutWithin, Zenon
<1>3. ASSUME o.n \in {8, 16} PROVE Tries(s, emit_v_store(o, s))
  <2>1. PICK t : t = checked_addr(s, o.n, "Write")
    BY Zenon
  <2>2. State(t) /\ o.n \in Nat \ {0}
    BY <1>1, <1>3, <2>1
  <2>3. PICK u : u = IF o.n = 16 THEN gstore(t, 1, Xmm(t, o.a)) ELSE Put(t, 0, o.n, Lo(Xmm(t, o.a)))
    BY Zenon
  <2>4. Within(o.n, t, u)
    BY <1>2, <1>3, <2>2, <2>3, gstoreLane DEF Widths
  <2>5. emit_v_store(o, s) = IF t.x = None THEN note_store(u, o.n) ELSE t
    BY <2>1, <2>3, Zenon DEF emit_v_store, Then
  <2> QED
    BY <2>1, <2>2, <2>4, <2>5, StoreThen, Zenon
<1>4. ASSUME o.w \in Widths PROVE Tries(s, emit_v_store_wide(o, s))
  <2>1. PICK t : t = checked_addr(s, o.w, "Write")
    BY Zenon
  <2>2. State(t) /\ o.w \in Nat \ {0}
    BY <1>1, <1>4, <2>1 DEF Widths
  <2>3. PICK u : u = ForLanes(o.w, t, LAMBDA x, i : gstore(x, i, A(o, x, i)))
    BY Zenon
  <2>4. Within(o.w, t, u)
    <3>1. PICK a : a = gstore(t, 1, A(o, t, 1))
      BY Zenon
    <3>2. PICK b : b = gstore(a, 2, A(o, a, 2))
      BY Zenon
    <3>3. PICK c : c = gstore(b, 3, A(o, b, 3))
      BY Zenon
    <3>4. PICK d : d = gstore(c, 4, A(o, c, 4))
      BY Zenon
    <3>5. o.w \in Widths
      BY <1>4, Zenon
    <3>6. Within(o.w, t, a) /\ (o.w > 16 => Within(o.w, t, b))
      BY <1>2, <2>2, <3>1, <3>2, <3>5, gstoreLane, Zenon
    <3>7. o.w > 32 => o.w > 16
      BY <3>5 DEF Widths
    <3>8. o.w > 32 => Within(o.w, t, d)
      BY <3>3, <3>4, <3>5, <3>6, <3>7, gstoreLane, Zenon
    <3>9. u = IF o.w > 32 THEN d ELSE IF o.w > 16 THEN b ELSE a
      BY <2>3, <3>1, <3>2, <3>3, <3>4, <3>7, Zenon DEF ForLanes
    <3> QED
      BY <3>6, <3>8, <3>9
  <2>5. emit_v_store_wide(o, s) = IF t.x = None THEN note_store(u, o.w) ELSE t
    BY <2>1, <2>3, Zenon DEF emit_v_store_wide, Then
  <2> QED
    BY <2>1, <2>2, <2>4, <2>5, StoreThen, Zenon
<1>5. Tries(s, emit_v_store_half(o, s))
  <2>1. PICK t : t = checked_addr(s, 8, "Write")
    BY Zenon
  <2>2. State(t) /\ 8 \in Nat \ {0}
    BY <1>1, <2>1
  <2>3. PICK u : u = Put(t, 0, 8, Lo(K(o, <<Xmm(t, o.a)>>)))
    BY Zenon
  <2>4. Within(8, t, u)
    BY <1>2, <2>2, <2>3, Zenon
  <2>5. emit_v_store_half(o, s) = IF t.x = None THEN note_store(u, 8) ELSE t
    BY <2>1, <2>3, Zenon DEF emit_v_store_half, Then
  <2> QED
    BY <2>1, <2>2, <2>4, <2>5, StoreThen, Zenon
<1>6. ASSUME o.n = 8 PROVE Tries(s, emit_store(o, s))
  <2>1. PICK t : t = checked_addr(s, o.n, "Write")
    BY Zenon
  <2>2. State(t) /\ o.n \in Nat \ {0}
    BY <1>1, <1>6, <2>1
  <2>3. PICK u : u = Put(t, 0, o.n, t.t)
    BY Zenon
  <2>4. Within(o.n, t, u)
    BY <1>2, <2>2, <2>3, Zenon
  <2>5. emit_store(o, s) = IF t.x = None THEN note_store(u, o.n) ELSE t
    BY <2>1, <2>3, Zenon DEF emit_store, Then
  <2> QED
    BY <2>1, <2>2, <2>4, <2>5, StoreThen, Zenon
<1>7. ASSUME o.n \in {1, 2} PROVE Tries(s, emit_v_extract_lane_wide_m(o, s))
  <2>1. PICK t : t = checked_addr(s, 16 * o.n, "Write")
    BY Zenon
  <2>2. State(t) /\ 16 * o.n \in Nat \ {0}
    BY <1>1, <1>7, <2>1
  <2>3. PICK u : u = ForLanes(16 * o.n, t, LAMBDA x, j : gstore(x, j, s.r[o.a][o.imm * o.n + j]))
    BY Zenon
  <2>4. Within(16 * o.n, t, u)
    <3>1. PICK a : a = gstore(t, 1, s.r[o.a][o.imm * o.n + 1])
      BY Zenon
    <3>2. PICK b : b = gstore(a, 2, s.r[o.a][o.imm * o.n + 2])
      BY Zenon
    <3>3. PICK c : c = gstore(b, 3, s.r[o.a][o.imm * o.n + 3])
      BY Zenon
    <3>4. PICK d : d = gstore(c, 4, s.r[o.a][o.imm * o.n + 4])
      BY Zenon
    <3>5. 16 * o.n \in Widths
      BY <1>7 DEF Widths
    <3>6. Within(16 * o.n, t, a) /\ (16 * o.n > 16 => Within(16 * o.n, t, b))
      BY <1>2, <2>2, <3>1, <3>2, <3>5, gstoreLane, Zenon
    <3>7. 16 * o.n > 32 => 16 * o.n > 16
      BY <3>5 DEF Widths
    <3>8. 16 * o.n > 32 => Within(16 * o.n, t, d)
      BY <3>3, <3>4, <3>5, <3>6, <3>7, gstoreLane, Zenon
    <3>9. u = IF 16 * o.n > 32 THEN d ELSE IF 16 * o.n > 16 THEN b ELSE a
      BY <2>3, <3>1, <3>2, <3>3, <3>4, <3>7, Zenon DEF ForLanes
    <3> QED
      BY <3>6, <3>8, <3>9
  <2>5. emit_v_extract_lane_wide_m(o, s) = IF t.x = None THEN note_store(u, 16 * o.n) ELSE t
    BY <2>1, <2>3, Zenon DEF emit_v_extract_lane_wide_m, Then
  <2> QED
    BY <2>1, <2>2, <2>4, <2>5, StoreThen, Zenon
<1>8. o.op \in {"VStore", "VStoreWide", "VStoreHalf", "Store", "VExtractLaneWideM"}
        => o.op \notin Marked
  BY DEF Marked, TempOps, PlainOps, LaneOps, Selective, Unnoted
<1> QED
  BY <1>3, <1>4, <1>5, <1>6, <1>7, <1>8, TriesObeys, ObeysDoes, Zenon

LEMMA JitMasked ==
  ASSUME NEW s, State(s), s.x = None, NEW o
  PROVE  /\ o.op = "VMaskLoadMem" => Does("jit", o, s, emit_v_mask_load_mem(o, s))
         /\ o.op = "VMaskStoreMem" => Does("jit", o, s, emit_v_mask_store_mem(o, s))
         /\ o.op = "VVecMaskLoadMem" => Does("jit", o, s, emit_v_vecmask_load_mem(o, s))
         /\ o.op = "VVecMaskStoreMem" => Does("jit", o, s, emit_v_vecmask_store_mem(o, s))
         /\ o.op = "VPmovNarrowMem" => Does("jit", o, s, emit_v_pmov_narrow_mem(o, s))
<1>1. TRUE \in BOOLEAN
  OBVIOUS
<1>2. /\ o.op \in {"VMaskLoadMem", "VVecMaskLoadMem"} => o.op \in Selective
      /\ o.op \in {"VMaskStoreMem", "VVecMaskStoreMem", "VPmovNarrowMem"} => o.op \in Unnoted
  BY DEF Selective, Unnoted
<1>3. ASSUME NEW z
      PROVE  /\ LET t == masked_load_run(o, s, TRUE, z) IN Obeys(s, t) /\ Picks(o, t)
             /\ LET t == masked_store_run(o, s, TRUE) IN Raw(s, t) /\ Picks(o, t)
  BY <1>1, MaskedDoes, Zenon DEF Try
<1>4. Raw(s, narrow_store_run(o, s, TRUE))
  BY <1>1, NarrowTries, Zenon DEF Try
<1>5. /\ o.op = "VMaskLoadMem" => Does("jit", o, s, emit_v_mask_load_mem(o, s))
      /\ o.op = "VVecMaskLoadMem" => Does("jit", o, s, emit_v_vecmask_load_mem(o, s))
  BY <1>2, <1>3, PicksDoes, Zenon DEF emit_v_mask_load_mem, emit_v_vecmask_load_mem,
     vmaskmov_mem_helper, vec_maskmov_mem_helper
<1>6. /\ o.op = "VMaskStoreMem" => Does("jit", o, s, emit_v_mask_store_mem(o, s))
      /\ o.op = "VVecMaskStoreMem" => Does("jit", o, s, emit_v_vecmask_store_mem(o, s))
      /\ o.op = "VPmovNarrowMem" => Does("jit", o, s, emit_v_pmov_narrow_mem(o, s))
  BY <1>2, <1>3, <1>4, RawDoes, Zenon DEF emit_v_mask_store_mem, emit_v_vecmask_store_mem,
     emit_v_pmov_narrow_mem, vmaskmov_mem_helper, vec_maskmov_mem_helper,
     vpmov_narrow_mem_helper
<1> QED
  BY <1>5, <1>6, Zenon

LEMMA JitOthers ==
  ASSUME NEW s, State(s), s.x = None, NEW o
  PROVE  /\ o.op = "Load" => Does("jit", o, s, emit_load(o, s))
         /\ o.op = "VShufps256" => Does("jit", o, s, emit_v_shufps256(o, s))
         /\ o.op = "VGf2p8M" => Does("jit", o, s, emit_v_gf2p8_m(o, s))
<1>1. Tries(s, emit_load(o, s))
  BY checked_addrTries, TriesTemp, Zenon DEF emit_load, Then
<1>2. Obeys(s, emit_v_shufps256(o, s))
  BY LoadingTries, Laters, Zenon DEF emit_v_shufps256, Halves, Checked, Then
<1>3. o.b # Mem => Calm(s, emit_v_shufps256(o, s))
  BY CalmSame, LoopCalm, Zenon DEF emit_v_shufps256, Halves, Checked, Checking, Then
<1>4. TRUE \in BOOLEAN
  OBVIOUS
<1> QED
  BY <1>1, <1>2, <1>3, <1>4, LoadDoes, ShufpsDoes, GaloisDoes, Zenon
     DEF emit_v_gf2p8_m, gf2p8_mem_helper

LEMMA JitSpecial ==
  ASSUME NEW s, State(s), s.x = None, NEW o
  PROVE  /\ Obeys(s, emit_v_load_wide(o, s)) /\ Obeys(s, emit_v_p_blend_v_x(o, s))
         /\ Obeys(s, emit_v_p_ternlog(o, s)) /\ Obeys(s, emit_v_pmadd_m(o, s))
         /\ Obeys(s, emit_v_insert128(o, s)) /\ Obeys(s, emit_v_pcmp_str(o, s))
         /\ Obeys(s, emit_v_pcmp_str_mask(o, s))
<1>1. ASSUME NEW t, Tries(s, t), NEW u, Calm(t, u) PROVE Obeys(s, IF t.x = None THEN u ELSE t)
  BY <1>1, LaterCalm, Zenon
<1>2. ASSUME NEW n PROVE Tries(s, Checking(o, s, n)) /\ Calm(Checking(o, s, n), Checking(o, s, n))
  BY LoadingTries, TriesCalm, Zenon
<1>3. Obeys(s, emit_v_load_wide(o, s))
  <2>1. PICK t : t = checked_addr(s, o.w, "Read")
    BY Zenon
  <2>2. Tries(s, t) /\ Calm(t, t)
    BY <2>1, checked_addrTries, TriesCalm, Zenon
  <2>3. Calm(t, EachLane(t, o.w, o.d, LAMBDA x, i : MemLane(x, i)))
    BY <2>2, SetLaneCalm, Zenon DEF EachLane, ForLanes
  <2> QED
    BY <1>1, <2>1, <2>2, <2>3, UpperCalm, Zenon DEF emit_v_load_wide, Then
<1>4. Obeys(s, emit_v_p_blend_v_x(o, s)) /\ Obeys(s, emit_v_p_ternlog(o, s))
  <2>1. PICK t : t = Checking(o, s, o.w)
    BY Zenon
  <2>2. Tries(s, t) /\ Calm(t, t)
    BY <1>2, <2>1, Zenon
  <2>3. Calm(t, EachLane(t, o.w, o.d, LAMBDA x, i : Picked(o, x, i)))
    BY <2>2, SetLaneCalm, Zenon DEF EachLane, ForLanes
  <2>4. Calm(t, EachLane(t, o.w, o.d, LAMBDA x, i : Ternary(o, x, i)))
    BY <2>2, SetLaneCalm, Zenon DEF EachLane, ForLanes
  <2> QED
    BY <1>1, <2>1, <2>2, <2>3, <2>4, UpperCalm, Zenon
    DEF emit_v_p_blend_v_x, emit_v_p_ternlog, Checked, Then
<1>5. Obeys(s, emit_v_pmadd_m(o, s))
  <2>1. PICK t : t = Checking(o, s, o.w)
    BY Zenon
  <2>2. ASSUME NEW u, Calm(t, u), NEW i PROVE Calm(t, vpmadd_mem_helper(o, u, i))
    BY <2>2, SetLaneCalm, Zenon DEF vpmadd_mem_helper, exec_v_pmadd_mem_lane
  <2>3. Calm(t, ForLanes(o.w, t, LAMBDA u, i : vpmadd_mem_helper(o, u, i)))
    BY <1>2, <2>1, <2>2, Zenon DEF ForLanes
  <2> QED
    BY <1>1, <1>2, <2>1, <2>3, Zenon DEF emit_v_pmadd_m, Checked, Then
<1>6. Obeys(s, emit_v_insert128(o, s))
  BY <1>1, <1>2, EmitCalm, Zenon DEF emit_v_insert128, Checked, Then
<1>7. Obeys(s, emit_v_pcmp_str(o, s))
  BY <1>1, <1>2, DirectCalm, Zenon
  DEF emit_v_pcmp_str, Checked, Then, pcmpstr_mem_helper, pcmpstr_helper
<1>8. Obeys(s, emit_v_pcmp_str_mask(o, s))
  BY <1>1, <1>2, OtherCalm, SetLaneCalm, Zenon DEF emit_v_pcmp_str_mask, Checked, Then,
     store_pcmpstrm_flags, pcmpstrm_mem_helper, pcmpstrm_helper
<1> QED
  BY <1>3, <1>4, <1>5, <1>6, <1>7, <1>8

LEMMA JitShared ==
  ASSUME NEW s, State(s), s.x = None, NEW o, NEW base
  PROVE  /\ Obeys(s, Halves(o, s)) /\ Obeys(s, HalvesUnary(o, s)) /\ Obeys(s, Into0(o, s))
         /\ Obeys(s, FInto0(o, s, base))
         /\ Obeys(s, emit_v_aes(o, s)) /\ Obeys(s, emit_v_sha(o, s)) /\ Obeys(s, emit_v_gfni(o, s))
         /\ Obeys(s, emit_v_pclmul(o, s)) /\ Obeys(s, emit_v_h_float(o, s))
         /\ Obeys(s, emit_v_h_int(o, s))
<1>1. Tries(s, Checking(o, s, 16)) /\ Tries(s, Checking(o, s, 32)) /\ Tries(s, Checking(o, s, o.n))
  BY LoadingTries, Zenon
<1>2. /\ Obeys(s, Halves(o, s)) /\ Obeys(s, HalvesUnary(o, s)) /\ Obeys(s, Into0(o, s))
      /\ Obeys(s, FInto0(o, s, base))
  BY <1>1, Laters, Zenon DEF Halves, HalvesUnary, Into0, FInto0, Checked, Then
<1>3. ASSUME NEW t, Tries(s, t), NEW u, Calm(t, u), NEW w, Calm(t, w)
      PROVE  Obeys(s, IF t.x = None THEN IF o.b = Mem THEN u ELSE w ELSE t)
  BY <1>3, LaterCalm, Zenon
<1>4. ASSUME NEW t, Tries(s, t), NEW v
      PROVE  Calm(t, CryptoXmm(o, t, v)) /\ Calm(t, hfloat_mem(o, t)) /\ Calm(t, hint_mem(o, t))
  BY <1>4, TriesCalm, SetLaneCalm, set_vecCalm, Zenon DEF CryptoXmm, hfloat_mem, hint_mem
<1>5. ASSUME NEW t, Tries(s, t) PROVE Calm(t, hfloat_reg(o, t)) /\ Calm(t, hint_reg(o, t))
  BY <1>5, TriesCalm, set_vecCalm, LoopCalm, Zenon DEF hfloat_reg, hint_reg
<1>6. Obeys(s, emit_v_aes(o, s)) /\ Obeys(s, emit_v_sha(o, s))
  BY <1>1, <1>3, <1>4, Zenon
  DEF emit_v_aes, emit_v_sha, aes_mem_helper, aes_helper, sha_mem_helper,
     sha_helper, Checked, Then
<1>7. Obeys(s, emit_v_gfni(o, s)) /\ Obeys(s, emit_v_pclmul(o, s))
  BY <1>1, <1>3, <1>4, Zenon DEF emit_v_gfni, emit_v_pclmul, gfni_mem_helper, gfni_helper,
     pclmul_mem_helper, pclmul_helper, Checked, Then
<1>8. Obeys(s, emit_v_h_float(o, s)) /\ Obeys(s, emit_v_h_int(o, s))
  BY <1>3, <1>4, <1>5, LoadingTries, Zenon
  DEF emit_v_h_float, emit_v_h_int, vhfloat_mem_helper,
     vhfloat_helper, vhint_mem_helper, vhint_helper, Checked, Then
<1> QED
  BY <1>2, <1>6, <1>7, <1>8

LEMMA op_convert256Does ==
  ASSUME NEW s, State(s), s.x = None, NEW o,
         o.op \in {"VFloatUnary256", "VPackedCvt256", "VPackedCvtWide256", "VShufps256",
                   "VUnpack256", "VCvtPh2Ps", "VCvtPs2Ph", "VPhMinPosUw", "VMpsadbw",
                   "VFloatUnary"}
  PROVE  Does("jit", o, s, op_convert256(o, s))
<1>1. /\ Calm(s, emit_v_packed_cvt_wide256(o, s)) /\ Calm(s, emit_v_cvt_ph2ps(o, s))
      /\ Calm(s, emit_v_cvt_ps2ph(o, s)) /\ Calm(s, emit_v_phminposuw(o, s))
      /\ Calm(s, emit_v_mpsadbw(o, s))
  BY CalmSame, SetLaneCalm, set_vecCalm, LoopCalm, EmitCalm, Zenon
     DEF emit_v_packed_cvt_wide256, emit_v_cvt_ph2ps, cvtph2ps_helper, VCvtPh2Ps,
     emit_v_cvt_ps2ph, cvtps2ph_helper, VCvtPs2Ph, emit_v_phminposuw, phminposuw_helper,
     VPhMinPosUw, emit_v_mpsadbw, mpsadbw_helper, VMpsadbw
<1>2. /\ Obeys(s, emit_v_float_unary256(o, s)) /\ Obeys(s, emit_v_packed_cvt256(o, s))
      /\ Obeys(s, emit_v_unpack256(o, s)) /\ Obeys(s, emit_v_float_unary(o, s))
  BY JitShared, Zenon DEF emit_v_float_unary256, emit_v_packed_cvt256, emit_v_unpack256,
     emit_v_float_unary
<1>3. /\ o.op \in {"VPackedCvtWide256", "VCvtPh2Ps", "VCvtPs2Ph", "VPhMinPosUw", "VMpsadbw"}
           => o.op \notin TempOps \cup LaneOps
      /\ o.op \in {"VFloatUnary256", "VPackedCvt256", "VUnpack256", "VFloatUnary"}
           => o.op \notin Marked
  BY DEF Marked, TempOps, PlainOps, LaneOps, Selective, Unnoted
<1> QED
  BY <1>1, <1>2, <1>3, CalmDoes, ObeysDoes, JitOthers, Zenon DEF op_convert256

LEMMA op_pack_floatDoes ==
  ASSUME NEW s, State(s), s.x = None, NEW o,
         o.op \in {"VPackUsWB", "VPMAddWd", "VPMadd", "VPMaddM", "VInsertW", "VInsertLane",
                   "VFloatMov", "VFloatBin", "VHFloat", "VHInt", "VFloatCmp", "VFloatCmpMask",
                   "VFloatCmpMask256", "VCvtFromInt", "VCvtToInt", "VCvtFloat", "VPackedCvt",
                   "VFloatBin256"}
           \/ Does("jit", o, s, op_convert256(o, s))
  PROVE  Does("jit", o, s, op_pack_float(o, s))
<1>1. /\ Calm(s, emit_v_pmaddwd(o, s)) /\ Calm(s, emit_v_pmadd(o, s))
      /\ Calm(s, emit_v_insert_w(o, s)) /\ Calm(s, emit_v_insert_lane(o, s))
      /\ Calm(s, emit_v_float_mov(o, s))
  BY CalmSame, SetLaneCalm, LoopCalm, EmitCalm, Zenon
     DEF emit_v_pmaddwd, pmaddwd_helper, exec_pmaddwd, emit_v_pmadd, vpmadd_helper,
     exec_v_pmadd, emit_v_insert_w, emit_v_insert_lane, emit_v_float_mov
<1>2. /\ Calm(s, emit_v_float_cmp(o, s)) /\ Calm(s, emit_v_cvt_from_int(o, s))
      /\ Calm(s, emit_v_cvt_float(o, s)) /\ Calm(s, emit_v_packed_cvt(o, s))
  BY CalmSame, OtherCalm, EmitCalm, Zenon DEF emit_v_float_cmp, emit_v_cvt_from_int,
     emit_v_cvt_float, emit_v_packed_cvt
<1>3. Kept(s, emit_v_cvt_to_int(o, s))
  BY SetTempKept, Zenon DEF emit_v_cvt_to_int
<1>4. Obeys(s, emit_v_pmadd_m(o, s))
  BY JitSpecial, Zenon
<1>5. /\ Obeys(s, emit_v_pack_us_w_b(o, s)) /\ Obeys(s, emit_v_float_bin(o, s))
      /\ Obeys(s, emit_v_h_float(o, s)) /\ Obeys(s, emit_v_h_int(o, s))
      /\ Obeys(s, emit_v_float_cmp_mask(o, s)) /\ Obeys(s, emit_v_float_cmp_mask256(o, s))
  BY JitShared, Zenon DEF emit_v_pack_us_w_b, emit_v_float_bin, emit_v_float_cmp_mask,
     emit_v_float_cmp_mask256
<1>6. Obeys(s, emit_v_float_bin256(o, s))
  BY JitShared, Zenon DEF emit_v_float_bin256
<1>7. /\ o.op \in {"VPMAddWd", "VPMadd", "VInsertW", "VInsertLane", "VFloatMov", "VFloatCmp",
                      "VCvtFromInt", "VCvtFloat", "VPackedCvt"} => o.op \notin TempOps \cup LaneOps
      /\ o.op \in {"VCvtToInt"} => o.op \notin LaneOps
      /\ o.op \in {"VPackUsWB", "VPMaddM", "VFloatBin", "VHFloat", "VHInt", "VFloatCmpMask",
                      "VFloatCmpMask256", "VFloatBin256"} => o.op \notin Marked
  BY DEF Marked, TempOps, PlainOps, LaneOps, Selective, Unnoted
<1> QED
  BY <1>1, <1>2, <1>3, <1>4, <1>5, <1>6, <1>7, CalmDoes, KeptDoes, ObeysDoes, Zenon
     DEF op_pack_float

LEMMA op_fma_half_cryptoDoes ==
  ASSUME NEW s, State(s), s.x = None, NEW o,
         o.op \in {"VFmaM", "VPackWide", "VPackWideM", "VShuffle32Wide", "VMoveHalf",
                   "VLoadHalf", "VStoreHalf", "VExtractW", "VExtractLane", "VMoveMaskB",
                   "VMoveMaskFp", "VZeroUpper", "VZeroUpperAll", "VPshufb", "VAlignr", "VAes",
                   "VAesImc", "VAesKeygen", "VSha", "VPclmul", "VGfni", "VPsign", "VPsignM",
                   "VShufps", "VShuffle16", "VUnpackLow"}
           \/ Does("jit", o, s, op_pack_float(o, s))
  PROVE  Does("jit", o, s, op_fma_half_crypto(o, s))
<1>1. /\ Calm(s, emit_v_pack_wide(o, s)) /\ Calm(s, emit_v_shuffle32_wide(o, s))
      /\ Calm(s, emit_v_move_half(o, s)) /\ Calm(s, emit_v_zero_upper(o, s))
      /\ Calm(s, emit_v_zero_upper_all(o, s))
  BY CalmSame, set_vecCalm, CommitCalm, EmitCalm, DirectCalm, Zenon
     DEF emit_v_pack_wide, vpack_helper, exec_vpack, emit_v_shuffle32_wide,
     vshuffle32_wide_helper, exec_vshuffle32_wide, emit_v_move_half, emit_v_zero_upper,
     emit_v_zero_upper_all
<1>2. Calm(s, emit_v_shuffle16(o, s))
  BY CalmSame, LoopCalm, UpperCalm, Zenon DEF emit_v_shuffle16
<1>3. /\ Kept(s, emit_v_extract_w(o, s)) /\ Kept(s, emit_v_extract_lane(o, s))
      /\ Kept(s, emit_v_move_mask_b(o, s)) /\ Kept(s, emit_v_move_mask_fp(o, s))
  BY SetTempKept, Zenon DEF emit_v_extract_w, emit_v_extract_lane, emit_v_move_mask_b,
     emit_v_move_mask_fp
<1>4. /\ Obeys(s, emit_v_pshufb(o, s)) /\ Obeys(s, emit_v_alignr(o, s))
      /\ Obeys(s, emit_v_aes(o, s)) /\ Obeys(s, emit_v_sha(o, s))
      /\ Obeys(s, emit_v_pclmul(o, s)) /\ Obeys(s, emit_v_gfni(o, s))
  BY JitShared, Zenon DEF emit_v_pshufb, Into0Dst, emit_v_alignr
<1>5. /\ Obeys(s, emit_v_shufps(o, s)) /\ Obeys(s, emit_v_unpack_low(o, s))
  BY JitShared, Zenon DEF emit_v_shufps, emit_v_unpack_low
<1>6. /\ Obeys(s, emit_v_fma_m(o, s)) /\ Obeys(s, emit_v_pack_wide_m(o, s))
  BY LoadTries, LoadingTries, Later, Zenon DEF emit_v_fma_m, fma_mem_helper, fma_mem_run,
     exec_fma, emit_v_pack_wide_m, vpack_mem_helper, pack_wide_mem_from, Checked, Then
<1>7. /\ Obeys(s, emit_v_load_half(o, s)) /\ Obeys(s, emit_v_aes_imc(o, s))
  BY LoadingTries, checked_addrTries, Laters, Zenon
     DEF emit_v_load_half, emit_v_aes_imc, Checked, Then
<1>8. /\ Obeys(s, emit_v_aes_keygen(o, s)) /\ Obeys(s, emit_v_psign(o, s))
  BY LoadingTries, Laters, Zenon DEF emit_v_aes_keygen, emit_v_psign, Checked, Then
<1>9. /\ o.op \in {"VPackWide", "VShuffle32Wide", "VMoveHalf", "VZeroUpper", "VZeroUpperAll",
                      "VShuffle16"} => o.op \notin TempOps \cup LaneOps
      /\ o.op \in {"VExtractW", "VExtractLane", "VMoveMaskB", "VMoveMaskFp"} => o.op \notin LaneOps
      /\ o.op \in {"VFmaM", "VPackWideM", "VLoadHalf", "VPshufb", "VAlignr", "VAes", "VAesImc",
                      "VAesKeygen", "VSha", "VPclmul", "VGfni", "VPsign", "VShufps",
                      "VUnpackLow"} => o.op \notin Marked
      /\ o.op \in {"VPsignM"} => o.op \in LaneOps
  BY DEF Marked, TempOps, PlainOps, LaneOps, Selective, Unnoted
<1>10. CASE o.op \in {"VFmaM", "VPackWide", "VPackWideM", "VShuffle32Wide", "VMoveHalf",
                      "VLoadHalf", "VStoreHalf", "VExtractW", "VExtractLane", "VMoveMaskB",
                      "VMoveMaskFp", "VZeroUpper", "VZeroUpperAll"}
  BY <1>10, <1>1, <1>3, <1>6, <1>7, <1>9, CalmDoes, KeptDoes, ObeysDoes, JitStores, Zenon
     DEF op_fma_half_crypto
<1>11. CASE o.op \in {"VPshufb", "VAlignr", "VAes", "VAesImc", "VAesKeygen", "VSha",
                      "VPclmul", "VGfni", "VPsign", "VPsignM", "VShufps", "VShuffle16",
                      "VUnpackLow"}
  BY <1>11, <1>2, <1>4, <1>5, <1>7, <1>8, <1>9, CalmDoes, ObeysDoes, Zenon
     DEF op_fma_half_crypto
<1> QED
  BY <1>10, <1>11, Zenon DEF op_fma_half_crypto

LEMMA op_narrow_shiftDoes ==
  ASSUME NEW s, State(s), s.x = None, NEW o,
         o.op \in {"VPmovNarrow", "VPmovNarrowMem", "VBroadcast", "VBroadcastM", "VInsert128",
                   "VExtract128", "VFromGpr", "VToGpr", "VLogic", "VPackedBin", "VLogicM",
                   "VPackedShift", "VPackedShift256", "VPermq", "VPermd", "VPermilVar",
                   "VPerm2i128", "VPalignr256", "VPtest", "VTestFp", "VPshufb256",
                   "VPshufbWide", "VByteShift", "VShuffle32", "VBlendW", "VBlendD", "VFma"}
           \/ Does("jit", o, s, op_fma_half_crypto(o, s))
  PROVE  Does("jit", o, s, op_narrow_shift(o, s))
<1>1. /\ Calm(s, emit_v_pmov_narrow(o, s)) /\ Calm(s, emit_v_broadcast(o, s))
      /\ Calm(s, emit_v_extract128(o, s)) /\ Calm(s, emit_v_from_gpr(o, s))
      /\ Calm(s, emit_v_logic(o, s))
  BY CalmSame, set_vecCalm, EmitCalm, Zenon DEF emit_v_pmov_narrow, vpmov_narrow_helper,
     exec_vpmov_narrow, emit_v_broadcast, emit_v_extract128, emit_v_from_gpr, emit_v_logic
<1>2. /\ Calm(s, emit_v_packed_shift(o, s)) /\ Calm(s, emit_v_packed_shift256(o, s))
      /\ Calm(s, emit_v_permq(o, s)) /\ Calm(s, emit_v_permd(o, s))
      /\ Calm(s, emit_v_permil_var(o, s))
  BY CalmSame, LoopCalm, EmitCalm, UpperCalm, Zenon
     DEF emit_v_packed_shift, emit_v_packed_shift256, emit_v_permq, emit_v_permd,
     emit_v_permil_var
<1>3. /\ Calm(s, emit_v_perm2i128(o, s)) /\ Calm(s, emit_v_palignr256(o, s))
      /\ Calm(s, emit_v_ptest(o, s)) /\ Calm(s, emit_v_test_fp(o, s))
      /\ Calm(s, emit_v_pshufb_wide(o, s))
  BY CalmSame, CommitCalm, OtherCalm, LoopCalm, EmitCalm, Zenon
     DEF emit_v_perm2i128, emit_v_palignr256, emit_v_ptest, emit_v_test_fp, emit_v_pshufb_wide,
     vpshufb_wide_helper, exec_vpshufb_wide
<1>4. /\ Calm(s, emit_v_byte_shift(o, s)) /\ Calm(s, emit_v_shuffle32(o, s))
      /\ Calm(s, emit_v_blend_w(o, s)) /\ Calm(s, emit_v_blend_d(o, s))
      /\ Calm(s, emit_v_fma(o, s))
  BY CalmSame, CommitCalm, LoopCalm, UpperCalm, Zenon DEF emit_v_byte_shift, emit_v_shuffle32,
     emit_v_blend_w, emit_v_blend_d, emit_v_fma, fma_helper, exec_fma
<1>5. Kept(s, emit_v_to_gpr(o, s))
  BY SetTempKept, Zenon DEF emit_v_to_gpr
<1>6. Obeys(s, emit_v_insert128(o, s))
  BY JitSpecial, Zenon
<1>7. /\ Obeys(s, emit_v_packed_bin(o, s)) /\ Obeys(s, emit_v_logic_m(o, s))
  BY JitShared, Zenon DEF emit_v_packed_bin, Into0Dst, emit_v_logic_m
<1>8. /\ Obeys(s, emit_v_broadcast_m(o, s)) /\ Obeys(s, emit_v_pshufb256(o, s))
  BY LoadingTries, checked_addrTries, Laters, Zenon DEF emit_v_broadcast_m, emit_v_pshufb256,
     Checked, Then
<1>9. /\ o.op \in {"VPmovNarrow", "VBroadcast", "VExtract128", "VFromGpr", "VLogic", "VPackedShift",
                      "VPackedShift256", "VPermq", "VPermd", "VPermilVar", "VPerm2i128",
                      "VPalignr256", "VPtest", "VTestFp", "VPshufbWide", "VByteShift",
                      "VShuffle32", "VBlendW", "VBlendD", "VFma"} => o.op \notin TempOps \cup LaneOps
      /\ o.op \in {"VToGpr"} => o.op \notin LaneOps
      /\ o.op \in {"VBroadcastM", "VInsert128", "VPackedBin", "VLogicM", "VPshufb256"}
           => o.op \notin Marked
  BY DEF Marked, TempOps, PlainOps, LaneOps, Selective, Unnoted
<1>10. CASE o.op \in {"VPmovNarrow", "VPmovNarrowMem", "VBroadcast", "VBroadcastM",
                      "VInsert128", "VExtract128", "VFromGpr", "VToGpr", "VLogic",
                      "VPackedBin", "VLogicM", "VPackedShift", "VPackedShift256", "VPermq"}
  BY <1>10, <1>1, <1>2, <1>5, <1>6, <1>7, <1>8, <1>9, CalmDoes, KeptDoes, ObeysDoes, JitMasked,
     Zenon DEF op_narrow_shift
<1>11. CASE o.op \in {"VPermd", "VPermilVar", "VPerm2i128", "VPalignr256", "VPtest",
                      "VTestFp", "VPshufb256", "VPshufbWide", "VByteShift", "VShuffle32",
                      "VBlendW", "VBlendD", "VFma"}
  BY <1>11, <1>2, <1>3, <1>4, <1>8, <1>9, CalmDoes, ObeysDoes, Zenon DEF op_narrow_shift
<1> QED
  BY <1>10, <1>11, Zenon DEF op_narrow_shift

LEMMA op_wide_broadcastDoes ==
  ASSUME NEW s, State(s), s.x = None, NEW o,
         o.op \in {"VLogic256M", "VPackedBin256", "VPackedWide", "VMoveMaskB256",
                   "VBroadcastGpr", "VBroadcastLane", "VBroadcastLaneM", "VPCmpToMask",
                   "VPTestToMask", "VKOrTest", "VKFromGpr", "VKToGpr", "VKMovKK", "VKUnpack",
                   "VKBinOp", "VKNot", "VKShift"}
           \/ Does("jit", o, s, op_narrow_shift(o, s))
  PROVE  Does("jit", o, s, op_wide_broadcast(o, s))
<1>1. /\ Calm(s, emit_v_broadcast_lane(o, s)) /\ Calm(s, emit_v_k_or_test(o, s))
      /\ Calm(s, emit_v_k_from_gpr(o, s)) /\ Calm(s, emit_v_k_mov_k_k(o, s))
      /\ Calm(s, emit_v_k_unpack(o, s))
  BY CalmSame, CommitCalm, OtherCalm, Zenon DEF emit_v_broadcast_lane, broadcast_lane_helper,
     exec_broadcast_lane, emit_v_k_or_test, emit_v_k_from_gpr, emit_v_k_mov_k_k,
     emit_v_k_unpack
<1>2. /\ Calm(s, emit_v_k_bin_op(o, s)) /\ Calm(s, emit_v_k_not(o, s))
      /\ Calm(s, emit_v_k_shift(o, s))
  BY CalmSame, OtherCalm, Zenon DEF emit_v_k_bin_op, emit_v_k_not, emit_v_k_shift
<1>3. Calm(s, emit_v_broadcast_gpr(o, s))
  BY WideCalm, Zenon
<1>4. /\ Kept(s, emit_v_move_mask_b256(o, s)) /\ Kept(s, emit_v_k_to_gpr(o, s))
  BY SetTempKept, Zenon DEF emit_v_move_mask_b256, emit_v_k_to_gpr
<1>5. /\ Obeys(s, emit_v_logic256_m(o, s)) /\ Obeys(s, emit_v_packed_bin256(o, s))
  BY LoadingTries, Laters, Zenon DEF emit_v_logic256_m, emit_v_packed_bin256, Checked, Then
<1>6. /\ Obeys(s, emit_v_packed_wide(o, s)) /\ Obeys(s, emit_v_broadcast_lane_m(o, s))
  BY LoadTries, LoadingTries, Laters, Later, Zenon
     DEF emit_v_packed_wide, emit_v_broadcast_lane_m, broadcast_lane_mem_helper,
     broadcast_lane_mem_run, exec_broadcast_lane, Checked, Then
<1>7. /\ Obeys(s, emit_v_p_cmp_to_mask(o, s)) /\ Obeys(s, emit_v_p_test_to_mask(o, s))
  BY LoadingTries, Later, Zenon DEF emit_v_p_cmp_to_mask, emit_vpcmp_to_mask,
     emit_v_p_test_to_mask, emit_vptest_to_mask, Checked, Then
<1>8. /\ o.op \in {"VBroadcastGpr", "VBroadcastLane", "VKOrTest", "VKFromGpr", "VKMovKK", "VKUnpack",
                      "VKBinOp", "VKNot", "VKShift"} => o.op \notin TempOps \cup LaneOps
      /\ o.op \in {"VMoveMaskB256", "VKToGpr"} => o.op \notin LaneOps
      /\ o.op \in {"VLogic256M", "VPackedBin256", "VPackedWide", "VBroadcastLaneM", "VPCmpToMask",
                      "VPTestToMask"} => o.op \notin Marked
  BY DEF Marked, TempOps, PlainOps, LaneOps, Selective, Unnoted
<1> QED
  BY <1>1, <1>2, <1>3, <1>4, <1>5, <1>6, <1>7, <1>8, CalmDoes, KeptDoes, ObeysDoes, Zenon
     DEF op_wide_broadcast

LEMMA op_extend_blendDoes ==
  ASSUME NEW s, State(s), s.x = None, NEW o,
         o.op \in {"VPopcnt", "VPMovExtend", "VPMovExtendWide", "VPAbs", "VpUnaryLane",
                   "VpBlendm", "VShuffLane", "VpMultishift", "VPBlendV", "VPBlendVM",
                   "VPBlendVX", "VBlendI", "VPRound", "VPRoundM", "VPTernlog"}
           \/ Does("jit", o, s, op_wide_broadcast(o, s))
  PROVE  Does("jit", o, s, op_extend_blend(o, s))
<1>1. /\ Calm(s, emit_v_p_mov_extend_wide(o, s)) /\ Calm(s, emit_v_p_abs(o, s))
      /\ Calm(s, emit_v_p_unary_lane(o, s)) /\ Calm(s, emit_v_p_blendm(o, s))
      /\ Calm(s, emit_v_shuf_lane(o, s))
  BY CalmSame, set_vecCalm, CommitCalm, Zenon
     DEF emit_v_p_mov_extend_wide, vpmov_extend_wide_helper, exec_vpmov_extend_wide,
     emit_v_p_abs, vpabs_helper, exec_vpabs, emit_v_p_unary_lane, vp_unary_lane_helper,
     exec_vp_unary_lane, emit_v_p_blendm, vp_blendm_helper, exec_vp_blendm, emit_v_shuf_lane,
     vshuf_lane_helper, exec_vshuf_lane
<1>2. /\ Calm(s, emit_v_p_multishift(o, s)) /\ Calm(s, emit_v_p_round(o, s))
  BY CalmSame, CommitCalm, LoopCalm, Zenon DEF emit_v_p_multishift, vp_multishift_helper,
     exec_vp_multishift, emit_v_p_round
<1>3. /\ Obeys(s, emit_v_p_blend_v_x(o, s)) /\ Obeys(s, emit_v_p_ternlog(o, s))
  BY JitSpecial, Zenon
<1>4. /\ Obeys(s, emit_v_popcnt(o, s)) /\ Obeys(s, emit_v_p_mov_extend(o, s))
  BY LoadingTries, Laters, Zenon DEF emit_v_popcnt, emit_v_p_mov_extend, Checked, Then
<1>5. /\ Obeys(s, emit_v_p_blend_v(o, s)) /\ Obeys(s, emit_v_blend_i(o, s))
  BY LoadingTries, Laters, Zenon DEF emit_v_p_blend_v, emit_v_blend_i, Checked, Then
<1>6. Obeys(s, emit_v_p_round_m(o, s))
  BY LoadingTries, Laters, Zenon DEF emit_v_p_round_m, Checked, Then
<1>7. /\ o.op \in {"VPMovExtendWide", "VPAbs", "VpUnaryLane", "VpBlendm", "VShuffLane", "VpMultishift",
                      "VPRound"} => o.op \notin TempOps \cup LaneOps
      /\ o.op \in {"VPopcnt", "VPMovExtend", "VPBlendV", "VPBlendVM", "VPBlendVX", "VBlendI",
                      "VPRoundM", "VPTernlog"} => o.op \notin Marked
  BY DEF Marked, TempOps, PlainOps, LaneOps, Selective, Unnoted
<1> QED
  BY <1>1, <1>2, <1>3, <1>4, <1>5, <1>6, <1>7, CalmDoes, ObeysDoes, Zenon DEF op_extend_blend

LEMMA op_permute_maskedDoes ==
  ASSUME NEW s, State(s), s.x = None, NEW o,
         o.op \in {"VAlign", "VPermT2", "VPermT2M", "VPerm1", "VPerm1M", "VMaskedLogic",
                   "VMaskedPacked", "VMaskedShift", "VShiftVar", "VShiftReg", "VGf2p8",
                   "VGf2p8M", "VLogic256", "VLogicWide"}
           \/ Does("jit", o, s, op_extend_blend(o, s))
  PROVE  Does("jit", o, s, op_permute_masked(o, s))
<1>1. /\ Calm(s, emit_v_align(o, s)) /\ Calm(s, emit_v_perm_t2(o, s))
      /\ Calm(s, emit_v_perm1(o, s)) /\ Calm(s, emit_v_masked_logic(o, s))
      /\ Calm(s, emit_v_masked_packed(o, s))
  BY CalmSame, set_vecCalm, CommitCalm, Zenon DEF emit_v_align, valign_helper, exec_valign,
     emit_v_perm_t2, vpermt2_helper, exec_vpermt2, permute2, emit_v_perm1, vperm1_helper,
     exec_vperm1, emit_v_masked_logic, vmasked_logic_helper, apply_masked_logic,
     emit_v_masked_packed, vmasked_packed_helper, apply_masked_packed
<1>2. /\ Calm(s, emit_v_masked_shift(o, s)) /\ Calm(s, emit_v_shift_var(o, s))
      /\ Calm(s, emit_v_shift_reg(o, s)) /\ Calm(s, emit_v_gf2p8(o, s))
      /\ Calm(s, emit_v_logic256(o, s))
  BY CalmSame, SetLaneCalm, CommitCalm, LoopCalm, EmitCalm, Zenon
     DEF emit_v_masked_shift, vmasked_shift_helper, apply_masked_shift, emit_v_shift_var,
     var_shift_helper, exec_var_shift, emit_v_shift_reg, shift_reg_helper, exec_shift_reg,
     emit_v_gf2p8, gf2p8_helper, exec_gf2p8, emit_v_logic256
<1>3. /\ Obeys(s, emit_v_perm_t2_m(o, s)) /\ Obeys(s, emit_v_perm1_m(o, s))
  BY LoadTries, Later, Zenon DEF emit_v_perm_t2_m, vpermt2_mem_helper, permute2_run, permute2,
     emit_v_perm1_m, vperm1_mem_helper, vperm1_run, exec_vperm1, Checked, Then
<1>4. Obeys(s, emit_v_logic_wide(o, s))
  BY LoadingTries, Laters, Zenon DEF emit_v_logic_wide, Checked, Then
<1>5. /\ o.op \in {"VAlign", "VPermT2", "VPerm1", "VMaskedLogic", "VMaskedPacked", "VMaskedShift",
                      "VShiftVar", "VShiftReg", "VGf2p8", "VLogic256"} => o.op \notin TempOps \cup LaneOps
      /\ o.op \in {"VPermT2M", "VPerm1M", "VLogicWide"} => o.op \notin Marked
  BY DEF Marked, TempOps, PlainOps, LaneOps, Selective, Unnoted
<1> QED
  BY <1>1, <1>2, <1>3, <1>4, <1>5, CalmDoes, ObeysDoes, JitOthers, Zenon DEF op_permute_masked

LEMMA op_movesDoes ==
  ASSUME NEW s, State(s), s.x = None, NEW o,
         o.op \in {"VLoad", "VStore", "VMov", "VMov256", "VLoadWide", "VStoreWide",
                   "VMovWide", "VMaskMov", "VMaskLoadMem", "VMaskStoreMem", "VVecMaskLoadMem",
                   "VVecMaskStoreMem", "VInsertLaneWide", "VExtractLaneWide",
                   "VExtractLaneWideM", "VPcmpStr", "VPcmpStrMask", "VInsertPs", "VInsertPs3",
                   "VDpps", "VDppsM", "VDppd", "VDp3"}
           \/ Does("jit", o, s, op_permute_masked(o, s)),
         o.op = "VStore" => o.n \in {8, 16}, o.op = "VStoreWide" => o.w \in Widths,
         o.op = "VExtractLaneWideM" => o.n \in {1, 2}
  PROVE  Does("jit", o, s, op_moves(o, s))
<1>1. /\ Calm(s, emit_v_mov(o, s)) /\ Calm(s, emit_v_mask_mov(o, s))
      /\ Calm(s, emit_v_dpps(o, s))
  BY CalmSame, CommitCalm, LoopCalm, EmitCalm, Zenon
     DEF emit_v_mov, emit_v_mask_mov, vmaskmov_helper, emit_v_dpps
<1>2. /\ Calm(s, emit_v_mov256(o, s)) /\ Calm(s, emit_v_mov_wide(o, s))
      /\ Calm(s, emit_v_insert_lane_wide(o, s)) /\ Calm(s, emit_v_extract_lane_wide(o, s))
  BY WideCalm, Zenon
<1>3. /\ Obeys(s, emit_v_load_wide(o, s)) /\ Obeys(s, emit_v_pcmp_str(o, s))
      /\ Obeys(s, emit_v_pcmp_str_mask(o, s))
  BY JitSpecial, Zenon
<1>4. /\ Obeys(s, emit_v_load(o, s)) /\ Obeys(s, emit_v_insert_ps(o, s))
  BY LoadingTries, checked_addrTries, Laters, Zenon DEF emit_v_load, emit_v_insert_ps, Checked,
     Then
<1>5. /\ Obeys(s, emit_v_insert_ps3(o, s)) /\ Obeys(s, emit_v_dpps_m(o, s))
  BY LoadingTries, Laters, Zenon DEF emit_v_insert_ps3, emit_v_dpps_m, Checked, Then
<1>6. /\ Obeys(s, emit_v_dppd(o, s)) /\ Obeys(s, emit_v_dp3(o, s))
  BY LoadingTries, Laters, Zenon DEF emit_v_dppd, emit_v_dp3, Checked, Then
<1>7. /\ o.op \in {"VMov", "VMov256", "VMovWide", "VMaskMov", "VInsertLaneWide", "VExtractLaneWide",
                      "VDpps"} => o.op \notin TempOps \cup LaneOps
      /\ o.op \in {"VLoad", "VLoadWide", "VPcmpStr", "VPcmpStrMask", "VInsertPs", "VInsertPs3",
                      "VDppd", "VDp3"} => o.op \notin Marked
      /\ o.op \in {"VDppsM"} => o.op \in LaneOps
  BY DEF Marked, TempOps, PlainOps, LaneOps, Selective, Unnoted
<1>8. CASE o.op \in {"VLoad", "VStore", "VMov", "VMov256", "VLoadWide", "VStoreWide",
                     "VMovWide", "VMaskMov", "VMaskLoadMem", "VMaskStoreMem",
                     "VVecMaskLoadMem", "VVecMaskStoreMem"}
  BY <1>8, <1>1, <1>2, <1>3, <1>4, <1>7, CalmDoes, ObeysDoes, JitMasked, JitStores, Zenon
     DEF op_moves
<1>9. CASE o.op \in {"VInsertLaneWide", "VExtractLaneWide", "VExtractLaneWideM", "VPcmpStr",
                     "VPcmpStrMask", "VInsertPs", "VInsertPs3", "VDpps", "VDppsM", "VDppd",
                     "VDp3"}
  BY <1>9, <1>1, <1>2, <1>3, <1>4, <1>5, <1>6, <1>7, CalmDoes, ObeysDoes, JitStores, Zenon
     DEF op_moves
<1> QED
  BY <1>8, <1>9, Zenon DEF op_moves

LEMMA op_ofDoes ==
  ASSUME NEW s, State(s), s.x = None, NEW o,
         o.op \in {"ReadReg", "WriteReg", "Load", "Store"}
           \/ Does("jit", o, s, op_moves(o, s)),
         o.op \in {"Load", "Store"} => o.n = 8
  PROVE  Does("jit", o, s, op_of(o, s))
<1>1. Calm(s, emit_write_reg(o, s))
  BY CalmSame, DirectCalm, Zenon DEF emit_write_reg
<1>2. Kept(s, emit_read_reg(o, s))
  BY SetTempKept, Zenon DEF emit_read_reg
<1>3. /\ o.op \in {"WriteReg"} => o.op \notin TempOps \cup LaneOps
      /\ o.op \in {"ReadReg"} => o.op \notin LaneOps
  BY DEF TempOps, LaneOps
<1> QED
  BY <1>1, <1>2, <1>3, CalmDoes, KeptDoes, JitOthers, JitStores, Zenon DEF op_of

(* ------------------------------- One op --------------------------------- *)

LEMMA InterpDoes ==
  ASSUME NEW s, State(s), s.x = None, NEW o, Fits(o)
  PROVE  Does("interp", o, s, walk_ops(o, s))
<1>1. \/ o.op \in {"VUnpack256", "VCvtPh2Ps", "VCvtPs2Ph", "VPhMinPosUw", "VMpsadbw", "VFloatUnary"}
      \/ o.op \in {"VFloatCmpMask256", "VFloatCmp", "VCvtFromInt", "VCvtToInt", "VCvtFloat",
                    "VPackedCvt", "VFloatBin256", "VFloatUnary256", "VPackedCvt256",
                    "VPackedCvtWide256", "VShufps256"}
      \/ o.op \in {"VPMaddM", "VInsertW", "VInsertLane", "VFloatMov", "VFloatBin", "VHFloat", "VHInt",
                    "VFloatCmpMask"}
      \/ o.op \in {"VAesImc", "VAesKeygen", "VSha", "VGfni", "VPclmul", "VPsign", "VPsignM", "VShufps",
                    "VShuffle16", "VUnpackLow", "VPackUsWB", "VPMAddWd", "VPMadd"}
      \/ o.op \in {"VPerm1M", "VInsert128", "VExtract128", "VPshufb256", "VPshufbWide",
                    "VPackedShift256", "VPermq", "VPermd", "VPermilVar", "VPerm2i128",
                    "VPalignr256", "VPtest", "VTestFp", "VZeroUpper", "VZeroUpperAll",
                    "VPshufb", "VAlignr", "VAes"}
      \/ o.op \in {"VKOrTest", "VKFromGpr", "VKToGpr", "VKMovKK", "VKUnpack", "VKBinOp", "VKNot",
                    "VKShift", "VPmovNarrow", "VPmovNarrowMem", "VPermT2", "VPermT2M",
                    "VPerm1"}
      \/ o.op \in {"VLoadHalf", "VStoreHalf", "VExtractW", "VExtractLane", "VMoveMaskB", "VMoveMaskFp",
                    "VBroadcast", "VBroadcastM", "VBroadcastGpr", "VBroadcastLane",
                    "VBroadcastLaneM", "VPCmpToMask", "VPTestToMask"}
      \/ o.op \in {"VGf2p8M", "VByteShift", "VShuffle32", "VBlendW", "VBlendD", "VFma", "VFmaM",
                    "VPackWide", "VPackWideM", "VShuffle32Wide", "VMoveHalf"}
      \/ o.op \in {"VPackedWide", "VMoveMaskB256", "VFromGpr", "VToGpr", "VLogic", "VPackedBin",
                    "VLogicM", "VPackedShift", "VMaskedShift", "VShiftReg", "VShiftVar",
                    "VGf2p8"}
      \/ o.op \in {"VInsertPs", "VInsertPs3", "VDpps", "VDppsM", "VDppd", "VDp3", "VAlign",
                    "VPTernlog", "VLogic256M", "VPackedBin256"}
      \/ o.op \in {"VBlendI", "VPRound", "VPRoundM", "VMaskedLogic", "VMaskedPacked",
                    "VInsertLaneWide", "VExtractLaneWide", "VExtractLaneWideM", "VPcmpStr",
                    "VPcmpStrMask"}
      \/ o.op \in {"VPMovExtend", "VPMovExtendWide", "VPAbs", "VpUnaryLane", "VpBlendm", "VShuffLane",
                    "VpMultishift", "VPBlendV", "VPBlendVM", "VPBlendVX"}
      \/ o.op \in {"VLoad", "VStore", "VMov", "VMov256", "VLoadWide", "VStoreWide", "VMovWide",
                    "VMaskMov", "VMaskLoadMem", "VMaskStoreMem", "VVecMaskLoadMem",
                    "VVecMaskStoreMem", "VLogic256", "VLogicWide", "VPopcnt"}
      \/ o.op \in {"ReadReg", "WriteReg", "Load", "Store"}
  BY DEF Fits, AllOps
<1> QED
  BY <1>1, walk_shuffle256Does, walk_compare_convertDoes, walk_floatDoes, walk_cryptoDoes,
     walk_lanesDoes, walk_opmask_narrowDoes, walk_half_broadcastDoes, walk_shift_fmaDoes,
     walk_wideDoes, walk_dotDoes, walk_round_insertDoes, walk_extend_blendDoes, walk_movesDoes,
     walk_opsDoes, SMT DEF Fits

LEMMA JitDoes ==
  ASSUME NEW s, State(s), s.x = None, NEW o, Fits(o)
  PROVE  Does("jit", o, s, op_of(o, s))
<1>1. \/ o.op \in {"VFloatUnary256", "VPackedCvt256", "VPackedCvtWide256", "VShufps256", "VUnpack256",
                    "VCvtPh2Ps", "VCvtPs2Ph", "VPhMinPosUw", "VMpsadbw", "VFloatUnary"}
      \/ o.op \in {"VPackUsWB", "VPMAddWd", "VPMadd", "VPMaddM", "VInsertW", "VInsertLane",
                    "VFloatMov", "VFloatBin", "VHFloat", "VHInt", "VFloatCmp",
                    "VFloatCmpMask", "VFloatCmpMask256", "VCvtFromInt", "VCvtToInt",
                    "VCvtFloat", "VPackedCvt", "VFloatBin256"}
      \/ o.op \in {"VFmaM", "VPackWide", "VPackWideM", "VShuffle32Wide", "VMoveHalf", "VLoadHalf",
                    "VStoreHalf", "VExtractW", "VExtractLane", "VMoveMaskB", "VMoveMaskFp",
                    "VZeroUpper", "VZeroUpperAll", "VPshufb", "VAlignr", "VAes", "VAesImc",
                    "VAesKeygen", "VSha", "VPclmul", "VGfni", "VPsign", "VPsignM", "VShufps",
                    "VShuffle16", "VUnpackLow"}
      \/ o.op \in {"VPmovNarrow", "VPmovNarrowMem", "VBroadcast", "VBroadcastM", "VInsert128",
                    "VExtract128", "VFromGpr", "VToGpr", "VLogic", "VPackedBin", "VLogicM",
                    "VPackedShift", "VPackedShift256", "VPermq", "VPermd", "VPermilVar",
                    "VPerm2i128", "VPalignr256", "VPtest", "VTestFp", "VPshufb256",
                    "VPshufbWide", "VByteShift", "VShuffle32", "VBlendW", "VBlendD", "VFma"}
      \/ o.op \in {"VLogic256M", "VPackedBin256", "VPackedWide", "VMoveMaskB256", "VBroadcastGpr",
                    "VBroadcastLane", "VBroadcastLaneM", "VPCmpToMask", "VPTestToMask",
                    "VKOrTest", "VKFromGpr", "VKToGpr", "VKMovKK", "VKUnpack", "VKBinOp",
                    "VKNot", "VKShift"}
      \/ o.op \in {"VPopcnt", "VPMovExtend", "VPMovExtendWide", "VPAbs", "VpUnaryLane", "VpBlendm",
                    "VShuffLane", "VpMultishift", "VPBlendV", "VPBlendVM", "VPBlendVX",
                    "VBlendI", "VPRound", "VPRoundM", "VPTernlog"}
      \/ o.op \in {"VAlign", "VPermT2", "VPermT2M", "VPerm1", "VPerm1M", "VMaskedLogic",
                    "VMaskedPacked", "VMaskedShift", "VShiftVar", "VShiftReg", "VGf2p8",
                    "VGf2p8M", "VLogic256", "VLogicWide"}
      \/ o.op \in {"VLoad", "VStore", "VMov", "VMov256", "VLoadWide", "VStoreWide", "VMovWide",
                    "VMaskMov", "VMaskLoadMem", "VMaskStoreMem", "VVecMaskLoadMem",
                    "VVecMaskStoreMem", "VInsertLaneWide", "VExtractLaneWide",
                    "VExtractLaneWideM", "VPcmpStr", "VPcmpStrMask", "VInsertPs",
                    "VInsertPs3", "VDpps", "VDppsM", "VDppd", "VDp3"}
      \/ o.op \in {"ReadReg", "WriteReg", "Load", "Store"}
  BY DEF Fits, AllOps
<1> QED
  BY <1>1, op_convert256Does, op_pack_floatDoes, op_fma_half_cryptoDoes, op_narrow_shiftDoes,
     op_wide_broadcastDoes, op_extend_blendDoes, op_permute_maskedDoes, op_movesDoes,
     op_ofDoes, SMT DEF Fits
=============================================================================
