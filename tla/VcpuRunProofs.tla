--------------------------- MODULE VcpuRunProofs ---------------------------
(***************************************************************************)
(* Vcpu::run for every guest, device, budget and order of exits: the       *)
(* instruction counter is exact, and the STI shadow holds.  Completion by  *)
(* re-execution, for every guest of restartable instructions: each         *)
(* transfer gets its value, each device is asked once, no interrupt comes  *)
(* between, and the whole is the CPU of GuestCpu.                          *)
(***************************************************************************)
EXTENDS VcpuRun, SequenceTheorems, TLAPS
-----------------------------------------------------------------------------
(* Quotients and remainders.                                               *)
LEMMA Division ==
  ASSUME NEW n \in Int, NEW d \in Nat \ {0}
  PROVE  /\ n \div d \in Int /\ n % d \in 0 .. d - 1
         /\ d * (n \div d) \in Int /\ n = d * (n \div d) + (n % d)
  BY SMT

(* A remainder is the only one.                                             *)
LEMMA RemainderIsUnique ==
  ASSUME NEW n \in Int, NEW d \in Nat \ {0}, NEW q \in Int, NEW r \in 0 .. d - 1,
         n = d * q + r
  PROVE  n % d = r
<1> DEFINE p == n \div d
<1>1. p \in Int /\ d * p \in Int /\ n % d \in 0 .. d - 1 /\ n = d * p + (n % d)
  BY Division, Zenon
<1>2. d * q \in Int
  BY SMT
<1> HIDE DEF p
<1>3. CASE p < q
  <2>1. d * (p + 1) <= d * q /\ d * (p + 1) = d * p + d
    BY <1>1, <1>3, SMT
  <2> QED
    BY <1>1, <1>2, <2>1, SMT
<1>4. CASE q < p
  <2>1. d * (q + 1) <= d * p /\ d * (q + 1) = d * q + d
    BY <1>1, <1>4, SMT
  <2> QED
    BY <1>1, <1>2, <2>1, SMT
<1>5. CASE p = q
  BY <1>1, <1>2, <1>5, SMT
<1> QED
  BY <1>1, <1>3, <1>4, <1>5, SMT

(* Going on from a remainder, by whatever number.                           *)
LEMMA RemainderGoesOn ==
  ASSUME NEW n \in Int, NEW d \in Nat \ {0}, NEW m \in Int
  PROVE  ((n % d) + m) % d = (n + m) % d
<1> DEFINE p == n \div d
           x == (n % d) + m
           q == x \div d
           r == x % d
<1>1. p \in Int /\ d * p \in Int /\ n % d \in 0 .. d - 1 /\ n = d * p + (n % d)
  BY Division, Zenon
<1>2. x \in Int
  BY <1>1
<1>3. q \in Int /\ d * q \in Int /\ r \in 0 .. d - 1 /\ x = d * q + r
  BY <1>2, Division, Zenon
<1>4. n + m = d * (p + q) + r /\ p + q \in Int /\ n + m \in Int
  <2>1. d * (p + q) = d * p + d * q
    BY <1>1, <1>3, SMT
  <2>2. n + m = d * p + x
    BY <1>1
  <2> HIDE DEF p, x, q, r
  <2> QED
    BY <1>1, <1>3, <2>1, <2>2, SMT
<1> HIDE DEF p, q, r
<1> QED
  BY <1>3, <1>4, RemainderIsUnique, Zenon DEF r

-----------------------------------------------------------------------------
(* The instruction counter.  The walk in progress has completed info       *)
(* instructions that retired does not show yet, if it is the interpreter's.*)
Counts ==
  /\ retired \in 0 .. Wrap - 1 /\ info \in Nat /\ at \in Walks \cup {"out", "top"}
  /\ completed = IF Interpreting THEN (retired + info) % Wrap ELSE retired

(* One instruction more, counted by the interpreter's walk or at its end.  *)
LEMMA OneMore ==
  ASSUME Counts
  PROVE  /\ ((retired + info) % Wrap) \in 0 .. Wrap - 1
         /\ ((retired + info + 1) % Wrap) \in 0 .. Wrap - 1
         /\ ((retired + info + 0) % Wrap) = (retired + info) % Wrap
         /\ (((retired + info) % Wrap) + 1) % Wrap = (retired + info + 1) % Wrap
         /\ (retired + (info + 1)) % Wrap = (retired + info + 1) % Wrap
<1>1. PICK n \in Int : n = retired + info
  BY DEF Counts
<1>2. Wrap \in Nat \ {0}
  BY BoundsAssumption, Zenon
<1>3. (n % Wrap) \in 0 .. Wrap - 1 /\ ((n + 1) % Wrap) \in 0 .. Wrap - 1
  BY <1>2, Division
<1>4. ((n % Wrap) + 1) % Wrap = (n + 1) % Wrap
  BY <1>2, 1 \in Int, RemainderGoesOn, Zenon
<1>5. /\ retired + info + 1 = n + 1
      /\ retired + info + 0 = n
      /\ retired + (info + 1) = n + 1
  BY <1>1 DEF Counts
<1>6. ((retired + info) % Wrap) \in 0 .. Wrap - 1
  BY <1>1, <1>3, Zenon
<1>7. ((retired + info + 1) % Wrap) \in 0 .. Wrap - 1
  BY <1>3, <1>5, Zenon
<1>8. ((retired + info + 0) % Wrap) = (retired + info) % Wrap
  BY <1>1, <1>5, Zenon
<1>9. (((retired + info) % Wrap) + 1) % Wrap = (retired + info + 1) % Wrap
  BY <1>1, <1>4, <1>5, Zenon
<1>10. (retired + (info + 1)) % Wrap = (retired + info + 1) % Wrap
  BY <1>5, Zenon
<1> QED
  BY <1>6, <1>7, <1>8, <1>9, <1>10, Zenon

LEMMA CountsIsKept == Counts /\ [Next]_vars => Counts'
<1> SUFFICES ASSUME Counts, [Next]_vars PROVE Counts'
  BY Zenon
<1>z. Wrap \in Nat \ {0} /\ 0 \in 0 .. Wrap - 1
  BY BoundsAssumption
<1>r. \A n \in 0 .. Wrap - 1 : n % Wrap = n
  BY <1>z, RemainderIsUnique
<1>0. \A n \in 0 .. Wrap - 1 : (n + 0) % Wrap = n
  BY <1>r, <1>z
(* A walk ends.                                                            *)
<1>e. ASSUME NEW moved \in BOOLEAN, Retire(moved), at \in Walks, at' \in {"out", "top"},
             completed' = IF moved /\ Interpreting THEN (completed + 1) % Wrap ELSE completed,
             info' = info
      PROVE  Counts'
  BY <1>e, OneMore, Zenon DEF Counts, Retire, Interpreting, Walks
(* A walk begins.                                                          *)
<1>b. ASSUME at \in {"top", "comp"}, at' \in Walks, info' = 0, UNCHANGED <<retired, completed>>
      PROVE  Counts'
  BY <1>b, <1>0, <1>z, Zenon DEF Counts, Interpreting, Walks
(* Nothing counted.                                                        *)
<1>u. ASSUME UNCHANGED <<retired, completed, info>>,
             at' = at \/ (at \in {"out", "top"} /\ at' \in {"out", "top"})
      PROVE  Counts'
  BY <1>u, Zenon DEF Counts, Interpreting
<1>1. CASE Embedder \/ InjectIrq
  BY <1>1, <1>u, Zenon DEF Embedder, Serve, Enter, InjectIrq, history
<1>2. CASE Top
  <2>1. CASE TopBudget
    BY <2>1, <1>u, Zenon DEF TopBudget, Leave, history
  <2>2. CASE TopRetry \/ \E how \in {"interp", "comp"} : TopDispatch(how)
    BY <2>2, <1>b, Zenon DEF TopRetry, TopDispatch, Begin, Walks
  <2>3. CASE TopIrq
    BY <2>3, <1>u, Zenon DEF TopIrq, history
  <2>4. CASE TopIrqFaults
    BY <2>4, <1>u, Zenon DEF TopIrqFaults, VectorFaults, Leave, history
  <2> QED
    BY <1>2, <2>1, <2>2, <2>3, <2>4, Zenon DEF Top
<1>3. CASE Transfer
  <2>1. ASSUME NEW v, Transferred(v) PROVE Counts'
    BY <2>1, <1>u, Zenon DEF Transferred
  <2>2. ASSUME NEW why, TrapOut(why), Walking PROVE Counts'
    BY <2>2, <1>e, Zenon DEF TrapOut, Leave, Walking, history
  <2>3. CASE Defer
    BY <2>3, <1>b, Zenon DEF Defer, Walks
  <2> QED
    BY <1>3, <2>1, <2>2, <2>3, Zenon
    DEF Transfer, Ram, Miss, LoadTakes, StoreAcked, PartKnown, PartLoad, PartStore, Trap
<1>4. CASE Finish
  <2>1. CASE NextInsn
    <3>1. info' = info + 1 /\ at' = at /\ retired' = retired /\ at \in {"interp", "comp"}
          /\ completed' = IF Interpreting THEN (completed + 1) % Wrap ELSE completed
      BY <2>1, Zenon DEF NextInsn, Completed
    <3> QED
      BY <3>1, OneMore DEF Counts, Interpreting
  <2>2. CASE EndWalk \/ Iret \/ ExitInsn
    <3>1. /\ Retire(TRUE) /\ at \in Walks /\ at' \in {"out", "top"} /\ info' = info
          /\ completed' = IF Interpreting THEN (completed + 1) % Wrap ELSE completed
      BY <2>2, Zenon DEF EndWalk, Iret, ExitInsn, BackToTop, Leave, Done, Completed
    <3> QED
      BY <3>1, <1>e, Zenon
  <2>3. CASE PortDefer
    BY <2>3, <1>b, Zenon DEF PortDefer, Walks
  <2>4. CASE DivExits \/ DivVectors \/ DivFaults
    <3>1. /\ Retire(FALSE) /\ at \in Walks /\ at' \in {"out", "top"} /\ info' = info
          /\ completed' = completed
      BY <2>4, Zenon DEF DivExits, DivVectors, DivFaults, VectorFaults, Leave, Done, history
    <3> QED
      BY <3>1, <1>e, Zenon
  <2> QED
    BY <1>4, <2>1, <2>2, <2>3, <2>4, Zenon DEF Finish
<1>5. CASE UNCHANGED vars
  BY <1>5, <1>u, Zenon DEF vars, history
<1> QED
  BY <1>1, <1>2, <1>3, <1>4, <1>5, Zenon DEF Next

(* "Instructions retired" (Vcpu::retired): for every guest the counter     *)
(* counts each instruction the interpreter completes once, across traps,   *)
(* retries, deferred accesses and single steps.                            *)
THEOREM RetiredCounts == Spec => []RetiredIsExact
<1>1. Init => Counts
  BY BoundsAssumption DEF Init, Counts, Interpreting
<1>2. Counts => RetiredIsExact
  BY Zenon DEF Counts, RetiredIsExact, Interpreting
<1> QED
  BY <1>1, <1>2, CountsIsKept, PTL DEF Spec
-----------------------------------------------------------------------------
(* The STI shadow.  Behind a sti of a real-mode guest rip is on the        *)
(* instruction after it, and between walks the latch is up; real mode is   *)
(* interpreted only, and interrupts are queued for real mode only.         *)
Latched ==
  /\ guest \in Guests /\ k \in Nat \ {0} /\ at \in Walks \cup {"out", "top"}
  /\ holes \subseteq Unmapped \cup {"stack"}
  /\ ~Real16 => ~pending_irq
  /\ Real16 => at \notin {"comp", "defer"}
  /\ Real16 /\ last.kind = "sti" =>
       /\ rip - 1 \in Insns /\ Prog[rip - 1].kind = "sti"
       /\ at \in {"out", "top"} => sti_shadow

(* The transfer under way is one of the instruction.                       *)
LEMMA HereIsAnOp ==
  ASSUME guest \in Guests, k \in Nat \ {0}, Walking
  PROVE  k \in DOMAIN Prog[rip].ops /\ rip \in Insns /\ at \in Walks
  BY GuestsAssumption DEF Guest, Walking, Prog, Insns

LEMMA LatchedIsKept ==
  ASSUME NoTrapAfterSti
  PROVE  Latched /\ [Next]_vars => Latched'
<1> SUFFICES ASSUME Latched, [Next]_vars PROVE Latched'
  BY Zenon
(* Nothing moves.                                                          *)
<1>u. ASSUME UNCHANGED <<guest, rip, last, sti_shadow>>, k' \in Nat \ {0},
             holes' \subseteq holes, pending_irq' => pending_irq \/ Real16,
             at' = at \/ at' \in {"retry", "interp"}
               \/ (at' = "top" /\ at = "out") \/ (at' = "out" /\ at = "top")
               \/ (~Real16 /\ at' \in Walks)
      PROVE  Latched'
  BY <1>u, Zenon DEF Latched, Real16, Prog, Insns, Walks
(* A walk ends in front of its instruction.                                *)
<1>t. ASSUME ~(Real16 /\ last.kind = "sti"), UNCHANGED <<guest, last, k, pending_irq, holes>>,
             at' \in {"out", "top"}
      PROVE  Latched'
  BY <1>t, Zenon DEF Latched, Real16, Prog, Insns
(* An instruction is completed.                                            *)
<1>c. ASSUME UNCHANGED <<guest, pending_irq, holes>>, k' \in Nat \ {0}, rip \in Insns,
             last'.kind = Prog[rip].kind, Prog[rip].kind = "sti" => rip' = rip + 1,
             \/ at' = at /\ at \in {"interp", "comp"}
             \/ at' \in {"out", "top"} /\ Retire(TRUE) /\ at \in Walks
      PROVE  Latched'
  <2>1. /\ guest' \in Guests /\ k' \in Nat \ {0} /\ at' \in Walks \cup {"out", "top"}
        /\ holes' \subseteq Unmapped \cup {"stack"}
        /\ ~Real16' => ~pending_irq'
        /\ Real16' => at' \notin {"comp", "defer"}
    BY <1>c, Zenon DEF Latched, Real16
  <2>2. ASSUME Real16', last'.kind = "sti"
        PROVE  /\ rip' - 1 \in Insns' /\ Prog'[rip' - 1].kind = "sti"
               /\ at' \in {"out", "top"} => sti_shadow'
    <3>1. Insns' = Insns /\ Prog' = Prog /\ Real16 /\ Insns \subseteq Nat
      BY <1>c, <2>2, GuestsAssumption, Zenon DEF Insns, Prog, Real16, Guest, Latched
    <3>2. rip' - 1 = rip
      BY <1>c, <2>2, <3>1
    <3>3. at' \in {"out", "top"} => sti_shadow'
      BY <1>c, <2>2, <3>1, Zenon DEF Retire, Latched, Walks
    <3> QED
      BY <1>c, <2>2, <3>1, <3>2, <3>3, Zenon
  <2> QED
    BY <2>1, <2>2, Zenon DEF Latched
<1>1. CASE Embedder \/ InjectIrq
  BY <1>1, <1>u DEF Embedder, Serve, Enter, InjectIrq, history, space, cpu, Latched
<1>2. CASE Top
  <2>1. CASE TopBudget
    BY <2>1, <1>u, Zenon DEF TopBudget, Leave, history, space, cpu, Latched
  <2>2. CASE TopRetry \/ \E how \in {"interp", "comp"} : TopDispatch(how)
    BY <2>2, <1>u DEF TopRetry, TopDispatch, Begin, Walks, space, cpu, Latched
  <2>3. CASE TopIrq
    <3>1. ~(Real16 /\ last.kind = "sti")
      BY <2>3, Zenon DEF TopIrq, Deliverable, Latched
    <3> QED
      BY <2>3, <3>1, Zenon DEF TopIrq, history, space, Latched, Real16
  <2>4. CASE TopIrqFaults
    BY <2>4, <1>u, Zenon DEF TopIrqFaults, VectorFaults, Leave, history, space, Latched
  <2> QED
    BY <1>2, <2>1, <2>2, <2>3, <2>4, Zenon DEF Top
<1>3. CASE Transfer
  <2>1. ASSUME NEW v, Transferred(v) PROVE Latched'
    BY <2>1, <1>u DEF Transferred, cpu, space, Latched
  <2>2. ASSUME NEW why, TrapOut(why), Walking, Op.at \in Dev \cup holes PROVE Latched'
    <3>1. k \in DOMAIN Prog[rip].ops /\ rip \in Insns
      BY <2>2, HereIsAnOp, Zenon DEF Latched
    <3>2. ~(Real16 /\ last.kind = "sti")
      BY <2>2, <3>1, Zenon DEF NoTrapAfterSti, NoTrapBehindSti, Latched, Op, Prog, Insns, Real16
    <3> QED
      BY <2>2, <3>2, <1>t, Zenon DEF TrapOut, Leave, history, space
  <2>3. CASE Defer
    BY <2>3, <1>u DEF Defer, Walks, Latched, cpu, space
  <2> QED
    BY <1>3, <2>1, <2>2, <2>3, Zenon
    DEF Transfer, Ram, Miss, LoadTakes, StoreAcked, PartKnown, PartLoad, PartStore, Trap
<1>4. CASE Finish
  <2>1. CASE NextInsn
    <3>1. /\ UNCHANGED <<guest, pending_irq, holes>> /\ k' \in Nat \ {0} /\ rip \in Insns
          /\ last'.kind = Prog[rip].kind /\ (Prog[rip].kind = "sti" => rip' = rip + 1)
          /\ at' = at /\ at \in {"interp", "comp"}
      BY <2>1 DEF NextInsn, Done, Completed, space
    <3> QED
      BY <3>1, <1>c, Zenon
  <2>2. CASE EndWalk
    BY <2>2, <1>c, Zenon DEF EndWalk, Done, Completed, BackToTop, space, Latched
  <2>3. CASE Iret \/ ExitInsn
    <3>1. /\ UNCHANGED <<guest, pending_irq, holes>> /\ k' = k /\ rip \in Insns
          /\ last'.kind = Prog[rip].kind /\ Prog[rip].kind # "sti"
          /\ at' \in {"out", "top"} /\ Retire(TRUE) /\ at \in Walks
      <4>1. Completed => last'.kind = Prog[rip].kind
        BY DEF Completed
      <4> QED
        BY <2>3, <4>1, Zenon DEF Iret, ExitInsn, Done, BackToTop, Leave, space
    <3> QED
      BY <3>1, <1>c, Zenon DEF Latched
  <2>4. CASE PortDefer
    BY <2>4, <1>u DEF PortDefer, Walks, Latched, cpu, space
  <2>5. CASE DivExits \/ DivVectors \/ DivFaults
    <3>1. rip \in Insns /\ Prog[rip].kind = "div"
      BY <2>5, Zenon DEF DivExits, DivVectors, DivFaults, Done
    <3>2. ~(Real16 /\ last.kind = "sti")
      BY <3>1, Zenon DEF NoTrapAfterSti, NoTrapBehindSti, Latched, Prog, Insns, Real16
    <3> QED
      BY <2>5, <3>2, <1>t, Zenon
      DEF DivExits, DivVectors, DivFaults, VectorFaults, Leave, history, space
  <2> QED
    BY <1>4, <2>1, <2>2, <2>3, <2>4, <2>5, Zenon DEF Finish
<1>5. CASE UNCHANGED vars
  BY <1>5, <1>u, Zenon DEF vars, history, cpu, space, Latched
<1> QED
  BY <1>1, <1>2, <1>3, <1>4, <1>5, Zenon DEF Next

(* An interrupt is taken at the top of run_inner's loop, with no           *)
(* completion, no port read and no shadow outstanding.                     *)
LEMMA OnlyTopIrqDelivers == [Next]_vars /\ Delivery => TopIrq \/ TopIrqFaults
<1> SUFFICES ASSUME [Next]_vars, pending_irq, ~pending_irq'
             PROVE  TopIrq \/ TopIrqFaults
  BY Zenon DEF Delivery
<1>1. CASE Embedder \/ InjectIrq
  BY <1>1, Zenon DEF Embedder, Serve, Enter, InjectIrq
<1>2. CASE Top
  BY <1>2, Zenon DEF Top, TopBudget, TopRetry, TopDispatch, Begin
<1>3. CASE Transfer
  BY <1>3, Zenon DEF Transfer, Ram, Miss, LoadTakes, StoreAcked, PartKnown, PartLoad, PartStore,
     Trap, Transferred, TrapOut, Defer
<1>4. CASE Finish
  BY <1>4, Zenon DEF Finish, NextInsn, EndWalk, Iret, BackToTop, ExitInsn, PortDefer, DivExits,
     DivVectors, DivFaults
<1>5. CASE UNCHANGED vars
  BY <1>5, Zenon DEF vars
<1> QED
  BY <1>1, <1>2, <1>3, <1>4, <1>5, Zenon DEF Next

(* "sti masks interrupt delivery for the duration of the following         *)
(* instruction" (sti_shadow), for every guest in which that instruction    *)
(* cannot stop short of its end.                                           *)
THEOREM ShadowIsHeld ==
  ASSUME NoTrapAfterSti
  PROVE  Spec => ShadowHolds
<1>1. Init => Latched
  BY DEF Init, Latched, Walks
<1>2. Latched /\ [Next]_vars => [Delivery => last.kind # "sti"]_vars
  BY OnlyTopIrqDelivers, Zenon DEF TopIrq, TopIrqFaults, Deliverable, Latched
<1> QED
  BY <1>1, <1>2, LatchedIsKept, PTL DEF Spec, ShadowHolds
-----------------------------------------------------------------------------
(* Completion by re-execution.  The transfers of the instruction at rip;   *)
(* whether a part is recorded for an address; what a transfer should get.  *)
Here == Prog[rip].ops
Known(a) == parts.val[a] # None
Nothing == \A a \in Addrs : ~Known(a)
Reads == {"load", "vload"}
Right(o) == IF o.at \in Dev /\ o.op \in Reads THEN Answer(o.at) ELSE Plain

Typed ==
  /\ guest \in Guests /\ k \in Nat \ {0} /\ at \in Walks \cup {"out", "top"}
  /\ holes \subseteq Unmapped \cup {"stack"} /\ inst \in 0 .. Wrap - 1
  /\ DOMAIN parts.val = Addrs /\ DOMAIN asked = Addrs
  /\ pending_mmio_write \in BOOLEAN /\ (exit # None => at = "out")

(* What is recorded belongs to this execution of the instruction at rip.   *)
PartsAreRight ==
  \A a \in Addrs : Known(a) =>
    /\ parts.rip = rip /\ rip \in Insns /\ a \in Dev
    /\ \E j \in DOMAIN Here : Here[j].at = a
    /\ \A j \in DOMAIN Here : Here[j].at = a =>
         parts.val[a] = Right(Here[j]) /\ Here[j].op \in {"vload", "vstore"}

(* The transfers made by this attempt.                                     *)
Passed ==
  Interpreting =>
    /\ k = 1 \/ (rip \in Insns /\ k - 1 <= Len(Here))
    /\ got \in Seq(Values) /\ Len(got) = k - 1
    /\ \A i \in 1 .. k - 1 : Here[i].at \notin holes /\ got[i] = Right(Here[i])

(* The attempt will come to transfer j, and nothing can stop it before.    *)
Awaits(j) ==
  /\ rip \in Insns /\ j \in DOMAIN Here /\ Here[j].at \in Dev /\ ~Known(Here[j].at)
  /\ \A i \in 1 .. j - 1 :
       Here[i].at \notin holes /\ (Here[i].at \in Dev => Known(Here[i].at))

MmioExit == exit # None /\ exit.why \in {"MmioRead", "MmioWrite"}

(* No answer is outstanding.  A retry has made a device transfer already.  *)
Quiet ==
  /\ ~Completion /\ ~MmioExit
  /\ \A a \in Addrs : asked[a] = IF Known(a) THEN 1 ELSE 0
  /\ Interpreting => \A i \in 1 .. k - 1 : Here[i].at \in Dev => Known(Here[i].at)
  /\ at = "retry" => \E j \in 1 .. k - 1 : Here[j].at \in Dev
  /\ at # "retry" => Nothing

(* The embedder has been asked for transfer j.                             *)
Exited(j) ==
  /\ Awaits(j) /\ at = "out" /\ ~Completion /\ exit # None
  /\ exit = [why |-> IF Here[j].op \in Reads THEN "MmioRead" ELSE "MmioWrite",
             at |-> Here[j].at]
  /\ \A a \in Addrs : asked[a] = IF Known(a) THEN 1 ELSE 0

(* Its answer waits for the retry to come to transfer j.                   *)
Answered(j) ==
  /\ Awaits(j) /\ at \in {"out", "top", "retry"} /\ ~MmioExit
  /\ \A a \in Addrs : asked[a] = IF Known(a) \/ a = Here[j].at THEN 1 ELSE 0
  /\ IF Here[j].op \in Reads
     THEN pending_mmio = Answer(Here[j].at) /\ pending_mmio # None /\ ~pending_mmio_write
     ELSE pending_mmio = None /\ pending_mmio_write
  /\ at = "retry" => k <= j

(* The retry has made transfer j, a scalar one: it is not recorded.        *)
Taken(j) ==
  /\ Awaits(j) /\ at = "retry" /\ j < k /\ ~Completion /\ ~MmioExit /\ Nothing
  /\ Here[j].op \in {"load", "store"}
  /\ \A a \in Addrs : asked[a] = IF a = Here[j].at THEN 1 ELSE 0

Phase == Quiet \/ \E j \in DOMAIN Here : Exited(j) \/ Answered(j) \/ Taken(j)

Redo == Typed /\ PartsAreRight /\ Passed /\ Phase

(* What the guest's instructions are assumed to be, of the one at rip.     *)
LEMMA Discipline ==
  ASSUME AllRestartable, guest \in Guests, rip \in Insns
  PROVE  /\ Len(Here) \in Nat /\ DOMAIN Here = 1 .. Len(Here)
         /\ \A j \in DOMAIN Here :
              /\ Here[j].at \in Addrs /\ Here[j].at \in GuestAddrs /\ Here[j].op \in Ops
              /\ Here[j].at \in Dev =>
                   /\ Prog[rip].kind \notin {"hlt", "in", "out", "div"}
                   /\ Here[j].op # "rmw"
                   /\ Here[j].op \in {"load", "store"} =>
                        \A i \in DOMAIN Here : Here[i].at \in Dev => i = j
                   /\ Here[j].op \in Reads => \A i \in 1 .. j - 1 : Here[i].op # "load"
                   /\ \A i \in DOMAIN Here : i > j =>
                        Here[i].at \notin Unmapped \cup {"stack"}
                   /\ \A i \in DOMAIN Here : Here[i].at = Here[j].at =>
                        Here[i].op = Here[j].op
<1>1. /\ Len(Here) \in Nat /\ DOMAIN Here = 1 .. Len(Here)
      /\ \A j \in DOMAIN Here : Here[j].op \in Ops
  BY GuestsAssumption, Zenon DEF Guest, Here, Prog, Insns
<1>2. ASSUME NEW j \in DOMAIN Here PROVE Here[j].at \in Addrs /\ Here[j].at \in GuestAddrs
  <2> DEFINE Of(i) == {Prog[i].ops[n].at : n \in DOMAIN Prog[i].ops}
             All(g) == UNION {{g.prog[i].ops[n].at : n \in DOMAIN g.prog[i].ops} :
                              i \in DOMAIN g.prog}
  <2>1. Here[j].at \in Of(rip)
    BY <1>2, Zenon DEF Here
  <2>2. Here[j].at \in UNION {Of(i) : i \in Insns}
    <3> HIDE DEF Of
    <3> QED  BY <2>1, Zenon
  <2>3. Here[j].at \in Addrs
    BY <2>2, Zenon DEF Addrs
  <2>4. Here[j].at \in All(guest)
    BY <2>3, Zenon DEF Addrs, Insns, Prog
  <2>5. Here[j].at \in UNION {All(g) : g \in Guests}
    <3> HIDE DEF All
    <3> QED  BY <2>4, Zenon
  <2> QED
    BY <2>3, <2>5, Zenon DEF GuestAddrs
<1>3. Restartable(Prog[rip])
  BY Zenon DEF AllRestartable, RestartableGuest, Prog, Insns
<1>4. ASSUME NEW j \in DOMAIN Here, Here[j].at \in Dev
      PROVE  /\ Prog[rip].kind \notin {"hlt", "in", "out", "div"}
             /\ Here[j].op # "rmw"
             /\ Here[j].op \in {"load", "store"} =>
                  \A i \in DOMAIN Here : Here[i].at \in Dev => i = j
             /\ Here[j].op \in Reads => \A i \in 1 .. j - 1 : Here[i].op # "load"
             /\ \A i \in DOMAIN Here : i > j =>
                  Here[i].at \notin Unmapped \cup {"stack"}
             /\ \A i \in DOMAIN Here : Here[i].at = Here[j].at =>
                  Here[i].op = Here[j].op
  BY <1>3, <1>4 DEF Restartable, Here, Reads
<1> QED
  BY <1>1, <1>2, <1>4, Zenon

(* The instruction at rip is the same.                                     *)
LEMMA SameGuest ==
  ASSUME guest' = guest
  PROVE  Prog' = Prog /\ Insns' = Insns /\ Addrs' = Addrs
  BY DEF Prog, Insns, Addrs

LEMMA SameHere ==
  ASSUME guest' = guest, rip' = rip
  PROVE  Here' = Here
  BY Zenon DEF Prog, Here

(* The values.                                                             *)
LEMMA ValuesAreSome ==
  ASSUME Typed
  PROVE  /\ Plain \in Values /\ Plain # None
         /\ \A a \in GuestAddrs : Answer(a) \in Values /\ Answer(a) # None
  BY NoneAssumption, BoundsAssumption DEF Typed, Plain, Answer, Values

(* What is recorded, and what is awaited, stays.                           *)
LEMMA Stays ==
  ASSUME guest' = guest, rip' = rip, parts' = parts, inst' = inst, holes' \subseteq holes
  PROVE  /\ \A a : Known(a)' <=> Known(a)
         /\ PartsAreRight => PartsAreRight'
         /\ \A j : Awaits(j) => Awaits(j)'
         /\ Nothing => Nothing'
         /\ \A o : Right(o)' = Right(o)
<1>1. Insns' = Insns /\ Addrs' = Addrs /\ Here' = Here
  BY SameGuest, SameHere, Zenon
<1>2. \A a : Known(a)' <=> Known(a)
  BY Zenon DEF Known
<1>3. \A o : Right(o)' = Right(o)
  BY Zenon DEF Right, Answer, Plain
<1>4. PartsAreRight => PartsAreRight'
  BY <1>1, <1>2, <1>3 DEF PartsAreRight
<1>5. \A j : Awaits(j) => Awaits(j)'
  BY <1>1, <1>2, Zenon DEF Awaits
<1>6. Nothing => Nothing'
  BY <1>1, <1>2, Zenon DEF Nothing
<1> QED
  BY <1>2, <1>3, <1>4, <1>5, <1>6, Zenon

(* Nothing recorded, nothing asked, nothing outstanding, at a beginning.   *)
LEMMA FreshStart ==
  ASSUME Typed', Nothing', ~Completion', ~MmioExit', at' # "retry",
         \A a \in Addrs' : asked'[a] = 0,
         Interpreting' => k' = 1 /\ got' = << >>
  PROVE  Redo'
<1>1. PartsAreRight'
  BY Zenon DEF PartsAreRight, Nothing
<1>2. Passed'
  BY EmptySeq DEF Passed
<1>3. Quiet'
  BY DEF Quiet, Nothing
<1> QED
  BY <1>1, <1>2, <1>3, Zenon DEF Redo, Phase

(* Outside a retry, a vcpu that is inside run() and has no answer is quiet. *)
LEMMA InsideIsQuiet ==
  ASSUME Redo, at \notin {"out", "retry"}, at = "top" => ~Completion
  PROVE  /\ Nothing /\ ~Completion /\ ~MmioExit
         /\ \A a \in Addrs : asked[a] = 0
<1>1. Quiet
  BY Zenon DEF Redo, Phase, Exited, Answered, Taken, Completion
<1> QED
  BY <1>1, Zenon DEF Quiet, Nothing

(* Interrupts, dispatches, deferrals: nothing of an access is left.        *)
LEMMA RedoAtStarts ==
  ASSUME Redo,
         \/ TopIrq \/ TopIrqFaults \/ (\E how \in {"interp", "comp"} : TopDispatch(how))
         \/ Defer \/ PortDefer \/ DivVectors \/ DivFaults
  PROVE  Redo'
<1>1. at \notin {"out", "retry"} /\ (at = "top" => ~Completion)
  BY Zenon DEF TopIrq, TopIrqFaults, TopDispatch, Defer, PortDefer, DivVectors, DivFaults
<1>2. /\ Nothing /\ ~Completion /\ ~MmioExit
      /\ \A a \in Addrs : asked[a] = 0
  BY <1>1, InsideIsQuiet, Zenon
<1>3. UNCHANGED <<guest, holes, parts, asked, inst, pending_mmio, pending_mmio_write>>
  BY Zenon
  DEF TopIrq, TopIrqFaults, TopDispatch, Begin, Defer, PortDefer, DivVectors, DivFaults,
     space, history, completion
<1>4. /\ k' \in Nat \ {0} /\ at' \in Walks \cup {"out", "top"} /\ at' # "retry"
      /\ Interpreting' => k' = 1 /\ got' = << >>
  <2>1. CASE TopIrq \/ TopIrqFaults \/ DivVectors \/ DivFaults
    <3>1. k' = k /\ at' \in {"out", "top"}
      BY <2>1, Zenon DEF TopIrq, TopIrqFaults, VectorFaults, DivVectors, DivFaults, Leave
    <3> QED
      BY <3>1, Zenon DEF Interpreting, Redo, Typed
  <2>2. CASE (\E how \in {"interp", "comp"} : TopDispatch(how)) \/ Defer \/ PortDefer
    <3>1. k' = 1 /\ got' = << >> /\ at' \in {"interp", "comp", "defer"}
      BY <2>2, Zenon DEF TopDispatch, Begin, Defer, PortDefer
    <3> QED
      BY <3>1 DEF Walks
  <2> QED
    BY <2>1, <2>2, Zenon
<1>5. \/ exit' = exit /\ at # "out"
      \/ exit' = [why |-> "UnmappedMemory", at |-> "stack"] /\ at' = "out"
  BY <1>1, Zenon DEF TopIrq, TopIrqFaults, VectorFaults, TopDispatch, Begin, Defer, PortDefer,
     DivVectors, DivFaults, Leave
<1>6. Addrs' = Addrs
  BY <1>3, SameGuest, Zenon
<1>7. Typed'
  BY <1>3, <1>4, <1>5, <1>6, Zenon DEF Redo, Typed
<1>8. Nothing' /\ \A a \in Addrs' : asked'[a] = 0
  BY <1>2, <1>3, <1>6, Zenon DEF Nothing, Known
<1>9. ~Completion' /\ ~MmioExit'
  BY <1>2, <1>3, <1>5 DEF Completion, MmioExit
<1> QED
  BY <1>4, <1>7, <1>8, <1>9, FreshStart, Zenon

(* A retry whose transfers are all made has no answer outstanding, and its *)
(* instruction has a device transfer.                                      *)
LEMMA RetryIsOver ==
  ASSUME AllRestartable, Redo, rip \in Insns, k > Len(Here), at \in Walks
  PROVE  /\ ~Completion /\ ~MmioExit
         /\ at = "retry" => Prog[rip].kind \notin {"hlt", "in", "out", "div"}
         /\ at # "retry" => Nothing /\ \A a \in Addrs : asked[a] = 0
<1>1. Len(Here) \in Nat /\ DOMAIN Here = 1 .. Len(Here) /\ k \in Nat \ {0}
  BY Discipline, Zenon DEF Redo, Typed
<1>2. CASE at # "retry"
  BY <1>2, InsideIsQuiet, Zenon DEF Walks
<1>3. CASE at = "retry"
  <2>1. ~\E j \in DOMAIN Here : Answered(j) \/ Exited(j)
    BY <1>1, <1>3 DEF Answered, Exited
  <2>2. ASSUME NEW j \in DOMAIN Here, Here[j].at \in Dev
        PROVE  Prog[rip].kind \notin {"hlt", "in", "out", "div"}
    BY <2>2, Discipline, Zenon DEF Redo, Typed
  <2>3. CASE Quiet
    <3>1. PICK j \in 1 .. k - 1 : Here[j].at \in Dev
      BY <1>3, <2>3, Zenon DEF Quiet
    <3>2. j \in DOMAIN Here
      BY <1>1, <1>3, <3>1 DEF Redo, Passed, Interpreting
    <3> QED
      BY <1>3, <2>2, <2>3, <3>1, <3>2, Zenon DEF Quiet
  <2>4. ASSUME NEW j \in DOMAIN Here, Taken(j)
        PROVE  /\ ~Completion /\ ~MmioExit
               /\ Prog[rip].kind \notin {"hlt", "in", "out", "div"}
    BY <2>2, <2>4, Zenon DEF Taken, Awaits
  <2> QED
    BY <1>3, <2>1, <2>3, <2>4, Zenon DEF Redo, Phase
<1> QED
  BY <1>2, <1>3, Zenon

(* The instruction is completed, or raises an exception: likewise.         *)
LEMMA RedoAtEnds ==
  ASSUME AllRestartable, Redo, NextInsn \/ EndWalk \/ Iret \/ ExitInsn \/ DivExits
  PROVE  Redo'
<1>1. /\ rip \in Insns /\ k > Len(Here) /\ at \in Walks
      /\ ExitInsn \/ DivExits => Prog[rip].kind \in {"hlt", "in", "out", "div"}
      /\ NextInsn => at # "retry"
  BY Zenon DEF NextInsn, EndWalk, Iret, ExitInsn, DivExits, Done, Here
<1>2. /\ ~Completion /\ ~MmioExit
      /\ at = "retry" => EndWalk \/ Iret
      /\ at # "retry" => Nothing /\ \A a \in Addrs : asked[a] = 0
  BY <1>1, RetryIsOver, Zenon
<1>3. UNCHANGED <<guest, holes, pending_mmio, pending_mmio_write>>
  BY Zenon DEF NextInsn, EndWalk, Iret, ExitInsn, BackToTop, DivExits, space, completion
<1>4. Addrs' = Addrs
  BY <1>3, SameGuest, Zenon
<1>5. parts' = NoParts \/ (parts' = parts /\ at # "retry")
  BY <1>2, Zenon DEF NextInsn, EndWalk, Iret, ExitInsn, BackToTop, DivExits, completion
<1>6. Nothing' /\ DOMAIN parts'.val = Addrs'
  BY <1>2, <1>4, <1>5 DEF Nothing, Known, NoParts, Redo, Typed
<1>7. asked' = [a \in Addrs |-> 0] \/ (asked' = asked /\ at # "retry")
  BY <1>2, Zenon DEF NextInsn, EndWalk, Iret, ExitInsn, DivExits, Completed, history
<1>8. DOMAIN asked' = Addrs' /\ \A a \in Addrs' : asked'[a] = 0
  BY <1>2, <1>4, <1>7, Zenon DEF Redo, Typed
<1>9. inst' \in 0 .. Wrap - 1
  <2>1. inst' = (inst + 1) % Wrap \/ inst' = inst
    BY Zenon DEF NextInsn, EndWalk, Iret, ExitInsn, DivExits, Completed, history
  <2>2. inst \in 0 .. Wrap - 1 /\ inst + 1 \in Int /\ Wrap \in Nat \ {0}
    BY BoundsAssumption DEF Redo, Typed
  <2> QED
    BY <2>1, <2>2
<1>10. /\ at' \in Walks \cup {"out", "top"} /\ at' # "retry" /\ k' \in Nat \ {0}
       /\ Interpreting' => k' = 1 /\ got' = << >>
  <2>1. CASE NextInsn
    BY <2>1 DEF NextInsn, Walks
  <2>2. CASE EndWalk \/ Iret \/ ExitInsn \/ DivExits
    <3>1. k' = k /\ at' \in {"out", "top"}
      BY <2>2, Zenon DEF EndWalk, Iret, ExitInsn, DivExits, BackToTop, Leave
    <3> QED
      BY <3>1, Zenon DEF Interpreting, Redo, Typed
  <2> QED
    BY <2>1, <2>2, Zenon
<1>11. \/ exit' = exit /\ at # "out"
       \/ at' = "out" /\ exit'.why \notin {"MmioRead", "MmioWrite"}
  <2>1. CASE NextInsn \/ EndWalk \/ Iret
    BY <1>1, <2>1, Zenon DEF NextInsn, EndWalk, Iret, BackToTop, Walks
  <2>2. CASE DivExits
    BY <2>2, Zenon DEF DivExits, Leave
  <2>3. CASE ExitInsn
    <3>1. Prog[rip].kind \in {"hlt", "in", "out"}
      BY <2>3, Zenon DEF ExitInsn, Done
    <3>2. at' = "out"
          /\ exit'.why = [hlt |-> "Hlt", in |-> "In", out |-> "Out"][Prog[rip].kind]
      BY <2>3, Zenon DEF ExitInsn, Leave
    <3> QED
      BY <3>1, <3>2
  <2> QED
    BY <2>1, <2>2, <2>3, Zenon
<1>12. Typed'
  BY <1>3, <1>6, <1>8, <1>9, <1>10, <1>11, Zenon DEF Redo, Typed
<1>13. ~Completion' /\ ~MmioExit'
  BY <1>2, <1>3, <1>11, Zenon DEF Completion, MmioExit
<1> QED
  BY <1>6, <1>8, <1>10, <1>12, <1>13, FreshStart, Zenon

(* The vcpu enters or leaves run() without running anything.               *)
LEMMA Carried ==
  ASSUME Redo, Typed', at \in {"out", "top"}, at' \in {"out", "top"},
         UNCHANGED <<guest, rip, parts, inst, asked, pending_mmio, pending_mmio_write>>,
         holes' \subseteq holes,
         (exit' = exit /\ at' = at) \/ (~MmioExit /\ ~MmioExit')
  PROVE  Redo'
<1>1. /\ Addrs' = Addrs /\ Here' = Here /\ PartsAreRight'
      /\ \A a : Known(a)' <=> Known(a)
      /\ \A j : Awaits(j) => Awaits(j)'
      /\ Nothing => Nothing'
  BY SameGuest, SameHere, Stays, Zenon DEF Redo
<1>2. Passed' /\ Completion' = Completion /\ ~Interpreting' /\ MmioExit' = MmioExit
  BY Zenon DEF Passed, Interpreting, Completion, MmioExit
<1>3. Quiet => Quiet'
  BY <1>1, <1>2, Zenon DEF Quiet
<1>4. ASSUME NEW j \in DOMAIN Here, Exited(j) PROVE Exited(j)'
  BY <1>1, <1>2, <1>4, Zenon DEF Exited, MmioExit
<1>5. ASSUME NEW j \in DOMAIN Here, Answered(j) PROVE Answered(j)'
  BY <1>1, <1>2, <1>5, Zenon DEF Answered, Answer
<1>6. ASSUME NEW j \in DOMAIN Here, Taken(j) PROVE FALSE
  BY <1>6, Zenon DEF Taken
<1> QED
  BY <1>1, <1>2, <1>3, <1>4, <1>5, <1>6, Zenon DEF Redo, Phase

LEMMA RedoOutside ==
  ASSUME AllRestartable, Redo, Serve \/ Enter \/ InjectIrq \/ TopBudget
  PROVE  Redo'
<1>1. CASE Enter \/ InjectIrq \/ TopBudget
  <2>1. UNCHANGED <<guest, rip, parts, inst, asked, pending_mmio, pending_mmio_write, holes, k>>
    BY <1>1, Zenon DEF Enter, InjectIrq, TopBudget, cpu, completion, space, history
  <2>2. /\ at \in {"out", "top"} /\ at' \in {"out", "top"}
        /\ exit' # None => at' = "out"
        /\ (exit' = exit /\ at' = at) \/ (~MmioExit /\ ~MmioExit')
    BY <1>1 DEF Enter, InjectIrq, TopBudget, Leave, MmioExit, Redo, Typed
  <2>3. Typed'
    BY <2>1, <2>2, SameGuest, Zenon DEF Redo, Typed
  <2> QED
    BY <2>1, <2>2, <2>3, Carried, Zenon
<1>2. CASE Serve
  <2>1. /\ UNCHANGED <<guest, rip, parts, inst, k>> /\ at = "out" /\ at' = "out"
        /\ exit # None /\ exit' = None /\ holes' \subseteq holes
        /\ DOMAIN asked' = DOMAIN asked /\ pending_mmio_write' \in BOOLEAN
    BY <1>2, Zenon DEF Serve, cpu
  <2>2. Typed'
    BY <2>1, SameGuest, Zenon DEF Redo, Typed
  <2>3. CASE ~MmioExit
    <3>1. UNCHANGED <<asked, pending_mmio, pending_mmio_write>>
      BY <1>2, <2>1, <2>3, Zenon DEF Serve, MmioExit, Redo, Typed
    <3> QED
      BY <2>1, <2>2, <2>3, <3>1, Carried, Zenon DEF MmioExit
  <2>4. CASE MmioExit
    <3>1. PICK j \in DOMAIN Here : Exited(j)
      BY <2>1, <2>4, Zenon DEF Redo, Phase, Quiet, Answered, Taken
    <3>2. /\ Addrs' = Addrs /\ Here' = Here /\ PartsAreRight'
          /\ \A a : Known(a)' <=> Known(a)
          /\ Awaits(j)'
      BY <2>1, <3>1, SameGuest, SameHere, Stays, Zenon DEF Redo, Exited
    <3>3. /\ Here[j].at \in Addrs /\ Here[j].at \in GuestAddrs /\ ~Known(Here[j].at)
          /\ exit.at = Here[j].at
          /\ exit.why = IF Here[j].op \in Reads THEN "MmioRead" ELSE "MmioWrite"
      BY <3>1, Discipline, Zenon DEF Exited, Awaits, Redo, Typed
    <3>4. \A a \in Addrs' : asked'[a] = IF Known(a)' \/ a = Here'[j].at THEN 1 ELSE 0
      <4>1. asked' = [asked EXCEPT ![Here[j].at] = IF @ = 2 THEN 2 ELSE @ + 1]
        BY <1>2, <2>4, <3>3, Zenon DEF Serve, MmioExit
      <4>2. asked[Here[j].at] = 0 /\ DOMAIN asked = Addrs
        BY <3>1, <3>3, Zenon DEF Exited, Redo, Typed
      <4> QED
        BY <3>1, <3>2, <3>3, <4>1, <4>2 DEF Exited
    <3>5. Answer(Here[j].at)' = Answer(Here[j].at) /\ Answer(Here[j].at) # None
      BY <2>1, <3>2, <3>3, ValuesAreSome, Zenon DEF Answer, Redo
    <3>6. IF Here[j].op \in Reads
          THEN pending_mmio' = Answer(Here[j].at) /\ ~pending_mmio_write'
          ELSE pending_mmio' = None /\ pending_mmio_write'
      BY <1>2, <3>1, <3>3, Zenon DEF Serve, Exited, Completion
    <3>7. Answered(j)'
      BY <2>1, <3>2, <3>4, <3>5, <3>6, Zenon DEF Answered, MmioExit
    <3>8. Passed' /\ j \in DOMAIN Here'
      BY <2>1, <3>2, Zenon DEF Passed, Interpreting
    <3> QED
      BY <2>2, <3>2, <3>7, <3>8, Zenon DEF Redo, Phase
  <2> QED
    BY <2>3, <2>4, Zenon
<1> QED
  BY <1>1, <1>2, Zenon

LEMMA RedoAtRetry ==
  ASSUME AllRestartable, Redo, TopRetry
  PROVE  Redo'
<1>1. /\ UNCHANGED <<guest, rip, parts, inst, asked, pending_mmio, pending_mmio_write, holes,
                     exit>>
      /\ at = "top" /\ at' = "retry" /\ k' = 1 /\ got' = << >> /\ Completion
  BY Zenon DEF TopRetry, Begin, cpu, completion, space, history
<1>2. Typed'
  BY <1>1, SameGuest DEF Redo, Typed, Walks
<1>3. PICK j \in DOMAIN Here : Answered(j)
  BY <1>1, Zenon DEF Redo, Phase, Quiet, Exited, Taken
<1>4. /\ Addrs' = Addrs /\ Here' = Here /\ PartsAreRight'
      /\ \A a : Known(a)' <=> Known(a)
      /\ Awaits(j)'
  BY <1>1, <1>3, SameGuest, SameHere, Stays, Zenon DEF Redo, Answered
<1>5. j \in Nat \ {0}
  BY <1>3, Discipline DEF Answered, Awaits, Redo, Typed
<1>6. Answered(j)'
  BY <1>1, <1>3, <1>4, <1>5 DEF Answered, Answer, MmioExit
<1>7. Passed'
  BY <1>1, EmptySeq DEF Passed
<1> QED
  BY <1>2, <1>4, <1>6, <1>7, Zenon DEF Redo, Phase

(* A retry has made a device transfer, or will before anything can fail.   *)
LEMMA RedoAtTraps ==
  ASSUME AllRestartable, Redo, Miss \/ Trap
  PROVE  Redo'
<1>1. /\ Walking /\ UNCHANGED <<guest, rip, parts, inst, asked, pending_mmio,
                               pending_mmio_write, holes, k>>
      /\ at' = "out"
  BY Zenon DEF Miss, Trap, TrapOut, Leave, cpu, completion, space, history
<1>2. /\ rip \in Insns /\ k \in DOMAIN Here /\ at \in Walks /\ k \in Nat \ {0}
      /\ Op = Here[k] /\ Len(Here) \in Nat /\ DOMAIN Here = 1 .. Len(Here)
      /\ Here[k].at \in Addrs /\ Here[k].at \in GuestAddrs /\ Here[k].op \in Ops
  BY <1>1, HereIsAnOp, Discipline, Zenon DEF Redo, Typed, Here, Op
<1>3. Typed'
  BY <1>1, SameGuest, Zenon DEF Redo, Typed
<1>4. /\ Addrs' = Addrs /\ Here' = Here /\ PartsAreRight' /\ Completion' = Completion
      /\ \A a : Known(a)' <=> Known(a)
      /\ \A j : Awaits(j) => Awaits(j)'
      /\ Nothing => Nothing'
  BY <1>1, SameGuest, SameHere, Stays, Zenon DEF Redo, Completion
<1>5. ~Interpreting' /\ Passed'
  BY <1>1, Zenon DEF Passed, Interpreting
<1>6. CASE Miss
  <2>1. /\ Here[k].at \in holes /\ Here[k].at \notin Dev
        /\ exit' = [why |-> "UnmappedMemory", at |-> Here[k].at]
    BY <1>2, <1>6, RegionsAssumption, Zenon DEF Miss, TrapOut, Leave, Redo, Typed
  <2>2. at # "retry"
    <3>1. SUFFICES ASSUME at = "retry" PROVE FALSE
      BY Zenon
    <3>2. ASSUME NEW j \in DOMAIN Here, j < k, Here[j].at \in Dev PROVE FALSE
      BY <1>2, <2>1, <3>2, Discipline, Zenon DEF Redo, Typed
    <3>3. ASSUME Quiet PROVE FALSE
      <4>1. PICK j \in 1 .. k - 1 : Here[j].at \in Dev
        BY <3>1, <3>3, Zenon DEF Quiet
      <4> QED
        BY <1>2, <3>2, <4>1
    <3>4. ASSUME NEW j \in DOMAIN Here, Taken(j) PROVE FALSE
      BY <3>2, <3>4, Zenon DEF Taken, Awaits
    <3>5. ASSUME NEW j \in DOMAIN Here, Answered(j) PROVE FALSE
      <4>1. k <= j /\ Here[j].at \in Dev /\ \A i \in 1 .. j - 1 : Here[i].at \notin holes
        BY <3>1, <3>5, Zenon DEF Answered, Awaits
      <4> QED
        BY <1>2, <2>1, <4>1
    <3> QED
      BY <3>1, <3>3, <3>4, <3>5, Zenon DEF Redo, Phase, Exited
  <2>3. /\ Nothing /\ ~Completion /\ \A a \in Addrs : asked[a] = 0
    BY <1>2, <2>2, InsideIsQuiet, Zenon DEF Walks
  <2> QED
    BY <1>1, <1>3, <1>4, <1>5, <2>1, <2>3, FreshStart, Zenon DEF MmioExit
<1>7. CASE Trap
  <2>1. /\ Interpreting /\ Here[k].at \in Dev /\ Here[k].op # "rmw"
        /\ exit' = [why |-> IF Here[k].op \in Reads THEN "MmioRead" ELSE "MmioWrite",
                    at |-> Here[k].at]
        /\ Here[k].op \in Reads => pending_mmio = None
        /\ Here[k].op \notin Reads => ~pending_mmio_write
        /\ Here[k].op \in {"vload", "vstore"} => Part(Here[k].at) = None
    BY <1>2, <1>7, Discipline, Zenon DEF Trap, TrapOut, Leave, Reads, Ops, Redo, Typed
  <2>2. ~Known(Here[k].at)
    BY <1>2, <2>1, Zenon DEF Known, Part, PartsAreRight, Redo
  <2>3. ASSUME NEW j \in DOMAIN Here, Answered(j) PROVE FALSE
    <3>1. k <= j /\ \A i \in 1 .. j - 1 : Here[i].at \in Dev => Known(Here[i].at)
      BY <2>1, <2>3, Zenon DEF Answered, Awaits, Interpreting
    <3>2. k = j
      BY <1>2, <2>1, <2>2, <3>1
    <3> QED
      BY <2>1, <2>3, <3>2, Zenon DEF Answered
  <2>4. ASSUME NEW j \in DOMAIN Here, Taken(j) PROVE FALSE
    BY <1>2, <2>1, <2>4, Discipline DEF Taken, Awaits, Redo, Typed
  <2>5. Quiet
    BY <1>2, <2>1, <2>3, <2>4, Zenon DEF Redo, Phase, Exited, Interpreting
  <2>6. Awaits(k)
    BY <1>2, <2>1, <2>2, <2>5, Zenon DEF Awaits, Quiet, Redo, Passed
  <2>7. exit' # None
    BY <1>2, <2>1, NoneAssumption DEF Exits
  <2>8. Exited(k)'
    BY <1>1, <1>2, <1>4, <2>1, <2>5, <2>6, <2>7, Zenon DEF Exited, Quiet
  <2> QED
    BY <1>1, <1>2, <1>3, <1>4, <1>5, <2>8, Zenon DEF Redo, Phase
<1> QED
  BY <1>6, <1>7, Zenon

(* The interpreter makes a transfer, and it gets what it should.           *)
LEMMA Advances ==
  ASSUME AllRestartable, Redo, Walking, Interpreting, Transferred(Right(Here[k])),
         Here[k].at \notin holes, DOMAIN parts'.val = Addrs, pending_mmio_write' \in BOOLEAN
  PROVE  /\ Typed' /\ Passed' /\ Addrs' = Addrs /\ Here' = Here /\ Insns' = Insns
         /\ MmioExit' = MmioExit
         /\ \A o : Right(o)' = Right(o)
<1>1. /\ UNCHANGED <<guest, rip, inst, asked, holes, at, exit>>
      /\ k' = k + 1 /\ got' = Append(got, Right(Here[k]))
  BY Zenon DEF Transferred, cpu, space
<1>2. /\ rip \in Insns /\ k \in DOMAIN Here /\ k \in Nat \ {0}
      /\ Len(Here) \in Nat /\ DOMAIN Here = 1 .. Len(Here) /\ Here[k].at \in GuestAddrs
  BY HereIsAnOp, Discipline, Zenon DEF Redo, Typed, Here
<1>3. Addrs' = Addrs /\ Here' = Here /\ Insns' = Insns /\ \A o : Right(o)' = Right(o)
  BY <1>1, SameGuest, SameHere, Zenon DEF Right, Answer, Plain
<1>4. Typed'
  BY <1>1, <1>2, <1>3 DEF Redo, Typed
<1>5. got \in Seq(Values) /\ Len(got) = k - 1 /\ Right(Here[k]) \in Values
  BY <1>2, ValuesAreSome, Zenon DEF Redo, Passed, Right
<1>6. /\ got' \in Seq(Values) /\ Len(got') = k
      /\ \A i \in 1 .. k : got'[i] = IF i = k THEN Right(Here[k]) ELSE got[i]
  BY <1>1, <1>2, <1>5
<1>7. \A i \in 1 .. k' - 1 : Here[i].at \notin holes /\ got'[i] = Right(Here[i])
  BY <1>1, <1>2, <1>6 DEF Redo, Passed
<1>8. Passed'
  BY <1>1, <1>2, <1>3, <1>6, <1>7 DEF Passed
<1> QED
  BY <1>1, <1>3, <1>4, <1>8, Zenon DEF MmioExit

(* Memory, or a part recorded before: any phase goes on as it is.          *)
LEMMA RedoAtPlain ==
  ASSUME AllRestartable, Redo, Ram \/ PartKnown
  PROVE  Redo'
<1>1. /\ Walking
      /\ UNCHANGED <<guest, rip, parts, inst, asked, pending_mmio, pending_mmio_write, holes,
                     at, exit>>
      /\ k' = k + 1
  BY Zenon DEF Ram, PartKnown, Transferred, cpu, space
<1>2. /\ rip \in Insns /\ k \in DOMAIN Here /\ at \in Walks /\ k \in Nat \ {0}
      /\ Op = Here[k] /\ Len(Here) \in Nat /\ DOMAIN Here = 1 .. Len(Here)
      /\ Here[k].at \in Addrs
  BY <1>1, HereIsAnOp, Discipline, Zenon DEF Redo, Typed, Here, Op
<1>3. /\ Addrs' = Addrs /\ Here' = Here /\ PartsAreRight' /\ Completion' = Completion
      /\ MmioExit' = MmioExit /\ Interpreting' = Interpreting
      /\ \A a : Known(a)' <=> Known(a)
      /\ \A j : Awaits(j) => Awaits(j)'
      /\ Nothing => Nothing'
  BY <1>1, SameGuest, SameHere, Stays, Zenon DEF Redo, Completion, MmioExit, Interpreting
<1>4. CASE ~Interpreting
  <2>1. /\ Nothing /\ ~Completion /\ ~MmioExit /\ \A a \in Addrs : asked[a] = 0
        /\ at # "retry"
    BY <1>2, <1>4, InsideIsQuiet, Zenon DEF Walks, Interpreting
  <2>2. Typed'
    BY <1>1, <1>2, <1>3 DEF Redo, Typed
  <2> QED
    BY <1>1, <1>3, <1>4, <2>1, <2>2, FreshStart, Zenon
<1>5. CASE Interpreting
  <2>1. /\ Transferred(Right(Here[k])) /\ Here[k].at \notin holes
        /\ Here[k].at \in Dev => Known(Here[k].at)
    <3>1. CASE Ram
      BY <1>2, <3>1, Zenon DEF Ram, Right
    <3>2. CASE PartKnown
      <4>1. Part(Here[k].at) # None /\ Transferred(Part(Here[k].at))
        BY <1>2, <3>2, Zenon DEF PartKnown
      <4>2. Known(Here[k].at) /\ Part(Here[k].at) = parts.val[Here[k].at]
        BY <4>1, Zenon DEF Known, Part
      <4>3. Here[k].at \in Dev /\ parts.val[Here[k].at] = Right(Here[k])
        BY <1>2, <4>2 DEF PartsAreRight, Redo
      <4> QED
        BY <4>1, <4>2, <4>3, RegionsAssumption, Zenon DEF Redo, Typed
    <3> QED
      BY <3>1, <3>2, Zenon
  <2>2. Typed' /\ Passed'
    BY <1>1, <1>5, <2>1, Advances, Zenon DEF Redo, Typed
  <2>3. ASSUME Quiet PROVE Quiet'
    <3>1. \A i \in 1 .. k' - 1 : Here[i].at \in Dev => Known(Here[i].at)
      BY <1>1, <1>2, <1>5, <2>1, <2>3 DEF Quiet
    <3>2. at = "retry" => \E j \in 1 .. k' - 1 : Here[j].at \in Dev
      <4>1. SUFFICES ASSUME at = "retry" PROVE \E j \in 1 .. k' - 1 : Here[j].at \in Dev
        BY Zenon
      <4>2. PICK j \in 1 .. k - 1 : Here[j].at \in Dev
        BY <2>3, <4>1, Zenon DEF Quiet
      <4> QED
        BY <1>1, <1>2, <4>2
    <3> QED
      BY <1>1, <1>3, <2>3, <3>1, <3>2, Zenon DEF Quiet
  <2>4. ASSUME NEW j \in DOMAIN Here, Answered(j) PROVE Answered(j)'
    <3>1. at = "retry" /\ k <= j /\ k # j
      BY <1>2, <1>5, <2>1, <2>4, Zenon DEF Answered, Awaits, Interpreting
    <3>2. k' <= j
      BY <1>1, <1>2, <3>1
    <3> QED
      BY <1>1, <1>3, <2>4, <3>2, Zenon DEF Answered, Answer
  <2>5. ASSUME NEW j \in DOMAIN Here, Taken(j) PROVE Taken(j)'
    <3>1. j < k'
      BY <1>1, <1>2, <2>5 DEF Taken
    <3> QED
      BY <1>1, <1>3, <2>5, <3>1, Zenon DEF Taken
  <2>6. ASSUME NEW j \in DOMAIN Here, Exited(j) PROVE FALSE
    BY <1>5, <2>6, Zenon DEF Exited, Interpreting
  <2> QED
    BY <1>3, <2>2, <2>3, <2>4, <2>5, <2>6, Zenon DEF Redo, Phase
<1> QED
  BY <1>4, <1>5, Zenon

(* The answer is taken by the transfer it was given for.                   *)
LEMMA TakenByItsTransfer ==
  ASSUME AllRestartable, Redo, LoadTakes \/ StoreAcked \/ PartLoad \/ PartStore
  PROVE  /\ Answered(k) /\ at = "retry" /\ Interpreting /\ Walking
         /\ k \in DOMAIN Here /\ Op = Here[k] /\ ~Completion'
         /\ Transferred(Right(Here[k])) /\ Here[k].at \notin holes
         /\ Right(Here[k]) # None /\ pending_mmio_write' \in BOOLEAN
         /\ pending_mmio # None => pending_mmio = Right(Here[k])
<1>1. /\ Walking /\ Interpreting /\ Completion
  BY Zenon DEF LoadTakes, StoreAcked, PartLoad, PartStore, Completion
<1>2. /\ rip \in Insns /\ k \in DOMAIN Here /\ at \in Walks /\ k \in Nat \ {0}
      /\ Op = Here[k] /\ Len(Here) \in Nat /\ DOMAIN Here = 1 .. Len(Here)
      /\ Here[k].at \in GuestAddrs
  BY <1>1, HereIsAnOp, Discipline, Zenon DEF Redo, Typed, Here, Op
<1>3. PICK j \in DOMAIN Here : Answered(j)
  BY <1>1, Zenon DEF Redo, Phase, Quiet, Exited, Taken, Interpreting
<1>4. /\ at = "retry" /\ k <= j /\ Here[j].at \in Dev /\ ~Known(Here[j].at)
      /\ \A i \in 1 .. j - 1 : Here[i].at \in Dev => Known(Here[i].at)
  BY <1>1, <1>3, Zenon DEF Answered, Awaits, Interpreting
<1>5. k = j
  <2>1. SUFFICES ASSUME k < j PROVE FALSE
    BY <1>2, <1>4
  <2>2. CASE LoadTakes
    <3>1. Here[j].op \in Reads /\ Here[k].op = "load"
      BY <1>2, <1>3, <2>2, Zenon DEF LoadTakes, Answered
    <3> QED
      BY <1>2, <1>4, <2>1, <3>1, Discipline DEF Redo, Typed
  <2>3. CASE StoreAcked
    <3>1. Here[k].op = "store" /\ Here[k].at \in Dev
      BY <1>2, <2>3, Zenon DEF StoreAcked
    <3> QED
      BY <1>2, <1>4, <2>1, <3>1, Discipline DEF Redo, Typed
  <2>4. CASE PartLoad \/ PartStore
    <3>1. Here[k].at \in Dev /\ Part(Here[k].at) = None
      BY <1>2, <2>4, Zenon DEF PartLoad, PartStore
    <3>2. Known(Here[k].at) /\ Here[k].at \in Addrs
      BY <1>2, <1>4, <2>1, <3>1, Discipline DEF Redo, Typed
    <3> QED
      BY <3>1, <3>2, Zenon DEF Part, Known, PartsAreRight, Redo
  <2> QED
    BY <2>2, <2>3, <2>4, Zenon
<1>6. /\ Here[k].at \in Dev /\ Here[k].at \notin holes
      /\ Right(Here[k]) = IF Here[k].op \in Reads THEN Answer(Here[k].at) ELSE Plain
      /\ Right(Here[k]) # None
  BY <1>2, <1>4, <1>5, RegionsAssumption, ValuesAreSome, Zenon DEF Right, Redo, Typed
<1>7. /\ Here[k].op \in Reads => pending_mmio = Answer(Here[k].at) /\ ~pending_mmio_write
      /\ Here[k].op \notin Reads => pending_mmio = None
  BY <1>3, <1>5, Zenon DEF Answered
<1>8. /\ Transferred(Right(Here[k])) /\ ~Completion' /\ pending_mmio_write' \in BOOLEAN
  <2>1. CASE LoadTakes \/ PartLoad
    <3>1. /\ Here[k].op \in Reads /\ Transferred(pending_mmio) /\ pending_mmio' = None
          /\ pending_mmio_write' = pending_mmio_write
      BY <1>2, <2>1, Zenon DEF LoadTakes, PartLoad, Reads
    <3> QED
      BY <1>6, <1>7, <3>1, Zenon DEF Completion, Redo, Typed
  <2>2. CASE StoreAcked \/ PartStore
    <3>1. /\ Here[k].op \notin Reads /\ Transferred(Plain) /\ pending_mmio' = pending_mmio
          /\ pending_mmio_write' = FALSE
      BY <1>2, <2>2, Zenon DEF StoreAcked, PartStore, Reads
    <3> QED
      BY <1>6, <1>7, <3>1, Zenon DEF Completion
  <2> QED
    BY <2>1, <2>2, Zenon
<1> QED
  BY <1>1, <1>2, <1>3, <1>4, <1>5, <1>6, <1>7, <1>8, Zenon

LEMMA RedoAtScalar ==
  ASSUME AllRestartable, Redo, LoadTakes \/ StoreAcked
  PROVE  Redo'
<1>1. /\ Answered(k) /\ at = "retry" /\ Interpreting /\ Walking
      /\ k \in DOMAIN Here /\ Op = Here[k] /\ ~Completion'
      /\ Transferred(Right(Here[k])) /\ Here[k].at \notin holes
      /\ pending_mmio_write' \in BOOLEAN
  BY TakenByItsTransfer, Zenon
<1>2. /\ UNCHANGED <<guest, rip, parts, inst, asked, holes, at, exit>> /\ k' = k + 1
      /\ Here[k].op \in {"load", "store"}
  BY <1>1, Zenon DEF LoadTakes, StoreAcked, Transferred, cpu, space
<1>3. Typed' /\ Passed' /\ Addrs' = Addrs /\ Here' = Here /\ MmioExit' = MmioExit
  BY <1>1, <1>2, Advances, Zenon DEF Redo, Typed
<1>4. PICK j \in DOMAIN Here : j = k
  BY <1>1, Zenon
<1>5. PartsAreRight' /\ Awaits(j)' /\ (Nothing => Nothing')
  BY <1>1, <1>2, <1>4, Stays, Zenon DEF Redo, Answered
<1>6. Nothing
  <2>1. SUFFICES ASSUME NEW a \in Addrs, Known(a) PROVE FALSE
    BY Zenon DEF Nothing
  <2>2. a \in Dev /\ \E i \in DOMAIN Here : Here[i].at = a
    BY <2>1, Zenon DEF Redo, PartsAreRight
  <2>3. a = Here[k].at
    <3>1. rip \in Insns /\ Here[k].at \in Dev /\ guest \in Guests
      BY <1>1, Zenon DEF Answered, Awaits, Redo, Typed
    <3>2. \A i \in DOMAIN Here : Here[i].at \in Dev => i = k
      BY <1>1, <1>2, <3>1, Discipline, Zenon
    <3> QED
      BY <2>2, <3>2, Zenon
  <2> QED
    BY <1>1, <2>1, <2>3, Zenon DEF Answered, Awaits
<1>7. j < k'
  BY <1>2, <1>4 DEF Redo, Typed
<1>8. \A a \in Addrs : asked[a] = IF a = Here[j].at THEN 1 ELSE 0
  BY <1>1, <1>4, <1>6, Zenon DEF Answered, Nothing
<1>9. Taken(j)'
  BY <1>1, <1>2, <1>3, <1>4, <1>5, <1>6, <1>7, <1>8, Zenon DEF Taken, Answered
<1> QED
  BY <1>3, <1>5, <1>9, Zenon DEF Redo, Phase

(* record_mmio_part: the answer is kept for the attempts to come.          *)
LEMMA RedoAtPart ==
  ASSUME AllRestartable, Redo, PartLoad \/ PartStore
  PROVE  Redo'
<1>1. /\ Answered(k) /\ at = "retry" /\ Interpreting /\ Walking
      /\ k \in DOMAIN Here /\ Op = Here[k] /\ ~Completion'
      /\ Transferred(Right(Here[k])) /\ Here[k].at \notin holes
      /\ Right(Here[k]) # None /\ pending_mmio_write' \in BOOLEAN
      /\ pending_mmio # None => pending_mmio = Right(Here[k])
  BY TakenByItsTransfer, Zenon
<1>2. PICK j \in DOMAIN Here : j = k
  BY <1>1, Zenon
<1>3. /\ UNCHANGED <<guest, rip, inst, asked, holes, at, exit>> /\ k' = k + 1
      /\ Here[j].op \in {"vload", "vstore"} /\ parts' = Recorded(Here[j].at, Right(Here[j]))
  <2>1. /\ UNCHANGED <<guest, rip, inst, asked, holes, at, exit>> /\ k' = k + 1
    BY <1>1, Zenon DEF Transferred, cpu, space
  <2>2. CASE PartLoad
    BY <1>1, <1>2, <2>1, <2>2, Zenon DEF PartLoad
  <2>3. CASE PartStore
    <3>1. Here[j].op = "vstore" /\ parts' = Recorded(Here[j].at, Plain)
      BY <1>1, <1>2, <2>3, Zenon DEF PartStore
    <3> QED
      BY <2>1, <3>1, Zenon DEF Right, Reads
  <2> QED
    BY <2>2, <2>3, Zenon
<1>4. /\ rip \in Insns /\ Here[j].at \in Addrs /\ Here[j].at \in Dev
      /\ k \in Nat \ {0} /\ DOMAIN parts.val = Addrs
      /\ \A i \in 1 .. k - 1 : Here[i].at \in Dev => Known(Here[i].at)
      /\ \A i \in DOMAIN Here : Here[i].at = Here[j].at => Here[i].op = Here[j].op
  <2>1. /\ rip \in Insns /\ Here[j].at \in Dev /\ guest \in Guests
        /\ k \in Nat \ {0} /\ DOMAIN parts.val = Addrs
        /\ \A i \in 1 .. k - 1 : Here[i].at \in Dev => Known(Here[i].at)
    BY <1>1, <1>2, Zenon DEF Answered, Awaits, Redo, Typed
  <2> QED
    BY <2>1, Discipline, Zenon
<1>5. /\ DOMAIN parts'.val = Addrs /\ parts'.rip = rip
      /\ parts'.val[Here[j].at] = Right(Here[j])
      /\ \A a \in Addrs : a # Here[j].at /\ Known(a) => parts'.val[a] = parts.val[a]
      /\ \A a \in Addrs : a # Here[j].at /\ ~Known(a) => parts'.val[a] = None
  <2>1. CASE parts.rip = rip
    BY <1>3, <1>4, <2>1, Zenon DEF Recorded, Known
  <2>2. CASE parts.rip # rip
    <3>1. \A a \in Addrs : ~Known(a)
      BY <2>2, Zenon DEF Redo, PartsAreRight
    <3> QED
      BY <1>3, <1>4, <2>2, <3>1, Zenon DEF Recorded, NoParts
  <2> QED
    BY <2>1, <2>2, Zenon
<1>6. /\ Typed' /\ Passed' /\ Addrs' = Addrs /\ Here' = Here /\ Insns' = Insns
      /\ MmioExit' = MmioExit
      /\ \A o : Right(o)' = Right(o)
  BY <1>1, <1>5, Advances, Zenon
<1>7. \A a \in Addrs : Known(a)' <=> Known(a) \/ a = Here[j].at
  BY <1>1, <1>2, <1>5, Zenon DEF Known
<1>8. PartsAreRight'
  <2>1. SUFFICES ASSUME NEW a \in Addrs, Known(a)'
        PROVE  /\ parts'.rip = rip' /\ rip' \in Insns' /\ a \in Dev
               /\ \E i \in DOMAIN Here : Here[i].at = a
               /\ \A i \in DOMAIN Here : Here[i].at = a =>
                    parts'.val[a] = Right(Here[i]) /\ Here[i].op \in {"vload", "vstore"}
    BY <1>6 DEF PartsAreRight
  <2>2. parts'.rip = rip' /\ rip' \in Insns'
    BY <1>3, <1>4, <1>5, <1>6, Zenon
  <2>3. CASE a = Here[j].at
    BY <1>3, <1>4, <1>5, <2>2, <2>3, Zenon DEF Right
  <2>4. CASE a # Here[j].at
    BY <1>5, <1>7, <2>1, <2>2, <2>4, Zenon DEF Redo, PartsAreRight
  <2> QED
    BY <2>3, <2>4, Zenon
<1>9. Quiet'
  <2>1. \A a \in Addrs : asked[a] = IF Known(a)' THEN 1 ELSE 0
    BY <1>1, <1>2, <1>7, Zenon DEF Answered
  <2>2. \A i \in 1 .. k' - 1 : Here[i].at \in Dev => Known(Here[i].at)'
    <3>1. SUFFICES ASSUME NEW i \in 1 .. k, Here[i].at \in Dev PROVE Known(Here[i].at)'
      BY <1>3, <1>4
    <3>2. i \in DOMAIN Here /\ Here[i].at \in Addrs
      BY <1>1, <1>4, Discipline DEF Redo, Typed
    <3>3. i = j \/ Known(Here[i].at)
      BY <1>2, <1>4, <3>1
    <3>4. \A a \in Addrs : Known(a) \/ a = Here[j].at => parts'.val[a] # None
      BY <1>7, Zenon DEF Known
    <3> QED
      BY <1>6, <3>2, <3>3, <3>4, Zenon DEF Known
  <2>3. j \in 1 .. k' - 1 /\ Here[j].at \in Dev
    <3>1. k' = k + 1 /\ k \in Nat \ {0}
      BY <1>3, <1>4, Zenon
    <3>2. k \in 1 .. k' - 1
      BY <3>1
    <3> QED
      BY <1>2, <1>4, <3>2, Zenon
  <2>4. at' = "retry" /\ asked' = asked /\ ~Completion' /\ ~MmioExit'
    BY <1>1, <1>3, <1>6, Zenon DEF Answered
  <2> QED
    BY <1>6, <2>1, <2>2, <2>3, <2>4, Zenon DEF Quiet, Known
<1> QED
  BY <1>6, <1>8, <1>9, Zenon DEF Redo, Phase

LEMMA RedoAtFirst == Init => Redo
<1> SUFFICES ASSUME Init PROVE Redo
  BY Zenon
<1>1. Typed
  <2>1. DOMAIN parts.val = Addrs /\ DOMAIN asked = Addrs
    BY Zenon DEF Init, NoParts
  <2>2. guest \in Guests /\ k = 1 /\ at = "out" /\ inst = 0 /\ pending_mmio_write = FALSE
        /\ holes = Unmapped \cup {"stack"}
    BY Zenon DEF Init
  <2>3. k \in Nat \ {0} /\ inst \in 0 .. Wrap - 1
    BY <2>2, BoundsAssumption
  <2> QED
    BY <2>1, <2>2, <2>3, Zenon DEF Typed
<1>2. Nothing
  BY Zenon DEF Init, Nothing, Known, NoParts
<1>3. PartsAreRight /\ Passed
  BY <1>2, Zenon DEF Init, PartsAreRight, Nothing, Passed, Interpreting
<1>4. Quiet
  BY <1>2, Zenon DEF Init, Quiet, Nothing, Completion, MmioExit, Interpreting
<1> QED
  BY <1>1, <1>3, <1>4, Zenon DEF Redo, Phase

LEMMA RedoIsKept ==
  ASSUME AllRestartable
  PROVE  Redo /\ [Next]_vars => Redo'
<1> SUFFICES ASSUME Redo, [Next]_vars PROVE Redo'
  BY Zenon
<1>1. CASE Embedder \/ InjectIrq
  BY <1>1, RedoOutside, Zenon DEF Embedder
<1>2. CASE Top
  BY <1>2, RedoOutside, RedoAtRetry, RedoAtStarts, Zenon DEF Top
<1>3. CASE Transfer
  BY <1>3, RedoAtPlain, RedoAtScalar, RedoAtPart, RedoAtTraps, RedoAtStarts, Zenon DEF Transfer
<1>4. CASE Finish
  BY <1>4, RedoAtStarts, RedoAtEnds, Zenon DEF Finish
<1>5. CASE UNCHANGED vars
  <2>1. /\ UNCHANGED <<guest, rip, parts, inst, asked, pending_mmio, pending_mmio_write, holes,
                       at, exit, k, got>>
    BY <1>5, Zenon DEF vars, cpu, completion, space, history
  <2>2. /\ Addrs' = Addrs /\ Here' = Here /\ Insns' = Insns /\ PartsAreRight'
        /\ Completion' = Completion /\ MmioExit' = MmioExit /\ Interpreting' = Interpreting
        /\ \A a : Known(a)' <=> Known(a)
        /\ \A j : Awaits(j) => Awaits(j)'
        /\ Nothing => Nothing'
        /\ \A o : Right(o)' = Right(o)
    BY <2>1, SameGuest, SameHere, Stays, Zenon DEF Redo, Completion, MmioExit, Interpreting
  <2>3. Typed' /\ Passed'
    BY <2>1, <2>2, Zenon DEF Redo, Typed, Passed
  <2>4. Quiet => Quiet'
    BY <2>1, <2>2, Zenon DEF Quiet
  <2>5. ASSUME NEW j \in DOMAIN Here PROVE Exited(j) => Exited(j)'
    BY <2>1, <2>2, Zenon DEF Exited
  <2>6. ASSUME NEW j \in DOMAIN Here PROVE Answered(j) => Answered(j)'
    BY <2>1, <2>2, Zenon DEF Answered, Answer
  <2>7. ASSUME NEW j \in DOMAIN Here PROVE Taken(j) => Taken(j)'
    BY <2>1, <2>2, Zenon DEF Taken
  <2> QED
    BY <2>2, <2>3, <2>4, <2>5, <2>6, <2>7, Zenon DEF Redo, Phase
<1> QED
  BY <1>1, <1>2, <1>3, <1>4, <1>5, Zenon DEF Next

(* Completion by re-execution (exec_load, exec_store, vpart, vpart_store): *)
(* in a guest of restartable instructions every transfer of an instruction *)
(* gets memory's contents or the device's answer to this very transfer.    *)
THEOREM ReexecutionIsRight ==
  ASSUME AllRestartable
  PROVE  Spec => []ValuesAreRight
<1>1. Redo => ValuesAreRight
  <2> SUFFICES ASSUME Redo, Interpreting, NEW j \in DOMAIN got
               PROVE  got[j] = Right(Here[j])
    BY Zenon DEF ValuesAreRight, Right, Here, Reads
  <2>1. got \in Seq(Values) /\ Len(got) = k - 1 /\ k \in Nat \ {0}
    BY Zenon DEF Redo, Typed, Passed
  <2>2. j \in 1 .. k - 1
    BY <2>1
  <2> QED
    BY <2>2, Zenon DEF Redo, Passed
<1> QED
  BY <1>1, RedoAtFirst, RedoIsKept, PTL DEF Spec

(* "Its effects commit exactly once" (complete_mmio_write): such a guest's *)
(* device accesses are performed once for an execution.                    *)
THEOREM DevicesAreAskedOnce ==
  ASSUME AllRestartable
  PROVE  Spec => []AskedOnce
<1>1. Redo => AskedOnce
  BY DEF Redo, Phase, Quiet, Exited, Answered, Taken, AskedOnce
<1> QED
  BY <1>1, RedoAtFirst, RedoIsKept, PTL DEF Spec

(* "A partially-serviced MMIO/in must finish first" (run_inner): in such a *)
(* guest an interrupt never comes between an answer and the end of its     *)
(* instruction.                                                            *)
THEOREM InterruptsWait ==
  ASSUME AllRestartable
  PROVE  Spec => NothingHalfDone
<1>1. Redo /\ [Next]_vars =>
        [Delivery => ~pending_port_in /\ \A a \in Addrs : asked[a] = 0]_vars
  <2> SUFFICES ASSUME Redo, [Next]_vars, Delivery
               PROVE  ~pending_port_in /\ \A a \in Addrs : asked[a] = 0
    BY Zenon
  <2>1. at = "top" /\ ~Completion /\ ~pending_port_in
    BY OnlyTopIrqDelivers, Zenon DEF TopIrq, TopIrqFaults, Deliverable
  <2> QED
    BY <2>1, InsideIsQuiet, Zenon
<1> QED
  BY <1>1, RedoAtFirst, RedoIsKept, PTL DEF Spec, NothingHalfDone
-----------------------------------------------------------------------------
(* The transfers a compiled walk has made of the instruction at rip: none  *)
(* of them reaches a device.                                               *)
CompPassed ==
  at = "comp" =>
    /\ k = 1 \/ (rip \in Insns /\ k - 1 <= Len(Here))
    /\ got \in Seq(Values) /\ Len(got) = k - 1
    /\ \A i \in 1 .. k - 1 : Here[i].at \notin Dev /\ got[i] = Plain

LEMMA CompPassedIsKept ==
  ASSUME AllRestartable
  PROVE  Redo /\ CompPassed /\ [Next]_vars => CompPassed'
<1> SUFFICES ASSUME Redo, CompPassed, [Next]_vars, at' = "comp" PROVE CompPassed'
  BY Zenon DEF CompPassed
<1>1. CASE k' = 1 /\ got' = << >>
  BY <1>1, EmptySeq DEF CompPassed
<1>2. CASE Ram /\ at = "comp"
  <2>1. /\ k \in DOMAIN Here /\ Op = Here[k] /\ Op.at \notin Dev /\ rip \in Insns
        /\ k' = k + 1 /\ got' = Append(got, Plain) /\ UNCHANGED <<guest, rip>>
        /\ k \in Nat \ {0} /\ k <= Len(Here) /\ DOMAIN Here = 1 .. Len(Here) /\ Len(Here) \in Nat
    <3>1. rip \in Insns /\ k <= Len(Here) /\ k \in Nat \ {0} /\ guest \in Guests
      BY <1>2, Zenon DEF Ram, Walking, Here, Redo, Typed
    <3>2. DOMAIN Here = 1 .. Len(Here) /\ Len(Here) \in Nat
      BY <3>1, Discipline, Zenon
    <3> QED
      BY <1>2, <3>1, <3>2 DEF Ram, Transferred, Op, Here, cpu, space
  <2>2. Here' = Here /\ Insns' = Insns /\ Plain' = Plain /\ Plain \in Values
    BY <2>1, SameGuest, SameHere, ValuesAreSome, Zenon DEF Plain, Redo
  <2>3. /\ got \in Seq(Values) /\ Len(got) = k - 1
        /\ \A i \in 1 .. k - 1 : Here[i].at \notin Dev /\ got[i] = Plain
    BY <1>2, Zenon DEF CompPassed
  <2>4. /\ got' \in Seq(Values) /\ Len(got') = k
        /\ \A i \in 1 .. k : got'[i] = IF i = k THEN Plain ELSE got[i]
    BY <2>1, <2>2, <2>3, AppendProperties
  <2>5. \A i \in 1 .. k : i = k \/ i \in 1 .. k - 1
    BY <2>1
  <2>6. k' - 1 = k
    BY <2>1
  <2> QED
    BY <2>1, <2>2, <2>3, <2>4, <2>5, <2>6, Zenon DEF CompPassed
<1>3. CASE UNCHANGED <<guest, rip, k, got>> /\ at = "comp"
  <2>1. Here' = Here /\ Insns' = Insns /\ Plain' = Plain
    BY <1>3, SameGuest, SameHere, Zenon DEF Plain
  <2> QED
    BY <1>3, <2>1, Zenon DEF CompPassed
<1>4. (k' = 1 /\ got' = << >>) \/ (Ram /\ at = "comp")
        \/ (UNCHANGED <<guest, rip, k, got>> /\ at = "comp")
  <2>1. CASE Embedder \/ InjectIrq
    BY <2>1, Zenon DEF Embedder, Serve, Enter, InjectIrq
  <2>2. CASE Top
    BY <2>2, Zenon
    DEF Top, TopBudget, TopRetry, TopIrq, TopIrqFaults, VectorFaults, TopDispatch,
       Leave, Begin
  <2>3. CASE Transfer
    BY <2>3, Zenon DEF Transfer, Ram, Defer, Miss, LoadTakes, StoreAcked, PartKnown, PartLoad,
       PartStore, Trap, Transferred, TrapOut, Leave, Interpreting
  <2>4. CASE Finish
    BY <2>4, Zenon
    DEF Finish, NextInsn, EndWalk, Iret, ExitInsn, PortDefer, DivExits, DivVectors,
       DivFaults, VectorFaults, BackToTop, Leave
  <2>5. CASE UNCHANGED vars
    BY <2>5, Zenon DEF vars, cpu, space, history
  <2> QED
    BY <2>1, <2>2, <2>3, <2>4, <2>5, Zenon DEF Next
<1> QED
  BY <1>1, <1>2, <1>3, <1>4, Zenon

(* An instruction that has made its transfers has got the right values,    *)
(* and the embedder was asked once for each device address it names.       *)
LEMMA AllTransfersMade ==
  ASSUME AllRestartable, Redo, CompPassed, at \in Walks, rip \in Insns, k > Len(Here)
  PROVE  /\ got = [j \in DOMAIN Here |-> Right(Here[j])]
         /\ \A a \in Addrs :
              asked[a] = IF a \in Dev /\ \E j \in DOMAIN Here : Here[j].at = a THEN 1 ELSE 0
<1>1. /\ Len(Here) \in Nat /\ DOMAIN Here = 1 .. Len(Here) /\ k \in Nat \ {0}
      /\ \A j \in DOMAIN Here : Here[j].at \in Addrs
  BY Discipline, Zenon DEF Redo, Typed
<1>2. CASE Interpreting
  <2>1. /\ k = 1 \/ k - 1 <= Len(Here)
        /\ got \in Seq(Values) /\ Len(got) = k - 1
        /\ \A i \in 1 .. k - 1 : got[i] = Right(Here[i])
    BY <1>2, Zenon DEF Redo, Passed
  <2>2. k - 1 = Len(Here)
    BY <1>1, <2>1
  <2>3. DOMAIN got = DOMAIN Here /\ got = [j \in DOMAIN got |-> got[j]]
    BY <1>1, <2>1, <2>2, LenProperties
  <2>4. got = [j \in DOMAIN Here |-> Right(Here[j])]
    BY <1>1, <2>1, <2>2, <2>3, Zenon
  <2>5. CASE Quiet
    <3>1. \A a \in Addrs : asked[a] = IF Known(a) THEN 1 ELSE 0
      BY <2>5, Zenon DEF Quiet
    <3>2. \A j \in DOMAIN Here : Here[j].at \in Dev => Known(Here[j].at)
      BY <1>1, <1>2, <2>2, <2>5, Zenon DEF Quiet
    <3>3. \A a \in Addrs : Known(a) => a \in Dev /\ \E j \in DOMAIN Here : Here[j].at = a
      BY Zenon DEF Redo, PartsAreRight
    <3>4. \A a \in Addrs : Known(a) <=> a \in Dev /\ \E j \in DOMAIN Here : Here[j].at = a
      BY <3>2, <3>3, Zenon
    <3> QED
      BY <2>4, <3>1, <3>4, Zenon
  <2>6. ASSUME NEW j \in DOMAIN Here, Taken(j) PROVE
           \A a \in Addrs :
             asked[a] = IF a \in Dev /\ \E i \in DOMAIN Here : Here[i].at = a THEN 1 ELSE 0
    <3>1. /\ Here[j].at \in Dev /\ Here[j].op \in {"load", "store"}
          /\ \A a \in Addrs : asked[a] = IF a = Here[j].at THEN 1 ELSE 0
      BY <2>6, Zenon DEF Taken, Awaits
    <3>2. \A i \in DOMAIN Here : Here[i].at \in Dev => i = j
      BY <3>1, Discipline, Zenon DEF Redo, Typed
    <3> QED
      BY <2>6, <3>1, <3>2, Zenon
  <2>7. ASSUME NEW j \in DOMAIN Here, Exited(j) \/ Answered(j) PROVE FALSE
    <3>1. at # "out" /\ at # "top"
      BY Zenon DEF Walks
    <3>2. at = "retry" /\ k <= j
      BY <2>7, <3>1, Zenon DEF Exited, Answered
    <3> QED
      BY <1>1, <2>7, <3>2
  <2> QED
    BY <2>4, <2>5, <2>6, <2>7, Zenon DEF Redo, Phase
<1>3. CASE at = "comp"
  <2>1. /\ k = 1 \/ k - 1 <= Len(Here)
        /\ got \in Seq(Values) /\ Len(got) = k - 1
        /\ \A i \in 1 .. k - 1 : Here[i].at \notin Dev /\ got[i] = Plain
    BY <1>3, Zenon DEF CompPassed
  <2>2. k - 1 = Len(Here)
    BY <1>1, <2>1
  <2>3. DOMAIN got = DOMAIN Here /\ got = [j \in DOMAIN got |-> got[j]]
    BY <1>1, <2>1, <2>2, LenProperties, Zenon
  <2>4. \A j \in DOMAIN Here : Here[j].at \notin Dev /\ got[j] = Right(Here[j])
    BY <1>1, <2>1, <2>2, Zenon DEF Right
  <2>5. got = [j \in DOMAIN Here |-> Right(Here[j])]
    BY <2>3, <2>4, Zenon
  <2>6. \A a \in Addrs : asked[a] = 0
    BY <1>3, InsideIsQuiet, Zenon
  <2> QED
    BY <2>4, <2>5, <2>6, Zenon
<1> QED
  BY <1>2, <1>3, Zenon DEF Walks, Interpreting

(* Completed is what the CPU of GuestCpu records of an instruction.        *)
LEMMA CompletedIsExecuted ==
  ASSUME AllRestartable, Redo, CompPassed, at \in Walks, rip \in Insns, k > Len(Prog[rip].ops),
         Completed
  PROVE  /\ last' = [kind |-> Cpu!Insn.kind,
                     got |-> [j \in DOMAIN Cpu!Insn.ops |-> Cpu!Value(Cpu!Insn.ops[j])],
                     asked |-> {<<a, 1>> : a \in Cpu!DeviceAddrs}]
         /\ inst' = (inst + 1) % Wrap
<1>1. Cpu!Insn = Prog[rip] /\ Cpu!Insn.ops = Here
  BY Zenon DEF Cpu!Insn, Prog, Here
<1>2. /\ got = [j \in DOMAIN Here |-> Right(Here[j])]
      /\ \A a \in Addrs :
           asked[a] = IF a \in Dev /\ \E j \in DOMAIN Here : Here[j].at = a THEN 1 ELSE 0
  BY AllTransfersMade, Zenon DEF Here
<1>3. \A o : Cpu!Value(o) = Right(o)
  BY Zenon DEF Cpu!Value, Right, Reads, Answer, Plain
<1>4. \A j \in DOMAIN Here : Here[j].at \in Addrs
  BY Discipline, Zenon DEF Redo, Typed
<1>5. Cpu!DeviceAddrs = {a \in Addrs : a \in Dev /\ \E j \in DOMAIN Here : Here[j].at = a}
  BY <1>1, <1>4, Zenon DEF Cpu!DeviceAddrs
<1>6. {b \in Addrs : asked[b] # 0} = Cpu!DeviceAddrs
  BY <1>2, <1>5
<1>7. \A a \in Cpu!DeviceAddrs : asked[a] = 1
  BY <1>2, <1>5, Zenon
<1>8. {<<a, asked[a]>> : a \in {b \in Addrs : asked[b] # 0}} = {<<a, 1>> : a \in Cpu!DeviceAddrs}
  BY <1>6, <1>7, Zenon
<1>9. got = [j \in DOMAIN Cpu!Insn.ops |-> Cpu!Value(Cpu!Insn.ops[j])]
  BY <1>1, <1>2, <1>3, Zenon
<1> QED
  BY <1>1, <1>8, <1>9, Zenon DEF Completed

(* Interrupts are queued for real-mode guests only.                        *)
InterruptsAreReal == pending_irq => Real16

Raises == Real16 /\ (if_ \/ (rip \in Insns /\ Prog[rip].kind \in {"div"}))

LEMMA DeliveryOfACpu ==
  ASSUME Raises, UNCHANGED <<guest, inst, last>>
  PROVE  /\ Vector(rip) => Cpu!Next
         /\ VectorFaults(rip) => Cpu!Next
<1>1. Cpu!Raised
  BY Zenon DEF Raises, Real16, Insns, Prog, Cpu!Raised, Cpu!Insn
<1>2. Frame(rip) = Cpu!Frame /\ Handler = guest.handler /\ Stack = guest.stack
  BY Zenon DEF Frame, Cpu!Frame, Handler, Stack
<1>3. Vector(rip) => Cpu!Deliver
  BY <1>1, <1>2, Zenon DEF Vector, Cpu!Deliver
<1>4. VectorFaults(rip) => Cpu!Overflow
  BY <1>1, <1>2, Zenon DEF VectorFaults, StackFits, Cpu!Overflow
<1> QED
  BY <1>3, <1>4, Zenon DEF Cpu!Next

LEMMA GuestStays ==
  ASSUME [Next]_vars
  PROVE  guest' = guest /\ (pending_irq' = pending_irq \/ pending_irq' = FALSE \/ Real16)
<1>1. CASE Embedder \/ InjectIrq
  BY <1>1, Zenon DEF Embedder, Serve, Enter, InjectIrq, space
<1>2. CASE Top
  BY <1>2, Zenon DEF Top, TopBudget, TopRetry, TopIrq, TopIrqFaults, TopDispatch, Begin, space
<1>3. CASE Transfer
  BY <1>3, Zenon DEF Transfer, Ram, Defer, Miss, LoadTakes, StoreAcked, PartKnown, PartLoad,
     PartStore, Trap, Transferred, TrapOut, space
<1>4. CASE Finish
  BY <1>4, Zenon
  DEF Finish, NextInsn, EndWalk, Iret, ExitInsn, PortDefer, DivExits, DivVectors,
     DivFaults, BackToTop, space
<1>5. CASE UNCHANGED vars
  BY <1>5, Zenon DEF vars, space
<1> QED
  BY <1>1, <1>2, <1>3, <1>4, <1>5, Zenon DEF Next

LEMMA InterruptsAreRealIsKept == InterruptsAreReal /\ [Next]_vars => InterruptsAreReal'
<1> SUFFICES ASSUME InterruptsAreReal, [Next]_vars, pending_irq' PROVE Real16'
  BY Zenon DEF InterruptsAreReal
<1> QED
  BY GuestStays, Zenon DEF InterruptsAreReal, Real16

LEMMA StepsOfACpu ==
  ASSUME AllRestartable
  PROVE  Redo /\ CompPassed /\ InterruptsAreReal /\ [Next]_vars => [Cpu!Next]_(Cpu!state)
<1> SUFFICES ASSUME Redo, CompPassed, InterruptsAreReal, [Next]_vars
             PROVE  Cpu!Next \/ UNCHANGED Cpu!state
  BY Zenon
<1>1. ASSUME UNCHANGED <<guest, rip, if_, stk, inst, last>> PROVE UNCHANGED Cpu!state
  BY <1>1, Zenon DEF Cpu!state
<1>2. CASE Embedder \/ InjectIrq
  BY <1>1, <1>2, Zenon DEF Embedder, Serve, Enter, InjectIrq, cpu, space, history
<1>3. CASE Top
  <2>1. CASE TopIrq
    <3>1. Raises /\ Vector(rip) /\ UNCHANGED <<guest, inst, last>>
      BY <2>1, Zenon DEF TopIrq, Deliverable, Raises, InterruptsAreReal, space, history
    <3> QED
      BY <3>1, DeliveryOfACpu, Zenon
  <2>2. CASE TopIrqFaults
    <3>1. Raises /\ VectorFaults(rip) /\ UNCHANGED <<guest, inst, last>>
      BY <2>2, Zenon DEF TopIrqFaults, Deliverable, Raises, InterruptsAreReal, space, history
    <3> QED
      BY <3>1, DeliveryOfACpu, Zenon
  <2> QED
    BY <1>1, <1>3, <2>1, <2>2, Zenon
    DEF Top, TopBudget, TopRetry, TopDispatch, Begin, cpu, space, history
<1>4. CASE Transfer
  BY <1>1, <1>4, Zenon
  DEF Transfer, Ram, Defer, Miss, LoadTakes, StoreAcked, PartKnown, PartLoad, PartStore, Trap,
      Transferred, TrapOut, cpu, space, history
<1>5. CASE Finish
  <2>1. ASSUME NEW ks, Done(ks), Completed, Cpu!Goes, guest' = guest PROVE Cpu!Execute
    <3>1. at \in Walks /\ rip \in Insns /\ k > Len(Prog[rip].ops)
      BY <2>1, Zenon DEF Done
    <3>2. rip \in DOMAIN guest.prog
      BY <3>1, Zenon DEF Insns, Prog
    <3> QED
      BY <2>1, <3>1, <3>2, CompletedIsExecuted, Zenon DEF Cpu!Execute, Here
  <2>2. CASE NextInsn
    <3>1. Cpu!Goes
      BY <2>2, Zenon DEF NextInsn, NewIf, Done, Prog, Cpu!Goes, Cpu!Insn
    <3> QED
      BY <2>1, <2>2, <3>1, Zenon DEF NextInsn, space, Cpu!Next
  <2>3. CASE EndWalk
    <3>1. Cpu!Goes
      BY <2>3, Zenon DEF EndWalk, NewIf, Done, Prog, Cpu!Goes, Cpu!Insn
    <3> QED
      BY <2>1, <2>3, <3>1, Zenon DEF EndWalk, BackToTop, space, Cpu!Next
  <2>4. CASE Iret
    <3>1. Cpu!Goes
      BY <2>4, Zenon DEF Iret, Done, Prog, Cpu!Goes, Cpu!Insn
    <3> QED
      BY <2>1, <2>4, <3>1, Zenon DEF Iret, BackToTop, space, Cpu!Next
  <2>5. CASE ExitInsn
    <3>1. Cpu!Goes
      BY <2>5, Zenon DEF ExitInsn, Done, Prog, Cpu!Goes, Cpu!Insn
    <3> QED
      BY <2>1, <2>5, <3>1, Zenon DEF ExitInsn, space, Cpu!Next
  <2>6. CASE PortDefer \/ DivExits
    BY <1>1, <2>6, Zenon DEF PortDefer, DivExits, cpu, space, history
  <2>7. CASE DivVectors
    <3>1. Raises /\ Vector(rip) /\ UNCHANGED <<guest, inst, last>>
      BY <2>7, Zenon DEF DivVectors, Done, Raises, space, history
    <3> QED
      BY <3>1, DeliveryOfACpu, Zenon
  <2>8. CASE DivFaults
    <3>1. Raises /\ VectorFaults(rip) /\ UNCHANGED <<guest, inst, last>>
      BY <2>8, Zenon DEF DivFaults, Done, Raises, space, history
    <3> QED
      BY <3>1, DeliveryOfACpu, Zenon
  <2> QED
    BY <1>5, <2>2, <2>3, <2>4, <2>5, <2>6, <2>7, <2>8, Zenon DEF Finish
<1>6. CASE UNCHANGED vars
  BY <1>1, <1>6, Zenon DEF vars, cpu, space, history
<1> QED
  BY <1>2, <1>3, <1>4, <1>5, <1>6, Zenon DEF Next

(* Between the points where run() goes round its loop, the engines defer,  *)
(* exit to the embedder, answer from its replies and start instructions    *)
(* over: run(), the engines and the retry protocol together implement a    *)
(* CPU that executes each instruction once and whole, whatever the program,*)
(* the blocks, the engines chosen and the budgets, if every instruction    *)
(* can be restarted.                                                       *)
THEOREM RunIsACpu ==
  ASSUME AllRestartable
  PROVE  Spec => ExecutesWhole
<1> DEFINE Inv == Redo /\ CompPassed /\ InterruptsAreReal
<1>1. Init => Inv
  <2>1. Init => CompPassed /\ InterruptsAreReal
    BY Zenon DEF Init, CompPassed, InterruptsAreReal
  <2> QED
    BY <2>1, RedoAtFirst, Zenon
<1>2. Inv /\ [Next]_vars => Inv'
  BY RedoIsKept, CompPassedIsKept, InterruptsAreRealIsKept, Zenon
<1>3. Init => Cpu!Init
  BY Zenon DEF Init, Cpu!Init
<1>4. Inv /\ [Next]_vars => [Cpu!Next]_(Cpu!state)
  BY StepsOfACpu, Zenon
<1> QED
  BY <1>1, <1>2, <1>3, <1>4, PTL DEF Spec, ExecutesWhole, Cpu!Spec

(* Real mode has no compiled code, so nothing is deferred.                 *)
InGuest == (Real16 => at \notin {"comp", "defer"}) /\ ExceptionsStayInGuest

LEMMA InGuestIsKept ==
  ASSUME AllRestartable
  PROVE  Redo /\ InGuest /\ [Next]_vars => InGuest'
<1> SUFFICES ASSUME Redo, InGuest, [Next]_vars, Real16
             PROVE  at' \notin {"comp", "defer"} /\ (exit' # None => exit'.why # "Exception")
  BY GuestStays, Zenon DEF InGuest, ExceptionsStayInGuest, Real16
<1> USE DEF InGuest, ExceptionsStayInGuest
<1>1. CASE Embedder \/ InjectIrq
  BY <1>1, Zenon DEF Embedder, Serve, Enter, InjectIrq
<1>2. CASE Top
  <2>1. CASE TopBudget
    BY <2>1, Zenon DEF TopBudget, Leave
  <2>2. CASE TopRetry \/ \E how \in {"interp", "comp"} : TopDispatch(how)
    BY <2>2, Zenon DEF TopRetry, TopDispatch, Begin
  <2>3. CASE TopIrq \/ TopIrqFaults
    BY <2>3 DEF TopIrq, TopIrqFaults, VectorFaults, Leave
  <2> QED
    BY <1>2, <2>1, <2>2, <2>3, Zenon DEF Top
<1>3. CASE Transfer
  <2>1. ASSUME NEW v, Transferred(v) PROVE UNCHANGED <<at, exit>>
    BY <2>1, Zenon DEF Transferred
  <2>2. ASSUME NEW why, TrapOut(why) PROVE at' = "out" /\ exit'.why = why
    BY <2>2, Zenon DEF TrapOut, Leave
  <2>3. CASE Miss \/ Trap
    BY <2>2, <2>3 DEF Miss, Trap
  <2>4. CASE Defer
    BY <2>4, Zenon DEF Defer
  <2> QED
    BY <1>3, <2>1, <2>3, <2>4, Zenon
    DEF Transfer, Ram, LoadTakes, StoreAcked, PartKnown, PartLoad, PartStore
<1>4. CASE Finish
  <2>1. CASE NextInsn \/ EndWalk \/ Iret
    BY <2>1, Zenon DEF NextInsn, EndWalk, Iret, BackToTop
  <2>2. CASE ExitInsn
    <3>1. Prog[rip].kind \in {"hlt", "in", "out"} /\ at' = "out"
          /\ exit' = [why |-> [hlt |-> "Hlt", in |-> "In", out |-> "Out"][Prog[rip].kind],
                      at |-> None]
      BY <2>2, Zenon DEF ExitInsn, Done, Leave
    <3> QED
      BY <3>1
  <2>3. CASE PortDefer
    BY <2>3, Zenon DEF PortDefer
  <2>4. CASE DivExits
    <3>1. /\ at \in Walks /\ rip \in Insns /\ k > Len(Here) /\ Prog[rip].kind = "div"
          /\ at # "interp"
      BY <2>4, Zenon DEF DivExits, Done, Here
    <3>2. at = "retry"
      BY <3>1, Zenon DEF Walks
    <3> QED
      BY <3>1, <3>2, RetryIsOver
  <2>5. CASE DivVectors
    BY <2>5, Zenon DEF DivVectors
  <2>6. CASE DivFaults
    <3>1. at' = "out" /\ exit' = [why |-> "UnmappedMemory", at |-> "stack"]
      BY <2>6, Zenon DEF DivFaults, VectorFaults, Leave
    <3> QED
      BY <3>1, Zenon
  <2> QED
    BY <1>4, <2>1, <2>2, <2>3, <2>4, <2>5, <2>6, Zenon DEF Finish
<1>5. CASE UNCHANGED vars
  BY <1>5, Zenon DEF vars
<1> QED
  BY <1>1, <1>2, <1>3, <1>4, <1>5, Zenon DEF Next

(* "In real mode a CPU exception is delivered in-guest through the IVT,    *)
(* not surfaced to the embedder" (run_inner) is so of every guest of       *)
(* restartable instructions: a division that the retry arm of run_inner    *)
(* single-steps would have to name a device.                               *)
THEOREM ExceptionsAreDelivered ==
  ASSUME AllRestartable
  PROVE  Spec => []ExceptionsStayInGuest
<1>1. Init => InGuest
  BY Zenon DEF Init, InGuest, ExceptionsStayInGuest
<1>2. InGuest => ExceptionsStayInGuest
  BY Zenon DEF InGuest
<1> QED
  BY <1>1, <1>2, RedoAtFirst, RedoIsKept, InGuestIsKept, PTL DEF Spec
=============================================================================
