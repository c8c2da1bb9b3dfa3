----------------------------- MODULE StringRegs -----------------------------
(* The registers and addresses of a string instruction: movs, stos, scas,   *)
(* cmps, lods with a repeat prefix, a direction and an address size.  An    *)
(* element is one cell of memory, and a register a number below Size, of    *)
(* which an address size of b bits uses the part below Width[b].            *)
EXTENDS Integers

CONSTANTS Size,    \* linear addresses, 2^64 in the code
          Width    \* the modulus of the address sizes 16, 32 and 64

ASSUME SizeAssumption ==
  /\ Size \in Nat \ {0}
  /\ Width \in [{16, 32, 64} -> 1 .. Size]

Addresses == 0 .. Size - 1

Modulus(i) == Width[i.bits]
Offset(i, reg) == reg % Modulus(i)

(* A narrow write-back zeroes the upper part at 32 bits and keeps it at 16. *)
WriteBack(i, reg, lo) == IF i.bits = 32 THEN lo ELSE (reg - Offset(i, reg)) + lo

(* Mutant: the direction flag is ignored.                                   *)
AdvanceUpwards(i, reg) == WriteBack(i, reg, (Offset(i, reg) + 1) % Modulus(i))

(* The closures advance and dec, for an element of one cell.                *)
advance(i, reg) ==
  WriteBack(i, reg, (Offset(i, reg) + (IF i.df THEN -1 ELSE 1)) % Modulus(i))
dec(i, reg) == WriteBack(i, reg, (Offset(i, reg) - 1) % Modulus(i))

src_lin(i, reg) == (i.src + Offset(i, reg)) % Size
dst_lin(i, reg) == (i.dst + Offset(i, reg)) % Size

UsesSrc(i) == i.op \in {"Movs", "Lods", "Cmps"}
UsesDst(i) == i.op # "Lods"
Stores(i) == i.op \in {"Movs", "Stos"}
Compares(i) == i.op \in {"Scas", "Cmps"}

(* lift_string: the repeat prefixes f2 and f3, the address size bits, the   *)
(* base seg of the source and es of the destination, in real mode or not.   *)
RepKind(op, f2, f3, real) ==
  IF op \in {"Scas", "Cmps"}
  THEN IF f2 THEN "Repne" ELSE IF f3 THEN "Repe" ELSE "None"
  ELSE IF f3 \/ (real /\ f2) THEN "Rep" ELSE "None"
lift_string(op, f2, f3, bits, seg, es, real) ==
  [op |-> op, rep |-> RepKind(op, f2, f3, real),
   bits |-> IF real THEN 16 ELSE bits,
   src |-> IF real \/ op \in {"Movs", "Lods", "Cmps"} THEN seg ELSE 0,
   dst |-> IF real THEN es ELSE 0]

NextRsi(i, reg) == IF UsesSrc(i) THEN advance(i, reg) ELSE reg
NextRdi(i, reg) == IF UsesDst(i) THEN advance(i, reg) ELSE reg
NextRcx(i, reg) == IF i.rep = "None" THEN reg ELSE dec(i, reg)

Exhausted(i, rcx) == i.rep # "None" /\ Offset(i, rcx) = 0

(* Flags are the two values compared last; ZF says that they are equal.     *)
Last(i, fl) ==
  \/ i.rep = "None"
  \/ i.rep = "Repe" /\ fl[1] # fl[2]
  \/ i.rep = "Repne" /\ fl[1] = fl[2]
=============================================================================
