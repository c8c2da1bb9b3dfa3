------------------------------- MODULE MCSmc -------------------------------
(* Small instances of Smc: one block on one page; two blocks of which one  *)
(* spans two pages; a block whose extent depends on its bytes.             *)
EXTENDS Smc, TLC

VcpuSymmetry == Permutations(Vcpus)

p1 == 1
p2 == 2
a == "a"
b == "b"

HomeOne == [k \in {a} |-> p1]
ShapeOne == [k \in {a} |-> [n \in 0 .. MaxWrites |-> {p1}]]
StoresOne == {{p1}}

HomeTwo == [k \in {a, b} |-> p1]
ShapeTwo ==
  [k \in {a, b} |-> [n \in 0 .. MaxWrites |-> IF k = a THEN {p1} ELSE {p1, p2}]]

(* Rewriting its first page makes the block longer.                        *)
ShapeGrows == [k \in {a} |-> [n \in 0 .. MaxWrites |-> IF n = 0 THEN {p1} ELSE {p1, p2}]]
StoresTwo == {{p1}, {p2}, {p1, p2}}
=============================================================================
