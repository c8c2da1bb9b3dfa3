----------------------------- MODULE MCStrings ------------------------------
(* Sixteen addresses in pages of four, the last two beyond guest memory;    *)
(* address sizes of four, eight and sixteen.  Every operation, repeat       *)
(* prefix, direction and address size; real mode is only interpreted.       *)
EXTENDS Strings, TLC

Widths == (16 :> 4) @@ (32 :> 8) @@ (64 :> 16)

Ops == {"Movs", "Stos", "Lods", "Scas", "Cmps"}
Lifted(real) == {lift_string(o, f2, f3, b, s, 7, real) :
                   o \in Ops, f2 \in BOOLEAN, f3 \in BOOLEAN, b \in {16, 32, 64}, s \in {0, 3}}
Engines(real) == IF real THEN {"interp"} ELSE {"interp", "jit"}
AllInsns == UNION {{i @@ [df |-> d, eng |-> e] :
                      i \in Lifted(real), d \in BOOLEAN, e \in Engines(real)} : real \in BOOLEAN}

Contents == {[a \in Addresses |-> a % 2], [a \in Addresses |-> IF a < 9 THEN 1 ELSE a]}
Starts == {0, 2, 5, 13}
=============================================================================
