----------------------------- MODULE MCPackedMem -----------------------------
(* Loads and stores of three lanes: aligned and misaligned offsets, forward *)
(* and backward, near and beyond the widest packed access.                  *)
EXTENDS PackedMem

Offsets(esize) == {k * esize : k \in {-1, 0, 1, 2, 3, 11, 12}} \cup {1}

\* The regular ones, as in InstsAreRegular.
MCInsts ==
    {i \in UNION {[kind : {"load", "store"}, esize : {e},
                   idx : [0..2 -> Offsets(e)],
                   value : {"uniform", "strided", "varying"},
                   active : SUBSET (0..2) \ {{}}] : e \in {1, 2, 4}} :
        /\ i.kind = "load" => i.value = "varying"
        /\ BaseIsLane0s(i) /\ StoresApart(i)}

ASSUME MCInstsAssumption == InstsAreRegular
=============================================================================
