------------------------------ MODULE PackedMem ------------------------------
(***************************************************************************)
(* One load or store of a vectorized function: how the shape of its        *)
(* pointer picks the instruction that replaces it                          *)
(* (ShapesStep::calulateFinalMemInstMappedShapes), and, for packed         *)
(* accesses with a permutation, how the indices, the mask and the value    *)
(* are rearranged (TransformStep::vectorizeMemInst and its helpers).       *)
(*                                                                         *)
(* Addresses are byte offsets from the base of the pointer's shape, which  *)
(* is what the scalar value of the pointer holds.  A stored value is named *)
(* by the lane that owns it, a loaded one by the address it comes from.    *)
(***************************************************************************)
EXTENDS GangLanes, FiniteSets, FiniteSetsExt, Functions

CONSTANTS
    Insts,  \* the loads and stores to consider: records of
            \*   kind    "load" or "store"
            \*   esize   bytes of an element
            \*   idx     lane -> byte offset of its element
            \*   value   shape of the stored value, "uniform", "strided"
            \*           (its scalar value is lane 0's) or "varying"
            \*   active  the lanes that execute it
    Wrap64, \* 2^64
    Wrap32, \* 2^32
    Undef   \* what a masked-off lane of a load yields

MaxFactor == 4

ASSUME PackedMemAssumption ==
    /\ Wrap32 \in Nat /\ 2 * NumLanes * MaxFactor < Wrap32
    /\ Wrap64 \in Nat \ {0}
    /\ Undef \notin Int
    /\ \A i \in Insts :
          /\ i.kind \in {"load", "store"}
          \* all three are powers of two
          /\ i.esize \in Nat \ {0} /\ Wrap64 % (i.esize * Wrap32) = 0
          /\ i.idx \in [Lanes -> Int]
          /\ \A l \in Lanes : -Wrap64 <= 2 * i.idx[l] /\ 2 * i.idx[l] < Wrap64
          /\ i.value \in {"uniform", "strided", "varying"}
          \* a block runs only for a gang with an active lane in it
          /\ i.active \in SUBSET Lanes /\ i.active # {}

\* Offsets computed from the lane number are 0 in lane 0.
BaseIsLane0s(i) == i.idx[0] = 0

\* A uniform value may go to a uniform address.  Otherwise lanes store to one
\* element together only if the whole gang does the store.
StoresApart(i) ==
    i.kind = "store" =>
        IF \A l \in Lanes : i.idx[l] = i.idx[0] THEN i.value = "uniform"
        ELSE IsInjective(i.idx) \/ i.active = Lanes

\* The accesses that the properties are about.
InstsAreRegular == \A i \in Insts : BaseIsLane0s(i) /\ StoresApart(i)

VARIABLES
    inst,    \* the instruction
    phase,   \* "map", "rebase", "mask", "access" or "done"
    mapped,  \* MemInstMappedShape::mapped_shape
    indices, \* lane -> element of the packed register, for packed_shuffle
    min,     \* min_index
    factor,  \* registers of num_lanes elements the access spans
    toRoute, \* the lanes whose index is not -1 yet
    shfl,    \* bb_mask_shfl: element -> may it be accessed
    touched, \* the addresses accessed
    result   \* load: lane -> loaded; store: address -> owner of the value

vars == <<inst, phase, mapped, indices, min, factor, toRoute, shfl, touched,
          result>>

-----------------------------------------------------------------------------
(* The shape of the pointer *)

Signed(x, wrap) == LET r == x % wrap IN IF 2 * r >= wrap THEN r - wrap ELSE r

\* C++ integer division.
Quot(a, b) == IF a >= 0 THEN a \div b ELSE -((-a) \div b)
CeilDiv(a, b) == Quot(a + b - 1, b)

\* uint64_t: v[i] - v[i - 1] is the same for every lane.
HasStride(i, s) ==
    \A l \in Lanes \ {0} : (i.idx[l] - i.idx[l - 1]) % Wrap64 = s

IsGangPacked(i) ==
    CeilDiv(Max(Range(i.idx)), i.esize) - CeilDiv(Min(Range(i.idx)), i.esize)
        < NumLanes * MaxFactor

\* The element is read as uint64_t, divided and cut to int.
ElementIndex(i, l) == Signed((i.idx[l] % Wrap64) \div i.esize, Wrap32)

MappedShape(i) ==
    IF HasStride(i, 0) THEN "uniform"
    ELSE IF HasStride(i, i.esize) THEN "packed"
    ELSE IF IsGangPacked(i) /\ \A l \in Lanes : (i.idx[l] % Wrap64) % i.esize = 0
    THEN "packed_shuffle"
    ELSE "gather_scatter"

Init ==
    /\ inst \in Insts
    /\ phase = "map"
    /\ mapped = "none"
    /\ indices = [l \in Lanes |-> 0]
    /\ min = 0
    /\ factor = 1
    /\ toRoute = {}
    /\ shfl = << >>
    /\ touched = {}
    /\ result = << >>

MapMemInst ==
    /\ phase = "map"
    /\ mapped' = MappedShape(inst)
    /\ IF mapped' = "packed_shuffle"
       THEN /\ indices' = [l \in Lanes |-> ElementIndex(inst, l)]
            /\ phase' = "rebase"
       ELSE /\ phase' = "access"
            /\ UNCHANGED indices
    /\ UNCHANGED <<inst, min, factor, toRoute, shfl, touched, result>>

-----------------------------------------------------------------------------
(* Indices and mask of a packed access with a permutation *)

FactorFor(max) == CeilDiv(max + 1, NumLanes)

RebaseMemPackedIndices ==
    /\ phase = "rebase"
    /\ min' = Min(Range(indices))
    /\ indices' = [l \in Lanes |-> indices[l] - min']
    /\ factor' = FactorFor(Max(Range(indices')))
    /\ shfl' = [p \in 0..(NumLanes * factor' - 1) |-> FALSE]
    /\ toRoute' = Lanes
    /\ phase' = "mask"
    /\ UNCHANGED <<inst, mapped, touched, result>>

\* idx_mask: the elements some lane names.
Named == Range(indices)

\* The lanes routed in this round: the first unrouted one of every element.
Routed ==
    {l \in toRoute : \A k \in toRoute : indices[k] = indices[l] => l <= k}

\* One shuffle of the block's mask, or-ed into bb_mask_shfl.  An element no
\* lane is routed to is undefined in the shuffle, so it may come out set;
\* outside idx_mask that is cut off at the end.
OrShuffleUnmasked(stray) ==
    [p \in DOMAIN shfl |-> p \in Named]
OrShuffle(stray) ==
    [p \in DOMAIN shfl |->
        shfl[p] \/ p \in stray \/ \E l \in Routed : indices[l] = p /\ l \in inst.active]

MaskRound ==
    /\ phase = "mask"
    /\ toRoute # {}
    /\ \E stray \in SUBSET (Named \ {indices[l] : l \in Routed}) :
          shfl' = OrShuffle(stray)
    /\ toRoute' = toRoute \ Routed
    /\ UNCHANGED <<inst, phase, mapped, indices, min, factor, touched, result>>

MaskDone ==
    /\ phase = "mask"
    /\ toRoute = {}
    /\ shfl' = [p \in DOMAIN shfl |-> shfl[p] /\ p \in Named]
    /\ phase' = "access"
    /\ UNCHANGED <<inst, mapped, indices, min, factor, toRoute, touched, result>>

-----------------------------------------------------------------------------
(* The access *)

Elements == {p \in DOMAIN shfl : shfl[p]}
AddressOfBase(p) == p * inst.esize
Address(p) == (min + p) * inst.esize

\* The owner of the value lane l stores, and of the store's scalar value.
Owner(l) == IF inst.value = "uniform" THEN 0 ELSE l
ScalarOwner == 0

\* value_shfl_indices: the last lane that names the element.
ValueLaneIdentity(p) == p % NumLanes
ValueLane(p) == Max({l \in Lanes : indices[l] = p})

AccessUniform ==
    /\ touched' = {0}
    /\ result' = IF inst.kind = "load" THEN [l \in Lanes |-> 0]
                 ELSE [a \in {0} |-> ScalarOwner]

AccessPacked ==
    /\ touched' = {l * inst.esize : l \in inst.active}
    /\ result' = IF inst.kind = "load"
                 THEN [l \in Lanes |-> IF l \in inst.active THEN l * inst.esize
                                                            ELSE Undef]
                 ELSE [a \in touched' |-> Owner(a \div inst.esize)]

AccessPackedShuffle ==
    /\ touched' = {Address(p) : p \in Elements}
    /\ result' = IF inst.kind = "load"
                 THEN [l \in Lanes |-> IF indices[l] \in Elements
                                       THEN Address(indices[l]) ELSE Undef]
                 ELSE [a \in touched' |->
                          Owner(ValueLane(CHOOSE p \in Elements : Address(p) = a))]

\* Lanes that share an address are written in order.
AccessGatherScatter ==
    /\ touched' = {inst.idx[l] : l \in inst.active}
    /\ result' = IF inst.kind = "load"
                 THEN [l \in Lanes |-> IF l \in inst.active THEN inst.idx[l]
                                                            ELSE Undef]
                 ELSE [a \in touched' |->
                          Owner(Max({l \in inst.active : inst.idx[l] = a}))]

Access ==
    /\ phase = "access"
    /\ \/ mapped = "uniform" /\ AccessUniform
       \/ mapped = "packed" /\ AccessPacked
       \/ mapped = "packed_shuffle" /\ AccessPackedShuffle
       \/ mapped = "gather_scatter" /\ AccessGatherScatter
    /\ phase' = "done"
    /\ UNCHANGED <<inst, mapped, indices, min, factor, toRoute, shfl>>

Done == phase = "done" /\ UNCHANGED vars

Next ==
    \/ MapMemInst \/ RebaseMemPackedIndices \/ MaskRound \/ MaskDone \/ Access
    \/ Done

Spec == Init /\ [][Next]_vars

-----------------------------------------------------------------------------
(* Properties *)

\* A load gives each active lane the element at the lane's own address,
\* whichever instruction replaces it (transform.cpp:231-254).
LoadIsLaneWise ==
    phase = "done" /\ inst.kind = "load" =>
        \A l \in inst.active : result[l] = inst.idx[l]

\* A store writes the addresses of the active lanes, each with the value of
\* an active lane that stores there (transform.cpp:223-236).
StoreIsLaneWise ==
    phase = "done" /\ inst.kind = "store" =>
        /\ \A l \in inst.active : inst.idx[l] \in DOMAIN result
        /\ \A a \in DOMAIN result :
              \E l \in inst.active : inst.idx[l] = a /\ Owner(l) = result[a]

\* No element is accessed that no active lane names: not beyond an array's
\* end, and not written behind an inactive lane's back.  Loads of lanes that
\* share elements are left out: elements with fewer lanes than others become
\* undefined in the later rounds of the mask (transform.cpp:155-173).
NoStrayAccess ==
    phase = "done" /\ (inst.kind = "store" \/ IsInjective(inst.idx)) =>
        touched \subseteq {inst.idx[l] : l \in inst.active}
=============================================================================
