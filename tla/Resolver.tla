------------------------------- MODULE Resolver -------------------------------
(***************************************************************************)
(* FunctionResolver (resolver.cpp): the vector variants of a function that *)
(* a call in a vectorized function may use.  A variant is described by its *)
(* VFABI (vfabi.h), which clang derives from "declare simd":               *)
(*   isa, mask, vlen   instruction set, with a mask argument or not, lanes *)
(*   parameters        what is promised of each parameter: varying, or the *)
(*                     value of lane 0 plus a stride per lane              *)
(* A call is described by a VFABI, too: the one it desires.                *)
(***************************************************************************)
EXTENDS Naturals, Sequences

AnyVarying == [is_varying |-> TRUE, stride |-> 0]
ByStride(s) == [is_varying |-> FALSE, stride |-> s]
OneForAll == ByStride(0)

SameTarget(v, desired) ==
    /\ v.isa = desired.isa
    /\ v.mask = desired.mask
    /\ v.vlen = desired.vlen

CompatibleByTarget(v, desired) == SameTarget(v, desired)

\* The strides of a parameter and its argument are not compared.
Compatible(v, desired) ==
    /\ SameTarget(v, desired)
    /\ \A k \in DOMAIN v.parameters :
          desired.parameters[k].is_varying => v.parameters[k].is_varying

\* getBestVFABIMatch: none means that the call is not resolved, more than
\* one that the compiler gives up.
Candidates(variants, desired) == {v \in variants : Compatible(v, desired)}
===============================================================================
