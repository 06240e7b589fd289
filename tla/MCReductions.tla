---------------------------- MODULE MCReductions -----------------------------
(* Two gangs of six lanes, one and a half chunks, that reach the call twice. *)
EXTENDS Reductions

MCMasks == {0..5, {0, 2, 5}, {1, 4}, {3}}

\* The values differ between lanes and gangs, in either direction.
First(g, l) == (7 * l + g) % 11
Second(g, l) == (3 * l + 5 * g) % 11
=============================================================================
