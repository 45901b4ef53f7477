------------------------- MODULE MCConcurrencySlots -------------------------
(* Model-checking instances of ConcurrencySlots. *)
EXTENDS ConcurrencySlots, TLC

CONSTANTS s1, s2, r1, r2, r3

\* Two requests on one server, one on another.
MCServerOf == (r1 :> s1) @@ (r2 :> s1) @@ (r3 :> s2)

=============================================================================
