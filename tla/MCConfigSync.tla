---------------------------- MODULE MCConfigSync ----------------------------
(* Model-checking instances of ConfigSync. *)
EXTENDS ConfigSync

CONSTANTS a, b

\* The account is in every version; the bucket may lose its last one.
MCLayouts == {{a, b}, {a}}

=============================================================================
