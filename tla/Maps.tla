-------------------------------- MODULE Maps ---------------------------------
(***************************************************************************)
(* Memory, caches and records as functions: what is written lies over what  *)
(* was there, what is freed or deleted is there no more.                    *)
(***************************************************************************)

Overlay(f, g) ==
    [x \in DOMAIN f \cup DOMAIN g |-> IF x \in DOMAIN g THEN g[x] ELSE f[x]]

Updated(f, x, v) == Overlay(f, [y \in {x} |-> v])

Without(f, S) == [x \in DOMAIN f \ S |-> f[x]]

=============================================================================
