------------------------------- MODULE Tags -------------------------------
(***************************************************************************)
(* Maps of tags, and how one is laid over another: in Go, a loop           *)
(* that assigns the entries of f to the map g.  The operators are those    *)
(* that module TLC writes f @@ g and k :> v, in a form that the prover can *)
(* reason about.                                                           *)
(***************************************************************************)
EXTENDS Integers

\* The entries of f, and those of g whose keys f does not have.
Over(f, g) == [k \in DOMAIN f \cup DOMAIN g |-> IF k \in DOMAIN f THEN f[k] ELSE g[k]]

\* The map of one entry.
Tag(k, v) == [x \in {k} |-> v]
=============================================================================
