----------------------------- MODULE MCConcierge -----------------------------
(***************************************************************************)
(* Instances of Concierge for TLC.  Uuids, names and services are          *)
(* interchangeable: no definition tells one from another.                  *)
(***************************************************************************)
EXTENDS Concierge

Symmetry == Permutations(Uuid) \cup Permutations(Name) \cup Permutations(Service)
=============================================================================
