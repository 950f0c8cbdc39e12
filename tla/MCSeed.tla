------------------------------- MODULE MCSeed -------------------------------
(***************************************************************************)
(* The seed over the seeded dataset, twice.                                *)
(***************************************************************************)
EXTENDS Seed, Dataset

=============================================================================
