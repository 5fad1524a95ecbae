----------------------------- MODULE MCCapacity -----------------------------
(***************************************************************************)
(* An instance of FakeProvider for TLC, in a scaled unit: pairs of bounds  *)
(* at and around the multiples of a GiB, the default and the minimum disk. *)
(* Ranges whose limit is below what is required are included, since        *)
(* CreateVolume does not refuse them.                                      *)
(***************************************************************************)
EXTENDS FakeProvider

CONSTANTS d1, d2, n1, n2, Bounds

MCRanges == [required : Bounds, limit : Bounds]
=============================================================================
