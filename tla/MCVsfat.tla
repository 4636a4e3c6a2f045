------------------------------- MODULE MCVsfat -------------------------------
(***************************************************************************)
(* Vsfat on a small disk with one LFN entry to each name: clusters of four  *)
(* entries, so that a directory grows with its second or third name.        *)
(***************************************************************************)
EXTENDS Vsfat

MCOneLfn == {1}
(* Empty, and a cluster and a byte (of 128). *)
MCFileSizes == {0, 129}
=============================================================================
