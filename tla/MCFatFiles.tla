----------------------------- MODULE MCFatFiles -----------------------------
(***************************************************************************)
(* FatFiles on small disks: 32-byte sectors, so that a directory entry     *)
(* fills a sector and the FAT comes in steps of 8 words.                   *)
(***************************************************************************)
EXTENDS FatFiles

MCLfnCounts == {0, 1, 3}
(* Empty, three clusters (of 128) and a byte, and thirteen clusters: with   *)
(* the root directory's these are all the clusters of a FAT of 16 words.    *)
MCFileSizes == {0, 385, 1664}
=============================================================================
