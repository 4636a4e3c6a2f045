------------------------------ MODULE MCXmpRead ------------------------------
(***************************************************************************)
(* XmpRead on the image of a small disk: the regions of setup.c, then a    *)
(* root directory, a file, an empty file, a directory and a file that was  *)
(* cut after the scan.  A sector is two bytes, a cluster two sectors.      *)
(***************************************************************************)
EXTENDS XmpRead

Cluster(c, p) == AddressRegion(address_from_fatclus(c), cluster_size, p, 0)

File(c, length, f) == AddressRegion(address_from_fatclus(c), length, NoPointer, f)

MCLayout ==
  SetupRegions \o << Cluster(2, DirTable(1)), File(3, 5, 1), File(5, 1, 2),
                     Cluster(6, DirTable(2)), File(7, 4, 3) >>

MCLayouts == {MCLayout}

MCFileSize == << 5, 0, 3 >>

(* Whole sectors, up to seven of them, from everywhere up to one sector     *)
(* behind the last region.                                                  *)
DiskSectors == address_from_fatclus(8) \div BPB_BytsPerSec + 1

MCRequests ==
  {Request(o * BPB_BytsPerSec, n * BPB_BytsPerSec) :
     o \in 0 .. DiskSectors - 1, n \in {1, 2, 4, 7}}
=============================================================================
