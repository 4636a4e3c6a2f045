------------------------------ MODULE FatLayout ------------------------------
(***************************************************************************)
(* Where things are on the synthetic disk: the arithmetic of address.c,    *)
(* the boot sector that setup.c fills in, and the address regions it maps  *)
(* before any file is added.  The constants are the fields of BootEntry    *)
(* that this arithmetic reads; the build's values are in the comments.     *)
(***************************************************************************)
EXTENDS Integers, Sequences

CONSTANTS
  BPB_BytsPerSec,  (* 512, also the length of the MBR, boot and FSInfo regions *)
  BPB_SecPerClus,  (* Fat32_Sectors_per_Cluster, 32                            *)
  BPB_RsvdSecCnt,  (* 32                                                       *)
  BPB_NumFATs,     (* 2                                                        *)
  BPB_FATSz32,     (* FAT32_FAT_Table_Length, 8189                             *)
  BPB_FSInfo,      (* 1                                                        *)
  BPB_BkBootSec,   (* 6                                                        *)
  PartStart,       (* 2048: first sector of the partition, in the MBR's table  *)
  Word             (* 2^32: the range of a uint32_t                            *)

DirEntrySize == 32

(* What setup.c's settings satisfy. *)
ASSUME LayoutAssumption ==
  /\ BPB_BytsPerSec \in Nat \ {0}
  /\ BPB_SecPerClus \in Nat \ {0}
  /\ BPB_FATSz32 \in Nat \ {0}
  /\ BPB_NumFATs = 2
  /\ BPB_RsvdSecCnt \in Nat
  /\ BPB_FSInfo \in Nat
  /\ BPB_BkBootSec \in Nat
  /\ 0 < BPB_FSInfo /\ BPB_FSInfo < BPB_BkBootSec
  /\ BPB_BkBootSec < BPB_RsvdSecCnt
  /\ PartStart \in Nat \ {0}
  /\ Word \in Nat \ {0}

cluster_size == BPB_BytsPerSec * BPB_SecPerClus

entrys_per_cluster == cluster_size \div DirEntrySize

(* The number of 32-bit entries in a FAT; the first two are special. *)
fat_entries == (BPB_FATSz32 * BPB_BytsPerSec) \div 4

(* The root directory, and with it the data area, begins at cluster 2. *)
root_dir_loc == 2

part1_base == PartStart * BPB_BytsPerSec

-----------------------------------------------------------------------------
fat_location(fatnum) == BPB_RsvdSecCnt + BPB_FATSz32 * fatnum

address_from_fatsec(fatsec) == part1_base + BPB_BytsPerSec * fatsec

address_from_fatclus(fatclus) ==
  address_from_fatsec(fat_location(BPB_NumFATs)) + cluster_size * (fatclus - 2)

(* Division rounding up.  The test for 0 in the code is not a case of its   *)
(* own: 0 % y is 0 and 0 \div y is 0.                                       *)
ceil_div(x, y) == IF x % y # 0 THEN x \div y + 1 ELSE x \div y

-----------------------------------------------------------------------------
(***************************************************************************)
(* The mapped address regions.  A mem_pointer is a pair of a kind and an   *)
(* index; a file_path is the number of the file, 0 standing for NULL.      *)
(***************************************************************************)
NoPointer == <<"null", 0>>
DirTable(i) == <<"dirtable", i>>

Pointers == ({"null", "mbr", "bootentry", "fsi", "fat"} \X {0})
            \cup ({"dirtable"} \X (Nat \ {0}))

AddressRegion(base, length, mem_pointer, file_path) ==
  [base |-> base, length |-> length,
   mem_pointer |-> mem_pointer, file_path |-> file_path]

AddressRegions == [base : Nat, length : Nat, mem_pointer : Pointers, file_path : Nat]

(* build_mbr, build_boot_sector and build_fats, in the order main calls    *)
(* them.  The backup boot sector is mapped before the FSInfo sector, which *)
(* lies below it; the two FATs share one buffer.                           *)
SetupRegions ==
  << AddressRegion(0, BPB_BytsPerSec, <<"mbr", 0>>, 0),
     AddressRegion(part1_base, BPB_BytsPerSec, <<"bootentry", 0>>, 0),
     AddressRegion(part1_base + BPB_BkBootSec * BPB_BytsPerSec, BPB_BytsPerSec,
                   <<"bootentry", 0>>, 0),
     AddressRegion(part1_base + BPB_FSInfo * BPB_BytsPerSec, BPB_BytsPerSec,
                   <<"fsi", 0>>, 0),
     AddressRegion(address_from_fatsec(fat_location(0)),
                   BPB_FATSz32 * BPB_BytsPerSec, <<"fat", 0>>, 0),
     AddressRegion(address_from_fatsec(fat_location(1)),
                   BPB_FATSz32 * BPB_BytsPerSec, <<"fat", 0>>, 0) >>

(* Mutant: only the data area is counted. *)
DataSectors == BPB_FATSz32 * BPB_SecPerClus * (BPB_BytsPerSec \div 4)

(* The disk as build_boot_sector declares it, in sectors. *)
BPB_TotSec32 ==
  BPB_FATSz32 * BPB_SecPerClus * (BPB_BytsPerSec \div 4)
    + BPB_RsvdSecCnt + BPB_FATSz32 * BPB_SecPerClus

DiskSize == BPB_TotSec32 + PartStart
=============================================================================
