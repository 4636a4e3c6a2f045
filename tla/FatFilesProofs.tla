--------------------------- MODULE FatFilesProofs ---------------------------
(***************************************************************************)
(* Proofs about FatFiles, for every disk geometry and every exported       *)
(* folder.                                                                 *)
(***************************************************************************)
EXTENDS FatFiles, SequenceTheorems, TLAPS

-----------------------------------------------------------------------------
(* Arithmetic of the layout *)

(* x is y times its quotient and a remainder below y. *)
LEMMA Division ==
  ASSUME NEW x \in Nat, NEW y \in Nat \ {0}
  PROVE  /\ x \div y \in Nat
         /\ x % y \in 0 .. y - 1
         /\ x = y * (x \div y) + (x % y)
  OBVIOUS

(* A number strictly between two multiples that follow each other leaves a *)
(* remainder, and its remainder is its distance from the lower one.        *)
LEMMA Remainder ==
  ASSUME NEW y \in Nat \ {0}, NEW k \in Nat, NEW r \in 0 .. y - 1
  PROVE  (y * k + r) % y = r
<1> DEFINE x == y * k + r
           q == x \div y
<1>1. y * k \in Nat
  OBVIOUS
<1>2. x \in Nat
  BY <1>1
<1>3. /\ q \in Nat
      /\ x % y \in 0 .. y - 1
      /\ x = y * q + (x % y)
  BY <1>2, Division
<1>4. y * (q - k) = r - (x % y)
  BY <1>3, <1>1
<1>5. q - k >= 1 => y * (q - k) >= y
  BY <1>3
<1>6. q - k <= -1 => y * (q - k) <= -y
  BY <1>3
<1>7. q - k = 0
  BY <1>3, <1>4, <1>5, <1>6
<1>8. y * (q - k) = 0
  BY <1>7
<1> QED
  BY <1>4, <1>8, <1>3

(* ceil_div rounds up, and is 0 only for 0. *)
LEMMA CeilDiv ==
  ASSUME NEW x \in Nat, NEW y \in Nat \ {0}
  PROVE  /\ ceil_div(x, y) \in Nat
         /\ y * ceil_div(x, y) >= x
         /\ x > 0 => ceil_div(x, y) > 0
<1>1. /\ x \div y \in Nat
      /\ x % y \in 0 .. y - 1
      /\ x = y * (x \div y) + (x % y)
  BY Division
<1>2. y * (x \div y + 1) = y * (x \div y) + y
  BY <1>1
<1>3. CASE x % y # 0
  BY <1>1, <1>2, <1>3 DEF ceil_div
<1>4. CASE x % y = 0
  BY <1>1, <1>4 DEF ceil_div
<1> QED
  BY <1>3, <1>4

(* The sizes are positive, and a cluster holds several entries. *)
LEMMA Sizes ==
  /\ cluster_size \in Nat \ {0}
  /\ entrys_per_cluster \in Nat /\ entrys_per_cluster > 1
  /\ fat_entries \in Nat /\ fat_entries > 2
  /\ fat_end \in Nat /\ fat_end > 2
  /\ FatWords \subseteq Nat
<1>1. cluster_size \in Nat \ {0}
  BY LayoutAssumption DEF cluster_size
<1>2. entrys_per_cluster \in Nat
  BY <1>1, Division DEF entrys_per_cluster, DirEntrySize
<1>3. BPB_FATSz32 * BPB_BytsPerSec \in Nat
  BY LayoutAssumption
<1>4. fat_entries \in Nat
  BY <1>3, Division DEF fat_entries
<1> QED
  BY <1>1, <1>2, <1>4, FatFilesAssumption, LayoutAssumption DEF FatWords, fat_end

(* The addresses of clusters grow with the cluster, cluster_size at a time. *)
LEMMA ClusterAddress ==
  ASSUME NEW c \in Nat, c >= 2, NEW n \in Nat
  PROVE  /\ address_from_fatclus(c) \in Nat
         /\ address_from_fatclus(c + n) = address_from_fatclus(c) + cluster_size * n
<1>1. cluster_size \in Nat
  BY Sizes
<1> DEFINE base == address_from_fatsec(fat_location(BPB_NumFATs))
<1>2. fat_location(BPB_NumFATs) \in Nat
  BY LayoutAssumption DEF fat_location
<1>3. base \in Nat
  BY <1>2, LayoutAssumption DEF address_from_fatsec, part1_base
<1>4. cluster_size * (c - 2) \in Nat
  BY <1>1
<1>5. cluster_size * (c + n - 2) = cluster_size * (c - 2) + cluster_size * n
  BY <1>1
<1>6. cluster_size * n \in Nat
  BY <1>1
<1>7. /\ address_from_fatclus(c) = base + cluster_size * (c - 2)
      /\ address_from_fatclus(c + n) = base + cluster_size * (c + n - 2)
  BY DEF address_from_fatclus
<1> HIDE DEF base
<1> QED
  BY <1>3, <1>4, <1>5, <1>6, <1>7

-----------------------------------------------------------------------------
(* Types *)

(* The part of TypeOK about the variables that dir_add_entry assigns. *)
ImageOK ==
  /\ fat \in [FatWords -> Nat]
  /\ current_fat_position \in Nat
  /\ address_regions \in Seq(AddressRegions)
  /\ dirtables \in Seq(DirTables)
  /\ dir_stack \in Seq(Fat_Directories) \ {<< >>}

(* A cluster in reach of fat_find_free is a cluster number. *)
LEMMA FoundType ==
  ASSUME current_fat_position \in Nat, current_fat_position >= 2,
         NEW c \in current_fat_position .. fat_entries + FatSlack
  PROVE  c \in Nat /\ c >= 2
<1>1. fat_entries \in Nat /\ FatSlack \in Nat
  BY Sizes, FatFilesAssumption
<1> QED
  BY <1>1

(* The current directory is one of the stack. *)
LEMMA CurrentDirType ==
  ASSUME ImageOK
  PROVE  /\ Len(dir_stack) \in Nat \ {0}
         /\ Len(dir_stack) \in DOMAIN dir_stack
         /\ current_dir \in Fat_Directories
<1>1. dir_stack \in Seq(Fat_Directories) /\ dir_stack # << >>
  BY DEF ImageOK
<1>2. Len(dir_stack) \in Nat /\ Len(dir_stack) # 0
  BY <1>1
<1>3. DOMAIN dir_stack = 1 .. Len(dir_stack)
  BY <1>1
<1> QED
  BY <1>1, <1>2, <1>3 DEF current_dir

(* The region of a cluster is an address region. *)
LEMMA RegionType ==
  ASSUME NEW c \in Nat, c >= 2, NEW length \in Nat, NEW m \in Pointers, NEW f \in Nat
  PROVE  AddressRegion(address_from_fatclus(c), length, m, f) \in AddressRegions
<1>1. address_from_fatclus(c) \in Nat
  BY ClusterAddress
<1> QED
  BY <1>1 DEF AddressRegion, AddressRegions

(* Every way to add an entry keeps the types. *)
LEMMA AddEntryType ==
  ASSUME ImageOK, NEW entry \in Entries,
         current_fat_position >= 2, current_dir.dir_location >= 2,
         dir_add_entry(entry)
  PROVE  ImageOK'
<1> DEFINE top == Len(dir_stack)
<1>1. /\ top \in Nat \ {0}
      /\ current_dir \in Fat_Directories
      /\ dir_stack \in Seq(Fat_Directories) \ {<< >>}
  BY CurrentDirType DEF ImageOK
<1>2. /\ current_dir.dir_location \in Nat
      /\ current_dir.current_dir_position \in Nat
      /\ current_dir.dirtables \in Seq(Nat \ {0})
  BY <1>1 DEF Fat_Directories
<1>3. Len(dirtables) + 1 \in Nat \ {0}
  BY DEF ImageOK
<1>4. ASSUME NEW ts \in Seq(Nat \ {0}), NEW loc \in Nat, DirWithEntry(ts, loc)
      PROVE  dir_stack' \in Seq(Fat_Directories) \ {<< >>}
  <2> DEFINE d == Fat_Directory(current_dir.path, ts,
                                current_dir.current_dir_position + 1, loc)
  <2>1. d \in Fat_Directories
    BY <1>1, <1>2 DEF Fat_Directories, Fat_Directory
  <2>2. dir_stack' = [dir_stack EXCEPT ![top] = d]
    BY <1>4 DEF DirWithEntry
  <2> HIDE DEF d, top
  <2>3. top \in 1 .. Len(dir_stack)
    BY <1>1 DEF top
  <2>4. dir_stack' \in Seq(Fat_Directories) /\ Len(dir_stack') = Len(dir_stack)
    BY <1>1, <2>1, <2>2, <2>3, ExceptSeq
  <2> QED
    BY <2>4, <1>1 DEF top
<1>5. ASSUME NEW c \in Nat, c >= 2, NEW ts, NewDirTable(c, ts, entry)
      PROVE  dirtables' \in Seq(DirTables) /\ address_regions' \in Seq(AddressRegions)
  <2> DEFINE t == [dir |-> current_dir.path,
                   slots |-> [i \in 0 .. entrys_per_cluster - 1 |->
                                IF i = SlotIn(ts) THEN entry ELSE NoEntry]]
  <2>1. NoEntry \in Entries
    BY DEF NoEntry, Entry, Entries
  <2>2. t \in DirTables
    BY <2>1, <1>1 DEF DirTables, Fat_Directories
  <2>3. dirtables' = Append(dirtables, t)
    BY <1>5 DEF NewDirTable
  <2>4. DirTable(Len(dirtables) + 1) \in Pointers
    BY <1>3 DEF DirTable, Pointers
  <2>5. AddressRegion(address_from_fatclus(c), cluster_size,
                      DirTable(Len(dirtables) + 1), 0) \in AddressRegions
    BY <1>5, <2>4, RegionType, Sizes
  <2> HIDE DEF t
  <2>6. dirtables' \in Seq(DirTables)
    BY <2>2, <2>3, AppendProperties DEF ImageOK
  <2>7. address_regions' \in Seq(AddressRegions)
    BY <2>5, <1>5, AppendProperties DEF NewDirTable, ImageOK
  <2> QED
    BY <2>6, <2>7
<1>6. CASE FirstCluster(entry)
  <2> DEFINE ts == << Len(dirtables) + 1 >>
  <2>1. ts \in Seq(Nat \ {0})
    BY <1>3
  <2>2. NewDirTable(current_dir.dir_location, ts, entry)
        /\ DirWithEntry(ts, current_dir.dir_location)
    BY <1>6 DEF FirstCluster
  <2> HIDE DEF ts
  <2>3. dirtables' \in Seq(DirTables) /\ address_regions' \in Seq(AddressRegions)
    BY <1>2, <1>5, <2>2
  <2>4. dir_stack' \in Seq(Fat_Directories) \ {<< >>}
    BY <1>2, <1>4, <2>1, <2>2
  <2>5. fat' \in [FatWords -> Nat] /\ current_fat_position' \in Nat
    BY <1>6, Sizes DEF FirstCluster, ImageOK
  <2> QED
    BY <2>3, <2>4, <2>5 DEF ImageOK
<1>7. CASE NextCluster(entry)
  <2> DEFINE ts == Append(current_dir.dirtables, Len(dirtables) + 1)
  <2>1. ts \in Seq(Nat \ {0})
    BY <1>2, <1>3
  <2>2. PICK c \in current_fat_position .. fat_entries + FatSlack :
          /\ current_fat_position' = c
          /\ NewDirTable(c, ts, entry)
          /\ fat' = [fat EXCEPT ![current_dir.dir_location] = c, ![c] = fat_end]
          /\ DirWithEntry(ts, c)
    BY <1>7 DEF NextCluster, FatWithLink
  <2>3. c \in Nat /\ c >= 2
    BY <2>2, FoundType DEF ImageOK
  <2> HIDE DEF ts
  <2>4. dirtables' \in Seq(DirTables) /\ address_regions' \in Seq(AddressRegions)
    BY <1>5, <2>2, <2>3
  <2>5. dir_stack' \in Seq(Fat_Directories) \ {<< >>}
    BY <1>4, <2>1, <2>2, <2>3
  <2>6. fat' \in [FatWords -> Nat] /\ current_fat_position' \in Nat
    BY <2>2, <2>3, Sizes DEF ImageOK
  <2> QED
    BY <2>4, <2>5, <2>6 DEF ImageOK
<1>8. CASE SameCluster(entry)
  <2> DEFINE ts == current_dir.dirtables
             t == ts[Len(ts)]
             i == SlotIn(ts)
  <2>1. /\ DirWithEntry(ts, current_dir.dir_location)
        /\ dirtables' = [dirtables EXCEPT ![t].slots[i] = entry]
        /\ UNCHANGED << fat, current_fat_position, address_regions >>
    BY <1>8 DEF SameCluster
  <2>2. dir_stack' \in Seq(Fat_Directories) \ {<< >>}
    BY <1>2, <1>4, <2>1
  <2>3. ASSUME t \in 1 .. Len(dirtables) PROVE dirtables' \in Seq(DirTables)
    <3> DEFINE T == [dir |-> dirtables[t].dir,
                     slots |-> [dirtables[t].slots EXCEPT ![i] = entry]]
    <3>1. dirtables[t] \in DirTables
      BY <2>3, ElementOfSeq DEF ImageOK
    <3>2. T \in DirTables
      BY <3>1 DEF DirTables
    <3>3. [dirtables[t] EXCEPT !.slots[i] = entry] = T
      BY <3>1 DEF DirTables
    <3>4. dirtables' = [dirtables EXCEPT ![t] = T]
      BY <2>1, <3>3
    <3> HIDE DEF T, t, i
    <3> QED
      BY <2>3, <3>2, <3>4, ExceptSeq DEF ImageOK
  <2>4. ASSUME t \notin 1 .. Len(dirtables) PROVE dirtables' = dirtables
    <3>1. DOMAIN dirtables = 1 .. Len(dirtables)
      BY LenProperties DEF ImageOK
    <3> HIDE DEF t, i
    <3>2. \A j \in DOMAIN dirtables : dirtables'[j] = dirtables[j]
      BY <2>1, <2>4, <3>1
    <3>3. dirtables' = [j \in DOMAIN dirtables |-> dirtables'[j]]
      BY <2>1
    <3>4. dirtables = [j \in DOMAIN dirtables |-> dirtables[j]]
      BY LenProperties DEF ImageOK
    <3> QED
      BY <3>2, <3>3, <3>4
  <2> QED
    BY <2>1, <2>2, <2>3, <2>4 DEF ImageOK
<1> QED
  BY <1>6, <1>7, <1>8 DEF dir_add_entry

(* Clusters 0 and 1 are never handed out: the code subtracts 2 from a      *)
(* cluster to find its address.  The . and .. entries go to a directory    *)
(* that has a parent, and LFN entries are added while there are some left. *)
ClustersOK ==
  /\ current_fat_position >= 2
  /\ \A d \in DOMAIN dir_stack : dir_stack[d].dir_location >= 2
  /\ pc \in {"short", "data", "enter"} => job.filePosition >= 2
  /\ pc \in {"dot", "dotdot"} => Len(dir_stack) >= 2
  /\ pc = "lfn" => job.left > 0

TypeInv == TypeOK /\ ClustersOK

JobType == [name : Nat, lfn : Nat, left : Nat, size : Nat, isDirectory : {0, 1},
            clusters_needed : Nat, filePosition : Nat]

PcType == {"readdir", "lfn", "position", "short", "data", "enter", "dot", "dotdot",
           "serving"}

(* The typing invariant, taken apart. *)
LEMMA TypeParts ==
  TypeOK <=> /\ ImageOK
             /\ scan_stack \in Seq(Nat) \ {<< >>}
             /\ scanned \in Nat
             /\ pc \in PcType
             /\ job \in JobType
             /\ events \in SUBSET Events
  BY DEF TypeOK, ImageOK, JobType, PcType

(* The empty job has the type of a job. *)
LEMMA NoJobType == NoJob \in JobType
  BY DEF NoJob, Job, JobType

(* What dir_add_entry does to the stack and to the position in the FAT:    *)
(* only the current directory changes, and its last cluster is never one   *)
(* of the two special ones.                                                *)
LEMMA AddEntryClusters ==
  ASSUME ImageOK, NEW entry \in Entries, dir_add_entry(entry),
         current_fat_position >= 2,
         \A d \in DOMAIN dir_stack : dir_stack[d].dir_location >= 2
  PROVE  /\ ImageOK'
         /\ current_fat_position' >= 2
         /\ \A d \in DOMAIN dir_stack' : dir_stack'[d].dir_location >= 2
         /\ Len(dir_stack') = Len(dir_stack)
<1> DEFINE top == Len(dir_stack)
<1>1. /\ top \in Nat \ {0}
      /\ top \in DOMAIN dir_stack
      /\ current_dir \in Fat_Directories
      /\ dir_stack \in Seq(Fat_Directories) \ {<< >>}
  BY CurrentDirType DEF ImageOK
<1>2. current_dir.dir_location >= 2
  BY <1>1 DEF current_dir
<1>3. ImageOK'
  BY <1>2, AddEntryType
<1>4. ASSUME NEW ts, NEW loc \in Nat, loc >= 2, DirWithEntry(ts, loc)
      PROVE  /\ \A d \in DOMAIN dir_stack' : dir_stack'[d].dir_location >= 2
             /\ Len(dir_stack') = Len(dir_stack)
  BY <1>1, <1>4 DEF DirWithEntry, Fat_Directory
<1>5. CASE FirstCluster(entry)
  BY <1>1, <1>2, <1>3, <1>4, <1>5 DEF FirstCluster, Fat_Directories
<1>6. CASE NextCluster(entry)
  <2>1. PICK c \in current_fat_position .. fat_entries + FatSlack :
          /\ current_fat_position' = c
          /\ DirWithEntry(Append(current_dir.dirtables, Len(dirtables) + 1), c)
    BY <1>6 DEF NextCluster, FatWithLink
  <2>2. c \in Nat /\ c >= 2
    BY <2>1, FoundType DEF ImageOK
  <2> QED
    BY <1>3, <1>4, <2>1, <2>2
<1>7. CASE SameCluster(entry)
  BY <1>1, <1>2, <1>3, <1>4, <1>7 DEF SameCluster, Fat_Directories
<1> QED
  BY <1>3, <1>5, <1>6, <1>7 DEF dir_add_entry

(* What dir_entry_sectors_needed returns is a number of clusters. *)
LEMMA NeededType ==
  ASSUME ImageOK, NEW n \in Nat
  PROVE  dir_entry_sectors_needed(n) \in Nat
<1> DEFINE needed == IF n = 0 THEN 1 ELSE n
           free == entrys_per_cluster
                     - (current_dir.current_dir_position % entrys_per_cluster)
<1>1. entrys_per_cluster \in Nat \ {0}
  BY Sizes
<1>2. current_dir.current_dir_position \in Nat
  BY CurrentDirType DEF Fat_Directories
<1>3. free \in 1 .. entrys_per_cluster
  <2>1. current_dir.current_dir_position % entrys_per_cluster \in 0 .. entrys_per_cluster - 1
    BY <1>1, <1>2, Division
  <2> QED
    BY <1>1, <2>1
<1>4. needed \in Nat
  OBVIOUS
<1>5. ceil_div(needed, entrys_per_cluster) \in Nat
  BY <1>1, <1>4, CeilDiv
<1>6. CASE free > needed
  BY <1>5, <1>6 DEF dir_entry_sectors_needed
<1>7. CASE ~(free > needed)
  <2>1. needed - free \in Nat
    BY <1>3, <1>4, <1>7
  <2>2. ceil_div(needed - free, entrys_per_cluster) \in Nat
    BY <1>1, <2>1, CeilDiv
  <2> QED
    BY <1>5, <1>7, <2>2 DEF dir_entry_sectors_needed
<1> QED
  BY <1>6, <1>7

(* The initial state is typed. *)
LEMMA TypeInit == Init => TypeInv
<1> SUFFICES ASSUME Init PROVE TypeInv
  OBVIOUS
<1>1. fat \in [FatWords -> Nat]
  <2>1. Word \div 16 \in Nat
    BY LayoutAssumption, Division
  <2> QED
    BY <2>1, FatFilesAssumption DEF Init, fat_special
<1>2. address_regions \in Seq(AddressRegions)
  <2>1. /\ part1_base \in Nat
        /\ BPB_BytsPerSec \in Nat
        /\ BPB_BkBootSec * BPB_BytsPerSec \in Nat
        /\ BPB_FSInfo * BPB_BytsPerSec \in Nat
        /\ BPB_FATSz32 * BPB_BytsPerSec \in Nat
    BY LayoutAssumption DEF part1_base
  <2>2. /\ address_from_fatsec(fat_location(0)) \in Nat
        /\ address_from_fatsec(fat_location(1)) \in Nat
    BY <2>1, LayoutAssumption DEF address_from_fatsec, fat_location
  <2>3. ASSUME NEW base \in Nat, NEW length \in Nat,
               NEW kind \in {"mbr", "bootentry", "fsi", "fat"}
        PROVE  AddressRegion(base, length, <<kind, 0>>, 0) \in AddressRegions
    BY DEF AddressRegion, AddressRegions, Pointers
  <2>4. \A i \in 1 .. 6 : SetupRegions[i] \in AddressRegions
    BY <2>1, <2>2, <2>3 DEF SetupRegions
  <2>5. SetupRegions \in Seq(AddressRegions)
    BY <2>4 DEF SetupRegions
  <2> QED
    BY <2>5 DEF Init
<1>3. dir_stack \in Seq(Fat_Directories) \ {<< >>}
  BY DEF Init, Fat_Directories, Fat_Directory, root_dir_loc, RootFolder
<1>4. ImageOK
  BY <1>1, <1>2, <1>3 DEF ImageOK, Init, root_dir_loc
<1>5. TypeOK
  BY <1>4, TypeParts, NoJobType DEF Init, PcType, RootFolder
<1>6. ClustersOK
  BY DEF ClustersOK, Init, root_dir_loc, Fat_Directory
<1> QED
  BY <1>5, <1>6 DEF TypeInv

(* up_dir leaves the directories below the current one as they are.        *)
LEMMA UpDirStack ==
  ASSUME dir_stack \in Seq(Fat_Directories) \ {<< >>}, up_dir
  PROVE  /\ dir_stack' \in Seq(Fat_Directories) \ {<< >>}
         /\ \A d \in DOMAIN dir_stack' :
              d \in DOMAIN dir_stack /\ dir_stack'[d] = dir_stack[d]
<1>1. Len(dir_stack) \in Nat \ {0} /\ DOMAIN dir_stack = 1 .. Len(dir_stack)
  BY LenProperties, EmptySeq
<1>2. CASE Len(dir_stack) > 1
  <2>1. dir_stack' = SubSeq(dir_stack, 1, Len(dir_stack) - 1)
    BY <1>2 DEF up_dir, ParentStack
  <2>2. /\ dir_stack' \in Seq(Fat_Directories)
        /\ Len(dir_stack') = Len(dir_stack) - 1
        /\ \A d \in 1 .. Len(dir_stack) - 1 : dir_stack'[d] = dir_stack[d]
    BY <1>1, <1>2, <2>1, SubSeqProperties
  <2>3. DOMAIN dir_stack' = 1 .. Len(dir_stack) - 1
    BY <2>2, LenProperties
  <2> QED
    BY <1>1, <1>2, <2>2, <2>3
<1>3. CASE ~(Len(dir_stack) > 1)
  BY <1>3 DEF up_dir, ParentStack
<1> QED
  BY <1>2, <1>3

(* The folder being read is one of those on the stack. *)
LEMMA ScannedFolderType ==
  ASSUME TypeInv PROVE scanned_folder \in Nat
<1>1. scan_stack \in Seq(Nat) /\ Len(scan_stack) \in 1 .. Len(scan_stack)
  BY LenProperties, EmptySeq DEF TypeInv, TypeOK
<1> QED
  BY <1>1, ElementOfSeq DEF scanned_folder

(* Every step keeps the types: the image by AddEntryType, the rest by what *)
(* each action assigns.                                                    *)
LEMMA TypeStep == TypeInv /\ [Next]_vars => TypeInv'
<1> SUFFICES ASSUME TypeInv, [Next]_vars PROVE TypeInv'
  OBVIOUS
<1>1. /\ ImageOK
      /\ scan_stack \in Seq(Nat) \ {<< >>}
      /\ scanned \in Nat
      /\ pc \in PcType
      /\ job \in JobType
      /\ events \in SUBSET Events
  BY TypeParts DEF TypeInv
<1>2. /\ current_fat_position >= 2
      /\ \A d \in DOMAIN dir_stack : dir_stack[d].dir_location >= 2
      /\ pc \in {"short", "data", "enter"} => job.filePosition >= 2
      /\ pc \in {"dot", "dotdot"} => Len(dir_stack) >= 2
      /\ pc = "lfn" => job.left > 0
  BY DEF TypeInv, ClustersOK
<1>3. scanned_folder \in Nat
  BY ScannedFolderType
<1>4. ASSUME NEW k \in {"lfn", "file", "dir", "dot", "dotdot"},
             NEW n \in Nat, NEW f \in Nat, NEW s \in Nat, NEW i \in Nat
      PROVE  Entry(k, n, f, s, i) \in Entries
  BY DEF Entry, Entries
<1>5. ASSUME ImageOK', scan_stack' \in Seq(Nat) \ {<< >>}, scanned' \in Nat,
             pc' \in PcType, job' \in JobType, events' \in SUBSET Events
      PROVE  TypeOK'
  BY <1>5 DEF TypeOK, ImageOK, JobType, PcType
<1>6. ASSUME image' = image PROVE ImageOK'
  BY <1>1, <1>6 DEF image, ImageOK
<1>7. ASSUME NEW E \in SUBSET Events PROVE events \cup E \in SUBSET Events
  BY <1>1
<1>8. CASE AddFile \/ AddFolder
  <2>1. PICK n \in Nat, s \in Nat, b \in {0, 1} : add_file(n, s, b)
    BY <1>8, FatFilesAssumption DEF AddFile, AddFolder
  <2>2. s % Word \in Nat
    BY <2>1, LayoutAssumption, Division
  <2>3. job' \in JobType
    BY <1>1, <2>1, <2>2 DEF add_file, Job, JobType
  <2>4. TypeOK'
    BY <1>1, <1>5, <1>6, <2>1, <2>3 DEF add_file, PcType
  <2>5. ClustersOK'
    BY <1>2, <2>1 DEF add_file, ClustersOK, image, Job
  <2> QED
    BY <2>4, <2>5 DEF TypeInv
<1>9. ASSUME NEW e \in Entries, dir_add_entry(e)
      PROVE  /\ ImageOK'
             /\ current_fat_position' >= 2
             /\ \A d \in DOMAIN dir_stack' : dir_stack'[d].dir_location >= 2
             /\ Len(dir_stack') = Len(dir_stack)
  BY <1>1, <1>2, <1>9, AddEntryClusters
<1>10. Overrun \in SUBSET Events /\ {"dir_full"} \in SUBSET Events
       /\ {"drift"} \in SUBSET Events /\ {"fat_full"} \in SUBSET Events
  BY DEF Overrun, Events
<1>11. CASE AddLfnEntry
  <2>1. CASE DirIsFull /\ UNCHANGED << image, job >> /\ events' = events \cup {"dir_full"}
    <3>1. ImageOK' /\ events' \in SUBSET Events
      BY <1>6, <1>7, <1>10, <2>1
    <3>2. TypeOK'
      BY <1>1, <1>5, <1>11, <2>1, <3>1 DEF AddLfnEntry, PcType
    <3>3. ClustersOK'
      BY <1>2, <1>11, <2>1 DEF AddLfnEntry, ClustersOK, image
    <3> QED
      BY <3>2, <3>3 DEF TypeInv
  <2>2. CASE /\ dir_add_entry(LfnEntry)
             /\ job' = [job EXCEPT !.left = @ - 1]
             /\ events' = events \cup Overrun
    <3>1. LfnEntry \in Entries
      BY <1>1, <1>3, <1>4 DEF JobType, LfnEntry
    <3>2. /\ ImageOK'
          /\ current_fat_position' >= 2
          /\ \A d \in DOMAIN dir_stack' : dir_stack'[d].dir_location >= 2
      BY <1>9, <2>2, <3>1
    <3>3. job.left \in Nat /\ job.left > 0
      BY <1>1, <1>2, <1>11 DEF JobType, AddLfnEntry
    <3>4. job' \in JobType /\ events' \in SUBSET Events
      BY <1>1, <1>7, <1>10, <2>2, <3>3 DEF JobType
    <3>5. pc' \in {"lfn", "position"} /\ UNCHANGED << scan_stack, scanned >>
      BY <1>11 DEF AddLfnEntry
    <3>6. pc' = "lfn" => job'.left > 0
      <4>1. job'.left = job.left - 1
        BY <1>1, <2>2 DEF JobType
      <4>2. pc' = "lfn" => job.left > 1
        BY <1>11, <2>2 DEF AddLfnEntry
      <4> QED BY <3>3, <4>1, <4>2
    <3>7. TypeOK'
      BY <1>1, <1>5, <3>2, <3>4, <3>5 DEF PcType
    <3> QED
      BY <3>2, <3>5, <3>6, <3>7 DEF TypeInv, ClustersOK
  <2> QED
    BY <1>11, <2>1, <2>2 DEF AddLfnEntry
<1>12. CASE PickFilePosition
  <2>1. PICK c \in current_fat_position .. fat_entries + FatSlack :
          /\ current_fat_position' = c
          /\ job' = [job EXCEPT
                      !.clusters_needed = dir_entry_sectors_needed(job.lfn),
                      !.filePosition = c + dir_entry_sectors_needed(job.lfn)]
    BY <1>12 DEF PickFilePosition
  <2>2. dir_entry_sectors_needed(job.lfn) \in Nat
    BY <1>1, NeededType DEF JobType
  <2>3. c \in Nat /\ c >= 2
    BY <1>1, <1>2, <2>1, FoundType DEF ImageOK
  <2>4. job' \in JobType /\ job'.filePosition >= 2
    <3> DEFINE n == dir_entry_sectors_needed(job.lfn)
    <3>1. n \in Nat /\ job' = [job EXCEPT !.clusters_needed = n, !.filePosition = c + n]
      BY <2>1, <2>2
    <3> HIDE DEF n
    <3>2. c + n \in Nat /\ c + n >= 2
      BY <2>3, <3>1
    <3> QED
      BY <1>1, <3>1, <3>2 DEF JobType
  <2>5. ImageOK'
    BY <1>1, <1>12, <2>1, <2>3 DEF PickFilePosition, ImageOK
  <2>6. events' \in SUBSET Events
    BY <1>7, <1>10, <1>12 DEF PickFilePosition
  <2>7. pc' = "short" /\ UNCHANGED << dir_stack, scan_stack, scanned >>
    BY <1>12 DEF PickFilePosition
  <2>8. TypeOK'
    BY <1>1, <1>5, <2>4, <2>5, <2>6, <2>7 DEF PcType
  <2> QED
    BY <1>2, <2>1, <2>3, <2>4, <2>7, <2>8 DEF TypeInv, ClustersOK
<1>13. CASE AddShortEntry
  <2>1. CASE dir_add_entry(ShortEntry) /\ UNCHANGED << job, scan_stack >>
             /\ pc' = (IF job.isDirectory # 0 THEN "enter" ELSE "data")
             /\ events' = events \cup Overrun
                  \cup (IF job.clusters_needed # ClustersTaken THEN {"drift"} ELSE {})
    <3>1. ShortEntry \in Entries
      BY <1>1, <1>3, <1>4 DEF ShortEntry, JobType
    <3>2. /\ ImageOK'
          /\ current_fat_position' >= 2
          /\ \A d \in DOMAIN dir_stack' : dir_stack'[d].dir_location >= 2
      BY <1>9, <2>1, <3>1
    <3>3. events' \in SUBSET Events
      BY <1>1, <1>10, <2>1
    <3>4. TypeOK'
      BY <1>1, <1>5, <1>13, <2>1, <3>2, <3>3 DEF AddShortEntry, PcType
    <3> QED
      BY <1>2, <1>13, <2>1, <3>2, <3>4 DEF TypeInv, ClustersOK, AddShortEntry
  <2>2. CASE DirIsFull /\ UNCHANGED image /\ pc' = "readdir" /\ job' = NoJob
             /\ events' = events \cup {"dir_full"}
             /\ scan_stack' = IF job.isDirectory # 0 THEN Append(scan_stack, job.name)
                              ELSE scan_stack
    <3>1. ImageOK' /\ events' \in SUBSET Events
      BY <1>6, <1>7, <1>10, <2>2
    <3>2. scan_stack' \in Seq(Nat) \ {<< >>}
      BY <1>1, <2>2 DEF JobType
    <3>3. TypeOK'
      BY <1>1, <1>5, <1>13, <2>2, <3>1, <3>2, NoJobType DEF AddShortEntry, PcType
    <3>4. ClustersOK'
      BY <1>2, <2>2 DEF ClustersOK, image
    <3> QED
      BY <3>3, <3>4 DEF TypeInv
  <2> QED
    BY <1>13, <2>1, <2>2 DEF AddShortEntry
<1>14. CASE fat_new_file
  <2>1. job.filePosition \in Nat /\ job.filePosition >= 2 /\ FileLength \in Nat
        /\ job.name \in Nat
    BY <1>1, <1>2, <1>14 DEF fat_new_file, FileLength, JobType
  <2>2. fat' \in [FatWords -> Nat] /\ address_regions' \in Seq(AddressRegions)
    <3>1. CASE address_regions' = Append(address_regions,
                 AddressRegion(address_from_fatclus(job.filePosition), FileLength,
                               NoPointer, job.name))
               /\ fat' = FatWithChain(job.filePosition, ClustersRequired)
      <4>1. NoPointer \in Pointers
        BY DEF NoPointer, Pointers
      <4>2. address_regions' \in Seq(AddressRegions)
        BY <1>1, <2>1, <3>1, <4>1, RegionType, AppendProperties DEF ImageOK
      <4>3. fat' \in [FatWords -> Nat]
        BY <1>1, <3>1, Sizes DEF FatWithChain, ImageOK
      <4> QED
        BY <4>2, <4>3
    <3>2. CASE UNCHANGED << fat, address_regions >>
      BY <1>1, <3>2 DEF ImageOK
    <3> QED
      BY <1>14, <3>1, <3>2 DEF fat_new_file
  <2>3. events' \in SUBSET Events
    BY <1>1, <1>7, <1>10, <1>14 DEF fat_new_file
  <2>4. /\ pc' = "readdir"
        /\ job' = NoJob
        /\ UNCHANGED << current_fat_position, dirtables, dir_stack, scan_stack, scanned >>
    BY <1>14 DEF fat_new_file
  <2>5. ImageOK'
    BY <1>1, <2>2, <2>4 DEF ImageOK
  <2>6. TypeOK'
    BY <1>1, <1>5, <2>3, <2>4, <2>5, NoJobType DEF PcType
  <2> QED
    BY <1>2, <2>4, <2>6 DEF TypeInv, ClustersOK
<1>15. CASE EnterFolder
  <2>1. job.filePosition \in Nat /\ job.filePosition >= 2 /\ job.name \in Nat
    BY <1>1, <1>2, <1>15 DEF EnterFolder, JobType
  <2> DEFINE d == Fat_Directory(job.name, << >>, 0, job.filePosition)
  <2>2. d \in Fat_Directories /\ d.dir_location >= 2
    BY <2>1 DEF Fat_Directories, Fat_Directory
  <2>3. dir_stack' = Append(dir_stack, d)
    BY <1>15 DEF EnterFolder
  <2> HIDE DEF d
  <2>4. dir_stack' \in Seq(Fat_Directories) \ {<< >>}
    BY <1>1, <2>2, <2>3, AppendProperties DEF ImageOK
  <2>5. /\ \A e \in DOMAIN dir_stack' : dir_stack'[e].dir_location >= 2
        /\ Len(dir_stack') >= 2
    BY <1>1, <1>2, <2>2, <2>3 DEF ImageOK
  <2>6. /\ events' \in SUBSET Events
        /\ pc' = "dot"
        /\ UNCHANGED << fat, current_fat_position, address_regions, dirtables,
                        scan_stack, scanned, job >>
    BY <1>1, <1>10, <1>15 DEF EnterFolder
  <2>7. ImageOK'
    BY <1>1, <2>4, <2>6 DEF ImageOK
  <2>8. TypeOK'
    BY <1>1, <1>5, <2>6, <2>7 DEF PcType
  <2> QED
    BY <1>2, <2>5, <2>6, <2>8 DEF TypeInv, ClustersOK
<1>16. ASSUME NEW x \in Nat PROVE x % DotWord \in Nat
  BY FatFilesAssumption, Division
<1>17. CASE AddDot
  <2>1. DotEntry \in Entries
    <3>1. current_dir.dir_location % DotWord \in Nat
      BY <1>1, <1>16, CurrentDirType DEF Fat_Directories
    <3> QED
      BY <1>1, <1>4, <3>1 DEF DotEntry, JobType
  <2>2. /\ ImageOK'
        /\ current_fat_position' >= 2
        /\ \A d \in DOMAIN dir_stack' : dir_stack'[d].dir_location >= 2
        /\ Len(dir_stack') >= 2
    BY <1>2, <1>9, <1>17, <2>1 DEF AddDot
  <2>3. events' \in SUBSET Events /\ pc' = "dotdot" /\ UNCHANGED << scan_stack, scanned, job >>
    BY <1>7, <1>10, <1>17 DEF AddDot
  <2>4. TypeOK'
    BY <1>1, <1>5, <2>2, <2>3 DEF PcType
  <2> QED
    BY <2>2, <2>3, <2>4 DEF TypeInv, ClustersOK
<1>18. CASE AddDotDot
  <2>1. DotDotEntry \in Entries
    <3> DEFINE parent == dir_stack[Len(dir_stack) - 1]
    <3>1. Len(dir_stack) - 1 \in 1 .. Len(dir_stack)
      BY <1>1, <1>2, <1>18, CurrentDirType DEF AddDotDot
    <3>2. parent \in Fat_Directories
      BY <1>1, <3>1, ElementOfSeq DEF ImageOK
    <3>3. parent.dir_location % DotWord \in Nat
      BY <1>16, <3>2 DEF Fat_Directories
    <3> QED
      BY <1>1, <1>4, <3>3 DEF DotDotEntry, JobType
  <2>2. /\ ImageOK'
        /\ current_fat_position' >= 2
        /\ \A d \in DOMAIN dir_stack' : dir_stack'[d].dir_location >= 2
    BY <1>9, <1>18, <2>1 DEF AddDotDot
  <2>3. /\ events' \in SUBSET Events
        /\ pc' = "readdir" /\ job' = NoJob
        /\ UNCHANGED scanned
    BY <1>7, <1>10, <1>18 DEF AddDotDot
  <2>4. scan_stack' \in Seq(Nat) \ {<< >>}
    <3>1. job.name \in Nat /\ scan_stack \in Seq(Nat)
      BY <1>1 DEF JobType
    <3>2. scan_stack' = Append(scan_stack, job.name)
      BY <1>18 DEF AddDotDot
    <3> QED BY <3>1, <3>2, AppendProperties
  <2>5. TypeOK'
    BY <1>1, <1>5, <2>2, <2>3, <2>4, NoJobType DEF PcType
  <2> QED
    BY <2>2, <2>3, <2>5 DEF TypeInv, ClustersOK
<1>19. CASE up_dir
  <2>1. scan_stack' \in Seq(Nat) \ {<< >>}
    <3>1. Len(scan_stack) \in Nat /\ Len(scan_stack) > 1
      BY <1>1, <1>19, LenProperties DEF up_dir
    <3>2. scan_stack' = SubSeq(scan_stack, 1, Len(scan_stack) - 1)
      BY <1>19 DEF up_dir
    <3>3. scan_stack' \in Seq(Nat) /\ Len(scan_stack') = Len(scan_stack) - 1
      BY <1>1, <3>1, <3>2, SubSeqProperties
    <3> QED
      BY <3>1, <3>3
  <2>2. /\ dir_stack' \in Seq(Fat_Directories) \ {<< >>}
        /\ \A d \in DOMAIN dir_stack' : d \in DOMAIN dir_stack /\ dir_stack'[d] = dir_stack[d]
    BY <1>1, <1>19, UpDirStack DEF up_dir, ImageOK
  <2>4. UNCHANGED << fat, current_fat_position, address_regions, dirtables,
                     scanned, pc, job, events >>
    BY <1>19 DEF up_dir
  <2>5. ImageOK'
    BY <1>1, <2>2, <2>4 DEF ImageOK
  <2>6. TypeOK'
    BY <1>1, <1>5, <2>1, <2>4, <2>5
  <2> QED
    BY <1>2, <1>19, <2>2, <2>4, <2>6 DEF TypeInv, ClustersOK, up_dir
<1>20. CASE Launch
  <2>1. UNCHANGED << image, scan_stack, scanned, job, events >> /\ pc' = "serving"
    BY <1>20 DEF Launch
  <2>2. TypeOK'
    BY <1>1, <1>5, <1>6, <2>1 DEF PcType
  <2> QED
    BY <1>2, <2>1, <2>2 DEF TypeInv, ClustersOK, image
<1>21. CASE UNCHANGED vars
  BY <1>21 DEF TypeInv, TypeOK, ClustersOK, vars
<1> QED
  BY <1>8, <1>11, <1>12, <1>13, <1>14, <1>15, <1>17, <1>18, <1>19, <1>20, <1>21
     DEF Next, Serve

(* Type correctness, for every disk and folder; and no cluster below 2 is  *)
(* ever handed out.                                                        *)
THEOREM TypeCorrect == Spec => []TypeInv
  BY TypeInit, TypeStep, PTL DEF Spec

(* The type invariant of the runs holds for every disk and folder. *)
THEOREM TypeSafe == Spec => []TypeOK
<1>1. TypeInv => TypeOK
  BY DEF TypeInv
<1> QED
  BY <1>1, TypeCorrect, PTL

=============================================================================
