----------------------------- MODULE VsfatProofs -----------------------------
(***************************************************************************)
(* Theorems about Vsfat.  In the program as a whole the image is built as  *)
(* FatFiles builds it and then left alone, so that what is proved of the   *)
(* builder holds of the image that is being read.                          *)
(*                                                                         *)
(* The frontier of FatFilesSafety is followed to the end of the FAT and    *)
(* past it: FilesKept also says what becomes of the files when no cluster  *)
(* is left.                                                                *)
(*                                                                         *)
(* The last part brings the builder and the reader together: the layouts   *)
(* of the builder are layouts XmpReadProofs is about, the driver's reads   *)
(* meet their regions in order, and a driver's walk is followed through    *)
(* the chains and the dirtables that it reads.                             *)
(***************************************************************************)
EXTENDS Vsfat, FatFilesDirs, FiniteSetTheorems

(* Reads and the driver leave the image, the scan and its history alone. *)
LEMMA OthersLeaveImage ==
  ASSUME OpenEntry \/ FollowChain \/ EndOfChain \/ ServeRead \/ Idle
  PROVE  UNCHANGED vars
<1>1. CASE OpenEntry
  BY <1>1 DEF OpenEntry, ReadCluster
<1>2. CASE FollowChain
  BY <1>2 DEF FollowChain, ReadCluster
<1>3. CASE EndOfChain
  BY <1>3 DEF EndOfChain
<1>4. CASE ServeRead
  BY <1>4 DEF ServeRead
<1>5. CASE Idle
  BY <1>5 DEF Idle, Serve
<1> QED
  BY <1>1, <1>2, <1>3, <1>4, <1>5

(* Every step of the program is one of the builder, or leaves its variables. *)
LEMMA StepBuilds == [VNext]_all => [Next]_vars
<1> SUFFICES ASSUME [VNext]_all PROVE [Next]_vars
  OBVIOUS
<1>1. CASE Build
  BY <1>1 DEF Build
<1>2. CASE OpenEntry \/ FollowChain \/ EndOfChain \/ ServeRead \/ Idle
  BY <1>2, OthersLeaveImage
<1>3. CASE UNCHANGED all
  BY <1>3 DEF all
<1> QED
  BY <1>1, <1>2, <1>3 DEF VNext

(* The whole program implements the builder: whatever is read, and in       *)
(* between, the image is what add_file made it.                             *)
THEOREM ImageAsBuilt == VSpec => Spec
<1>1. VInit => Init
  BY DEF VInit
<1> QED
  BY <1>1, StepBuilds, PTL DEF VSpec, Spec

(* The regions that xmp_read goes over while a driver walks along the FAT   *)
(* are in ascending order and disjoint.                                     *)
THEOREM ServedRegionsAscend == VSpec => []RegionsAscending
  BY ImageAsBuilt, RegionsAscend, PTL

-----------------------------------------------------------------------------
(* The end of the FAT *)

InTable == 0 .. fat_entries - 1

(* The frontier, or, once it is at the end of the FAT, any cluster behind. *)
AtOrBehind(c, hi) == c = hi \/ (hi = fat_entries /\ c >= hi)

(* The clusters of the FAT below hi are taken; no region reaches over hi,  *)
(* unless it lies behind the FAT.                                          *)
FilledToEnd(hi) ==
  /\ \A b \in InTable : b < hi <=> fat[b] # 0
  /\ hi < fat_entries => current_fat_position <= hi
  /\ \A i \in DataRegions : \/ RegionEnd(i) <= address_from_fatclus(hi)
                            \/ address_regions[i].base >= address_from_fatclus(fat_entries)

(* Directories end below hi, each in a cluster of its own, or behind the   *)
(* FAT; a new one is about to take the cluster at the frontier.            *)
DirsToEnd(hi) ==
  /\ \A d \in DOMAIN dir_stack :
       IF Tableless(d)
       THEN d = Len(dir_stack) /\ AtOrBehind(dir_stack[d].dir_location, hi)
       ELSE \/ dir_stack[d].dir_location < hi /\ fat[dir_stack[d].dir_location] = fat_end
            \/ hi = fat_entries /\ dir_stack[d].dir_location >= hi
  /\ \A c, d \in DOMAIN dir_stack :
       c < d /\ dir_stack[c].dir_location = dir_stack[d].dir_location =>
         dir_stack[c].dir_location >= fat_entries

JobToEnd(hi) ==
  /\ pc = "short" =>
       \/ current_fat_position = hi /\ job.filePosition = hi + job.clusters_needed
       \/ hi = fat_entries /\ job.filePosition >= hi
  /\ pc \in {"data", "enter"} => /\ AtOrBehind(job.filePosition, hi)
                                 /\ ~Tableless(Len(dir_stack))

EndInv ==
  PositionsPredicted => \E hi \in 2 .. fat_entries :
                          FilledToEnd(hi) /\ DirsToEnd(hi) /\ JobToEnd(hi)

(* What a step leaves of chains: links and, where no directory ends, end   *)
(* marks; and where it maps a region.                                      *)
ChainsKept(hi) ==
  /\ \A b \in InTable : fat[b] \notin {0, fat_end} => fat'[b] = fat[b]
  /\ \A b \in InTable :
       fat[b] = fat_end /\ (\A d \in DOMAIN dir_stack : dir_stack[d].dir_location # b) => fat'[b] = fat_end
  /\ \A d \in DOMAIN dir_stack' :
       \/ d \in DOMAIN dir_stack /\ dir_stack'[d].dir_location = dir_stack[d].dir_location
       \/ dir_stack'[d].dir_location \in InTable => fat[dir_stack'[d].dir_location] = 0
  /\ \/ address_regions' = address_regions
     \/ \E r : r.base >= address_from_fatclus(hi) /\ address_regions' = Append(address_regions, r)

(* The clusters of the FAT are words of it. *)
LEMMA TableWords ==
  /\ InTable \subseteq FatWords /\ InTable \subseteq Nat
  /\ \A b \in Nat : b < fat_entries => b \in InTable
  /\ fat_entries \in Nat /\ fat_entries > 2 /\ FatSlack \in Nat
  /\ cluster_size \in Nat \ {0} /\ fat_end \in Nat /\ fat_end > 2
BY Sizes, FatFilesAssumption DEF InTable, FatWords

(* Addresses grow with clusters. *)
LEMMA AddressOrder ==
  ASSUME NEW c \in Nat, NEW d \in Nat, c >= 2, d >= c
  PROVE  /\ address_from_fatclus(c) \in Nat /\ address_from_fatclus(d) \in Nat
         /\ address_from_fatclus(c) <= address_from_fatclus(d)
         /\ c < d => address_from_fatclus(c) + cluster_size <= address_from_fatclus(d)
<1> DEFINE n == d - c
<1>1. n \in Nat /\ c + n = d
  OBVIOUS
<1> HIDE DEF n
<1>2. /\ address_from_fatclus(c) \in Nat
      /\ address_from_fatclus(c + n) = address_from_fatclus(c) + cluster_size * n
  BY <1>1, ClusterAddress
<1>3. cluster_size \in Nat \ {0} /\ cluster_size * n \in Nat /\ (n > 0 => cluster_size * n >= cluster_size)
  <2>1. cluster_size \in Nat \ {0}
    BY Sizes
  <2>2. n > 0 => n - 1 \in Nat /\ cluster_size * n = cluster_size * (n - 1) + cluster_size
    BY <1>1, <2>1
  <2>3. n > 0 => cluster_size * (n - 1) \in Nat
    BY <2>1, <2>2
  <2> QED BY <1>1, <2>1, <2>2, <2>3
<1>4. c < d => n > 0
  BY <1>1
<1>5. address_from_fatclus(d) = address_from_fatclus(c) + cluster_size * n
  BY <1>1, <1>2
<1> DEFINE y == cluster_size * n
<1> HIDE DEF y
<1>6. y \in Nat /\ (c < d => y >= cluster_size) /\ address_from_fatclus(d) = address_from_fatclus(c) + y
  BY <1>3, <1>4, <1>5 DEF y
<1> QED BY <1>2, <1>3, <1>6

(* fat_find_free stops at the frontier, or behind the FAT if there is none. *)
LEMMA FoundAtEnd ==
  ASSUME TypeInv, NEW hi \in 2 .. fat_entries, FilledToEnd(hi),
         NEW c \in current_fat_position .. fat_entries + FatSlack, fat_find_free(c)
  PROVE  /\ AtOrBehind(c, hi) /\ c \in Nat /\ c >= 2
         /\ hi < fat_entries => c = hi
<1>1. /\ current_fat_position \in Nat /\ current_fat_position >= 2
      /\ hi \in Nat /\ fat_entries \in Nat /\ c \in Nat /\ c >= current_fat_position
  BY TableWords DEF TypeInv, TypeOK, ClustersOK
<1>2. \A b \in Nat : b < fat_entries => (b < hi <=> fat[b] # 0)
  BY TableWords DEF FilledToEnd
<1>3. hi < fat_entries => current_fat_position <= hi
  BY DEF FilledToEnd
<1>4. CASE fat[current_fat_position] = 0 /\ c = current_fat_position
  <2>1. ~(c < fat_entries /\ c < hi)
    BY <1>1, <1>2, <1>4
  <2> QED BY <1>1, <1>3, <1>4, <2>1 DEF AtOrBehind
<1>5. CASE /\ fat[current_fat_position] # 0 /\ c > current_fat_position
           /\ \A b \in current_fat_position + 1 .. c - 1 : b < fat_entries /\ fat[b] # 0
           /\ c >= fat_entries \/ fat[c] = 0
  <2>1. c < fat_entries => ~(c < hi)
    BY <1>1, <1>2, <1>5
  <2>2. hi < fat_entries => current_fat_position # hi
    BY <1>1, <1>2, <1>5
  <2>3. hi < fat_entries => ~(hi < c)
    <3> SUFFICES ASSUME hi < fat_entries, hi < c PROVE FALSE
      OBVIOUS
    <3>1. hi \in current_fat_position + 1 .. c - 1
      BY <1>1, <1>3, <2>2
    <3>2. fat[hi] # 0
      BY <1>5, <3>1
    <3> QED BY <1>1, <1>2, <3>2
  <2> QED BY <1>1, <2>1, <2>3 DEF AtOrBehind
<1> QED BY <1>4, <1>5 DEF fat_find_free

(* A region mapped at the frontier, or behind the FAT. *)
LEMMA RegionAtEnd ==
  ASSUME TypeInv, NEW hi \in 2 .. fat_entries, FilledToEnd(hi), NEW c \in Nat, c >= 2,
         NEW n \in Nat, NEW h \in 2 .. fat_entries, h >= hi,
         (c = hi /\ h = hi + n) \/ c >= fat_entries,
         NEW size \in Nat, size <= cluster_size * n, NEW m, NEW f,
         address_regions' = Append(address_regions, AddressRegion(address_from_fatclus(c), size, m, f))
  PROVE  \A i \in DataRegions' : \/ RegionEnd(i)' <= address_from_fatclus(h)
                                 \/ address_regions'[i].base >= address_from_fatclus(fat_entries)
<1> DEFINE r == AddressRegion(address_from_fatclus(c), size, m, f)
<1>0. PICK last \in Nat : last = Len(address_regions) + 1
  BY LenProperties DEF TypeInv, TypeOK
<1>1. r.base = address_from_fatclus(c) /\ r.length = size
  BY DEF AddressRegion
<1>2. address_regions' = Append(address_regions, r)
  OBVIOUS
<1> HIDE DEF r
<1>3. /\ Len(address_regions') = last /\ Len(address_regions) \in Nat
      /\ \A i \in 1 .. Len(address_regions) : address_regions'[i] = address_regions[i]
      /\ address_regions'[last] = r
  BY <1>0, <1>2, RegionAppended
<1>4. hi \in Nat /\ h \in Nat /\ fat_entries \in Nat /\ hi >= 2
  BY TableWords
<1>5. address_from_fatclus(hi) \in Nat /\ address_from_fatclus(h) \in Nat
      /\ address_from_fatclus(hi) <= address_from_fatclus(h)
  BY <1>4, AddressOrder
<1>6. ASSUME NEW i \in DataRegions', i # last
      PROVE  \/ RegionEnd(i)' <= address_from_fatclus(h)
             \/ address_regions'[i].base >= address_from_fatclus(fat_entries)
  <2>1. i \in DataRegions /\ i \in 1 .. Len(address_regions)
    <3>1. Len(SetupRegions) \in Nat
      BY DEF SetupRegions
    <3> QED BY <1>0, <1>3, <1>6, <3>1 DEF DataRegions
  <2>2. address_regions'[i] = address_regions[i] /\ RegionEnd(i)' = RegionEnd(i)
    BY <1>3, <2>1 DEF RegionEnd
  <2>3. RegionEnd(i) \in Nat
    <3>1. address_regions[i] \in AddressRegions
      BY <2>1, ElementOfSeq DEF TypeInv, TypeOK
    <3> QED BY <3>1 DEF RegionEnd, AddressRegions
  <2>4. RegionEnd(i) <= address_from_fatclus(hi) \/ address_regions[i].base >= address_from_fatclus(fat_entries)
    BY <2>1 DEF FilledToEnd
  <2> QED BY <1>5, <2>2, <2>3, <2>4
<1>7. \/ RegionEnd(last)' <= address_from_fatclus(h)
      \/ address_regions'[last].base >= address_from_fatclus(fat_entries)
  <2>1. RegionEnd(last)' = address_from_fatclus(c) + size /\ address_regions'[last].base = address_from_fatclus(c)
    BY <1>1, <1>3 DEF RegionEnd
  <2>2. CASE c = hi /\ h = hi + n
    <3>1. address_from_fatclus(h) = address_from_fatclus(hi) + cluster_size * n
      BY <1>4, <2>2, ClusterAddress
    <3>2. cluster_size * n \in Nat
      BY TableWords
    <3> QED BY <1>5, <2>1, <2>2, <3>1, <3>2
  <2>3. CASE c >= fat_entries
    <3>1. address_from_fatclus(fat_entries) <= address_from_fatclus(c)
      BY <2>3, TableWords, AddressOrder
    <3> QED BY <2>1, <3>1
  <2> QED BY <2>2, <2>3
<1> QED BY <1>6, <1>7

(* dir_add_entry takes cluster c for the current directory. *)
Taken(c) ==
  /\ current_dir'.dir_location = c
  /\ current_fat_position' \in {current_fat_position, c}
  /\ address_regions' = Append(address_regions,
       AddressRegion(address_from_fatclus(c), cluster_size, DirTable(Len(dirtables) + 1), 0))
  /\ c \in FatWords => fat'[c] = fat_end
  /\ \A b \in FatWords :
       b # c => \/ fat'[b] = fat[b]
                \/ ~Tableless(Len(dir_stack)) /\ b = current_dir.dir_location /\ fat'[b] = c

(* It takes the one at the frontier, or one behind the FAT, if it takes one. *)
LEMMA EntryTakes ==
  ASSUME TypeInv, PackedInv, NEW hi \in 2 .. fat_entries, FilledToEnd(hi), DirsToEnd(hi),
         NEW entry \in Entries, dir_add_entry(entry)
  PROVE  \/ /\ UNCHANGED << fat, current_fat_position, address_regions >>
            /\ current_dir'.dir_location = current_dir.dir_location
            /\ ~Tableless(Len(dir_stack)) /\ ClustersTaken = 0
         \/ \E c \in Nat : c >= 2 /\ AtOrBehind(c, hi) /\ Taken(c) /\ ClustersTaken = 1
<1> DEFINE top == Len(dir_stack)
           loc == current_dir.dir_location
<1>1. /\ top \in DOMAIN dir_stack /\ current_dir = dir_stack[top]
      /\ loc \in Nat /\ current_dir.dirtables \in Seq(Nat \ {0})
      /\ current_dir.current_dir_position \in Nat
      /\ (Tableless(top) <=> current_dir.dirtables = << >>)
  BY TopShape DEF Tableless
<1>2. loc >= 2 /\ Len(dirtables) + 1 \in Nat \ {0} /\ fat \in [FatWords -> Nat]
      /\ entrys_per_cluster \in Nat \ {0}
      /\ current_dir.current_dir_position % entrys_per_cluster \in Nat
  <2>1. loc >= 2
    BY <1>1 DEF TypeInv, ClustersOK
  <2>2. Len(dirtables) \in Nat /\ fat \in [FatWords -> Nat]
    BY LenProperties DEF TypeInv, TypeOK
  <2>3. entrys_per_cluster \in Nat \ {0}
    BY Sizes
  <2>4. current_dir.current_dir_position % entrys_per_cluster \in Nat
    BY <1>1, <2>3, Division
  <2> QED BY <2>1, <2>2, <2>3, <2>4
<1>3. CASE FirstCluster(entry)
  <2>1. /\ current_dir.dirtables = << >>
        /\ NewDirTable(loc, << Len(dirtables) + 1 >>, entry)
        /\ fat' = [fat EXCEPT ![loc] = fat_end]
        /\ DirWithEntry(<< Len(dirtables) + 1 >>, loc)
        /\ current_fat_position' = current_fat_position
    BY <1>3 DEF FirstCluster
  <2>2. << Len(dirtables) + 1 >> \in Seq(Nat \ {0})
    BY <1>2
  <2>3. current_dir'.dir_location = loc
    BY <1>1, <2>1, <2>2, TopReplaced
  <2>4. address_regions' = Append(address_regions,
          AddressRegion(address_from_fatclus(loc), cluster_size, DirTable(Len(dirtables) + 1), 0))
    BY <2>1 DEF NewDirTable
  <2>5. AtOrBehind(loc, hi)
    BY <1>1, <2>1 DEF DirsToEnd
  <2>6. current_dir.current_dir_position = 0
    <3>1. current_dir.current_dir_position <= entrys_per_cluster * Len(current_dir.dirtables)
      BY <1>1 DEF PackedInv, DirectoriesPacked
    <3>2. Len(current_dir.dirtables) = 0
      BY <2>1
    <3>3. entrys_per_cluster * 0 = 0
      BY <1>2
    <3> QED BY <1>1, <3>1, <3>2, <3>3
  <2>7. ClustersTaken = 1
    <3>1. 0 \in 0 .. entrys_per_cluster - 1 /\ entrys_per_cluster * 0 + 0 = 0
      BY <1>2
    <3>2. 0 % entrys_per_cluster = 0
      BY <1>2, <3>1, Remainder
    <3> QED BY <2>6, <3>2 DEF ClustersTaken
  <2>8. Taken(loc)
    BY <1>2, <2>1, <2>3, <2>4 DEF Taken
  <2> QED BY <1>1, <1>2, <2>5, <2>7, <2>8
<1>4. CASE NextCluster(entry)
  <2> DEFINE ts == Append(current_dir.dirtables, Len(dirtables) + 1)
  <2>1. PICK c \in current_fat_position .. fat_entries + FatSlack :
          /\ fat_find_free(c) /\ current_fat_position' = c
          /\ NewDirTable(c, ts, entry) /\ fat' = FatWithLink(c) /\ DirWithEntry(ts, c)
    BY <1>4 DEF NextCluster
  <2>2. c \in Nat /\ c >= 2 /\ AtOrBehind(c, hi)
    BY <2>1, FoundAtEnd
  <2>3. ts \in Seq(Nat \ {0})
    BY <1>1, <1>2
  <2>4. address_regions' = Append(address_regions,
          AddressRegion(address_from_fatclus(c), cluster_size, DirTable(Len(dirtables) + 1), 0))
    BY <2>1 DEF NewDirTable
  <2> HIDE DEF ts
  <2>5. current_dir'.dir_location = c
    BY <2>1, <2>2, <2>3, TopReplaced
  <2>6. fat' = [fat EXCEPT ![loc] = c, ![c] = fat_end]
    BY <2>1 DEF FatWithLink
  <2>7. ~Tableless(top)
    BY <1>1, <1>4 DEF NextCluster
  <2>8. Taken(c)
    BY <1>2, <2>1, <2>4, <2>5, <2>6, <2>7 DEF Taken
  <2>9. ClustersTaken = 1
    BY <1>2, <1>4 DEF NextCluster, ClustersTaken
  <2> QED BY <2>2, <2>8, <2>9
<1>5. CASE SameCluster(entry)
  <2>1. /\ DirWithEntry(current_dir.dirtables, loc) /\ current_dir.dirtables # << >>
        /\ UNCHANGED << fat, current_fat_position, address_regions >>
    BY <1>5 DEF SameCluster
  <2>2. current_dir'.dir_location = loc
    BY <1>1, <2>1, TopReplaced
  <2>3. ClustersTaken = 0
    BY <1>2, <1>5 DEF SameCluster, ClustersTaken
  <2> QED BY <1>1, <2>1, <2>2, <2>3
<1> QED BY <1>3, <1>4, <1>5 DEF dir_add_entry

(* The frontier after an entry. *)
LEMMA EntryAtEnd ==
  ASSUME TypeInv, TypeInv', PackedInv, NEW hi \in 2 .. fat_entries, FilledToEnd(hi), DirsToEnd(hi),
         NEW entry \in Entries, dir_add_entry(entry)
  PROVE  \E h \in 2 .. fat_entries :
           /\ h = hi + ClustersTaken \/ (h = hi /\ hi = fat_entries)
           /\ FilledToEnd(h)' /\ DirsToEnd(h)' /\ ChainsKept(hi)
           /\ ~Tableless(Len(dir_stack))'
<1> DEFINE loc == current_dir.dir_location
<1>0. PICK top \in Nat \ {0} : top = Len(dir_stack)
  BY TopShape
<1>1. /\ DOMAIN dir_stack = 1 .. top /\ top \in DOMAIN dir_stack /\ current_dir = dir_stack[top]
      /\ loc \in Nat /\ \A d \in DOMAIN dir_stack : dir_stack[d].dir_location \in Nat
  BY <1>0, TopShape, StackShape
<1>2. /\ DOMAIN dir_stack' = DOMAIN dir_stack /\ Len(dir_stack') = top
      /\ \A d \in DOMAIN dir_stack : d # top => dir_stack'[d] = dir_stack[d]
      /\ current_dir' = dir_stack'[top] /\ current_dir'.dirtables # << >>
  BY <1>0, EntryPlaced DEF Placed, current_dir
<1>3. hi \in Nat /\ hi >= 2
  BY TableWords
<1>4. \A d \in DOMAIN dir_stack :
        d # top => /\ ~Tableless(d) /\ dir_stack'[d].dirtables # << >>
                   /\ dir_stack'[d].dir_location = dir_stack[d].dir_location
                   /\ \/ dir_stack[d].dir_location < hi /\ fat[dir_stack[d].dir_location] = fat_end
                      \/ hi = fat_entries /\ dir_stack[d].dir_location >= hi
  <2>1. \A d \in DOMAIN dir_stack : d # top => ~Tableless(d)
    BY <1>0 DEF DirsToEnd
  <2>2. \A d \in DOMAIN dir_stack : d # top => dir_stack'[d] = dir_stack[d]
    BY <1>2
  <2>3. \A d \in DOMAIN dir_stack :
          d # top => \/ dir_stack[d].dir_location < hi /\ fat[dir_stack[d].dir_location] = fat_end
                     \/ hi = fat_entries /\ dir_stack[d].dir_location >= hi
    BY <2>1 DEF DirsToEnd
  <2> QED BY <2>1, <2>2, <2>3 DEF Tableless
<1>5. ~Tableless(Len(dir_stack))'
  BY <1>2 DEF Tableless
<1>6. ~Tableless(top) => \/ loc < hi /\ fat[loc] = fat_end
                         \/ hi = fat_entries /\ loc >= hi
  BY <1>1 DEF DirsToEnd
<1>7. \A d \in DOMAIN dir_stack : d # top /\ dir_stack[d].dir_location = loc => loc >= fat_entries
  <2> SUFFICES ASSUME NEW d \in DOMAIN dir_stack, d # top, dir_stack[d].dir_location = loc
               PROVE  loc >= fat_entries
    OBVIOUS
  <2>1. d < top
    BY <1>1
  <2> QED BY <1>1, <2>1 DEF DirsToEnd
<1>8. CASE /\ UNCHANGED << fat, current_fat_position, address_regions >>
           /\ current_dir'.dir_location = loc /\ ~Tableless(top) /\ ClustersTaken = 0
  <2>1. FilledToEnd(hi)'
    BY <1>8 DEF FilledToEnd, DataRegions, RegionEnd
  <2>2. \A d \in DOMAIN dir_stack : dir_stack'[d].dir_location = dir_stack[d].dir_location
    BY <1>1, <1>2, <1>4, <1>8
  <2>3. DirsToEnd(hi)'
    <3>1. \A d \in DOMAIN dir_stack : dir_stack'[d].dirtables # << >>
      BY <1>2, <1>4
    <3>2. \A d \in DOMAIN dir_stack : \/ dir_stack'[d].dir_location < hi /\ fat'[dir_stack'[d].dir_location] = fat_end
                                      \/ hi = fat_entries /\ dir_stack'[d].dir_location >= hi
      BY <1>1, <1>4, <1>6, <1>8, <2>2
    <3>3. \A c, d \in DOMAIN dir_stack :
            c < d /\ dir_stack'[c].dir_location = dir_stack'[d].dir_location =>
              dir_stack'[c].dir_location >= fat_entries
      BY <2>2 DEF DirsToEnd
    <3> QED BY <1>2, <3>1, <3>2, <3>3 DEF DirsToEnd, Tableless
  <2>4. ChainsKept(hi)
    BY <1>2, <1>8, <2>2 DEF ChainsKept
  <2>5. hi = hi + ClustersTaken
    BY <1>3, <1>8
  <2> QED BY <1>5, <2>1, <2>3, <2>4, <2>5
<1>9. ASSUME NEW c \in Nat, c >= 2, AtOrBehind(c, hi), Taken(c), ClustersTaken = 1
      PROVE  \E h \in 2 .. fat_entries :
               /\ h = hi + ClustersTaken \/ (h = hi /\ hi = fat_entries)
               /\ FilledToEnd(h)' /\ DirsToEnd(h)' /\ ChainsKept(hi)
               /\ ~Tableless(Len(dir_stack))'
  <2> DEFINE h == IF hi < fat_entries THEN hi + 1 ELSE hi
  <2>1. /\ h \in 2 .. fat_entries /\ h >= hi /\ h \in Nat
        /\ h = hi + ClustersTaken \/ (h = hi /\ hi = fat_entries)
        /\ (c = hi /\ h = hi + 1 /\ hi < fat_entries) \/ (c >= fat_entries /\ h = hi /\ hi = fat_entries)
    BY <1>3, <1>9, TableWords DEF AtOrBehind
  <2> HIDE DEF h
  <2>2. /\ c \in FatWords => fat'[c] = fat_end
        /\ \A b \in FatWords :
             b # c => \/ fat'[b] = fat[b]
                      \/ ~Tableless(top) /\ b = loc /\ fat'[b] = c
        /\ current_dir'.dir_location = c
    BY <1>0, <1>9 DEF Taken
  <2>3. \A b \in InTable : b < hi <=> fat[b] # 0
    BY DEF FilledToEnd
  <2>4. \A b \in InTable : b \in Nat /\ b < fat_entries /\ b \in FatWords
    BY TableWords DEF InTable
  <2>5. FilledToEnd(h)'
    <3>1. ASSUME NEW b \in InTable PROVE b < h <=> fat'[b] # 0
      <4>1. CASE b = c
        BY <1>3, <2>1, <2>2, <2>4, <4>1, TableWords
      <4>2. CASE b # c /\ fat'[b] = fat[b]
        BY <1>3, <2>1, <2>3, <2>4, <4>2
      <4>3. CASE b # c /\ ~Tableless(top) /\ b = loc /\ fat'[b] = c
        <5>1. b < hi
          BY <1>3, <1>6, <2>4, <4>3
        <5> QED BY <1>3, <1>9, <2>1, <2>4, <4>3, <5>1
      <4> QED BY <2>2, <2>4, <4>1, <4>2, <4>3
    <3>2. h < fat_entries => current_fat_position' <= h
      <4>1. current_fat_position' \in {current_fat_position, c} /\ current_fat_position \in Nat
        BY <1>9 DEF Taken, TypeInv, TypeOK
      <4>2. hi < fat_entries => current_fat_position <= hi
        BY DEF FilledToEnd
      <4> QED BY <1>3, <2>1, <4>1, <4>2, TableWords
    <3>3. \A i \in DataRegions' : \/ RegionEnd(i)' <= address_from_fatclus(h)
                                  \/ address_regions'[i].base >= address_from_fatclus(fat_entries)
      <4>1. address_regions' = Append(address_regions,
              AddressRegion(address_from_fatclus(c), cluster_size, DirTable(Len(dirtables) + 1), 0))
        BY <1>9 DEF Taken
      <4>2. cluster_size \in Nat /\ cluster_size <= cluster_size * 1
        BY TableWords
      <4>3. (c = hi /\ h = hi + 1) \/ c >= fat_entries
        BY <2>1
      <4> QED BY <1>9, <2>1, <4>1, <4>2, <4>3, RegionAtEnd
    <3> QED BY <3>1, <3>2, <3>3 DEF FilledToEnd
  <2>6. ASSUME NEW d \in DOMAIN dir_stack, d # top, dir_stack[d].dir_location < hi
        PROVE  fat'[dir_stack[d].dir_location] = fat_end
    <3>1. dir_stack[d].dir_location \in InTable /\ fat[dir_stack[d].dir_location] = fat_end
      BY <1>1, <1>3, <1>4, <2>6, TableWords
    <3>2. dir_stack[d].dir_location # c /\ dir_stack[d].dir_location < fat_entries
      BY <1>1, <1>3, <2>1, <2>6, TableWords
    <3>3. dir_stack[d].dir_location # loc
      BY <1>1, <1>7, <2>6, <3>2, TableWords
    <3> QED BY <2>2, <2>4, <3>1, <3>2, <3>3
  <2>7. DirsToEnd(h)'
    <3>1. \A d \in DOMAIN dir_stack : dir_stack'[d].dirtables # << >>
      BY <1>2, <1>4
    <3>2. ASSUME NEW d \in DOMAIN dir_stack
          PROVE  \/ dir_stack'[d].dir_location < h /\ fat'[dir_stack'[d].dir_location] = fat_end
                 \/ h = fat_entries /\ dir_stack'[d].dir_location >= h
      <4>1. CASE d = top
        <5>1. dir_stack'[d].dir_location = c
          BY <1>2, <2>2, <4>1
        <5>2. c = hi /\ hi < fat_entries => c \in FatWords
          BY <1>3, TableWords
        <5> QED BY <1>3, <2>1, <2>2, <5>1, <5>2
      <4>2. CASE d # top
        <5>1. /\ dir_stack'[d].dir_location = dir_stack[d].dir_location
              /\ \/ dir_stack[d].dir_location < hi
                 \/ hi = fat_entries /\ dir_stack[d].dir_location >= hi
          BY <1>4, <4>2
        <5>2. dir_stack[d].dir_location < hi => fat'[dir_stack[d].dir_location] = fat_end
          BY <2>6, <4>2
        <5> QED BY <1>1, <1>3, <2>1, <5>1, <5>2
      <4> QED BY <4>1, <4>2
    <3>3. ASSUME NEW x \in DOMAIN dir_stack, NEW d \in DOMAIN dir_stack, x < d,
                 dir_stack'[x].dir_location = dir_stack'[d].dir_location
          PROVE  dir_stack'[x].dir_location >= fat_entries
      <4>1. x # top /\ dir_stack'[x].dir_location = dir_stack[x].dir_location
        BY <1>1, <1>4, <3>3
      <4>2. CASE d = top
        <5>1. dir_stack[x].dir_location = c
          BY <1>2, <2>2, <3>3, <4>1, <4>2
        <5>2. dir_stack[x].dir_location < hi \/ hi = fat_entries
          BY <1>4, <4>1
        <5> QED BY <1>1, <1>3, <2>1, <4>1, <5>1, <5>2
      <4>3. CASE d # top
        <5>1. dir_stack'[d].dir_location = dir_stack[d].dir_location
          BY <1>4, <4>3
        <5> QED BY <3>3, <4>1, <5>1 DEF DirsToEnd
      <4> QED BY <4>2, <4>3
    <3> QED BY <1>2, <3>1, <3>2, <3>3 DEF DirsToEnd, Tableless
  <2>8. ChainsKept(hi)
    <3>1. ASSUME NEW b \in InTable, fat[b] # 0
          PROVE  b # c
      BY <1>3, <2>1, <2>3, <2>4, <3>1, TableWords
    <3>2. \A b \in InTable : fat[b] \notin {0, fat_end} => fat'[b] = fat[b]
      <4> SUFFICES ASSUME NEW b \in InTable, fat[b] \notin {0, fat_end} PROVE fat'[b] = fat[b]
        OBVIOUS
      <4>1. ~(~Tableless(top) /\ b = loc)
        BY <1>3, <1>6, <2>4, TableWords
      <4> QED BY <2>2, <2>4, <3>1, <4>1
    <3>3. \A b \in InTable :
            fat[b] = fat_end /\ (\A d \in DOMAIN dir_stack : dir_stack[d].dir_location # b) => fat'[b] = fat_end
      <4> SUFFICES ASSUME NEW b \in InTable, fat[b] = fat_end,
                          \A d \in DOMAIN dir_stack : dir_stack[d].dir_location # b
                   PROVE  fat'[b] = fat_end
        OBVIOUS
      <4>1. b # loc
        BY <1>1
      <4>2. b # c
        BY <3>1, TableWords
      <4> QED BY <2>2, <2>4, <4>1, <4>2
    <3>4. \A d \in DOMAIN dir_stack' :
            \/ d \in DOMAIN dir_stack /\ dir_stack'[d].dir_location = dir_stack[d].dir_location
            \/ dir_stack'[d].dir_location \in InTable => fat[dir_stack'[d].dir_location] = 0
      <4>1. c \in InTable => fat[c] = 0
        BY <3>1
      <4> QED BY <1>2, <1>4, <2>2, <4>1
    <3>5. \E r : r.base >= address_from_fatclus(hi) /\ address_regions' = Append(address_regions, r)
      <4> DEFINE r == AddressRegion(address_from_fatclus(c), cluster_size, DirTable(Len(dirtables) + 1), 0)
      <4>1. address_regions' = Append(address_regions, r) /\ r.base = address_from_fatclus(c)
        BY <1>9 DEF Taken, AddressRegion
      <4>2. address_from_fatclus(c) >= address_from_fatclus(hi)
        <5>1. c >= hi
          BY <1>3, <2>1
        <5> QED BY <1>3, <1>9, <5>1, AddressOrder
      <4> HIDE DEF r
      <4> QED BY <4>1, <4>2
    <3> QED BY <3>2, <3>3, <3>4, <3>5 DEF ChainsKept
  <2> QED BY <1>5, <2>1, <2>5, <2>7, <2>8
<1> QED BY <1>0, <1>8, <1>9, EntryTakes

(* The frontier after a file: it has its chain at the frontier, or, where   *)
(* the test for room fails to see that there is none, behind the FAT.      *)
LEMMA ChainAtEnd ==
  ASSUME TypeInv, NEW hi \in 2 .. fat_entries, FilledToEnd(hi), DirsToEnd(hi),
         AtOrBehind(job.filePosition, hi), ~Tableless(Len(dir_stack)), fat_new_file
  PROVE  \E h \in 2 .. fat_entries : FilledToEnd(h)' /\ DirsToEnd(h)' /\ ChainsKept(hi)
<1>1. hi \in Nat /\ hi >= 2 /\ job.filePosition \in Nat /\ job.filePosition >= hi
  BY TableWords DEF TypeInv, TypeOK, AtOrBehind
<1>2. UNCHANGED << current_fat_position, dir_stack >>
  BY DEF fat_new_file
<1>3. CASE UNCHANGED << fat, address_regions >>
  <2>1. FilledToEnd(hi)' /\ DirsToEnd(hi)' /\ ChainsKept(hi)
    BY <1>2, <1>3 DEF FilledToEnd, DirsToEnd, ChainsKept, DataRegions, RegionEnd, Tableless
  <2> QED BY <2>1
<1>4. CASE /\ FatHasRoom
           /\ address_regions' = Append(address_regions,
                AddressRegion(address_from_fatclus(job.filePosition), FileLength, NoPointer, job.name))
           /\ fat' = FatWithChain(job.filePosition, ClustersRequired)
  <2> DEFINE p == job.filePosition
             n == ClustersRequired
  <2>1. n \in Nat \ {0} /\ FileLength \in Nat /\ FileLength <= cluster_size * n
    <3>1. job.size \in Nat
      BY DEF TypeInv, TypeOK
    <3>2. FileLength \in Nat /\ FileLength > 0
      BY <3>1 DEF FileLength
    <3>3. ceil_div(FileLength, cluster_size) \in Nat /\ cluster_size * ceil_div(FileLength, cluster_size) >= FileLength
          /\ ceil_div(FileLength, cluster_size) > 0
      BY <3>2, Sizes, CeilDiv
    <3>4. cluster_size * ceil_div(FileLength, cluster_size) \in Nat
      BY <3>3, Sizes
    <3> QED BY <3>2, <3>3, <3>4 DEF ClustersRequired
  <2>2. p = hi => n <= fat_entries - hi
    <3> SUFFICES ASSUME p = hi PROVE n <= fat_entries - hi
      OBVIOUS
    <3>1. fat_entries - hi \in Nat /\ fat_entries - hi < Word /\ Word \in Nat \ {0}
      <4>1. fat_entries + FatSlack < Word /\ Word \in Nat
        BY FatFilesAssumption, LayoutAssumption
      <4> QED BY <1>1, <4>1, TableWords
    <3>2. (fat_entries - hi) % Word = fat_entries - hi
      BY <3>1, SmallRemainder
    <3> QED BY <1>4, <3>2 DEF FatHasRoom
  <2>3. p # hi => hi = fat_entries /\ p >= fat_entries
    BY DEF AtOrBehind
  <2> HIDE DEF n
  <2>4. PICK h \in 2 .. fat_entries :
          h \in Nat /\ h >= hi /\ ((p = hi /\ h = hi + n) \/ (p >= fat_entries /\ h = hi))
    <3>1. CASE p = hi
      <4>1. hi + n \in 2 .. fat_entries /\ hi + n \in Nat /\ hi + n >= hi
        BY <1>1, <2>1, <2>2, <3>1, TableWords
      <4> QED BY <3>1, <4>1
    <3>2. CASE p # hi
      BY <1>1, <2>3, <3>2
    <3> QED BY <3>1, <3>2
  <2>5. ASSUME NEW b \in FatWords
        PROVE  /\ b \in Nat
               /\ b < p => fat'[b] = fat[b]
               /\ b >= p /\ b < p + n => fat'[b] # 0
               /\ b >= p + n => fat'[b] = fat[b]
    <3>1. fat'[b] = IF b = p + n - 1 THEN fat_end ELSE IF b \in p .. p + n - 2 THEN b + 1 ELSE fat[b]
      BY <1>4 DEF FatWithChain, n
    <3> DEFINE q == p
    <3>2. q \in Nat /\ b \in Nat
      BY <1>1, Sizes
    <3> HIDE DEF q
    <3>3. fat'[b] = IF b = q + n - 1 THEN fat_end ELSE IF b \in q .. q + n - 2 THEN b + 1 ELSE fat[b]
      BY <3>1 DEF q
    <3>4. /\ b < q => fat'[b] = fat[b]
          /\ b >= q /\ b < q + n => fat'[b] # 0
          /\ b >= q + n => fat'[b] = fat[b]
      <4>1. CASE b < q
        <5>1. b # q + n - 1 /\ b \notin q .. q + n - 2
          BY <2>1, <3>2, <4>1
        <5> QED BY <2>1, <3>2, <3>3, <4>1, <5>1
      <4>2. CASE b >= q /\ b < q + n
        <5>1. b = q + n - 1 \/ b \in q .. q + n - 2
          BY <2>1, <3>2, <4>2
        <5> QED BY <2>1, <3>2, <3>3, <4>2, <5>1, TableWords
      <4>3. CASE b >= q + n
        <5>1. b # q + n - 1 /\ b \notin q .. q + n - 2
          BY <2>1, <3>2, <4>3
        <5> QED BY <2>1, <3>2, <3>3, <4>3, <5>1
      <4> QED BY <2>1, <3>2, <4>1, <4>2, <4>3
    <3> QED BY <3>2, <3>4 DEF q
  <2>6. FilledToEnd(h)'
    <3>1. ASSUME NEW b \in InTable PROVE b < h <=> fat'[b] # 0
      <4>1. b \in FatWords /\ b < fat_entries /\ b \in Nat
        BY TableWords DEF InTable
      <4>2. b < hi <=> fat[b] # 0
        BY DEF FilledToEnd
      <4>3. /\ b < p => fat'[b] = fat[b]
            /\ b >= p /\ b < p + n => fat'[b] # 0
            /\ b >= p + n => fat'[b] = fat[b]
        BY <2>5, <4>1
      <4>4. CASE p = hi /\ h = hi + n
        BY <1>1, <2>1, <4>1, <4>2, <4>3, <4>4
      <4>5. CASE p >= fat_entries /\ h = hi
        BY <1>1, <2>1, <4>1, <4>2, <4>3, <4>5, TableWords
      <4> QED BY <2>4, <4>4, <4>5
    <3>2. h < fat_entries => current_fat_position' <= h
      <4>1. current_fat_position' = current_fat_position /\ current_fat_position \in Nat
        BY <1>2 DEF TypeInv, TypeOK
      <4>2. hi < fat_entries => current_fat_position <= hi
        BY DEF FilledToEnd
      <4> QED BY <1>1, <2>4, <4>1, <4>2, TableWords
    <3>3. \A i \in DataRegions' : \/ RegionEnd(i)' <= address_from_fatclus(h)
                                  \/ address_regions'[i].base >= address_from_fatclus(fat_entries)
      <4>1. (p = hi /\ h = hi + n) \/ p >= fat_entries
        BY <2>4
      <4>2. p \in Nat /\ p >= 2
        BY <1>1
      <4> QED BY <1>4, <2>1, <2>4, <4>1, <4>2, RegionAtEnd
    <3> QED BY <3>1, <3>2, <3>3 DEF FilledToEnd
  <2>7. DirsToEnd(h)'
    <3>1. \A d \in DOMAIN dir_stack : ~Tableless(d)
      BY DEF DirsToEnd
    <3>2. ASSUME NEW d \in DOMAIN dir_stack
          PROVE  \/ dir_stack[d].dir_location < h /\ fat'[dir_stack[d].dir_location] = fat_end
                 \/ h = fat_entries /\ dir_stack[d].dir_location >= h
      <4>1. dir_stack[d].dir_location \in Nat
        BY StackShape
      <4>2. \/ dir_stack[d].dir_location < hi /\ fat[dir_stack[d].dir_location] = fat_end
            \/ hi = fat_entries /\ dir_stack[d].dir_location >= hi
        BY <3>1 DEF DirsToEnd
      <4>3. CASE dir_stack[d].dir_location < hi /\ fat[dir_stack[d].dir_location] = fat_end
        <5>1. dir_stack[d].dir_location \in FatWords /\ dir_stack[d].dir_location < p
          BY <1>1, <4>1, <4>3, TableWords
        <5>2. fat'[dir_stack[d].dir_location] = fat_end
          BY <2>5, <4>3, <5>1
        <5>3. dir_stack[d].dir_location < h
          BY <1>1, <2>4, <4>1, <4>3
        <5> QED BY <5>2, <5>3
      <4>4. CASE hi = fat_entries /\ dir_stack[d].dir_location >= hi
        <5>1. h = hi
          BY <1>1, <2>4, <4>4
        <5> QED BY <4>4, <5>1
      <4> QED BY <4>2, <4>3, <4>4
    <3> QED BY <1>2, <3>1, <3>2 DEF DirsToEnd, Tableless
  <2>8. ChainsKept(hi)
    <3>1. \A b \in InTable : fat[b] # 0 => fat'[b] = fat[b]
      <4> SUFFICES ASSUME NEW b \in InTable, fat[b] # 0 PROVE fat'[b] = fat[b]
        OBVIOUS
      <4>1. b < hi /\ b \in FatWords /\ b \in Nat
        BY TableWords DEF FilledToEnd
      <4> QED BY <1>1, <2>5, <4>1
    <3>2. \A b \in InTable : fat[b] = fat_end => fat'[b] = fat_end
      BY <3>1, TableWords
    <3>3. \E r : r.base >= address_from_fatclus(hi) /\ address_regions' = Append(address_regions, r)
      <4> DEFINE r == AddressRegion(address_from_fatclus(p), FileLength, NoPointer, job.name)
      <4>1. r.base = address_from_fatclus(p) /\ address_regions' = Append(address_regions, r)
        BY <1>4 DEF AddressRegion
      <4>2. address_from_fatclus(p) >= address_from_fatclus(hi)
        BY <1>1, AddressOrder
      <4> HIDE DEF r
      <4> QED BY <4>1, <4>2
    <3> QED BY <1>2, <3>1, <3>2, <3>3 DEF ChainsKept
  <2> QED BY <2>4, <2>6, <2>7, <2>8
<1> QED BY <1>3, <1>4 DEF fat_new_file

(* The frontier is followed through every step of the builder that keeps   *)
(* to the predictions, and chains are kept.                                *)
LEMMA EndStep ==
  ASSUME TypeInv, TypeInv', PackedInv, EndInv, [Next]_vars, PositionsPredicted'
  PROVE  /\ EndInv'
         /\ \E hi \in 2 .. fat_entries :
              FilledToEnd(hi) /\ DirsToEnd(hi) /\ JobToEnd(hi) /\ ChainsKept(hi)
<1> SUFFICES \E hi \in 2 .. fat_entries :
               /\ FilledToEnd(hi) /\ DirsToEnd(hi) /\ JobToEnd(hi) /\ ChainsKept(hi)
               /\ \E h \in 2 .. fat_entries : FilledToEnd(h)' /\ DirsToEnd(h)' /\ JobToEnd(h)'
  BY DEF EndInv
<1>1. PositionsPredicted
  BY EventsGrow DEF PositionsPredicted
<1>2. PICK hi \in 2 .. fat_entries : FilledToEnd(hi) /\ DirsToEnd(hi) /\ JobToEnd(hi)
  BY <1>1 DEF EndInv
<1>3. hi \in Nat /\ hi >= 2
  BY TableWords
<1> SUFFICES /\ ChainsKept(hi)
             /\ \E h \in 2 .. fat_entries : FilledToEnd(h)' /\ DirsToEnd(h)' /\ JobToEnd(h)'
  BY <1>2
<1>4. ASSUME NEW entry \in Entries, dir_add_entry(entry), EntryOfJob(entry)
      PROVE  /\ ChainsKept(hi)
             /\ \E h \in 2 .. fat_entries : FilledToEnd(h)' /\ DirsToEnd(h)' /\ JobToEnd(h)'
  <2>1. PICK h \in 2 .. fat_entries :
          /\ h = hi + ClustersTaken \/ (h = hi /\ hi = fat_entries)
          /\ FilledToEnd(h)' /\ DirsToEnd(h)' /\ ChainsKept(hi)
          /\ ~Tableless(Len(dir_stack))'
    BY <1>2, <1>4, EntryAtEnd
  <2>2. h \in Nat /\ ClustersTaken \in Nat /\ fat_entries \in Nat
    BY TableWords DEF ClustersTaken
  <2>3. CASE pc = "short" /\ job' = job
    <3>1. AddShortEntry /\ ~DirIsFull
      BY <1>4, <2>3 DEF EntryOfJob, AddLfnEntry, AddDot, AddDotDot, dir_add_entry
    <3>2. "drift" \in events' \/ job.clusters_needed = ClustersTaken
      BY <3>1 DEF AddShortEntry
    <3>3. job.clusters_needed = ClustersTaken
      BY <3>2 DEF PositionsPredicted
    <3>4. \/ job.filePosition = hi + ClustersTaken
          \/ hi = fat_entries /\ job.filePosition >= hi
      BY <1>2, <2>3, <3>3 DEF JobToEnd
    <3>5. AtOrBehind(job.filePosition, h)
      <4>1. job.filePosition \in Nat
        BY DEF TypeInv, TypeOK
      <4> QED BY <1>3, <2>1, <2>2, <3>4, <4>1 DEF AtOrBehind
    <3>6. pc' # "short"
      BY <2>3, <1>4, EntryControl
    <3> QED BY <2>1, <2>3, <3>5, <3>6 DEF JobToEnd, AtOrBehind, Tableless
  <2>4. CASE pc' \notin {"short", "data", "enter"}
    BY <2>1, <2>4 DEF JobToEnd
  <2> QED BY <1>4, <2>3, <2>4, EntryControl
<1>5. ASSUME UNCHANGED << fat, address_regions, dir_stack >>,
             hi < fat_entries => current_fat_position' <= hi
      PROVE  ChainsKept(hi) /\ FilledToEnd(hi)' /\ DirsToEnd(hi)'
  BY <1>2, <1>5 DEF FilledToEnd, DirsToEnd, ChainsKept, DataRegions, RegionEnd, Tableless
<1>6. CASE Quiet
  <2>1. CASE fat_new_file
    <3>1. AtOrBehind(job.filePosition, hi) /\ ~Tableless(Len(dir_stack)) /\ pc' = "readdir"
      BY <1>2, <2>1 DEF JobToEnd, fat_new_file
    <3>2. PICK h \in 2 .. fat_entries : FilledToEnd(h)' /\ DirsToEnd(h)' /\ ChainsKept(hi)
      BY <1>2, <2>1, <3>1, ChainAtEnd
    <3>3. JobToEnd(h)'
      BY <3>1 DEF JobToEnd
    <3> QED BY <3>2, <3>3
  <2>2. CASE PickFilePosition
    <3>1. PICK c \in current_fat_position .. fat_entries + FatSlack :
            /\ fat_find_free(c) /\ current_fat_position' = c
            /\ job' = [job EXCEPT !.clusters_needed = dir_entry_sectors_needed(job.lfn),
                                  !.filePosition = c + dir_entry_sectors_needed(job.lfn)]
      BY <2>2 DEF PickFilePosition
    <3>2. AtOrBehind(c, hi) /\ c \in Nat /\ (hi < fat_entries => c = hi)
      BY <1>2, <3>1, FoundAtEnd
    <3>3. dir_entry_sectors_needed(job.lfn) \in Nat
      <4>1. ImageOK /\ job.lfn \in Nat
        BY DEF TypeInv, TypeOK, ImageOK
      <4> QED BY <4>1, NeededType
    <3> DEFINE k == dir_entry_sectors_needed(job.lfn)
    <3>4. job'.filePosition = c + k /\ job'.clusters_needed = k
      BY <3>1 DEF TypeInv, TypeOK
    <3> HIDE DEF k
    <3>5. UNCHANGED << fat, address_regions, dir_stack >> /\ pc' = "short"
      BY <2>2 DEF PickFilePosition
    <3>6. k \in Nat
      BY <3>3 DEF k
    <3>7. JobToEnd(hi)'
      BY <1>3, <3>1, <3>2, <3>4, <3>5, <3>6 DEF JobToEnd, AtOrBehind
    <3>8. hi < fat_entries => current_fat_position' <= hi
      BY <1>3, <3>1, <3>2
    <3> QED BY <1>5, <3>5, <3>7, <3>8
  <2>3. CASE /\ UNCHANGED << fat, address_regions, dir_stack, current_fat_position >>
             /\ pc' \notin {"short", "data", "enter"} \/ UNCHANGED << pc, job >>
    <3>1. hi < fat_entries => current_fat_position' <= hi
      BY <1>2, <2>3 DEF FilledToEnd
    <3>2. JobToEnd(hi)'
      BY <1>2, <2>3 DEF JobToEnd, Tableless
    <3> QED BY <1>5, <2>3, <3>1, <3>2
  <2>4. CASE AddFile \/ AddFolder
    BY <2>3, <2>4 DEF AddFile, AddFolder, add_file, image
  <2>5. CASE Launch \/ UNCHANGED vars
    BY <2>3, <2>5 DEF Launch, vars, image
  <2>6. CASE (AddLfnEntry \/ AddShortEntry) /\ Dropped
    <3>1. UNCHANGED << fat, address_regions, dir_stack, current_fat_position >>
      BY <2>6 DEF Dropped, image
    <3>2. pc' \notin {"short", "data", "enter"}
      BY <2>6 DEF Dropped, AddLfnEntry, AddShortEntry, dir_add_entry
    <3> QED BY <2>3, <3>1, <3>2
  <2> QED BY <1>6, <2>1, <2>2, <2>4, <2>5, <2>6 DEF Quiet
<1>7. CASE EnterFolder
  <2>1. /\ UNCHANGED << fat, address_regions, current_fat_position >> /\ pc = "enter" /\ pc' = "dot"
    BY <1>7 DEF EnterFolder
  <2>2. PICK top \in Nat \ {0} : top = Len(dir_stack) + 1
    BY TopShape
  <2>3. /\ Len(dir_stack') = top /\ DOMAIN dir_stack' = 1 .. top
        /\ DOMAIN dir_stack = 1 .. top - 1
        /\ dir_stack'[top] = Fat_Directory(job.name, << >>, 0, job.filePosition)
        /\ \A c \in 1 .. top - 1 : dir_stack'[c] = dir_stack[c]
    BY <1>7, <2>2, FolderEntered
  <2>4. AtOrBehind(job.filePosition, hi) /\ \A d \in DOMAIN dir_stack : ~Tableless(d)
    <3>1. ~Tableless(Len(dir_stack))
      BY <1>2, <2>1 DEF JobToEnd
    <3> QED BY <1>2, <2>1, <3>1 DEF JobToEnd, DirsToEnd
  <2>5. dir_stack'[top].dir_location = job.filePosition /\ dir_stack'[top].dirtables = << >>
    BY <2>3 DEF Fat_Directory
  <2>6. FilledToEnd(hi)'
    BY <1>2, <2>1 DEF FilledToEnd, DataRegions, RegionEnd
  <2>7. DirsToEnd(hi)'
    <3>1. ASSUME NEW d \in 1 .. top
          PROVE  IF dir_stack'[d].dirtables = << >>
                 THEN d = top /\ AtOrBehind(dir_stack'[d].dir_location, hi)
                 ELSE \/ dir_stack'[d].dir_location < hi /\ fat'[dir_stack'[d].dir_location] = fat_end
                      \/ hi = fat_entries /\ dir_stack'[d].dir_location >= hi
      <4>1. CASE d = top
        BY <2>4, <2>5, <4>1
      <4>2. CASE d # top
        <5>1. d \in DOMAIN dir_stack /\ dir_stack'[d] = dir_stack[d]
          BY <2>3, <4>2
        <5> QED BY <1>2, <2>1, <2>4, <5>1 DEF DirsToEnd, Tableless
      <4> QED BY <4>1, <4>2
    <3>2. ASSUME NEW x \in 1 .. top, NEW d \in 1 .. top, x < d,
                 dir_stack'[x].dir_location = dir_stack'[d].dir_location
          PROVE  dir_stack'[x].dir_location >= fat_entries
      <4>1. x \in DOMAIN dir_stack /\ dir_stack'[x] = dir_stack[x] /\ x # top
        BY <2>3, <3>2
      <4>2. CASE d = top
        <5>1. dir_stack[x].dir_location = job.filePosition
          BY <2>5, <3>2, <4>1, <4>2
        <5>2. dir_stack[x].dir_location < hi \/ hi = fat_entries
          BY <1>2, <2>4, <4>1 DEF DirsToEnd
        <5>3. dir_stack[x].dir_location \in Nat
          BY <4>1, StackShape
        <5> QED BY <1>3, <2>4, <4>1, <5>1, <5>2, <5>3, TableWords DEF AtOrBehind
      <4>3. CASE d # top
        <5>1. d \in DOMAIN dir_stack /\ dir_stack'[d] = dir_stack[d]
          BY <2>3, <4>3
        <5> QED BY <1>2, <3>2, <4>1, <5>1 DEF DirsToEnd
      <4> QED BY <4>2, <4>3
    <3> QED BY <2>3, <3>1, <3>2 DEF DirsToEnd, Tableless, AtOrBehind
  <2>8. ChainsKept(hi)
    <3>1. job.filePosition \in InTable => fat[job.filePosition] = 0
      <4>1. job.filePosition \in InTable => job.filePosition = hi
        <5>1. \A b \in InTable : b < fat_entries /\ b \in Nat
          BY TableWords DEF InTable
        <5>2. job.filePosition = hi \/ (hi = fat_entries /\ job.filePosition >= fat_entries)
          BY <2>4 DEF AtOrBehind
        <5>3. fat_entries \in Nat
          BY TableWords
        <5> QED BY <5>1, <5>2, <5>3
      <4> QED BY <1>2, <1>3, <4>1, TableWords DEF FilledToEnd
    <3>2. \A d \in DOMAIN dir_stack' :
            \/ d \in DOMAIN dir_stack /\ dir_stack'[d] = dir_stack[d]
            \/ d = top
      BY <2>3
    <3> QED BY <2>1, <2>5, <3>1, <3>2 DEF ChainsKept
  <2>9. JobToEnd(hi)'
    BY <2>1 DEF JobToEnd
  <2> QED BY <2>6, <2>7, <2>8, <2>9
<1>8. CASE up_dir
  <2>1. /\ \A d \in DOMAIN dir_stack' : d \in DOMAIN dir_stack /\ dir_stack'[d] = dir_stack[d]
        /\ DOMAIN dir_stack' = 1 .. Len(dir_stack')
    BY <1>8, UpDirStack, LenProperties DEF TypeInv, TypeOK
  <2>2. /\ UNCHANGED << fat, address_regions, current_fat_position, pc >> /\ pc = "readdir"
    BY <1>8 DEF up_dir
  <2>3. FilledToEnd(hi)' /\ JobToEnd(hi)'
    BY <1>2, <2>2 DEF FilledToEnd, DataRegions, RegionEnd, JobToEnd
  <2>4. \A d \in DOMAIN dir_stack' : Tableless(d) => d = Len(dir_stack')
    <3> SUFFICES ASSUME NEW d \in DOMAIN dir_stack', Tableless(d) PROVE d = Len(dir_stack')
      OBVIOUS
    <3>1. d = Len(dir_stack) /\ DOMAIN dir_stack = 1 .. Len(dir_stack) /\ Len(dir_stack) \in Nat
      BY <1>2, <2>1, TopShape DEF DirsToEnd
    <3>2. Len(dir_stack') \in Nat
      BY LenProperties DEF TypeInv, TypeOK
    <3>3. Len(dir_stack') # 0 => Len(dir_stack') \in DOMAIN dir_stack
      BY <2>1, <3>2
    <3> QED BY <2>1, <3>1, <3>2, <3>3
  <2>5. DirsToEnd(hi)'
    <3>1. \A d \in DOMAIN dir_stack' :
            IF dir_stack'[d].dirtables = << >>
            THEN d = Len(dir_stack') /\ AtOrBehind(dir_stack'[d].dir_location, hi)
            ELSE \/ dir_stack'[d].dir_location < hi /\ fat'[dir_stack'[d].dir_location] = fat_end
                 \/ hi = fat_entries /\ dir_stack'[d].dir_location >= hi
      BY <1>2, <2>1, <2>2, <2>4 DEF DirsToEnd, Tableless
    <3>2. \A c, d \in DOMAIN dir_stack' :
            c < d /\ dir_stack'[c].dir_location = dir_stack'[d].dir_location =>
              dir_stack'[c].dir_location >= fat_entries
      BY <1>2, <2>1 DEF DirsToEnd
    <3> QED BY <3>1, <3>2 DEF DirsToEnd, Tableless, AtOrBehind
  <2>6. ChainsKept(hi)
    BY <2>1, <2>2 DEF ChainsKept
  <2> QED BY <2>3, <2>5, <2>6
<1> QED BY <1>4, <1>6, <1>7, <1>8, StepKinds

(* The empty image has its frontier at the root directory's cluster. *)
LEMMA EndInit == Init => EndInv
<1> SUFFICES ASSUME Init PROVE EndInv
  OBVIOUS
<1>1. /\ DOMAIN dir_stack = {1} /\ Len(dir_stack) = 1 /\ dir_stack[1].dirtables = << >>
      /\ dir_stack[1].dir_location = 2 /\ pc = "readdir" /\ current_fat_position = 2
  BY DEF Init, Fat_Directory, root_dir_loc
<1>2. DataRegions = {}
  BY DEF Init, DataRegions, SetupRegions
<1>3. \A b \in InTable : b < 2 <=> fat[b] # 0
  <2>1. fat_special(0) # 0 /\ fat_special(1) # 0
    <3>1. Word \div 16 \in Nat /\ Word \div 16 > 8
      BY FatFilesAssumption, LayoutAssumption, Division
    <3> QED BY <3>1 DEF fat_special
  <2>2. \A b \in InTable : fat[b] = IF b < 2 THEN fat_special(b) ELSE 0
    BY TableWords DEF Init
  <2>3. \A b \in InTable : b < 2 => b \in {0, 1}
    BY TableWords
  <2> QED BY <2>1, <2>2, <2>3
<1>4. 2 \in 2 .. fat_entries
  BY TableWords
<1>5. FilledToEnd(2) /\ DirsToEnd(2) /\ JobToEnd(2)
  BY <1>1, <1>2, <1>3 DEF FilledToEnd, DirsToEnd, JobToEnd, AtOrBehind, Tableless
<1> QED BY <1>4, <1>5 DEF EndInv

(* Only a short entry can turn out to be where it was not predicted. *)
LEMMA OnlyShortDrifts ==
  ASSUME [Next]_vars, PositionsPredicted, ~PositionsPredicted'
  PROVE  /\ AddShortEntry /\ dir_add_entry(ShortEntry)
         /\ job.clusters_needed # ClustersTaken
<1>1. "drift" \in events' /\ "drift" \notin events /\ "drift" \notin Overrun
  BY DEF PositionsPredicted, Overrun
<1>2. /\ ~UNCHANGED vars /\ ~AddFile /\ ~AddFolder /\ ~PickFilePosition
      /\ ~up_dir /\ ~Launch /\ ~Serve
  BY <1>1 DEF vars, AddFile, AddFolder, add_file, PickFilePosition, up_dir, Launch, Serve
<1>3. ~AddLfnEntry /\ ~AddDot /\ ~AddDotDot /\ ~EnterFolder /\ ~fat_new_file
  BY <1>1 DEF AddLfnEntry, AddDot, AddDotDot, EnterFolder, fat_new_file
<1>4. AddShortEntry
  BY <1>2, <1>3 DEF Next
<1> QED BY <1>1, <1>4 DEF AddShortEntry

(* Chains are kept by the step in which an entry drifts as well. *)
LEMMA ChainsToEnd ==
  ASSUME TypeInv, TypeInv', PackedInv, EndInv, [Next]_vars, PositionsPredicted
  PROVE  \E hi \in 2 .. fat_entries : FilledToEnd(hi) /\ ChainsKept(hi)
<1>1. CASE PositionsPredicted'
  BY <1>1, EndStep
<1>2. CASE ~PositionsPredicted'
  <2>1. PICK hi \in 2 .. fat_entries : FilledToEnd(hi) /\ DirsToEnd(hi)
    BY DEF EndInv
  <2>2. dir_add_entry(ShortEntry)
    BY <1>2, OnlyShortDrifts
  <2>3. ShortEntry \in Entries
    <3>1. job.name \in Nat /\ job.filePosition \in Nat /\ job.size \in Nat
      BY DEF TypeInv, TypeOK
    <3> QED BY <3>1, ScannedFolderType DEF ShortEntry, Entry, Entries, TypeInv, TypeOK
  <2> QED BY <2>1, <2>2, <2>3, EntryAtEnd
<1> QED BY <1>1, <1>2

-----------------------------------------------------------------------------
(* Files are kept *)

(* No region has the name at hand yet: fat_new_file maps a file last. *)
RegionsNamed ==
  \A i \in DataRegions :
    LET f == address_regions[i].file_path IN f <= scanned /\ (f # 0 => f # job.name)

(* A step that maps no file, or the one of the name it is done with. *)
LEMMA RegionsNamedStep ==
  ASSUME TypeInv, TypeInv', PackedInv, NamesInv, RegionsNamed, [Next]_vars
  PROVE  RegionsNamed'
<1>1. scanned \in Nat /\ job.name \in Nat /\ NoJob.name = 0 /\ Numbered
  BY DEF TypeInv, TypeOK, NoJob, Job, NamesInv
<1>2. \A i \in DataRegions : address_regions[i].file_path \in Nat
  <2>1. Len(SetupRegions) \in Nat
    BY DEF SetupRegions
  <2>2. \A i \in DataRegions : address_regions[i] \in AddressRegions
    BY <2>1, ElementOfSeq, LenProperties DEF TypeInv, TypeOK, DataRegions
  <2> QED BY <2>2 DEF AddressRegions
<1>3. ASSUME address_regions' = address_regions, scanned' \in Nat, scanned' >= scanned,
             job'.name \in {0, job.name} \/ job'.name = scanned + 1
      PROVE  RegionsNamed'
  <2> SUFFICES ASSUME NEW i \in DataRegions
               PROVE  LET f == address_regions[i].file_path IN f <= scanned' /\ (f # 0 => f # job'.name)
    BY <1>3 DEF RegionsNamed, DataRegions
  <2> DEFINE f == address_regions[i].file_path
  <2>1. f \in Nat /\ f <= scanned /\ (f # 0 => f # job.name)
    BY <1>2 DEF RegionsNamed
  <2> HIDE DEF f
  <2>2. f <= scanned' /\ (f # 0 => f # job'.name)
    BY <1>1, <1>3, <2>1
  <2> QED BY <2>2 DEF f
<1>4. ASSUME NEW r, address_regions' = Append(address_regions, r), scanned' = scanned,
             job'.name \in {0, job.name}, r.file_path \in {0, job.name}, job.name <= scanned,
             r.file_path # 0 => r.file_path # job'.name
      PROVE  RegionsNamed'
  <2> SUFFICES ASSUME NEW i \in DataRegions'
               PROVE  LET f == address_regions'[i].file_path IN f <= scanned' /\ (f # 0 => f # job'.name)
    BY DEF RegionsNamed
  <2>1. /\ Len(address_regions') = Len(address_regions) + 1 /\ Len(address_regions) \in Nat
        /\ \A j \in 1 .. Len(address_regions) : address_regions'[j] = address_regions[j]
        /\ address_regions'[Len(address_regions) + 1] = r
    BY <1>4, RegionAppended
  <2>2. Len(SetupRegions) \in Nat
    BY DEF SetupRegions
  <2>3. CASE i = Len(address_regions) + 1
    BY <1>1, <1>4, <2>1, <2>3
  <2>4. CASE i # Len(address_regions) + 1
    <3>1. i \in DataRegions /\ i \in 1 .. Len(address_regions)
      BY <2>1, <2>2, <2>4 DEF DataRegions
    <3> DEFINE f == address_regions[i].file_path
    <3>2. f \in Nat /\ f <= scanned /\ (f # 0 => f # job.name)
      BY <1>2, <3>1 DEF RegionsNamed
    <3>3. address_regions'[i].file_path = f
      BY <2>1, <3>1
    <3> HIDE DEF f
    <3> QED BY <1>4, <3>2, <3>3
  <2> QED BY <2>3, <2>4
<1>5. ASSUME NEW entry \in Entries, dir_add_entry(entry), EntryOfJob(entry)
      PROVE  RegionsNamed'
  <2>1. scanned' = scanned /\ job'.name \in {0, job.name} /\ pc \notin {"readdir", "serving"}
    BY <1>1, <1>5, EntryControl
  <2>2. job.name <= scanned
    BY <1>1, <2>1 DEF Numbered
  <2>3. PICK t, i : Placed(entry, t, i)
    BY <1>5, EntryPlaced
  <2>4. CASE t \in DOMAIN dirtables
    BY <1>1, <1>3, <2>1, <2>3, <2>4 DEF Placed
  <2>5. CASE t \notin DOMAIN dirtables
    <3> DEFINE r == AddressRegion(address_from_fatclus(current_dir'.dir_location), cluster_size,
                                  DirTable(t), 0)
    <3>1. address_regions' = Append(address_regions, r)
      BY <2>3, <2>5 DEF Placed
    <3>2. r.file_path = 0
      BY DEF AddressRegion
    <3> HIDE DEF r
    <3> QED BY <1>4, <2>1, <2>2, <3>1, <3>2
  <2> QED BY <2>4, <2>5
<1>6. CASE Quiet
  <2>1. CASE fat_new_file /\ FatHasRoom
    <3> DEFINE r == AddressRegion(address_from_fatclus(job.filePosition), FileLength,
                                  NoPointer, job.name)
    <3>1. address_regions' = Append(address_regions, r) /\ pc = "data"
          /\ scanned' = scanned /\ job' = NoJob
      BY <2>1 DEF fat_new_file
    <3>2. r.file_path = job.name
      BY DEF AddressRegion
    <3>3. job.name <= scanned /\ job'.name = 0
      BY <1>1, <3>1 DEF Numbered
    <3> HIDE DEF r
    <3> QED BY <1>4, <3>1, <3>2, <3>3
  <2>2. CASE address_regions' = address_regions
    <3>1. scanned' \in Nat /\ scanned' >= scanned
          /\ (job'.name \in {0, job.name} \/ job'.name = scanned + 1)
      BY <1>1, <1>6, QuietControl
    <3> QED BY <1>3, <2>2, <3>1
  <2> QED BY <1>6, <2>1, <2>2 DEF Quiet, AddFile, AddFolder, add_file, image, PickFilePosition,
          fat_new_file, Launch, vars, Dropped
<1>7. CASE EnterFolder \/ up_dir
  BY <1>1, <1>3, <1>7 DEF EnterFolder, up_dir
<1> QED BY <1>5, <1>6, <1>7, StepKinds

(* Files with a region, in a FAT that predictions were right for, are kept *)
(* to the end of the FAT.                                                  *)
EndFiles ==
  PositionsPredicted =>
    \A e \in FileEntries :
      InFat(e) /\ (\E r \in DataRegions : address_regions[r].file_path = e.name) => FileKept(e)

(* A file of the FAT is kept by a step from where no entry has drifted. *)
LEMMA KeptToEnd ==
  ASSUME TypeInv, TypeInv', PackedInv, EndInv, [Next]_vars, PositionsPredicted,
         NEW e \in Entries, InFat(e), FileKept(e)
  PROVE  FileKept(e)'
<1>1. PICK hi \in 2 .. fat_entries : ChainsKept(hi)
  BY ChainsToEnd
<1>2. \A k \in 0 .. FileClusters(e) - 1 : e.first + k \in InTable
  <2> DEFINE n == FileClusters(e)
  <2>1. e.first + n <= fat_entries
    BY DEF InFat, FileClusters
  <2>2. e.first \in Nat /\ n \in Nat
    BY FileSize
  <2> HIDE DEF n
  <2>3. \A k \in 0 .. n - 1 : e.first + k \in InTable
    BY <2>1, <2>2, TableWords DEF InTable
  <2> QED BY <2>3 DEF n
<1>3. address_regions' = address_regions \/ \E r : address_regions' = Append(address_regions, r)
  BY <1>1 DEF ChainsKept
<1>4. /\ \A b \in InTable : fat[b] \notin {0, fat_end} => fat'[b] = fat[b]
      /\ \A b \in InTable :
           fat[b] = fat_end /\ (\A d \in DOMAIN dir_stack : dir_stack[d].dir_location # b)
             => fat'[b] = fat_end
      /\ \A d \in DOMAIN dir_stack' :
           \/ d \in DOMAIN dir_stack /\ dir_stack'[d].dir_location = dir_stack[d].dir_location
           \/ dir_stack'[d].dir_location \in InTable => fat[dir_stack'[d].dir_location] = 0
  BY <1>1 DEF ChainsKept
<1> QED BY <1>2, <1>3, <1>4, FileStaysKept

(* The last file fat_new_file has mapped is kept, if it is in the FAT. *)
LEMMA NewFileToEnd ==
  ASSUME TypeInv, SetupKept, EndInv, PositionsPredicted, fat_new_file, FatHasRoom,
         NEW e \in Entries, e.first = job.filePosition, e.size = job.size, e.name = job.name,
         InFat(e)
  PROVE  FileKept(e)'
<1> DEFINE n == FileClusters(e)
<1>1. PICK hi \in 2 .. fat_entries : FilledToEnd(hi) /\ DirsToEnd(hi) /\ JobToEnd(hi)
  BY DEF EndInv
<1>2. pc = "data" /\ AtOrBehind(e.first, hi) /\ ~Tableless(Len(dir_stack))
  BY <1>1 DEF JobToEnd, fat_new_file
<1>3. FileLengthOf(e) = FileLength /\ n = ClustersRequired
  BY DEF FileLengthOf, FileLength, FileClusters, ClustersRequired
<1>4. n \in Nat \ {0} /\ e.first \in Nat /\ hi \in Nat /\ fat_entries \in Nat
  BY FileSize, TableWords
<1>5. e.first + n <= fat_entries
  BY DEF InFat, FileClusters
<1>6. /\ address_regions' = Append(address_regions,
           AddressRegion(address_from_fatclus(e.first), FileLengthOf(e), NoPointer, e.name))
      /\ fat' = FatWithChain(e.first, n) /\ dir_stack' = dir_stack
  BY <1>3 DEF fat_new_file
<1> HIDE DEF n
<1>7. e.first = hi
  BY <1>2, <1>4, <1>5 DEF AtOrBehind
<1>8. \A d \in DOMAIN dir_stack :
        dir_stack[d].dir_location < hi \/ dir_stack[d].dir_location >= fat_entries
  BY <1>1, <1>2 DEF DirsToEnd
<1> QED BY <1>4, <1>5, <1>6, <1>7, <1>8, ChainIsKept DEF n

(* The files of the FAT that have a region are kept, step by step. *)
LEMMA EndFilesStep ==
  ASSUME TypeInv, TypeInv', PackedInv, NamesInv, SetupKept, EndInv, RegionsNamed, EndFiles,
         [Next]_vars
  PROVE  EndFiles'
<1> SUFFICES ASSUME PositionsPredicted', NEW e \in FileEntries', InFat(e),
                    \E r \in DataRegions' : address_regions'[r].file_path = e.name
             PROVE  FileKept(e)'
  BY DEF EndFiles, InFat, FileLengthOf
<1>1. PositionsPredicted
  BY EventsGrow DEF PositionsPredicted
<1>2. PICK u \in DOMAIN dirtables', k \in Slots : e = dirtables'[u].slots[k] /\ e.kind = "file" /\ e \in Entries
  <2>1. PICK u \in DOMAIN dirtables' :
          (\E k \in DOMAIN dirtables'[u].slots : e = dirtables'[u].slots[k]) /\ e.kind = "file"
    BY DEF FileEntries
  <2>2. dirtables' \in Seq(DirTables)
    BY DEF TypeInv, TypeOK
  <2>3. dirtables'[u] \in DirTables
    BY <2>2, ElementOfSeq
  <2>4. DOMAIN dirtables'[u].slots = Slots /\ \A k \in Slots : dirtables'[u].slots[k] \in Entries
    BY <2>3 DEF DirTables, Slots
  <2> QED BY <2>1, <2>4
<1>3. FileKept(e) => FileKept(e)'
  BY <1>1, <1>2, KeptToEnd
<1>4. /\ Len(SetupRegions) \in Nat /\ Numbered /\ NoJob.name = 0
  BY DEF SetupRegions, NamesInv, NoJob, Job
<1>5. PICK q \in DataRegions' : address_regions'[q].file_path = e.name
  OBVIOUS
<1>6. ASSUME NEW r, address_regions' = Append(address_regions, r)
      PROVE  r.file_path = e.name \/ \E i \in DataRegions : address_regions[i].file_path = e.name
  <2>1. /\ Len(address_regions') = Len(address_regions) + 1 /\ Len(address_regions) \in Nat
        /\ \A j \in 1 .. Len(address_regions) : address_regions'[j] = address_regions[j]
        /\ address_regions'[Len(address_regions) + 1] = r
    BY <1>6, RegionAppended
  <2>2. CASE q = Len(address_regions) + 1
    BY <1>5, <2>1, <2>2
  <2>3. CASE q # Len(address_regions) + 1
    <3>1. q \in DataRegions /\ q \in 1 .. Len(address_regions)
      BY <1>4, <2>1, <2>3 DEF DataRegions
    <3> QED BY <1>5, <2>1, <3>1
  <2> QED BY <2>2, <2>3
<1>7. address_regions' = address_regions =>
        \E i \in DataRegions : address_regions[i].file_path = e.name
  BY <1>5 DEF DataRegions
<1>8. ASSUME NEW t \in DOMAIN dirtables, NEW i \in Slots, dirtables[t].slots[i] = e
      PROVE  /\ e \in FileEntries /\ 0 < e.name
             /\ e.name = job.name => pc = "data" /\ e.first = job.filePosition /\ e.size = job.size
             /\ (\E r \in DataRegions : address_regions[r].file_path = e.name) => FileKept(e)
  <2>1. e \in FileEntries
    <3>1. i \in DOMAIN dirtables[t].slots
      BY TableShape
    <3> QED BY <1>2, <1>8, <3>1 DEF FileEntries
  <2>2. (\E r \in DataRegions : address_regions[r].file_path = e.name) => FileKept(e)
    BY <1>1, <2>1 DEF EndFiles
  <2>3. 0 < e.name /\ (e.name = job.name => OfJob(e, pc, job))
    <3>1. e.kind # "none"
      BY <1>2
    <3> QED BY <1>8, <3>1 DEF NamesInv, Filed
  <2>4. OfJob(e, pc, job) => pc = "data" /\ e.first = job.filePosition /\ e.size = job.size
    BY <1>2 DEF OfJob
  <2> QED BY <2>1, <2>2, <2>3, <2>4
<1>9. ASSUME NEW entry \in Entries, dir_add_entry(entry), EntryOfJob(entry)
      PROVE  FileKept(e)'
  <2>1. PICK t, i : Placed(entry, t, i)
    BY <1>9, EntryPlaced
  <2>2. ASSUME e.name # 0
        PROVE  \E j \in DataRegions : address_regions[j].file_path = e.name
    <3>1. CASE t \in DOMAIN dirtables
      BY <1>7, <2>1, <3>1 DEF Placed
    <3>2. CASE t \notin DOMAIN dirtables
      <4> DEFINE r == AddressRegion(address_from_fatclus(current_dir'.dir_location), cluster_size,
                                    DirTable(t), 0)
      <4>1. address_regions' = Append(address_regions, r)
        BY <2>1, <3>2 DEF Placed
      <4>2. r.file_path = 0
        BY DEF AddressRegion
      <4> HIDE DEF r
      <4> QED BY <1>6, <2>2, <4>1, <4>2
    <3> QED BY <3>1, <3>2
  <2>3. CASE e = entry
    <3>1. entry = ShortEntry /\ pc = "short"
      BY <1>2, <1>9, <2>3, EntryControl DEF LfnEntry, DotEntry, DotDotEntry, Entry
    <3>2. e.name = job.name /\ job.name = scanned /\ scanned > 0 /\ scanned \in Nat
      BY <1>4, <2>3, <3>1 DEF ShortEntry, Entry, Numbered, TypeInv, TypeOK
    <3>3. PICK j \in DataRegions : address_regions[j].file_path = e.name
      BY <2>2, <3>2
    <3> QED BY <3>2, <3>3 DEF RegionsNamed
  <2>4. CASE u \in DOMAIN dirtables /\ dirtables'[u].slots[k] = dirtables[u].slots[k]
    <3>1. 0 < e.name /\ e.name \in Nat
      BY <1>2, <1>8, <2>4 DEF Entries
    <3>2. \E j \in DataRegions : address_regions[j].file_path = e.name
      BY <2>2, <3>1
    <3> QED BY <1>2, <1>3, <1>8, <2>4, <3>2
  <2>5. e.kind # "none"
    BY <1>2
  <2> QED BY <1>2, <2>1, <2>3, <2>4, <2>5, EntriesAfter
<1>10. CASE Quiet \/ EnterFolder \/ up_dir
  <2>1. dirtables' = dirtables
    BY <1>10 DEF Quiet, EnterFolder, up_dir
  <2>2. CASE \E i \in DataRegions : address_regions[i].file_path = e.name
    BY <1>2, <1>3, <1>8, <2>1, <2>2
  <2>3. CASE fat_new_file /\ FatHasRoom /\ e.name = job.name
    <3>1. e.first = job.filePosition /\ e.size = job.size
      BY <1>2, <1>8, <2>1, <2>3
    <3> QED BY <1>1, <1>2, <2>3, <3>1, NewFileToEnd
  <2>4. CASE fat_new_file /\ FatHasRoom
    <3> DEFINE r == AddressRegion(address_from_fatclus(job.filePosition), FileLength,
                                  NoPointer, job.name)
    <3>1. address_regions' = Append(address_regions, r)
      BY <2>4 DEF fat_new_file
    <3>2. r.file_path = job.name
      BY DEF AddressRegion
    <3> HIDE DEF r
    <3> QED BY <1>6, <2>2, <2>3, <2>4, <3>1, <3>2
  <2>5. fat_new_file => address_regions' = address_regions \/ FatHasRoom
    BY DEF fat_new_file
  <2>6. ~fat_new_file => address_regions' = address_regions
    BY <1>10 DEF Quiet, AddFile, AddFolder, add_file, image, PickFilePosition, Launch, vars,
       Dropped, EnterFolder, up_dir
  <2> QED BY <1>7, <2>2, <2>4, <2>5, <2>6
<1> QED BY <1>9, <1>10, StepKinds

(* Addresses of clusters, those before the data area included. *)
LEMMA AddressShift ==
  ASSUME NEW c \in Nat, NEW n \in Nat
  PROVE  /\ address_from_fatclus(c) \in Int
         /\ address_from_fatclus(c + n) = address_from_fatclus(c) + cluster_size * n
         /\ cluster_size * n \in Nat
<1>1. cluster_size \in Nat
  BY Sizes
<1> DEFINE base == address_from_fatsec(fat_location(BPB_NumFATs))
<1>2. fat_location(BPB_NumFATs) \in Nat
  BY LayoutAssumption DEF fat_location
<1>3. base \in Nat
  BY <1>2, LayoutAssumption DEF address_from_fatsec, part1_base
<1>4. cluster_size * (c - 2) \in Int
  BY <1>1
<1>5. cluster_size * (c + n - 2) = cluster_size * (c - 2) + cluster_size * n
  BY <1>1
<1>6. cluster_size * n \in Nat
  BY <1>1
<1>7. /\ address_from_fatclus(c) = base + cluster_size * (c - 2)
      /\ address_from_fatclus(c + n) = base + cluster_size * (c + n - 2)
  BY DEF address_from_fatclus
<1> HIDE DEF base
<1> QED BY <1>3, <1>4, <1>5, <1>6, <1>7

(* What is mapped after a file of the FAT lies behind it. *)
LEMMA MappedBehind ==
  ASSUME TypeInv, NEW hi \in 2 .. fat_entries, FilledToEnd(hi),
         NEW e \in Entries, InFat(e), FileKept(e)
  PROVE  /\ address_from_fatclus(e.first) \in Int /\ address_from_fatclus(hi) \in Int
         /\ address_from_fatclus(e.first) + FileLengthOf(e) <= address_from_fatclus(hi)
<1> DEFINE n == FileClusters(e)
           size == FileLengthOf(e)
<1>1. n \in Nat \ {0} /\ e.first \in Nat /\ size \in Nat /\ size <= cluster_size * n
  BY FileSize
<1>2. e.first + n <= fat_entries /\ fat_entries \in Nat /\ hi \in Nat
  BY TableWords DEF InFat, FileClusters
<1>3. \A k \in 0 .. n - 1 : fat[e.first + k] = IF k = n - 1 THEN fat_end ELSE e.first + k + 1
  BY DEF FileKept
<1> HIDE DEF n, size
<1>4. e.first + n <= hi
  <2>1. e.first + (n - 1) \in InTable
    BY <1>1, <1>2, TableWords
  <2>2. fat[e.first + (n - 1)] = fat_end
    BY <1>1, <1>3
  <2>3. e.first + (n - 1) < hi
    <3>1. fat[e.first + (n - 1)] # 0
      BY <2>2, TableWords
    <3> QED BY <2>1, <3>1 DEF FilledToEnd
  <2> QED BY <1>1, <1>2, <2>3
<1>5. PICK m \in Nat : hi = (e.first + n) + m
  <2>1. hi - (e.first + n) \in Nat
    BY <1>1, <1>2, <1>4
  <2>2. hi = (e.first + n) + (hi - (e.first + n))
    BY <1>1, <1>2
  <2> QED BY <2>1, <2>2
<1>6. /\ address_from_fatclus(e.first) \in Int
      /\ address_from_fatclus(e.first + n) = address_from_fatclus(e.first) + cluster_size * n
      /\ cluster_size * n \in Nat
  BY <1>1, AddressShift
<1>7. /\ address_from_fatclus(hi) = address_from_fatclus(e.first + n) + cluster_size * m
      /\ cluster_size * m \in Nat
  <2>1. e.first + n \in Nat
    BY <1>1
  <2> QED BY <1>5, <2>1, AddressShift
<1> DEFINE x == cluster_size * n
           y == cluster_size * m
<1>8. /\ address_from_fatclus(hi) = address_from_fatclus(e.first) + x + y /\ x \in Nat /\ y \in Nat
      /\ size <= x
  BY <1>1, <1>6, <1>7
<1> HIDE DEF x, y
<1> QED BY <1>1, <1>6, <1>8 DEF size

(* A file of the FAT that can be read can be read after the next step. *)
LEMMA ReadableStep ==
  ASSUME TypeInv, TypeInv', PackedInv, EndInv, EndFiles, [Next]_vars, PositionsPredicted,
         NEW e \in FileEntries, InFat(e), Readable(e)
  PROVE  Readable(e)'
<1> DEFINE n == FileClusters(e)
           region == AddressRegion(address_from_fatclus(e.first), FileLengthOf(e), NoPointer, e.name)
<1>1. e \in Entries
  BY FileEntriesType
<1>2. PICK r \in DataRegions :
        /\ address_regions[r] = region
        /\ \A q \in DataRegions \ {r} :
             \/ RegionEnd(q) <= address_regions[r].base
             \/ RegionEnd(r) <= address_regions[q].base
  BY DEF Readable
<1>3. region.base = address_from_fatclus(e.first) /\ region.length = FileLengthOf(e)
      /\ region.file_path = e.name
  BY DEF AddressRegion
<1> HIDE DEF region
<1>4. FileKept(e)
  BY <1>2, <1>3 DEF EndFiles
<1>5. FileKept(e)'
  BY <1>1, <1>4, KeptToEnd
<1>6. PICK hi \in 2 .. fat_entries : FilledToEnd(hi) /\ ChainsKept(hi)
  BY ChainsToEnd
<1>7. /\ address_from_fatclus(e.first) \in Int /\ address_from_fatclus(hi) \in Int
      /\ address_from_fatclus(e.first) + FileLengthOf(e) <= address_from_fatclus(hi)
  BY <1>1, <1>4, <1>6, MappedBehind
<1>8. RegionEnd(r) <= address_from_fatclus(hi)
  BY <1>2, <1>3, <1>7 DEF RegionEnd
<1>9. /\ Len(SetupRegions) \in Nat /\ Len(address_regions) \in Nat
      /\ r \in 1 .. Len(address_regions)
  <2>1. Len(SetupRegions) \in Nat
    BY DEF SetupRegions
  <2>2. Len(address_regions) \in Nat
    BY LenProperties DEF TypeInv, TypeOK
  <2> QED BY <2>1, <2>2 DEF DataRegions
<1>10. ASSUME NEW q \in DataRegions', q # r
       PROVE  /\ r \in DataRegions' /\ address_regions'[r] = region /\ RegionEnd(r)' = RegionEnd(r)
              /\ \/ RegionEnd(q)' <= address_regions'[r].base
                 \/ RegionEnd(r)' <= address_regions'[q].base
  <2>1. CASE address_regions' = address_regions
    BY <1>2, <1>10, <2>1 DEF DataRegions, RegionEnd
  <2>2. ASSUME NEW s, s.base >= address_from_fatclus(hi), address_regions' = Append(address_regions, s)
        PROVE  /\ r \in DataRegions' /\ address_regions'[r] = region /\ RegionEnd(r)' = RegionEnd(r)
               /\ \/ RegionEnd(q)' <= address_regions'[r].base
                  \/ RegionEnd(r)' <= address_regions'[q].base
    <3>1. /\ Len(address_regions') = Len(address_regions) + 1
          /\ \A j \in 1 .. Len(address_regions) : address_regions'[j] = address_regions[j]
          /\ address_regions'[Len(address_regions) + 1] = s
      BY <2>2, RegionAppended
    <3>2. r \in DataRegions' /\ address_regions'[r] = address_regions[r] /\ RegionEnd(r)' = RegionEnd(r)
      BY <1>9, <3>1 DEF DataRegions, RegionEnd
    <3>3. CASE q = Len(address_regions) + 1
      <4>1. RegionEnd(r) <= s.base
        <5>1. RegionEnd(r) \in Int /\ s.base \in Int
          <6>1. s \in AddressRegions
            <7>1. address_regions' \in Seq(AddressRegions)
              BY DEF TypeInv, TypeOK
            <7>2. Len(address_regions) + 1 \in 1 .. Len(address_regions')
              BY <1>9, <3>1
            <7>3. address_regions'[Len(address_regions) + 1] \in AddressRegions
              BY <7>1, <7>2, ElementOfSeq
            <7> QED BY <3>1, <7>3
          <6>2. address_regions[r] \in AddressRegions
            BY <1>9, ElementOfSeq DEF TypeInv, TypeOK
          <6> QED BY <6>1, <6>2 DEF AddressRegions, RegionEnd
        <5> QED BY <1>7, <1>8, <2>2, <5>1
      <4> QED BY <1>2, <3>1, <3>2, <3>3, <4>1
    <3>4. CASE q # Len(address_regions) + 1
      <4>1. q \in DataRegions /\ q \in 1 .. Len(address_regions)
        BY <1>9, <3>1, <3>4 DEF DataRegions
      <4>2. address_regions'[q] = address_regions[q] /\ RegionEnd(q)' = RegionEnd(q)
        BY <3>1, <4>1 DEF RegionEnd
      <4> QED BY <1>2, <1>10, <3>2, <4>1, <4>2
    <3> QED BY <3>3, <3>4
  <2>3. address_regions' = address_regions
        \/ \E s : s.base >= address_from_fatclus(hi) /\ address_regions' = Append(address_regions, s)
    BY <1>6 DEF ChainsKept
  <2> QED BY <2>1, <2>2, <2>3
<1>11. r \in DataRegions' /\ address_regions'[r] = region
  <2>1. CASE address_regions' = address_regions
    BY <1>2, <2>1 DEF DataRegions
  <2>2. ASSUME NEW s, address_regions' = Append(address_regions, s)
        PROVE  r \in DataRegions' /\ address_regions'[r] = region
    <3>1. /\ Len(address_regions') = Len(address_regions) + 1
          /\ \A j \in 1 .. Len(address_regions) : address_regions'[j] = address_regions[j]
      BY <2>2, RegionAppended
    <3> QED BY <1>2, <1>9, <3>1 DEF DataRegions
  <2> QED BY <1>6, <2>1, <2>2 DEF ChainsKept
<1>12. \E i \in DataRegions' :
         /\ address_regions'[i] = region
         /\ \A q \in DataRegions' \ {i} :
              \/ RegionEnd(q)' <= address_regions'[i].base
              \/ RegionEnd(i)' <= address_regions'[q].base
  BY <1>10, <1>11
<1>13. /\ \A k \in 0 .. n - 2 : fat'[e.first + k] = e.first + k + 1
       /\ fat'[e.first + n - 1] = fat_end
  <2>1. n \in Nat \ {0} /\ e.first \in Nat
    BY <1>1, FileSize
  <2>2. \A k \in 0 .. n - 1 : fat'[e.first + k] = IF k = n - 1 THEN fat_end ELSE e.first + k + 1
    BY <1>5 DEF FileKept, FileClusters, FileLengthOf
  <2> HIDE DEF n
  <2>3. n - 1 \in 0 .. n - 1 /\ e.first + (n - 1) = e.first + n - 1
    BY <2>1
  <2>4. fat'[e.first + (n - 1)] = fat_end
    BY <2>2, <2>3
  <2>5. \A k \in 0 .. n - 2 : k \in 0 .. n - 1 /\ k # n - 1
    BY <2>1
  <2> QED BY <2>2, <2>3, <2>4, <2>5
<1> QED BY <1>12, <1>13 DEF Readable, FileClusters, FileLengthOf, region, n

(* The frontier, and the files below it, in every reachable state. *)
LEMMA EndCorrect == Spec => [](TypeInv /\ PackedInv /\ EndInv /\ EndFiles)
<1>1. TypeInv /\ PackedInv /\ [Next]_vars => PackedInv'
  BY PackedStep
<1>2. TypeInv /\ TypeInv' /\ PackedInv /\ EndInv /\ [Next]_vars => EndInv'
  BY EndStep DEF EndInv
<1>3. TypeInv /\ TypeInv' /\ PackedInv /\ NamesInv /\ RegionsNamed /\ [Next]_vars => RegionsNamed'
  BY RegionsNamedStep
<1>4. /\ TypeInv /\ TypeInv' /\ PackedInv /\ NamesInv /\ SetupKept /\ EndInv /\ RegionsNamed
      /\ EndFiles /\ [Next]_vars
      => EndFiles'
  BY EndFilesStep, Zenon
<1>5. Init => SetupKept /\ RegionsNamed /\ EndFiles
  BY DEF Init, SetupKept, RegionsNamed, EndFiles, FileEntries, DataRegions
<1> QED BY <1>1, <1>2, <1>3, <1>4, <1>5, NamesInit, NamesStep, SetupStep, PackedInit, EndInit,
       TypeCorrect, PTL DEF Spec

(* A file of the FAT that can be read stays so, whatever is added after it, *)
(* also where the FAT has no cluster left, and fat_find_free hands out one  *)
(* behind its end.                                                          *)
THEOREM FilesAreKept == Spec => FilesKept
<1>1. /\ TypeInv /\ TypeInv' /\ PackedInv /\ EndInv /\ EndFiles /\ [Next]_vars
      => [ReadableStays]_vars
  BY ReadableStep DEF PositionsPredicted, ReadableStays
<1> QED BY <1>1, EndCorrect, PTL DEF Spec, FilesKept

-----------------------------------------------------------------------------
(* Predictions that come true *)

(* Every name takes one LFN entry, and a cluster an even number of entries *)
(* (the code's takes 512): names come and go in pairs of entries, . and .. *)
(* are one.                                                                *)
OneLfn == LfnCounts = {1} /\ entrys_per_cluster % 2 = 0

Position(d) == dir_stack[d].current_dir_position
FullDir(d) == Position(d) + 1 > MaxDirEntries

(* Between the LFN entry and the short entry of a name a directory has an  *)
(* odd number of entries, otherwise an even one; one that is full may have *)
(* any.                                                                    *)
InPairs ==
  LET top == Len(dir_stack) IN
  /\ \A d \in DOMAIN dir_stack : d # top => Position(d) % 2 = 0 \/ FullDir(d)
  /\ pc \in {"readdir", "lfn", "data", "enter", "serving"} => Position(top) % 2 = 0 \/ FullDir(top)
  /\ pc \in {"position", "short"} => Position(top) % 2 = 1 \/ FullDir(top)
  /\ pc = "dot" => Position(top) = 0
  /\ pc = "dotdot" => Position(top) = 1
  /\ pc \in {"lfn", "position", "short"} => job.lfn = 1
  /\ pc = "lfn" => job.left = 1

(* The parity of the next position. *)
LEMMA Parity ==
  ASSUME NEW p \in Nat
  PROVE  /\ p % 2 \in {0, 1} /\ (p % 2 = 0 <=> (p + 1) % 2 = 1) /\ (p % 2 = 1 <=> (p + 1) % 2 = 0)
OBVIOUS

(* No first entry of a cluster is at an odd position. *)
LEMMA OddInside ==
  ASSUME NEW p \in Nat, p % 2 = 1, NEW size \in Nat, size > 1, size % 2 = 0
  PROVE  p % size > 0 /\ p % size <= size - 1
<1>1. p % size \in 0 .. size - 1 /\ p = size * (p \div size) + (p % size) /\ p \div size \in Nat
  <2>1. size \in Nat \ {0}
    OBVIOUS
  <2> QED BY <2>1, Division
<1>2. PICK m \in Nat : size = 2 * m
  <2>1. size \div 2 \in Nat /\ size = 2 * (size \div 2)
    OBVIOUS
  <2> QED BY <2>1
<1>3. PICK q \in Nat : q = p \div size
  BY <1>1
<1>4. size * q = 2 * (m * q) /\ m * q \in Nat
  BY <1>2
<1>5. PICK x \in Nat : x = m * q
  BY <1>4
<1>6. p % size # 0
  <2> SUFFICES ASSUME p % size = 0 PROVE FALSE
    OBVIOUS
  <2>1. p = 2 * x
    <3>1. p = size * q
      BY <1>1, <1>3
    <3> QED BY <1>4, <1>5, <3>1
  <2> QED BY <2>1
<1> QED BY <1>1, <1>6

(* Pairs stay pairs. *)
LEMMA PairsStep ==
  ASSUME OneLfn, TypeInv, TypeInv', PackedInv, InPairs, [Next]_vars
  PROVE  InPairs'
<1>0. PICK top \in Nat \ {0} : top = Len(dir_stack)
  BY TopShape
<1>1. /\ DOMAIN dir_stack = 1 .. top /\ \A d \in 1 .. top : Position(d) \in Nat
      /\ current_dir = dir_stack[top]
  BY <1>0, StackShape DEF current_dir, Fat_Directories, Position
<1>2. ASSUME NEW entry \in Entries, dir_add_entry(entry), EntryOfJob(entry)
      PROVE  InPairs'
  <2>1. PICK t, i : Placed(entry, t, i)
    BY <1>2, EntryPlaced
  <2>2. /\ DOMAIN dir_stack' = 1 .. top /\ Len(dir_stack') = top
        /\ \A d \in 1 .. top : d # top => dir_stack'[d] = dir_stack[d]
        /\ current_dir' = dir_stack'[top]
        /\ current_dir'.current_dir_position = current_dir.current_dir_position + 1
    BY <1>0, <1>1, <2>1 DEF Placed, current_dir
  <2>3. /\ \A d \in 1 .. top : d # top => Position(d)' = Position(d) /\ FullDir(d)' = FullDir(d)
        /\ Position(top)' = Position(top) + 1
    BY <1>0, <1>1, <2>2 DEF Position, FullDir
  <2>4. ~FullDir(top)
    BY <1>0, <1>1, <1>2 DEF dir_add_entry, DirIsFull, FullDir, Position
  <2>5. \A d \in 1 .. top : d # top => Position(d)' % 2 = 0 \/ FullDir(d)'
    BY <1>0, <1>1, <2>3 DEF InPairs
  <2>6. top \in 1 .. top /\ Position(top) \in Nat
    BY <1>0, <1>1
  <2>7. CASE pc = "lfn"
    <3>1. Position(top) % 2 = 0 /\ job.lfn = 1 /\ job.left = 1
      BY <1>0, <2>4, <2>7 DEF InPairs
    <3>2. AddLfnEntry /\ ~DirIsFull
      BY <1>2, <2>7 DEF EntryOfJob, AddShortEntry, AddDot, AddDotDot, dir_add_entry
    <3>3. pc' = "position" /\ job'.lfn = 1
      <4>1. job' = [job EXCEPT !.left = @ - 1] /\ pc' = IF job.left > 1 THEN "lfn" ELSE "position"
        BY <3>2 DEF AddLfnEntry
      <4> QED BY <3>1, <4>1 DEF TypeInv, TypeOK
    <3>4. Position(top)' % 2 = 1
      BY <2>3, <2>6, <3>1, Parity
    <3> QED BY <2>2, <2>5, <3>3, <3>4 DEF InPairs
  <2>8. CASE pc = "short"
    <3>1. Position(top)' % 2 = 0
      BY <1>0, <2>3, <2>4, <2>6, <2>8, Parity DEF InPairs
    <3>2. pc' \in {"data", "enter"}
      BY <1>2, <2>8, EntryControl
    <3> QED BY <2>2, <2>5, <3>1, <3>2 DEF InPairs
  <2>9. CASE pc = "dot"
    <3>1. Position(top)' = 1
      BY <1>0, <2>3, <2>9 DEF InPairs
    <3>2. pc' = "dotdot"
      BY <1>2, <2>9, EntryControl
    <3> QED BY <2>2, <2>5, <3>1, <3>2 DEF InPairs
  <2>10. CASE pc = "dotdot"
    <3>1. Position(top)' % 2 = 0
      BY <1>0, <2>3, <2>10 DEF InPairs
    <3>2. pc' = "readdir"
      BY <1>2, <2>10, EntryControl
    <3> QED BY <2>2, <2>5, <3>1, <3>2 DEF InPairs
  <2> QED BY <1>2, <2>7, <2>8, <2>9, <2>10, EntryControl
<1>3. CASE Quiet
  <2>1. dir_stack' = dir_stack
    BY <1>3 DEF Quiet
  <2>2. /\ \A d \in DOMAIN dir_stack : Position(d)' = Position(d) /\ FullDir(d)' = FullDir(d)
        /\ DOMAIN dir_stack' = DOMAIN dir_stack /\ Len(dir_stack') = top /\ top \in DOMAIN dir_stack
    BY <1>0, <1>1, <2>1 DEF Position, FullDir
  <2>3. \A d \in DOMAIN dir_stack' : d # top => Position(d)' % 2 = 0 \/ FullDir(d)'
    BY <1>0, <2>2 DEF InPairs
  <2>4. CASE AddFile \/ AddFolder
    <3>1. PICK n \in LfnCounts, s \in FileSizes \cup {0}, kind \in {0, 1} : add_file(n, s, kind)
      BY <2>4 DEF AddFile, AddFolder
    <3>2. n = 1
      BY DEF OneLfn
    <3>3. pc = "readdir" /\ pc' = "lfn" /\ job'.lfn = 1 /\ job'.left = 1
      BY <3>1, <3>2 DEF add_file, Job
    <3> QED BY <1>0, <2>2, <2>3, <3>3 DEF InPairs
  <2>5. CASE PickFilePosition
    <3>1. pc = "position" /\ pc' = "short" /\ job'.lfn = job.lfn
      BY <2>5 DEF PickFilePosition, TypeInv, TypeOK
    <3> QED BY <1>0, <2>2, <2>3, <3>1 DEF InPairs
  <2>6. CASE fat_new_file \/ Launch
    <3>1. pc \in {"data", "readdir"} /\ pc' \in {"readdir", "serving"}
      BY <2>6 DEF fat_new_file, Launch
    <3> QED BY <1>0, <2>2, <2>3, <3>1 DEF InPairs
  <2>7. CASE (AddLfnEntry \/ AddShortEntry) /\ Dropped
    <3>1. FullDir(top) /\ ~dir_add_entry(LfnEntry) /\ ~dir_add_entry(ShortEntry)
      BY <1>0, <1>1, <2>7 DEF Dropped, dir_add_entry, DirIsFull, FullDir, Position
    <3>2. \/ pc = "lfn" /\ pc' = "position" /\ job' = job
          \/ pc = "short" /\ pc' = "readdir"
      BY <2>7, <3>1 DEF AddLfnEntry, AddShortEntry, LfnEntry
    <3> QED BY <1>0, <2>2, <2>3, <3>1, <3>2 DEF InPairs
  <2>8. CASE UNCHANGED vars
    BY <1>0, <2>2, <2>3, <2>8 DEF InPairs, vars
  <2> QED BY <1>3, <2>4, <2>5, <2>6, <2>7, <2>8 DEF Quiet
<1>4. CASE EnterFolder
  <2>1. PICK deep \in Nat \ {0} : deep = Len(dir_stack) + 1
    BY TopShape
  <2>2. /\ Len(dir_stack') = deep /\ DOMAIN dir_stack' = 1 .. deep
        /\ dir_stack'[deep] = Fat_Directory(job.name, << >>, 0, job.filePosition)
        /\ \A c \in 1 .. deep - 1 : dir_stack'[c] = dir_stack[c]
    BY <1>4, <2>1, FolderEntered
  <2>3. pc = "enter" /\ pc' = "dot"
    BY <1>4 DEF EnterFolder
  <2>4. Position(deep)' = 0
    BY <2>2 DEF Position, Fat_Directory
  <2>5. ASSUME NEW d \in 1 .. deep, d # deep PROVE Position(d)' % 2 = 0 \/ FullDir(d)'
    <3>1. d \in 1 .. top /\ dir_stack'[d] = dir_stack[d]
      BY <1>0, <2>1, <2>2, <2>5
    <3>2. Position(d) % 2 = 0 \/ FullDir(d)
      BY <1>0, <1>1, <2>3, <3>1 DEF InPairs
    <3>3. Position(d)' = Position(d) /\ FullDir(d)' = FullDir(d)
      BY <3>1 DEF Position, FullDir
    <3> QED BY <3>2, <3>3
  <2> QED BY <2>2, <2>3, <2>4, <2>5 DEF InPairs
<1>5. CASE up_dir
  <2>1. \A d \in DOMAIN dir_stack' : d \in DOMAIN dir_stack /\ dir_stack'[d] = dir_stack[d]
    BY <1>5, UpDirStack DEF TypeInv, TypeOK
  <2>2. pc = "readdir" /\ pc' = "readdir"
    BY <1>5 DEF up_dir
  <2>3. \A d \in DOMAIN dir_stack' : Position(d)' % 2 = 0 \/ FullDir(d)'
    <3> SUFFICES ASSUME NEW d \in DOMAIN dir_stack' PROVE Position(d)' % 2 = 0 \/ FullDir(d)'
      OBVIOUS
    <3>1. Position(d) % 2 = 0 \/ FullDir(d)
      BY <1>0, <2>1, <2>2 DEF InPairs
    <3>2. Position(d)' = Position(d) /\ FullDir(d)' = FullDir(d)
      BY <2>1 DEF Position, FullDir
    <3> QED BY <3>1, <3>2
  <2>4. Len(dir_stack') \in DOMAIN dir_stack'
    <3>1. dir_stack' \in Seq(Fat_Directories) \ {<< >>}
      BY DEF TypeInv, TypeOK
    <3> QED BY <3>1, LenProperties, EmptySeq
  <2> QED BY <2>2, <2>3, <2>4 DEF InPairs
<1> QED BY <1>2, <1>3, <1>4, <1>5, StepKinds

(* At first the root directory is empty. *)
LEMMA PairsInit == Init => InPairs
<1> SUFFICES ASSUME Init PROVE InPairs
  OBVIOUS
<1>1. DOMAIN dir_stack = {1} /\ Len(dir_stack) = 1 /\ dir_stack[1].current_dir_position = 0
      /\ pc = "readdir"
  BY DEF Init, Fat_Directory
<1>2. 0 % 2 = 0
  OBVIOUS
<1> QED BY <1>1, <1>2 DEF InPairs, Position

(* Then no prediction fails. *)
LEMMA PredictionsStep ==
  ASSUME OneLfn, TypeInv, PackedInv, InPairs, Predicted, PositionsPredicted, [Next]_vars
  PROVE  PositionsPredicted'
<1> SUFFICES ASSUME ~PositionsPredicted' PROVE FALSE
  OBVIOUS
<1>1. /\ AddShortEntry /\ dir_add_entry(ShortEntry)
      /\ job.clusters_needed # ClustersTaken
  BY OnlyShortDrifts
<1> DEFINE p == current_dir.current_dir_position
<1>2. p \in Nat /\ pc = "short" /\ p = Position(Len(dir_stack))
  BY <1>1, TopShape DEF AddShortEntry, Position
<1>3. job.lfn = 1 /\ p % 2 = 1
  <2>1. ~FullDir(Len(dir_stack))
    BY <1>1, <1>2 DEF dir_add_entry, DirIsFull, FullDir
  <2> QED BY <1>2, <2>1 DEF InPairs
<1>4. entrys_per_cluster \in Nat /\ entrys_per_cluster > 1 /\ entrys_per_cluster % 2 = 0
  BY Sizes DEF OneLfn
<1> HIDE DEF p
<1>5. p % entrys_per_cluster > 0 /\ p % entrys_per_cluster <= entrys_per_cluster - 1
  BY <1>2, <1>3, <1>4, OddInside
<1>6. PredictedInside
  BY PredictionInside
<1> QED BY <1>1, <1>2, <1>3, <1>5, <1>6 DEF PredictedInside, p

(* Where names have one LFN entry each, every entry is given the cluster   *)
(* that its file or directory gets.                                        *)
THEOREM PredictionsCorrect ==
  ASSUME OneLfn
  PROVE  Spec => []PositionsPredicted
<1>1. TypeInv /\ PackedInv /\ [Next]_vars => PackedInv'
  BY PackedStep
<1>2. TypeInv /\ TypeInv' /\ PackedInv /\ InPairs /\ [Next]_vars => InPairs'
  BY PairsStep
<1>3. TypeInv /\ PackedInv /\ InPairs /\ Predicted /\ PositionsPredicted /\ [Next]_vars
      => PositionsPredicted'
  BY PredictionsStep
<1>4. Init => Predicted /\ PositionsPredicted
  BY DEF Init, Predicted, PositionsPredicted
<1> QED BY <1>1, <1>2, <1>3, <1>4, PairsInit, PackedInit, PredictedStep, TypeCorrect, PTL DEF Spec

(* ... and no cluster is left free below one that is allocated: the file   *)
(* system that is served has no hole.                                      *)
THEOREM NoHoles ==
  ASSUME OneLfn
  PROVE  Spec => []NoFragmentation
<1>1. ASSUME TypeInv, EndInv, PositionsPredicted PROVE NoFragmentation
  <2>1. PICK hi \in 2 .. fat_entries : FilledToEnd(hi)
    BY <1>1 DEF EndInv
  <2>2. hi \in Nat
    BY TableWords
  <2> SUFFICES ASSUME NEW b \in InTable, NEW c \in InTable, b < c, fat[c] # 0
               PROVE  fat[b] # 0
    BY DEF NoFragmentation, InTable
  <2>3. c < hi /\ b \in Nat /\ c \in Nat
    BY <2>1, TableWords DEF FilledToEnd
  <2> QED BY <2>1, <2>2, <2>3 DEF FilledToEnd
<1>2. TypeInv /\ EndInv /\ PositionsPredicted => NoFragmentation
  BY <1>1
<1> QED BY <1>2, EndCorrect, PredictionsCorrect, PTL

-----------------------------------------------------------------------------
(* The image and the read service                                          *)

(* The address regions of the image, for the read service: files no larger *)
(* than the clusters there are.                                            *)
ServedLayouts ==
  {l \in Seq(Reader!MappedRegions) :
     \A r \in DOMAIN l : l[r].mem_pointer = Reader!NoPointer => l[r].length <= Enough}

(* Every read of the disk.                                                 *)
ServedRequests == [offset : Nat, len : Nat]

(* Reader, with the proofs about it, and for every layout and read it may   *)
(* be given here: XmpReadProofs proves its loop right for all of them.      *)
Served == INSTANCE XmpReadProofs WITH
  pc <- rpc,
  Layouts <- ServedLayouts,
  Requests <- ServedRequests,
  file_size <- [f \in 1 .. MaxScanned |-> Enough],
  LongMax <- Enough

(* Products of numbers are numbers.                                        *)
LEMMA MultNat == \A i, j \in Nat : i * j \in Nat
  OBVIOUS

(* The size given to files is a number.                                    *)
LEMMA EnoughNat == Enough \in Nat
  BY TableWords, MultNat DEF Enough

(* The files of the read service are those the scan may meet ...           *)
LEMMA SameFiles == Served!Files = 1 .. MaxScanned /\ Reader!Files = 1 .. MaxScanned
  BY DEF Served!Files, Reader!Files

(* ... and its regions are those of the builder.                           *)
LEMMA SameNull == Served!NoPointer = NoPointer /\ Reader!NoPointer = NoPointer
  BY DEF Served!NoPointer, Reader!NoPointer, NoPointer

(* Vsfat's instance of XmpRead and that of its proofs map the same regions. *)
LEMMA SameRegions == Served!MappedRegions = Reader!MappedRegions
  BY SameFiles, SameNull DEF Served!MappedRegions, Reader!MappedRegions,
     Served!AddressRegions, Reader!AddressRegions, Served!Pointers, Reader!Pointers

(* What XmpRead assumes of its constants holds of the values given here.   *)
LEMMA ServedLayout == Served!LayoutAssumption
  BY LayoutAssumption DEF Served!LayoutAssumption

(* So it does of the layouts, the requests and the files.                  *)
LEMMA ServedRead == Served!XmpReadAssumption
<1>1. MaxScanned \in Nat
  BY FatFilesAssumption
<1>2. Served!Files \subseteq Nat \ {0}
  BY <1>1, SameFiles
<1>3. ServedLayouts \subseteq Seq(Served!MappedRegions)
  BY SameRegions DEF ServedLayouts
<1>4. [f \in 1 .. MaxScanned |-> Enough] \in [Served!Files -> Nat]
  BY EnoughNat, SameFiles
<1>5. Enough \in Nat
  BY EnoughNat
<1>6. ServedRequests \subseteq [offset : Nat, len : Nat]
  BY DEF ServedRequests
<1> HIDE DEF ServedLayouts, ServedRequests, Enough
<1> QED
  BY <1>2, <1>3, <1>4, <1>5, <1>6 DEF Served!XmpReadAssumption

(* A long reaches as far as the files do.                                  *)
LEMMA ServedLong == Served!FilesWithinLong
  BY SameNull DEF Served!FilesWithinLong, ServedLayouts

(* The invariant of xmp_read's loop, kept by the steps of this instance.   *)
LEMMA ServedStep ==
  ASSUME Served!LoopInv, Served!TypeOK', [Served!Next]_(Served!vars)
  PROVE  Served!LoopInv'
  BY Served!LoopStep, ServedLayout, ServedRead, ServedLong

(* Its types, too.                                                         *)
LEMMA ServedType ==
  ASSUME Served!TypeOK, [Served!Next]_(Served!vars)
  PROVE  Served!TypeOK'
  BY Served!ReadTypeStep, ServedLayout, ServedRead

(* A step of the reader in Vsfat is one of the reader proved about.        *)
LEMMA Bridge == Reader!Loop => Served!Loop
<1> USE SameNull
<1> USE DEF Reader!InLoop, Reader!Touched, Reader!Region, Reader!Fill, Reader!uselen,
    Reader!usetarget, Reader!usepos, Reader!Least, Reader!filled, Reader!cache, Reader!locals,
    Reader!Opened, Reader!IsCached, Reader!Seek, Reader!OpenFile, Reader!Zero,
    Reader!MemoryByte, Reader!FileByte
<1> USE DEF Served!InLoop, Served!Touched, Served!Region, Served!Fill, Served!uselen,
    Served!usetarget, Served!usepos, Served!Least, Served!filled, Served!cache, Served!locals,
    Served!Opened, Served!IsCached, Served!Seek, Served!OpenFile, Served!Zero,
    Served!MemoryByte, Served!FileByte
<1>1. Reader!Skip => Served!Skip
  BY DEF Reader!Skip, Served!Skip
<1>2. Reader!CopyMemory => Served!CopyMemory
  BY DEF Reader!CopyMemory, Served!CopyMemory
<1>3. Reader!ReadFile => Served!ReadFile
  BY DEF Reader!ReadFile, Served!ReadFile
<1>4. Reader!MissFile => Served!MissFile
  BY DEF Reader!MissFile, Served!MissFile
<1>5. Reader!Return => Served!Return
  BY DEF Reader!Return, Served!Return
<1> QED
  BY <1>1, <1>2, <1>3, <1>4, <1>5 DEF Reader!Loop, Served!Loop

-----------------------------------------------------------------------------
(* The image that is served                                                *)

(* Behind setup.c's regions there are dirtables and files of the exported  *)
(* folder, in the data area.                                               *)
RegionsShaped ==
  \A i \in DataRegions :
    LET r == address_regions[i]
    IN  /\ r.base >= address_from_fatclus(2)
        /\ IF r.mem_pointer = NoPointer THEN r.file_path > 0 /\ r.file_path <= scanned
           ELSE r.file_path = 0

(* A step maps no region, or one of this shape. *)
LEMMA RegionsShapedStep ==
  ASSUME TypeInv, TypeInv', PackedInv, NamesInv, SetupKept, RegionsShaped, [Next]_vars
  PROVE  RegionsShaped'
<1>1. scanned \in Nat /\ job.name \in Nat /\ NoPointer[1] = "null"
  BY DEF TypeInv, TypeOK, NoPointer
<1>2. \A i \in DataRegions : address_regions[i].file_path \in Nat
  <2>1. Len(SetupRegions) \in Nat
    BY DEF SetupRegions
  <2>2. \A i \in DataRegions : address_regions[i] \in AddressRegions
    BY <2>1, ElementOfSeq, LenProperties DEF TypeInv, TypeOK, DataRegions
  <2> QED BY <2>2 DEF AddressRegions
<1>3. ASSUME address_regions' = address_regions, scanned' \in Nat, scanned' >= scanned
      PROVE  RegionsShaped'
  <2> SUFFICES ASSUME NEW i \in DataRegions
               PROVE  LET r == address_regions[i]
                      IN  /\ r.base >= address_from_fatclus(2)
                          /\ IF r.mem_pointer = NoPointer THEN r.file_path > 0 /\ r.file_path <= scanned'
                             ELSE r.file_path = 0
    BY <1>3 DEF RegionsShaped, DataRegions
  <2> QED BY <1>1, <1>2, <1>3 DEF RegionsShaped
<1>4. ASSUME NEW c \in Nat, c >= 2, NEW length, NEW m, NEW f \in Nat,
             address_regions' = Append(address_regions,
               AddressRegion(address_from_fatclus(c), length, m, f)),
             scanned' = scanned,
             IF m = NoPointer THEN f > 0 /\ f <= scanned ELSE f = 0
      PROVE  RegionsShaped'
  <2> DEFINE new == AddressRegion(address_from_fatclus(c), length, m, f)
             last == Len(address_regions) + 1
  <2>1. /\ DataRegions' = DataRegions \cup {last}
        /\ address_regions'[last] = new
        /\ \A i \in DataRegions : address_regions'[i] = address_regions[i]
    BY <1>4, MapGrows
  <2>2. /\ new.base = address_from_fatclus(c) /\ new.mem_pointer = m /\ new.file_path = f
    BY DEF AddressRegion
  <2>3. address_from_fatclus(c) >= address_from_fatclus(2)
    BY <1>4, AddressOrder
  <2> HIDE DEF new, last
  <2> SUFFICES ASSUME NEW i \in DataRegions \cup {last}
               PROVE  LET r == address_regions'[i]
                      IN  /\ r.base >= address_from_fatclus(2)
                          /\ IF r.mem_pointer = NoPointer THEN r.file_path > 0 /\ r.file_path <= scanned
                             ELSE r.file_path = 0
    BY <1>4, <2>1 DEF RegionsShaped
  <2>4. CASE i = last
    BY <1>4, <2>1, <2>2, <2>3, <2>4
  <2>5. CASE i \in DataRegions
    BY <2>1, <2>5 DEF RegionsShaped
  <2> QED BY <2>4, <2>5
<1>5. ASSUME NEW entry \in Entries, dir_add_entry(entry), EntryOfJob(entry)
      PROVE  RegionsShaped'
  <2>1. scanned' = scanned
    BY <1>5, EntryControl
  <2>2. PICK t, i : Placed(entry, t, i)
    BY <1>5, EntryPlaced
  <2>3. CASE t \in DOMAIN dirtables
    BY <1>1, <1>3, <2>1, <2>2, <2>3 DEF Placed
  <2>4. CASE t \notin DOMAIN dirtables
    <3> DEFINE c == current_dir'.dir_location
    <3>1. c >= 2 /\ address_regions' = Append(address_regions,
                      AddressRegion(address_from_fatclus(c), cluster_size, DirTable(t), 0))
      BY <2>2, <2>4 DEF Placed
    <3>2. c \in Nat
      <4>1. dir_stack' \in Seq(Fat_Directories) /\ dir_stack' # << >>
        BY DEF TypeInv, TypeOK
      <4>2. current_dir' \in Fat_Directories
        BY <4>1, LenProperties, ElementOfSeq, EmptySeq DEF current_dir
      <4> QED BY <4>2 DEF Fat_Directories
    <3>3. DirTable(t) # NoPointer
      BY DEF DirTable, NoPointer
    <3> HIDE DEF c
    <3> QED BY <1>4, <2>1, <3>1, <3>2, <3>3
  <2> QED BY <2>3, <2>4
<1>6. CASE Quiet
  <2>1. CASE fat_new_file /\ FatHasRoom
    <3>1. /\ address_regions' = Append(address_regions,
               AddressRegion(address_from_fatclus(job.filePosition), FileLength, NoPointer, job.name))
          /\ pc = "data" /\ scanned' = scanned
      BY <2>1 DEF fat_new_file
    <3>2. job.filePosition \in Nat /\ job.filePosition >= 2
      BY <3>1 DEF TypeInv, TypeOK, ClustersOK
    <3>3. job.name = scanned /\ scanned > 0
      BY <3>1 DEF NamesInv, Numbered
    <3> QED BY <1>1, <1>4, <3>1, <3>2, <3>3
  <2>2. CASE address_regions' = address_regions
    <3>1. scanned' \in Nat /\ scanned' >= scanned
      BY <1>1, <1>6, QuietControl
    <3> QED BY <1>3, <2>2, <3>1
  <2> QED BY <1>6, <2>1, <2>2 DEF Quiet, AddFile, AddFolder, add_file, image, PickFilePosition,
          fat_new_file, Launch, vars, Dropped
<1>7. CASE EnterFolder \/ up_dir
  BY <1>1, <1>3, <1>7 DEF EnterFolder, up_dir
<1> QED BY <1>5, <1>6, <1>7, StepKinds

(* No more names are read than the scan is bound to. *)
ScanBounded == scanned <= MaxScanned

(* add_file is called for those only. *)
LEMMA ScanBoundedStep ==
  ASSUME scanned \in Nat, ScanBounded, [Next]_vars
  PROVE  ScanBounded'
<1>1. MaxScanned \in Nat
  BY FatFilesAssumption
<1>2. CASE \E n, s, d : add_file(n, s, d)
  BY <1>1, <1>2 DEF add_file, ScanBounded
<1>3. CASE UNCHANGED scanned
  BY <1>3 DEF ScanBounded
<1> QED BY <1>2, <1>3 DEF Next, vars, AddFile, AddFolder, AddLfnEntry, PickFilePosition, AddShortEntry,
        fat_new_file, EnterFolder, AddDot, AddDotDot, up_dir, Launch, Serve

(* A folder has a dirtable from its . entry on. *)
FoldersBegun ==
  \A t \in DOMAIN dirtables : \A i \in Slots : \A e \in Entries :
    dirtables[t].slots[i] = e /\ e.kind = "dir" =>
      \/ TablesOf(e.name) # {}
      \/ pc \in {"enter", "dot"} /\ job.name = e.name

(* dir_add_entry gives it one with the . entry, if it has none. *)
LEMMA FoldersBegunStep ==
  ASSUME TypeInv, PackedInv, NamesInv, FoldersBegun, [Next]_vars
  PROVE  FoldersBegun'
<1>1. ASSUME NEW entry \in Entries, dir_add_entry(entry), EntryOfJob(entry), NEW e \in Entries,
             NEW s \in DOMAIN dirtables', NEW k \in Slots, dirtables'[s].slots[k] = e, e.kind = "dir"
      PROVE  \/ TablesOf(e.name)' # {}
             \/ pc' \in {"enter", "dot"} /\ job'.name = e.name
  <2>1. PICK t, i : Placed(entry, t, i)
    BY <1>1, EntryPlaced
  <2>2. e = dirtables'[s].slots[k]
    BY <1>1
  <2>3. \A d : TablesOf(d)' = TablesOf(d) \cup (IF d = current_dir.path THEN {t} ELSE {})
    BY <2>1, TablesAfterEntry
  <2>4. e = entry \/ (s \in DOMAIN dirtables /\ e = dirtables[s].slots[k])
    BY <1>1, <2>1, <2>2, EntriesAfter
  <2>5. CASE e = entry
    <3>1. pc = "short" /\ e.name = job.name /\ job' = job
          /\ pc' = IF job.isDirectory # 0 THEN "enter" ELSE "data"
      BY <1>1, <2>2, <2>5, EntryControl DEF LfnEntry, DotEntry, DotDotEntry, ShortEntry, Entry
    <3>2. job.isDirectory # 0
      BY <1>1, <2>5, <3>1, EntryControl DEF ShortEntry, Entry, LfnEntry, DotEntry, DotDotEntry
    <3> QED BY <3>1, <3>2
  <2>6. CASE s \in DOMAIN dirtables /\ e = dirtables[s].slots[k]
    <3>1. \/ TablesOf(e.name) # {}
          \/ pc \in {"enter", "dot"} /\ job.name = e.name
      BY <1>1, <2>6 DEF FoldersBegun
    <3>2. CASE TablesOf(e.name) # {}
      BY <2>3, <3>2
    <3>3. CASE pc \in {"enter", "dot"} /\ job.name = e.name
      <4>1. pc = "dot"
        BY <1>1, <3>3, EntryControl
      <4>2. current_dir.path = e.name
        BY <3>3, <4>1 DEF NamesInv, Numbered
      <4> QED BY <2>3, <4>2
    <3> QED BY <3>1, <3>2, <3>3
  <2> QED BY <2>4, <2>5, <2>6
<1>2. ASSUME dirtables' = dirtables,
             pc \in {"enter", "dot"} => pc' \in {"enter", "dot"} /\ job' = job
      PROVE  FoldersBegun'
  BY <1>2 DEF FoldersBegun, TablesOf
<1>3. CASE Quiet
  <2>1. pc \in {"enter", "dot"} => pc' \in {"enter", "dot"} /\ job' = job
    BY <1>3, QuietControl
  <2> QED BY <1>2, <1>3, <2>1 DEF Quiet
<1>4. CASE EnterFolder \/ up_dir
  BY <1>2, <1>4 DEF EnterFolder, up_dir
<1> QED
  <2>1. ASSUME NEW entry \in Entries, dir_add_entry(entry), EntryOfJob(entry) PROVE FoldersBegun'
    BY <1>1, <2>1 DEF FoldersBegun
  <2> QED BY <1>3, <1>4, <2>1, StepKinds

(* The root directory: the exported folder's, at the bottom of the stack;   *)
(* it gets the first dirtable of all, at the cluster a driver looks for it. *)
RootAtStart ==
  /\ dir_stack[1].path = RootFolder
  /\ dirtables = << >> => /\ Len(dir_stack) = 1 /\ dir_stack[1].dir_location = root_dir_loc
                          /\ pc \notin {"enter", "dot", "dotdot"}
  /\ dirtables # << >> => /\ TablesOf(RootFolder) # {}
                          /\ Begins(RootEntry)

(* It stays there. *)
LEMMA RootStep ==
  ASSUME TypeInv, TypeInv', PackedInv, SetupKept, Mapped, RootAtStart, [Next]_vars
  PROVE  RootAtStart'
<1>1. MapKept
  BY MappedStep
<1>2. RootEntry.name = RootFolder /\ RootEntry.first = root_dir_loc /\ RootFolder = 0
  BY DEF RootEntry, Entry, RootFolder
<1>3. PICK top \in Nat \ {0} : /\ top = Len(dir_stack) /\ DOMAIN dir_stack = 1 .. top
                               /\ current_dir = dir_stack[top] /\ 1 \in DOMAIN dir_stack
  BY TopShape
<1>4. \A u \in DOMAIN dirtables : u \in Nat \ {0}
  BY TableShape
<1>5. TablesOf(RootFolder) \subseteq DOMAIN dirtables
  BY DEF TablesOf
<1>6. ASSUME NEW entry \in Entries, dir_add_entry(entry), EntryOfJob(entry)
      PROVE  RootAtStart'
  <2>1. PICK t, i : Placed(entry, t, i)
    BY <1>6, EntryPlaced
  <2>2. \A d : TablesOf(d)' = TablesOf(d) \cup (IF d = current_dir.path THEN {t} ELSE {})
    BY <2>1, TablesAfterEntry
  <2>3. dir_stack'[1].path = RootFolder
    BY <1>6, <1>3, PathsKept DEF RootAtStart
  <2>4. dirtables' # << >>
    <3>1. t \in DOMAIN dirtables'
      BY <2>1 DEF Placed
    <3> QED BY <3>1
  <2>5. CASE dirtables # << >>
    <3>1. PICK u \in TablesOf(RootFolder) :
            (\A v \in TablesOf(RootFolder) : u <= v) /\ ClusterOf(u) = root_dir_loc
      BY <1>2, <2>5 DEF RootAtStart, Begins
    <3>2. ClusterOf(u)' = ClusterOf(u)
      BY <1>1, <1>5 DEF MapKept
    <3>3. RootFolder = current_dir.path => u <= t
      <4>1. CASE t \in DOMAIN dirtables
        <5>1. RootFolder = current_dir.path => t \in TablesOf(RootFolder)
          BY <2>1, <4>1 DEF TablesOf, Placed
        <5> QED BY <3>1, <5>1
      <4>2. CASE t \notin DOMAIN dirtables
        <5>1. t = Len(dirtables) + 1
          BY <2>1, <4>2 DEF Placed
        <5>2. Len(dirtables) \in Nat /\ u \in 1 .. Len(dirtables)
          BY <1>5, LenProperties DEF TypeInv, TypeOK
        <5> QED BY <5>1, <5>2
      <4> QED BY <4>1, <4>2
    <3>4. u \in TablesOf(RootFolder)' /\ \A v \in TablesOf(RootFolder)' : u <= v
      BY <2>2, <3>1, <3>3
    <3>5. Begins(RootEntry)'
      BY <1>2, <3>1, <3>2, <3>4 DEF Begins
    <3> QED BY <2>3, <2>4, <3>4, <3>5 DEF RootAtStart
  <2>6. CASE dirtables = << >>
    <3>1. top = 1 /\ current_dir.dir_location = root_dir_loc /\ current_dir.path = RootFolder
      BY <1>3, <2>6 DEF RootAtStart
    <3>2. t \notin DOMAIN dirtables /\ TablesOf(RootFolder) = {}
      BY <1>5, <2>6
    <3>3. current_dir.dirtables = << >>
      <4>1. ASSUME current_dir.dirtables # << >> PROVE FALSE
        <5>1. LastTable(top) \in DOMAIN dirtables
          BY <1>3, <4>1, LastTableShape
        <5> QED BY <2>6, <5>1
      <4> QED BY <4>1
    <3>4. current_dir'.dir_location = root_dir_loc
      BY <1>6, <3>1, <3>3, FirstLocation
    <3>5. ClusterOf(t)' = root_dir_loc
      BY <2>1, <3>2, <3>4, MappedAfterEntry
    <3>6. TablesOf(RootFolder)' = {t} /\ t \in Nat
      BY <2>1, <2>2, <3>1, <3>2 DEF Placed
    <3>7. Begins(RootEntry)'
      BY <1>2, <3>5, <3>6 DEF Begins
    <3> QED BY <2>3, <2>4, <3>6, <3>7 DEF RootAtStart
  <2> QED BY <2>5, <2>6
<1>7. ASSUME dirtables' = dirtables, Len(dir_stack') = Len(dir_stack), dir_stack'[1] = dir_stack[1],
             pc' \in {"enter", "dot", "dotdot"} => pc \in {"enter", "dot", "dotdot"}
      PROVE  RootAtStart'
  <2>1. dirtables' # << >> => TablesOf(RootFolder)' # {} /\ Begins(RootEntry)'
    <3>1. TablesOf(RootFolder)' = TablesOf(RootFolder)
      BY <1>7 DEF TablesOf
    <3>2. \A u \in TablesOf(RootFolder) : ClusterOf(u)' = ClusterOf(u)
      BY <1>1, <1>5 DEF MapKept
    <3> QED BY <1>2, <1>7, <3>1, <3>2 DEF RootAtStart, Begins
  <2> QED BY <1>7, <2>1 DEF RootAtStart
<1>8. CASE Quiet
  <2>1. pc' \in {"enter", "dot", "dotdot"} => pc \in {"enter", "dot", "dotdot"}
    BY <1>8, QuietControl
  <2> QED BY <1>7, <1>8, <2>1 DEF Quiet
<1>9. ASSUME dirtables' = dirtables, dirtables # << >>, dir_stack'[1] = dir_stack[1]
      PROVE  RootAtStart'
  <2>1. TablesOf(RootFolder)' = TablesOf(RootFolder)
    BY <1>9 DEF TablesOf
  <2>2. \A u \in TablesOf(RootFolder) : ClusterOf(u)' = ClusterOf(u)
    BY <1>1, <1>5 DEF MapKept
  <2> QED BY <1>2, <1>9, <2>1, <2>2 DEF RootAtStart, Begins
<1>10. CASE EnterFolder
  <2>1. dirtables' = dirtables /\ dirtables # << >>
    BY <1>10 DEF EnterFolder, RootAtStart
  <2>2. dir_stack'[1] = dir_stack[1]
    BY <1>3, <1>10, FolderEntered
  <2> QED BY <1>9, <2>1, <2>2
<1>11. CASE up_dir
  <2>1. dirtables' = dirtables /\ pc' = pc /\ dir_stack' = ParentStack
    BY <1>11 DEF up_dir
  <2>2. CASE top = 1
    BY <1>3, <1>7, <2>1, <2>2 DEF ParentStack
  <2>3. CASE top # 1
    <3>1. dirtables # << >>
      BY <1>3, <2>3 DEF RootAtStart
    <3>2. dir_stack' = SubSeq(dir_stack, 1, top - 1) /\ top - 1 \in Nat /\ 1 \in 1 .. top - 1
      BY <1>3, <2>1, <2>3 DEF ParentStack
    <3>3. dir_stack \in Seq(Fat_Directories)
      BY DEF TypeInv, TypeOK
    <3>4. dir_stack'[1] = dir_stack[1]
      BY <1>3, <3>2, <3>3, SubSeqProperties
    <3> QED BY <1>9, <2>1, <3>1, <3>4
  <2> QED BY <2>2, <2>3
<1> QED BY <1>6, <1>8, <1>10, <1>11, StepKinds

(* What is known of the image in every state of the program. *)
ImageInv ==
  /\ TypeInv /\ PackedInv /\ NamesInv /\ SetupKept /\ FrontierInv /\ FilesInv /\ PlacesInv
  /\ Started /\ FirstNamed /\ Chained
  /\ RegionsShaped /\ ScanBounded /\ FoldersBegun /\ RootAtStart

(* The builder keeps it, in good order or not.                             *)
LEMMA ImageCorrect == Spec => []ImageInv
<1>1. TypeInv /\ PackedInv /\ [Next]_vars => PackedInv'
  BY PackedStep
<1>2. /\ TypeInv /\ TypeInv' /\ PackedInv /\ NamesInv /\ SetupKept /\ FrontierInv
      /\ FilesInv /\ [Next]_vars
      => FilesInv'
  BY FilesStep, Zenon
<1>3. /\ TypeInv /\ TypeInv' /\ PackedInv /\ NamesInv /\ SetupKept /\ FrontierInv
      /\ PlacesInv /\ Started /\ FirstNamed /\ Chained /\ [Next]_vars
      => Started' /\ FirstNamed' /\ Chained'
  <2> SUFFICES ASSUME TypeInv, TypeInv', PackedInv, NamesInv, SetupKept, FrontierInv,
                      PlacesInv, Started, FirstNamed, Chained, [Next]_vars
               PROVE  Started' /\ FirstNamed' /\ Chained'
    OBVIOUS
  <2>1. Numbered /\ Listed /\ Mapped /\ Located
    BY DEF NamesInv, PlacesInv
  <2>2. Started'
    BY StartedStep
  <2>3. FirstNamed'
    BY <2>1, FirstStep
  <2>4. Chained'
    BY <2>1, ChainedStep
  <2> QED BY <2>2, <2>3, <2>4
<1>4. /\ TypeInv /\ TypeInv' /\ PackedInv /\ NamesInv /\ SetupKept /\ PlacesInv /\ RegionsShaped
      /\ ScanBounded /\ FoldersBegun /\ RootAtStart /\ [Next]_vars
      => RegionsShaped' /\ ScanBounded' /\ FoldersBegun' /\ RootAtStart'
  <2> SUFFICES ASSUME TypeInv, TypeInv', PackedInv, NamesInv, SetupKept, PlacesInv, RegionsShaped,
                      ScanBounded, FoldersBegun, RootAtStart, [Next]_vars
               PROVE  RegionsShaped' /\ ScanBounded' /\ FoldersBegun' /\ RootAtStart'
    OBVIOUS
  <2>1. scanned \in Nat /\ Mapped
    BY DEF TypeInv, TypeOK, PlacesInv
  <2>2. RegionsShaped'
    BY RegionsShapedStep
  <2>3. ScanBounded'
    BY <2>1, ScanBoundedStep
  <2>4. FoldersBegun'
    BY FoldersBegunStep
  <2>5. RootAtStart'
    BY <2>1, RootStep
  <2> QED BY <2>2, <2>3, <2>4, <2>5
<1>5. Init => /\ SetupKept /\ FilesInv /\ Started /\ FirstNamed /\ Chained
              /\ RegionsShaped /\ ScanBounded /\ FoldersBegun /\ RootAtStart
  <2> SUFFICES ASSUME Init
               PROVE  /\ SetupKept /\ FilesInv /\ Started /\ FirstNamed /\ Chained
                      /\ RegionsShaped /\ ScanBounded /\ FoldersBegun /\ RootAtStart
    OBVIOUS
  <2>1. SetupKept /\ FilesInv /\ Started /\ FirstNamed /\ Chained /\ FoldersBegun
    BY DEF Init, SetupKept, FilesInv, FileEntries, Started, FirstNamed, Chained, FoldersBegun,
           Fat_Directory, RootFolder
  <2>2. RegionsShaped
    BY DEF Init, RegionsShaped, DataRegions
  <2>3. ScanBounded
    BY FatFilesAssumption DEF Init, ScanBounded
  <2>4. RootAtStart
    BY DEF Init, RootAtStart, Fat_Directory
  <2> QED BY <2>1, <2>2, <2>3, <2>4
<1> QED BY <1>1, <1>2, <1>3, <1>4, <1>5, NamesInit, NamesStep, SetupStep, PackedInit,
       PlacesInit, PlacesStep, TypeCorrect, FrontierCorrect, PTL DEF Spec, ImageInv

(* setup.c's regions end where the data area begins or before, all but the *)
(* second FAT before.                                                      *)
LEMMA SetupBelowData ==
  /\ Len(SetupRegions) = 6
  /\ \A i \in 1 .. 6 :
       /\ SetupRegions[i].base \in Nat /\ SetupRegions[i].length \in Nat
       /\ SetupRegions[i].base + SetupRegions[i].length <= address_from_fatclus(2)
       /\ i # 6 => SetupRegions[i].base + SetupRegions[i].length < address_from_fatclus(2)
       /\ SetupRegions[i].mem_pointer # NoPointer /\ SetupRegions[i].file_path = 0
<1>1. PICK B \in Nat \ {0}, P \in Nat \ {0} :
        B = BPB_BytsPerSec /\ P = PartStart
  BY LayoutAssumption
<1>2. PICK R \in Nat, F \in Nat \ {0} : R = BPB_RsvdSecCnt /\ F = BPB_FATSz32
  BY LayoutAssumption
<1>3. PICK k \in Nat, f \in Nat : k = BPB_BkBootSec /\ f = BPB_FSInfo /\ 0 < f /\ f < k /\ k < R
  BY <1>2, LayoutAssumption
<1> DEFINE part == P * B
<1>4. part \in Nat /\ part >= B
  <2>1. P * B = (P - 1) * B + B /\ (P - 1) * B \in Nat
    BY <1>1
  <2> QED BY <1>1, <2>1
<1>5. R * B \in Nat /\ F * B \in Nat /\ F * B >= B
  <2>1. F * B = (F - 1) * B + B /\ (F - 1) * B \in Nat
    BY <1>1, <1>2
  <2> QED BY <1>1, <1>2, <2>1
<1>6. k * B \in Nat /\ f * B \in Nat /\ k * B + B <= R * B /\ f * B + B <= R * B
  <2>1. \A i \in Nat, j \in Nat : i < j => i * B \in Nat /\ i * B + B <= j * B
    <3> SUFFICES ASSUME NEW i \in Nat, NEW j \in Nat, i < j PROVE i * B \in Nat /\ i * B + B <= j * B
      OBVIOUS
    <3>1. j * B = i * B + B + (j - i - 1) * B /\ (j - i - 1) * B \in Nat /\ i * B \in Nat
      BY <1>1
    <3> QED BY <1>1, <3>1
  <2> QED BY <1>2, <1>3, <2>1
<1>7. /\ part1_base = part
      /\ address_from_fatsec(fat_location(0)) = part + R * B
      /\ address_from_fatsec(fat_location(1)) = part + R * B + F * B
      /\ address_from_fatclus(2) = part + R * B + F * B + F * B
  <2>1. fat_location(0) = R /\ fat_location(1) = R + F /\ fat_location(BPB_NumFATs) = R + F + F
    BY <1>2, LayoutAssumption DEF fat_location
  <2>2. cluster_size * (2 - 2) = 0
    BY TableWords
  <2>3. part1_base = part
    BY <1>1 DEF part1_base
  <2>4. B * R = R * B /\ B * (R + F) = R * B + F * B /\ B * (R + F + F) = R * B + F * B + F * B
    BY <1>1, <1>2
  <2> QED BY <1>1, <1>4, <1>5, <2>1, <2>2, <2>3, <2>4 DEF address_from_fatclus, address_from_fatsec
<1> HIDE DEF part
<1>8. Len(SetupRegions) = 6
  BY DEF SetupRegions
<1> SUFFICES ASSUME NEW i \in 1 .. 6
             PROVE  /\ SetupRegions[i].base \in Nat /\ SetupRegions[i].length \in Nat
                    /\ SetupRegions[i].base + SetupRegions[i].length <= address_from_fatclus(2)
                    /\ i # 6 => SetupRegions[i].base + SetupRegions[i].length < address_from_fatclus(2)
                    /\ SetupRegions[i].mem_pointer # NoPointer /\ SetupRegions[i].file_path = 0
  BY <1>8
<1>9. SetupRegions[i].mem_pointer # NoPointer /\ SetupRegions[i].file_path = 0
  BY DEF SetupRegions, AddressRegion, NoPointer
<1>10. /\ SetupRegions[1].base = 0 /\ SetupRegions[1].length = B
       /\ SetupRegions[2].base = part /\ SetupRegions[2].length = B
       /\ SetupRegions[3].base = part + k * B /\ SetupRegions[3].length = B
       /\ SetupRegions[4].base = part + f * B /\ SetupRegions[4].length = B
       /\ SetupRegions[5].base = part + R * B /\ SetupRegions[5].length = F * B
       /\ SetupRegions[6].base = part + R * B + F * B /\ SetupRegions[6].length = F * B
  BY <1>1, <1>2, <1>3, <1>7 DEF SetupRegions, AddressRegion
<1>11. /\ SetupRegions[i].base \in Nat /\ SetupRegions[i].length \in Nat
       /\ SetupRegions[i].base + SetupRegions[i].length <= address_from_fatclus(2)
       /\ i # 6 => SetupRegions[i].base + SetupRegions[i].length < address_from_fatclus(2)
  <2>1. CASE i = 1
    BY <1>1, <1>4, <1>5, <1>7, <1>10, <2>1
  <2>2. CASE i = 2
    BY <1>1, <1>4, <1>5, <1>6, <1>7, <1>10, <2>2
  <2>3. CASE i = 3
    BY <1>1, <1>4, <1>5, <1>6, <1>7, <1>10, <2>3
  <2>4. CASE i = 4
    BY <1>1, <1>4, <1>5, <1>6, <1>7, <1>10, <2>4
  <2>5. CASE i = 5
    BY <1>1, <1>4, <1>5, <1>7, <1>10, <2>5
  <2>6. CASE i = 6
    BY <1>1, <1>4, <1>5, <1>7, <1>10, <2>6
  <2> QED BY <2>1, <2>2, <2>3, <2>4, <2>5, <2>6
<1> QED BY <1>9, <1>11

(* A region of the array is setup.c's or one of the data area. *)
LEMMA RegionKinds ==
  ASSUME ImageInv
  PROVE  /\ Len(address_regions) \in Nat /\ DOMAIN address_regions = 1 .. Len(address_regions)
         /\ DataRegions \subseteq DOMAIN address_regions
         /\ \A r \in DOMAIN address_regions :
              /\ address_regions[r] \in AddressRegions
              /\ \/ r \in 1 .. 6 /\ address_regions[r] = SetupRegions[r]
                 \/ r \in DataRegions /\ r > 6
<1>1. address_regions \in Seq(AddressRegions)
  BY DEF ImageInv, TypeInv, TypeOK
<1>2. Len(address_regions) \in Nat /\ DOMAIN address_regions = 1 .. Len(address_regions)
  BY <1>1, LenProperties
<1>3. Len(SetupRegions) = 6 /\ DOMAIN SetupRegions = 1 .. 6
  BY SetupBelowData DEF SetupRegions
<1>4. DataRegions = 7 .. Len(address_regions)
  BY <1>3 DEF DataRegions
<1>5. \A r \in 1 .. 6 : address_regions[r] = SetupRegions[r]
  BY <1>3 DEF ImageInv, SetupKept
<1>6. \A r \in DOMAIN address_regions : address_regions[r] \in AddressRegions
  BY <1>1, <1>2, ElementOfSeq
<1> QED BY <1>2, <1>4, <1>5, <1>6

(* In good order, the files are no larger than the data area. *)
LEMMA LayoutServed ==
  ASSUME ImageInv, Orderly
  PROVE  address_regions \in ServedLayouts
<1>1. PICK hi \in 2 .. fat_entries : Filled(hi)
  BY DEF ImageInv, FrontierInv
<1>2. hi \in Nat /\ hi >= 2 /\ hi <= fat_entries
  BY TableWords
<1>3. \A r \in DataRegions : address_regions[r].length <= Enough
  <2> SUFFICES ASSUME NEW r \in DataRegions PROVE address_regions[r].length <= Enough
    OBVIOUS
  <2>1. PICK b \in Nat, l \in Nat : b = address_regions[r].base /\ l = address_regions[r].length
    BY RegionKinds DEF AddressRegions
  <2>2. b + l <= address_from_fatclus(hi)
    BY <1>1, <2>1 DEF Filled, RegionEnd
  <2>3. b >= address_from_fatclus(2)
    BY <2>1 DEF ImageInv, RegionsShaped
  <2>4. PICK m \in Nat : hi = 2 + m
    BY <1>2
  <2>5. address_from_fatclus(2) \in Nat /\ address_from_fatclus(hi) = address_from_fatclus(2) + cluster_size * m
    <3>1. 2 \in Nat /\ 2 >= 2
      OBVIOUS
    <3>2. address_from_fatclus(2) \in Nat
          /\ address_from_fatclus(2 + m) = address_from_fatclus(2) + cluster_size * m
      BY <3>1, ClusterAddress
    <3> QED BY <2>4, <3>2
  <2>6. PICK k \in Nat : fat_entries = m + k
    BY <1>2, <2>4, TableWords
  <2>7. cluster_size \in Nat /\ cluster_size * m \in Nat /\ cluster_size * k \in Nat
        /\ (m + k) * cluster_size = cluster_size * m + cluster_size * k
    BY TableWords
  <2>8. Enough = cluster_size * m + cluster_size * k
    BY <2>6, <2>7 DEF Enough
  <2> QED BY <2>1, <2>2, <2>3, <2>5, <2>7, <2>8
<1>4. ASSUME NEW r \in DOMAIN address_regions
      PROVE  /\ address_regions[r] \in Reader!MappedRegions
             /\ address_regions[r].mem_pointer = Reader!NoPointer => address_regions[r].length <= Enough
  <2>1. address_regions[r] \in AddressRegions
    BY RegionKinds
  <2>2. address_regions[r] \in Reader!AddressRegions
    BY <2>1 DEF AddressRegions, Reader!AddressRegions, Pointers, Reader!Pointers
  <2>3. CASE r \in 1 .. 6 /\ address_regions[r] = SetupRegions[r]
    BY <2>2, <2>3, SetupBelowData, SameNull DEF Reader!MappedRegions
  <2>4. CASE r \in DataRegions
    <3>1. address_regions[r].length <= Enough
      BY <1>3, <2>4
    <3>2. IF address_regions[r].mem_pointer = NoPointer
          THEN address_regions[r].file_path > 0 /\ address_regions[r].file_path <= scanned
          ELSE address_regions[r].file_path = 0
      BY <2>4 DEF ImageInv, RegionsShaped
    <3>3. address_regions[r].file_path \in Nat
      BY <2>1 DEF AddressRegions
    <3>4. scanned \in Nat /\ scanned <= MaxScanned /\ MaxScanned \in Nat
      BY FatFilesAssumption DEF ImageInv, TypeInv, TypeOK, ScanBounded
    <3>5. address_regions[r].mem_pointer = NoPointer => address_regions[r].file_path \in Reader!Files
      BY <3>2, <3>3, <3>4, SameFiles
    <3> QED BY <2>2, <3>1, <3>2, <3>5, SameNull DEF Reader!MappedRegions
  <2> QED BY <2>3, <2>4, RegionKinds
<1>5. address_regions \in Seq(Reader!MappedRegions)
  <2>1. \A r \in 1 .. Len(address_regions) : address_regions[r] \in Reader!MappedRegions
    BY <1>4, RegionKinds
  <2>2. address_regions \in Seq(AddressRegions)
    BY DEF ImageInv, TypeInv, TypeOK
  <2> QED BY <2>1, <2>2, SeqDef, RegionKinds
<1> QED BY <1>4, <1>5 DEF ServedLayouts

(* A read of the data area meets the regions in order: it touches no more   *)
(* than one of setup.c's, and those of the data area ascend.                *)
LEMMA ReadInOrder ==
  ASSUME ImageInv, Orderly, request.offset \in Nat, request.offset >= address_from_fatclus(2)
  PROVE  Served!InOrder
<1>1. address_from_fatclus(2) \in Nat
  BY ClusterAddress
<1>2. \A r : Served!RegionEnd(r) = RegionEnd(r)
  BY DEF Served!RegionEnd, RegionEnd
<1>3. RegionsSorted
  BY DEF ImageInv, FrontierInv
<1> SUFFICES ASSUME NEW r \in DOMAIN address_regions, NEW s \in DOMAIN address_regions, r < s,
                    Served!Touches(r), Served!Touches(s)
             PROVE  RegionEnd(r) <= address_regions[s].base
  BY <1>2 DEF Served!InOrder
<1>4. request.offset <= RegionEnd(r)
  BY <1>2 DEF Served!Touches
<1>5. r \in 1 .. 6 => r = 6 /\ RegionEnd(r) <= address_from_fatclus(2)
  <2> SUFFICES ASSUME r \in 1 .. 6 PROVE r = 6 /\ RegionEnd(r) <= address_from_fatclus(2)
    OBVIOUS
  <2>1. address_regions[r] = SetupRegions[r]
    BY RegionKinds
  <2>2. RegionEnd(r) = SetupRegions[r].base + SetupRegions[r].length
    BY <2>1 DEF RegionEnd
  <2> QED BY <1>1, <1>4, <2>2, SetupBelowData
<1>6. r \in Nat /\ s \in Nat
  BY RegionKinds
<1>7. s \in DataRegions
  <2>1. s \notin 1 .. 6
    <3>1. ASSUME s \in 1 .. 6 PROVE FALSE
      <4>1. r \in 1 .. 6 /\ r # 6
        BY <1>6, <3>1, RegionKinds
      <4> QED BY <1>5, <4>1
    <3> QED BY <3>1
  <2> QED BY <2>1, RegionKinds
<1>8. CASE r \in DataRegions
  BY <1>3, <1>7, <1>8 DEF RegionsSorted
<1>9. CASE r \in 1 .. 6
  <2>1. address_regions[s].base >= address_from_fatclus(2) /\ address_regions[s].base \in Nat
    BY <1>7, RegionKinds DEF ImageInv, RegionsShaped, AddressRegions
  <2>2. RegionEnd(r) \in Nat
    <3>1. address_regions[r] \in AddressRegions
      BY RegionKinds
    <3> QED BY <3>1 DEF RegionEnd, AddressRegions
  <2> QED BY <1>1, <1>5, <1>9, <2>1, <2>2
<1> QED BY <1>8, <1>9, RegionKinds

-----------------------------------------------------------------------------
(* The driver's walk                                                       *)

(* The dirtables of a folder up to one of them. *)
Upto(d, t) == {u \in TablesOf(d) : u <= t}

(* Where a driver is that has read n clusters of an entry, the last one c. *)
Walk(e, c, n) ==
  IF e.kind = "file"
  THEN e \in FileEntries /\ n \in 1 .. FileClusters(e) /\ c = e.first + (n - 1)
  ELSE \E t \in TablesOf(e.name) : c = ClusterOf(t) /\ n = Cardinality(Upto(e.name, t))

(* The dirtables of a folder are finitely many. *)
LEMMA TablesFinite ==
  ASSUME TypeInv, NEW d
  PROVE  /\ IsFiniteSet(TablesOf(d)) /\ Cardinality(TablesOf(d)) \in Nat
         /\ \A t \in TablesOf(d) : t \in Nat /\ t \in DOMAIN dirtables /\ dirtables[t].dir = d
         /\ \A t : /\ Upto(d, t) \in SUBSET TablesOf(d)
                   /\ IsFiniteSet(Upto(d, t)) /\ Cardinality(Upto(d, t)) \in Nat
                   /\ Cardinality(Upto(d, t)) <= Cardinality(TablesOf(d))
                   /\ Cardinality(Upto(d, t)) = Cardinality(TablesOf(d)) => Upto(d, t) = TablesOf(d)
<1>1. Len(dirtables) \in Nat /\ DOMAIN dirtables = 1 .. Len(dirtables)
  BY LenProperties DEF TypeInv, TypeOK
<1>2. IsFiniteSet(1 .. Len(dirtables))
  BY <1>1, FS_Interval
<1>3. TablesOf(d) \in SUBSET (1 .. Len(dirtables))
  BY <1>1 DEF TablesOf
<1>4. IsFiniteSet(TablesOf(d))
  BY <1>2, <1>3, FS_Subset
<1>5. Cardinality(TablesOf(d)) \in Nat
  BY <1>4, FS_CardinalityType
<1>6. \A t \in TablesOf(d) : t \in Nat /\ t \in DOMAIN dirtables /\ dirtables[t].dir = d
  BY <1>1 DEF TablesOf
<1>7. ASSUME NEW t
      PROVE  /\ Upto(d, t) \in SUBSET TablesOf(d)
             /\ IsFiniteSet(Upto(d, t)) /\ Cardinality(Upto(d, t)) \in Nat
             /\ Cardinality(Upto(d, t)) <= Cardinality(TablesOf(d))
             /\ Cardinality(Upto(d, t)) = Cardinality(TablesOf(d)) => Upto(d, t) = TablesOf(d)
  <2>1. Upto(d, t) \in SUBSET TablesOf(d)
    BY DEF Upto
  <2>2. /\ IsFiniteSet(Upto(d, t))
        /\ Cardinality(Upto(d, t)) <= Cardinality(TablesOf(d))
        /\ Cardinality(TablesOf(d)) = Cardinality(Upto(d, t)) => TablesOf(d) = Upto(d, t)
    BY <1>4, <2>1, FS_Subset
  <2>3. Cardinality(Upto(d, t)) \in Nat
    BY <2>2, FS_CardinalityType
  <2> QED BY <2>1, <2>2, <2>3
<1> QED BY <1>4, <1>5, <1>6, <1>7

(* Counting dirtables tells them apart. *)
LEMMA CountGrows ==
  ASSUME TypeInv, NEW d, NEW t \in TablesOf(d), NEW u \in TablesOf(d), t < u
  PROVE  Cardinality(Upto(d, t)) < Cardinality(Upto(d, u))
<1>1. t \in Nat /\ u \in Nat /\ \A v \in TablesOf(d) : v \in Nat
  BY TablesFinite
<1>2. Upto(d, t) \in SUBSET Upto(d, u) /\ u \in Upto(d, u) /\ u \notin Upto(d, t)
  <2>1. \A v \in TablesOf(d) : v <= t => v <= u
    BY <1>1
  <2>2. u <= u /\ ~(u <= t)
    BY <1>1
  <2>3. Upto(d, t) \subseteq Upto(d, u)
    BY <2>1 DEF Upto
  <2> QED BY <2>2, <2>3 DEF Upto
<1>3. IsFiniteSet(Upto(d, u)) /\ Cardinality(Upto(d, u)) \in Nat /\ Cardinality(Upto(d, t)) \in Nat
  BY TablesFinite
<1>4. /\ Cardinality(Upto(d, t)) <= Cardinality(Upto(d, u))
      /\ Cardinality(Upto(d, u)) = Cardinality(Upto(d, t)) => Upto(d, u) = Upto(d, t)
  BY <1>2, <1>3, FS_Subset
<1> QED BY <1>2, <1>3, <1>4

(* The n-th dirtable of a folder is the one up to which there are n. *)
LEMMA NthTableIs ==
  ASSUME TypeInv, NEW d, NEW t \in TablesOf(d)
  PROVE  NthTable(d, Cardinality(Upto(d, t))) = t
<1> DEFINE n == Cardinality(Upto(d, t))
<1>1. \A v \in TablesOf(d) : v \in Nat
  BY TablesFinite
<1>2. \A v \in TablesOf(d) : Cardinality(Upto(d, v)) \in Nat
  BY TablesFinite
<1>3. \A v \in TablesOf(d) : Cardinality(Upto(d, v)) = n => v = t
  <2> SUFFICES ASSUME NEW v \in TablesOf(d), v # t PROVE Cardinality(Upto(d, v)) # n
    OBVIOUS
  <2>1. CASE v < t
    <3>1. Cardinality(Upto(d, v)) < n
      BY <2>1, CountGrows
    <3> QED BY <1>2, <3>1
  <2>2. CASE t < v
    <3>1. n < Cardinality(Upto(d, v))
      BY <2>2, CountGrows
    <3> QED BY <1>2, <3>1
  <2> QED BY <1>1, <2>1, <2>2
<1>4. NthTable(d, n) = CHOOSE v \in TablesOf(d) : Cardinality(Upto(d, v)) = n
  BY DEF NthTable, Upto
<1> HIDE DEF n
<1>5. Cardinality(Upto(d, t)) = n
  BY DEF n
<1> QED BY <1>3, <1>4, <1>5 DEF n

(* The first one counts one.                                               *)
LEMMA CountFirst ==
  ASSUME TypeInv, NEW d, NEW t \in TablesOf(d), \A v \in TablesOf(d) : t <= v
  PROVE  Cardinality(Upto(d, t)) = 1
<1>1. \A v \in TablesOf(d) : v \in Nat
  BY TablesFinite
<1>2. Upto(d, t) = {t}
  BY <1>1 DEF Upto
<1> QED BY <1>2, FS_Singleton

(* The next dirtable counts one more.                                      *)
LEMMA CountNext ==
  ASSUME TypeInv, NEW d, NEW t \in TablesOf(d), NEW u, Follows(t, u)
  PROVE  u \in TablesOf(d) /\ Cardinality(Upto(d, u)) = Cardinality(Upto(d, t)) + 1
<1>1. \A v \in TablesOf(d) : v \in Nat /\ v \in DOMAIN dirtables /\ dirtables[v].dir = d
  BY TablesFinite
<1>2. u \in TablesOf(d) /\ u > t
  BY <1>1 DEF Follows, TablesOf
<1>3. \A v \in TablesOf(d) : v > t => u <= v
  BY <1>1 DEF Follows
<1>4. Upto(d, u) = Upto(d, t) \cup {u} /\ u \notin Upto(d, t)
  BY <1>1, <1>2, <1>3 DEF Upto
<1>5. IsFiniteSet(Upto(d, t))
  BY TablesFinite
<1> QED BY <1>2, <1>4, <1>5, FS_AddElement

(* The last one counts all of them, one that another follows does not.     *)
LEMMA CountLast ==
  ASSUME TypeInv, NEW d, NEW t \in TablesOf(d)
  PROVE  /\ Ends(t) => Cardinality(Upto(d, t)) = Cardinality(TablesOf(d))
         /\ \A u : Follows(t, u) => Cardinality(Upto(d, t)) < Cardinality(TablesOf(d))
<1>1. \A v \in TablesOf(d) : v \in Nat /\ v \in DOMAIN dirtables /\ dirtables[v].dir = d
  BY TablesFinite
<1>2. Ends(t) => Upto(d, t) = TablesOf(d)
  BY <1>1 DEF Ends, Upto
<1>3. ASSUME NEW u, Follows(t, u)
      PROVE  Cardinality(Upto(d, t)) < Cardinality(TablesOf(d))
  <2>1. u \in TablesOf(d) /\ Cardinality(Upto(d, u)) = Cardinality(Upto(d, t)) + 1
    BY <1>3, CountNext
  <2>2. Cardinality(Upto(d, u)) <= Cardinality(TablesOf(d)) /\ Cardinality(Upto(d, t)) \in Nat
        /\ Cardinality(TablesOf(d)) \in Nat
    BY TablesFinite
  <2> QED BY <2>1, <2>2
<1> QED BY <1>2, <1>3

(* A folder has fewer dirtables than the FAT has clusters. *)
LEMMA TablesFewer ==
  ASSUME ImageInv, Orderly, NEW d
  PROVE  Cardinality(TablesOf(d)) < fat_entries
<1>1. PICK hi \in 2 .. fat_entries : Filled(hi)
  BY DEF ImageInv, FrontierInv
<1>2. hi \in Nat /\ hi >= 2 /\ hi <= fat_entries /\ fat_entries \in Nat
  BY TableWords
<1>3. TypeInv /\ Mapped /\ RegionsSorted
  BY DEF ImageInv, PlacesInv, FrontierInv
<1> DEFINE S == TablesOf(d)
           f == [t \in S |-> ClusterOf(t)]
<1>4. \A t \in S : t \in DOMAIN dirtables
  BY DEF TablesOf
<1>5. \A t \in S : ClusterOf(t) \in 2 .. hi - 1
  BY <1>1, <1>2, <1>3, <1>4, ClusterType, ClusterBelow
<1>6. \A t, u \in S : t # u => ClusterOf(t) # ClusterOf(u)
  BY <1>3, <1>4, ClustersApart
<1> HIDE DEF S
<1>7. f \in [S -> 2 .. hi - 1]
  BY <1>5
<1>8. \A t, u \in DOMAIN f : f[t] = f[u] => t = u
  BY <1>6
<1> HIDE DEF f
<1>9. f \in Injection(S, 2 .. hi - 1)
  BY <1>7, <1>8 DEF Injection, IsInjective
<1>10. IsFiniteSet(2 .. hi - 1) /\ Cardinality(2 .. hi - 1) = IF 2 > hi - 1 THEN 0 ELSE (hi - 1) - 2 + 1
  BY <1>2, FS_Interval
<1>11. Cardinality(S) <= Cardinality(2 .. hi - 1)
  BY <1>9, <1>10, FS_Injection
<1>12. Cardinality(S) \in Nat
  BY <1>3, TablesFinite DEF S
<1>13. Cardinality(S) < fat_entries
  BY <1>2, <1>10, <1>11, <1>12
<1> QED BY <1>13 DEF S

(* A cluster of a dirtable, and what the FAT says of it. *)
LEMMA TableWord ==
  ASSUME ImageInv, Orderly, NEW t \in DOMAIN dirtables
  PROVE  /\ ClusterOf(t) \in Nat /\ ClusterOf(t) >= 2 /\ ClusterOf(t) < fat_entries
         /\ \/ Ends(t) /\ fat[ClusterOf(t)] = fat_end
            \/ \E u : /\ Follows(t, u) /\ fat[ClusterOf(t)] = ClusterOf(u)
                      /\ u \in DOMAIN dirtables /\ ClusterOf(u) < fat_entries /\ ClusterOf(u) \in Nat
<1>1. PICK hi \in 2 .. fat_entries : Filled(hi)
  BY DEF ImageInv, FrontierInv
<1>2. hi \in Nat /\ hi >= 2 /\ hi <= fat_entries /\ fat_entries \in Nat
  BY TableWords
<1>3. TypeInv /\ Mapped /\ Chained
  BY DEF ImageInv, PlacesInv
<1>4. \A u \in DOMAIN dirtables : ClusterOf(u) \in Nat /\ ClusterOf(u) >= 2 /\ ClusterOf(u) < hi
  BY <1>1, <1>2, <1>3, ClusterType, ClusterBelow
<1>5. \A u \in DOMAIN dirtables : ClusterOf(u) < fat_entries
  BY <1>2, <1>4
<1>6. \A u : Follows(t, u) => u \in DOMAIN dirtables
  BY DEF Follows
<1> QED BY <1>3, <1>4, <1>5, <1>6 DEF Chained

(* The end mark is no cluster. *)
LEMMA EndIsNoCluster == \A c \in Nat : c < fat_entries + FatSlack => c # fat_end
  BY LayoutAssumption, FatFilesAssumption, TableWords DEF fat_end

(* Where a walk begins. *)
LEMMA WalkBegins ==
  ASSUME ImageInv, Orderly, pc = "serving", NEW e \in Targets
  PROVE  Walk(e, e.first, 1)
<1>1. TypeInv
  BY DEF ImageInv
<1>2. job.name = 0
  BY DEF ImageInv, NamesInv, Numbered
<1>3. ASSUME e.kind # "file", TablesOf(e.name) # {}, Begins(e) PROVE Walk(e, e.first, 1)
  <2>1. PICK u \in TablesOf(e.name) : (\A v \in TablesOf(e.name) : u <= v) /\ e.first = ClusterOf(u)
    BY <1>3 DEF Begins
  <2>2. Cardinality(Upto(e.name, u)) = 1
    BY <1>1, <2>1, CountFirst
  <2> QED BY <1>3, <2>1, <2>2 DEF Walk
<1>4. CASE dirtables # << >> /\ e = RootEntry
  <2>1. e.kind = "dir" /\ e.name = RootFolder
    BY <1>4 DEF RootEntry, Entry
  <2>2. TablesOf(e.name) # {} /\ Begins(e)
    BY <1>4, <2>1 DEF ImageInv, RootAtStart
  <2> QED BY <1>3, <2>1, <2>2
<1>5. CASE e.kind \in {"file", "dir"} /\ \E t \in DOMAIN dirtables : \E i \in Slots : e = dirtables[t].slots[i]
  <2>1. PICK t \in DOMAIN dirtables, i \in Slots : e = dirtables[t].slots[i]
    BY <1>5
  <2>2. e \in Entries
    BY <1>1, <2>1, TableShape
  <2>3. CASE e.kind = "dir"
    <3>1. TablesOf(e.name) # {}
      BY <2>1, <2>2, <2>3 DEF ImageInv, FoldersBegun
    <3>2. Begins(e)
      BY <2>1, <2>2, <2>3 DEF ImageInv, FirstNamed
    <3> QED BY <1>3, <2>3, <3>1, <3>2
  <2>4. CASE e.kind = "file"
    <3>1. e \in FileEntries
      BY <1>1, <2>1, <2>4, TableShape DEF FileEntries
    <3>2. FileClusters(e) \in Nat \ {0} /\ e.first \in Nat
      BY <2>2, FileSize
    <3>3. 1 \in 1 .. FileClusters(e) /\ e.first = e.first + (1 - 1)
      BY <3>2
    <3> QED BY <2>4, <3>1, <3>3 DEF Walk
  <2> QED BY <1>5, <2>3, <2>4
<1> QED
  <2>1. \A t \in DOMAIN dirtables : DOMAIN dirtables[t].slots = Slots
    BY <1>1, TableShape
  <2>2. \/ dirtables # << >> /\ e = RootEntry
        \/ e.kind \in {"file", "dir"} /\ \E t \in DOMAIN dirtables : \E i \in Slots : e = dirtables[t].slots[i]
    BY <2>1 DEF Targets
  <2> QED BY <1>4, <1>5, <2>2

(* A file of the served image is kept, in the data area. *)
LEMMA FileServed ==
  ASSUME ImageInv, Orderly, pc = "serving", NEW e \in FileEntries
  PROVE  /\ e \in Entries /\ FileKept(e)
         /\ e.first \in Nat /\ e.first >= 2
         /\ FileClusters(e) \in Nat \ {0}
<1>1. e \in Entries /\ TypeInv
  BY FileEntriesType DEF ImageInv
<1>2. e.first \in Nat /\ FileClusters(e) \in Nat \ {0}
  BY <1>1, FileSize
<1>3. e.name # job.name
  <2>1. job.name = 0
    BY DEF ImageInv, NamesInv, Numbered
  <2>2. PICK t \in DOMAIN dirtables : \E i \in DOMAIN dirtables[t].slots :
                                        e = dirtables[t].slots[i] /\ e.kind = "file"
    BY DEF FileEntries
  <2>3. PICK i \in Slots : e = dirtables[t].slots[i] /\ e.kind = "file"
    BY <1>1, <2>2, TableShape
  <2>4. 0 < e.name
    BY <2>3 DEF ImageInv, NamesInv, Filed
  <2> QED BY <1>1, <2>1, <2>4
<1>4. FileKept(e)
  BY <1>3 DEF ImageInv, FilesInv
<1>5. PICK r \in DataRegions :
        address_regions[r] = AddressRegion(address_from_fatclus(e.first), FileLengthOf(e), NoPointer, e.name)
  BY <1>4 DEF FileKept
<1>6. address_from_fatclus(e.first) >= address_from_fatclus(2)
  BY <1>5 DEF ImageInv, RegionsShaped, AddressRegion
<1>7. e.first >= 2
  <2> SUFFICES ASSUME e.first < 2 PROVE FALSE
    BY <1>2
  <2>1. e.first = 0 \/ e.first = 1
    BY <1>2
  <2>2. cluster_size * (2 - 2) = 0 /\ cluster_size * (0 - 2) < 0 /\ cluster_size * (1 - 2) < 0
        /\ cluster_size * (0 - 2) \in Int /\ cluster_size * (1 - 2) \in Int
    BY TableWords
  <2>3. PICK x \in Nat : x = address_from_fatsec(fat_location(BPB_NumFATs))
    <3>1. address_from_fatclus(2) \in Nat
      BY ClusterAddress
    <3>2. BPB_RsvdSecCnt \in Nat /\ BPB_FATSz32 \in Nat /\ BPB_NumFATs \in Nat /\ PartStart \in Nat /\ BPB_BytsPerSec \in Nat
      BY LayoutAssumption
    <3>3. fat_location(BPB_NumFATs) \in Nat
      BY <3>2, MultNat DEF fat_location
    <3>4. part1_base \in Nat
      BY <3>2, MultNat DEF part1_base
    <3>5. address_from_fatsec(fat_location(BPB_NumFATs)) \in Nat
      BY <3>2, <3>3, <3>4, MultNat DEF address_from_fatsec
    <3> QED BY <3>5
  <2> QED BY <1>6, <2>1, <2>2, <2>3 DEF address_from_fatclus
<1> QED BY <1>1, <1>2, <1>4, <1>7

(* What the FAT says of the k-th cluster of a file. *)
LEMMA FileWord ==
  ASSUME ImageInv, Orderly, pc = "serving", NEW e \in FileEntries, NEW n \in 1 .. FileClusters(e)
  PROVE  /\ fat[e.first + (n - 1)] = IF n = FileClusters(e) THEN fat_end ELSE e.first + n
         /\ n # FileClusters(e) => e.first + n # fat_end
<1>1. FileKept(e) /\ e.first \in Nat /\ FileClusters(e) \in Nat \ {0}
  BY FileServed
<1>2. n - 1 \in 0 .. FileClusters(e) - 1 /\ e.first + (n - 1) + 1 = e.first + n
      /\ (n - 1 = FileClusters(e) - 1 <=> n = FileClusters(e))
  BY <1>1
<1>3. fat[e.first + (n - 1)] = IF n - 1 = FileClusters(e) - 1 THEN fat_end ELSE e.first + (n - 1) + 1
  BY <1>1, <1>2 DEF FileKept
<1>4. n # FileClusters(e) => e.first + n # fat_end
  <2> SUFFICES ASSUME n # FileClusters(e) PROVE e.first + n # fat_end
    OBVIOUS
  <2>1. n \in 0 .. FileClusters(e) - 1
    BY <1>1
  <2>2. e.first + n \in FatWords
    BY <1>1, <2>1 DEF FileKept
  <2>3. e.first + n < fat_entries + FatSlack /\ e.first + n \in Nat
    BY <1>1, <2>2, TableWords DEF FatWords
  <2> QED BY <2>3, EndIsNoCluster
<1> QED BY <1>2, <1>3, <1>4

(* The driver reads clusters of the data area. *)
LEMMA WalkCluster ==
  ASSUME ImageInv, Orderly, pc = "serving", NEW e, NEW c, NEW n, Walk(e, c, n)
  PROVE  c \in Nat /\ c >= 2
<1>1. CASE e.kind = "file"
  <2>1. e \in FileEntries /\ n \in 1 .. FileClusters(e) /\ c = e.first + (n - 1)
    BY <1>1 DEF Walk
  <2>2. e.first \in Nat /\ e.first >= 2 /\ FileClusters(e) \in Nat
    BY <2>1, FileServed
  <2> QED BY <2>1, <2>2
<1>2. CASE e.kind # "file"
  <2>1. PICK t \in TablesOf(e.name) : c = ClusterOf(t)
    BY <1>2 DEF Walk
  <2> QED BY <2>1, TableWord DEF TablesOf
<1> QED BY <1>1, <1>2

(* It comes to the end mark with the last cluster of the entry. *)
LEMMA WalkAtEnd ==
  ASSUME ImageInv, Orderly, pc = "serving", NEW e, NEW c, NEW n, Walk(e, c, n)
  PROVE  fat[c] = fat_end <=> n = ClustersOf(e)
<1>1. CASE e.kind = "file"
  <2>1. e \in FileEntries /\ n \in 1 .. FileClusters(e) /\ c = e.first + (n - 1)
    BY <1>1 DEF Walk
  <2>2. ClustersOf(e) = FileClusters(e)
    BY <1>1 DEF ClustersOf, FileClusters
  <2> QED BY <2>1, <2>2, FileWord
<1>2. CASE e.kind # "file"
  <2>1. PICK t \in TablesOf(e.name) : c = ClusterOf(t) /\ n = Cardinality(Upto(e.name, t))
    BY <1>2 DEF Walk
  <2>2. ClustersOf(e) = Cardinality(TablesOf(e.name))
    BY <1>2 DEF ClustersOf
  <2>3. TypeInv /\ t \in DOMAIN dirtables
    BY <2>1 DEF ImageInv, TablesOf
  <2>4. n \in Nat /\ Cardinality(TablesOf(e.name)) \in Nat
    BY <2>1, <2>3, TablesFinite
  <2>5. CASE Ends(t) /\ fat[ClusterOf(t)] = fat_end
    BY <2>1, <2>2, <2>3, <2>5, CountLast
  <2>6. ASSUME NEW u, Follows(t, u), fat[ClusterOf(t)] = ClusterOf(u), ClusterOf(u) < fat_entries, ClusterOf(u) \in Nat
        PROVE  fat[c] = fat_end <=> n = ClustersOf(e)
    <3>1. n < ClustersOf(e)
      BY <2>1, <2>2, <2>3, <2>6, CountLast
    <3>2. ClusterOf(u) # fat_end
      <4>1. ClusterOf(u) < fat_entries + FatSlack
        BY <2>6, TableWords
      <4> QED BY <2>6, <4>1, EndIsNoCluster
    <3> QED BY <2>1, <2>2, <2>4, <2>6, <3>1, <3>2
  <2> QED BY <2>3, <2>5, <2>6, TableWord
<1> QED BY <1>1, <1>2

(* Until then each word of the FAT leads it to the next one, and the count  *)
(* stays below its bound.                                                  *)
LEMMA WalkGoesOn ==
  ASSUME ImageInv, Orderly, pc = "serving", NEW e, NEW c, NEW n, Walk(e, c, n), IsCluster(fat[c])
  PROVE  n < MaxWalk /\ Walk(e, fat[c], n + 1)
<1>1. fat[c] # fat_end /\ fat[c] \in Nat /\ fat[c] < fat_entries
  <2>1. fat[c] \in Nat /\ fat[c] < fat_entries
    BY TableWords DEF IsCluster, root_dir_loc
  <2>2. fat[c] < fat_entries + FatSlack
    BY <2>1, TableWords
  <2> QED BY <2>1, <2>2, EndIsNoCluster
<1>2. CASE e.kind = "file"
  <2>1. e \in FileEntries /\ n \in 1 .. FileClusters(e) /\ c = e.first + (n - 1)
    BY <1>2 DEF Walk
  <2>2. e.first \in Nat /\ FileClusters(e) \in Nat /\ e.first >= 2
    BY <2>1, FileServed
  <2>3. n # FileClusters(e) /\ fat[c] = e.first + n
    BY <1>1, <2>1, FileWord
  <2>4. n < MaxWalk
    BY <1>1, <2>1, <2>2, <2>3, TableWords DEF MaxWalk
  <2>5. n + 1 \in 1 .. FileClusters(e) /\ fat[c] = e.first + ((n + 1) - 1)
    BY <2>1, <2>2, <2>3
  <2> QED BY <1>2, <2>1, <2>4, <2>5 DEF Walk
<1>3. CASE e.kind # "file"
  <2>1. PICK t \in TablesOf(e.name) : c = ClusterOf(t) /\ n = Cardinality(Upto(e.name, t))
    BY <1>3 DEF Walk
  <2>2. TypeInv /\ t \in DOMAIN dirtables
    BY <2>1 DEF ImageInv, TablesOf
  <2>3. PICK u : Follows(t, u) /\ fat[ClusterOf(t)] = ClusterOf(u)
    BY <1>1, <2>1, <2>2, TableWord
  <2>4. u \in TablesOf(e.name) /\ Cardinality(Upto(e.name, u)) = n + 1
    BY <2>1, <2>2, <2>3, CountNext
  <2>5. n < MaxWalk
    <3>1. n <= Cardinality(TablesOf(e.name)) /\ n \in Nat /\ Cardinality(TablesOf(e.name)) \in Nat
      BY <2>1, <2>2, TablesFinite
    <3>2. Cardinality(TablesOf(e.name)) < fat_entries
      BY TablesFewer
    <3> QED BY <3>1, <3>2, TableWords DEF MaxWalk
  <2> QED BY <1>3, <2>1, <2>3, <2>4, <2>5 DEF Walk
<1> QED BY <1>2, <1>3

-----------------------------------------------------------------------------
(* The read service and its driver                                         *)

(* Before the image is served nothing is read. *)
ReaderFresh ==
  /\ target = NoEntry
  /\ rpc = "idle"
  /\ present = 1 .. MaxScanned /\ missing = {}
  /\ cachedFilePath = 0 /\ cachedFile = 0 /\ file_position = 0 /\ open_files = 0
  /\ request = Reader!Request(0, 0) /\ a = 1 /\ len = 0 /\ offset = 0 /\ buf = << >>

(* Then xmp_read does what it does to every layout, with the files at hand. *)
Serving ==
  /\ Served!LoopInv
  /\ present = 1 .. MaxScanned /\ missing = {}
  /\ cachedFilePath # 0 => cachedFile = cachedFilePath

(* The driver is on its way, and the read is the one it asked for. *)
Following ==
  target # NoEntry => /\ Walk(target, cluster, walked)
                      /\ request = Reader!Request(address_from_fatclus(cluster), cluster_size)

ServeInv ==
  IF pc = "serving" THEN Orderly => Serving /\ Following ELSE ReaderFresh

(* The reader is ready for the image it is handed. *)
LEMMA FreshServes ==
  ASSUME ImageInv, Orderly, ReaderFresh
  PROVE  Serving /\ Following
<1>1. address_regions \in ServedLayouts
  BY LayoutServed
<1>2. address_regions \in Seq(Served!MappedRegions)
  BY <1>1, SameRegions DEF ServedLayouts
<1>3. request = [offset |-> 0, len |-> 0] /\ request \in [offset : Nat, len : Nat]
      /\ request.len = 0 /\ 0 .. request.len - 1 = {}
  BY DEF ReaderFresh, Reader!Request
<1>4. DOMAIN buf = 0 .. request.len - 1
  BY <1>3 DEF ReaderFresh
<1> HIDE DEF ServedLayouts
<1>5. Served!TypeOK
  BY <1>2, <1>3, <1>4, SameFiles DEF ReaderFresh, Served!TypeOK
<1>6. Served!ReplyRight
  BY <1>3 DEF Served!ReplyRight
<1>7. Served!LoopInv
  BY <1>1, <1>5, <1>6 DEF Served!LoopInv, ReaderFresh
<1> QED BY <1>7 DEF ReaderFresh, Serving, Following

(* Whatever the reader does, it does right. *)
LEMMA ServedGoesOn ==
  ASSUME Served!LoopInv, [Served!Next]_(Served!vars)
  PROVE  Served!LoopInv'
<1>1. Served!TypeOK
  BY DEF Served!LoopInv
<1>2. Served!TypeOK'
  BY <1>1, ServedType
<1> QED BY <1>2, ServedStep

(* A walk is a walk of the image, which stays as it is. *)
LEMMA WalkKept ==
  ASSUME UNCHANGED vars, Walk(target', cluster', walked')
  PROVE  Walk(target, cluster, walked)'
<1>1. UNCHANGED << dirtables, address_regions >>
  BY DEF vars, image
<1>2. FileEntries' = FileEntries
  BY <1>1 DEF FileEntries
<1>3. \A d : TablesOf(d)' = TablesOf(d)
  BY <1>1 DEF TablesOf
<1>4. \A t : ClusterOf(t)' = ClusterOf(t)
  BY <1>1 DEF ClusterOf, DataRegions
<1> QED BY <1>2, <1>3, <1>4 DEF Walk, Upto, FileClusters

(* The driver's reads are reads that xmp_read serves. *)
LEMMA ReadServed ==
  ASSUME ImageInv, Orderly, pc = "serving", Serving,
         NEW e, NEW c, NEW n, Walk(e, c, n), ReadCluster(e, c, n)
  PROVE  Serving' /\ Following'
<1> DEFINE r == Reader!Request(address_from_fatclus(c), cluster_size)
<1>1. c \in Nat /\ c >= 2
  BY WalkCluster
<1>2. address_from_fatclus(c) \in Nat
  BY <1>1, AddressOrder
<1>3. cluster_size \in Nat
  BY TableWords
<1>4. r = [offset |-> address_from_fatclus(c), len |-> cluster_size]
  BY DEF Reader!Request
<1>5. r \in ServedRequests
  BY <1>2, <1>3, <1>4 DEF ServedRequests
<1>6. Reader!xmp_read(r)
  BY DEF ReadCluster
<1> HIDE DEF r
<1>7. Served!xmp_read(r)
  BY <1>6 DEF Reader!xmp_read, Served!xmp_read, Reader!cache, Served!cache, Reader!Zero, Served!Zero
<1>8. Served!Read
  BY <1>5, <1>7 DEF Served!Read
<1>9. Served!LoopInv'
  BY <1>8, ServedGoesOn DEF Served!Next, Serving
<1>10. present' = present /\ cachedFilePath' = cachedFilePath /\ cachedFile' = cachedFile
       /\ missing' = {} /\ request' = r
  BY <1>6 DEF Reader!xmp_read, Reader!cache
<1>11. Serving'
  BY <1>9, <1>10 DEF Serving
<1>12. UNCHANGED vars /\ target' = e /\ cluster' = c /\ walked' = n
  BY DEF ReadCluster
<1>13. Walk(target, cluster, walked)'
  BY <1>12, WalkKept
<1>14. request' = Reader!Request(address_from_fatclus(cluster'), cluster_size)
  BY <1>10, <1>12 DEF r
<1> QED BY <1>11, <1>13, <1>14 DEF Following

(* Every file of the image is at hand, so none is missed. *)
LEMMA LoopServed ==
  ASSUME Serving, Reader!Loop
  PROVE  Serving' /\ request' = request
<1>1. Served!Loop
  BY Bridge
<1>2. Served!TypeOK
  BY DEF Serving, Served!LoopInv
<1>3. Served!LoopInv'
  BY <1>1, ServedGoesOn DEF Served!Loop, Served!Next, Serving
<1>4. ASSUME Served!InLoop, Served!Touched, Served!Region.mem_pointer = Served!NoPointer
      PROVE  Served!Opened = Served!Region.file_path /\ Served!Opened # 0
  <2>1. a \in DOMAIN address_regions
    BY <1>2, <1>4, ServedLayout, ServedRead, Served!CopyBounds
  <2>2. Served!Region.file_path \in Served!Files
    BY <1>2, <1>4, <2>1, ServedLayout, ServedRead, Served!RegionTypes DEF Served!Region
  <2>3. Served!Region.file_path \in present /\ Served!Region.file_path # 0
    BY <2>2, SameFiles, FatFilesAssumption DEF Serving
  <2> QED BY <2>3 DEF Serving, Served!Opened, Served!IsCached
<1>5. CASE Served!Skip
  BY <1>3, <1>5 DEF Served!Skip, Served!cache, Serving
<1>6. CASE Served!CopyMemory
  BY <1>3, <1>6 DEF Served!CopyMemory, Served!cache, Serving
<1>7. CASE Served!ReadFile
  <2>1. Served!OpenFile /\ UNCHANGED << present, request, missing >>
    BY <1>7 DEF Served!ReadFile
  <2>2. Served!Opened = Served!Region.file_path
    BY <1>4, <1>7 DEF Served!ReadFile
  <2>3. cachedFile' = cachedFilePath'
    BY <2>1, <2>2 DEF Served!OpenFile, Served!IsCached
  <2> QED BY <1>3, <2>1, <2>3 DEF Serving
<1>8. CASE Served!MissFile
  BY <1>4, <1>8 DEF Served!MissFile
<1>9. CASE Served!Return
  BY <1>3, <1>9 DEF Served!Return, Served!cache, Serving
<1> QED BY <1>1, <1>5, <1>6, <1>7, <1>8, <1>9 DEF Served!Loop

(* Only main's launch of the block device begins to serve.                 *)
LEMMA OnlyLaunch ==
  ASSUME Next, pc # "serving", pc' = "serving"
  PROVE  Launch
<1>1. ~AddFile /\ ~AddFolder
  BY DEF AddFile, AddFolder, add_file
<1>2. ~AddLfnEntry /\ ~PickFilePosition /\ ~AddShortEntry
  BY DEF AddLfnEntry, PickFilePosition, AddShortEntry
<1>3. ~fat_new_file /\ ~EnterFolder /\ ~AddDot /\ ~AddDotDot
  BY DEF fat_new_file, EnterFolder, AddDot, AddDotDot
<1>4. ~up_dir /\ ~Serve
  BY DEF up_dir, Serve
<1> QED BY <1>1, <1>2, <1>3, <1>4 DEF Next

(* Reads are served right in every step of the program. *)
LEMMA ServeStep ==
  ASSUME ImageInv, ServeInv, [VNext]_all
  PROVE  ServeInv'
<1>1. CASE Build
  <2>1. ReaderFresh /\ UNCHANGED << reader, driver >> /\ Next
    BY <1>1 DEF Build, ServeInv
  <2>2. ReaderFresh'
    BY <2>1 DEF ReaderFresh, reader, driver
  <2>3. CASE pc' # "serving"
    BY <2>2, <2>3 DEF ServeInv
  <2>4. CASE pc' = "serving"
    <3> SUFFICES ASSUME Orderly' PROVE Serving' /\ Following'
      BY <2>4 DEF ServeInv
    <3>1. Launch
      BY <1>1, <2>1, <2>4, OnlyLaunch DEF Build
    <3>2. UNCHANGED << image, events >>
      BY <3>1 DEF Launch
    <3>3. Orderly
      BY <3>2 DEF Orderly
    <3>4. Serving
      BY <2>1, <3>3, FreshServes
    <3>5. UNCHANGED Served!vars
      BY <2>1, <3>2 DEF reader, image, Served!vars, Served!cache, Served!locals
    <3>6. Served!LoopInv'
      BY <3>4, <3>5, ServedGoesOn DEF Serving
    <3> QED BY <2>2, <3>6 DEF ReaderFresh, Serving, Following
  <2> QED BY <2>3, <2>4
<1>2. ASSUME pc = "serving", Orderly, Serving, Following, UNCHANGED << vars, reader >>,
             UNCHANGED driver \/ target' = NoEntry
      PROVE  Serving' /\ Following'
  <2>1. UNCHANGED Served!vars
    BY <1>2 DEF vars, image, reader, Served!vars, Served!cache, Served!locals
  <2>2. Served!LoopInv'
    BY <1>2, <2>1, ServedGoesOn DEF Serving
  <2>3. Serving'
    BY <1>2, <2>2 DEF Serving, reader
  <2>4. Following'
    BY <1>2, WalkKept DEF Following, driver, reader
  <2> QED BY <2>3, <2>4
<1>3. CASE UNCHANGED all
  <2>1. UNCHANGED << vars, reader, driver >>
    BY <1>3 DEF all
  <2>2. pc' = pc /\ events' = events
    BY <2>1 DEF vars
  <2>3. CASE pc = "serving"
    BY <1>2, <2>1, <2>2, <2>3 DEF ServeInv, Orderly
  <2>4. CASE pc # "serving"
    BY <2>1, <2>2, <2>4 DEF ServeInv, ReaderFresh, reader, driver
  <2> QED BY <2>3, <2>4
<1>4. CASE OpenEntry \/ FollowChain \/ EndOfChain \/ ServeRead \/ Idle
  <2>1. UNCHANGED vars
    BY <1>4, OthersLeaveImage
  <2>2. pc' = pc /\ events' = events
    BY <2>1 DEF vars
  <2>3. pc = "serving"
    BY <1>4 DEF ServeInv, ReaderFresh, OpenEntry, FollowChain, EndOfChain, ServeRead, Idle, Serve
  <2> SUFFICES ASSUME Orderly PROVE Serving' /\ Following'
    BY <2>2, <2>3 DEF ServeInv, Orderly
  <2>4. Serving /\ Following
    BY <2>3 DEF ServeInv
  <2>5. CASE OpenEntry
    <3>1. PICK e \in Targets : ReadCluster(e, e.first, 1)
      BY <2>5 DEF OpenEntry
    <3>2. Walk(e, e.first, 1)
      BY <2>3, WalkBegins
    <3> QED BY <2>3, <2>4, <3>1, <3>2, ReadServed
  <2>6. CASE FollowChain
    <3>1. target # NoEntry /\ IsCluster(fat[cluster])
          /\ ReadCluster(target, fat[cluster], IF walked < MaxWalk THEN walked + 1 ELSE walked)
      BY <2>6 DEF FollowChain
    <3>2. Walk(target, cluster, walked)
      BY <2>4, <3>1 DEF Following
    <3>3. walked < MaxWalk /\ Walk(target, fat[cluster], walked + 1)
      BY <2>3, <3>1, <3>2, WalkGoesOn
    <3>4. ReadCluster(target, fat[cluster], walked + 1)
      BY <3>1, <3>3
    <3> QED BY <2>3, <2>4, <3>3, <3>4, ReadServed
  <2>7. CASE EndOfChain
    BY <1>2, <2>3, <2>4, <2>7 DEF EndOfChain
  <2>8. CASE ServeRead
    <3>1. Serving' /\ request' = request
      BY <2>4, <2>8, LoopServed DEF ServeRead
    <3>2. UNCHANGED driver
      BY <2>8 DEF ServeRead
    <3>3. Following'
      BY <2>1, <2>4, <3>1, <3>2, WalkKept DEF Following, driver
    <3> QED BY <3>1, <3>3
  <2>9. CASE Idle
    BY <1>2, <2>1, <2>3, <2>4, <2>9 DEF Idle
  <2> QED BY <1>4, <2>5, <2>6, <2>7, <2>8, <2>9
<1> QED BY <1>1, <1>3, <1>4 DEF VNext

(* The answer to the driver holds what is mapped where it reads. *)
LEMMA ByteOfReply ==
  ASSUME ImageInv, Orderly, pc = "serving", Serving, Following, rpc = "idle", target # NoEntry,
         NEW i \in 0 .. cluster_size - 1, NEW r \in DOMAIN address_regions,
         address_regions[r].base <= address_from_fatclus(cluster) + i,
         address_from_fatclus(cluster) + i < address_regions[r].base + address_regions[r].length
  PROVE  buf[i] = Served!ByteAt(r, (address_from_fatclus(cluster) + i) - address_regions[r].base)
<1>1. cluster \in Nat /\ cluster >= 2
  BY WalkCluster DEF Following
<1>2. /\ address_from_fatclus(cluster) \in Nat
      /\ address_from_fatclus(cluster) >= address_from_fatclus(2)
  <2>1. 2 \in Nat /\ 2 >= 2
    OBVIOUS
  <2> QED BY <1>1, <2>1, AddressOrder
<1>3. request.offset = address_from_fatclus(cluster) /\ request.len = cluster_size
  BY DEF Following, Reader!Request
<1>4. Served!InOrder
  BY <1>2, <1>3, ReadInOrder
<1>5. Served!ByteRight(i)
  BY <1>3, <1>4 DEF Serving, Served!LoopInv, Served!ReplyRight
<1>6. Served!Covers(r, request.offset + i)
  BY <1>3 DEF Served!Covers, Served!RegionEnd
<1>7. ~Served!Lost(r)
  BY DEF Serving, Served!Lost
<1>8. buf[i] = Served!ByteAt(r, (request.offset + i) - address_regions[r].base)
  BY <1>5, <1>6, <1>7 DEF Served!ByteRight
<1> QED BY <1>3, <1>8

(* The reply to a driver that is at a file's n-th cluster. *)
LEMMA FileReply ==
  ASSUME ImageInv, Orderly, pc = "serving", Serving, Following, rpc = "idle", target # NoEntry,
         target.kind = "file"
  PROVE  ReplyTo(target, walked)
<1> DEFINE e == target
           n == walked
<1>1. e \in FileEntries /\ n \in 1 .. FileClusters(e) /\ cluster = e.first + (n - 1)
  BY DEF Following, Walk
<1>2. /\ e \in Entries /\ FileKept(e) /\ e.first \in Nat /\ e.first >= 2
      /\ FileClusters(e) \in Nat \ {0}
  BY <1>1, FileServed
<1>3. PICK r \in DataRegions :
        address_regions[r] = AddressRegion(address_from_fatclus(e.first), FileLengthOf(e), NoPointer, e.name)
  BY <1>2 DEF FileKept
<1>4. r \in DOMAIN address_regions
  BY <1>3, RegionKinds
<1>5. /\ address_regions[r].base = address_from_fatclus(e.first)
      /\ address_regions[r].length = FileLengthOf(e)
      /\ address_regions[r].mem_pointer = NoPointer
      /\ address_regions[r].file_path = e.name
  BY <1>3 DEF AddressRegion
<1>6. e.name \in 1 .. MaxScanned /\ FileLengthOf(e) <= Enough
  <2>1. address_regions \in ServedLayouts
    BY LayoutServed
  <2>2. FileLengthOf(e) <= Enough
    BY <1>4, <1>5, <2>1, SameNull DEF ServedLayouts
  <2>3. address_regions[r] \in Reader!MappedRegions
    <3>1. address_regions \in Seq(Reader!MappedRegions)
      BY <2>1 DEF ServedLayouts
    <3> QED BY <1>4, <3>1, RegionKinds, ElementOfSeq
  <2>4. address_regions[r].file_path \in Reader!Files
    BY <1>5, <2>3, SameNull DEF Reader!MappedRegions
  <2> QED BY <1>5, <2>2, <2>4, SameFiles
<1>7. FileLengthOf(e) \in Nat \ {0} /\ e.size \in Nat /\ e.size <= FileLengthOf(e)
  <2>1. e.size \in Nat
    BY <1>2 DEF Entries
  <2> QED BY <2>1 DEF FileLengthOf
<1>8. n - 1 \in Nat /\ n \in Nat
  BY <1>1, <1>2
<1>9. /\ address_from_fatclus(e.first) \in Nat
      /\ address_from_fatclus(cluster) = address_from_fatclus(e.first) + cluster_size * (n - 1)
      /\ cluster_size * (n - 1) \in Nat
  <2>1. /\ address_from_fatclus(e.first) \in Nat
        /\ address_from_fatclus(e.first + (n - 1)) = address_from_fatclus(e.first) + cluster_size * (n - 1)
    BY <1>2, <1>8, ClusterAddress
  <2>2. cluster_size * (n - 1) \in Nat
    BY <1>8, TableWords, MultNat
  <2> QED BY <1>1, <2>1, <2>2
<1> HIDE DEF e, n
<1> SUFFICES ASSUME NEW i \in 0 .. cluster_size - 1, cluster_size * (n - 1) + i < e.size
             PROVE  buf[i] = Reader!FileByte(e.name, cluster_size * (n - 1) + i)
  BY DEF ReplyTo, e, n
<1>10. i \in Nat
  BY TableWords
<1> DEFINE byte == cluster_size * (n - 1) + i
<1>11. byte \in Nat /\ byte < e.size /\ byte < FileLengthOf(e) /\ byte < Enough
  BY <1>6, <1>7, <1>9, <1>10, EnoughNat
<1>12. /\ address_regions[r].base <= address_from_fatclus(cluster) + i
       /\ address_from_fatclus(cluster) + i < address_regions[r].base + address_regions[r].length
       /\ (address_from_fatclus(cluster) + i) - address_regions[r].base = byte
  BY <1>5, <1>7, <1>9, <1>10, <1>11
<1>13. buf[i] = Served!ByteAt(r, byte)
  <2>1. buf[i] = Served!ByteAt(r, (address_from_fatclus(cluster) + i) - address_regions[r].base)
    BY <1>4, <1>12, ByteOfReply DEF e
  <2> QED BY <1>12, <2>1
<1> HIDE DEF byte
<1>14. Served!ByteAt(r, byte) = Served!FileByte(e.name, byte)
  BY <1>5, <1>6, <1>11, SameNull DEF Served!ByteAt
<1> QED BY <1>13, <1>14 DEF Served!FileByte, Reader!FileByte, byte

(* The reply to a driver that is at a folder's n-th cluster. *)
LEMMA FolderReply ==
  ASSUME ImageInv, Orderly, pc = "serving", Serving, Following, rpc = "idle", target # NoEntry,
         target.kind # "file"
  PROVE  ReplyTo(target, walked)
<1>1. PICK t \in TablesOf(target.name) :
        cluster = ClusterOf(t) /\ walked = Cardinality(Upto(target.name, t))
  BY DEF Following, Walk
<1>2. TypeInv /\ Mapped /\ t \in DOMAIN dirtables
  BY <1>1 DEF ImageInv, PlacesInv, TablesOf
<1>3. walked <= Cardinality(TablesOf(target.name))
  BY <1>1, <1>2, TablesFinite
<1>4. NthTable(target.name, walked) = t
  BY <1>1, <1>2, NthTableIs
<1>5. PICK r \in DataRegions : MappedAt(t, r, cluster)
  BY <1>1, <1>2, ClusterType
<1>6. /\ r \in DOMAIN address_regions
      /\ address_regions[r].mem_pointer = DirTable(t)
      /\ address_regions[r].base = address_from_fatclus(cluster)
      /\ address_regions[r].length = cluster_size
  BY <1>5, RegionKinds DEF MappedAt
<1>7. address_from_fatclus(cluster) \in Nat /\ cluster_size \in Nat
  <2>1. cluster \in Nat /\ cluster >= 2
    BY WalkCluster DEF Following
  <2> QED BY <2>1, AddressOrder, TableWords
<1>8. DirTable(t) # NoPointer
  BY DEF DirTable, NoPointer
<1>9. ASSUME NEW i \in 0 .. cluster_size - 1
      PROVE  buf[i] = Reader!MemoryByte(DirTable(t), i)
  <2>1. i \in Nat /\ i < cluster_size
    BY <1>7
  <2>2. /\ address_regions[r].base <= address_from_fatclus(cluster) + i
        /\ address_from_fatclus(cluster) + i < address_regions[r].base + address_regions[r].length
        /\ (address_from_fatclus(cluster) + i) - address_regions[r].base = i
    BY <1>6, <1>7, <2>1
  <2>3. buf[i] = Served!ByteAt(r, (address_from_fatclus(cluster) + i) - address_regions[r].base)
    BY <1>6, <2>2, ByteOfReply
  <2>4. buf[i] = Served!ByteAt(r, i)
    BY <2>2, <2>3
  <2>5. Served!ByteAt(r, i) = Served!MemoryByte(DirTable(t), i)
    BY <1>6, <1>8, SameNull DEF Served!ByteAt
  <2> QED BY <2>4, <2>5 DEF Served!MemoryByte, Reader!MemoryByte
<1> QED BY <1>3, <1>4, <1>9 DEF ReplyTo

(* The invariants are enough.                                              *)
LEMMA SeenRight == ImageInv /\ ServeInv => DriverSees
<1> SUFFICES ASSUME ImageInv, ServeInv, Orderly, rpc = "idle", target # NoEntry
             PROVE  /\ ReplyTo(target, walked)
                    /\ fat[cluster] = fat_end <=> walked = ClustersOf(target)
  BY DEF DriverSees
<1>1. pc = "serving" /\ Serving /\ Following
  BY DEF ServeInv, ReaderFresh
<1>2. Walk(target, cluster, walked)
  BY <1>1 DEF Following
<1>3. fat[cluster] = fat_end <=> walked = ClustersOf(target)
  BY <1>1, <1>2, WalkAtEnd
<1>4. ReplyTo(target, walked)
  BY <1>1, FileReply, FolderReply
<1> QED BY <1>3, <1>4

(* In the whole program, as the image and the reader begin and go on. *)
THEOREM ServeCorrect == VSpec => [](ImageInv /\ ServeInv)
<1>1. VInit => ServeInv
  <2> SUFFICES ASSUME VInit PROVE ServeInv
    OBVIOUS
  <2>1. pc # "serving"
    BY DEF VInit, Init
  <2>2. ReaderFresh
    BY SameFiles DEF VInit, Reader!Init, ReaderFresh
  <2> QED BY <2>1, <2>2 DEF ServeInv
<1>2. ImageInv /\ ServeInv /\ [VNext]_all => ServeInv'
  BY ServeStep
<1> QED BY <1>1, <1>2, ImageAsBuilt, ImageCorrect, PTL DEF VSpec

(* A driver that walks along the FAT from an entry it has read gets every   *)
(* byte of the file, and every dirtable of the folder, in its place, and    *)
(* comes to the end mark with the last one: the chains fat_new_file and     *)
(* dir_add_entry wrote, the regions they mapped and the copying of xmp_read *)
(* fit together, in whatever order entries are read and however often.      *)
THEOREM DriverReads == VSpec => []DriverSees
  BY ServeCorrect, SeenRight, PTL

(* How far a walk can be.                                                  *)
LEMMA WalkLength ==
  ASSUME ImageInv, Orderly, pc = "serving", NEW e, NEW c, NEW n, Walk(e, c, n)
  PROVE  n \in 1 .. ClustersOf(e)
<1>1. CASE e.kind = "file"
  <2>1. e \in FileEntries /\ n \in 1 .. FileClusters(e)
    BY <1>1 DEF Walk
  <2>2. ClustersOf(e) = FileClusters(e)
    BY <1>1 DEF ClustersOf, FileClusters
  <2> QED BY <2>1, <2>2
<1>2. CASE e.kind # "file"
  <2>1. PICK t \in TablesOf(e.name) : n = Cardinality(Upto(e.name, t))
    BY <1>2 DEF Walk
  <2>2. ClustersOf(e) = Cardinality(TablesOf(e.name))
    BY <1>2 DEF ClustersOf
  <2>3. TypeInv
    BY DEF ImageInv
  <2>4. /\ n \in Nat /\ n <= ClustersOf(e) /\ ClustersOf(e) \in Nat
        /\ IsFiniteSet(Upto(e.name, t))
    BY <2>1, <2>2, <2>3, TablesFinite
  <2>5. t \in Upto(e.name, t)
    <3>1. t \in Nat
      BY <2>3, TablesFinite
    <3> QED BY <3>1 DEF Upto
  <2>6. n # 0
    BY <2>1, <2>4, <2>5, FS_EmptySet
  <2> QED BY <2>4, <2>6
<1> QED BY <1>1, <1>2

(* A step along the chain is the next cluster of the entry, and there is   *)
(* one: no walk goes in a circle, or on into another file.                 *)
WalkAdvances ==
  Orderly /\ FollowChain => walked' = walked + 1 /\ walked' \in 1 .. ClustersOf(target)

(* So it is for every walk: what is left of an entry gets less with every   *)
(* cluster.  The bound MaxWalk of the model is never met.                  *)
THEOREM WalksAdvance == VSpec => [][WalkAdvances]_all
<1>1. ImageInv /\ ServeInv /\ [VNext]_all => [WalkAdvances]_all
  <2> SUFFICES ASSUME ImageInv, ServeInv, Orderly, FollowChain
               PROVE  walked' = walked + 1 /\ walked' \in 1 .. ClustersOf(target)
    BY DEF WalkAdvances
  <2>1. target # NoEntry /\ IsCluster(fat[cluster])
        /\ ReadCluster(target, fat[cluster], IF walked < MaxWalk THEN walked + 1 ELSE walked)
    BY DEF FollowChain
  <2>2. pc = "serving" /\ Walk(target, cluster, walked)
    BY <2>1 DEF ServeInv, ReaderFresh, Following
  <2>3. walked < MaxWalk /\ Walk(target, fat[cluster], walked + 1)
    BY <2>1, <2>2, WalkGoesOn
  <2>4. walked' = walked + 1
    BY <2>1, <2>3 DEF ReadCluster
  <2> QED BY <2>2, <2>3, <2>4, WalkLength
<1> QED BY <1>1, ServeCorrect, PTL DEF VSpec

(* xmp_read in the whole program: when the scan was in good order, every    *)
(* copy stays within the buffer and the region, no file is missed, and the  *)
(* bytes of every reply are the ones mapped there.                          *)
THEOREM ProgramReads ==
  VSpec => [](pc = "serving" /\ Orderly =>
                Served!CopyFits /\ Served!ReplyRight /\ missing = {})
<1>1. ServeInv /\ pc = "serving" /\ Orderly => Served!TypeOK /\ Served!ReplyRight /\ missing = {}
  BY DEF ServeInv, Serving, Served!LoopInv
<1>2. Served!TypeOK => Served!CopyFits
  <2> SUFFICES ASSUME Served!TypeOK, Served!InLoop, Served!Touched
               PROVE  /\ Served!uselen >= 0
                      /\ Served!usetarget + Served!uselen <= len
                      /\ Served!usepos + Served!uselen <= Served!Region.length
    BY DEF Served!CopyFits
  <2>1. /\ Served!uselen \in Nat
        /\ Served!usetarget + Served!uselen <= len
        /\ Served!usepos + Served!uselen <= Served!Region.length
    BY ServedLayout, ServedRead, Served!CopyBounds
  <2> QED BY <2>1
<1> QED BY <1>1, <1>2, ServeCorrect, PTL

=============================================================================
