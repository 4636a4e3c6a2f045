--------------------------- MODULE FatFilesSafety ---------------------------
(***************************************************************************)
(* Proofs that the clusters of files and directories are disjoint and the  *)
(* regions ascending, while the predictions of add_file come true and the  *)
(* FAT has room.  The inductive invariant says that the FAT is filled from *)
(* its beginning up to a frontier hi, in one block: that is what           *)
(* fat_new_file takes for granted and no variable records.                 *)
(***************************************************************************)
EXTENDS FatFilesProofs

Tableless(d) == dir_stack[d].dirtables = << >>

(* Words below hi are taken and words from hi on are free, all regions end *)
(* where hi begins.                                                        *)
Filled(hi) ==
  /\ \A b \in FatWords : b < hi <=> fat[b] # 0
  /\ current_fat_position <= hi
  /\ \A i \in DataRegions : RegionEnd(i) <= address_from_fatclus(hi)

(* An open directory has its last cluster below hi, with the end mark; a   *)
(* new one is about to take hi.                                            *)
DirsBelow(hi) ==
  /\ \A d \in DOMAIN dir_stack :
       IF Tableless(d)
       THEN /\ d = Len(dir_stack)
            /\ dir_stack[d].dir_location = hi
            /\ dir_stack[d].current_dir_position = 0
            /\ hi < fat_entries
       ELSE /\ dir_stack[d].dir_location < hi
            /\ fat[dir_stack[d].dir_location] = fat_end
  /\ \A c, d \in DOMAIN dir_stack :
       c < d => dir_stack[c].dir_location # dir_stack[d].dir_location

(* Where the file or directory at hand will be put. *)
JobAt(hi) ==
  /\ pc = "short" => /\ current_fat_position = hi
                     /\ job.filePosition = hi + job.clusters_needed
  /\ pc \in {"data", "enter"} => /\ job.filePosition = hi
                                 /\ ~Tableless(Len(dir_stack))

RegionsSorted ==
  \A i, j \in DataRegions : i < j => RegionEnd(i) <= address_regions[j].base

FrontierInv ==
  Orderly => RegionsSorted /\ \E hi \in 2 .. fat_entries :
                                Filled(hi) /\ DirsBelow(hi) /\ JobAt(hi)

(* A remainder by a larger number. *)
LEMMA SmallRemainder ==
  ASSUME NEW x \in Nat, NEW y \in Nat \ {0}, x < y
  PROVE  x % y = x
<1>1. x \in 0 .. y - 1 /\ 0 \in Nat
  OBVIOUS
<1>2. (y * 0 + x) % y = x
  BY <1>1, Remainder
<1>3. y * 0 + x = x
  OBVIOUS
<1> QED
  BY <1>2, <1>3

(* What is left of a cluster in a . or .. entry is a cluster number. *)
LEMMA DotRemainder == \A x \in Nat : x % DotWord \in Nat
  BY FatFilesAssumption, Division

(* Events are never taken back. *)
LEMMA EventsGrow == TypeInv /\ [Next]_vars => events \subseteq events'
<1> SUFFICES ASSUME TypeInv, [Next]_vars PROVE events \subseteq events'
  OBVIOUS
<1> USE DEF vars, Next
<1>1. CASE AddFile \/ AddFolder
  BY <1>1 DEF AddFile, AddFolder, add_file
<1>2. CASE AddLfnEntry
  BY <1>2 DEF AddLfnEntry
<1>3. CASE PickFilePosition
  BY <1>3 DEF PickFilePosition
<1>4. CASE AddShortEntry
  BY <1>4 DEF AddShortEntry
<1>5. CASE fat_new_file
  BY <1>5 DEF fat_new_file
<1>6. CASE EnterFolder
  BY <1>6 DEF EnterFolder
<1>7. CASE AddDot \/ AddDotDot
  BY <1>7 DEF AddDot, AddDotDot
<1>8. CASE up_dir \/ Launch \/ Serve
  BY <1>8 DEF up_dir, Launch, Serve
<1> QED
  BY <1>1, <1>2, <1>3, <1>4, <1>5, <1>6, <1>7, <1>8

(* The search for a free word stops at the frontier. *)
LEMMA FreeIsFrontier ==
  ASSUME TypeInv, NEW hi \in 2 .. fat_entries, Filled(hi),
         NEW c \in current_fat_position .. fat_entries + FatSlack,
         fat_find_free(c), c < fat_entries
  PROVE  c = hi
<1>1. /\ current_fat_position \in Nat /\ FatSlack \in Nat /\ fat_entries \in Nat
      /\ c \in Nat /\ hi \in Nat
  BY Sizes, FatFilesAssumption DEF TypeInv, TypeOK
<1>2. \A b \in 0 .. c : b \in FatWords
  BY <1>1 DEF FatWords
<1>3. current_fat_position <= c /\ current_fat_position <= hi
  BY <1>1 DEF Filled
<1>4. \A b \in 0 .. c : fat[b] # 0 <=> b < hi
  BY <1>2 DEF Filled
<1>5. CASE fat[current_fat_position] = 0 /\ c = current_fat_position
  BY <1>1, <1>3, <1>4, <1>5
<1>6. CASE /\ fat[current_fat_position] # 0
           /\ c > current_fat_position
           /\ \A b \in current_fat_position + 1 .. c - 1 : fat[b] # 0
           /\ fat[c] = 0
  <2>1. c >= hi
    BY <1>1, <1>4, <1>6
  <2>2. current_fat_position < hi
    BY <1>1, <1>3, <1>4, <1>6
  <2>3. hi < c => fat[hi] # 0
    BY <1>1, <1>6, <2>2
  <2>4. hi < c => fat[hi] = 0
    BY <1>1, <1>4
  <2> QED
    BY <1>1, <2>1, <2>3, <2>4
<1> QED
  BY <1>1, <1>5, <1>6 DEF fat_find_free

(* A region added at the frontier comes after all others. *)
LEMMA RegionAtFrontier ==
  ASSUME address_regions \in Seq(AddressRegions), RegionsSorted,
         NEW hi \in Nat, hi >= 2, NEW n \in Nat,
         \A i \in DataRegions : RegionEnd(i) <= address_from_fatclus(hi),
         NEW length \in Nat, length <= cluster_size * n,
         NEW m \in Pointers, NEW f \in Nat,
         address_regions' = Append(address_regions,
           AddressRegion(address_from_fatclus(hi), length, m, f))
  PROVE  /\ RegionsSorted'
         /\ \A i \in DataRegions' : RegionEnd(i)' <= address_from_fatclus(hi + n)
<1> DEFINE r == AddressRegion(address_from_fatclus(hi), length, m, f)
<1>0. PICK last \in Nat : last = Len(address_regions) + 1
  BY LenProperties
<1>1. /\ address_from_fatclus(hi) \in Nat
      /\ address_from_fatclus(hi + n) \in Nat
      /\ address_from_fatclus(hi + n) = address_from_fatclus(hi) + cluster_size * n
  <2>1. hi + n \in Nat /\ hi + n >= 2
    OBVIOUS
  <2> QED
    BY <2>1, ClusterAddress
<1>2. /\ r.base = address_from_fatclus(hi)
      /\ r.base + r.length <= address_from_fatclus(hi + n)
      /\ r \in AddressRegions
  <2>1. cluster_size * n \in Nat
    BY Sizes
  <2>2. r.base = address_from_fatclus(hi) /\ r.length = length
    BY DEF AddressRegion
  <2>3. r \in AddressRegions
    BY RegionType
  <2> QED
    BY <1>1, <2>1, <2>2, <2>3
<1> HIDE DEF r
<1>3. /\ Len(address_regions) \in Nat
      /\ Len(address_regions') = last
      /\ address_regions'[last] = r
      /\ \A i \in 1 .. Len(address_regions) : address_regions'[i] = address_regions[i]
  BY <1>0, <1>2, AppendProperties, LenProperties DEF r
<1>4. Len(SetupRegions) \in Nat
  BY DEF SetupRegions
<1>5. DataRegions' \subseteq DataRegions \cup {last} /\ DataRegions \subseteq 1 .. Len(address_regions)
  BY <1>0, <1>3, <1>4 DEF DataRegions
<1>6. \A i \in DataRegions :
        /\ address_regions'[i] = address_regions[i]
        /\ RegionEnd(i)' = RegionEnd(i)
        /\ address_regions[i] \in AddressRegions
        /\ RegionEnd(i) \in Nat
  <2> SUFFICES ASSUME NEW i \in DataRegions
               PROVE  /\ address_regions'[i] = address_regions[i]
                      /\ RegionEnd(i)' = RegionEnd(i)
                      /\ address_regions[i] \in AddressRegions
                      /\ RegionEnd(i) \in Nat
    OBVIOUS
  <2>1. address_regions'[i] = address_regions[i]
    BY <1>3, <1>5
  <2>2. address_regions[i] \in AddressRegions
    BY <1>5, ElementOfSeq
  <2>3. address_regions[i].base \in Nat /\ address_regions[i].length \in Nat
    BY <2>2 DEF AddressRegions
  <2>4. RegionEnd(i) \in Nat
    <3>1. \A x, y \in Nat : x + y \in Nat
      OBVIOUS
    <3> QED
      BY <2>3, <3>1, Zenon DEF RegionEnd
  <2>5. RegionEnd(i)' = RegionEnd(i)
    BY <2>1 DEF RegionEnd
  <2> QED
    BY <2>1, <2>2, <2>4, <2>5
<1>7. RegionEnd(last)' = r.base + r.length
  BY <1>3 DEF RegionEnd
<1>8. \A i \in DataRegions : RegionEnd(i) <= r.base
  BY <1>2
<1>9. r.base \in Nat /\ r.length \in Nat
  BY <1>2 DEF AddressRegions
<1>10. \A i \in DataRegions' : RegionEnd(i)' <= address_from_fatclus(hi + n)
  BY <1>1, <1>2, <1>5, <1>6, <1>7, <1>8, <1>9
<1>11. RegionsSorted'
  <2> SUFFICES ASSUME NEW i \in DataRegions', NEW j \in DataRegions', i < j
               PROVE  RegionEnd(i)' <= address_regions'[j].base
    BY DEF RegionsSorted
  <2>1. i \in DataRegions
    BY <1>0, <1>3, <1>5 DEF DataRegions
  <2>2. CASE j = last
    BY <1>3, <1>6, <1>8, <2>1, <2>2
  <2>3. CASE j \in DataRegions
    BY <1>6, <2>1, <2>3 DEF RegionsSorted
  <2> QED
    BY <1>5, <2>2, <2>3
<1> QED
  BY <1>10, <1>11

(* The stack of open directories, spelled out. *)
LEMMA StackShape ==
  ASSUME TypeInv
  PROVE  /\ Len(dir_stack) \in Nat \ {0}
         /\ DOMAIN dir_stack = 1 .. Len(dir_stack)
         /\ \A d \in 1 .. Len(dir_stack) :
              /\ dir_stack[d] \in Fat_Directories
              /\ dir_stack[d].dir_location \in Nat
<1>1. dir_stack \in Seq(Fat_Directories) /\ dir_stack # << >>
  BY DEF TypeInv, TypeOK
<1>2. Len(dir_stack) \in Nat \ {0} /\ DOMAIN dir_stack = 1 .. Len(dir_stack)
  BY <1>1, LenProperties, EmptySeq
<1>3. \A d \in 1 .. Len(dir_stack) : dir_stack[d] \in Fat_Directories
  BY <1>1, ElementOfSeq
<1>4. \A d \in Fat_Directories : d.dir_location \in Nat
  BY DEF Fat_Directories
<1> QED
  BY <1>2, <1>3, <1>4

(* The stack after an entry: the current directory's last cluster is loc.  *)
LEMMA StackAfterEntry ==
  ASSUME TypeInv, NEW hi \in Nat, DirsBelow(hi),
         NEW h \in {hi, hi + 1}, NEW ts \in Seq(Nat \ {0}), ts # << >>,
         NEW loc \in Nat, loc < h,
         loc \in {hi, current_dir.dir_location},
         DirWithEntry(ts, loc), fat'[loc] = fat_end,
         \A d \in DOMAIN dir_stack :
           d # Len(dir_stack) => fat'[dir_stack[d].dir_location] = fat_end
  PROVE  /\ DirsBelow(h)'
         /\ dir_stack'[Len(dir_stack')].dirtables # << >>
         /\ Len(dir_stack') = Len(dir_stack)
<1>1. PICK top \in Nat \ {0} : top = Len(dir_stack)
  BY StackShape
<1>2. /\ DOMAIN dir_stack = 1 .. top
      /\ top \in 1 .. top
      /\ \A d \in 1 .. top : dir_stack[d].dir_location \in Nat
      /\ current_dir = dir_stack[top] /\ current_dir \in Fat_Directories
  BY <1>1, StackShape DEF current_dir
<1>3. /\ DOMAIN dir_stack' = 1 .. top
      /\ Len(dir_stack') = top
      /\ dir_stack'[top].dirtables = ts
      /\ dir_stack'[top].dir_location = loc
      /\ \A d \in 1 .. top : d # top => dir_stack'[d] = dir_stack[d]
  <2> DEFINE e == Fat_Directory(current_dir.path, ts,
                                current_dir.current_dir_position + 1, loc)
  <2>1. e \in Fat_Directories /\ e.dirtables = ts /\ e.dir_location = loc
    BY <1>2 DEF Fat_Directory, Fat_Directories
  <2>2. dir_stack' = [dir_stack EXCEPT ![top] = e]
    BY <1>1 DEF DirWithEntry
  <2>3. dir_stack \in Seq(Fat_Directories)
    BY DEF TypeInv, TypeOK
  <2> HIDE DEF e
  <2>4. /\ dir_stack' \in Seq(Fat_Directories)
        /\ Len(dir_stack') = top
        /\ \A d \in 1 .. top : dir_stack'[d] = IF d = top THEN e ELSE dir_stack[d]
    BY <1>1, <1>2, <2>1, <2>2, <2>3, ExceptSeq
  <2>5. DOMAIN dir_stack' = 1 .. top
    BY <2>4, LenProperties
  <2> QED
    BY <1>2, <2>1, <2>4, <2>5
<1>4. \A d \in 1 .. top : d # top => /\ dir_stack[d].dirtables # << >>
                                     /\ dir_stack[d].dir_location < hi
                                     /\ dir_stack[d].dir_location \in Nat
                                     /\ fat'[dir_stack[d].dir_location] = fat_end
                                     /\ dir_stack[d].dir_location # loc
  <2> SUFFICES ASSUME NEW d \in 1 .. top, d # top
               PROVE  /\ dir_stack[d].dirtables # << >>
                      /\ dir_stack[d].dir_location < hi
                      /\ dir_stack[d].dir_location \in Nat
                      /\ fat'[dir_stack[d].dir_location] = fat_end
                      /\ dir_stack[d].dir_location # loc
    OBVIOUS
  <2>1. d \in DOMAIN dir_stack /\ top \in DOMAIN dir_stack /\ d < top
    BY <1>2
  <2>2. dir_stack[d].dirtables # << >> /\ dir_stack[d].dir_location < hi
    BY <1>1, <2>1 DEF DirsBelow, Tableless
  <2>3. dir_stack[d].dir_location # dir_stack[top].dir_location
    BY <2>1 DEF DirsBelow
  <2>4. fat'[dir_stack[d].dir_location] = fat_end
    BY <1>1, <2>1
  <2> QED
    BY <1>2, <2>2, <2>3, <2>4
<1>5. \A d \in 1 .. top :
        /\ dir_stack'[d].dirtables # << >>
        /\ dir_stack'[d].dir_location < h
        /\ fat'[dir_stack'[d].dir_location] = fat_end
  BY <1>3, <1>4
<1>6. \A c, d \in 1 .. top :
        c < d => dir_stack'[c].dir_location # dir_stack'[d].dir_location
  <2> SUFFICES ASSUME NEW c \in 1 .. top, NEW d \in 1 .. top, c < d
               PROVE  dir_stack'[c].dir_location # dir_stack'[d].dir_location
    OBVIOUS
  <2>1. CASE d = top
    BY <1>3, <1>4, <2>1
  <2>2. CASE d # top
    <3>1. c # top /\ c \in DOMAIN dir_stack /\ d \in DOMAIN dir_stack
      BY <1>2
    <3>2. dir_stack[c].dir_location # dir_stack[d].dir_location
      BY <3>1 DEF DirsBelow
    <3> QED
      BY <1>3, <2>2, <3>1, <3>2
  <2> QED
    BY <2>1, <2>2
<1> QED
  BY <1>1, <1>3, <1>5, <1>6 DEF DirsBelow, Tableless

(* A round of dir_add_entry takes the cluster at the frontier if it takes  *)
(* one, as ClustersTaken tells, and makes no change to an older link.      *)
LEMMA EntryAtFrontier ==
  ASSUME TypeInv, RegionsSorted, NEW hi \in 2 .. fat_entries, Filled(hi), DirsBelow(hi),
         NEW entry \in Entries, dir_add_entry(entry),
         current_fat_position' < fat_entries
  PROVE  /\ \E h \in 2 .. fat_entries :
              h = hi + ClustersTaken /\ RegionsSorted' /\ Filled(h)' /\ DirsBelow(h)'
         /\ dir_stack'[Len(dir_stack')].dirtables # << >>
         /\ Len(dir_stack') = Len(dir_stack)
         /\ \A b \in FatWords : fat[b] \notin {0, fat_end} => fat'[b] = fat[b]
<1> DEFINE Goal(h) ==
      /\ h \in 2 .. fat_entries
      /\ h = hi + ClustersTaken /\ RegionsSorted' /\ Filled(h)' /\ DirsBelow(h)'
      /\ dir_stack'[Len(dir_stack')].dirtables # << >>
      /\ Len(dir_stack') = Len(dir_stack)
      /\ \A b \in FatWords : fat[b] \notin {0, fat_end} => fat'[b] = fat[b]
<1>1. /\ fat_entries \in Nat /\ fat_end \in Nat /\ fat_end # 0 /\ hi \in Nat /\ hi + 1 \in Nat
      /\ cluster_size \in Nat /\ FatSlack \in Nat
      /\ entrys_per_cluster \in Nat \ {0}
  BY Sizes, FatFilesAssumption
<1>2. /\ dir_stack \in Seq(Fat_Directories) \ {<< >>}
      /\ Len(dir_stack) \in Nat \ {0}
      /\ Len(dir_stack) \in DOMAIN dir_stack
      /\ current_dir \in Fat_Directories
      /\ fat \in [FatWords -> Nat]
      /\ address_regions \in Seq(AddressRegions)
      /\ Len(dirtables) \in Nat
      /\ current_fat_position \in Nat
  BY CurrentDirType, TypeParts, LenProperties DEF TypeInv, ImageOK
<1>a. /\ \A ts \in Seq(Nat \ {0}) : /\ Append(ts, Len(dirtables) + 1) \in Seq(Nat \ {0})
                                    /\ Append(ts, Len(dirtables) + 1) # << >>
      /\ << Len(dirtables) + 1 >> \in Seq(Nat \ {0})
  <2>1. Len(dirtables) + 1 \in Nat \ {0}
    BY <1>2
  <2> QED
    BY <2>1
<1>3. current_dir.dir_location \in Nat /\ current_dir.current_dir_position \in Nat
  BY <1>2 DEF Fat_Directories
<1>4. ASSUME hi < fat_entries, NEW ts,
             NewDirTable(hi, ts, entry)
      PROVE  /\ RegionsSorted'
             /\ \A i \in DataRegions' : RegionEnd(i)' <= address_from_fatclus(hi + 1)
  <2>1. DirTable(Len(dirtables) + 1) \in Pointers
    BY <1>2 DEF DirTable, Pointers
  <2>2. cluster_size <= cluster_size * 1
    BY <1>1
  <2>3. \A i \in DataRegions : RegionEnd(i) <= address_from_fatclus(hi)
    BY DEF Filled
  <2>4. hi >= 2
    OBVIOUS
  <2> QED
    BY <1>1, <1>2, <1>4, <2>1, <2>2, <2>3, <2>4, RegionAtFrontier DEF NewDirTable
<1>5. CASE FirstCluster(entry)
  <2>1. /\ Tableless(Len(dir_stack)) /\ current_dir.dir_location = hi
        /\ hi < fat_entries /\ current_dir.current_dir_position = 0
    BY <1>2, <1>5 DEF DirsBelow, Tableless, FirstCluster, current_dir
  <2> DEFINE ts == << Len(dirtables) + 1 >>
  <2>2. /\ NewDirTable(hi, ts, entry)
        /\ fat' = [fat EXCEPT ![hi] = fat_end]
        /\ DirWithEntry(ts, hi)
        /\ current_fat_position' = current_fat_position
        /\ ts \in Seq(Nat \ {0}) /\ ts # << >>
    BY <1>a, <1>5, <2>1 DEF FirstCluster
  <2> HIDE DEF ts
  <2>3. hi \in FatWords
    BY <1>1, <2>1 DEF FatWords
  <2>4. RegionsSorted' /\ \A i \in DataRegions' : RegionEnd(i)' <= address_from_fatclus(hi + 1)
    BY <1>4, <2>1, <2>2
  <2>5. Filled(hi + 1)'
    <3>1. \A b \in FatWords : b < hi + 1 <=> fat'[b] # 0
      <4> SUFFICES ASSUME NEW b \in FatWords PROVE b < hi + 1 <=> fat'[b] # 0
        OBVIOUS
      <4>1. b \in Nat
        BY Sizes
      <4>2. b < hi <=> fat[b] # 0
        BY DEF Filled
      <4> QED
        BY <1>1, <1>2, <2>2, <2>3, <4>1, <4>2
    <3>2. current_fat_position' <= hi + 1
      BY <1>1, <1>2, <2>2 DEF Filled
    <3> QED
      BY <2>4, <3>1, <3>2 DEF Filled
  <2>6. \A d \in DOMAIN dir_stack :
          d # Len(dir_stack) => fat'[dir_stack[d].dir_location] = fat_end
    <3> SUFFICES ASSUME NEW d \in DOMAIN dir_stack, d # Len(dir_stack)
                 PROVE  fat'[dir_stack[d].dir_location] = fat_end
      OBVIOUS
    <3>1. dir_stack[d].dir_location < hi /\ fat[dir_stack[d].dir_location] = fat_end
      BY DEF DirsBelow, Tableless
    <3>2. dir_stack[d].dir_location \in Nat
      BY StackShape
    <3>3. dir_stack[d].dir_location \in FatWords
      BY <1>1, <3>1, <3>2 DEF FatWords
    <3> QED
      BY <1>1, <1>2, <2>2, <3>1, <3>2, <3>3
  <2>7. fat'[hi] = fat_end
    BY <1>2, <2>2, <2>3
  <2>8. /\ DirsBelow(hi + 1)'
        /\ dir_stack'[Len(dir_stack')].dirtables # << >>
        /\ Len(dir_stack') = Len(dir_stack)
    BY <1>1, <2>2, <2>6, <2>7, StackAfterEntry
  <2>9. ClustersTaken = 1
    <3>1. 0 % entrys_per_cluster = 0
      BY <1>1, Division
    <3> QED
      BY <2>1, <3>1 DEF ClustersTaken
  <2>10. fat[hi] = 0
    BY <2>3 DEF Filled
  <2>11. \A b \in FatWords : fat[b] \notin {0, fat_end} => fat'[b] = fat[b]
    BY <1>2, <2>2, <2>10
  <2> QED
    BY <1>1, <2>1, <2>4, <2>5, <2>8, <2>9, <2>11
<1>6. CASE NextCluster(entry)
  <2> DEFINE ts == Append(current_dir.dirtables, Len(dirtables) + 1)
             last == current_dir.dir_location
  <2>1. PICK c \in current_fat_position .. fat_entries + FatSlack :
          /\ fat_find_free(c)
          /\ current_fat_position' = c
          /\ NewDirTable(c, ts, entry)
          /\ fat' = [fat EXCEPT ![last] = c, ![c] = fat_end]
          /\ DirWithEntry(ts, c)
    BY <1>6 DEF NextCluster, FatWithLink
  <2>2. c = hi
    BY <2>1, FreeIsFrontier
  <2>3. hi < fat_entries /\ hi \in FatWords
    BY <1>1, <2>1, <2>2 DEF FatWords
  <2>4. ts \in Seq(Nat \ {0}) /\ ts # << >>
    BY <1>a, <1>2 DEF Fat_Directories
  <2> HIDE DEF ts
  <2>5. RegionsSorted' /\ \A i \in DataRegions' : RegionEnd(i)' <= address_from_fatclus(hi + 1)
    BY <1>4, <2>1, <2>2, <2>3
  <2>6. /\ ~Tableless(Len(dir_stack))
        /\ last < hi /\ fat[last] = fat_end /\ last \in FatWords
    <3>1. ~Tableless(Len(dir_stack))
      BY <1>6 DEF NextCluster, Tableless, current_dir
    <3>2. last < hi /\ fat[last] = fat_end
      BY <1>2, <3>1 DEF DirsBelow, current_dir
    <3> QED
      BY <1>1, <1>3, <3>1, <3>2 DEF FatWords
  <2>7. fat[hi] = 0
    BY <2>3 DEF Filled
  <2>8. fat' = [fat EXCEPT ![last] = hi, ![hi] = fat_end]
    BY <2>1, <2>2
  <2> HIDE DEF last
  <2>9. /\ fat'[hi] = fat_end
        /\ fat'[last] = hi
        /\ \A b \in FatWords : b \notin {hi, last} => fat'[b] = fat[b]
    BY <1>1, <1>2, <2>3, <2>6, <2>8
  <2>10. Filled(hi + 1)'
    <3>1. \A b \in FatWords : b < hi + 1 <=> fat'[b] # 0
      <4> SUFFICES ASSUME NEW b \in FatWords PROVE b < hi + 1 <=> fat'[b] # 0
        OBVIOUS
      <4>1. b \in Nat
        BY Sizes
      <4>2. b < hi <=> fat[b] # 0
        BY DEF Filled
      <4> QED
        BY <1>1, <2>6, <2>9, <4>1, <4>2
    <3>2. current_fat_position' <= hi + 1
      BY <1>1, <2>1, <2>2
    <3> QED
      BY <2>5, <3>1, <3>2 DEF Filled
  <2>11. \A d \in DOMAIN dir_stack :
          d # Len(dir_stack) => fat'[dir_stack[d].dir_location] = fat_end
    <3> SUFFICES ASSUME NEW d \in DOMAIN dir_stack, d # Len(dir_stack)
                 PROVE  fat'[dir_stack[d].dir_location] = fat_end
      OBVIOUS
    <3>1. dir_stack[d].dir_location < hi /\ fat[dir_stack[d].dir_location] = fat_end
      BY DEF DirsBelow, Tableless
    <3>2. dir_stack[d].dir_location \in Nat
      BY StackShape
    <3>3. dir_stack[d].dir_location \in FatWords
      BY <1>1, <3>1, <3>2 DEF FatWords
    <3>4. d < Len(dir_stack)
      BY <1>2, LenProperties
    <3>5. dir_stack[d].dir_location # last
      BY <1>2, <3>4 DEF DirsBelow, last, current_dir
    <3> QED
      BY <2>9, <3>1, <3>2, <3>3, <3>5
  <2>12. /\ DirsBelow(hi + 1)'
         /\ dir_stack'[Len(dir_stack')].dirtables # << >>
         /\ Len(dir_stack') = Len(dir_stack)
    <3>1. DirWithEntry(ts, hi) /\ hi < hi + 1
      BY <1>1, <2>1, <2>2
    <3> QED
      BY <1>1, <2>4, <2>9, <2>11, <3>1, StackAfterEntry
  <2>13. ClustersTaken = 1
    <3>1. current_dir.current_dir_position % entrys_per_cluster \in Nat
      BY <1>1, <1>3, Division
    <3> QED
      BY <1>6, <3>1 DEF ClustersTaken, NextCluster
  <2>14. \A b \in FatWords : fat[b] \notin {0, fat_end} => fat'[b] = fat[b]
    BY <2>6, <2>7, <2>9
  <2> QED
    BY <1>1, <2>3, <2>5, <2>10, <2>12, <2>13, <2>14
<1>7. CASE SameCluster(entry)
  <2>1. /\ DirWithEntry(current_dir.dirtables, current_dir.dir_location)
        /\ current_dir.dirtables # << >>
        /\ current_dir.dirtables \in Seq(Nat \ {0})
        /\ ~Tableless(Len(dir_stack))
        /\ UNCHANGED << fat, current_fat_position, address_regions >>
    BY <1>2, <1>7 DEF SameCluster, Tableless, current_dir, Fat_Directories
  <2>2. current_dir.dir_location < hi /\ fat[current_dir.dir_location] = fat_end
    BY <1>2, <2>1 DEF DirsBelow, current_dir
  <2>3. \A d \in DOMAIN dir_stack :
          d # Len(dir_stack) => fat'[dir_stack[d].dir_location] = fat_end
    BY <2>1 DEF DirsBelow, Tableless
  <2>4. /\ DirsBelow(hi)'
        /\ dir_stack'[Len(dir_stack')].dirtables # << >>
        /\ Len(dir_stack') = Len(dir_stack)
    BY <1>1, <1>3, <2>1, <2>2, <2>3, StackAfterEntry
  <2>5. RegionsSorted' /\ Filled(hi)'
    BY <2>1 DEF RegionsSorted, Filled, DataRegions, RegionEnd
  <2>6. ClustersTaken = 0
    <3>1. current_dir.current_dir_position % entrys_per_cluster \in Nat
      BY <1>1, <1>3, Division
    <3> QED
      BY <1>7, <3>1 DEF ClustersTaken, SameCluster
  <2> QED
    BY <1>1, <2>1, <2>4, <2>5, <2>6
<1> QED
  BY <1>5, <1>6, <1>7 DEF dir_add_entry

(* What a step keeps of the links. *)
LinksKept == \A b \in FatWords : fat[b] \notin {0, fat_end} => fat'[b] = fat[b]

(* At first the frontier is the root directory's cluster. *)
LEMMA FrontierInit == Init => FrontierInv
<1> SUFFICES ASSUME Init PROVE FrontierInv
  OBVIOUS
<1>1. fat_entries \in Nat /\ fat_entries > 2 /\ FatWords \subseteq Nat
  BY Sizes
<1>2. DataRegions = {}
  BY DEF Init, DataRegions, SetupRegions
<1>3. \A b \in {0, 1} : fat_special(b) # 0
  <2>1. Word \div 16 \in Nat
    BY LayoutAssumption, Division
  <2> QED
    BY <2>1, FatFilesAssumption DEF fat_special
<1>4. Filled(2)
  <2>1. \A b \in FatWords : b < 2 => fat[b] # 0
    BY <1>1, <1>3 DEF Init
  <2> QED
    BY <1>1, <1>2, <2>1 DEF Init, Filled, root_dir_loc
<1>5. DirsBelow(2)
  BY <1>1 DEF Init, DirsBelow, Tableless, Fat_Directory, root_dir_loc
<1>6. JobAt(2)
  BY DEF Init, JobAt
<1>7. RegionsSorted
  BY <1>2 DEF RegionsSorted
<1> QED
  BY <1>1, <1>4, <1>5, <1>6, <1>7 DEF FrontierInv

(* The FAT after a chain of n words from the frontier on. *)
LEMMA ChainAtFrontier ==
  ASSUME TypeInv, NEW hi \in 2 .. fat_entries, NEW n \in Nat \ {0},
         hi + n <= fat_entries,
         \A b \in FatWords : b < hi <=> fat[b] # 0,
         fat' = FatWithChain(hi, n)
  PROVE  /\ \A b \in FatWords : b < hi + n <=> fat'[b] # 0
         /\ \A b \in FatWords : b < hi => fat'[b] = fat[b]
<1>1. hi \in Nat /\ n \in Nat /\ n > 0 /\ fat_end \in Nat /\ fat_end > 2
  BY Sizes
<1> SUFFICES ASSUME NEW b \in FatWords
             PROVE  /\ b < hi + n <=> fat'[b] # 0
                    /\ b < hi => fat'[b] = fat[b]
  OBVIOUS
<1>2. b \in Nat
  BY Sizes
<1>3. fat'[b] = IF b = hi + n - 1 THEN fat_end
                ELSE IF b \in hi .. hi + n - 2 THEN b + 1
                ELSE fat[b]
  BY DEF FatWithChain
<1>4. CASE b = hi + n - 1
  BY <1>1, <1>2, <1>3, <1>4
<1>5. CASE b # hi + n - 1 /\ b \in hi .. hi + n - 2
  BY <1>1, <1>2, <1>3, <1>5
<1>6. CASE b # hi + n - 1 /\ b \notin hi .. hi + n - 2
  <2>1. fat'[b] = fat[b]
    BY <1>3, <1>6
  <2>2. b < hi \/ b >= hi + n
    BY <1>1, <1>2, <1>6
  <2> QED
    BY <1>1, <1>2, <2>1, <2>2
<1> QED
  BY <1>4, <1>5, <1>6

(* Every step keeps the invariant, and every older link.  Under each        *)
(* action the new frontier is named; only dir_add_entry and fat_new_file    *)
(* move it.                                                                 *)
LEMMA FrontierStep ==
  ASSUME TypeInv, TypeInv', FrontierInv, [Next]_vars
  PROVE  FrontierInv' /\ (Orderly' => LinksKept)
<1> DEFINE Inv(h) == Filled(h)' /\ DirsBelow(h)' /\ JobAt(h)'
<1> SUFFICES ASSUME Orderly'
             PROVE  RegionsSorted' /\ (\E h \in 2 .. fat_entries : Inv(h)) /\ LinksKept
  BY DEF FrontierInv
<1>1. Orderly
  BY EventsGrow DEF Orderly
<1>2. PICK hi \in 2 .. fat_entries : Filled(hi) /\ DirsBelow(hi) /\ JobAt(hi)
  BY <1>1 DEF FrontierInv
<1>3. RegionsSorted
  BY <1>1 DEF FrontierInv
<1>4. hi \in Nat /\ hi >= 2 /\ fat_entries \in Nat
  BY Sizes
<1>5. ASSUME image' = image
      PROVE  RegionsSorted' /\ Filled(hi)' /\ DirsBelow(hi)' /\ LinksKept
  <2>1. UNCHANGED << fat, current_fat_position, address_regions, dirtables, dir_stack >>
    BY <1>5 DEF image
  <2> QED
    BY <1>2, <1>3, <2>1 DEF RegionsSorted, Filled, DirsBelow, LinksKept, DataRegions,
       RegionEnd, Tableless
<1>6. Overrun \subseteq events' => current_fat_position' < fat_entries
  <2>1. current_fat_position' \in Nat
    BY DEF TypeInv, TypeOK
  <2>2. "fat_full" \notin events'
    BY DEF Orderly
  <2> QED
    BY <1>4, <2>1, <2>2 DEF Overrun
<1>7. ASSUME NEW e \in Entries, dir_add_entry(e), Overrun \subseteq events'
      PROVE  /\ RegionsSorted' /\ LinksKept
             /\ \E h \in 2 .. fat_entries :
                  h = hi + ClustersTaken /\ Filled(h)' /\ DirsBelow(h)'
             /\ dir_stack'[Len(dir_stack')].dirtables # << >>
  BY <1>2, <1>3, <1>6, <1>7, EntryAtFrontier DEF LinksKept
<1>8. /\ job.name \in Nat /\ job.size \in Nat /\ job.clusters_needed \in Nat
      /\ job.filePosition \in Nat /\ job.left \in Nat
  BY DEF TypeInv, TypeOK
<1>9. CASE AddFile \/ AddFolder
  <2>1. image' = image /\ pc' \in {"lfn", "position"}
    BY <1>9 DEF AddFile, AddFolder, add_file
  <2>2. JobAt(hi)'
    BY <2>1 DEF JobAt
  <2> QED
    BY <1>5, <2>1, <2>2
<1>10. CASE AddLfnEntry
  <2>1. pc' \in {"lfn", "position"}
    BY <1>10 DEF AddLfnEntry
  <2>2. \A h \in 2 .. fat_entries : JobAt(h)'
    BY <2>1 DEF JobAt
  <2>3. CASE dir_add_entry(LfnEntry)
             /\ events' = events \cup Overrun
    <3>1. LfnEntry \in Entries
      BY <1>8, ScannedFolderType DEF LfnEntry, Entry, Entries
    <3> QED
      BY <1>7, <2>2, <2>3, <3>1
  <2>4. CASE UNCHANGED << image, job >>
    BY <1>2, <1>5, <2>2, <2>4
  <2> QED
    BY <1>10, <2>3, <2>4 DEF AddLfnEntry
<1>11. CASE PickFilePosition
  <2> DEFINE n == dir_entry_sectors_needed(job.lfn)
  <2>1. PICK c \in current_fat_position .. fat_entries + FatSlack :
          /\ fat_find_free(c)
          /\ current_fat_position' = c
          /\ job' = [job EXCEPT !.clusters_needed = n, !.filePosition = c + n]
    BY <1>11 DEF PickFilePosition
  <2>2. /\ pc' = "short" /\ Overrun \subseteq events'
        /\ UNCHANGED << fat, address_regions, dirtables, dir_stack, scan_stack, scanned >>
    BY <1>11 DEF PickFilePosition
  <2>3. c = hi
    BY <1>2, <1>6, <2>1, <2>2, FreeIsFrontier
  <2> HIDE DEF n
  <2>4. job'.clusters_needed = n /\ job'.filePosition = hi + n
    BY <2>1, <2>3 DEF TypeInv, TypeOK
  <2>5. JobAt(hi)'
    BY <2>1, <2>2, <2>3, <2>4 DEF JobAt
  <2>6. Filled(hi)' /\ DirsBelow(hi)' /\ RegionsSorted' /\ LinksKept
    BY <1>2, <1>3, <1>4, <2>1, <2>2, <2>3 DEF RegionsSorted, Filled, DirsBelow, LinksKept,
       DataRegions, RegionEnd, Tableless
  <2> QED
    BY <1>2, <2>5, <2>6
<1>12. CASE AddShortEntry
  <2>1. CASE /\ dir_add_entry(ShortEntry) /\ job' = job
             /\ pc' = (IF job.isDirectory # 0 THEN "enter" ELSE "data")
             /\ events' = events \cup Overrun
                  \cup (IF job.clusters_needed # ClustersTaken THEN {"drift"} ELSE {})
    <3>1. ShortEntry \in Entries
      BY <1>8, ScannedFolderType DEF ShortEntry, Entry, Entries
    <3>2. PICK h \in 2 .. fat_entries : h = hi + ClustersTaken /\ Filled(h)' /\ DirsBelow(h)'
      BY <1>7, <2>1, <3>1
    <3>3. job.clusters_needed = ClustersTaken
      BY <2>1 DEF Orderly
    <3>4. job.filePosition = hi + job.clusters_needed
      BY <1>2, <1>12 DEF JobAt, AddShortEntry
    <3>5. dir_stack'[Len(dir_stack')].dirtables # << >> /\ RegionsSorted' /\ LinksKept
      BY <1>7, <2>1, <3>1
    <3>6. JobAt(h)'
      BY <2>1, <3>2, <3>3, <3>4, <3>5 DEF JobAt, Tableless
    <3> QED
      BY <3>2, <3>5, <3>6
  <2>2. CASE image' = image /\ pc' = "readdir"
    <3>1. JobAt(hi)'
      BY <2>2 DEF JobAt
    <3> QED
      BY <1>2, <1>5, <2>2, <3>1
  <2> QED
    BY <1>12, <2>1, <2>2 DEF AddShortEntry
<1>13. CASE fat_new_file
  <2> DEFINE n == ClustersRequired
  <2>1. job.filePosition = hi /\ ~Tableless(Len(dir_stack))
    BY <1>2, <1>13 DEF JobAt, fat_new_file
  <2>2. /\ FatHasRoom
        /\ address_regions' = Append(address_regions,
             AddressRegion(address_from_fatclus(hi), FileLength, NoPointer, job.name))
        /\ fat' = FatWithChain(hi, n)
    <3>1. "fat_full" \notin events'
      BY DEF Orderly
    <3> QED
      BY <1>13, <2>1, <3>1 DEF fat_new_file
  <2>3. /\ pc' = "readdir"
        /\ UNCHANGED << current_fat_position, dirtables, dir_stack >>
    BY <1>13 DEF fat_new_file
  <2>4. /\ FileLength \in Nat /\ FileLength > 0
        /\ n \in Nat /\ n > 0
        /\ FileLength <= cluster_size * n
    <3>1. FileLength \in Nat /\ FileLength > 0
      BY <1>8 DEF FileLength
    <3> QED
      BY <3>1, CeilDiv, Sizes DEF ClustersRequired
  <2>5. hi + n <= fat_entries
    <3>1. n <= (fat_entries - hi) % Word
      BY <2>1, <2>2 DEF FatHasRoom
    <3>2. fat_entries - hi \in Nat /\ fat_entries - hi < Word /\ Word \in Nat \ {0}
      BY <1>4, FatFilesAssumption, LayoutAssumption
    <3>3. (fat_entries - hi) % Word = fat_entries - hi
      BY <3>2, SmallRemainder
    <3> QED
      BY <1>4, <2>4, <3>1, <3>3
  <2> HIDE DEF n
  <2>6. PICK h \in 2 .. fat_entries : h = hi + n
    BY <1>4, <2>4, <2>5
  <2>7. /\ \A b \in FatWords : b < hi + n <=> fat'[b] # 0
        /\ \A b \in FatWords : b < hi => fat'[b] = fat[b]
    BY <1>2, <2>2, <2>4, <2>5, ChainAtFrontier DEF Filled
  <2>8. /\ RegionsSorted'
        /\ \A i \in DataRegions' : RegionEnd(i)' <= address_from_fatclus(hi + n)
    <3>1. NoPointer \in Pointers
      BY DEF NoPointer, Pointers
    <3>2. \A i \in DataRegions : RegionEnd(i) <= address_from_fatclus(hi)
      BY <1>2 DEF Filled
    <3>3. address_regions \in Seq(AddressRegions)
      BY DEF TypeInv, TypeOK
    <3> QED
      BY <1>3, <1>4, <1>8, <2>2, <2>4, <3>1, <3>2, <3>3, RegionAtFrontier
  <2>9. Filled(h)'
    <3>1. current_fat_position' <= h
      BY <1>2, <1>4, <2>3, <2>4, <2>6 DEF Filled, TypeInv, TypeOK
    <3> QED
      BY <2>6, <2>7, <2>8, <3>1 DEF Filled
  <2>10. DirsBelow(h)'
    <3>1. \A d \in DOMAIN dir_stack : /\ dir_stack[d].dirtables # << >>
                                     /\ dir_stack[d].dir_location < hi
                                     /\ fat[dir_stack[d].dir_location] = fat_end
                                     /\ dir_stack[d].dir_location \in Nat
      BY <1>2, <2>1, StackShape DEF DirsBelow, Tableless
    <3>2. \A d \in DOMAIN dir_stack : /\ dir_stack[d].dir_location \in FatWords
                                     /\ dir_stack[d].dir_location < h
      BY <1>4, <2>4, <2>6, <3>1, FatFilesAssumption DEF FatWords
    <3>3. \A d \in DOMAIN dir_stack : fat'[dir_stack[d].dir_location] = fat_end
      BY <2>7, <3>1, <3>2
    <3> QED
      BY <1>2, <2>3, <3>1, <3>2, <3>3 DEF DirsBelow, Tableless
  <2>11. JobAt(h)'
    BY <2>3 DEF JobAt
  <2>12. LinksKept
    BY <1>2, <2>7 DEF LinksKept, Filled
  <2> QED
    BY <2>8, <2>9, <2>10, <2>11, <2>12
<1>14. CASE EnterFolder
  <2>1. job.filePosition = hi /\ ~Tableless(Len(dir_stack))
    BY <1>2, <1>14 DEF JobAt, EnterFolder
  <2>2. /\ pc' = "dot"
        /\ UNCHANGED << fat, current_fat_position, address_regions, dirtables >>
        /\ dir_stack' = Append(dir_stack, Fat_Directory(job.name, << >>, 0, hi))
    BY <1>14, <2>1 DEF EnterFolder
  <2>3. hi < fat_entries
    <3>1. "fat_full" \notin events'
      BY DEF Orderly
    <3> QED
      BY <1>4, <1>14, <2>1, <3>1 DEF EnterFolder
  <2>4. Filled(hi)' /\ RegionsSorted' /\ LinksKept
    BY <1>2, <1>3, <2>2 DEF RegionsSorted, Filled, LinksKept, DataRegions, RegionEnd
  <2>5. PICK top \in Nat \ {0} : top = Len(dir_stack)
    BY StackShape
  <2>6. \A d \in 1 .. top : /\ dir_stack[d].dirtables # << >>
                           /\ dir_stack[d].dir_location < hi
                           /\ fat[dir_stack[d].dir_location] = fat_end
                           /\ dir_stack[d].dir_location \in Nat
    BY <1>2, <2>1, <2>5, StackShape DEF DirsBelow, Tableless
  <2>7. /\ DOMAIN dir_stack' = 1 .. top + 1 /\ Len(dir_stack') = top + 1
        /\ dir_stack'[top + 1] = Fat_Directory(job.name, << >>, 0, hi)
        /\ \A d \in 1 .. top : dir_stack'[d] = dir_stack[d]
    <3> DEFINE e == Fat_Directory(job.name, << >>, 0, hi)
    <3>1. e \in Fat_Directories /\ dir_stack \in Seq(Fat_Directories)
      BY <1>4, <1>8 DEF Fat_Directory, Fat_Directories, TypeInv, TypeOK
    <3> HIDE DEF e
    <3>2. dir_stack' = Append(dir_stack, e)
      BY <2>2 DEF e
    <3>3. /\ dir_stack' \in Seq(Fat_Directories) /\ Len(dir_stack') = top + 1
          /\ dir_stack'[top + 1] = e
          /\ \A d \in 1 .. top : dir_stack'[d] = dir_stack[d]
      BY <2>5, <3>1, <3>2, AppendProperties
    <3> QED
      BY <3>3, LenProperties DEF e
  <2>8. \A c, d \in 1 .. top + 1 :
          c < d => dir_stack'[c].dir_location # dir_stack'[d].dir_location
    <3> SUFFICES ASSUME NEW c \in 1 .. top + 1, NEW d \in 1 .. top + 1, c < d
                 PROVE  dir_stack'[c].dir_location # dir_stack'[d].dir_location
      OBVIOUS
    <3>1. c \in 1 .. top
      BY <2>5
    <3>2. CASE d = top + 1
      BY <1>4, <2>6, <2>7, <3>1, <3>2 DEF Fat_Directory
    <3>3. CASE d \in 1 .. top
      <4>1. dir_stack[c].dir_location # dir_stack[d].dir_location
        BY <1>2, <2>5, <3>1, <3>3, StackShape DEF DirsBelow
      <4> QED
        BY <2>7, <3>1, <3>3, <4>1
    <3> QED
      BY <2>5, <3>2, <3>3
  <2>9. \A d \in 1 .. top + 1 :
          IF d = top + 1 THEN dir_stack'[d] = Fat_Directory(job.name, << >>, 0, hi)
          ELSE d \in 1 .. top /\ dir_stack'[d] = dir_stack[d]
    BY <2>5, <2>7
  <2>10. DirsBelow(hi)'
    <3>1. ASSUME NEW d \in 1 .. top + 1
          PROVE  IF dir_stack'[d].dirtables = << >>
                 THEN /\ d = top + 1
                      /\ dir_stack'[d].dir_location = hi
                      /\ dir_stack'[d].current_dir_position = 0
                 ELSE /\ dir_stack'[d].dir_location < hi
                      /\ fat[dir_stack'[d].dir_location] = fat_end
      <4>1. CASE d = top + 1
        BY <2>7, <4>1 DEF Fat_Directory
      <4>2. CASE d # top + 1
        <5>1. d \in 1 .. top /\ dir_stack'[d] = dir_stack[d]
          BY <2>9, <4>2
        <5> QED BY <2>6, <5>1
      <4> QED BY <4>1, <4>2
    <3> QED BY <2>2, <2>3, <2>7, <2>8, <3>1 DEF DirsBelow, Tableless
  <2>11. JobAt(hi)'
    BY <2>2 DEF JobAt
  <2> QED
    BY <1>2, <2>4, <2>10, <2>11
<1>15. CASE AddDot
  <2>1. DotEntry \in Entries
    <3>0. current_dir.dir_location \in Nat
      BY CurrentDirType, TypeParts DEF TypeInv, ImageOK, Fat_Directories
    <3>1. current_dir.dir_location % DotWord \in Nat
      BY <3>0, DotRemainder
    <3> QED
      BY <1>8, <3>1 DEF DotEntry, Entry, Entries
  <2>2. dir_add_entry(DotEntry) /\ Overrun \subseteq events' /\ pc' = "dotdot"
    BY <1>15 DEF AddDot
  <2>3. \A h \in 2 .. fat_entries : JobAt(h)'
    BY <2>2 DEF JobAt
  <2> QED
    BY <1>7, <2>1, <2>2, <2>3
<1>16. CASE AddDotDot
  <2>1. DotDotEntry \in Entries
    <3>1. Len(dir_stack) - 1 \in 1 .. Len(dir_stack)
      BY <1>16, StackShape DEF AddDotDot, TypeInv, ClustersOK
    <3>2. dir_stack[Len(dir_stack) - 1].dir_location \in Nat
      BY <3>1, StackShape
    <3>3. dir_stack[Len(dir_stack) - 1].dir_location % DotWord \in Nat
      BY <3>2, DotRemainder
    <3> QED
      BY <1>8, <3>3 DEF DotDotEntry, Entry, Entries
  <2>2. dir_add_entry(DotDotEntry) /\ Overrun \subseteq events' /\ pc' = "readdir"
    BY <1>16 DEF AddDotDot
  <2>3. \A h \in 2 .. fat_entries : JobAt(h)'
    BY <2>2 DEF JobAt
  <2> QED
    BY <1>7, <2>1, <2>2, <2>3
<1>17. CASE up_dir
  <2>1. /\ pc' = "readdir"
        /\ UNCHANGED << fat, current_fat_position, address_regions, dirtables >>
    BY <1>17 DEF up_dir
  <2>2. RegionsSorted' /\ Filled(hi)' /\ LinksKept /\ JobAt(hi)'
    BY <1>2, <1>3, <2>1 DEF RegionsSorted, Filled, LinksKept, DataRegions, RegionEnd, JobAt
  <2>3. CASE Len(dir_stack) > 1
    <3>1. \A d \in DOMAIN dir_stack' : /\ d \in DOMAIN dir_stack
                                       /\ dir_stack'[d] = dir_stack[d]
                                       /\ d # Len(dir_stack)
      <4>1. dir_stack' = SubSeq(dir_stack, 1, Len(dir_stack) - 1)
        BY <1>17, <2>3 DEF up_dir, ParentStack
      <4>2. DOMAIN dir_stack' = 1 .. Len(dir_stack) - 1
        BY <2>3, <4>1, StackShape, SubSeqProperties, LenProperties
      <4>3. \A d \in 1 .. Len(dir_stack) - 1 : dir_stack'[d] = dir_stack[d]
        <5>1. dir_stack \in Seq(Fat_Directories) \ {<< >>}
          BY DEF TypeInv, TypeOK
        <5> QED
          BY <2>3, <4>1, <5>1, StackShape, SubSeqProperties
      <4> QED
        BY <4>2, <4>3, StackShape
    <3>2. \A d \in DOMAIN dir_stack' : /\ dir_stack'[d].dirtables # << >>
                                       /\ dir_stack'[d].dir_location < hi
                                       /\ fat'[dir_stack'[d].dir_location] = fat_end
      BY <1>2, <2>1, <3>1 DEF DirsBelow, Tableless
    <3>3. \A c, d \in DOMAIN dir_stack' :
            c < d => dir_stack'[c].dir_location # dir_stack'[d].dir_location
      BY <1>2, <3>1 DEF DirsBelow
    <3>4. DirsBelow(hi)'
      BY <3>2, <3>3 DEF DirsBelow, Tableless
    <3> QED
      BY <1>2, <2>2, <3>4
  <2>4. CASE ~(Len(dir_stack) > 1)
    <3>1. image' = image
      BY <1>17, <2>1, <2>4 DEF up_dir, ParentStack, image
    <3> QED
      BY <1>2, <1>5, <2>2, <3>1
  <2> QED
    BY <2>3, <2>4
<1>18. CASE Launch
  <2>1. image' = image /\ pc' = "serving"
    BY <1>18 DEF Launch
  <2>2. JobAt(hi)'
    BY <2>1 DEF JobAt
  <2> QED
    BY <1>2, <1>5, <2>1, <2>2
<1>19. CASE UNCHANGED vars
  <2>1. image' = image /\ pc' = pc /\ job' = job
    BY <1>19 DEF vars, image
  <2>2. JobAt(hi)'
    BY <1>2, <2>1 DEF JobAt, Tableless, image
  <2> QED
    BY <1>2, <1>5, <2>1, <2>2
<1> QED
  BY <1>9, <1>10, <1>11, <1>12, <1>13, <1>14, <1>15, <1>16, <1>17, <1>18, <1>19
     DEF Next, Serve

-----------------------------------------------------------------------------
(* The frontier exists in every reachable state. *)
THEOREM FrontierCorrect == Spec => []FrontierInv
<1>1. TypeInv /\ TypeInv' /\ FrontierInv /\ [Next]_vars => FrontierInv'
  BY FrontierStep
<1> QED
  BY <1>1, FrontierInit, TypeCorrect, PTL DEF Spec

(* The regions of files and directories are ascending and disjoint: what    *)
(* xmp_read relies on.                                                      *)
THEOREM RegionsAscend == Spec => []RegionsAscending
<1>1. FrontierInv => RegionsAscending
  BY DEF FrontierInv, RegionsSorted, RegionsAscending
<1> QED
  BY <1>1, FrontierCorrect, PTL

(* No link of a chain is ever changed. *)
THEOREM LinksAreStable == Spec => LinksStable
<1>1. /\ TypeInv /\ TypeInv' /\ FrontierInv /\ [Next]_vars
      => [Orderly' => \A b \in FatWords : fat[b] \notin {0, fat_end} => fat'[b] = fat[b]]_vars
  BY FrontierStep DEF LinksKept
<1> QED
  BY <1>1, FrontierCorrect, TypeCorrect, PTL DEF Spec, LinksStable

=============================================================================
