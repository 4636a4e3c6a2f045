------------------------------ MODULE FatFiles ------------------------------
(***************************************************************************)
(* Building the synthetic FAT32 image: scan_folder (vsfat.c) walks the     *)
(* exported folder and calls add_file (fatfiles.c) on each entry it reads, *)
(* which appends directory entries, allocates clusters in the FAT and maps *)
(* address regions.  One thread does all of this, so a behaviour is a      *)
(* choice of folder contents and the steps of the code on it; pc says      *)
(* where in add_file or scan_folder the thread stands.                     *)
(***************************************************************************)
EXTENDS FatLayout, FiniteSets

CONSTANTS
  MaxDirBytes,  (* the size limit of a directory: 2 MB                          *)
  DotWord,      (* 256: what the masks 0x00FF and 0xFF00 leave of a cluster in  *)
                (* the . and .. entries                                         *)
  LfnCounts,    (* how many LFN entries a name in the folder may need, 0 to 20  *)
  FileSizes,    (* the sizes stat may return                                    *)
  FatSlack,     (* zeroed FAT-sized words that follow the FAT in its malloc     *)
                (* block (380 on a 64-bit build: the block is whole pages)      *)
  MaxScanned,   (* bound: names read from the exported folder, in all           *)
  MaxDepth      (* bound: nesting of the exported folder                        *)

MaxDirEntries == MaxDirBytes \div DirEntrySize

(* Entries fill clusters, and a FAT is not too large for its words. *)
ASSUME FatFilesAssumption ==
  /\ BPB_BytsPerSec % DirEntrySize = 0
  /\ entrys_per_cluster > 1
  /\ fat_entries > 2
  /\ MaxDirEntries > 1
  /\ DotWord \in Nat \ {0}
  /\ LfnCounts \subseteq Nat
  /\ FileSizes \subseteq Nat
  /\ FatSlack \in Nat
  /\ fat_entries + FatSlack < Word
  /\ Word \div 16 > 8
  /\ MaxScanned \in Nat
  /\ MaxDepth \in Nat

VARIABLES
  fat,                   (* both FATs: one array, mapped twice                *)
  current_fat_position,
  address_regions,
  dirtables,             (* the cluster-sized buffers of all directories, in  *)
                         (* the order of their malloc                         *)
  dir_stack,             (* current_dir (last) and its chain of parents: a    *)
                         (* Fat_Directory above the root exists only between  *)
                         (* its add_file and its up_dir                       *)
  scan_stack,            (* the folders whose scan_folder call is active      *)
  scanned,               (* names read so far; numbers files and folders      *)
  pc,
  job,                   (* the locals of the running add_file                *)
  events                 (* history: what the code let pass without a word    *)

vars == << fat, current_fat_position, address_regions, dirtables, dir_stack,
           scan_stack, scanned, pc, job, events >>

(* "drift":    an entry's first cluster is not the first free cluster       *)
(* "fat_full": a cluster at or beyond the end of the FAT was handed out, or  *)
(*             fat_new_file returned -1, which add_file ignores              *)
(* "dir_full": dir_add_entry returned -1, which add_file does not report     *)
Events == {"drift", "fat_full", "dir_full"}

RootFolder == 0

fat_end == Word - 1        (* 0xFFFFFFFF *)
(* 0x0FFFFFF8 and 0x0FFFFFFF, the first two words of the FAT. *)
fat_special(b) == (Word \div 16) - (IF b = 0 THEN 8 ELSE 1)

FatWords == 0 .. fat_entries + FatSlack - 1

Fat_Directory(path, ts, position, loc) ==
  [path |-> path, dirtables |-> ts, current_dir_position |-> position,
   dir_location |-> loc]

current_dir == dir_stack[Len(dir_stack)]

(* A directory entry: the name stands for the file's number, first for     *)
(* DIR_FstClusHI and LO, size for DIR_FileSize or, of an LFN entry, for the *)
(* number in LFN_Seq; in is the folder the name was read in.               *)
Entry(kind, name, first, size, in) ==
  [kind |-> kind, name |-> name, first |-> first, size |-> size, in |-> in]

NoEntry == Entry("none", 0, 0, 0, 0)

Entries == [kind : {"none", "lfn", "file", "dir", "dot", "dotdot"},
            name : Nat, first : Nat, size : Nat, in : Nat]

(* A dirtable's buffer, with the folder it belongs to. *)
DirTables == [dir : Nat, slots : [0 .. entrys_per_cluster - 1 -> Entries]]

Fat_Directories == [path : Nat, dirtables : Seq(Nat \ {0}),
                    current_dir_position : Nat, dir_location : Nat]

(* What add_file knows when format_name_83 has asked for n LFN entries, of  *)
(* which left are still to be added.                                        *)
Job(name, n, size, isDirectory) ==
  [name |-> name, lfn |-> n, left |-> n, size |-> size, isDirectory |-> isDirectory,
   clusters_needed |-> 0, filePosition |-> 0]

NoJob == Job(0, 0, 0, 0)

-----------------------------------------------------------------------------
(* The FAT *)

(* Mutant: the position is handed out without a look at the FAT. *)
fat_find_free_unchecked(c) == c = current_fat_position

(* Mutant: at the end of the FAT the last cluster is handed out once more. *)
fat_find_free_last(c) ==
  \/ fat[current_fat_position] = 0 /\ c = current_fat_position
  \/ /\ fat[current_fat_position] # 0
     /\ c \in current_fat_position .. fat_entries - 1
     /\ \A b \in current_fat_position + 1 .. c - 1 : fat[b] # 0
     /\ fat[c] = 0 \/ c = fat_entries - 1

(* fat_find_free leaves current_fat_position at c.  It stops at the first   *)
(* free word; only after an increment does it look for the end of the FAT. *)
fat_find_free(c) ==
  \/ fat[current_fat_position] = 0 /\ c = current_fat_position
  \/ /\ fat[current_fat_position] # 0
     /\ c > current_fat_position
     /\ \A b \in current_fat_position + 1 .. c - 1 : b < fat_entries /\ fat[b] # 0
     /\ c >= fat_entries \/ fat[c] = 0

(* Mutant: the chain is linked, its end mark is not written. *)
FatWithOpenChain(c, n) ==
  [b \in FatWords |-> IF b \in c .. c + n - 2 THEN b + 1 ELSE fat[b]]

(* Mutant: a cluster is linked to itself, not to the next one. *)
FatWithSelfLinks(c, n) ==
  [b \in FatWords |-> IF b = c + n - 1 THEN fat_end
                      ELSE IF b \in c .. c + n - 2 THEN b
                      ELSE fat[b]]

(* The FAT once fat_new_file has linked n clusters from c on.              *)
FatWithChain(c, n) ==
  [b \in FatWords |-> IF b = c + n - 1 THEN fat_end
                      ELSE IF b \in c .. c + n - 2 THEN b + 1
                      ELSE fat[b]]

-----------------------------------------------------------------------------
(* Directories *)

(* Mutant: the short entry is counted on top of the LFN entries. *)
dir_entry_sectors_needed_with_short(n) ==
  LET free_entries ==
        entrys_per_cluster - (current_dir.current_dir_position % entrys_per_cluster)
  IN  IF current_dir.dirtables = << >> THEN ceil_div(n + 1, entrys_per_cluster)
      ELSE IF free_entries > n + 1 THEN 0
      ELSE ceil_div(n + 1 - free_entries, entrys_per_cluster)

(* How many clusters dir_entry_sectors_needed says the directory will grow *)
(* by.  add_file calls it with the number of LFN entries it has already    *)
(* added, to learn about the single short entry it has yet to add.         *)
dir_entry_sectors_needed(n) ==
  LET entries_needed == IF n = 0 THEN 1 ELSE n
      free_entries ==
        entrys_per_cluster - (current_dir.current_dir_position % entrys_per_cluster)
  IN  IF current_dir.dirtables = << >>
        THEN ceil_div(entries_needed, entrys_per_cluster)
      ELSE IF free_entries > entries_needed THEN 0
      ELSE ceil_div(entries_needed - free_entries, entrys_per_cluster)

DirIsFull == current_dir.current_dir_position + 1 > MaxDirEntries

(* The current directory with one more entry, after its list of dirtables  *)
(* became ts and its dir_location loc.                                     *)
DirWithEntry(ts, loc) ==
  dir_stack' = [dir_stack EXCEPT ![Len(dir_stack)] =
                 Fat_Directory(current_dir.path, ts,
                               current_dir.current_dir_position + 1, loc)]

(* Mutant: the search for the last dirtable leaves final_table_pos alone. *)
SlotInFirst(ts) == current_dir.current_dir_position

(* Where in the last dirtable of the list ts the next entry is written.    *)
SlotIn(ts) ==
  current_dir.current_dir_position - entrys_per_cluster * (Len(ts) - 1)

(* A zeroed dirtable for cluster c, mapped, with its first entry in it.    *)
NewDirTable(c, ts, entry) ==
  /\ dirtables' = Append(dirtables,
       [dir |-> current_dir.path,
        slots |-> [i \in 0 .. entrys_per_cluster - 1 |->
                     IF i = SlotIn(ts) THEN entry ELSE NoEntry]])
  /\ address_regions' = Append(address_regions,
       AddressRegion(address_from_fatclus(c), cluster_size,
                     DirTable(Len(dirtables) + 1), 0))

(* The three ways dir_add_entry finds room for an entry. *)
FirstCluster(entry) ==
  LET ts == << Len(dirtables) + 1 >> IN
  /\ current_dir.dirtables = << >>
  /\ NewDirTable(current_dir.dir_location, ts, entry)
  /\ fat' = [fat EXCEPT ![current_dir.dir_location] = fat_end]
  /\ DirWithEntry(ts, current_dir.dir_location)
  /\ UNCHANGED current_fat_position

(* Mutant: the previous cluster keeps its end mark. *)
FatWithoutLink(c) == [fat EXCEPT ![c] = fat_end]

(* The FAT once the current directory's last cluster leads to c. *)
FatWithLink(c) == [fat EXCEPT ![current_dir.dir_location] = c, ![c] = fat_end]

NextCluster(entry) ==
  LET ts == Append(current_dir.dirtables, Len(dirtables) + 1) IN
  /\ current_dir.dirtables # << >>
  /\ current_dir.current_dir_position % entrys_per_cluster < 1
  /\ \E c \in current_fat_position .. fat_entries + FatSlack :
       /\ fat_find_free(c)
       /\ current_fat_position' = c
       /\ NewDirTable(c, ts, entry)
       /\ fat' = FatWithLink(c)
       /\ DirWithEntry(ts, c)

SameCluster(entry) ==
  LET ts == current_dir.dirtables IN
  /\ ts # << >>
  /\ current_dir.current_dir_position % entrys_per_cluster >= 1
  /\ dirtables' = [dirtables EXCEPT ![ts[Len(ts)]].slots[SlotIn(ts)] = entry]
  /\ DirWithEntry(ts, current_dir.dir_location)
  /\ UNCHANGED << fat, current_fat_position, address_regions >>

(* One round of the loop in dir_add_entry that does not return -1.  A      *)
(* directory without a dirtable is empty, so it is never full.             *)
dir_add_entry(entry) ==
  /\ ~DirIsFull
  /\ FirstCluster(entry) \/ NextCluster(entry) \/ SameCluster(entry)

(* The events of such a round. *)
Overrun == IF current_fat_position' >= fat_entries THEN {"fat_full"} ELSE {}

image == << fat, current_fat_position, address_regions, dirtables, dir_stack >>
-----------------------------------------------------------------------------
(* scan_folder and add_file *)

Init ==
  /\ fat = [b \in FatWords |-> IF b < 2 THEN fat_special(b) ELSE 0]
  /\ current_fat_position = root_dir_loc
  /\ address_regions = SetupRegions
  /\ dirtables = << >>
  /\ dir_stack = << Fat_Directory(RootFolder, << >>, 0, root_dir_loc) >>
  /\ scan_stack = << RootFolder >>
  /\ scanned = 0
  /\ pc = "readdir"
  /\ job = NoJob
  /\ events = {}

scanned_folder == scan_stack[Len(scan_stack)]

(* readdir returns a name; scan_folder calls add_file, whose format_name_83 *)
(* decides on n LFN entries.  st_size is an off_t, size a uint32_t.         *)
add_file(n, st_size, isDirectory) ==
  /\ pc = "readdir"
  /\ scanned < MaxScanned
  /\ scanned' = scanned + 1
  /\ job' = Job(scanned + 1, n, st_size % Word, isDirectory)
  /\ pc' = IF n > 0 THEN "lfn" ELSE "position"
  /\ UNCHANGED << image, scan_stack, events >>

AddFile == \E n \in LfnCounts, s \in FileSizes : add_file(n, s, 0)

AddFolder ==
  /\ Len(scan_stack) < MaxDepth
  /\ \E n \in LfnCounts : add_file(n, 0, 1)

(* Mutant: the LFN entries are built from the first to the last. *)
LfnEntryForward == Entry("lfn", job.name, 0, job.lfn - job.left + 1, scanned_folder)

(* The next LFN entry of the array: they stand in it from the last to the   *)
(* first, so its number is that of the entries left.                       *)
LfnEntry == Entry("lfn", job.name, 0, job.left, scanned_folder)

(* One LFN entry; the result of dir_add_entry is not looked at. *)
AddLfnEntry ==
  /\ pc = "lfn"
  /\ \/ /\ dir_add_entry(LfnEntry)
        /\ job' = [job EXCEPT !.left = @ - 1]
        /\ pc' = IF job.left > 1 THEN "lfn" ELSE "position"
        /\ events' = events \cup Overrun
     \/ /\ DirIsFull
        /\ pc' = "position"
        /\ events' = events \cup {"dir_full"}
        /\ UNCHANGED << image, job >>
  /\ UNCHANGED << scan_stack, scanned >>

(* Predict the first cluster of the file or directory. *)
PickFilePosition ==
  /\ pc = "position"
  /\ \E c \in current_fat_position .. fat_entries + FatSlack :
       /\ fat_find_free(c)
       /\ current_fat_position' = c
       /\ job' = [job EXCEPT
                    !.clusters_needed = dir_entry_sectors_needed(job.lfn),
                    !.filePosition = c + dir_entry_sectors_needed(job.lfn)]
  /\ pc' = "short"
  /\ events' = events \cup Overrun
  /\ UNCHANGED << fat, address_regions, dirtables, dir_stack, scan_stack, scanned >>

(* What the short entry really takes: it was counted as clusters_needed.   *)
ClustersTaken ==
  IF current_dir.current_dir_position % entrys_per_cluster = 0 THEN 1 ELSE 0

ShortEntry ==
  Entry(IF job.isDirectory # 0 THEN "dir" ELSE "file",
        job.name, job.filePosition, job.size, scanned_folder)

(* The short entry.  When it does not fit, add_file returns without the    *)
(* file; scan_folder goes down into a folder all the same.                 *)
AddShortEntry ==
  /\ pc = "short"
  /\ \/ /\ dir_add_entry(ShortEntry)
        /\ pc' = IF job.isDirectory # 0 THEN "enter" ELSE "data"
        /\ events' = events \cup Overrun
             \cup (IF job.clusters_needed # ClustersTaken THEN {"drift"} ELSE {})
        /\ UNCHANGED << job, scan_stack >>
     \/ /\ DirIsFull
        /\ pc' = "readdir"
        /\ job' = NoJob
        /\ events' = events \cup {"dir_full"}
        /\ scan_stack' = IF job.isDirectory # 0 THEN Append(scan_stack, job.name)
                         ELSE scan_stack
        /\ UNCHANGED image
  /\ UNCHANGED scanned

FileLength == IF job.size = 0 THEN 1 ELSE job.size

ClustersRequired == ceil_div(FileLength, cluster_size)

(* The test for free clusters is made on uint32_t values. *)
FatHasRoom ==
  ClustersRequired <= (fat_entries - job.filePosition) % Word

fat_new_file ==
  /\ pc = "data"
  /\ \/ /\ FatHasRoom
        /\ address_regions' = Append(address_regions,
             AddressRegion(address_from_fatclus(job.filePosition), FileLength,
                           NoPointer, job.name))
        /\ fat' = FatWithChain(job.filePosition, ClustersRequired)
        /\ UNCHANGED events
     \/ /\ ~FatHasRoom
        /\ events' = events \cup {"fat_full"}
        /\ UNCHANGED << fat, address_regions >>
  /\ pc' = "readdir"
  /\ job' = NoJob
  /\ UNCHANGED << current_fat_position, dirtables, dir_stack, scan_stack, scanned >>

(* The new Fat_Directory becomes the current one, without a dirtable yet.  *)
EnterFolder ==
  /\ pc = "enter"
  /\ dir_stack' = Append(dir_stack, Fat_Directory(job.name, << >>, 0, job.filePosition))
  /\ pc' = "dot"
  /\ events' = events \cup (IF job.filePosition >= fat_entries THEN {"fat_full"} ELSE {})
  /\ UNCHANGED << fat, current_fat_position, address_regions, dirtables,
                  scan_stack, scanned, job >>

DotEntry ==
  Entry("dot", job.name, current_dir.dir_location % DotWord, 0, job.name)

AddDot ==
  /\ pc = "dot"
  /\ dir_add_entry(DotEntry)
  /\ pc' = "dotdot"
  /\ events' = events \cup Overrun
  /\ UNCHANGED << scan_stack, scanned, job >>

(* Mutant: the folder itself is taken for its parent. *)
DotDotEntryOwn ==
  Entry("dotdot", job.name, current_dir.dir_location % DotWord, 0, job.name)

(* dir_location is the last cluster of a directory, not its first. *)
DotDotEntry ==
  Entry("dotdot", job.name,
        dir_stack[Len(dir_stack) - 1].dir_location % DotWord, 0, job.name)

(* After the .. entry, add_file returns and scan_folder recurs. *)
AddDotDot ==
  /\ pc = "dotdot"
  /\ dir_add_entry(DotDotEntry)
  /\ pc' = "readdir"
  /\ job' = NoJob
  /\ scan_stack' = Append(scan_stack, job.name)
  /\ events' = events \cup Overrun
  /\ UNCHANGED scanned

(* Mutant: the root directory is not its own parent. *)
StackAboveRoot == SubSeq(dir_stack, 1, Len(dir_stack) - 1)

(* Mutant: scan_folder returns to a folder without the call of up_dir. *)
StackAsItWas == dir_stack

(* The directories once current_dir is its parent; the root is its own.    *)
ParentStack ==
  IF Len(dir_stack) > 1 THEN SubSeq(dir_stack, 1, Len(dir_stack) - 1) ELSE dir_stack

(* readdir returns NULL in a folder below the exported one; opendir may    *)
(* also have failed, then nothing was read in it.  The caller's up_dir     *)
(* frees current_dir and then reads its parent, which free left in place.  *)
up_dir ==
  /\ pc = "readdir"
  /\ Len(scan_stack) > 1
  /\ scan_stack' = SubSeq(scan_stack, 1, Len(scan_stack) - 1)
  /\ dir_stack' = ParentStack
  /\ UNCHANGED << fat, current_fat_position, address_regions, dirtables,
                  scanned, pc, job, events >>

(* The scan is complete: main launches the block device. *)
Launch ==
  /\ pc = "readdir"
  /\ Len(scan_stack) = 1
  /\ pc' = "serving"
  /\ UNCHANGED << image, scan_stack, scanned, job, events >>

(* buse_main runs for ever and leaves the image alone. *)
Serve == pc = "serving" /\ UNCHANGED vars

Next ==
  \/ AddFile \/ AddFolder \/ AddLfnEntry \/ PickFilePosition \/ AddShortEntry
  \/ fat_new_file \/ EnterFolder \/ AddDot \/ AddDotDot
  \/ up_dir \/ Launch \/ Serve

Spec == Init /\ [][Next]_vars
-----------------------------------------------------------------------------
(* Properties *)

(* Every variable has its type: clusters and positions are counted from 0,  *)
(* the control state is one of add_file's and scan_folder's.                *)
TypeOK ==
  /\ fat \in [FatWords -> Nat]
  /\ current_fat_position \in Nat
  /\ address_regions \in Seq(AddressRegions)
  /\ dirtables \in Seq(DirTables)
  /\ dir_stack \in Seq(Fat_Directories) \ {<< >>}
  /\ scan_stack \in Seq(Nat) \ {<< >>}
  /\ scanned \in Nat
  /\ pc \in {"readdir", "lfn", "position", "short", "data", "enter", "dot", "dotdot",
             "serving"}
  /\ job \in [name : Nat, lfn : Nat, left : Nat, size : Nat, isDirectory : {0, 1},
              clusters_needed : Nat, filePosition : Nat]
  /\ events \in SUBSET Events

(* Cluster positions were predicted right, and the FAT was large enough.    *)
Orderly == events \cap {"drift", "fat_full"} = {}

DataRegions == Len(SetupRegions) + 1 .. Len(address_regions)

RegionEnd(i) == address_regions[i].base + address_regions[i].length

(* The list of dirtables of an open directory has just the length its       *)
(* position asks for, and the used slots are those below the position: the  *)
(* copy in dir_add_entry stays inside the last buffer (fatfiles.c:194), and *)
(* a driver, which stops at the first empty entry, sees every entry.        *)
DirectoriesPacked ==
  \A d \in DOMAIN dir_stack :
    LET ts == dir_stack[d].dirtables
        position == dir_stack[d].current_dir_position
    IN  /\ position <= entrys_per_cluster * Len(ts)
        /\ ts # << >> => position > entrys_per_cluster * (Len(ts) - 1)
        /\ \A n \in DOMAIN ts :
             /\ dirtables[ts[n]].dir = dir_stack[d].path
             /\ \A i \in 0 .. entrys_per_cluster - 1 :
                  dirtables[ts[n]].slots[i].kind # "none"
                    <=> entrys_per_cluster * (n - 1) + i < position

(* The regions of files and directories are mapped in ascending order and   *)
(* do not overlap.  xmp_read takes the regions in the order of the array    *)
(* and never goes back, so it depends on this.                              *)
RegionsAscending ==
  Orderly => \A i, j \in DataRegions :
               i < j => RegionEnd(i) <= address_regions[j].base

(* Every region lies on the disk whose size the boot sector declares.       *)
RegionsOnDisk ==
  Orderly => \A i \in DOMAIN address_regions :
               RegionEnd(i) <= DiskSize * BPB_BytsPerSec

FileLengthOf(e) == IF e.size = 0 THEN 1 ELSE e.size

(* From the first cluster in a file's entry the FAT leads through as many   *)
(* clusters as its size needs, to an end mark; its region begins there and  *)
(* shares no address with another.                                          *)
Readable(e) ==
  LET n == ceil_div(FileLengthOf(e), cluster_size)
  IN  /\ \A k \in 0 .. n - 2 : fat[e.first + k] = e.first + k + 1
      /\ fat[e.first + n - 1] = fat_end
      /\ \E r \in DataRegions :
           /\ address_regions[r] = AddressRegion(address_from_fatclus(e.first),
                                     FileLengthOf(e), NoPointer, e.name)
           /\ \A q \in DataRegions \ {r} :
                \/ RegionEnd(q) <= address_regions[r].base
                \/ RegionEnd(r) <= address_regions[q].base

FileEntries ==
  {e \in UNION {{dirtables[t].slots[i] : i \in DOMAIN dirtables[t].slots} :
                 t \in DOMAIN dirtables} : e.kind = "file"}

(* A file whose add_file has returned can be read.                          *)
FilesReadable ==
  Orderly => \A e \in FileEntries : job.name # e.name => Readable(e)

InFat(e) == e.first + ceil_div(FileLengthOf(e), cluster_size) <= fat_entries

(* A file of the FAT that can be read can be read after the step. *)
ReadableStays ==
  "drift" \notin events =>
    \A e \in FileEntries : InFat(e) /\ Readable(e) => Readable(e)'

(* A file of the FAT that can be read stays so, whatever is added after it, *)
(* also when the FAT has no cluster left and no caller looks: fat_find_free *)
(* then hands out one behind the end, and fat_new_file fails, or writes its *)
(* chain there.  Of the files behind the end it is not so: taken words are  *)
(* handed out again.                                                        *)
FilesKept == [][ReadableStays]_vars

clus_from_addr(address) ==
  IF address < address_from_fatclus(root_dir_loc) THEN 0
  ELSE (address - address_from_fatclus(root_dir_loc)) \div cluster_size + 2

(* The cluster at which the buffer dirtables[t] is mapped. *)
ClusterOf(t) ==
  LET r == CHOOSE r \in DataRegions : address_regions[r].mem_pointer = DirTable(t)
  IN  clus_from_addr(address_regions[r].base)

TablesOf(d) == {t \in DOMAIN dirtables : dirtables[t].dir = d}

(* The entry of a folder names the cluster of its first dirtable, and the   *)
(* FAT leads from each of its dirtables to the next one, and from the last  *)
(* to the end mark.                                                         *)
DirsReadable ==
  Orderly =>
    \A t \in DOMAIN dirtables :
      LET later == {u \in TablesOf(dirtables[t].dir) : u > t}
          next == CHOOSE u \in later : \A v \in later : u <= v
      IN  /\ fat[ClusterOf(t)] = IF later = {} THEN fat_end ELSE ClusterOf(next)
          /\ \A i \in DOMAIN dirtables[t].slots :
               LET e == dirtables[t].slots[i]
                   mine == TablesOf(e.name)
               IN  e.kind = "dir" /\ mine # {} =>
                     e.first = ClusterOf(CHOOSE u \in mine : \A v \in mine : u <= v)

(* The dot entries of a folder name the clusters they should: . the one in  *)
(* the folder's entry, and .. the parent's first, where the parent is not   *)
(* the root and has not grown before the folder was added.  The masks must  *)
(* leave the cluster whole.                                                *)
DotsNamed ==
  Orderly =>
    \A t, u \in DOMAIN dirtables :
      \A i \in DOMAIN dirtables[t].slots, j \in DOMAIN dirtables[u].slots :
        LET e == dirtables[t].slots[i]
            dot == dirtables[u].slots[j]
            parent == dirtables[t].dir
        IN  e.kind = "dir" /\ dot.name = e.name =>
              /\ dot.kind = "dot" /\ e.first < DotWord => dot.first = e.first
              /\ dot.kind = "dotdot" /\ parent # RootFolder /\ ClusterOf(t) < DotWord
                   /\ (\A v \in TablesOf(parent) : t <= v) =>
                     dot.first = ClusterOf(t)


(* The entry behind slot i of a dirtable, in the next one if need be.       *)
NextEntry(t, i) ==
  LET later == {u \in TablesOf(dirtables[t].dir) : u > t}
  IN  IF i + 1 < entrys_per_cluster THEN dirtables[t].slots[i + 1]
      ELSE IF later = {} THEN NoEntry
      ELSE dirtables[CHOOSE u \in later : \A v \in later : u <= v].slots[0]

(* The LFN entries of a name stand before its short entry in descending     *)
(* order down to number 1, with nothing in between, across the end of a     *)
(* cluster as well: a driver takes them for the name of whatever entry      *)
(* follows.  Before the short entry is added they are all there.  Only at   *)
(* the directory's size limit are some missing, or left without it.         *)
LfnsComplete ==
  "dir_full" \notin events =>
    /\ \A t \in DOMAIN dirtables : \A i \in DOMAIN dirtables[t].slots :
         LET e == dirtables[t].slots[i]
             next == NextEntry(t, i)
         IN  e.kind = "lfn" =>
               \/ /\ next.name = e.name
                  /\ e.size > 1 => next.kind = "lfn" /\ next.size = e.size - 1
                  /\ e.size = 1 => next.kind \in {"file", "dir"}
               \/ next = NoEntry /\ job.name = e.name /\ job.left = e.size - 1
    /\ pc \in {"position", "short"} =>
         \A n \in 1 .. job.lfn :
           \E t \in DOMAIN dirtables : \E i \in DOMAIN dirtables[t].slots :
             dirtables[t].slots[i] = Entry("lfn", job.name, 0, n, scanned_folder)

(* Every entry is in the directory of the folder its name was read in.      *)
TreeMatches ==
  \A t \in DOMAIN dirtables : \A i \in DOMAIN dirtables[t].slots :
    dirtables[t].slots[i].kind # "none" =>
      dirtables[t].slots[i].in = dirtables[t].dir

(* This is so as long as no directory reached its size limit.  *)
TreeKept == "dir_full" \notin events => TreeMatches

(* The prediction of add_file is right wherever the LFN entries and the     *)
(* short entry would fit once more between the short entry's slot and the   *)
(* end of the cluster, the first slot of a cluster excepted.                *)
PredictedInside ==
  LET slot == current_dir.current_dir_position % entrys_per_cluster
      entries_needed == IF job.lfn = 0 THEN 1 ELSE job.lfn
  IN  pc = "short" /\ slot > 0 /\ slot <= entrys_per_cluster - entries_needed =>
        job.clusters_needed = ClustersTaken

(* A link of the FAT, once made, is never changed: chains only grow at      *)
(* their end mark.                                                          *)
LinksStable ==
  [][Orderly' => \A b \in FatWords :
                   fat[b] \notin {0, fat_end} => fat'[b] = fat[b]]_vars

(* The first cluster in every entry is the first free cluster.              *)
PositionsPredicted == "drift" \notin events

(* A file's region is not laid over a directory's: what add_file announces  *)
(* where it moves a file to the cluster after the directory's new one.      *)
FilesOffDirectories ==
  \A i, j \in DataRegions :
    address_regions[i].mem_pointer = NoPointer
      /\ address_regions[j].mem_pointer # NoPointer =>
        RegionEnd(i) <= address_regions[j].base \/ RegionEnd(j) <= address_regions[i].base

(* "0 fragmentation": between calls of add_file no free cluster lies below  *)
(* an allocated one, so that fat_new_file may count on the clusters that    *)
(* follow the first.                                                        *)
NoFragmentation ==
  pc \in {"readdir", "serving"} =>
    \A b, c \in 0 .. fat_entries - 1 : b < c /\ fat[c] # 0 => fat[b] # 0
=============================================================================
