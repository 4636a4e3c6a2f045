-------------------------------- MODULE Vsfat --------------------------------
(***************************************************************************)
(* The program as a whole, seen from the other side of the block device:   *)
(* main (vsfat.c) builds the image of the exported folder, FatFiles, and   *)
(* then serves reads of it, XmpRead.  A driver takes an entry it has read  *)
(* and follows the chain of its clusters through the FAT, reading one      *)
(* after the other.                                                        *)
(*                                                                         *)
(* The exported folder is left alone here, XmpRead has it changing.        *)
(***************************************************************************)
EXTENDS FatFiles

VARIABLES
  present, cachedFilePath, cachedFile, file_position, open_files,
  rpc, request, a, len, offset, buf, missing,  (* those of XmpRead          *)
  target,    (* external: the entry whose clusters the driver reads,        *)
  cluster,   (* the one it has read last, 0 before the first,               *)
  walked     (* and how many it has read                                    *)

reader == << present, cachedFilePath, cachedFile, file_position, open_files,
             rpc, request, a, len, offset, buf, missing >>
driver == << target, cluster, walked >>
all == << vars, reader, driver >>

(* A file's size may have grown since the scan: no more of it is mapped.    *)
Enough == fat_entries * cluster_size

Reader == INSTANCE XmpRead WITH
  pc <- rpc,
  Layouts <- {SetupRegions},
  Requests <- {},
  file_size <- [f \in 1 .. MaxScanned |-> Enough],
  LongMax <- Enough

(* The image before the scan, the read service before the first request.    *)
VInit ==
  /\ Init
  /\ Reader!Init
  /\ target = NoEntry
  /\ cluster = 0
  /\ walked = 0

(* A step of main, up to the launch of the block device. *)
Build == Next /\ pc # "serving" /\ UNCHANGED << reader, driver >>

(* The root directory has no entry: the driver knows where it begins.  That *)
(* of an empty folder has no dirtable and a free cluster in the FAT, and is *)
(* no root directory to a driver.                                           *)
RootEntry == Entry("dir", RootFolder, root_dir_loc, 0, RootFolder)

Targets ==
  {e \in UNION {{dirtables[t].slots[i] : i \in DOMAIN dirtables[t].slots} :
                t \in DOMAIN dirtables} : e.kind \in {"file", "dir"}}
  \cup (IF dirtables = << >> THEN {} ELSE {RootEntry})

(* The driver reads a cluster: the kernel hands the request to buse_main.   *)
ReadCluster(e, c, n) ==
  /\ Reader!xmp_read(Reader!Request(address_from_fatclus(c), cluster_size))
  /\ target' = e
  /\ cluster' = c
  /\ walked' = n
  /\ UNCHANGED vars

OpenEntry ==
  /\ pc = "serving"
  /\ rpc = "idle"
  /\ target = NoEntry
  /\ \E e \in Targets : ReadCluster(e, e.first, 1)

(* Bound: a walk is counted up to here; the FAT has fewer clusters. *)
MaxWalk == fat_entries

(* A word of the FAT that leads on. *)
IsCluster(word) == word \in root_dir_loc .. fat_entries - 1

(* The driver looks up the next cluster of the chain. *)
FollowChain ==
  /\ rpc = "idle"
  /\ target # NoEntry
  /\ IsCluster(fat[cluster])
  /\ ReadCluster(target, fat[cluster], IF walked < MaxWalk THEN walked + 1 ELSE walked)

(* At the end mark, or a word that is no cluster, it is done with the entry. *)
EndOfChain ==
  /\ rpc = "idle"
  /\ target # NoEntry
  /\ ~IsCluster(fat[cluster])
  /\ target' = NoEntry
  /\ cluster' = 0
  /\ walked' = 0
  /\ UNCHANGED << vars, reader >>

ServeRead ==
  /\ pc = "serving"
  /\ Reader!Loop
  /\ UNCHANGED << vars, driver >>

(* buse_main waits for the driver. *)
Idle == Serve /\ UNCHANGED << reader, driver >>

VNext == Build \/ OpenEntry \/ FollowChain \/ EndOfChain \/ ServeRead \/ Idle

VSpec == VInit /\ [][VNext]_all

(* The scanning thread, the serving thread and a driver that is reading a   *)
(* file go on; the driver need not begin to read one.                       *)
FairVSpec == VSpec /\ WF_all(Build) /\ WF_all(ServeRead \/ FollowChain \/ EndOfChain)
-----------------------------------------------------------------------------
(* Properties *)

(* The dirtables of a folder in the order in which they were added. *)
NthTable(d, n) ==
  CHOOSE t \in TablesOf(d) : Cardinality({u \in TablesOf(d) : u <= t}) = n

(* The reply to a driver that has read n clusters of a file holds the bytes *)
(* of that file from there on, to its end; of a folder, its n-th dirtable.  *)
ReplyTo(e, n) ==
  IF e.kind = "file"
  THEN \A i \in 0 .. cluster_size - 1 :
         LET byte == cluster_size * (n - 1) + i
         IN  byte < e.size => buf[i] = Reader!FileByte(e.name, byte)
  ELSE /\ n <= Cardinality(TablesOf(e.name))
       /\ \A i \in 0 .. cluster_size - 1 :
            buf[i] = Reader!MemoryByte(DirTable(NthTable(e.name, n)), i)

(* How many clusters an entry has. *)
ClustersOf(e) ==
  IF e.kind = "file" THEN ceil_div(FileLengthOf(e), cluster_size)
  ELSE Cardinality(TablesOf(e.name))

(* A driver that follows an entry reads the file or folder it stands for,   *)
(* every byte in its place, and comes to the end mark with the last one:    *)
(* the FAT that add_file wrote, the regions it mapped and the arithmetic of *)
(* xmp_read fit together, whatever was read before.                         *)
DriverSees ==
  Orderly /\ rpc = "idle" /\ target # NoEntry =>
    /\ ReplyTo(target, walked)
    /\ fat[cluster] = fat_end <=> walked = ClustersOf(target)

(* Every walk along a chain comes to its end. *)
WalksEnd == target # NoEntry ~> target = NoEntry
=============================================================================
