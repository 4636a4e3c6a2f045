# Verification of vsFat and BUSE

TLA+ modules that model the programs of this repository, TLC configurations that
check them on small instances, and theorems about them checked by the TLA+ proof
system. `vsfat` shows a folder of the host as a read-only FAT32 disk: it scans the
folder once, builds the FAT and the directories in memory, and then serves reads
through BUSE, a block device in user space on top of Linux's nbd driver.

Run a model with `tlc -config read_image.cfg MCXmpRead.tla`, a proof with
`tlapm FatFilesProofs.tla`. `PROJECT.json` lists runs, mutants, findings, hazards
and theorems, and for every definition the lines it models.

## Inventory

| Component | State | Operations | Interacts with | What makes it correct |
|---|---|---|---|---|
| disk layout (`address.c`, `setup.c`) | `bootentry`, `address_regions`, `mbr` | `address_from_*`, `fat_location`, `add_address_region`, `build_mbr`, `build_boot_sector`, `build_fats` | called by the builder; the regions are read by `xmp_read` | every region lies on the declared disk; regions do not overlap and ascend |
| image builder (`fatfiles.c`) | `fat`, `current_fat_position`, `Fat_Directory`s with their dirtables, `current_dir` | `add_file`, `dir_add_entry`, `fat_new_file`, `fat_find_free`, `up_dir` | called by the scan; adds regions | chains lead where the entries say, are not overwritten, directories are packed, entries are in the directory of their folder |
| folder scan (`vsfat.c`, `scan_folder`, `main`) | the recursion | read a name, recur, return | `add_file`, `up_dir` | `current_dir` follows the recursion |
| read service (`vsfat.c`, `xmp_read`) | `cachedFilePath`, `cachedFile` | `xmp_read`; `xmp_write`, `xmp_flush`, `xmp_trim`, `xmp_disc` do nothing | `address_regions`; the host's folder | every byte of a reply is the right one; copies stay in the buffer; reads return |
| BUSE (`buse.c`) | a socket pair, the child in `NBD_DO_IT`, the parent's loop | fork, read a request, call an operation, write a reply | the nbd driver; the operations | both ends stay in step; the device is linearizable; requests and processes end |
| memory disk (`busexmp.c`) | `data` | read, write | called by BUSE | part of the linearizable device |
| loopback (`loopback.c`) | another device | read, write | called by BUSE | not modelled (see below) |
| short names (`utils.c`) | the list `files` of a directory | `format_name_83`, `updateSFN`, `file_exists`, `fn_checksum` | called by `add_file` | tilded names are unique; a driver puts the long names together again; the search ends |
| `bs_print.c`, `tests.c` | none | printing; a hard-coded image that is never built | | not modelled |

What is hard here:

* **Sequences.** The builder is one thread, but it *predicts* the first cluster of a
  file before it adds the directory entry that may itself take a cluster, and it
  relies on there being no gaps in the FAT. Whether this is right depends on the
  whole sequence of names before.
* **Order of the regions.** `xmp_read` goes over them once. It is right only for
  regions in ascending order, which nobody sorts.
* **Arithmetic of a read.** Beginnings, ends and lengths in unsigned numbers, with
  comparisons that include the address behind a region.
* **Stale state.** The cached `FILE`, a failed `fopen` that is cached, files that leave
  the folder or are cut while reads are served.
* **Concurrency.** In BUSE, the parent, the child and two threads of the driver share a
  socket of finite size; a signal or a disconnect request comes at any moment.
* **Numbers at their edge.** Short names are numbered by rounds that change the stem they
  work on, move the tilde once, and store digits in bytes.
* **Partial failures.** The results of `dir_add_entry`, `fat_new_file`,
  `fat_find_free`, `stat`, `fseek` and `fread` are not looked at.

## Modules

| Module | Models |
|---|---|
| `FatLayout` | constants of the boot sector, address arithmetic, the regions of `setup.c`, the size of the disk. No state; used by the next two. |
| `FatFiles` | building the image. One action per step of `add_file`: `AddFile`/`AddFolder` (a name is read), `AddLfnEntry`, `PickFilePosition`, `AddShortEntry`, `fat_new_file` or `EnterFolder`, `AddDot`, `AddDotDot`; then `up_dir` and `Launch`. `dir_stack` is the chain of `parent` pointers from `current_dir`, `scan_stack` is the recursion of `scan_folder`: two variables, for the code lets them diverge. `events` is a history variable: what the code let pass in silence. |
| `XmpRead` | `xmp_read`, one action per way a round of its loop can go: `Skip`, `CopyMemory`, `ReadFile`, `MissFile`, `Return`. A byte is named by what it is a byte of. `FileGone` and `FileBack` are the host's. |
| `BlockDevice` | abstract: a device on which every request takes effect at one moment between its submission and its answer. |
| `Buse` | `buse_main` with the nbd driver as its environment: the setup of the device up to the fork (`Setup`), the child (`SetSock`, `ClearQueue`, `Interrupt`), the driver's sender and receiver, the parent's loop, one action per `case` and per `write_all`. Implements `BlockDevice` (`LinearDevice`). |
| `ShortNames` | the names of one directory, on bytes: `format_name_83` as operators (`lfn_required`, `Stem`, `Extension`) and, for a name that does not fit, its loop as actions (`AddLong`, `TryNext`, `Found`) on the stem that `updateSFN` changes in place; the list `files`; the LFN entries with numbers, flag and checksum. |
| `Vsfat` | the program as a whole: `Build` (a step of `FatFiles`), then `ServeRead` (a step of `XmpRead`, instantiated on the regions and dirtables just built) and a driver that opens an entry and follows its clusters through the FAT (`OpenEntry`, `FollowChain`, `EndOfChain`). |
| `MCFatFiles`, `MCXmpRead`, `MCBuse`, `MCShortNames`, `MCVsfat` | values for the runs |
| `FatFilesProofs`, `FatFilesSafety`, `FatFilesDirs` | theorems about `FatFiles`: types, the FAT and the regions, directories and files; each extends the one before |
| `VsfatProofs` | theorems about `Vsfat`, the builder, the reads and the driver together, and those about `FatFiles` that reach over the end of the FAT |
| `XmpReadProofs`, `ShortNamesProofs` | theorems about `XmpRead` and `ShortNames` |
| `BuseProofs`, `BuseSafety` | theorems about `Buse`: its invariant; what follows from it, the refinement of `BlockDevice` included |

Abstractions: in `FatFiles` a name is its number, and any number of LFN entries of
`LfnCounts` may come with it; what names do to each other is in `ShortNames`, which
has one directory, for the list `files` is per directory, and neither clusters nor
folders. The lengths 8, 3, 10, 13 and 20 are constants there. `Vsfat` leaves the
exported folder alone while it is read; `XmpRead` by itself has it changing. `FatWords`
has the zeroed words behind the FAT that `malloc` leaves (`FatSlack`), because
`fat_find_free` may hand out the cluster at its end. `free` in `up_dir` leaves the
memory as it was. A header or a block of data is one item of a socket's stream in
`Buse`. Partial reads of data and partial writes are what `read_all` and `write_all` are
for; the header of a request is read by a bare `read`, and when that returns a part of it the
assertion on its length ends the parent (`ReadShortHeader`). So does the one on the
open of the device after the fork (`OpenDevice`). The driver is modelled from how the code uses it: it sends requests, matches replies by
handle, expects data only after a reply without error, and gives up when it finds
something else.

## Runs

Runs that pass:

| Run | Shows | Bounds |
|---|---|---|
| `fat_build` | every image is sound while no prediction failed and the FAT had room (`Orderly`): `RegionsAscending`, `RegionsOnDisk`, `FilesReadable`, `DirsReadable`, `LinksStable`, `DotsNamed` (the dot entries, but for parents that are the root or had grown); files of the FAT that can be read stay so also when it is full (`FilesKept`); always `DirectoriesPacked` and `PredictedInside`; while no directory was full, `TreeKept` and `LfnsComplete` (the LFN entries of a name are all there, numbered down to 1, with nothing in between) | clusters of four entries, so that a name with three LFN entries fills one and every alignment occurs; four names in folders three deep; directories of 12 entries, so that one can be full; a FAT of 16 words with slack behind it, and files of one, four and thirteen clusters: the last fills the FAT but for the root directory, so that what follows goes behind it; dot entries are cut at 8, so that the masks bind |
| `vsfat_disk` | names with exactly one LFN entry never lead to a wrong prediction or a gap (`PositionsPredicted`, `NoFragmentation`); a driver that follows the clusters of an entry reads the bytes of its file or folder, each in its place (`DriverSees`), and comes to the end (`WalksEnd`) | four names in folders two deep, two entries to a name and four to a cluster, so that a directory grows with its second or third name; files of one and two clusters (that the FAT fills up is left to `fat_build`); entries are read one after the other without end |
| `short_names` | `ShortNamesApart`, `NamesSeen`, `NamesAreFound` | up to four of eleven names in any order, chosen to collide in every way the code distinguishes; stems of four characters and numbers in base 2, so that the second name of a kind meets the character behind the last digit and moves the tilde, the third has two digits, and the fourth a tens digit that is none; LFN entries of two characters, so that a name has up to three |
| `read_image` | `CopyFits`, `ReplyRight`, `ReadsReturn` | all offsets, lengths from one to seven sectors (longer than any region and the gaps), a file of more than a cluster, an empty one and one cut after the scan; reads follow each other without end |
| `buse_memory` | `StreamAssertionsHold`, `StreamsInStep`, `BegunIsAnswered`, `LinearDevice`, `RequestsEnd`, `ParentEnds` | two overlapping writes, a read, a trim; sockets of two items, fewer than a request with its data, so that both sides block; a signal, a disconnect request, a failing open or a part of a header at any moment |

Runs that end in a counterexample, each a disagreement of the code with a comment or
the README that is quoted in `PROJECT.json`:

| Run | Shows |
|---|---|
| `fat_shared_cluster` | a file is mapped onto the cluster its directory has just taken: the short entry falls on the first slot behind an exactly full cluster, where `dir_entry_sectors_needed` finds a whole cluster free (`fatfiles.c:115`) and foresees none. Names with and without LFN entries meet this. Besides, `add_file` counts the LFN entries it has already added (`fatfiles.c:340`), so that a cluster may be foreseen that is not taken, which leaves a gap in the FAT |
| `fat_full_dir` | a folder that does not fit is scanned all the same, and the `up_dir` after it leaves its parent: later names of the parent are put into the grandparent |
| `fat_grown_parent` | the `..` entry of a folder names the last cluster of its parent; FAT32 has the first there, or 0 for the root |
| `read_setup_order` | a read over the FSInfo sector up to the backup boot sector, or over it, has zeros for FSInfo: the comparison includes the address behind the read, so one that merely ends there touches the backup too |
| `read_long_offset` | bytes of a file behind the largest `long` are wrong |
| `short_taken` | a name that spells the tilded form of an earlier one is taken without a look at the list: two entries have one short name |
| `buse_no_read` | without a read operation the error reply is followed by data, the driver gives up and other requests fail |

`Orderly` (no prediction failed, no cluster behind the FAT) is the condition under
which the builder's properties hold; `fat_shared_cluster` shows what happens otherwise, and
`PredictedInside` and `vsfat_disk` when predictions are right.

What is left of names without an LFN is said by the properties: a plain name with a stem
of nine or ten characters, or a period at its end, is cut (`Faithful`), so it is not
shown in full and may collide; `ShortNamesApart` lists the ways two names come to one
short name, and no tilded name is among the later of the two.

Deadlock is checked except in the runs of `Buse`, where both processes end.
`Serve` in `FatFiles` stands for `buse_main`, which does not touch the image.

**Fairness.** `ShortNames!FairSpec` asks that the loop of `format_name_83` goes on, once it
has begun; `NamesAreFound` is about directories with fewer names than there are stems
with two digits (2560), for with all of them taken the loop is endless: the result of
`updateSFN` is not looked at. `Vsfat!FairVSpec` asks of the scanning thread, the
serving thread and a driver that is within a file that they go on; the driver need not
open one. `XmpRead!FairSpec` asks of the thread that is in `xmp_read` that it goes
on; nothing of the host, and not that reads come. `Buse!Spec` has weak fairness for
each of the four threads (child, sender, receiver, parent): each is a loop of blocking
calls that return once they can. Submissions, signals and disconnect requests are not
fair: they may never come.

## Proofs

Everything below holds for every value of the constants that satisfies the named
assumptions of the modules, so for every geometry, folder, read, set of requests and
size of a socket; hypotheses beyond those are named with the theorem.

### The builder

`FatFilesProofs` proves type correctness of the builder for every geometry that
satisfies `LayoutAssumption` and `FatFilesAssumption` and every folder
(`TypeCorrect`, `TypeSafe`). `TypeOK` alone is not inductive: that clusters are never
below 2, which `address_from_fatclus` needs to stay a natural number, is added to it.

`FatFilesSafety` proves `RegionsAscend` and `LinksAreStable`. Neither is
inductive. The invariant is a *frontier* (`FrontierInv`): while images are orderly
there is a cluster `hi` such that exactly the clusters below it are allocated, all
regions end at or below it, the last clusters of open directories lie below it, and
`current_fat_position` has not passed it; while `add_file` is between its prediction
and the chain, the file's cluster is `hi` or the frontier is just behind it. Every
allocation moves `hi` up, so a new region lies above all others and a link is only
written where an end mark or a zero was. `FrontierCorrect` is the result, `FrontierStep` the
step, with one lemma per action.

`FatFilesDirs` is about what is in the directories. `Placed` says where a round of
`dir_add_entry` puts its entry, whichever of its three ways it takes (`EntryPlaced`), and
the rest is argued from there.

* `PackedCorrect` (`DirectoriesPacked`), by `PackedInv`: entries stand side by side, and no
  dirtable is in the list of two open directories.
* `PredictsInside` (`PredictedInside`): the prediction made of a position is compared with
  what the same position takes.
* `TreeCorrect` (`TreeKept`), by `TreeInv`: the chain of `parent` pointers has the folders of
  the recursion, one for one, but for the directory whose `..` is still to come.
* `RegionsStayOnDisk` (`RegionsOnDisk`), for at least as many sectors per cluster as FATs
  (`FatsFit`): the sum in `build_boot_sector` counts the one for the other (`setup.c:112`).
  With one sector per cluster, which `README.md:44` lists, it comes out smaller than
  the FATs and the data together, and the last clusters lie behind the declared end.
* `FilesCorrect` (`FilesReadable`), by `FilesInv`: a file's chain and region stay, and no
  directory ends in the chain, from where it would be linked on. It needs to know which
  entries may have the name that is being added (`NamesInv`): up to `fat_new_file`, none but
  LFN entries and the one it is about to complete.
* `DotsCorrect` (`DotsNamed`), by `PlacesInv`: an open directory lists its dirtables in
  the order of their `malloc`, each is mapped by one region, the last at the cluster that
  `dir_location` says, and the entry of the folder at hand stands in the last dirtable of
  the directory above, which does not grow until the folder is left. `OwnDots` adds that the
  `.` entry was made of the cluster in the entry of the folder. That `..` names the parent's
  *first* cluster holds only where the last is the first (`fat_grown_parent`).
* `DirsCorrect` (`DirsReadable`), by `FirstNamed` and `Chained`: a folder's entry names the
  cluster of its first dirtable, and each word of the FAT leads on to the next. That a
  link written for one directory spoils none of another needs that no two dirtables share
  a cluster (`ClustersApart`), which follows from the order of the regions.
* `LfnsCorrect` (`LfnsComplete`), by `LfnsFollowed`: an LFN entry is followed by the one with
  the next lower number, the one with number 1 by the short entry of its name, or it is the
  last entry of the current directory and the next one is at hand; and by `LfnsAdded`: the
  numbers that `add_file` is through with are in the directory, for no slot that is used
  is written again (`UsedStays`).

`VsfatProofs` follows the frontier to the end of the FAT and over it (`EndInv`): once it is
there, directories and files may lie anywhere behind, but nothing that is written then
is inside. From this, without the condition that the FAT had room:

* `FilesAreKept` (`FilesKept`): a file of the FAT that can be read is kept by every step. The
  proof failed at first for a reason: of the files *behind* the end it is false, for two of
  them get the same words. The property says now which files it is about (`InFat`), and
  `fat_build` has a file size with which they occur.
* `PredictionsCorrect` (`PositionsPredicted`) and `NoHoles` (`NoFragmentation`), where every
  name takes one LFN entry and a cluster an even number of entries (`OneLfn`, as in
  `vsfat_disk`): entries come in pairs (`InPairs`), so no short entry is the first of a
  cluster.

The program as a whole implements the builder (`ImageAsBuilt`, `VSpec => Spec`), so
that what is proved of `FatFiles` holds of the image that is read: `ServedRegionsAscend`
is what `xmp_read` relies on.

### Reads

`XmpReadProofs` proves `ReadTypeCorrect`, `CopiesFit` and `RepliesRight`.
`CopiesFit` needs no order of regions: `memcpy` stays inside the buffer whatever was
mapped. `RepliesRight` needs files no longer than a `long` can address
(`FilesWithinLong`; `read_long_offset` shows why) and follows from the loop's
invariant: what is already passed of the buffer is right (`Written`), what is not
is still zero, and no region before `a` has an address that is still to come, unless
its file could not be opened (`Passed`).

### The whole program

`DriverReads` proves `DriverSees`: a driver that follows an entry through the FAT reads every
byte of the file or folder it stands for, in its place, and comes to the end mark with the
last one. As in `FilesReadable`, that is while predictions were right and the FAT had room
(`Orderly`), and the folder is left alone meanwhile, as `Vsfat` has it; else it holds for
every geometry and folder, and for walks in any order and number. `VsfatProofs` has a second
instance of the reads, `Served`, which comes with the theorems of `XmpReadProofs`, and shows
that what those assume is so here (`ServedRead`, `ServedLong`). The argument has four parts.

* *The image* (`ImageInv`, `ImageCorrect`): the invariants of the builder in one, with what
  reads need besides. Regions behind `setup.c`'s are dirtables and files in the data area
  (`RegionsShaped`), and a folder that has an entry has a dirtable (`FoldersBegun`), the
  exported one at the cluster where a driver looks for it (`RootAtStart`).
* *What is handed over*: in good order, its regions are a layout `RepliesRight` is about
  (`LayoutServed`, files fit the data area), and a read of a cluster meets them in ascending
  order (`ReadInOrder`), although `setup.c` does not map its own that way.
* *The walk* (`Walk`): after n clusters of a file the driver is at the n-th of its chain; of
  a folder, at the cluster of the dirtable up to which there are n. It begins so
  (`WalkBegins`), the word of the FAT leads on (`WalkGoesOn`), and it is the end mark just
  at the last one (`WalkAtEnd`). A folder has fewer dirtables than the FAT has clusters
  (`TablesFewer`, no two share one), so the bound on the count is never met.
* *The reads* (`ServeInv`, `ServeStep`): the reader is untouched until the image is complete;
  from then on the invariant of `xmp_read`'s loop holds, the last request is for the cluster
  the driver is at, no file is missed, and a file that is remembered as open is open.

`DriverSees` is about `rpc = "idle"`, after a reply; it is not inductive, for it says nothing
of a read that has begun, nor of the clusters still to come. TLC has found no state of
`vsfat_disk`, with three names, in which `ServeInv` fails.

`ProgramReads` is the part of it about `xmp_read` alone, for any read the driver makes.
`WalksAdvance` is the part of `WalksEnd` that is no liveness: every step along a chain is the
next of the clusters the entry has, so that none goes in a circle or on into another file.

### Names

`ShortNamesProofs` is about stems, extensions and pieces of names of any length, any base
and any folder whose names fit into the LFN entries there are. `NamesApart` proves
`ShortNamesApart`. Its invariant (`NamesCorrect`) says what each node of the list is
(`ShortsRight`): the plain form of its name, or a tilded one that no earlier node has. A
name of one plain form keeps its stem and its extension in full unless it is cut, so
two plain names with one short name differ in what was cut (`PlainApart`). That the
tilde and its digits stay inside the stem (`TildedType`) needs that the tilde has moved
by the time there are two digits, which is in the invariant too.

`NamesAreSeen` proves `NamesSeen`, and `TypeCorrect` the type invariant, by the invariant of the
directory (`Shown`): it ends with a short entry, has one for every name in the list, and
the name is read from it. Entries that come behind do not change that (`SeenBefore`), for a
driver reads backwards and stops at the first flag (`OneRun`). What is new is read as the
name because the pieces of a long one, numbered from the short entry, follow each other
without a gap up to its length (`LongSeen`), and because the spaces of a plain one's short
form are all behind its characters (`PlainSeen`); a plain one has no LFN entry in front,
since the entry before it is a short one. The checksum is a recursion over the
characters; that it gives a byte (`ChecksumByte`) is proved from a least counterexample
(`NoLeast`), and that a driver finds it right is that both ends compute the same function.

### BUSE

`BuseProofs` proves the invariant of `Buse` (`Invariant`, with `TypeCorrect`), `BuseSafety`
what follows. Nothing in it bounds requests, blocks or sockets; `BuseAssumption` says
what a request is (a write has as many values as blocks, the others none). The
invariant says of both directions of the socket what they hold: what goes down is
requests, each write followed by its data, cut where the parent stands (`DownInStep`); what
comes up is replies to requests that wait, each successful read followed by its data,
cut where the receiver stands (`UpInStep`); and every request is in one place, from the
sender over the stream and the parent to the answer.

* `StreamsCorrect` (`StreamsInStep`), `StreamAssertionsCorrect` (`StreamAssertionsHold`), with a read
  operation (`HasRead`): without one the data behind an error puts the streams out of
  step, which `buse_no_read` shows. The assertions are those on the magic number, in `read_all`
  and in `write_all`; those on the open after the fork (`buse.c:166`) and on the length of
  a header (`buse.c:177`) are at the mercy of what is outside and may fail at any time
  (`Failed`).
* `BegunCorrect` (`BegunIsAnswered`), with read and write operations: a disconnect request
  is behind all that was begun, and the child receives what the parent wrote before it
  lets go. A signal may take the child away, and a failed open or part of a header the
  parent; these are excepted.
* `BuseIsADevice` (`LinearDevice`): every step of `Buse` is one of `BlockDevice` under the
  refinement mapping, or leaves what is seen of it alone. The effect of a write is the
  parent's call, that of a read too, and what comes up the stream is the effect; this
  needs no hypothesis on the operations.

### Only model-checked

Liveness (`ReadsReturn`, `RequestsEnd`, `ParentEnds`, `NamesAreFound`, `WalksEnd`), which the
prover cannot do; of `WalksEnd` it checks that there is an end to come to (`WalksAdvance`).
Every invariant and every other action property that a passing run checks is also a theorem.
The runs that expect a violation are counterexamples, which need no proof.

## Plan

In the order of importance; all of it is done.

1. `FatLayout`, `FatFiles`: the builder, with its type and safety proofs.
2. `XmpRead`: reads, with proofs.
3. `BlockDevice`, `Buse`: the device and its refinement.
4. The counterexamples above.
5. `Vsfat`: the builder, the reads and a driver together.
6. `ShortNames`: the names of a directory, with proofs.
7. Proofs about directories and files, about the end of the FAT, and of `Buse`.
8. The proof of `DriverSees`, which joins the proofs about the builder and the reads.

## Not modelled

* `loopback.c`: it passes NULL for `userdata`, which `buse_main` dereferences at the first
  read or write, so none of its operations is reached in an orderly way. Apart from that
  it is the memory disk on another device.
* The order of the system calls of `buse_main` before its fork: each ends the program when
  it fails, and nothing else happens yet, so they are one step (`Setup`).
* `bs_print.c`, `printBootSect` and the debug output: they print.
* `tests.c`: a fixed image that nothing calls and the Makefile does not build.
* The bytes of the boot code and the volume label, the attributes and the upper half of the
  cluster number in an entry, UTF-16: no property needs them.
* An empty exported folder: its root cluster stays free in the FAT and is not mapped
  (`build_root_dir`, `setup.c:37`), so a driver has no directory to read and `Vsfat` has
  it open none.
