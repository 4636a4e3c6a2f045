------------------------------- MODULE XmpRead -------------------------------
(***************************************************************************)
(* Serving reads: xmp_read (vsfat.c) fills a buffer from the mapped        *)
(* address regions, in one pass over their array.  A region is a buffer in *)
(* memory or a file of the exported folder, of which the last one read     *)
(* stays open.  The folder belongs to the host: its files come and go      *)
(* while reads are served.                                                 *)
(*                                                                         *)
(* A byte is named by what it is a byte of.  cachedRegion is never set in  *)
(* the code and is left out.  Regions are shorter than 2^32 bytes, so the  *)
(* conversions to uint32_t in xmp_read lose nothing.                       *)
(***************************************************************************)
EXTENDS FatLayout, FiniteSets

CONSTANTS
  Layouts,      (* the address_regions main may have set up               *)
  Requests,     (* the reads buse_main may ask for                        *)
  file_size,    (* of each file, its size when it is read                 *)
  LongMax       (* the largest long: 2^31 - 1 where the build is 32-bit   *)

Files == DOMAIN file_size

Request(offset, len) == [offset |-> offset, len |-> len]

(* What add_address_region is called with: a buffer or a file.             *)
MappedRegions ==
  {r \in AddressRegions : IF r.mem_pointer = NoPointer
                          THEN r.file_path \in Files ELSE r.file_path = 0}

(* What main has mapped, and what buse_main may ask for. *)
ASSUME XmpReadAssumption ==
  /\ Layouts \subseteq Seq(MappedRegions)
  /\ Requests \subseteq [offset : Nat, len : Nat]
  /\ file_size \in [Files -> Nat]
  /\ Files \subseteq Nat \ {0}
  /\ LongMax \in Nat

VARIABLES
  address_regions,
  present,          (* external: the files that fopen would open          *)
  cachedFilePath,   (* 0 is NULL                                          *)
  cachedFile,       (* 0 is NULL; otherwise the file the FILE reads       *)
  file_position,    (* of that FILE                                       *)
  open_files,       (* external: FILEs opened and not closed              *)
  pc,
  request,          (* the arguments of xmp_read ...                      *)
  a, len, offset,   (* ... and its locals; the pointer buf is always      *)
                    (* offset - request.offset bytes into the buffer      *)
  buf,              (* the buffer                                         *)
  missing           (* history: files this call could not read            *)

cache == << cachedFilePath, cachedFile, file_position, open_files >>
locals == << a, len, offset, buf >>
vars == << address_regions, present, cache, pc, request, locals, missing >>

Zero == << "zero", 0 >>
MemoryByte(p, i) == << "memory", p, i >>
FileByte(f, i) == << "file", f, i >>

Region == address_regions[a]

filled == offset - request.offset

Init ==
  /\ address_regions \in Layouts
  /\ present = Files
  /\ cachedFilePath = 0
  /\ cachedFile = 0
  /\ file_position = 0
  /\ open_files = 0
  /\ pc = "idle"
  /\ request = Request(0, 0)
  /\ a = 1
  /\ len = 0
  /\ offset = 0
  /\ buf = << >>
  /\ missing = {}

(* buse_main calls xmp_read with a buffer of the length asked for. *)
xmp_read(r) ==
  /\ pc = "idle"
  /\ request' = r
  /\ a' = 1
  /\ len' = r.len
  /\ offset' = r.offset
  /\ buf' = [i \in 0 .. r.len - 1 |-> Zero]
  /\ missing' = {}
  /\ pc' = "scan"
  /\ UNCHANGED << address_regions, present, cache >>

Read == \E r \in Requests : xmp_read(r)

InLoop == pc = "scan" /\ a <= Len(address_regions) /\ len > 0

(* Mutant: a read that begins in a region and ends behind it is not seen. *)
TouchedAtEnd ==
  \/ /\ offset + len >= Region.base
     /\ offset + len <= Region.base + Region.length
  \/ offset <= Region.base /\ offset + len >= Region.base + Region.length

(* The beginning of the read is inside the region, or its end is, or all   *)
(* of the region is inside the read.                                       *)
Touched ==
  \/ offset >= Region.base /\ offset <= Region.base + Region.length
  \/ /\ offset + len >= Region.base
     /\ offset + len <= Region.base + Region.length
  \/ offset <= Region.base /\ offset + len >= Region.base + Region.length

usetarget == IF offset < Region.base THEN Region.base - offset ELSE 0

usepos == IF offset < Region.base THEN 0 ELSE offset - Region.base

Least(x, y) == IF x < y THEN x ELSE y

(* Mutant: a read that ends inside the region is given the whole region. *)
uselen_to_end == Least(len, Region.length - usepos)

uselen ==
  LET asked == IF Region.base + Region.length >= offset + len
               THEN offset + len - Region.base ELSE len
  IN  Least(Least(asked, Region.length - usepos), len)

Skip ==
  /\ InLoop
  /\ ~Touched
  /\ a' = a + 1
  /\ UNCHANGED << address_regions, present, cache, pc, request, len, offset, buf, missing >>

(* The bytes the region has for the read are written from usetarget on; the *)
(* buffer is left alone where bytes[k] is Zero, for there fread has none.   *)
Fill(bytes) ==
  /\ buf' = [i \in DOMAIN buf |->
               LET k == i - filled - usetarget
               IN  IF k \in 0 .. uselen - 1 /\ bytes[k] # Zero THEN bytes[k] ELSE buf[i]]
  /\ len' = len - (uselen + usetarget)
  /\ offset' = offset + uselen + usetarget
  /\ a' = a + 1

CopyMemory ==
  /\ InLoop
  /\ Touched
  /\ Region.mem_pointer # NoPointer
  /\ Fill([k \in 0 .. uselen - 1 |-> MemoryByte(Region.mem_pointer, usepos + k)])
  /\ UNCHANGED << address_regions, present, cache, pc, request, missing >>

(* Mutant: any open FILE is taken for the region's. *)
IsCachedOrOpen == cachedFilePath = Region.file_path \/ cachedFile # 0

IsCached == cachedFilePath = Region.file_path

(* The FILE to read, 0 where fopen fails.  A failed fopen is remembered as *)
(* the cached file, too.                                                   *)
Opened ==
  IF IsCached THEN cachedFile
  ELSE IF Region.file_path \in present THEN Region.file_path ELSE 0

(* Mutant: the previous FILE stays open. *)
OpenFileKept ==
  /\ cachedFilePath' = IF IsCached THEN cachedFilePath ELSE Region.file_path
  /\ cachedFile' = Opened
  /\ open_files' = open_files + (IF ~IsCached /\ Opened # 0 THEN 1 ELSE 0)

OpenFile ==
  /\ cachedFilePath' = IF IsCached THEN cachedFilePath ELSE Region.file_path
  /\ cachedFile' = Opened
  /\ open_files' = IF IsCached THEN open_files
                   ELSE open_files - (IF cachedFile # 0 THEN 1 ELSE 0)
                                   + (IF Opened # 0 THEN 1 ELSE 0)

(* Where the FILE stands after fseek, which fails for a negative long.     *)
Seek == IF usepos <= LongMax THEN usepos
        ELSE IF IsCached THEN file_position ELSE 0

ReadFile ==
  /\ InLoop
  /\ Touched
  /\ Region.mem_pointer = NoPointer
  /\ Opened # 0
  /\ OpenFile
  /\ LET size == file_size[Opened]
     IN  /\ Fill([k \in 0 .. uselen - 1 |->
                    IF Seek + k < size THEN FileByte(Opened, Seek + k) ELSE Zero])
         /\ file_position' = IF Seek + uselen <= size THEN Seek + uselen
                             ELSE IF Seek <= size THEN size ELSE Seek
  /\ UNCHANGED << address_regions, present, pc, request, missing >>

(* Mutant: the loop comes back to a region whose file it cannot open. *)
MissFileAgain ==
  /\ InLoop
  /\ Touched
  /\ Region.mem_pointer = NoPointer
  /\ Opened = 0
  /\ OpenFile
  /\ missing' = missing \cup {Region.file_path}
  /\ UNCHANGED << address_regions, present, file_position, pc, request, locals >>

(* Without a FILE the region is passed over, the read does not advance.    *)
MissFile ==
  /\ InLoop
  /\ Touched
  /\ Region.mem_pointer = NoPointer
  /\ Opened = 0
  /\ OpenFile
  /\ missing' = missing \cup {Region.file_path}
  /\ a' = a + 1
  /\ UNCHANGED << address_regions, present, file_position, pc, request, len, offset, buf >>

(* The rest is filled with zeros and the call returns; its locals are gone. *)
Return ==
  /\ pc = "scan"
  /\ a > Len(address_regions) \/ len = 0
  /\ buf' = [i \in DOMAIN buf |-> IF i >= filled THEN Zero ELSE buf[i]]
  /\ pc' = "idle"
  /\ a' = 1
  /\ len' = 0
  /\ offset' = 0
  /\ UNCHANGED << address_regions, present, cache, request, missing >>

(* A file leaves the folder, or one of its name is back. *)
FileGone ==
  /\ \E f \in present : present' = present \ {f}
  /\ UNCHANGED << address_regions, cache, pc, request, locals, missing >>

FileBack ==
  /\ \E f \in Files \ present : present' = present \cup {f}
  /\ UNCHANGED << address_regions, cache, pc, request, locals, missing >>

Loop == Skip \/ CopyMemory \/ ReadFile \/ MissFile \/ Return

Next == Read \/ Skip \/ CopyMemory \/ ReadFile \/ MissFile \/ Return \/ FileGone \/ FileBack

Spec == Init /\ [][Next]_vars

(* A thread that is in xmp_read goes on. *)
FairSpec == Spec /\ WF_vars(Loop)
-----------------------------------------------------------------------------
(* Properties *)

Bytes == {Zero}
         \cup {MemoryByte(p, i) : p \in Pointers, i \in Nat}
         \cup {FileByte(f, i) : f \in Files, i \in Nat}

(* Every variable has its type, and the read goes on where it got to. *)
TypeOK ==
  /\ address_regions \in Seq(MappedRegions)
  /\ present \subseteq Files
  /\ cachedFilePath \in Files \cup {0}
  /\ cachedFile \in {0, cachedFilePath}
  /\ file_position \in Nat
  /\ open_files = IF cachedFile = 0 THEN 0 ELSE 1
  /\ pc \in {"idle", "scan"}
  /\ request \in [offset : Nat, len : Nat]
  /\ a \in Nat \ {0}
  /\ len \in Nat
  /\ offset \in Nat
  /\ pc = "scan" => /\ offset >= request.offset
                    /\ offset + len = request.offset + request.len
  /\ DOMAIN buf = 0 .. request.len - 1
  /\ missing \subseteq Files

RegionEnd(r) == address_regions[r].base + address_regions[r].length

Covers(r, address) == address_regions[r].base <= address /\ address < RegionEnd(r)

(* What is copied lies within the buffer and within the region.             *)
CopyFits ==
  InLoop /\ Touched => /\ uselen >= 0
                       /\ usetarget + uselen <= len
                       /\ usepos + uselen <= Region.length

(* The regions with an address in common with the read, or next to it.     *)
Touches(r) ==
  /\ address_regions[r].base <= request.offset + request.len
  /\ request.offset <= RegionEnd(r)

(* Those regions are in ascending order and do not overlap.                *)
InOrder ==
  \A r, s \in DOMAIN address_regions :
    r < s /\ Touches(r) /\ Touches(s) => RegionEnd(r) <= address_regions[s].base

(* The byte that belongs at a position of the region. *)
ByteAt(r, i) ==
  IF address_regions[r].mem_pointer # NoPointer
  THEN MemoryByte(address_regions[r].mem_pointer, i)
  ELSE IF i < file_size[address_regions[r].file_path]
  THEN FileByte(address_regions[r].file_path, i)
  ELSE Zero

Lost(r) ==
  /\ address_regions[r].mem_pointer = NoPointer
  /\ address_regions[r].file_path \in missing

(* The i-th byte of the buffer is the one of the region that covers its    *)
(* address, or zero when there is none or its file could not be opened.    *)
ByteRight(i) ==
  LET address == request.offset + i IN
  /\ \A r \in DOMAIN address_regions :
       Covers(r, address) =>
         \/ buf[i] = ByteAt(r, address - address_regions[r].base)
         \/ Lost(r) /\ buf[i] = Zero
  /\ (\A r \in DOMAIN address_regions : ~Covers(r, address)) => buf[i] = Zero

(* Every byte of a reply is right, for a read whose regions are in order:  *)
(* whatever regions it begins and ends in or spans, whatever was read      *)
(* before it, and whatever happens to the folder meanwhile.                *)
ReplyRight ==
  pc = "idle" /\ InOrder => \A i \in 0 .. request.len - 1 : ByteRight(i)

(* Every read returns, with files coming and going. *)
ReadsReturn == pc = "scan" ~> pc = "idle"

(* What the code says when it fills the rest with zeros: the mapped areas   *)
(* are used up, so no byte in memory is replaced by a zero.                 *)
MappedAreasUsedUp ==
  pc = "idle" =>
    \A i \in 0 .. request.len - 1 : \A r \in DOMAIN address_regions :
      Covers(r, request.offset + i) /\ address_regions[r].mem_pointer # NoPointer
        => buf[i] # Zero

(* The bytes of a file, up to the largest the file system can hold, are     *)
(* those of the file, in their place.                                       *)
FileBytesInPlace ==
  pc = "idle" /\ InOrder =>
    \A i \in 0 .. request.len - 1 : \A r \in DOMAIN address_regions :
      /\ Covers(r, request.offset + i)
      /\ address_regions[r].mem_pointer = NoPointer
      /\ ~Lost(r)
      => buf[i] = ByteAt(r, request.offset + i - address_regions[r].base)
=============================================================================
