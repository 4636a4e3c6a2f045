---------------------------- MODULE XmpReadProofs ----------------------------
(***************************************************************************)
(* Proofs about XmpRead for every layout of regions and every request.     *)
(* The invariant of the loop: the buffer is right up to offset and zero    *)
(* from there on, and no region the loop has passed covers a byte that is  *)
(* still to come, unless its file could not be opened.                     *)
(***************************************************************************)
EXTENDS XmpRead, SequenceTheorems, TLAPS

(* Every file of a layout can be reached with a long. *)
FilesWithinLong ==
  \A l \in Layouts : \A r \in DOMAIN l :
    l[r].mem_pointer = NoPointer => l[r].length <= LongMax

Written ==
  \A i \in 0 .. request.len - 1 :
    IF i < filled THEN ByteRight(i) ELSE buf[i] = Zero

Apart(r) == \/ len = 0
            \/ RegionEnd(r) <= offset
            \/ offset + len <= address_regions[r].base

Passed == \A r \in DOMAIN address_regions : r < a => Lost(r) \/ Apart(r)

LoopInv ==
  /\ TypeOK
  /\ address_regions \in Layouts
  /\ pc = "scan" /\ InOrder => Written /\ Passed
  /\ ReplyRight

-----------------------------------------------------------------------------
(* The regions, with the types of their parts. *)
LEMMA RegionTypes ==
  ASSUME TypeOK
  PROVE  /\ Len(address_regions) \in Nat
         /\ DOMAIN address_regions = 1 .. Len(address_regions)
         /\ \A r \in DOMAIN address_regions :
              /\ address_regions[r] \in MappedRegions
              /\ address_regions[r].base \in Nat
              /\ address_regions[r].length \in Nat
              /\ RegionEnd(r) = address_regions[r].base + address_regions[r].length
              /\ address_regions[r].mem_pointer = NoPointer
                   => address_regions[r].file_path \in Files
<1>1. address_regions \in Seq(MappedRegions)
  BY DEF TypeOK
<1>2. Len(address_regions) \in Nat /\ DOMAIN address_regions = 1 .. Len(address_regions)
  BY <1>1, LenProperties
<1>3. \A r \in DOMAIN address_regions : address_regions[r] \in MappedRegions
  BY <1>1, <1>2, ElementOfSeq
<1>4. \A x \in MappedRegions : /\ x.base \in Nat
                               /\ x.length \in Nat
                               /\ x.mem_pointer = NoPointer => x.file_path \in Files
  BY DEF MappedRegions, AddressRegions
<1> QED
  BY <1>2, <1>3, <1>4 DEF RegionEnd

(* What the code computes for a region it touches: where the copy goes and *)
(* how long it is.  It begins where the region or the read begins, ends    *)
(* where the first of them ends, and stays within both.                    *)
LEMMA CopyBounds ==
  ASSUME TypeOK, InLoop, Touched
  PROVE  /\ a \in DOMAIN address_regions
         /\ usetarget \in Nat /\ usepos \in Nat /\ uselen \in Nat
         /\ offset + usetarget = Region.base + usepos
         /\ usetarget + uselen <= len
         /\ usepos + uselen <= Region.length
         /\ \/ offset + usetarget + uselen = Region.base + Region.length
            \/ usetarget + uselen = len
         /\ usetarget > 0 => offset < Region.base
         /\ usepos > 0 => usetarget = 0
<1>1. a \in DOMAIN address_regions
  BY RegionTypes DEF InLoop, TypeOK
<1>2. PICK b \in Nat, l \in Nat : b = Region.base /\ l = Region.length
  BY <1>1, RegionTypes DEF Region
<1>3. offset \in Nat /\ len \in Nat
  BY DEF TypeOK
<1>4. \/ offset >= b /\ offset <= b + l
      \/ offset + len >= b /\ offset + len <= b + l
      \/ offset <= b /\ offset + len >= b + l
  BY <1>2 DEF Touched
<1>5. usetarget = (IF offset < b THEN b - offset ELSE 0)
  BY <1>2 DEF usetarget
<1>6. usepos = (IF offset < b THEN 0 ELSE offset - b)
  BY <1>2 DEF usepos
<1>7. PICK asked : asked = IF b + l >= offset + len THEN offset + len - b ELSE len
  OBVIOUS
<1>8. asked \in Nat
  BY <1>2, <1>3, <1>4, <1>7
<1>9. uselen = Least(Least(asked, l - usepos), len)
  BY <1>2, <1>7 DEF uselen
<1>10. CASE offset < b
  BY <1>1, <1>2, <1>3, <1>4, <1>5, <1>6, <1>7, <1>8, <1>9, <1>10 DEF Least
<1>11. CASE offset >= b
  BY <1>1, <1>2, <1>3, <1>4, <1>5, <1>6, <1>7, <1>8, <1>9, <1>11 DEF Least
<1> QED
  BY <1>2, <1>3, <1>10, <1>11

(* A region that covers a byte of the request touches the request. *)
LEMMA CoversTouches ==
  ASSUME TypeOK, NEW r \in DOMAIN address_regions, NEW i \in 0 .. request.len - 1,
         Covers(r, request.offset + i)
  PROVE  Touches(r)
<1>1. request.offset \in Nat /\ request.len \in Nat
  BY DEF TypeOK
<1> QED
  BY <1>1, RegionTypes DEF Covers, Touches

(* So does a region that touches the part of it still to come. *)
LEMMA TouchedTouches ==
  ASSUME TypeOK, InLoop, Touched
  PROVE  Touches(a)
<1>1. request.offset \in Nat /\ request.len \in Nat /\ offset \in Nat /\ len \in Nat
  BY DEF TypeOK
<1>2. offset >= request.offset /\ offset + len = request.offset + request.len
  BY DEF InLoop, TypeOK
<1>3. a \in DOMAIN address_regions
  BY CopyBounds
<1> QED
  BY <1>1, <1>2, <1>3, RegionTypes DEF Touches, Touched, Region

-----------------------------------------------------------------------------
(* Type correctness *)

LEMMA RequestType == \A r \in Requests : r.offset \in Nat /\ r.len \in Nat
  BY XmpReadAssumption

(* The initial states are typed. *)
LEMMA ReadInit == Init => TypeOK /\ address_regions \in Layouts
<1> SUFFICES ASSUME Init PROVE TypeOK /\ address_regions \in Layouts
  OBVIOUS
<1>1. address_regions \in Seq(MappedRegions) /\ address_regions \in Layouts
  BY XmpReadAssumption DEF Init
<1>2. request \in [offset : Nat, len : Nat] /\ request.len = 0
  BY DEF Init, Request
<1>3. DOMAIN buf = 0 .. request.len - 1
  BY <1>2 DEF Init
<1> QED
  BY <1>1, <1>2, <1>3 DEF Init, TypeOK

(* The file that is opened for a region, and the record of it. *)
LEMMA OpenFileType ==
  ASSUME TypeOK, InLoop, Touched, Region.mem_pointer = NoPointer, OpenFile
  PROVE  /\ Region.file_path \in Files
         /\ Opened \in {0, Region.file_path}
         /\ cachedFilePath' \in Files \cup {0}
         /\ cachedFile' \in {0, cachedFilePath'}
         /\ open_files' = IF cachedFile' = 0 THEN 0 ELSE 1
<1>1. Region.file_path \in Files
  BY CopyBounds, RegionTypes DEF Region
<1>2. Opened \in {0, Region.file_path}
  BY DEF Opened, IsCached, TypeOK
<1>3. cachedFilePath' = Region.file_path /\ cachedFile' = Opened
  BY DEF OpenFile, IsCached
<1>4. CASE IsCached
  BY <1>1, <1>2, <1>3, <1>4 DEF OpenFile, IsCached, Opened, TypeOK
<1>5. CASE ~IsCached
  <2>1. open_files' = open_files - (IF cachedFile # 0 THEN 1 ELSE 0)
                                 + (IF Opened # 0 THEN 1 ELSE 0)
    BY <1>5 DEF OpenFile
  <2>2. open_files = IF cachedFile = 0 THEN 0 ELSE 1
    BY DEF TypeOK
  <2> QED
    BY <1>1, <1>2, <1>3, <2>1, <2>2
<1> QED
  BY <1>1, <1>2, <1>4, <1>5

(* The effect of a copy on the locals. *)
LEMMA FillType ==
  ASSUME TypeOK, InLoop, Touched, NEW bytes, Fill(bytes)
  PROVE  /\ a' \in Nat \ {0} /\ len' \in Nat /\ offset' \in Nat
         /\ offset' >= offset /\ offset' + len' = offset + len
         /\ DOMAIN buf' = DOMAIN buf
<1>1. a \in Nat /\ len \in Nat /\ offset \in Nat
  BY DEF TypeOK
<1>2. /\ usetarget \in Nat /\ uselen \in Nat
      /\ usetarget + uselen <= len
  BY CopyBounds
<1>3. /\ a' = a + 1
      /\ len' = len - (uselen + usetarget)
      /\ offset' = offset + uselen + usetarget
      /\ DOMAIN buf' = DOMAIN buf
  BY DEF Fill
<1> QED
  BY <1>1, <1>2, <1>3

(* Every step keeps the types. *)
LEMMA ReadTypeStep ==
  TypeOK /\ [Next]_vars => TypeOK'
<1> SUFFICES ASSUME TypeOK, [Next]_vars PROVE TypeOK'
  OBVIOUS
<1>1. CASE Read
  <2>1. PICK r \in Requests : xmp_read(r)
    BY <1>1 DEF Read
  <2>2. r \in [offset : Nat, len : Nat]
    BY XmpReadAssumption
  <2> QED
    BY <2>1, <2>2 DEF xmp_read, TypeOK, cache
<1>2. CASE Skip
  BY <1>2 DEF Skip, InLoop, TypeOK, cache
<1>3. CASE CopyMemory
  <2>1. /\ a' \in Nat \ {0} /\ len' \in Nat /\ offset' \in Nat
        /\ offset' >= offset /\ offset' + len' = offset + len
        /\ DOMAIN buf' = DOMAIN buf
    BY <1>3, FillType DEF CopyMemory
  <2>2. /\ pc = "scan"
        /\ UNCHANGED << address_regions, present, pc, request, missing >>
        /\ UNCHANGED << cachedFilePath, cachedFile, file_position, open_files >>
    BY <1>3 DEF CopyMemory, InLoop, cache
  <2>3. /\ offset' >= request'.offset
        /\ offset' + len' = request'.offset + request'.len
    <3>1. offset >= request.offset /\ offset + len = request.offset + request.len
      BY <2>2 DEF TypeOK
    <3>2. request.offset \in Nat /\ offset \in Nat
      BY DEF TypeOK
    <3> QED
      BY <2>1, <2>2, <3>1, <3>2
  <2>4. DOMAIN buf' = 0 .. request'.len - 1
    BY <2>1, <2>2 DEF TypeOK
  <2> QED
    BY <2>1, <2>2, <2>3, <2>4 DEF TypeOK
<1>4. CASE ReadFile
  <2>1. PICK bytes : Fill(bytes)
    BY <1>4 DEF ReadFile
  <2>2. /\ a' \in Nat \ {0} /\ len' \in Nat /\ offset' \in Nat
        /\ offset' >= offset /\ offset' + len' = offset + len
        /\ DOMAIN buf' = DOMAIN buf
    BY <1>4, <2>1, FillType DEF ReadFile
  <2>3. /\ Region.file_path \in Files
        /\ Opened \in {0, Region.file_path}
        /\ cachedFilePath' \in Files \cup {0}
        /\ cachedFile' \in {0, cachedFilePath'}
        /\ open_files' = IF cachedFile' = 0 THEN 0 ELSE 1
    BY <1>4, OpenFileType DEF ReadFile
  <2>4. pc = "scan" /\ UNCHANGED << address_regions, present, pc, request, missing >>
    BY <1>4 DEF ReadFile, InLoop
  <2>5. file_position' \in Nat
    <3>1. Opened \in Files
      BY <1>4, <2>3 DEF ReadFile
    <3>2. file_size[Opened] \in Nat
      BY <3>1, XmpReadAssumption
    <3>3. Seek \in Nat /\ uselen \in Nat
      BY <1>4, CopyBounds DEF Seek, TypeOK, ReadFile
    <3>4. file_position' \in {Seek + uselen, file_size[Opened], Seek}
      BY <1>4 DEF ReadFile
    <3> QED
      BY <3>2, <3>3, <3>4
  <2>6. /\ offset' >= request'.offset
        /\ offset' + len' = request'.offset + request'.len
    <3>1. offset >= request.offset /\ offset + len = request.offset + request.len
      BY <2>4 DEF TypeOK
    <3>2. request.offset \in Nat /\ offset \in Nat
      BY DEF TypeOK
    <3> QED
      BY <2>2, <2>4, <3>1, <3>2
  <2>7. DOMAIN buf' = 0 .. request'.len - 1
    BY <2>2, <2>4 DEF TypeOK
  <2> QED
    BY <2>2, <2>3, <2>4, <2>5, <2>6, <2>7 DEF TypeOK
<1>5. CASE MissFile
  <2>1. /\ Region.file_path \in Files
        /\ cachedFilePath' \in Files \cup {0}
        /\ cachedFile' \in {0, cachedFilePath'}
        /\ open_files' = IF cachedFile' = 0 THEN 0 ELSE 1
    BY <1>5, OpenFileType DEF MissFile
  <2> QED
    BY <1>5, <2>1 DEF MissFile, TypeOK
<1>6. CASE Return
  BY <1>6 DEF Return, TypeOK, cache
<1>7. CASE FileGone \/ FileBack
  BY <1>7 DEF FileGone, FileBack, TypeOK, cache, locals
<1>8. CASE UNCHANGED vars
  BY <1>8 DEF vars, TypeOK, cache, locals
<1> QED
  BY <1>1, <1>2, <1>3, <1>4, <1>5, <1>6, <1>7, <1>8 DEF Next

(* Type correctness, with what keeps the handle cache and the read's        *)
(* progress in order: one FILE is open or none, and what is done and what   *)
(* is left of the request make up all of it.                                *)
THEOREM ReadTypeCorrect == Spec => []TypeOK
<1>1. Init => TypeOK
  BY ReadInit
<1>2. TypeOK /\ [Next]_vars => TypeOK'
  BY ReadTypeStep
<1> QED
  BY <1>1, <1>2, PTL DEF Spec

(* memcpy and fread stay within the buffer that buse_main allocated, and    *)
(* memcpy within the mapped memory.                                         *)
THEOREM CopiesFit == Spec => []CopyFits
<1>1. TypeOK => CopyFits
  <2> SUFFICES ASSUME TypeOK, InLoop, Touched
               PROVE  /\ uselen >= 0
                      /\ usetarget + uselen <= len
                      /\ usepos + uselen <= Region.length
    BY DEF CopyFits
  <2> QED
    BY CopyBounds
<1> QED
  BY <1>1, ReadTypeCorrect, PTL

-----------------------------------------------------------------------------
(* Right replies *)

(* Two regions of the request that cover the same address are one.         *)
LEMMA OneCovers ==
  ASSUME TypeOK, InOrder, NEW r \in DOMAIN address_regions,
         NEW s \in DOMAIN address_regions, Touches(r), Touches(s),
         NEW x \in Nat, Covers(r, x), Covers(s, x)
  PROVE  r = s
<1>1. r \in Nat /\ s \in Nat
  BY RegionTypes
<1>2. \A i, j \in DOMAIN address_regions :
        i < j /\ Touches(i) /\ Touches(j) => RegionEnd(i) <= address_regions[j].base
  BY DEF InOrder
<1>3. ~(r < s) /\ ~(s < r)
  BY <1>2, RegionTypes DEF Covers
<1> QED
  BY <1>1, <1>3

(* The positions of a copy: the gap before the region keeps its zeros, the *)
(* region's bytes follow, and nothing behind them is written.              *)
LEMMA CopyPositions ==
  ASSUME TypeOK, InLoop, Touched, NEW bytes, Fill(bytes),
         NEW i \in 0 .. request.len - 1, i >= filled => buf[i] = Zero
  PROVE  LET x == request.offset + i IN
         /\ x \in Nat
         /\ i < filled => buf'[i] = buf[i]
         /\ x >= offset' => buf'[i] = Zero
         /\ i >= filled /\ x < offset' /\ ~Covers(a, x)
              => buf'[i] = Zero /\ x < Region.base
         /\ i >= filled /\ x < offset' /\ Covers(a, x)
              => \E k \in 0 .. uselen - 1 :
                   buf'[i] = bytes[k] /\ usepos + k = x - Region.base
<1>1. PICK o \in Nat, n \in Nat : o = request.offset /\ n = request.len
  BY DEF TypeOK
<1>2. /\ offset \in Nat /\ offset >= o /\ filled = offset - o
      /\ i \in Nat /\ i \in DOMAIN buf
  BY <1>1 DEF TypeOK, InLoop, filled
<1>3. PICK k \in Int : k = i - filled - usetarget
  BY <1>2, CopyBounds
<1>4. PICK b \in Nat, l \in Nat : b = Region.base /\ l = Region.length
  BY CopyBounds, RegionTypes DEF Region
<1>5. PICK t \in Nat, p \in Nat, u \in Nat : t = usetarget /\ p = usepos /\ u = uselen
  BY CopyBounds
<1>6. /\ offset + t = b + p
      /\ p + u <= l
      /\ offset + t + u = b + l \/ t + u = len
      /\ t > 0 => offset < b
      /\ p > 0 => t = 0
  BY <1>4, <1>5, CopyBounds
<1>7. /\ buf'[i] = IF k \in 0 .. u - 1 /\ bytes[k] # Zero THEN bytes[k] ELSE buf[i]
      /\ offset' = offset + u + t
  BY <1>2, <1>3, <1>5 DEF Fill
<1>8. Covers(a, o + i) <=> b <= o + i /\ o + i < b + l
  BY <1>4 DEF Covers, RegionEnd, Region
<1>9. k = o + i - (b + p)
  BY <1>1, <1>2, <1>3, <1>5, <1>6
<1>10. i < filled => k < 0
  BY <1>2, <1>3, <1>5
<1>11. o + i >= offset' => k >= u /\ i >= filled
  BY <1>1, <1>2, <1>3, <1>5, <1>7
<1>12. i >= filled /\ o + i < offset' => o + i >= offset /\ k < u
  BY <1>1, <1>2, <1>3, <1>5, <1>7
<1>13. ASSUME i >= filled, o + i < offset', k < 0
       PROVE  o + i < b
  BY <1>2, <1>6, <1>9, <1>12, <1>13
<1>14. ASSUME i >= filled, o + i < offset', k >= 0
       PROVE  Covers(a, o + i) /\ p + k = o + i - b
  BY <1>6, <1>8, <1>9, <1>12, <1>14
<1>15. i >= filled /\ o + i < offset' /\ Covers(a, o + i) => k \in 0 .. u - 1
  BY <1>8, <1>12, <1>13
<1>16. i >= filled => buf'[i] = IF k \in 0 .. u - 1 THEN bytes[k] ELSE Zero
  BY <1>7
<1> QED
  BY <1>1, <1>4, <1>5, <1>7, <1>10, <1>11, <1>12, <1>13, <1>14, <1>15, <1>16

(* A copy of the region's bytes keeps the invariant of the loop. *)
LEMMA CopyRight ==
  ASSUME TypeOK, InOrder, Written, Passed, InLoop, Touched,
         NEW bytes, Fill(bytes),
         \A k \in 0 .. uselen - 1 : bytes[k] = ByteAt(a, usepos + k),
         UNCHANGED << address_regions, request, missing >>
  PROVE  Written' /\ Passed'
<1>1. /\ a \in DOMAIN address_regions
      /\ a \in Nat /\ len \in Nat /\ len > 0 /\ offset \in Nat
      /\ request.offset \in Nat /\ request.len \in Nat
      /\ offset >= request.offset /\ offset + len = request.offset + request.len
  BY CopyBounds DEF TypeOK, InLoop
<1>2. /\ a' = a + 1 /\ len' \in Nat /\ offset' \in Nat
      /\ offset' >= offset /\ offset' + len' = offset + len
  BY FillType DEF Fill
<1>3. Touches(a)
  BY TouchedTouches
<1>4. filled' = offset' - request.offset
  BY DEF filled
<1>5. ASSUME NEW i \in 0 .. request.len - 1, request.offset + i < offset'
      PROVE  ByteRight(i)'
  <2> DEFINE x == request.offset + i
  <2>1. x \in Nat /\ (i >= filled => x >= offset)
    BY <1>1 DEF filled
  <2>2. i >= filled => buf[i] = Zero
    BY <1>1 DEF Written, filled
  <2>3. CASE i < filled
    <3>1. ByteRight(i)
      BY <2>3 DEF Written
    <3>2. buf'[i] = buf[i]
      BY <2>2, <2>3, CopyPositions
    <3> QED
      BY <3>1, <3>2 DEF ByteRight, Covers, RegionEnd, ByteAt, Lost
  <2>4. CASE i >= filled /\ Covers(a, x)
    <3>1. PICK k \in 0 .. uselen - 1 :
            buf'[i] = bytes[k] /\ usepos + k = x - Region.base
      BY <1>5, <2>2, <2>4, CopyPositions
    <3>2. buf'[i] = ByteAt(a, x - Region.base)
      BY <3>1
    <3>3. \A r \in DOMAIN address_regions : Covers(r, x) => r = a
      BY <1>1, <1>3, <2>1, <2>4, CoversTouches, OneCovers
    <3>4. \A r \in DOMAIN address_regions :
            Covers(r, x) => buf'[i] = ByteAt(r, x - address_regions[r].base)
      BY <3>2, <3>3 DEF Region
    <3> QED
      BY <1>1, <2>4, <3>4 DEF ByteRight, Covers, RegionEnd, ByteAt, Lost
  <2>5. CASE i >= filled /\ ~Covers(a, x)
    <3>1. buf'[i] = Zero /\ x < Region.base
      BY <1>5, <2>2, <2>5, CopyPositions
    <3>2. ASSUME NEW r \in DOMAIN address_regions, Covers(r, x)
          PROVE  Lost(r)
      <4>1. Touches(r) /\ r # a
        BY <2>5, <3>2, CoversTouches
      <4>2. ~(a < r)
        <5>1. a < r => RegionEnd(a) <= address_regions[r].base
          BY <1>1, <1>3, <4>1 DEF InOrder
        <5>2. Region.base \in Nat /\ Region.base <= RegionEnd(a) /\ RegionEnd(a) \in Nat
          <6>1. PICK base \in Nat, length \in Nat :
                  /\ base = address_regions[a].base /\ length = address_regions[a].length
                  /\ RegionEnd(a) = base + length
            BY <1>1, RegionTypes
          <6>2. base <= base + length /\ base + length \in Nat
            BY <6>1
          <6> QED BY <6>1, <6>2 DEF Region
        <5>3. address_regions[r].base \in Nat /\ address_regions[r].base <= x
          BY <3>2, RegionTypes DEF Covers
        <5> QED
          BY <2>1, <3>1, <5>1, <5>2, <5>3
      <4>3. r < a
        BY <1>1, <4>1, <4>2, RegionTypes
      <4>4. ~Apart(r)
        <5>1. /\ address_regions[r].base \in Nat /\ RegionEnd(r) \in Nat
              /\ address_regions[r].base <= x /\ x < RegionEnd(r)
          BY <3>2, RegionTypes DEF Covers
        <5>2. offset <= x /\ x < offset + len
          BY <1>1, <1>2, <1>5, <2>1, <2>5
        <5> QED
          BY <1>1, <2>1, <5>1, <5>2 DEF Apart
      <4> QED
        BY <4>3, <4>4 DEF Passed
    <3> QED
      BY <3>1, <3>2 DEF ByteRight, Covers, RegionEnd, ByteAt, Lost
  <2> QED
    BY <1>1, <2>3, <2>4, <2>5 DEF filled
<1>6. ASSUME NEW i \in 0 .. request.len - 1, request.offset + i >= offset'
      PROVE  buf'[i] = Zero
  <2>1. i >= filled => buf[i] = Zero
    BY <1>1 DEF Written, filled
  <2> QED
    BY <1>6, <2>1, CopyPositions
<1>7. Written'
  <2> SUFFICES ASSUME NEW i \in 0 .. request'.len - 1
               PROVE  IF i < filled' THEN ByteRight(i)' ELSE buf'[i] = Zero
    BY DEF Written
  <2>1. i \in 0 .. request.len - 1 /\ i \in Nat
    BY <1>1
  <2>2. i < filled' <=> request.offset + i < offset'
    BY <1>1, <1>2, <1>4, <2>1
  <2> QED
    BY <1>1, <1>2, <1>5, <1>6, <2>1, <2>2
<1>8. Passed'
  <2> SUFFICES ASSUME NEW r \in DOMAIN address_regions, r < a'
               PROVE  Lost(r)' \/ Apart(r)'
    BY DEF Passed
  <2>1. Lost(r) => Lost(r)'
    BY DEF Lost
  <2>2. CASE r < a
    <3>1. Apart(r) => Apart(r)'
      <4>1. RegionEnd(r) \in Nat /\ address_regions[r].base \in Nat
        BY RegionTypes
      <4>2. RegionEnd(r)' = RegionEnd(r) /\ address_regions'[r] = address_regions[r]
        BY DEF RegionEnd
      <4>3. Apart(r)' <=> \/ len' = 0
                          \/ RegionEnd(r) <= offset'
                          \/ offset' + len' <= address_regions[r].base
        BY <4>2 DEF Apart
      <4>4. Apart(r) <=> \/ RegionEnd(r) <= offset
                         \/ offset + len <= address_regions[r].base
        BY <1>1 DEF Apart
      <4>5. RegionEnd(r) <= offset => RegionEnd(r) <= offset'
        BY <1>1, <1>2, <4>1
      <4> QED
        BY <1>2, <4>3, <4>4, <4>5
    <3> QED
      BY <2>1, <2>2, <3>1 DEF Passed
  <2>3. CASE r = a
    <3>1. \/ offset + usetarget + uselen = RegionEnd(a)
          \/ usetarget + uselen = len
      BY CopyBounds DEF RegionEnd, Region
    <3>2. usetarget \in Nat /\ uselen \in Nat
      BY CopyBounds
    <3>3. offset' = offset + uselen + usetarget /\ len' = len - (uselen + usetarget)
      BY DEF Fill
    <3>4. RegionEnd(a) \in Nat
      BY <1>1, RegionTypes
    <3>5. len' = 0 \/ RegionEnd(a) <= offset'
      BY <1>1, <3>1, <3>2, <3>3, <3>4
    <3>6. RegionEnd(r)' = RegionEnd(a)
      BY <2>3 DEF RegionEnd
    <3> QED
      BY <2>3, <3>5, <3>6 DEF Apart
  <2> QED
    BY <1>1, <1>2, <2>2, <2>3, RegionTypes
<1> QED
  BY <1>7, <1>8

(* Nothing the loop did is undone by a step that leaves the call alone. *)
LEMMA CallUnchanged ==
  ASSUME UNCHANGED << address_regions, request, a, len, offset, buf, missing >>
  PROVE  /\ Written => Written'
         /\ Passed => Passed'
<1>1. \A i : ByteRight(i) => ByteRight(i)'
  BY DEF ByteRight, Covers, RegionEnd, ByteAt, Lost
<1>2. \A r : (Lost(r) => Lost(r)') /\ (Apart(r) => Apart(r)')
  BY DEF Lost, Apart, RegionEnd
<1>3. Written => Written'
  BY <1>1 DEF Written, filled
<1>4. Passed => Passed'
  BY <1>2 DEF Passed
<1> QED
  BY <1>3, <1>4

(* The bytes that fread delivers are the region's. *)
LEMMA FileBytes ==
  ASSUME FilesWithinLong, TypeOK, address_regions \in Layouts, ReadFile
  PROVE  \E bytes : /\ Fill(bytes)
                    /\ \A k \in 0 .. uselen - 1 : bytes[k] = ByteAt(a, usepos + k)
<1>1. InLoop /\ Touched /\ Region.mem_pointer = NoPointer /\ OpenFile /\ Opened # 0
  BY DEF ReadFile
<1>2. a \in DOMAIN address_regions /\ usepos \in Nat /\ uselen \in Nat
      /\ usepos + uselen <= Region.length /\ Region.length \in Nat
  BY <1>1, CopyBounds, RegionTypes DEF Region
<1>3. Region.length <= LongMax
  BY <1>1, <1>2 DEF FilesWithinLong, Region
<1>4. Seek = usepos
  BY <1>2, <1>3, XmpReadAssumption DEF Seek
<1>5. Opened = Region.file_path
  BY <1>1, OpenFileType
<1> DEFINE bytes == [k \in 0 .. uselen - 1 |->
                       IF Seek + k < file_size[Opened] THEN FileByte(Opened, Seek + k)
                       ELSE Zero]
<1>6. Fill(bytes)
  BY DEF ReadFile
<1>7. \A k \in 0 .. uselen - 1 : bytes[k] = ByteAt(a, usepos + k)
  BY <1>1, <1>4, <1>5 DEF ByteAt, Region
<1> QED
  BY <1>6, <1>7

(* Each step keeps the invariant of the loop. *)
LEMMA LoopStep ==
  ASSUME FilesWithinLong, LoopInv, TypeOK', [Next]_vars
  PROVE  LoopInv'
<1>1. address_regions' = address_regions
  BY DEF Next, vars, cache, locals, Read, xmp_read, Skip, CopyMemory, ReadFile, MissFile,
         Return, FileGone, FileBack
<1>2. TypeOK /\ address_regions \in Layouts
  BY DEF LoopInv
<1>3. ASSUME request' = request
      PROVE  InOrder' <=> InOrder
  BY <1>1, <1>3 DEF InOrder, Touches, RegionEnd
<1>4. SUFFICES /\ pc' = "scan" /\ InOrder' => Written' /\ Passed'
               /\ pc' = "idle" /\ InOrder' =>
                    \A i \in 0 .. request'.len - 1 : ByteRight(i)'
  BY <1>1, <1>2 DEF LoopInv, ReplyRight
<1>5. CASE Read
  <2>1. PICK q \in Requests : xmp_read(q)
    BY <1>5 DEF Read
  <2>2. /\ pc' = "scan" /\ a' = 1 /\ request' = q /\ offset' = q.offset
        /\ buf' = [i \in 0 .. q.len - 1 |-> Zero]
    BY <2>1 DEF xmp_read
  <2>3. filled' = 0
    BY <2>2, RequestType DEF filled
  <2>4. Written'
    BY <2>2, <2>3, RequestType DEF Written
  <2>5. Passed'
    BY <1>1, <1>2, <2>2, RegionTypes DEF Passed
  <2> QED
    BY <2>2, <2>4, <2>5
<1>6. CASE Skip
  <2>1. /\ InLoop /\ ~Touched /\ pc = "scan" /\ pc' = "scan" /\ a' = a + 1
        /\ UNCHANGED << request, len, offset, buf, missing >>
    BY <1>6 DEF Skip, InLoop
  <2>2. a \in DOMAIN address_regions /\ a \in Nat /\ offset \in Nat /\ len \in Nat
    BY <1>2, <2>1, RegionTypes DEF InLoop, TypeOK
  <2>3. Apart(a)
    BY <1>2, <2>1, <2>2, RegionTypes DEF Apart, Touched, Region
  <2>4. ASSUME Written, Passed
        PROVE  Written' /\ Passed'
    <3>1. \A i : ByteRight(i) => ByteRight(i)'
      BY <1>1, <2>1 DEF ByteRight, Covers, RegionEnd, ByteAt, Lost
    <3>2. \A r \in DOMAIN address_regions :
            (Lost(r) => Lost(r)') /\ (Apart(r) => Apart(r)')
      BY <1>1, <2>1 DEF Lost, Apart, RegionEnd
    <3>3. Written'
      BY <2>1, <2>4, <3>1 DEF Written, filled
    <3>4. \A r \in DOMAIN address_regions : r < a' => r < a \/ r = a
      BY <1>2, <2>1, <2>2, RegionTypes
    <3>5. Passed'
      BY <1>1, <2>3, <2>4, <3>2, <3>4 DEF Passed
    <3> QED
      BY <3>3, <3>5
  <2> QED
    BY <1>3, <2>1, <2>4 DEF LoopInv
<1>7. CASE CopyMemory
  <2>1. /\ InLoop /\ Touched /\ pc = "scan" /\ pc' = "scan"
        /\ Region.mem_pointer # NoPointer
        /\ UNCHANGED << address_regions, request, missing >>
    BY <1>7 DEF CopyMemory, InLoop
  <2> DEFINE bytes == [k \in 0 .. uselen - 1 |->
                         MemoryByte(Region.mem_pointer, usepos + k)]
  <2>2. Fill(bytes)
    BY <1>7 DEF CopyMemory
  <2>3. \A k \in 0 .. uselen - 1 : bytes[k] = ByteAt(a, usepos + k)
    BY <2>1 DEF ByteAt, Region
  <2> HIDE DEF bytes
  <2>4. InOrder /\ Written /\ Passed => Written' /\ Passed'
    BY <1>2, <2>1, <2>2, <2>3, CopyRight
  <2> QED
    BY <1>3, <2>1, <2>4 DEF LoopInv
<1>8. CASE ReadFile
  <2>1. /\ InLoop /\ Touched /\ pc = "scan" /\ pc' = "scan"
        /\ UNCHANGED << address_regions, request, missing >>
    BY <1>8 DEF ReadFile, InLoop
  <2>2. PICK bytes : /\ Fill(bytes)
                     /\ \A k \in 0 .. uselen - 1 : bytes[k] = ByteAt(a, usepos + k)
    BY <1>2, <1>8, FileBytes
  <2>3. InOrder /\ Written /\ Passed => Written' /\ Passed'
    BY <1>2, <2>1, <2>2, CopyRight
  <2> QED
    BY <1>3, <2>1, <2>3 DEF LoopInv
<1>9. CASE MissFile
  <2>1. /\ InLoop /\ pc = "scan" /\ pc' = "scan" /\ a' = a + 1
        /\ Region.mem_pointer = NoPointer
        /\ missing' = missing \cup {Region.file_path}
        /\ UNCHANGED << request, len, offset, buf >>
    BY <1>9 DEF MissFile, InLoop
  <2>2. a \in DOMAIN address_regions /\ a \in Nat
    BY <1>2, <2>1, RegionTypes DEF InLoop, TypeOK
  <2>3. ASSUME Written, Passed
        PROVE  Written' /\ Passed'
    <3>1. \A r : Lost(r) => Lost(r)'
      BY <1>1, <2>1 DEF Lost
    <3>2. \A i : ByteRight(i) => ByteRight(i)'
      BY <1>1, <2>1, <3>1 DEF ByteRight, Covers, RegionEnd, ByteAt
    <3>3. Written'
      BY <2>1, <2>3, <3>2 DEF Written, filled
    <3>4. \A r \in DOMAIN address_regions : Apart(r) => Apart(r)'
      BY <1>1, <2>1 DEF Apart, RegionEnd
    <3>5. \A r \in DOMAIN address_regions : r = a => Lost(r)'
      BY <1>1, <2>1 DEF Lost, Region
    <3>6. \A r \in DOMAIN address_regions : r < a' => r < a \/ r = a
      BY <1>2, <2>1, <2>2, RegionTypes
    <3>7. Passed'
      BY <1>1, <2>3, <3>1, <3>4, <3>5, <3>6 DEF Passed
    <3> QED
      BY <3>3, <3>7
  <2> QED
    BY <1>3, <2>1, <2>3 DEF LoopInv
<1>10. CASE Return
  <2>1. /\ pc = "scan" /\ pc' = "idle"
        /\ a > Len(address_regions) \/ len = 0
        /\ buf' = [i \in DOMAIN buf |-> IF i >= filled THEN Zero ELSE buf[i]]
        /\ UNCHANGED << request, missing >>
    BY <1>10 DEF Return
  <2>2. /\ request.offset \in Nat /\ request.len \in Nat /\ offset \in Nat /\ len \in Nat
        /\ a \in Nat /\ DOMAIN buf = 0 .. request.len - 1
        /\ offset >= request.offset /\ offset + len = request.offset + request.len
    BY <1>2, <2>1 DEF TypeOK
  <2>3. ASSUME Written, Passed, NEW i \in 0 .. request.len - 1
        PROVE  ByteRight(i)'
    <3>1. filled \in Nat /\ i \in Nat
      BY <2>2 DEF filled
    <3>2. CASE i < filled
      <4>1. buf'[i] = buf[i] /\ ByteRight(i)
        BY <2>1, <2>2, <2>3, <3>1, <3>2 DEF Written
      <4> QED
        BY <1>1, <2>1, <4>1 DEF ByteRight, Covers, RegionEnd, ByteAt, Lost
    <3>3. CASE i >= filled
      <4>1. buf'[i] = Zero
        BY <2>1, <2>2, <3>3
      <4>2. len > 0 /\ request.offset + i >= offset /\ request.offset + i < offset + len
        BY <2>2, <3>1, <3>3 DEF filled
      <4>3. ASSUME NEW r \in DOMAIN address_regions, Covers(r, request.offset + i)
            PROVE  Lost(r)
        <5>1. r < a
          BY <1>2, <2>1, <2>2, <4>2, RegionTypes
        <5>2. ~Apart(r)
          <6>1. PICK base \in Nat, end \in Nat :
                  base = address_regions[r].base /\ end = RegionEnd(r)
            BY <1>2, <4>3, RegionTypes
          <6>2. base <= request.offset + i /\ request.offset + i < end
            BY <4>3, <6>1 DEF Covers
          <6>3. ~(len = 0) /\ ~(end <= offset) /\ ~(offset + len <= base)
            BY <2>2, <3>1, <4>2, <6>1, <6>2
          <6> QED BY <6>1, <6>3 DEF Apart
        <5> QED
          BY <2>3, <5>1, <5>2 DEF Passed
      <4> QED
        BY <1>1, <2>1, <4>1, <4>3 DEF ByteRight, Covers, RegionEnd, ByteAt, Lost
    <3> QED
      BY <3>1, <3>2, <3>3
  <2> QED
    BY <1>3, <2>1, <2>3 DEF LoopInv
<1>11. CASE FileGone \/ FileBack \/ UNCHANGED vars
  <2>1. UNCHANGED << pc, address_regions, request, a, len, offset, buf, missing >>
    BY <1>11 DEF FileGone, FileBack, vars, locals
  <2>2. \A i : ByteRight(i) => ByteRight(i)'
    BY <2>1 DEF ByteRight, Covers, RegionEnd, ByteAt, Lost
  <2> QED
    BY <1>3, <2>1, <2>2, CallUnchanged DEF LoopInv, ReplyRight
<1> QED
  BY <1>5, <1>6, <1>7, <1>8, <1>9, <1>10, <1>11 DEF Next

(* Every reply is right, for every layout and every request whose regions   *)
(* are in order, when offsets into files fit a long.                        *)
THEOREM RepliesRight ==
  ASSUME FilesWithinLong
  PROVE  Spec => []ReplyRight
<1>1. Init => LoopInv
  <2> SUFFICES ASSUME Init PROVE LoopInv
    OBVIOUS
  <2>1. pc = "idle" /\ request.len = 0
    BY DEF Init, Request
  <2> QED
    BY <2>1, ReadInit DEF LoopInv, ReplyRight
<1>2. LoopInv /\ TypeOK' /\ [Next]_vars => LoopInv'
  BY LoopStep
<1>3. LoopInv => ReplyRight
  BY DEF LoopInv
<1> QED
  BY <1>1, <1>2, <1>3, ReadTypeCorrect, PTL DEF Spec

=============================================================================
