---------------------------- MODULE FatFilesDirs ----------------------------
(***************************************************************************)
(* What is in the directories that dir_add_entry fills: entries stand side *)
(* by side in the buffers of their directory (DirectoriesPacked), in the   *)
(* directory of the folder they were read in (TreeKept), LFN entries       *)
(* before the entry they name, all of them and in order (LfnsComplete),    *)
(* and what entries say of clusters is so (FilesReadable, DotsNamed,       *)
(* DirsReadable).  On the way: the prediction of add_file                  *)
(* (PredictedInside) and the end of the disk (RegionsOnDisk).  The control state tells what an entry of the     *)
(* name at hand may be.                                                    *)
(***************************************************************************)
EXTENDS FatFilesSafety

Slots == 0 .. entrys_per_cluster - 1

(* The dirtables of the open directories are buffers of their own.         *)
TablesApart ==
  \A d \in DOMAIN dir_stack : \A n \in DOMAIN dir_stack[d].dirtables :
    /\ dir_stack[d].dirtables[n] \in DOMAIN dirtables
    /\ \A c \in DOMAIN dir_stack : \A m \in DOMAIN dir_stack[c].dirtables :
         dir_stack[c].dirtables[m] = dir_stack[d].dirtables[n] => c = d /\ m = n

PackedInv == DirectoriesPacked /\ TablesApart

-----------------------------------------------------------------------------
(* Adding an entry                                                         *)

(* It goes behind others into the last buffer of the current directory ... *)
IntoLast(entry) ==
  LET ts == current_dir.dirtables
      t == ts[Len(ts)]
      i == current_dir.current_dir_position - entrys_per_cluster * (Len(ts) - 1)
  IN  /\ ts # << >>
      /\ t \in DOMAIN dirtables
      /\ i \in 1 .. entrys_per_cluster - 1
      /\ dirtables' = [dirtables EXCEPT ![t].slots[i] = entry]
      /\ DirWithEntry(ts, current_dir.dir_location)
      /\ UNCHANGED << fat, current_fat_position, address_regions >>

(* ... or begins a new one, where the others are full.                     *)
FirstTable(entry) ==
  [dir |-> current_dir.path, slots |-> [i \in Slots |-> IF i = 0 THEN entry ELSE NoEntry]]

IntoNew(entry, c) ==
  /\ current_dir.current_dir_position = entrys_per_cluster * Len(current_dir.dirtables)
  /\ dirtables' = Append(dirtables, FirstTable(entry))
  /\ DirWithEntry(Append(current_dir.dirtables, Len(dirtables) + 1), c)
  /\ address_regions' = Append(address_regions,
       AddressRegion(address_from_fatclus(c), cluster_size, DirTable(Len(dirtables) + 1), 0))

(* The current directory is one of the stack.                              *)
LEMMA TopShape ==
  ASSUME TypeInv
  PROVE  LET top == Len(dir_stack) IN
         /\ top \in Nat \ {0} /\ DOMAIN dir_stack = 1 .. top /\ top \in DOMAIN dir_stack
         /\ current_dir = dir_stack[top] /\ current_dir \in Fat_Directories
         /\ current_dir.path \in Nat /\ current_dir.current_dir_position \in Nat
         /\ current_dir.dir_location \in Nat
         /\ current_dir.dirtables \in Seq(Nat \ {0})
         /\ Len(current_dir.dirtables) \in Nat
         /\ DOMAIN current_dir.dirtables = 1 .. Len(current_dir.dirtables)
<1>1. /\ Len(dir_stack) \in Nat \ {0} /\ DOMAIN dir_stack = 1 .. Len(dir_stack)
      /\ \A d \in 1 .. Len(dir_stack) : dir_stack[d] \in Fat_Directories
  BY StackShape
<1>2. Len(dir_stack) \in 1 .. Len(dir_stack)
  BY <1>1
<1>3. current_dir \in Fat_Directories
  BY <1>1, <1>2 DEF current_dir
<1>4. current_dir.dirtables \in Seq(Nat \ {0})
  BY <1>3 DEF Fat_Directories
<1>5. Len(current_dir.dirtables) \in Nat /\ DOMAIN current_dir.dirtables = 1 .. Len(current_dir.dirtables)
  BY <1>4, LenProperties
<1> QED BY <1>1, <1>2, <1>3, <1>4, <1>5 DEF current_dir, Fat_Directories

(* What the position tells of a packed directory.                          *)
LEMMA PositionTells ==
  ASSUME NEW e \in Nat, e > 1, NEW L \in Nat, NEW p \in Nat,
         p <= e * L, L > 0 => p > e * (L - 1)
  PROVE  /\ L = 0 => p = 0
         /\ p % e < 1 => p = e * L
         /\ p % e >= 1 => L > 0 /\ p - e * (L - 1) \in 1 .. e - 1 /\ p % e = p - e * (L - 1)
<1>1. L = 0 => p = 0 /\ e * L = 0
  OBVIOUS
<1>2. p % e \in 0 .. e - 1
  BY Division
<1>3. CASE L = 0
  <2>1. 0 % e = 0
    BY Remainder
  <2> QED BY <1>1, <1>3, <2>1
<1>4. CASE L > 0
  <2> DEFINE k == L - 1
             r == p - e * k
  <2>1. k \in Nat /\ L = k + 1
    BY <1>4
  <2>2. e * k \in Nat /\ e * L = e * k + e
    BY <2>1
  <2>3. r \in 1 .. e /\ p = e * k + r
    BY <1>4, <2>1, <2>2
  <2>4. CASE r = e
    <3>1. (e * L + 0) % e = 0
      BY Remainder
    <3>2. p = e * L
      BY <2>2, <2>3, <2>4
    <3> QED BY <1>4, <3>1, <3>2
  <2>5. CASE r # e
    <3>1. r \in 0 .. e - 1 /\ r >= 1
      BY <2>3, <2>5
    <3> HIDE DEF r, k
    <3>2. (e * k + r) % e = r
      BY <2>1, <3>1, Remainder
    <3>3. p % e = r
      BY <2>3, <3>2
    <3> QED BY <1>4, <3>1, <3>3 DEF r, k
  <2> QED BY <2>4, <2>5
<1> QED BY <1>3, <1>4

(* dir_add_entry's three cases are these two.                              *)
LEMMA RoomFound ==
  ASSUME TypeInv, PackedInv, NEW entry \in Entries, dir_add_entry(entry)
  PROVE  \/ IntoLast(entry)
         \/ \E c \in Nat :
              /\ c >= 2 /\ IntoNew(entry, c)
              /\ c = current_fat_position' \/ (current_dir.dirtables = << >> /\ c = current_dir.dir_location)
<1> DEFINE ts == current_dir.dirtables
           L == Len(ts)
           p == current_dir.current_dir_position
           top == Len(dir_stack)
<1>1. /\ top \in DOMAIN dir_stack /\ current_dir = dir_stack[top]
      /\ p \in Nat /\ current_dir.dir_location \in Nat
      /\ ts \in Seq(Nat \ {0}) /\ L \in Nat /\ DOMAIN ts = 1 .. L
  BY TopShape
<1>2. entrys_per_cluster \in Nat /\ entrys_per_cluster > 1
  BY Sizes
<1>3. p <= entrys_per_cluster * L /\ (ts # << >> => p > entrys_per_cluster * (L - 1))
  BY <1>1 DEF PackedInv, DirectoriesPacked
<1>4. ts # << >> <=> L > 0
  BY <1>1, EmptySeq
<1>5. current_dir.dir_location >= 2 /\ current_fat_position >= 2 /\ current_fat_position \in Nat
  BY <1>1 DEF TypeInv, ClustersOK, TypeOK
<1>6. CASE FirstCluster(entry)
  <2>1. /\ ts = << >> /\ L = 0 /\ p = 0
    BY <1>1, <1>2, <1>3, <1>4, <1>6 DEF FirstCluster
  <2>2. Append(ts, Len(dirtables) + 1) = << Len(dirtables) + 1 >>
    BY <2>1
  <2>3. SlotIn(<< Len(dirtables) + 1 >>) = 0
    BY <1>2, <2>1 DEF SlotIn
  <2>4. IntoNew(entry, current_dir.dir_location)
    <3> DEFINE us == << Len(dirtables) + 1 >>
    <3>1. NewDirTable(current_dir.dir_location, us, entry) /\ DirWithEntry(us, current_dir.dir_location)
      BY <1>6 DEF FirstCluster
    <3>2. us = Append(ts, Len(dirtables) + 1) /\ SlotIn(us) = 0
      BY <2>2, <2>3
    <3>3. p = entrys_per_cluster * L
      BY <1>2, <2>1
    <3> HIDE DEF us
    <3>4. DirWithEntry(Append(ts, Len(dirtables) + 1), current_dir.dir_location)
      BY <3>1, <3>2
    <3>5. dirtables' = Append(dirtables, FirstTable(entry))
      BY <3>1, <3>2 DEF NewDirTable, FirstTable, Slots
    <3> QED BY <3>1, <3>3, <3>4, <3>5 DEF NewDirTable, IntoNew
  <2> QED BY <1>1, <1>5, <2>1, <2>4
<1>7. CASE NextCluster(entry)
  <2> DEFINE us == Append(ts, Len(dirtables) + 1)
  <2>1. p % entrys_per_cluster < 1
    BY <1>7 DEF NextCluster
  <2>2. p = entrys_per_cluster * L
    BY <1>1, <1>2, <1>3, <1>4, <2>1, PositionTells
  <2>3. Len(us) = L + 1
    BY <1>1
  <2>4. SlotIn(us) = 0
    <3>1. Len(us) - 1 = L /\ entrys_per_cluster * L \in Nat
      BY <1>1, <1>2, <2>3
    <3> QED BY <2>2, <3>1 DEF SlotIn
  <2>5. PICK c \in current_fat_position .. fat_entries + FatSlack :
          /\ current_fat_position' = c
          /\ NewDirTable(c, us, entry)
          /\ DirWithEntry(us, c)
    BY <1>7 DEF NextCluster
  <2>6. c \in Nat /\ c >= 2
    BY <1>5, FoundType
  <2>7. IntoNew(entry, c)
    BY <2>2, <2>4, <2>5 DEF NewDirTable, IntoNew, FirstTable, Slots
  <2> QED BY <2>5, <2>6, <2>7
<1>8. CASE SameCluster(entry)
  <2>1. /\ ts # << >> /\ p % entrys_per_cluster >= 1
        /\ dirtables' = [dirtables EXCEPT ![ts[L]].slots[p - entrys_per_cluster * (L - 1)] = entry]
        /\ DirWithEntry(ts, current_dir.dir_location)
        /\ UNCHANGED << fat, current_fat_position, address_regions >>
    BY <1>8 DEF SameCluster, SlotIn
  <2>2. p - entrys_per_cluster * (L - 1) \in 1 .. entrys_per_cluster - 1
    BY <1>1, <1>2, <1>3, <1>4, <2>1, PositionTells
  <2>3. L \in DOMAIN ts
    BY <1>1, <1>4, <2>1
  <2>4. ts[L] \in DOMAIN dirtables
    BY <1>1, <2>3 DEF PackedInv, TablesApart
  <2> QED BY <2>1, <2>2, <2>4 DEF IntoLast
<1> QED BY <1>6, <1>7, <1>8 DEF dir_add_entry


(* The stack when the top directory got its entry: the others are as they  *)
(* were.                                                                   *)
LEMMA TopReplaced ==
  ASSUME TypeInv, NEW ts \in Seq(Nat \ {0}), NEW loc \in Nat, DirWithEntry(ts, loc)
  PROVE  LET top == Len(dir_stack) IN
         /\ DOMAIN dir_stack' = DOMAIN dir_stack /\ Len(dir_stack') = top
         /\ dir_stack'[top] = Fat_Directory(current_dir.path, ts,
                                            current_dir.current_dir_position + 1, loc)
         /\ current_dir' = dir_stack'[top]
         /\ current_dir'.path = current_dir.path
         /\ current_dir'.dirtables = ts
         /\ current_dir'.current_dir_position = current_dir.current_dir_position + 1
         /\ current_dir'.dir_location = loc
         /\ \A d \in DOMAIN dir_stack : d # top => dir_stack'[d] = dir_stack[d]
<1> DEFINE top == Len(dir_stack)
           e == Fat_Directory(current_dir.path, ts, current_dir.current_dir_position + 1, loc)
<1>1. /\ top \in Nat \ {0} /\ DOMAIN dir_stack = 1 .. top /\ top \in 1 .. top
      /\ current_dir.path \in Nat /\ current_dir.current_dir_position \in Nat
  BY TopShape
<1>2. current_dir.current_dir_position + 1 \in Nat
  BY <1>1
<1>3. e \in Fat_Directories
  BY <1>1, <1>2 DEF Fat_Directory, Fat_Directories
<1>4. /\ e.path = current_dir.path /\ e.dirtables = ts
      /\ e.current_dir_position = current_dir.current_dir_position + 1 /\ e.dir_location = loc
  BY DEF Fat_Directory
<1>5. dir_stack' = [dir_stack EXCEPT ![top] = e]
  BY DEF DirWithEntry
<1>6. dir_stack \in Seq(Fat_Directories)
  BY DEF TypeInv, TypeOK
<1> HIDE DEF e, top
<1>7. /\ dir_stack' \in Seq(Fat_Directories)
      /\ Len(dir_stack') = top
      /\ \A d \in 1 .. top : dir_stack'[d] = IF d = top THEN e ELSE dir_stack[d]
  BY <1>1, <1>3, <1>5, <1>6, ExceptSeq DEF top
<1>8. DOMAIN dir_stack' = 1 .. top
  BY <1>7, LenProperties
<1>9. dir_stack'[top] = e /\ current_dir' = e
  BY <1>1, <1>7 DEF current_dir
<1>10. \A d \in DOMAIN dir_stack : d # top => dir_stack'[d] = dir_stack[d]
  BY <1>1, <1>7
<1> QED BY <1>1, <1>4, <1>7, <1>8, <1>9, <1>10 DEF top, e

(* The entry stands in slot i of the dirtable t, the last of the current   *)
(* directory; all other slots are as they were, and a new dirtable has no  *)
(* other entry.                                                            *)
Placed(entry, t, i) ==
  LET ts == current_dir.dirtables
      us == current_dir'.dirtables
  IN  /\ t \in Nat \ {0} /\ t \in DOMAIN dirtables' /\ i \in Slots
      /\ DOMAIN dirtables' = DOMAIN dirtables \cup {t}
      /\ \A u \in DOMAIN dirtables :
           /\ dirtables'[u].dir = dirtables[u].dir
           /\ \A k \in Slots : u # t \/ k # i => dirtables'[u].slots[k] = dirtables[u].slots[k]
      /\ dirtables'[t].dir = current_dir.path
      /\ dirtables'[t].slots[i] = entry
      /\ t \in DOMAIN dirtables =>
           /\ i > 0 /\ us = ts
           /\ current_dir'.dir_location = current_dir.dir_location
           /\ UNCHANGED << fat, current_fat_position, address_regions >>
      /\ t \notin DOMAIN dirtables =>
           /\ i = 0 /\ us = Append(ts, t)
           /\ t = Len(dirtables) + 1
           /\ \A k \in Slots : k # i => dirtables'[t].slots[k] = NoEntry
           /\ current_dir'.dir_location >= 2
           /\ address_regions' = Append(address_regions,
                AddressRegion(address_from_fatclus(current_dir'.dir_location), cluster_size,
                              DirTable(t), 0))
      /\ us # << >> /\ us \in Seq(Nat \ {0}) /\ us[Len(us)] = t
      /\ current_dir.current_dir_position = entrys_per_cluster * (Len(us) - 1) + i
      /\ current_dir'.current_dir_position = current_dir.current_dir_position + 1
      /\ current_dir'.path = current_dir.path
      /\ Len(dir_stack') = Len(dir_stack) /\ DOMAIN dir_stack' = DOMAIN dir_stack
      /\ \A d \in DOMAIN dir_stack : d # Len(dir_stack) => dir_stack'[d] = dir_stack[d]


(* Every way to find room places the entry.                                *)
LEMMA EntryPlaced ==
  ASSUME TypeInv, PackedInv, NEW entry \in Entries, dir_add_entry(entry)
  PROVE  \E t, i : Placed(entry, t, i)
<1> DEFINE ts == current_dir.dirtables
           L == Len(ts)
           p == current_dir.current_dir_position
           top == Len(dir_stack)
           us == current_dir'.dirtables
<1>1. /\ top \in DOMAIN dir_stack /\ current_dir = dir_stack[top]
      /\ p \in Nat /\ current_dir.dir_location \in Nat
      /\ ts \in Seq(Nat \ {0}) /\ L \in Nat /\ DOMAIN ts = 1 .. L
  BY TopShape
<1>2. entrys_per_cluster \in Nat /\ entrys_per_cluster > 1
  BY Sizes
<1>3. 0 \in Slots /\ \A i \in 1 .. entrys_per_cluster - 1 : i \in Slots /\ i > 0
  BY <1>2 DEF Slots
<1>4. dirtables \in Seq(DirTables) /\ Len(dirtables) \in Nat /\ DOMAIN dirtables = 1 .. Len(dirtables)
  BY LenProperties DEF TypeInv, TypeOK
<1>5. CASE IntoLast(entry)
  <2> DEFINE t == ts[L]
             i == p - entrys_per_cluster * (L - 1)
  <2>1. /\ ts # << >>
        /\ t \in DOMAIN dirtables
        /\ i \in 1 .. entrys_per_cluster - 1
        /\ dirtables' = [dirtables EXCEPT ![t].slots[i] = entry]
        /\ DirWithEntry(ts, current_dir.dir_location)
        /\ UNCHANGED << fat, current_fat_position, address_regions >>
    BY <1>5 DEF IntoLast
  <2>2. L > 0 /\ L \in DOMAIN ts /\ t \in Nat \ {0}
    BY <1>1, <2>1, EmptySeq
  <2>3. dirtables[t].dir = current_dir.path
    BY <1>1, <2>2 DEF PackedInv, DirectoriesPacked
  <2>4. p = entrys_per_cluster * (L - 1) + i
    <3>1. entrys_per_cluster * (L - 1) \in Int
      BY <1>1, <1>2
    <3> QED BY <1>1, <3>1
  <2>5. i \in Slots /\ i > 0
    BY <1>3, <2>1
  <2>6. /\ us = ts
        /\ current_dir'.current_dir_position = p + 1
        /\ current_dir'.path = current_dir.path
        /\ current_dir'.dir_location = current_dir.dir_location
        /\ Len(dir_stack') = top /\ DOMAIN dir_stack' = DOMAIN dir_stack
        /\ \A d \in DOMAIN dir_stack : d # top => dir_stack'[d] = dir_stack[d]
    BY <1>1, <2>1, TopReplaced
  <2> HIDE DEF i, t
  <2>7. /\ DOMAIN dirtables' = DOMAIN dirtables
        /\ \A u \in DOMAIN dirtables :
             /\ dirtables'[u].dir = dirtables[u].dir
             /\ \A k \in Slots : u # t \/ k # i => dirtables'[u].slots[k] = dirtables[u].slots[k]
        /\ dirtables'[t].slots[i] = entry
    <3>1. dirtables \in Seq(DirTables) /\ t \in DOMAIN dirtables /\ i \in Slots
      BY <1>4, <2>1, <2>5
    <3>2. dirtables' = [dirtables EXCEPT ![t].slots[i] = entry]
      BY <2>1
    <3>3. DOMAIN dirtables' = DOMAIN dirtables
      BY <3>2
    <3>4. \A u \in DOMAIN dirtables : u # t => dirtables'[u] = dirtables[u]
      BY <3>2
    <3>5. dirtables'[t] = [dirtables[t] EXCEPT !.slots[i] = entry]
      BY <3>1, <3>2
    <3>6. dirtables[t] \in [dir : Nat, slots : [Slots -> Entries]]
      BY <3>1, ElementOfSeq, <1>4 DEF DirTables, Slots
    <3>7. /\ dirtables'[t].dir = dirtables[t].dir
          /\ dirtables'[t].slots = [dirtables[t].slots EXCEPT ![i] = entry]
      BY <3>5, <3>6
    <3>8. /\ dirtables'[t].slots[i] = entry
          /\ \A k \in Slots : k # i => dirtables'[t].slots[k] = dirtables[t].slots[k]
      BY <3>1, <3>6, <3>7
    <3> QED BY <3>3, <3>4, <3>7, <3>8
  <2>8. us[Len(us)] = t /\ us # << >> /\ us \in Seq(Nat \ {0}) /\ p = entrys_per_cluster * (Len(us) - 1) + i
    BY <1>1, <2>1, <2>4, <2>6 DEF t
  <2>9. /\ t \in Nat \ {0} /\ t \in DOMAIN dirtables' /\ i \in Slots
        /\ DOMAIN dirtables' = DOMAIN dirtables \cup {t}
        /\ dirtables'[t].dir = current_dir.path
    BY <2>1, <2>2, <2>3, <2>5, <2>7
  <2>10. /\ t \in DOMAIN dirtables /\ i > 0 /\ us = ts
         /\ current_dir'.dir_location = current_dir.dir_location
         /\ UNCHANGED << fat, current_fat_position, address_regions >>
    BY <2>1, <2>5, <2>6
  <2>11. Placed(entry, t, i)
    BY <2>6, <2>7, <2>8, <2>9, <2>10 DEF Placed
  <2> QED BY <2>11
<1>6. ASSUME NEW c \in Nat, c >= 2, IntoNew(entry, c)
      PROVE  \E t, i : Placed(entry, t, i)
  <2> DEFINE t == Len(dirtables) + 1
  <2>1. /\ p = entrys_per_cluster * L
        /\ dirtables' = Append(dirtables, FirstTable(entry))
        /\ DirWithEntry(Append(ts, t), c)
        /\ address_regions' = Append(address_regions,
             AddressRegion(address_from_fatclus(c), cluster_size, DirTable(t), 0))
    BY <1>6 DEF IntoNew
  <2>2. t \in Nat \ {0} /\ t \notin DOMAIN dirtables /\ t = Len(dirtables) + 1
    BY <1>4
  <2>3. /\ DOMAIN dirtables' = DOMAIN dirtables \cup {t}
        /\ \A u \in DOMAIN dirtables : dirtables'[u] = dirtables[u]
        /\ dirtables'[t] = FirstTable(entry)
    BY <1>4, <2>1
  <2> HIDE DEF t
  <2>4. /\ Append(ts, t) \in Seq(Nat \ {0}) /\ Append(ts, t) # << >>
        /\ Len(Append(ts, t)) = L + 1 /\ Append(ts, t)[L + 1] = t
    <3> DEFINE S == Nat \ {0}
    <3> HIDE DEF ts, L
    <3>1. ts \in Seq(S) /\ t \in S
      BY <1>1, <2>2
    <3> HIDE DEF S
    <3>2. /\ Append(ts, t) \in Seq(S) /\ Append(ts, t) # << >>
          /\ Len(Append(ts, t)) = Len(ts) + 1 /\ Append(ts, t)[Len(ts) + 1] = t
      BY <3>1, AppendProperties
    <3> QED BY <3>2 DEF S, L
  <2>5. /\ us = Append(ts, t)
        /\ current_dir'.current_dir_position = p + 1
        /\ current_dir'.path = current_dir.path
        /\ current_dir'.dir_location = c
        /\ Len(dir_stack') = top /\ DOMAIN dir_stack' = DOMAIN dir_stack
        /\ \A d \in DOMAIN dir_stack : d # top => dir_stack'[d] = dir_stack[d]
    BY <1>1, <2>1, <2>4, TopReplaced
  <2>6. /\ FirstTable(entry).dir = current_dir.path
        /\ \A k \in Slots : FirstTable(entry).slots[k] = IF k = 0 THEN entry ELSE NoEntry
    BY DEF FirstTable
  <2>7. us[Len(us)] = t /\ us # << >> /\ us \in Seq(Nat \ {0})
    BY <2>4, <2>5
  <2>8. p = entrys_per_cluster * (Len(us) - 1) + 0
    <3>1. Len(us) - 1 = L /\ entrys_per_cluster * L \in Nat
      BY <1>1, <1>2, <2>4, <2>5
    <3> QED BY <2>1, <3>1
  <2>9. Placed(entry, t, 0)
    BY <1>3, <1>6, <2>1, <2>2, <2>3, <2>5, <2>6, <2>7, <2>8 DEF Placed
  <2> QED BY <2>9
<1> QED BY <1>5, <1>6, RoomFound


(* The slots of a dirtable come before those of the next.                  *)
LEMMA SlotOrder ==
  ASSUME NEW n \in Nat \ {0}, NEW m \in Nat \ {0}, n < m, NEW k \in Slots
  PROVE  /\ entrys_per_cluster * (n - 1) + k \in Nat
         /\ entrys_per_cluster * (m - 1) \in Nat
         /\ entrys_per_cluster * (n - 1) + k < entrys_per_cluster * (m - 1)
<1> DEFINE e == entrys_per_cluster
           d == m - n - 1
<1>1. e \in Nat \ {0} /\ k \in 0 .. e - 1
  BY Sizes DEF Slots
<1>2. d \in Nat /\ m - 1 = (n - 1) + 1 + d /\ n - 1 \in Nat /\ m - 1 \in Nat
  OBVIOUS
<1> HIDE DEF e, d
<1>3. e * (m - 1) = e * (n - 1) + e + e * d
  BY <1>1, <1>2
<1>4. e * d \in Nat /\ e * (n - 1) \in Nat /\ e * (m - 1) \in Nat
  BY <1>1, <1>2
<1> QED BY <1>1, <1>3, <1>4 DEF e

(* The dirtables of the open directories after an entry: those of the      *)
(* current one may have a new last one.                                    *)
LEMMA ListsAfterEntry ==
  ASSUME TypeInv, PackedInv, NEW entry, NEW t, NEW i, Placed(entry, t, i)
  PROVE  LET top == Len(dir_stack)
             us == current_dir'.dirtables
         IN  /\ top \in DOMAIN dir_stack /\ DOMAIN dir_stack' = DOMAIN dir_stack
             /\ dir_stack'[top] = current_dir' /\ current_dir = dir_stack[top]
             /\ Len(us) \in Nat \ {0} /\ DOMAIN us = 1 .. Len(us) /\ us[Len(us)] = t
             /\ \A n \in 1 .. Len(us) - 1 :
                  /\ n \in DOMAIN current_dir.dirtables
                  /\ us[n] = current_dir.dirtables[n]
                  /\ us[n] \in DOMAIN dirtables /\ us[n] # t
             /\ \A d \in DOMAIN dir_stack : d # top =>
                  /\ dir_stack'[d] = dir_stack[d]
                  /\ \A n \in DOMAIN dir_stack[d].dirtables :
                       dir_stack[d].dirtables[n] \in DOMAIN dirtables /\ dir_stack[d].dirtables[n] # t
<1> DEFINE top == Len(dir_stack)
           us == current_dir'.dirtables
           ts == current_dir.dirtables
<1>1. /\ top \in DOMAIN dir_stack /\ current_dir = dir_stack[top]
      /\ ts \in Seq(Nat \ {0}) /\ Len(ts) \in Nat /\ DOMAIN ts = 1 .. Len(ts)
  BY TopShape
<1>2. /\ DOMAIN dir_stack' = DOMAIN dir_stack /\ Len(dir_stack') = top
      /\ \A d \in DOMAIN dir_stack : d # top => dir_stack'[d] = dir_stack[d]
      /\ us \in Seq(Nat \ {0}) /\ us # << >> /\ us[Len(us)] = t
      /\ t \in DOMAIN dirtables => us = ts
      /\ t \notin DOMAIN dirtables => us = Append(ts, t)
      /\ t \in Nat \ {0}
  BY DEF Placed
<1>3. current_dir' = dir_stack'[top]
  BY <1>2 DEF current_dir
<1>4. Len(us) \in Nat \ {0} /\ DOMAIN us = 1 .. Len(us)
  BY <1>2, LenProperties, EmptySeq
<1>5. \A d \in DOMAIN dir_stack : \A n \in DOMAIN dir_stack[d].dirtables :
        /\ dir_stack[d].dirtables[n] \in DOMAIN dirtables
        /\ \A c \in DOMAIN dir_stack : \A m \in DOMAIN dir_stack[c].dirtables :
             dir_stack[c].dirtables[m] = dir_stack[d].dirtables[n] => c = d /\ m = n
  BY DEF PackedInv, TablesApart
<1>6. t \in DOMAIN dirtables => Len(ts) \in DOMAIN ts /\ ts[Len(ts)] = t
  BY <1>2, <1>4
<1> HIDE DEF ts
<1>7. ASSUME NEW n \in 1 .. Len(us) - 1
      PROVE  n \in DOMAIN ts /\ us[n] = ts[n] /\ ts[n] \in DOMAIN dirtables /\ ts[n] # t
  <2>1. CASE t \in DOMAIN dirtables
    <3>1. us = ts /\ n \in DOMAIN ts /\ n # Len(ts)
      BY <1>2, <1>4, <2>1
    <3> QED BY <1>1, <1>5, <1>6, <2>1, <3>1 DEF ts
  <2>2. CASE t \notin DOMAIN dirtables
    <3>1. us = Append(ts, t)
      BY <1>2, <2>2
    <3>2. Len(us) = Len(ts) + 1 /\ \A m \in 1 .. Len(ts) : us[m] = ts[m]
      <4>1. ts \in Seq(Nat \ {0}) /\ t \in Nat \ {0}
        BY <1>1, <1>2 DEF ts
      <4>2. Len(Append(ts, t)) = Len(ts) + 1 /\ \A m \in 1 .. Len(ts) : Append(ts, t)[m] = ts[m]
        BY <4>1, AppendProperties
      <4> QED BY <3>1, <4>2
    <3>3. n \in DOMAIN ts /\ us[n] = ts[n]
      BY <1>1, <3>2
    <3> QED BY <1>1, <1>5, <2>2, <3>3 DEF ts
  <2> QED BY <2>1, <2>2
<1>8. ASSUME NEW d \in DOMAIN dir_stack, d # top, NEW n \in DOMAIN dir_stack[d].dirtables
      PROVE  dir_stack[d].dirtables[n] \in DOMAIN dirtables /\ dir_stack[d].dirtables[n] # t
  BY <1>1, <1>5, <1>6, <1>8 DEF ts
<1> QED BY <1>1, <1>2, <1>3, <1>4, <1>7, <1>8 DEF ts

(* An entry keeps the directories packed.                                  *)
LEMMA PackedAfterEntry ==
  ASSUME TypeInv, PackedInv, NEW entry, entry.kind # "none", NEW t, NEW i, Placed(entry, t, i)
  PROVE  PackedInv'
<1> DEFINE top == Len(dir_stack)
           us == current_dir'.dirtables
           p == current_dir.current_dir_position
           L == Len(us)
<1>1. /\ top \in DOMAIN dir_stack /\ DOMAIN dir_stack' = DOMAIN dir_stack
      /\ dir_stack'[top] = current_dir' /\ current_dir = dir_stack[top]
      /\ L \in Nat \ {0} /\ DOMAIN us = 1 .. L /\ us[L] = t
      /\ \A n \in 1 .. L - 1 :
           /\ n \in DOMAIN current_dir.dirtables
           /\ us[n] = current_dir.dirtables[n]
           /\ us[n] \in DOMAIN dirtables /\ us[n] # t
      /\ \A d \in DOMAIN dir_stack : d # top =>
           /\ dir_stack'[d] = dir_stack[d]
           /\ \A n \in DOMAIN dir_stack[d].dirtables :
                dir_stack[d].dirtables[n] \in DOMAIN dirtables /\ dir_stack[d].dirtables[n] # t
  BY ListsAfterEntry
<1>2. entrys_per_cluster \in Nat \ {0} /\ p \in Nat
  BY Sizes, TopShape
<1>3. /\ t \in DOMAIN dirtables' /\ i \in Slots
      /\ DOMAIN dirtables' = DOMAIN dirtables \cup {t}
      /\ \A u \in DOMAIN dirtables :
           /\ dirtables'[u].dir = dirtables[u].dir
           /\ \A k \in Slots : u # t \/ k # i => dirtables'[u].slots[k] = dirtables[u].slots[k]
      /\ dirtables'[t].dir = current_dir.path
      /\ dirtables'[t].slots[i] = entry
      /\ t \in DOMAIN dirtables => us = current_dir.dirtables
      /\ t \notin DOMAIN dirtables => i = 0 /\ \A k \in Slots : k # i => dirtables'[t].slots[k] = NoEntry
      /\ p = entrys_per_cluster * (L - 1) + i
      /\ current_dir'.current_dir_position = p + 1
      /\ current_dir'.path = current_dir.path
  BY DEF Placed
<1>4. \A d \in DOMAIN dir_stack :
        /\ dir_stack[d].current_dir_position <= entrys_per_cluster * Len(dir_stack[d].dirtables)
        /\ dir_stack[d].dirtables # << >> =>
             dir_stack[d].current_dir_position > entrys_per_cluster * (Len(dir_stack[d].dirtables) - 1)
        /\ \A n \in DOMAIN dir_stack[d].dirtables :
             /\ dirtables[dir_stack[d].dirtables[n]].dir = dir_stack[d].path
             /\ \A k \in Slots :
                  dirtables[dir_stack[d].dirtables[n]].slots[k].kind # "none"
                    <=> entrys_per_cluster * (n - 1) + k < dir_stack[d].current_dir_position
  BY DEF PackedInv, DirectoriesPacked, Slots
<1>5. i \in Nat /\ i < entrys_per_cluster
  BY <1>2, <1>3 DEF Slots
<1>6. \A n \in 1 .. L : entrys_per_cluster * (n - 1) \in Nat
  BY <1>1, <1>2
<1>7. \A n \in 1 .. L - 1 : \A k \in Slots : entrys_per_cluster * (n - 1) + k < entrys_per_cluster * (L - 1)
  <2> SUFFICES ASSUME NEW n \in 1 .. L - 1, NEW k \in Slots
               PROVE  entrys_per_cluster * (n - 1) + k < entrys_per_cluster * (L - 1)
    OBVIOUS
  <2>1. n \in Nat \ {0} /\ n < L
    BY <1>1
  <2> QED BY <1>1, <2>1, SlotOrder
<1> HIDE DEF us, p, L, top
<1>8. ASSUME NEW n \in 1 .. L
      PROVE  /\ dirtables'[us[n]].dir = current_dir.path
             /\ \A k \in Slots : dirtables'[us[n]].slots[k].kind # "none"
                                   <=> entrys_per_cluster * (n - 1) + k < p + 1
  <2>1. CASE n = L
    <3>1. us[n] = t
      BY <1>1, <2>1
    <3>2. ASSUME NEW k \in Slots
          PROVE  dirtables'[t].slots[k].kind # "none" <=> k <= i
      <4>1. CASE k = i
        <5>1. dirtables'[t].slots[k].kind # "none"
          BY <1>3, <4>1
        <5> QED BY <1>5, <4>1, <5>1
      <4>2. CASE k # i /\ t \in DOMAIN dirtables
        <5>1. dirtables'[t].slots[k] = dirtables[t].slots[k]
          BY <1>3, <4>2
        <5>2. n \in DOMAIN current_dir.dirtables /\ current_dir.dirtables[n] = t
          BY <1>1, <1>3, <2>1, <4>2
        <5>3. dirtables[t].slots[k].kind # "none" <=> entrys_per_cluster * (n - 1) + k < p
          BY <1>1, <1>4, <5>2 DEF p
        <5>4. k \in Nat
          BY DEF Slots
        <5>5. entrys_per_cluster * (n - 1) + k < p <=> k <= i
          BY <1>3, <1>5, <1>6, <2>1, <4>2, <5>4
        <5> QED BY <5>1, <5>3, <5>5
      <4>3. CASE k # i /\ t \notin DOMAIN dirtables
        <5>1. dirtables'[t].slots[k] = NoEntry /\ i = 0
          BY <1>3, <4>3
        <5>2. NoEntry.kind = "none"
          BY DEF NoEntry, Entry
        <5>3. k \in Nat
          BY DEF Slots
        <5> QED BY <4>3, <5>1, <5>2, <5>3
      <4> QED BY <4>1, <4>2, <4>3
    <3>3. ASSUME NEW k \in Slots PROVE k <= i <=> entrys_per_cluster * (n - 1) + k < p + 1
      <4>1. k \in Nat
        BY DEF Slots
      <4> QED BY <1>3, <1>5, <1>6, <2>1, <4>1
    <3> QED BY <1>3, <3>1, <3>2, <3>3
  <2>2. CASE n # L
    <3>1. n \in 1 .. L - 1
      BY <1>1, <2>2
    <3>2. /\ n \in DOMAIN current_dir.dirtables /\ us[n] = current_dir.dirtables[n]
          /\ us[n] \in DOMAIN dirtables /\ us[n] # t
      BY <1>1, <3>1
    <3>3. /\ dirtables'[us[n]].dir = dirtables[us[n]].dir
          /\ \A k \in Slots : dirtables'[us[n]].slots[k] = dirtables[us[n]].slots[k]
      BY <1>3, <3>2
    <3>4. dirtables[us[n]].dir = current_dir.path
      BY <1>1, <1>4, <3>2
    <3>5. ASSUME NEW k \in Slots
          PROVE  dirtables[us[n]].slots[k].kind # "none" /\ entrys_per_cluster * (n - 1) + k < p + 1
      <4>1. dirtables[us[n]].slots[k].kind # "none" <=> entrys_per_cluster * (n - 1) + k < p
        BY <1>1, <1>4, <3>2 DEF p
      <4>2. entrys_per_cluster * (n - 1) + k < entrys_per_cluster * (L - 1)
        BY <1>7, <3>1
      <4>3. k \in Nat /\ entrys_per_cluster * (n - 1) \in Nat /\ entrys_per_cluster * (L - 1) \in Nat
        BY <1>1, <1>6 DEF Slots
      <4>4. entrys_per_cluster * (n - 1) + k < p
        BY <1>3, <1>5, <4>2, <4>3
      <4> QED BY <1>2, <4>1, <4>3, <4>4
    <3> QED BY <3>3, <3>4, <3>5
  <2> QED BY <2>1, <2>2
<1>9. p + 1 <= entrys_per_cluster * L /\ p + 1 > entrys_per_cluster * (L - 1)
  <2>1. entrys_per_cluster * L = entrys_per_cluster * (L - 1) + entrys_per_cluster
    BY <1>1, <1>2
  <2>2. entrys_per_cluster * (L - 1) \in Nat
    BY <1>1, <1>6
  <2> QED BY <1>2, <1>3, <1>5, <2>1, <2>2
<1>10. DirectoriesPacked'
  <2> SUFFICES ASSUME NEW d \in DOMAIN dir_stack'
               PROVE  LET ts == dir_stack'[d].dirtables
                          position == dir_stack'[d].current_dir_position
                      IN  /\ position <= entrys_per_cluster * Len(ts)
                          /\ ts # << >> => position > entrys_per_cluster * (Len(ts) - 1)
                          /\ \A n \in DOMAIN ts :
                               /\ dirtables'[ts[n]].dir = dir_stack'[d].path
                               /\ \A k \in Slots :
                                    dirtables'[ts[n]].slots[k].kind # "none"
                                      <=> entrys_per_cluster * (n - 1) + k < position
    BY DEF DirectoriesPacked, Slots
  <2>1. CASE d = top
    <3>1. /\ dir_stack'[d].dirtables = us /\ dir_stack'[d].current_dir_position = p + 1
          /\ dir_stack'[d].path = current_dir.path
      BY <1>1, <1>3, <2>1 DEF us, p
    <3>2. Len(us) = L /\ DOMAIN us = 1 .. L
      BY <1>1 DEF L
    <3> QED BY <1>8, <1>9, <3>1, <3>2
  <2>2. CASE d # top
    <3>1. d \in DOMAIN dir_stack /\ dir_stack'[d] = dir_stack[d]
      BY <1>1, <2>2
    <3>2. \A n \in DOMAIN dir_stack[d].dirtables :
            LET u == dir_stack[d].dirtables[n] IN
            /\ dirtables'[u].dir = dirtables[u].dir
            /\ \A k \in Slots : dirtables'[u].slots[k] = dirtables[u].slots[k]
      BY <1>1, <1>3, <2>2, <3>1
    <3> QED BY <1>4, <3>1, <3>2
  <2> QED BY <2>1, <2>2
<1>11. TablesApart'
  <2>1. ASSUME NEW d \in DOMAIN dir_stack, NEW n \in DOMAIN dir_stack'[d].dirtables
        PROVE  /\ dir_stack'[d].dirtables[n] \in DOMAIN dirtables'
               /\ \/ d = top /\ n = L /\ dir_stack'[d].dirtables[n] = t
                  \/ /\ dir_stack'[d].dirtables[n] # t
                     /\ n \in DOMAIN dir_stack[d].dirtables
                     /\ dir_stack'[d].dirtables[n] = dir_stack[d].dirtables[n]
    <3>1. CASE d = top /\ n = L
      BY <1>1, <1>3, <3>1 DEF us
    <3>2. CASE d = top /\ n # L
      <4>1. n \in 1 .. L - 1
        BY <1>1, <2>1, <3>2 DEF us
      <4> QED BY <1>1, <1>3, <3>2, <4>1 DEF us
    <3>3. CASE d # top
      BY <1>1, <1>3, <2>1, <3>3
    <3> QED BY <3>1, <3>2, <3>3
  <2>2. \A d \in DOMAIN dir_stack : \A n \in DOMAIN dir_stack[d].dirtables :
          \A c \in DOMAIN dir_stack : \A m \in DOMAIN dir_stack[c].dirtables :
            dir_stack[c].dirtables[m] = dir_stack[d].dirtables[n] => c = d /\ m = n
    BY DEF PackedInv, TablesApart
  <2>3. ASSUME NEW d \in DOMAIN dir_stack, NEW n \in DOMAIN dir_stack'[d].dirtables,
               NEW c \in DOMAIN dir_stack, NEW m \in DOMAIN dir_stack'[c].dirtables,
               dir_stack'[c].dirtables[m] = dir_stack'[d].dirtables[n]
        PROVE  c = d /\ m = n
    BY <2>1, <2>2, <2>3
  <2> QED BY <1>1, <2>1, <2>3 DEF TablesApart
<1> QED BY <1>10, <1>11 DEF PackedInv


(* The entry that the running add_file adds next.                          *)
EntryOfJob(entry) ==
  \/ AddLfnEntry /\ entry = LfnEntry
  \/ AddShortEntry /\ entry = ShortEntry
  \/ AddDot /\ entry = DotEntry
  \/ AddDotDot /\ entry = DotDotEntry

(* The directory is at its size limit; nothing is added.                   *)
Dropped == DirIsFull /\ UNCHANGED image /\ events' = events \cup {"dir_full"}

(* The steps that leave the directories alone.                             *)
Quiet ==
  /\ UNCHANGED << dirtables, dir_stack >>
  /\ \/ AddFile \/ AddFolder \/ PickFilePosition \/ fat_new_file \/ Launch \/ UNCHANGED vars
     \/ (AddLfnEntry \/ AddShortEntry) /\ Dropped

(* A step adds an entry, goes into a folder or out of it, or leaves the    *)
(* directories alone.                                                      *)
LEMMA StepKinds ==
  ASSUME TypeInv, [Next]_vars
  PROVE  \/ \E entry \in Entries :
              entry.kind # "none" /\ dir_add_entry(entry) /\ EntryOfJob(entry)
         \/ Quiet
         \/ EnterFolder
         \/ up_dir
<1>1. /\ job.name \in Nat /\ job.size \in Nat /\ job.filePosition \in Nat
      /\ scanned_folder \in Nat /\ job.left \in Nat
  BY ScannedFolderType DEF TypeInv, TypeOK
<1>2. ASSUME NEW k \in {"lfn", "file", "dir", "dot", "dotdot"},
             NEW n \in Nat, NEW f \in Nat, NEW s \in Nat, NEW i \in Nat
      PROVE  Entry(k, n, f, s, i) \in Entries /\ Entry(k, n, f, s, i).kind # "none"
  BY DEF Entry, Entries
<1>3. ASSUME NEW d \in DOMAIN dir_stack
      PROVE  dir_stack[d].dir_location % DotWord \in Nat
  <2>1. dir_stack[d].dir_location \in Nat
    BY StackShape
  <2> QED BY <2>1, DotRemainder
<1>4. CASE AddLfnEntry
  <2>1. LfnEntry \in Entries /\ LfnEntry.kind # "none"
    BY <1>1, <1>2 DEF LfnEntry
  <2>2. dir_add_entry(LfnEntry) \/ Dropped
    BY <1>4 DEF AddLfnEntry, image, Dropped, LfnEntry
  <2> QED BY <1>4, <2>1, <2>2 DEF EntryOfJob, Quiet, Dropped, image
<1>5. CASE AddShortEntry
  <2>1. ShortEntry \in Entries /\ ShortEntry.kind # "none"
    BY <1>1, <1>2 DEF ShortEntry
  <2>2. dir_add_entry(ShortEntry) \/ Dropped
    BY <1>5 DEF AddShortEntry, Dropped
  <2> QED BY <1>5, <2>1, <2>2 DEF EntryOfJob, Quiet, Dropped, image
<1>6. CASE AddDot
  <2>1. Len(dir_stack) \in DOMAIN dir_stack
    BY TopShape
  <2>2. current_dir.dir_location % DotWord \in Nat
    BY <1>3, <2>1 DEF current_dir
  <2>3. DotEntry \in Entries /\ DotEntry.kind # "none"
    BY <1>1, <1>2, <2>2 DEF DotEntry
  <2>4. dir_add_entry(DotEntry)
    BY <1>6 DEF AddDot
  <2> QED BY <1>6, <2>3, <2>4 DEF EntryOfJob
<1>7. CASE AddDotDot
  <2>1. Len(dir_stack) >= 2
    BY <1>7 DEF AddDotDot, TypeInv, ClustersOK
  <2>2. Len(dir_stack) - 1 \in DOMAIN dir_stack
    BY <2>1, TopShape
  <2>3. dir_stack[Len(dir_stack) - 1].dir_location % DotWord \in Nat
    BY <1>3, <2>2
  <2>4. DotDotEntry \in Entries /\ DotDotEntry.kind # "none"
    BY <1>1, <1>2, <2>3 DEF DotDotEntry
  <2>5. dir_add_entry(DotDotEntry)
    BY <1>7 DEF AddDotDot
  <2> QED BY <1>7, <2>4, <2>5 DEF EntryOfJob
<1>8. CASE AddFile \/ AddFolder
  BY <1>8 DEF AddFile, AddFolder, add_file, image, Quiet
<1>9. CASE PickFilePosition
  BY <1>9 DEF PickFilePosition, Quiet
<1>10. CASE fat_new_file
  BY <1>10 DEF fat_new_file, Quiet
<1>11. CASE Launch \/ Serve \/ UNCHANGED vars
  BY <1>11 DEF Launch, Serve, vars, image, Quiet
<1> QED BY <1>4, <1>5, <1>6, <1>7, <1>8, <1>9, <1>10, <1>11 DEF Next

(* The stack with a new directory on top.                                  *)
LEMMA FolderEntered ==
  ASSUME TypeInv, EnterFolder
  PROVE  LET top == Len(dir_stack) + 1
             d == Fat_Directory(job.name, << >>, 0, job.filePosition)
         IN  /\ top \in Nat \ {0} /\ Len(dir_stack') = top /\ DOMAIN dir_stack' = 1 .. top
             /\ DOMAIN dir_stack = 1 .. top - 1
             /\ dir_stack'[top] = d /\ d \in Fat_Directories
             /\ \A c \in 1 .. top - 1 : dir_stack'[c] = dir_stack[c]
<1> DEFINE d == Fat_Directory(job.name, << >>, 0, job.filePosition)
<1>1. job.name \in Nat /\ job.filePosition \in Nat
  BY DEF TypeInv, TypeOK
<1>2. d \in Fat_Directories
  BY <1>1 DEF Fat_Directories, Fat_Directory
<1>3. dir_stack' = Append(dir_stack, d) /\ dir_stack \in Seq(Fat_Directories)
  BY DEF EnterFolder, TypeInv, TypeOK
<1>4. Len(dir_stack) \in Nat \ {0} /\ DOMAIN dir_stack = 1 .. Len(dir_stack)
  BY StackShape
<1> HIDE DEF d
<1>5. /\ Append(dir_stack, d) \in Seq(Fat_Directories)
      /\ Len(Append(dir_stack, d)) = Len(dir_stack) + 1
      /\ \A c \in 1 .. Len(dir_stack) : Append(dir_stack, d)[c] = dir_stack[c]
      /\ Append(dir_stack, d)[Len(dir_stack) + 1] = d
  BY <1>2, <1>3, AppendProperties
<1>6. DOMAIN Append(dir_stack, d) = 1 .. Len(dir_stack) + 1
  BY <1>5, LenProperties
<1> QED BY <1>2, <1>3, <1>4, <1>5, <1>6 DEF d

(* A new directory is packed: it has no dirtable and no entry.             *)
LEMMA PackedAfterEnter ==
  ASSUME TypeInv, PackedInv, EnterFolder
  PROVE  PackedInv'
<1> DEFINE top == Len(dir_stack) + 1
<1>1. /\ top \in Nat \ {0} /\ DOMAIN dir_stack' = 1 .. top /\ DOMAIN dir_stack = 1 .. top - 1
      /\ dir_stack'[top] = Fat_Directory(job.name, << >>, 0, job.filePosition)
      /\ \A c \in 1 .. top - 1 : dir_stack'[c] = dir_stack[c]
  BY FolderEntered
<1>2. dirtables' = dirtables
  BY DEF EnterFolder
<1>3. dir_stack'[top].dirtables = << >> /\ dir_stack'[top].current_dir_position = 0
  BY <1>1 DEF Fat_Directory
<1> HIDE DEF top
<1>4. \A d \in DOMAIN dir_stack' : \/ d \in DOMAIN dir_stack /\ dir_stack'[d] = dir_stack[d]
                                   \/ d = top
  BY <1>1
<1>5. 0 <= entrys_per_cluster * Len(<< >>) /\ DOMAIN << >> = {}
  BY Sizes
<1>6. DirectoriesPacked'
  BY <1>2, <1>3, <1>4, <1>5 DEF PackedInv, DirectoriesPacked
<1>7. TablesApart'
  BY <1>2, <1>3, <1>4, <1>5 DEF PackedInv, TablesApart
<1> QED BY <1>6, <1>7 DEF PackedInv

(* Packed directories stay packed.                                         *)
LEMMA PackedStep ==
  ASSUME TypeInv, PackedInv, [Next]_vars
  PROVE  PackedInv'
<1>1. ASSUME NEW entry \in Entries, entry.kind # "none", dir_add_entry(entry)
      PROVE  PackedInv'
  BY <1>1, EntryPlaced, PackedAfterEntry
<1>2. CASE Quiet
  BY <1>2 DEF Quiet, PackedInv, DirectoriesPacked, TablesApart
<1>3. CASE EnterFolder
  BY <1>3, PackedAfterEnter
<1>4. CASE up_dir
  <2>1. \A d \in DOMAIN dir_stack' : d \in DOMAIN dir_stack /\ dir_stack'[d] = dir_stack[d]
    BY <1>4, UpDirStack DEF TypeInv, TypeOK
  <2>2. dirtables' = dirtables
    BY <1>4 DEF up_dir
  <2> QED BY <2>1, <2>2 DEF PackedInv, DirectoriesPacked, TablesApart
<1> QED BY <1>1, <1>2, <1>3, <1>4, StepKinds

(* The empty image is packed.                                              *)
LEMMA PackedInit == Init => PackedInv
<1> SUFFICES ASSUME Init PROVE PackedInv
  OBVIOUS
<1>1. /\ DOMAIN dir_stack = {1} /\ dir_stack[1].dirtables = << >>
      /\ dir_stack[1].current_dir_position = 0
  BY DEF Init, Fat_Directory
<1>2. 0 <= entrys_per_cluster * Len(<< >>) /\ DOMAIN << >> = {}
  BY Sizes
<1> QED BY <1>1, <1>2 DEF PackedInv, DirectoriesPacked, TablesApart

(* The used slots of an open directory are those below its position, in    *)
(* every reachable state: dir_add_entry writes inside the last buffer, and *)
(* no entry stands behind an empty one.                                    *)
THEOREM PackedCorrect == Spec => []DirectoriesPacked
<1>1. Spec => []TypeInv
  BY TypeCorrect
<1>2. TypeInv /\ PackedInv /\ [Next]_vars => PackedInv'
  BY PackedStep
<1>3. PackedInv => DirectoriesPacked
  BY DEF PackedInv
<1> QED BY <1>1, <1>2, <1>3, PackedInit, PTL DEF Spec


-----------------------------------------------------------------------------
(* What add_file predicts                                                  *)

(* The prediction is about the directory as it is when the short entry     *)
(* comes.                                                                  *)
Predicted == pc = "short" => job.clusters_needed = dir_entry_sectors_needed(job.lfn)

(* Nothing happens between prediction and short entry.                     *)
LEMMA PredictedStep == TypeInv /\ Predicted /\ [Next]_vars => Predicted'
<1> SUFFICES ASSUME TypeInv, Predicted, [Next]_vars, pc' = "short"
             PROVE  job'.clusters_needed = dir_entry_sectors_needed(job.lfn)'
  BY DEF Predicted
<1>1. ASSUME dir_stack' = dir_stack, job'.lfn = job.lfn
      PROVE  dir_entry_sectors_needed(job.lfn)' = dir_entry_sectors_needed(job.lfn)
  BY <1>1 DEF dir_entry_sectors_needed, current_dir
<1>2. CASE PickFilePosition
  <2>1. dir_stack' = dir_stack
    BY <1>2 DEF PickFilePosition
  <2>2. job'.lfn = job.lfn /\ job'.clusters_needed = dir_entry_sectors_needed(job.lfn)
    BY <1>2 DEF PickFilePosition, TypeInv, TypeOK
  <2> QED BY <1>1, <2>1, <2>2
<1>3. CASE UNCHANGED vars
  BY <1>1, <1>3 DEF vars, Predicted
<1>4. CASE Next /\ ~PickFilePosition
  BY <1>3, <1>4 DEF Next, AddFile, AddFolder, add_file, AddLfnEntry, AddShortEntry, fat_new_file,
     EnterFolder, AddDot, AddDotDot, up_dir, Launch, Serve
<1> QED BY <1>2, <1>3, <1>4

(* Inside a cluster, with room for the name once more, it comes true.      *)
LEMMA PredictionInside ==
  ASSUME TypeInv, PackedInv, Predicted
  PROVE  PredictedInside
<1> DEFINE p == current_dir.current_dir_position
           slot == p % entrys_per_cluster
           needed == IF job.lfn = 0 THEN 1 ELSE job.lfn
           free == entrys_per_cluster - slot
           L == Len(current_dir.dirtables)
<1> SUFFICES ASSUME pc = "short", slot > 0, slot <= entrys_per_cluster - needed
             PROVE  job.clusters_needed = ClustersTaken
  BY DEF PredictedInside
<1>1. /\ entrys_per_cluster \in Nat /\ entrys_per_cluster > 1 /\ p \in Nat /\ needed \in Nat
      /\ L \in Nat /\ Len(dir_stack) \in DOMAIN dir_stack /\ current_dir = dir_stack[Len(dir_stack)]
      /\ current_dir.dirtables \in Seq(Nat \ {0})
  BY Sizes, TopShape DEF TypeInv, TypeOK
<1>2. slot \in 0 .. entrys_per_cluster - 1
  <2>1. entrys_per_cluster \in Nat \ {0} /\ p \in Nat
    BY <1>1
  <2> HIDE DEF p
  <2> QED BY <2>1, Division
<1>3. p <= entrys_per_cluster * L /\ (L > 0 => p > entrys_per_cluster * (L - 1))
  <2>1. L > 0 => current_dir.dirtables # << >>
    BY <1>1, EmptySeq
  <2> QED BY <1>1, <2>1 DEF PackedInv, DirectoriesPacked
<1>4. L > 0
  BY <1>1, <1>3, <1>2, PositionTells
<1>5. current_dir.dirtables # << >>
  BY <1>1, <1>4, EmptySeq
<1>6. ClustersTaken = 0
  BY <1>2 DEF ClustersTaken
<1>7. free \in Nat /\ needed <= free
  BY <1>1, <1>2
<1>8. dir_entry_sectors_needed(job.lfn) =
        IF free > needed THEN 0 ELSE ceil_div(needed - free, entrys_per_cluster)
  BY <1>5 DEF dir_entry_sectors_needed
<1> HIDE DEF free, needed
<1>9. CASE free > needed
  BY <1>6, <1>8, <1>9 DEF Predicted
<1>10. CASE ~(free > needed)
  <2>1. needed - free = 0
    BY <1>1, <1>7, <1>10
  <2>2. ceil_div(0, entrys_per_cluster) = 0
    <3>1. 0 \div entrys_per_cluster = 0 /\ 0 % entrys_per_cluster = 0
      BY <1>1
    <3> QED BY <3>1 DEF ceil_div
  <2> QED BY <1>6, <1>8, <1>10, <2>1, <2>2 DEF Predicted
<1> QED BY <1>9, <1>10

(* Wherever the LFN entries and the short entry fit once more in the       *)
(* cluster, add_file foresees how many clusters the short entry takes.     *)
THEOREM PredictsInside == Spec => []PredictedInside
<1>1. Init => Predicted
  BY DEF Init, Predicted
<1>2. TypeInv /\ PackedInv /\ [Next]_vars => PackedInv'
  BY PackedStep
<1>3. TypeInv /\ PackedInv /\ Predicted => PredictedInside
  BY PredictionInside
<1> QED BY <1>1, <1>2, <1>3, PredictedStep, PackedInit, TypeCorrect, PTL DEF Spec

-----------------------------------------------------------------------------
(* The tree of directories                                                 *)

(* The slots of a dirtable.                                                *)
LEMMA TableShape ==
  ASSUME TypeInv
  PROVE  \A t \in DOMAIN dirtables :
           /\ t \in Nat \ {0} /\ dirtables[t] \in DirTables /\ dirtables[t].dir \in Nat
           /\ DOMAIN dirtables[t].slots = Slots
           /\ \A i \in Slots : dirtables[t].slots[i] \in Entries
<1>1. \A t \in DOMAIN dirtables : t \in Nat \ {0} /\ dirtables[t] \in DirTables
  BY ElementOfSeq, LenProperties DEF TypeInv, TypeOK
<1> QED BY <1>1 DEF DirTables, Slots

(* A used slot is the new one or was used before.                          *)
LEMMA EntriesAfter ==
  ASSUME TypeInv, NEW entry, NEW t, NEW i, Placed(entry, t, i),
         NEW u \in DOMAIN dirtables', NEW k \in Slots, dirtables'[u].slots[k].kind # "none"
  PROVE  \/ /\ u = t /\ k = i /\ dirtables'[u].slots[k] = entry
            /\ dirtables'[u].dir = current_dir.path
         \/ /\ u # t \/ k # i
            /\ u \in DOMAIN dirtables
            /\ dirtables'[u].slots[k] = dirtables[u].slots[k]
            /\ dirtables'[u].dir = dirtables[u].dir
<1>1. /\ DOMAIN dirtables' = DOMAIN dirtables \cup {t}
      /\ \A v \in DOMAIN dirtables :
           /\ dirtables'[v].dir = dirtables[v].dir
           /\ \A l \in Slots : v # t \/ l # i => dirtables'[v].slots[l] = dirtables[v].slots[l]
      /\ dirtables'[t].dir = current_dir.path
      /\ dirtables'[t].slots[i] = entry
      /\ t \notin DOMAIN dirtables => \A l \in Slots : l # i => dirtables'[t].slots[l] = NoEntry
  BY DEF Placed
<1>2. NoEntry.kind = "none"
  BY DEF NoEntry, Entry
<1>3. CASE u = t /\ k = i
  BY <1>1, <1>3
<1>4. CASE u # t \/ k # i
  <2>1. u \in DOMAIN dirtables
    BY <1>1, <1>2, <1>4
  <2> QED BY <1>1, <1>4, <2>1
<1> QED BY <1>3, <1>4

(* The current directory is that of the folder being read, or of the one   *)
(* that is about to be.                                                    *)
StackMatches ==
  /\ Len(dir_stack) = Len(scan_stack) + (IF pc \in {"dot", "dotdot"} THEN 1 ELSE 0)
  /\ \A d \in DOMAIN scan_stack : dir_stack[d].path = scan_stack[d]
  /\ pc \in {"dot", "dotdot"} => current_dir.path = job.name

TreeInv == "dir_full" \notin events => StackMatches /\ TreeMatches

(* The folders being read.                                                 *)
LEMMA ScanShape ==
  ASSUME TypeInv
  PROVE  Len(scan_stack) \in Nat \ {0} /\ DOMAIN scan_stack = 1 .. Len(scan_stack)
         /\ scan_stack \in Seq(Nat)
  BY LenProperties, EmptySeq DEF TypeInv, TypeOK

(* The new entry is in the directory of the folder it was read in.         *)
LEMMA EntryInFolder ==
  ASSUME TypeInv, StackMatches, NEW entry, EntryOfJob(entry)
  PROVE  entry.in = current_dir.path
<1>1. /\ Len(scan_stack) \in Nat \ {0} /\ DOMAIN scan_stack = 1 .. Len(scan_stack)
      /\ Len(scan_stack) \in DOMAIN scan_stack
  BY ScanShape
<1>2. CASE (AddLfnEntry /\ entry = LfnEntry) \/ (AddShortEntry /\ entry = ShortEntry)
  <2>1. pc \in {"lfn", "short"}
    BY <1>2 DEF AddLfnEntry, AddShortEntry
  <2>2. Len(dir_stack) = Len(scan_stack)
    <3>1. Len(dir_stack) = Len(scan_stack) + 0
      BY <2>1 DEF StackMatches
    <3> QED BY <1>1, <3>1
  <2>3. current_dir.path = scanned_folder
    BY <1>1, <2>2 DEF StackMatches, current_dir, scanned_folder
  <2>4. entry.in = scanned_folder
    BY <1>2 DEF LfnEntry, ShortEntry, Entry
  <2> QED BY <2>3, <2>4
<1>3. CASE (AddDot /\ entry = DotEntry) \/ (AddDotDot /\ entry = DotDotEntry)
  <2>1. pc \in {"dot", "dotdot"} /\ entry.in = job.name
    BY <1>3 DEF AddDot, AddDotDot, DotEntry, DotDotEntry, Entry
  <2> QED BY <2>1 DEF StackMatches
<1> QED BY <1>2, <1>3 DEF EntryOfJob


(* An entry does not change which folders are open.                        *)
LEMMA PathsKept ==
  ASSUME TypeInv, PackedInv, NEW entry \in Entries, dir_add_entry(entry)
  PROVE  /\ Len(dir_stack') = Len(dir_stack) /\ DOMAIN dir_stack' = DOMAIN dir_stack
         /\ \A d \in DOMAIN dir_stack : dir_stack'[d].path = dir_stack[d].path
         /\ current_dir'.path = current_dir.path
<1>1. PICK t, i : Placed(entry, t, i)
  BY EntryPlaced
<1>2. /\ Len(dir_stack') = Len(dir_stack) /\ DOMAIN dir_stack' = DOMAIN dir_stack
      /\ current_dir'.path = current_dir.path
      /\ \A d \in DOMAIN dir_stack : d # Len(dir_stack) => dir_stack'[d] = dir_stack[d]
  BY <1>1 DEF Placed
<1>3. current_dir = dir_stack[Len(dir_stack)] /\ current_dir' = dir_stack'[Len(dir_stack)]
  BY <1>2 DEF current_dir
<1> QED BY <1>2, <1>3

(* scan_folder and the chain of Fat_Directories go hand in hand, as long   *)
(* as no directory is full.                                                *)
LEMMA StackMatchesStep ==
  ASSUME TypeInv, PackedInv, StackMatches, [Next]_vars, "dir_full" \notin events'
  PROVE  StackMatches'
<1>1. /\ Len(scan_stack) \in Nat \ {0} /\ DOMAIN scan_stack = 1 .. Len(scan_stack)
      /\ Len(dir_stack) \in Nat \ {0} /\ DOMAIN dir_stack = 1 .. Len(dir_stack)
      /\ dir_stack \in Seq(Fat_Directories) \ {<< >>}
      /\ scan_stack \in Seq(Nat) /\ job.name \in Nat
  BY ScanShape, StackShape DEF TypeInv, TypeOK
<1>2. /\ pc \in {"dot", "dotdot"} => /\ Len(dir_stack) = Len(scan_stack) + 1
                                     /\ current_dir.path = job.name
      /\ pc \notin {"dot", "dotdot"} => Len(dir_stack) = Len(scan_stack)
      /\ \A d \in 1 .. Len(scan_stack) : d \in DOMAIN dir_stack /\ dir_stack[d].path = scan_stack[d]
  <2>1. /\ Len(dir_stack) = Len(scan_stack) + (IF pc \in {"dot", "dotdot"} THEN 1 ELSE 0)
        /\ \A d \in DOMAIN scan_stack : dir_stack[d].path = scan_stack[d]
        /\ pc \in {"dot", "dotdot"} => current_dir.path = job.name
    BY DEF StackMatches
  <2>2. pc \in {"dot", "dotdot"} => Len(dir_stack) = Len(scan_stack) + 1
    BY <2>1
  <2>3. pc \notin {"dot", "dotdot"} => Len(dir_stack) = Len(scan_stack)
    <3>1. pc \notin {"dot", "dotdot"} => Len(dir_stack) = Len(scan_stack) + 0
      BY <2>1
    <3>2. Len(scan_stack) + 0 = Len(scan_stack)
      BY <1>1
    <3> QED BY <3>1, <3>2, Zenon
  <2>4. \A d \in 1 .. Len(scan_stack) : d \in DOMAIN dir_stack
    <3>1. Len(dir_stack) = Len(scan_stack) + 1 \/ Len(dir_stack) = Len(scan_stack)
      BY <2>2, <2>3, Zenon
    <3>2. Len(scan_stack) \in Nat
      BY <1>1
    <3>3. \A d \in 1 .. Len(scan_stack) : d \in 1 .. Len(dir_stack)
      BY <3>1, <3>2
    <3> QED BY <1>1, <3>3
  <2>5. \A d \in 1 .. Len(scan_stack) : dir_stack[d].path = scan_stack[d]
    BY <1>1, <2>1
  <2> QED BY <2>1, <2>2, <2>3, <2>4, <2>5
<1>3. ASSUME UNCHANGED << dir_stack, scan_stack >>,
             pc \notin {"dot", "dotdot"}, pc' \notin {"dot", "dotdot"}
      PROVE  StackMatches'
  BY <1>3 DEF StackMatches
<1>4. ASSUME NEW entry \in Entries, dir_add_entry(entry)
      PROVE  /\ Len(dir_stack') = Len(dir_stack) /\ DOMAIN dir_stack' = DOMAIN dir_stack
             /\ \A d \in DOMAIN dir_stack : dir_stack'[d].path = dir_stack[d].path
             /\ current_dir'.path = current_dir.path
  BY <1>4, PathsKept
<1>5. ASSUME NEW entry \in Entries, dir_add_entry(entry), scan_stack' = scan_stack,
             pc \notin {"dot", "dotdot"}, pc' \notin {"dot", "dotdot"}
      PROVE  StackMatches'
  <2>1. Len(dir_stack') = Len(scan_stack) /\ \A d \in DOMAIN scan_stack : dir_stack'[d].path = scan_stack[d]
    BY <1>1, <1>2, <1>4, <1>5
  <2>2. Len(scan_stack) = Len(scan_stack) + 0
    BY <1>1
  <2> QED BY <1>5, <2>1, <2>2 DEF StackMatches
<1>6. CASE AddFile \/ AddFolder
  <2>1. UNCHANGED << dir_stack, scan_stack >> /\ pc = "readdir" /\ pc' \in {"lfn", "position"}
    BY <1>6 DEF AddFile, AddFolder, add_file, image
  <2> QED BY <1>3, <2>1
<1>7. CASE PickFilePosition \/ fat_new_file \/ Launch
  <2>1. UNCHANGED << dir_stack, scan_stack >> /\ pc \in {"position", "data", "readdir"}
        /\ pc' \in {"short", "readdir", "serving"}
    BY <1>7 DEF PickFilePosition, fat_new_file, Launch, image
  <2> QED BY <1>3, <2>1
<1>8. CASE UNCHANGED vars
  <2>1. UNCHANGED << dir_stack, scan_stack, pc, job >>
    BY <1>8 DEF vars
  <2> QED BY <2>1 DEF StackMatches, current_dir
<1>9. ASSUME NEW entry \in Entries, dir_add_entry(entry), EntryOfJob(entry)
      PROVE  StackMatches'
  <2>1. CASE AddLfnEntry
    <3>1. scan_stack' = scan_stack /\ pc = "lfn" /\ pc' \in {"lfn", "position"}
      BY <2>1 DEF AddLfnEntry
    <3> QED BY <1>5, <1>9, <3>1
  <2>2. CASE AddShortEntry
    <3>1. scan_stack' = scan_stack /\ pc = "short" /\ pc' \in {"enter", "data"}
      BY <1>9, <2>2 DEF AddShortEntry, dir_add_entry
    <3> QED BY <1>5, <1>9, <3>1
  <2>3. CASE AddDot
    <3>1. scan_stack' = scan_stack /\ pc = "dot" /\ pc' = "dotdot" /\ job' = job
      BY <2>3 DEF AddDot
    <3>2. Len(dir_stack') = Len(scan_stack) + 1 /\ current_dir'.path = job.name
          /\ \A d \in DOMAIN scan_stack : dir_stack'[d].path = scan_stack[d]
      BY <1>1, <1>2, <1>4, <1>9, <3>1
    <3> QED BY <3>1, <3>2 DEF StackMatches
  <2>4. CASE AddDotDot
    <3>1. scan_stack' = Append(scan_stack, job.name) /\ pc = "dotdot" /\ pc' = "readdir"
      BY <2>4 DEF AddDotDot
    <3>2. /\ Len(scan_stack') = Len(scan_stack) + 1
          /\ DOMAIN scan_stack' = 1 .. Len(scan_stack) + 1
          /\ \A d \in 1 .. Len(scan_stack) : scan_stack'[d] = scan_stack[d]
          /\ scan_stack'[Len(scan_stack) + 1] = job.name
      BY <1>1, <3>1, AppendProperties
    <3>3. Len(dir_stack) = Len(scan_stack) + 1 /\ current_dir.path = job.name
      BY <1>2, <3>1
    <3>4. Len(dir_stack') = Len(scan_stack')
      BY <1>4, <1>9, <3>2, <3>3
    <3>5. dir_stack'[Len(scan_stack) + 1].path = job.name
      BY <1>1, <1>4, <1>9, <3>3 DEF current_dir
    <3>6. \A d \in DOMAIN scan_stack' : dir_stack'[d].path = scan_stack'[d]
      <4> SUFFICES ASSUME NEW d \in DOMAIN scan_stack' PROVE dir_stack'[d].path = scan_stack'[d]
        OBVIOUS
      <4>1. CASE d \in 1 .. Len(scan_stack)
        BY <1>1, <1>2, <1>4, <1>9, <3>2, <4>1
      <4>2. CASE d = Len(scan_stack) + 1
        BY <3>2, <3>5, <4>2
      <4> QED BY <1>1, <3>2, <4>1, <4>2
    <3>7. Len(scan_stack') + 0 = Len(scan_stack')
      BY <1>1, <3>2
    <3> QED BY <3>1, <3>4, <3>6, <3>7 DEF StackMatches
  <2> QED BY <1>9, <2>1, <2>2, <2>3, <2>4 DEF EntryOfJob
<1>10. CASE EnterFolder
  <2>1. scan_stack' = scan_stack /\ pc = "enter" /\ pc' = "dot" /\ job' = job
    BY <1>10 DEF EnterFolder
  <2>2. /\ Len(dir_stack') = Len(dir_stack) + 1
        /\ dir_stack'[Len(dir_stack) + 1] = Fat_Directory(job.name, << >>, 0, job.filePosition)
        /\ \A c \in 1 .. Len(dir_stack) : dir_stack'[c] = dir_stack[c]
    BY <1>1, <1>10, FolderEntered
  <2>3. current_dir'.path = job.name
    BY <2>2 DEF current_dir, Fat_Directory
  <2>4. Len(dir_stack') = Len(scan_stack) + 1 /\ \A d \in DOMAIN scan_stack : dir_stack'[d].path = scan_stack[d]
    BY <1>1, <1>2, <2>1, <2>2
  <2> QED BY <2>1, <2>3, <2>4 DEF StackMatches
<1>11. CASE up_dir
  <2>1. /\ pc = "readdir" /\ pc' = "readdir" /\ Len(scan_stack) > 1 /\ Len(dir_stack) = Len(scan_stack)
        /\ scan_stack' = SubSeq(scan_stack, 1, Len(scan_stack) - 1)
        /\ dir_stack' = SubSeq(dir_stack, 1, Len(dir_stack) - 1)
    BY <1>2, <1>11 DEF up_dir, ParentStack
  <2>2. /\ scan_stack' \in Seq(Nat) /\ Len(scan_stack') = Len(scan_stack) - 1
        /\ \A d \in 1 .. Len(scan_stack) - 1 : scan_stack'[d] = scan_stack[d]
    BY <1>1, <2>1, SubSeqProperties
  <2>3. /\ Len(dir_stack') = Len(scan_stack) - 1
        /\ \A d \in 1 .. Len(scan_stack) - 1 : dir_stack'[d] = dir_stack[d]
    BY <1>1, <2>1, SubSeqProperties
  <2>4. DOMAIN scan_stack' = 1 .. Len(scan_stack) - 1
    BY <2>2, LenProperties
  <2>5. \A d \in DOMAIN scan_stack' : dir_stack'[d].path = scan_stack'[d]
    <3> SUFFICES ASSUME NEW d \in DOMAIN scan_stack' PROVE dir_stack'[d].path = scan_stack'[d]
      OBVIOUS
    <3>1. d \in 1 .. Len(scan_stack) /\ d \in 1 .. Len(scan_stack) - 1
      BY <1>1, <2>4
    <3> QED BY <1>2, <2>2, <2>3, <3>1
  <2>6. Len(dir_stack') = Len(scan_stack') + 0
    BY <1>1, <2>2, <2>3
  <2> QED BY <2>1, <2>5, <2>6 DEF StackMatches
<1>12. CASE Quiet
  BY <1>6, <1>7, <1>8, <1>12 DEF Quiet, Dropped
<1> QED BY <1>9, <1>10, <1>11, <1>12, StepKinds


(* The entries stay in the directories of their folders.                   *)
LEMMA TreeStep == TypeInv /\ PackedInv /\ TreeInv /\ [Next]_vars => TreeInv'
<1> SUFFICES ASSUME TypeInv, PackedInv, TreeInv, [Next]_vars
             PROVE  ("dir_full" \notin events => StackMatches /\ TreeMatches)'
  BY DEF TreeInv
<1> SUFFICES ASSUME "dir_full" \notin events'
             PROVE  StackMatches' /\ TreeMatches'
  OBVIOUS
<1>1. "dir_full" \notin events
  BY EventsGrow
<1>2. StackMatches /\ TreeMatches
  BY <1>1 DEF TreeInv
<1>3. StackMatches'
  BY <1>2, StackMatchesStep
<1>4. CASE dirtables' = dirtables
  BY <1>2, <1>3, <1>4 DEF TreeMatches
<1>5. ASSUME NEW entry \in Entries, entry.kind # "none", dir_add_entry(entry), EntryOfJob(entry)
      PROVE  TreeMatches'
  <2>1. PICK t, i : Placed(entry, t, i)
    BY <1>5, EntryPlaced
  <2>2. entry.in = current_dir.path
    BY <1>2, <1>5, EntryInFolder
  <2>3. \A u \in DOMAIN dirtables' : DOMAIN dirtables'[u].slots = Slots
    <3>1. TypeInv'
      BY TypeStep
    <3>2. dirtables' \in Seq(DirTables)
      BY <3>1 DEF TypeInv, TypeOK
    <3>3. \A u \in DOMAIN dirtables' : dirtables'[u] \in DirTables
      BY <3>2, ElementOfSeq, LenProperties
    <3> QED BY <3>3 DEF DirTables, Slots
  <2>4. \A u \in DOMAIN dirtables : DOMAIN dirtables[u].slots = Slots
    BY TableShape
  <2> SUFFICES ASSUME NEW u \in DOMAIN dirtables', NEW k \in Slots,
                      dirtables'[u].slots[k].kind # "none"
               PROVE  dirtables'[u].slots[k].in = dirtables'[u].dir
    BY <2>3 DEF TreeMatches
  <2> QED BY <1>2, <2>1, <2>2, <2>4, EntriesAfter DEF TreeMatches
<1>6. (\E entry \in Entries : entry.kind # "none" /\ dir_add_entry(entry) /\ EntryOfJob(entry))
      \/ dirtables' = dirtables
  BY StepKinds DEF Quiet, EnterFolder, up_dir
<1> QED BY <1>3, <1>4, <1>5, <1>6

(* At first only the exported folder is open.                              *)
LEMMA TreeInit == Init => TreeInv
<1> SUFFICES ASSUME Init PROVE StackMatches /\ TreeMatches
  BY DEF TreeInv
<1>1. /\ dir_stack = << Fat_Directory(RootFolder, << >>, 0, root_dir_loc) >>
      /\ scan_stack = << RootFolder >> /\ pc = "readdir" /\ dirtables = << >>
  BY DEF Init
<1>2. Len(dir_stack) = 1 /\ Len(scan_stack) = 1 /\ DOMAIN scan_stack = {1}
      /\ dir_stack[1].path = RootFolder /\ scan_stack[1] = RootFolder /\ DOMAIN dirtables = {}
  BY <1>1 DEF Fat_Directory
<1> QED BY <1>1, <1>2 DEF StackMatches, TreeMatches

(* In every reachable state in which no directory has been full, every     *)
(* entry is in the directory of the folder its name was read in.           *)
THEOREM TreeCorrect == Spec => []TreeKept
<1>1. TypeInv /\ PackedInv /\ [Next]_vars => PackedInv'
  BY PackedStep
<1>2. TreeInv => TreeKept
  BY DEF TreeInv, TreeKept
<1> QED BY <1>1, <1>2, TreeInit, TreeStep, PackedInit, TypeCorrect, PTL DEF Spec


-----------------------------------------------------------------------------
(* The regions on the disk                                                 *)

(* The disk has room for both FATs besides the clusters: build_boot_sector *)
(* counts BPB_FATSz32 * BPB_SecPerClus sectors for them, which is enough   *)
(* with two sectors to a cluster or more.                                  *)
FatsFit == BPB_SecPerClus >= BPB_NumFATs

(* setup.c's regions stay the first ones.                                  *)
SetupKept ==
  /\ Len(address_regions) >= Len(SetupRegions)
  /\ \A i \in DOMAIN SetupRegions : address_regions[i] = SetupRegions[i]

(* A cluster's sectors are those of its entries, in whole words.           *)
LEMMA WholeWords ==
  \E q \in Nat : /\ BPB_BytsPerSec = 4 * q /\ BPB_BytsPerSec \div 4 = q
                 /\ fat_entries = BPB_FATSz32 * q
<1> DEFINE k == BPB_BytsPerSec \div 32
           q == 8 * k
<1>1. BPB_BytsPerSec \in Nat \ {0} /\ BPB_FATSz32 \in Nat \ {0} /\ BPB_BytsPerSec % 32 = 0
  BY LayoutAssumption, FatFilesAssumption DEF DirEntrySize
<1>2. k \in Nat /\ BPB_BytsPerSec = 32 * k + 0
  BY <1>1, Division
<1> HIDE DEF k
<1>3. q \in Nat /\ BPB_BytsPerSec = 4 * q
  BY <1>1, <1>2
<1> HIDE DEF q
<1>4. BPB_BytsPerSec \div 4 = q
  BY <1>3
<1>5. BPB_FATSz32 * q \in Nat
  BY <1>1, <1>3
<1>6. BPB_FATSz32 * BPB_BytsPerSec = 4 * (BPB_FATSz32 * q)
  BY <1>1, <1>3
<1>7. (BPB_FATSz32 * BPB_BytsPerSec) \div 4 = BPB_FATSz32 * q
  <2> DEFINE x == BPB_FATSz32 * q
  <2>1. x \in Nat
    BY <1>5
  <2> HIDE DEF x
  <2>2. (4 * x) \div 4 = x
    BY <2>1
  <2> QED BY <1>6, <2>2 DEF x
<1> QED BY <1>3, <1>4, <1>7 DEF fat_entries

(* The data area ends where the disk ends or before.                       *)
LEMMA DiskEnd ==
  ASSUME FatsFit
  PROVE  /\ address_from_fatclus(fat_entries) <= DiskSize * BPB_BytsPerSec
         /\ part1_base + BPB_BytsPerSec * (BPB_RsvdSecCnt + 2 * BPB_FATSz32) <= DiskSize * BPB_BytsPerSec
<1>1. PICK q \in Nat : BPB_BytsPerSec \div 4 = q /\ fat_entries = BPB_FATSz32 * q
  BY WholeWords
<1> DEFINE b == BPB_BytsPerSec
           s == BPB_SecPerClus
           f == BPB_FATSz32
           r == BPB_RsvdSecCnt
           base == PartStart
<1>2. b \in Nat /\ s \in Nat /\ f \in Nat /\ r \in Nat /\ base \in Nat /\ s >= 2
  BY LayoutAssumption DEF FatsFit
<1>3. DiskSize * BPB_BytsPerSec = (f * s * q + r + f * s + base) * b
  BY <1>1 DEF DiskSize, BPB_TotSec32
<1>4. address_from_fatclus(fat_entries) = base * b + b * (r + f * 2) + (b * s) * (f * q - 2)
  BY <1>1, LayoutAssumption DEF address_from_fatclus, address_from_fatsec, fat_location, cluster_size, part1_base
<1>5. part1_base + BPB_BytsPerSec * (BPB_RsvdSecCnt + 2 * BPB_FATSz32) = base * b + b * (r + 2 * f)
  BY DEF part1_base
<1> HIDE DEF b, s, f, r, base
<1> DEFINE m == b * f
           w == (b * s) * (f * q)
<1>6. m \in Nat /\ w \in Nat /\ b * s \in Nat /\ b * r \in Nat /\ base * b \in Nat /\ f * q \in Nat
  BY <1>1, <1>2
<1>7. m * s >= m * 2
  BY <1>2, <1>6
<1>8. b * (r + f * 2) = b * r + m * 2 /\ b * (r + 2 * f) = b * r + m * 2
  BY <1>2
<1>9. (b * s) * (f * q - 2) = w - 2 * (b * s)
  BY <1>1, <1>2
<1>10. (f * s * q + r + f * s + base) * b = w + b * r + m * s + base * b
  <2>1. f * s * q \in Nat /\ f * s \in Nat
    BY <1>1, <1>2
  <2>2. (f * s * q + r + f * s + base) * b = (f * s * q) * b + r * b + (f * s) * b + base * b
    BY <1>2, <2>1
  <2>3. (f * s * q) * b = w
    BY <1>1, <1>2
  <2>4. (f * s) * b = m * s /\ r * b = b * r
    BY <1>2
  <2> QED BY <2>2, <2>3, <2>4
<1> HIDE DEF m, w
<1> DEFINE x == b * s
           y == b * r
           z == base * b
           v == m * s
<1>11. x \in Nat /\ y \in Nat /\ z \in Nat /\ v \in Int /\ v >= m * 2
  BY <1>2, <1>6, <1>7
<1> HIDE DEF x, y, z, v
<1>12. z + (y + m * 2) + (w - 2 * x) <= w + y + v + z /\ z + (y + m * 2) <= w + y + v + z
  BY <1>6, <1>11
<1> QED BY <1>3, <1>4, <1>5, <1>8, <1>9, <1>10, <1>12 DEF x, y, z, v, b, f, r, base, s


(* What an added region leaves as it was.                                  *)
LEMMA RegionAppended ==
  ASSUME TypeInv, NEW r, address_regions' = Append(address_regions, r)
  PROVE  /\ Len(address_regions') = Len(address_regions) + 1 /\ Len(address_regions) \in Nat
         /\ \A i \in 1 .. Len(address_regions) : address_regions'[i] = address_regions[i]
         /\ address_regions'[Len(address_regions) + 1] = r
<1>1. address_regions \in Seq(AddressRegions)
  BY DEF TypeInv, TypeOK
<1> QED BY <1>1

(* Regions are only ever appended, by an entry that takes a cluster and by *)
(* fat_new_file.                                                           *)
LEMMA RegionsGrow ==
  ASSUME TypeInv, PackedInv, [Next]_vars
  PROVE  address_regions' = address_regions \/ \E r : address_regions' = Append(address_regions, r)
<1>1. ASSUME NEW entry \in Entries, dir_add_entry(entry)
      PROVE  address_regions' = address_regions \/ \E r : address_regions' = Append(address_regions, r)
  <2>1. PICK t, i : Placed(entry, t, i)
    BY <1>1, EntryPlaced
  <2>2. \/ address_regions' = address_regions
        \/ address_regions' = Append(address_regions,
             AddressRegion(address_from_fatclus(current_dir'.dir_location), cluster_size, DirTable(t), 0))
    BY <2>1 DEF Placed
  <2> QED BY <2>2
<1>2. CASE Quiet
  BY <1>2 DEF Quiet, AddFile, AddFolder, add_file, image, PickFilePosition, fat_new_file, Launch, vars, Dropped
<1>3. CASE EnterFolder \/ up_dir
  BY <1>3 DEF EnterFolder, up_dir
<1> QED BY <1>1, <1>2, <1>3, StepKinds

(* setup.c's regions are six, and they lie on the disk.                    *)
LEMMA SetupOnDisk ==
  ASSUME FatsFit
  PROVE  /\ Len(SetupRegions) = 6 /\ DOMAIN SetupRegions = 1 .. 6
         /\ \A i \in 1 .. 6 : SetupRegions[i].base + SetupRegions[i].length <= DiskSize * BPB_BytsPerSec
<1> DEFINE b == BPB_BytsPerSec
           f == BPB_FATSz32
           end == DiskSize * BPB_BytsPerSec
           r == BPB_RsvdSecCnt
           k == BPB_BkBootSec
           s == BPB_FSInfo
           base == PartStart
           part == PartStart * BPB_BytsPerSec
<1>1. /\ b \in Nat \ {0} /\ f \in Nat /\ r \in Nat /\ k \in Nat /\ s \in Nat
      /\ k + 1 <= r /\ s + 1 <= r /\ 0 + 1 <= r /\ base \in Nat /\ base >= 1
  BY LayoutAssumption
<1>2. part1_base + b * (r + 2 * f) <= end
  BY DiskEnd
<1>3. part1_base = part
  BY DEF part1_base
<1>4. /\ address_from_fatsec(fat_location(0)) = part + b * (r + f * 0)
      /\ address_from_fatsec(fat_location(1)) = part + b * (r + f * 1)
  BY <1>3 DEF address_from_fatsec, fat_location
<1>5. end \in Int
  <2>1. DiskSize \in Int
    <3>1. PICK q \in Nat : BPB_BytsPerSec \div 4 = q
      BY WholeWords
    <3> QED BY <3>1, LayoutAssumption DEF DiskSize, BPB_TotSec32
  <2> QED BY <1>1, <2>1
<1>6. part \in Nat /\ part = base * b
  BY <1>1
<1> HIDE DEF b, f, end, r, k, s, base, part
<1>7. \A n \in Nat : n <= r + 2 * f => part + b * n <= end
  <2> SUFFICES ASSUME NEW n \in Nat, n <= r + 2 * f PROVE part + b * n <= end
    OBVIOUS
  <2> DEFINE d == r + 2 * f - n
  <2>1. d \in Nat /\ r + 2 * f = n + d
    BY <1>1
  <2> HIDE DEF d
  <2>2. b * (r + 2 * f) = b * n + b * d /\ b * d \in Nat /\ b * n \in Nat
    BY <1>1, <2>1
  <2>3. part + b * (r + 2 * f) <= end
    BY <1>2, <1>3
  <2> QED BY <1>5, <1>6, <2>2, <2>3
<1>8. /\ 0 + b <= end /\ part + b <= end /\ part + k * b + b <= end /\ part + s * b + b <= end
      /\ part + b * (r + f * 0) + f * b <= end /\ part + b * (r + f * 1) + f * b <= end
  <2>1. b = b * 1 /\ part >= b
    BY <1>1, <1>6
  <2>2. k * b + b = b * (k + 1) /\ s * b + b = b * (s + 1)
    BY <1>1
  <2>3. b * (r + f * 0) + f * b = b * (r + f) /\ b * (r + f * 1) + f * b = b * (r + 2 * f)
    BY <1>1
  <2>4. /\ part + b * 1 <= end /\ part + b * (k + 1) <= end /\ part + b * (s + 1) <= end
        /\ part + b * (r + f) <= end /\ part + b * (r + 2 * f) <= end
    <3>1. /\ 1 \in Nat /\ 1 <= r + 2 * f
          /\ k + 1 \in Nat /\ k + 1 <= r + 2 * f
          /\ s + 1 \in Nat /\ s + 1 <= r + 2 * f
          /\ r + f \in Nat /\ r + f <= r + 2 * f
          /\ r + 2 * f \in Nat /\ r + 2 * f <= r + 2 * f
      BY <1>1
    <3>2. part + b * 1 <= end /\ part + b * (k + 1) <= end /\ part + b * (s + 1) <= end
      BY <1>7, <3>1, Zenon
    <3>3. part + b * (r + f) <= end /\ part + b * (r + 2 * f) <= end
      BY <1>7, <3>1, Zenon
    <3> QED BY <3>2, <3>3
  <2>5. 0 + b <= end /\ part + b <= end
    BY <1>1, <1>5, <1>6, <2>1, <2>4
  <2>6. part + k * b + b <= end /\ part + s * b + b <= end
    <3> DEFINE x == k * b
               y == s * b
    <3>1. x \in Nat /\ y \in Nat
      BY <1>1
    <3>2. part + (x + b) <= end /\ part + (y + b) <= end
      BY <2>2, <2>4
    <3> HIDE DEF x, y
    <3>3. part + x + b <= end /\ part + y + b <= end
      BY <1>1, <1>6, <3>1, <3>2
    <3> QED BY <3>3 DEF x, y
  <2>7. part + b * (r + f * 0) + f * b <= end /\ part + b * (r + f * 1) + f * b <= end
    <3> DEFINE x == b * (r + f * 0)
               y == b * (r + f * 1)
               z == f * b
    <3>1. x \in Nat /\ y \in Nat /\ z \in Nat
      BY <1>1
    <3>2. part + (x + z) <= end /\ part + (y + z) <= end
      BY <2>3, <2>4
    <3> HIDE DEF x, y, z
    <3>3. part + x + z <= end /\ part + y + z <= end
      BY <1>6, <3>1, <3>2
    <3> QED BY <3>3 DEF x, y, z
  <2> QED BY <2>5, <2>6, <2>7
<1>9. Len(SetupRegions) = 6 /\ DOMAIN SetupRegions = 1 .. 6
  BY DEF SetupRegions
<1>10. ASSUME NEW i \in 1 .. 6
       PROVE  SetupRegions[i].base + SetupRegions[i].length <= end
  <2>1. CASE i = 1
    BY <1>8, <2>1 DEF SetupRegions, AddressRegion, b
  <2>2. CASE i = 2
    BY <1>3, <1>8, <2>2 DEF SetupRegions, AddressRegion, b
  <2>3. CASE i = 3
    BY <1>3, <1>8, <2>3 DEF SetupRegions, AddressRegion, b, k
  <2>4. CASE i = 4
    BY <1>3, <1>8, <2>4 DEF SetupRegions, AddressRegion, b, s
  <2>5. CASE i = 5
    BY <1>4, <1>8, <2>5 DEF SetupRegions, AddressRegion, b, f
  <2>6. CASE i = 6
    BY <1>4, <1>8, <2>6 DEF SetupRegions, AddressRegion, b, f
  <2> QED BY <2>1, <2>2, <2>3, <2>4, <2>5, <2>6
<1> QED BY <1>9, <1>10 DEF end


(* setup.c's regions are kept.                                             *)
LEMMA SetupStep == TypeInv /\ PackedInv /\ SetupKept /\ [Next]_vars => SetupKept'
<1> SUFFICES ASSUME TypeInv, PackedInv, SetupKept, [Next]_vars PROVE SetupKept'
  OBVIOUS
<1>1. CASE address_regions' = address_regions
  BY <1>1 DEF SetupKept
<1>2. ASSUME NEW r, address_regions' = Append(address_regions, r) PROVE SetupKept'
  <2>1. /\ Len(address_regions') = Len(address_regions) + 1 /\ Len(address_regions) \in Nat
        /\ \A i \in 1 .. Len(address_regions) : address_regions'[i] = address_regions[i]
    BY <1>2, RegionAppended
  <2>2. Len(SetupRegions) = 6 /\ DOMAIN SetupRegions = 1 .. 6
    BY DEF SetupRegions
  <2>3. Len(address_regions) >= 6 /\ \A i \in 1 .. 6 : address_regions[i] = SetupRegions[i]
    BY <2>2 DEF SetupKept
  <2>4. Len(address_regions') >= 6 /\ \A i \in 1 .. 6 : address_regions'[i] = SetupRegions[i]
    BY <2>1, <2>3
  <2> QED BY <2>2, <2>4 DEF SetupKept
<1> QED BY <1>1, <1>2, RegionsGrow

(* While the predictions come true, regions end where the data area ends   *)
(* or before, and that is on the disk.                                     *)
LEMMA OnDisk ==
  ASSUME FatsFit, TypeInv, SetupKept, FrontierInv
  PROVE  RegionsOnDisk
<1> SUFFICES ASSUME Orderly, NEW i \in DOMAIN address_regions
             PROVE  RegionEnd(i) <= DiskSize * BPB_BytsPerSec
  BY DEF RegionsOnDisk
<1>1. /\ address_regions \in Seq(AddressRegions)
      /\ Len(address_regions) \in Nat /\ DOMAIN address_regions = 1 .. Len(address_regions)
  BY LenProperties DEF TypeInv, TypeOK
<1>2. Len(SetupRegions) = 6 /\ DOMAIN SetupRegions = 1 .. 6
  BY SetupOnDisk
<1>3. CASE i \in 1 .. 6
  <2>1. address_regions[i] = SetupRegions[i]
    BY <1>2, <1>3 DEF SetupKept
  <2> QED BY <1>3, <2>1, SetupOnDisk DEF RegionEnd
<1>4. CASE i \notin 1 .. 6
  <2>1. i \in DataRegions
    BY <1>1, <1>2, <1>4 DEF DataRegions
  <2>2. PICK hi \in 2 .. fat_entries : Filled(hi)
    BY DEF FrontierInv
  <2>3. RegionEnd(i) <= address_from_fatclus(hi)
    BY <2>1, <2>2 DEF Filled
  <2> DEFINE d == fat_entries - hi
  <2>4. hi \in Nat /\ hi >= 2 /\ d \in Nat /\ fat_entries = hi + d
    BY Sizes
  <2> HIDE DEF d
  <2>5. address_from_fatclus(fat_entries) = address_from_fatclus(hi) + cluster_size * d
        /\ address_from_fatclus(hi) \in Nat
    BY <2>4, ClusterAddress
  <2>6. cluster_size * d \in Nat
    BY <2>4, Sizes
  <2>7. RegionEnd(i) \in Nat
    <3>1. address_regions[i] \in AddressRegions
      BY <1>1, ElementOfSeq
    <3> QED BY <3>1 DEF RegionEnd, AddressRegions
  <2>8. DiskSize * BPB_BytsPerSec \in Int
    <3>1. PICK q \in Nat : BPB_BytsPerSec \div 4 = q
      BY WholeWords
    <3>2. DiskSize \in Int
      BY <3>1, LayoutAssumption DEF DiskSize, BPB_TotSec32
    <3> QED BY <3>2, LayoutAssumption
  <2>9. address_from_fatclus(fat_entries) <= DiskSize * BPB_BytsPerSec
    BY DiskEnd
  <2>10. address_from_fatclus(fat_entries) \in Nat
    BY <2>5, <2>6
  <2> QED BY <2>3, <2>5, <2>6, <2>7, <2>8, <2>9, <2>10
<1> QED BY <1>3, <1>4

(* With two sectors to a cluster or more, every region that is mapped in   *)
(* good order lies on the disk that the boot sector declares.              *)
THEOREM RegionsStayOnDisk ==
  ASSUME FatsFit
  PROVE  Spec => []RegionsOnDisk
<1>1. Init => SetupKept
  BY DEF Init, SetupKept
<1>2. TypeInv /\ PackedInv /\ [Next]_vars => PackedInv'
  BY PackedStep
<1>3. TypeInv /\ SetupKept /\ FrontierInv => RegionsOnDisk
  BY OnDisk
<1> QED BY <1>1, <1>2, <1>3, SetupStep, PackedInit, TypeCorrect, FrontierCorrect, PTL DEF Spec


-----------------------------------------------------------------------------
(* Names                                                                   *)

(* How control and the name at hand go on with an entry.                   *)
LEMMA EntryControl ==
  ASSUME TypeInv, NEW entry, dir_add_entry(entry), EntryOfJob(entry)
  PROVE  /\ scanned' = scanned
         /\ \/ /\ pc = "lfn" /\ pc' \in {"lfn", "position"} /\ entry = LfnEntry
               /\ job'.name = job.name /\ job'.lfn = job.lfn /\ job'.left = job.left - 1
               /\ pc' = "position" => job.left = 1
            \/ /\ pc = "short" /\ pc' = (IF job.isDirectory # 0 THEN "enter" ELSE "data")
               /\ entry = ShortEntry /\ job' = job
            \/ pc = "dot" /\ pc' = "dotdot" /\ entry = DotEntry /\ job' = job
            \/ pc = "dotdot" /\ pc' = "readdir" /\ entry = DotDotEntry /\ job' = NoJob
<1>1. CASE AddLfnEntry /\ entry = LfnEntry
  <2>1. /\ pc = "lfn" /\ pc' \in {"lfn", "position"} /\ scanned' = scanned
        /\ job' = [job EXCEPT !.left = @ - 1]
        /\ pc' = "position" => ~(job.left > 1)
    BY <1>1 DEF AddLfnEntry, dir_add_entry
  <2>2. job'.name = job.name /\ job'.lfn = job.lfn /\ job'.left = job.left - 1
    BY <2>1 DEF TypeInv, TypeOK
  <2>3. job.left \in Nat /\ job.left > 0
    BY <2>1 DEF TypeInv, TypeOK, ClustersOK
  <2> QED BY <1>1, <2>1, <2>2, <2>3
<1>2. CASE AddShortEntry /\ entry = ShortEntry
  BY <1>2 DEF AddShortEntry, dir_add_entry
<1>3. CASE AddDot /\ entry = DotEntry
  BY <1>3 DEF AddDot
<1>4. CASE AddDotDot /\ entry = DotDotEntry
  BY <1>4 DEF AddDotDot
<1> QED BY <1>1, <1>2, <1>3, <1>4 DEF EntryOfJob

(* How they go on without one.                                             *)
LEMMA QuietControl ==
  ASSUME TypeInv, Quiet
  PROVE  \/ /\ pc = "readdir" /\ pc' \in {"lfn", "position"}
            /\ scanned' = scanned + 1 /\ job'.name = scanned + 1
         \/ pc = "lfn" /\ pc' = "position" /\ scanned' = scanned /\ job' = job
         \/ pc = "position" /\ pc' = "short" /\ scanned' = scanned /\ job'.name = job.name
         \/ pc \in {"short", "data"} /\ pc' = "readdir" /\ scanned' = scanned /\ job' = NoJob
         \/ pc = "readdir" /\ pc' = "serving" /\ scanned' = scanned /\ job' = job
         \/ UNCHANGED << pc, scanned, job >>
<1>1. CASE AddFile \/ AddFolder
  <2>1. PICK n, s, d : add_file(n, s, d)
    BY <1>1 DEF AddFile, AddFolder
  <2> QED BY <2>1 DEF add_file, Job
<1>2. CASE PickFilePosition
  <2>1. PICK c, f : job' = [job EXCEPT !.clusters_needed = c, !.filePosition = f]
    BY <1>2 DEF PickFilePosition
  <2>2. job'.name = job.name
    BY <2>1 DEF TypeInv, TypeOK
  <2> QED BY <1>2, <2>2 DEF PickFilePosition
<1>3. CASE fat_new_file \/ Launch \/ UNCHANGED vars
  BY <1>3 DEF fat_new_file, Launch, vars
<1>4. CASE AddLfnEntry /\ Dropped
  BY <1>4 DEF AddLfnEntry, Dropped, dir_add_entry
<1>5. CASE AddShortEntry /\ Dropped
  BY <1>5 DEF AddShortEntry, Dropped, dir_add_entry
<1> QED BY <1>1, <1>2, <1>3, <1>4, <1>5 DEF Quiet

(* Names are numbered as they are read.  The one at hand is the last, and  *)
(* has no directory before it is entered; no two open directories are of   *)
(* the same folder.                                                        *)
Numbered ==
  /\ job.name = IF pc \in {"readdir", "serving"} THEN 0 ELSE scanned
  /\ pc \notin {"readdir", "serving"} => scanned > 0
  /\ \A t \in DOMAIN dirtables : dirtables[t].dir <= scanned
  /\ \A d \in DOMAIN dir_stack : dir_stack[d].path <= scanned
  /\ \A c, d \in DOMAIN dir_stack : dir_stack[c].path = dir_stack[d].path => c = d
  /\ pc \in {"lfn", "position", "short", "data", "enter"} =>
       /\ \A t \in DOMAIN dirtables : dirtables[t].dir # job.name
       /\ \A d \in DOMAIN dir_stack : dir_stack[d].path # job.name
  /\ pc \in {"dot", "dotdot"} => current_dir.path = job.name

(* The numbers stay so.                                                    *)
LEMMA NumberedStep == TypeInv /\ PackedInv /\ Numbered /\ [Next]_vars => Numbered'
<1> SUFFICES ASSUME TypeInv, PackedInv, Numbered, [Next]_vars PROVE Numbered'
  OBVIOUS
<1>1. /\ job.name = IF pc \in {"readdir", "serving"} THEN 0 ELSE scanned
      /\ pc \notin {"readdir", "serving"} => scanned > 0
      /\ \A t \in DOMAIN dirtables : dirtables[t].dir <= scanned
      /\ \A d \in DOMAIN dir_stack : dir_stack[d].path <= scanned
      /\ \A c, d \in DOMAIN dir_stack : dir_stack[c].path = dir_stack[d].path => c = d
      /\ pc \in {"lfn", "position", "short", "data", "enter"} =>
           /\ \A t \in DOMAIN dirtables : dirtables[t].dir # job.name
           /\ \A d \in DOMAIN dir_stack : dir_stack[d].path # job.name
      /\ pc \in {"dot", "dotdot"} => current_dir.path = job.name
  BY DEF Numbered
<1>2. /\ scanned \in Nat /\ job.name \in Nat /\ NoJob.name = 0
      /\ \A t \in DOMAIN dirtables : dirtables[t].dir \in Nat
      /\ \A d \in DOMAIN dir_stack : dir_stack[d].path \in Nat
  <2>1. \A d \in DOMAIN dir_stack : dir_stack[d] \in Fat_Directories
    BY StackShape
  <2>2. \A d \in DOMAIN dir_stack : dir_stack[d].path \in Nat
    BY <2>1 DEF Fat_Directories
  <2> QED BY <2>2, TableShape DEF TypeInv, TypeOK, NoJob, Job
<1>3. ASSUME NEW entry \in Entries, dir_add_entry(entry), EntryOfJob(entry) PROVE Numbered'
  <2>1. PICK t, i : Placed(entry, t, i)
    BY <1>3, EntryPlaced
  <2>2. /\ Len(dir_stack') = Len(dir_stack) /\ DOMAIN dir_stack' = DOMAIN dir_stack
        /\ \A d \in DOMAIN dir_stack : dir_stack'[d].path = dir_stack[d].path
        /\ current_dir'.path = current_dir.path
    BY <1>3, PathsKept
  <2>3. /\ \A u \in DOMAIN dirtables' : u = t \/ u \in DOMAIN dirtables
        /\ dirtables'[t].dir = current_dir.path
        /\ \A u \in DOMAIN dirtables : dirtables'[u].dir = dirtables[u].dir
    BY <2>1 DEF Placed
  <2>4. Len(dir_stack) \in DOMAIN dir_stack /\ current_dir = dir_stack[Len(dir_stack)]
    BY TopShape
  <2>5. \A u \in DOMAIN dirtables' : \/ \E v \in DOMAIN dirtables : dirtables'[u].dir = dirtables[v].dir
                                     \/ \E d \in DOMAIN dir_stack : dirtables'[u].dir = dir_stack[d].path
    BY <2>3, <2>4
  <2>6. scanned' = scanned
    BY <1>3, EntryControl
  <2>7. /\ \A u \in DOMAIN dirtables' : dirtables'[u].dir <= scanned'
        /\ \A d \in DOMAIN dir_stack' : dir_stack'[d].path <= scanned'
        /\ \A c, d \in DOMAIN dir_stack' : dir_stack'[c].path = dir_stack'[d].path => c = d
    BY <1>1, <2>2, <2>5, <2>6
  <2>8. CASE pc \in {"lfn", "short"} /\ pc' \in {"lfn", "position", "enter", "data"} /\ job'.name = job.name
    <3>1. /\ \A u \in DOMAIN dirtables' : dirtables'[u].dir # job.name
          /\ \A d \in DOMAIN dir_stack' : dir_stack'[d].path # job.name
      BY <1>1, <2>2, <2>5, <2>8
    <3>2. job'.name = scanned' /\ scanned' > 0
      BY <1>1, <2>6, <2>8
    <3> QED BY <2>7, <2>8, <3>1, <3>2 DEF Numbered
  <2>9. CASE pc = "dot" /\ pc' = "dotdot" /\ job' = job
    BY <1>1, <2>2, <2>6, <2>7, <2>9 DEF Numbered
  <2>10. CASE pc = "dotdot" /\ pc' = "readdir" /\ job' = NoJob
    BY <1>2, <2>7, <2>10 DEF Numbered
  <2> QED BY <1>3, <2>8, <2>9, <2>10, EntryControl
<1>4. CASE Quiet
  <2>1. UNCHANGED << dirtables, dir_stack >> /\ current_dir' = current_dir
    BY <1>4 DEF Quiet, current_dir
  <2>2. CASE /\ pc = "readdir" /\ pc' \in {"lfn", "position"}
             /\ scanned' = scanned + 1 /\ job'.name = scanned + 1
    <3>1. /\ \A u \in DOMAIN dirtables : dirtables[u].dir <= scanned + 1 /\ dirtables[u].dir # scanned + 1
          /\ \A d \in DOMAIN dir_stack : dir_stack[d].path <= scanned + 1 /\ dir_stack[d].path # scanned + 1
          /\ scanned + 1 > 0
      BY <1>1, <1>2
    <3> QED BY <1>1, <2>1, <2>2, <3>1 DEF Numbered
  <2>3. CASE /\ pc \in {"lfn", "position"} /\ pc' \in {"position", "short"}
             /\ scanned' = scanned /\ job'.name = job.name
    BY <1>1, <2>1, <2>3 DEF Numbered
  <2>4. CASE /\ pc' \in {"readdir", "serving"} /\ scanned' = scanned
             /\ job' = NoJob \/ (job' = job /\ pc = "readdir")
    BY <1>1, <1>2, <2>1, <2>4 DEF Numbered
  <2>5. CASE UNCHANGED << pc, scanned, job >>
    BY <1>1, <2>1, <2>5 DEF Numbered
  <2> QED BY <1>4, <2>2, <2>3, <2>4, <2>5, QuietControl
<1>5. CASE EnterFolder
  <2> DEFINE top == Len(dir_stack) + 1
  <2>1. /\ top \in Nat \ {0} /\ Len(dir_stack') = top /\ DOMAIN dir_stack' = 1 .. top
        /\ DOMAIN dir_stack = 1 .. top - 1
        /\ dir_stack'[top] = Fat_Directory(job.name, << >>, 0, job.filePosition)
        /\ \A c \in 1 .. top - 1 : dir_stack'[c] = dir_stack[c]
    BY <1>5, FolderEntered
  <2>2. pc = "enter" /\ pc' = "dot" /\ UNCHANGED << dirtables, scanned, job >>
    BY <1>5 DEF EnterFolder
  <2>3. dir_stack'[top].path = job.name /\ current_dir'.path = job.name
    BY <2>1 DEF Fat_Directory, current_dir
  <2> HIDE DEF top
  <2>4. \A d \in DOMAIN dir_stack' : d = top \/ (d \in DOMAIN dir_stack /\ dir_stack'[d] = dir_stack[d])
    BY <2>1
  <2>5. job.name = scanned /\ scanned > 0
    BY <1>1, <2>2
  <2>6. /\ \A d \in DOMAIN dir_stack' : dir_stack'[d].path <= scanned
        /\ \A c, d \in DOMAIN dir_stack' : dir_stack'[c].path = dir_stack'[d].path => c = d
    BY <1>1, <1>2, <2>2, <2>3, <2>4, <2>5
  <2> QED BY <1>1, <2>2, <2>3, <2>5, <2>6 DEF Numbered
<1>6. CASE up_dir
  <2>1. \A d \in DOMAIN dir_stack' : d \in DOMAIN dir_stack /\ dir_stack'[d] = dir_stack[d]
    BY <1>6, UpDirStack DEF TypeInv, TypeOK
  <2>2. pc = "readdir" /\ UNCHANGED << pc, dirtables, scanned, job >>
    BY <1>6 DEF up_dir
  <2> QED BY <1>1, <2>1, <2>2 DEF Numbered
<1> QED BY <1>3, <1>4, <1>5, <1>6, StepKinds

(* The entries of the name at hand: its LFN entries until the short entry  *)
(* is added, which names the cluster chosen for it, then the first of a    *)
(* folder.                                                                 *)
OfJob(e, at, j) ==
  \/ e.kind = "lfn"
  \/ at = "data" /\ e.kind = "file" /\ e.first = j.filePosition /\ e.size = j.size
  \/ at \in {"enter", "dot", "dotdot"} /\ e.kind = "dir" /\ e.first = j.filePosition
  \/ at = "dotdot" /\ e.kind = "dot"

Filed ==
  \A t \in DOMAIN dirtables : \A i \in Slots :
    LET e == dirtables[t].slots[i] IN
    e.kind # "none" => /\ 0 < e.name /\ e.name <= scanned
                       /\ e.name = job.name => OfJob(e, pc, job)


(* Entries are filed under names that were read, and those of the name at  *)
(* hand are the ones add_file has added so far.                            *)
LEMMA FiledStep == TypeInv /\ PackedInv /\ Numbered /\ Filed /\ [Next]_vars => Filed'
<1> SUFFICES ASSUME TypeInv, PackedInv, Numbered, Filed, [Next]_vars PROVE Filed'
  OBVIOUS
<1>1. \A t \in DOMAIN dirtables : \A i \in Slots :
        dirtables[t].slots[i].kind # "none" =>
          /\ 0 < dirtables[t].slots[i].name /\ dirtables[t].slots[i].name <= scanned
          /\ dirtables[t].slots[i].name \in Nat
          /\ dirtables[t].slots[i].name = job.name => OfJob(dirtables[t].slots[i], pc, job)
  BY TableShape DEF Filed, Entries
<1>2. scanned \in Nat /\ job.name \in Nat /\ NoJob.name = 0
      /\ (pc \notin {"readdir", "serving"} => job.name = scanned /\ scanned > 0)
  BY DEF TypeInv, TypeOK, NoJob, Job, Numbered
<1>3. ASSUME NEW entry \in Entries, dir_add_entry(entry), EntryOfJob(entry) PROVE Filed'
  <2>1. PICK t, i : Placed(entry, t, i)
    BY <1>3, EntryPlaced
  <2>2. entry.name = job.name /\ job.name > 0 /\ job.name = scanned /\ scanned' = scanned
    BY <1>2, <1>3, EntryControl DEF LfnEntry, ShortEntry, DotEntry, DotDotEntry, Entry
  <2>3. ASSUME NEW e, e.kind # "none", e.name \in Nat, 0 < e.name, job'.name = e.name,
               e = entry \/ OfJob(e, pc, job)
        PROVE  OfJob(e, pc', job')
    <3>1. CASE pc = "lfn" /\ pc' \in {"lfn", "position"} /\ entry = LfnEntry
      <4>1. e.kind = "lfn"
        BY <2>3, <3>1 DEF OfJob, LfnEntry, Entry
      <4> QED BY <4>1 DEF OfJob
    <3>2. CASE /\ pc = "short" /\ pc' = (IF job.isDirectory # 0 THEN "enter" ELSE "data")
               /\ entry = ShortEntry /\ job' = job
      BY <2>3, <3>2 DEF OfJob, ShortEntry, Entry
    <3>3. CASE pc = "dot" /\ pc' = "dotdot" /\ entry = DotEntry /\ job' = job
      BY <2>3, <3>3 DEF OfJob, DotEntry, Entry
    <3>4. CASE pc = "dotdot" /\ pc' = "readdir" /\ entry = DotDotEntry /\ job' = NoJob
      BY <1>2, <2>3, <3>4
    <3> QED BY <1>3, <3>1, <3>2, <3>3, <3>4, EntryControl
  <2>4. job'.name = job.name \/ job' = NoJob
    BY <1>3, EntryControl
  <2> SUFFICES ASSUME NEW u \in DOMAIN dirtables', NEW k \in Slots,
                      dirtables'[u].slots[k].kind # "none"
               PROVE  /\ 0 < dirtables'[u].slots[k].name /\ dirtables'[u].slots[k].name <= scanned'
                      /\ dirtables'[u].slots[k].name = job'.name => OfJob(dirtables'[u].slots[k], pc', job')
    BY DEF Filed
  <2>5. CASE dirtables'[u].slots[k] = entry
    <3>1. 0 < entry.name /\ entry.name <= scanned' /\ entry.name \in Nat
      BY <1>2, <2>2
    <3>2. entry.name = job'.name => OfJob(entry, pc', job')
      BY <2>3, <2>5, <3>1
    <3> QED BY <2>5, <3>1, <3>2
  <2>6. CASE u \in DOMAIN dirtables /\ dirtables'[u].slots[k] = dirtables[u].slots[k]
    <3> DEFINE e == dirtables[u].slots[k]
    <3>1. /\ 0 < e.name /\ e.name <= scanned' /\ e.name \in Nat /\ e.kind # "none"
          /\ e.name = job.name => OfJob(e, pc, job)
      BY <1>1, <2>2, <2>6
    <3>2. e.name # NoJob.name
      BY <1>2, <3>1
    <3> HIDE DEF e
    <3>3. e.name = job'.name => OfJob(e, pc', job')
      BY <2>3, <2>4, <3>1, <3>2
    <3>4. dirtables'[u].slots[k] = e
      BY <2>6 DEF e
    <3> QED BY <3>1, <3>3, <3>4
  <2> QED BY <2>1, <2>5, <2>6, EntriesAfter
<1>4. CASE Quiet
  <2>1. dirtables' = dirtables
    BY <1>4 DEF Quiet
  <2> SUFFICES ASSUME NEW t \in DOMAIN dirtables, NEW i \in Slots, dirtables[t].slots[i].kind # "none"
               PROVE  /\ 0 < dirtables[t].slots[i].name /\ dirtables[t].slots[i].name <= scanned'
                      /\ dirtables[t].slots[i].name = job'.name => OfJob(dirtables[t].slots[i], pc', job')
    BY <2>1 DEF Filed
  <2> DEFINE e == dirtables[t].slots[i]
  <2>2. 0 < e.name /\ e.name <= scanned /\ e.name \in Nat /\ (e.name = job.name => OfJob(e, pc, job))
    BY <1>1
  <2> HIDE DEF e
  <2>3. CASE pc = "readdir" /\ scanned' = scanned + 1 /\ job'.name = scanned + 1
    <3>1. e.name # job'.name /\ e.name <= scanned'
      BY <1>2, <2>2, <2>3
    <3> QED BY <2>2, <3>1 DEF e
  <2>4. CASE /\ pc \in {"lfn", "position"} /\ pc' \in {"position", "short"}
             /\ scanned' = scanned /\ job'.name = job.name
    <3>1. e.name = job'.name => e.kind = "lfn"
      BY <2>2, <2>4 DEF OfJob
    <3> QED BY <2>2, <2>4, <3>1 DEF OfJob, e
  <2>5. CASE job' = NoJob /\ scanned' = scanned
    <3>1. e.name # job'.name
      BY <1>2, <2>2, <2>5
    <3> QED BY <2>2, <2>5, <3>1 DEF e
  <2>6. CASE pc = "readdir" /\ pc' = "serving" /\ scanned' = scanned /\ job' = job
    <3>1. e.name # job.name
      BY <2>2, <2>6 DEF Numbered
    <3> QED BY <2>2, <2>6, <3>1 DEF e
  <2>7. CASE UNCHANGED << pc, scanned, job >>
    <3>1. e.name = job'.name => OfJob(e, pc', job')
      BY <2>2, <2>7 DEF OfJob
    <3> QED BY <2>2, <2>7, <3>1 DEF e
  <2> QED BY <1>4, <2>3, <2>4, <2>5, <2>6, <2>7, QuietControl
<1>5. CASE EnterFolder \/ up_dir
  <2>1. UNCHANGED << dirtables, scanned, job >> /\ (pc' = pc \/ (pc = "enter" /\ pc' = "dot"))
    BY <1>5 DEF EnterFolder, up_dir
  <2>2. \A e : OfJob(e, pc, job) => OfJob(e, pc', job')
    BY <2>1 DEF OfJob
  <2> QED BY <2>1, <2>2 DEF Filed
<1> QED BY <1>3, <1>4, <1>5, StepKinds

NamesInv == Numbered /\ Filed

(* At first no name has been read.                                         *)
LEMMA NamesInit == Init => NamesInv
<1> SUFFICES ASSUME Init PROVE NamesInv
  OBVIOUS
<1>1. /\ DOMAIN dir_stack = {1} /\ dir_stack[1].path = 0 /\ DOMAIN dirtables = {}
      /\ pc = "readdir" /\ job.name = 0 /\ scanned = 0
  BY DEF Init, Fat_Directory, RootFolder, NoJob, Job
<1> QED BY <1>1 DEF NamesInv, Numbered, Filed

(* Both parts together.                                                    *)
LEMMA NamesStep == TypeInv /\ PackedInv /\ NamesInv /\ [Next]_vars => NamesInv'
  BY NumberedStep, FiledStep DEF NamesInv


-----------------------------------------------------------------------------
(* The clusters of files                                                   *)

FileClusters(e) == ceil_div(FileLengthOf(e), cluster_size)

(* A file's chain and its region are there, and no open directory ends in  *)
(* the chain: it would be linked on from there.                            *)
FileKept(e) ==
  /\ \A k \in 0 .. FileClusters(e) - 1 :
       /\ e.first + k \in FatWords
       /\ fat[e.first + k] = IF k = FileClusters(e) - 1 THEN fat_end ELSE e.first + k + 1
       /\ \A d \in DOMAIN dir_stack : dir_stack[d].dir_location # e.first + k
  /\ \E r \in DataRegions :
       address_regions[r] = AddressRegion(address_from_fatclus(e.first), FileLengthOf(e), NoPointer, e.name)

FilesInv == Orderly => \A e \in FileEntries : job.name # e.name => FileKept(e)

(* A file takes at least one cluster.                                      *)
LEMMA FileSize ==
  ASSUME NEW e \in Entries
  PROVE  /\ FileLengthOf(e) \in Nat \ {0} /\ FileClusters(e) \in Nat \ {0}
         /\ FileLengthOf(e) <= cluster_size * FileClusters(e)
         /\ e.first \in Nat /\ e.name \in Nat
<1>1. e.size \in Nat /\ e.first \in Nat /\ e.name \in Nat
  BY DEF Entries
<1>2. FileLengthOf(e) \in Nat \ {0}
  BY <1>1 DEF FileLengthOf
<1> DEFINE x == FileLengthOf(e)
<1> HIDE DEF x
<1>3. x \in Nat /\ x > 0 /\ cluster_size \in Nat \ {0}
  BY <1>2, Sizes DEF x
<1>4. ceil_div(x, cluster_size) \in Nat /\ cluster_size * ceil_div(x, cluster_size) >= x
      /\ ceil_div(x, cluster_size) > 0
  BY <1>3, CeilDiv
<1>5. cluster_size * ceil_div(x, cluster_size) \in Nat
  BY <1>3, <1>4
<1> QED BY <1>1, <1>2, <1>3, <1>4, <1>5 DEF FileClusters, x

(* What a step has to keep for a file: of the words that its chain is in,  *)
(* the links, and the end mark where no directory ends.                    *)
LEMMA FileStaysKept ==
  ASSUME NEW e \in Entries, FileKept(e), TypeInv, NEW W,
         \A k \in 0 .. FileClusters(e) - 1 : e.first + k \in W,
         \A b \in W : fat[b] \notin {0, fat_end} => fat'[b] = fat[b],
         \A b \in W :
           fat[b] = fat_end /\ (\A d \in DOMAIN dir_stack : dir_stack[d].dir_location # b) => fat'[b] = fat_end,
         \A d \in DOMAIN dir_stack' :
           \/ d \in DOMAIN dir_stack /\ dir_stack'[d].dir_location = dir_stack[d].dir_location
           \/ dir_stack'[d].dir_location \in W => fat[dir_stack'[d].dir_location] = 0,
         address_regions' = address_regions \/ \E r : address_regions' = Append(address_regions, r)
  PROVE  FileKept(e)'
<1> DEFINE n == FileClusters(e)
<1>1. n \in Nat \ {0} /\ e.first \in Nat
  BY FileSize
<1> HIDE DEF n
<1>2. ASSUME NEW k \in 0 .. n - 1
      PROVE  /\ e.first + k \in FatWords
             /\ fat'[e.first + k] = IF k = n - 1 THEN fat_end ELSE e.first + k + 1
             /\ \A d \in DOMAIN dir_stack' : dir_stack'[d].dir_location # e.first + k
  <2>1. /\ e.first + k \in FatWords
        /\ fat[e.first + k] = IF k = n - 1 THEN fat_end ELSE e.first + k + 1
        /\ \A d \in DOMAIN dir_stack : dir_stack[d].dir_location # e.first + k
        /\ e.first + k \in W
    BY DEF FileKept, n
  <2>2. k \in Nat /\ fat_end \in Nat /\ fat_end > 2
    BY Sizes
  <2>3. k = n - 1 => fat'[e.first + k] = fat_end
    BY <2>1
  <2>4. ASSUME k # n - 1
        PROVE  fat'[e.first + k] = e.first + k + 1
    <3>1. k + 1 \in 0 .. n - 1
      BY <1>1, <2>4
    <3>2. e.first + (k + 1) \in FatWords
      BY <3>1 DEF FileKept, n
    <3>3. e.first + k + 1 < fat_end
      <4>1. e.first + (k + 1) <= fat_entries + FatSlack - 1
        BY <1>1, <2>2, <3>2 DEF FatWords
      <4>2. fat_entries + FatSlack < Word /\ fat_entries \in Nat /\ FatSlack \in Nat /\ Word \in Nat
        BY Sizes, FatFilesAssumption, LayoutAssumption
      <4> QED BY <1>1, <2>2, <4>1, <4>2 DEF fat_end
    <3>4. fat[e.first + k] \notin {0, fat_end}
      BY <1>1, <2>1, <2>2, <2>4, <3>3
    <3>5. fat'[e.first + k] = fat[e.first + k]
      BY <2>1, <3>4
    <3> QED BY <2>1, <2>4, <3>5
  <2>5. fat[e.first + k] # 0
    BY <1>1, <2>1, <2>2
  <2>6. \A d \in DOMAIN dir_stack' : dir_stack'[d].dir_location # e.first + k
    BY <2>1, <2>5
  <2> QED BY <2>1, <2>3, <2>4, <2>6
<1>3. \E r \in DataRegions' :
        address_regions'[r] = AddressRegion(address_from_fatclus(e.first), FileLengthOf(e), NoPointer, e.name)
  <2>1. PICK r \in DataRegions :
          address_regions[r] = AddressRegion(address_from_fatclus(e.first), FileLengthOf(e), NoPointer, e.name)
    BY DEF FileKept
  <2>2. CASE address_regions' = address_regions
    BY <2>1, <2>2 DEF DataRegions
  <2>3. ASSUME NEW q, address_regions' = Append(address_regions, q)
        PROVE  r \in DataRegions' /\ address_regions'[r] = address_regions[r]
    <3>1. /\ Len(address_regions') = Len(address_regions) + 1 /\ Len(address_regions) \in Nat
          /\ \A i \in 1 .. Len(address_regions) : address_regions'[i] = address_regions[i]
      BY <2>3, RegionAppended
    <3>2. r \in 1 .. Len(address_regions) /\ Len(SetupRegions) \in Nat
      <4>1. Len(SetupRegions) = 6
        BY DEF SetupRegions
      <4> QED BY <2>1, <3>1, <4>1 DEF DataRegions
    <3> QED BY <3>1, <3>2 DEF DataRegions
  <2> QED BY <2>1, <2>2, <2>3
<1> QED BY <1>2, <1>3 DEF FileKept, n

(* What a round of dir_add_entry does to end marks, and where it puts the  *)
(* end of the current directory.                                           *)
LEMMA EntryFat ==
  ASSUME TypeInv, PackedInv, NEW entry \in Entries, dir_add_entry(entry), current_fat_position' < fat_entries
  PROVE  /\ \A b \in FatWords :
              fat[b] = fat_end /\ b # current_dir.dir_location => fat'[b] = fat_end
         /\ \/ current_dir'.dir_location = current_dir.dir_location
            \/ fat[current_dir'.dir_location] = 0 /\ current_dir'.dir_location = current_fat_position'
<1>1. /\ current_dir.dir_location \in Nat /\ Len(dirtables) + 1 \in Nat \ {0}
      /\ current_dir.dirtables \in Seq(Nat \ {0}) /\ fat \in [FatWords -> Nat]
      /\ current_fat_position >= 2 /\ current_fat_position \in Nat
  <2>1. Len(dirtables) \in Nat
    BY LenProperties DEF TypeInv, TypeOK
  <2>2. current_dir.dir_location \in Nat /\ current_dir.dirtables \in Seq(Nat \ {0})
    BY TopShape
  <2> QED BY <2>1, <2>2 DEF TypeInv, TypeOK, ClustersOK
<1>2. CASE FirstCluster(entry)
  <2>1. DirWithEntry(<< Len(dirtables) + 1 >>, current_dir.dir_location)
        /\ fat' = [fat EXCEPT ![current_dir.dir_location] = fat_end]
    BY <1>2 DEF FirstCluster
  <2>2. << Len(dirtables) + 1 >> \in Seq(Nat \ {0})
    BY <1>1
  <2>3. current_dir'.dir_location = current_dir.dir_location
    BY <1>1, <2>1, <2>2, TopReplaced
  <2> QED BY <1>1, <2>1, <2>3
<1>3. CASE NextCluster(entry)
  <2> DEFINE us == Append(current_dir.dirtables, Len(dirtables) + 1)
  <2>1. PICK c \in current_fat_position .. fat_entries + FatSlack :
          /\ fat_find_free(c) /\ current_fat_position' = c
          /\ DirWithEntry(us, c)
          /\ fat' = FatWithLink(c)
    BY <1>3 DEF NextCluster
  <2>2. us \in Seq(Nat \ {0}) /\ c \in Nat
    BY <1>1, <2>1, FoundType
  <2> HIDE DEF us
  <2>3. current_dir'.dir_location = c
    BY <2>1, <2>2, TopReplaced
  <2>4. fat[c] = 0
    BY <2>1, <2>2, Sizes DEF fat_find_free
  <2>5. \A b \in FatWords : fat[b] = fat_end /\ b # current_dir.dir_location => fat'[b] = fat_end
    BY <1>1, <2>1 DEF FatWithLink
  <2> QED BY <2>1, <2>3, <2>4, <2>5
<1>4. CASE SameCluster(entry)
  <2>1. DirWithEntry(current_dir.dirtables, current_dir.dir_location) /\ fat' = fat
    BY <1>4 DEF SameCluster
  <2>2. current_dir'.dir_location = current_dir.dir_location
    BY <1>1, <2>1, TopReplaced
  <2> QED BY <2>1, <2>2
<1> QED BY <1>2, <1>3, <1>4 DEF dir_add_entry


(* An orderly entry takes a cluster of the FAT.                            *)
LEMMA EntryOrderly ==
  ASSUME TypeInv', Orderly', NEW entry, dir_add_entry(entry), EntryOfJob(entry)
  PROVE  current_fat_position' < fat_entries
<1>1. Overrun \subseteq events'
  BY DEF EntryOfJob, AddLfnEntry, AddShortEntry, AddDot, AddDotDot, dir_add_entry
<1>2. "fat_full" \notin events'
  BY DEF Orderly
<1>3. ~(current_fat_position' >= fat_entries)
  BY <1>1, <1>2 DEF Overrun
<1>4. current_fat_position' \in Nat /\ fat_entries \in Nat
  BY Sizes DEF TypeInv, TypeOK
<1> QED BY <1>3, <1>4

(* An orderly step writes no end mark of a file away, and no directory     *)
(* comes to end in one.                                                    *)
LEMMA OrderlyFat ==
  ASSUME TypeInv, TypeInv', PackedInv, FrontierInv, [Next]_vars, Orderly'
  PROVE  /\ \A b \in FatWords :
              fat[b] = fat_end /\ (\A d \in DOMAIN dir_stack : dir_stack[d].dir_location # b)
                => fat'[b] = fat_end
         /\ \A d \in DOMAIN dir_stack' :
              \/ d \in DOMAIN dir_stack /\ dir_stack'[d].dir_location = dir_stack[d].dir_location
              \/ dir_stack'[d].dir_location \in FatWords => fat[dir_stack'[d].dir_location] = 0
<1>1. Orderly
  BY EventsGrow DEF Orderly
<1>2. PICK hi \in 2 .. fat_entries : Filled(hi) /\ DirsBelow(hi) /\ JobAt(hi)
  BY <1>1 DEF FrontierInv
<1>3. hi \in Nat /\ fat_end \in Nat /\ fat_end > 2 /\ FatWords \subseteq Nat
  BY Sizes
<1>4. ASSUME NEW entry \in Entries, dir_add_entry(entry), EntryOfJob(entry)
      PROVE  /\ \A b \in FatWords :
                  fat[b] = fat_end /\ (\A d \in DOMAIN dir_stack : dir_stack[d].dir_location # b)
                    => fat'[b] = fat_end
             /\ \A d \in DOMAIN dir_stack' :
                  \/ d \in DOMAIN dir_stack /\ dir_stack'[d].dir_location = dir_stack[d].dir_location
                  \/ dir_stack'[d].dir_location \in FatWords => fat[dir_stack'[d].dir_location] = 0
  <2>1. current_fat_position' < fat_entries
    BY <1>4, EntryOrderly
  <2>2. /\ \A b \in FatWords :
             fat[b] = fat_end /\ b # current_dir.dir_location => fat'[b] = fat_end
        /\ \/ current_dir'.dir_location = current_dir.dir_location
           \/ fat[current_dir'.dir_location] = 0
    BY <1>4, <2>1, EntryFat
  <2>3. PICK t, i : Placed(entry, t, i)
    BY <1>4, EntryPlaced
  <2>4. /\ DOMAIN dir_stack' = DOMAIN dir_stack /\ Len(dir_stack') = Len(dir_stack)
        /\ \A d \in DOMAIN dir_stack : d # Len(dir_stack) => dir_stack'[d] = dir_stack[d]
    BY <2>3 DEF Placed
  <2>5. /\ current_dir = dir_stack[Len(dir_stack)] /\ Len(dir_stack) \in DOMAIN dir_stack
        /\ current_dir' = dir_stack'[Len(dir_stack)]
    BY <2>4, TopShape DEF current_dir
  <2> QED BY <2>2, <2>4, <2>5
<1>5. CASE fat' = fat /\ \A d \in DOMAIN dir_stack' : d \in DOMAIN dir_stack /\ dir_stack'[d] = dir_stack[d]
  BY <1>5
<1>6. CASE Quiet
  <2>1. dir_stack' = dir_stack
    BY <1>6 DEF Quiet
  <2>2. CASE fat' = fat
    BY <1>5, <2>1, <2>2
  <2>3. CASE fat_new_file /\ fat' = FatWithChain(job.filePosition, ClustersRequired)
    <3>1. job.filePosition = hi /\ pc = "data"
      BY <1>2, <2>3 DEF JobAt, fat_new_file
    <3> DEFINE n == ClustersRequired
    <3>2. n \in Nat /\ n > 0
      <4>0. job.size \in Nat
        BY DEF TypeInv, TypeOK
      <4>1. FileLength \in Nat /\ FileLength > 0
        BY <4>0 DEF FileLength
      <4> QED BY <4>1, Sizes, CeilDiv DEF ClustersRequired
    <3>3. fat' = FatWithChain(hi, n)
      BY <2>3, <3>1
    <3> HIDE DEF n
    <3>4. ASSUME NEW b \in FatWords, fat[b] = fat_end PROVE fat'[b] = fat_end
      <4>1. b \in Nat /\ b < hi
        BY <1>2, <1>3, <3>4 DEF Filled
      <4>2. b # hi + n - 1 /\ b \notin hi .. hi + n - 2
        BY <1>3, <3>2, <4>1
      <4> QED BY <3>3, <3>4, <4>2 DEF FatWithChain
    <3> QED BY <2>1, <3>4
  <2>4. fat' = fat \/ (fat_new_file /\ fat' = FatWithChain(job.filePosition, ClustersRequired))
    BY <1>6 DEF Quiet, AddFile, AddFolder, add_file, image, PickFilePosition, fat_new_file, Launch,
       vars, Dropped
  <2> QED BY <2>2, <2>3, <2>4
<1>7. CASE EnterFolder
  <2> DEFINE top == Len(dir_stack) + 1
  <2>1. /\ top \in Nat \ {0} /\ Len(dir_stack') = top /\ DOMAIN dir_stack' = 1 .. top
        /\ DOMAIN dir_stack = 1 .. top - 1
        /\ dir_stack'[top] = Fat_Directory(job.name, << >>, 0, job.filePosition)
        /\ \A c \in 1 .. top - 1 : dir_stack'[c] = dir_stack[c]
    BY <1>7, FolderEntered
  <2>2. fat' = fat /\ pc = "enter" /\ dir_stack'[top].dir_location = job.filePosition
    BY <1>7, <2>1 DEF EnterFolder, Fat_Directory
  <2>3. job.filePosition = hi
    BY <1>2, <2>2 DEF JobAt
  <2>4. hi \in FatWords => fat[hi] = 0
    BY <1>2, <1>3 DEF Filled
  <2> HIDE DEF top
  <2>5. \A d \in DOMAIN dir_stack' : d = top \/ (d \in DOMAIN dir_stack /\ dir_stack'[d] = dir_stack[d])
    BY <2>1
  <2> QED BY <2>2, <2>3, <2>4, <2>5
<1>8. CASE up_dir
  <2>1. \A d \in DOMAIN dir_stack' : d \in DOMAIN dir_stack /\ dir_stack'[d] = dir_stack[d]
    BY <1>8, UpDirStack DEF TypeInv, TypeOK
  <2> QED BY <1>5, <1>8, <2>1 DEF up_dir
<1> QED BY <1>4, <1>6, <1>7, <1>8, StepKinds

(* A chain and a region make a file complete.                              *)
LEMMA ChainIsKept ==
  ASSUME TypeInv, SetupKept, NEW e \in Entries, NEW hi \in Nat, e.first = hi,
         hi + FileClusters(e) <= fat_entries,
         \A d \in DOMAIN dir_stack :
           dir_stack[d].dir_location < hi \/ dir_stack[d].dir_location >= fat_entries,
         dir_stack' = dir_stack,
         fat' = FatWithChain(hi, FileClusters(e)),
         address_regions' = Append(address_regions,
           AddressRegion(address_from_fatclus(e.first), FileLengthOf(e), NoPointer, e.name))
  PROVE  FileKept(e)'
<1> DEFINE n == FileClusters(e)
<1>1. n \in Nat \ {0}
  BY FileSize
<1>2. hi + n <= fat_entries /\ fat_entries \in Nat /\ FatSlack \in Nat /\ fat' = FatWithChain(hi, n)
  BY Sizes, FatFilesAssumption
<1> HIDE DEF n
<1>3. ASSUME NEW k \in 0 .. n - 1
      PROVE  /\ hi + k \in FatWords
             /\ fat'[hi + k] = IF k = n - 1 THEN fat_end ELSE hi + k + 1
             /\ \A d \in DOMAIN dir_stack : dir_stack[d].dir_location # hi + k
  <2>1. hi + k \in FatWords /\ k \in Nat
    BY <1>1, <1>2 DEF FatWords
  <2>2. fat'[hi + k] = IF hi + k = hi + n - 1 THEN fat_end
                       ELSE IF hi + k \in hi .. hi + n - 2 THEN hi + k + 1 ELSE fat[hi + k]
    BY <1>2, <2>1 DEF FatWithChain
  <2>3. (hi + k = hi + n - 1 <=> k = n - 1) /\ (k # n - 1 => hi + k \in hi .. hi + n - 2)
    BY <1>1, <1>2, <2>1
  <2>4. ASSUME NEW d \in DOMAIN dir_stack PROVE dir_stack[d].dir_location # hi + k
    <3>1. dir_stack[d].dir_location < hi \/ dir_stack[d].dir_location >= fat_entries
      OBVIOUS
    <3>2. dir_stack[d].dir_location \in Nat
      BY StackShape
    <3>3. hi + k < fat_entries
      BY <1>1, <1>2
    <3> QED BY <1>2, <2>1, <3>1, <3>2, <3>3
  <2> QED BY <2>1, <2>2, <2>3, <2>4
<1>4. \E r \in DataRegions' :
        address_regions'[r] = AddressRegion(address_from_fatclus(e.first), FileLengthOf(e), NoPointer, e.name)
  <2>1. /\ Len(address_regions') = Len(address_regions) + 1 /\ Len(address_regions) \in Nat
        /\ address_regions'[Len(address_regions) + 1] =
             AddressRegion(address_from_fatclus(e.first), FileLengthOf(e), NoPointer, e.name)
    BY RegionAppended
  <2>2. Len(SetupRegions) = 6 /\ Len(address_regions) >= 6
    BY DEF SetupRegions, SetupKept
  <2>3. Len(address_regions) + 1 \in DataRegions'
    BY <2>1, <2>2 DEF DataRegions
  <2> QED BY <2>1, <2>3
<1> QED BY <1>3, <1>4 DEF FileKept, n

(* fat_new_file makes the file of the name at hand complete.               *)
LEMMA NewFileKept ==
  ASSUME TypeInv, FrontierInv, SetupKept, Orderly, fat_new_file, FatHasRoom,
         NEW e \in Entries, e.first = job.filePosition, e.size = job.size, e.name = job.name
  PROVE  FileKept(e)'
<1> DEFINE n == FileClusters(e)
<1>1. PICK hi \in 2 .. fat_entries : Filled(hi) /\ DirsBelow(hi) /\ JobAt(hi)
  BY DEF FrontierInv
<1>2. job.filePosition = hi /\ ~Tableless(Len(dir_stack)) /\ pc = "data"
  BY <1>1 DEF JobAt, fat_new_file
<1>3. FileLengthOf(e) = FileLength /\ n = ClustersRequired
  BY DEF FileLengthOf, FileLength, FileClusters, ClustersRequired
<1>4. n \in Nat \ {0}
  BY FileSize
<1>5. /\ address_regions' = Append(address_regions,
           AddressRegion(address_from_fatclus(e.first), FileLengthOf(e), NoPointer, e.name))
      /\ fat' = FatWithChain(hi, n) /\ dir_stack' = dir_stack
  BY <1>2, <1>3 DEF fat_new_file
<1>6. hi + n <= fat_entries /\ hi \in Nat
  <2>1. hi \in Nat /\ fat_entries \in Nat /\ FatSlack \in Nat /\ Word \in Nat \ {0}
        /\ fat_entries + FatSlack < Word
    BY Sizes, FatFilesAssumption, LayoutAssumption
  <2>2. fat_entries - hi \in Nat /\ fat_entries - hi < Word
    BY <2>1
  <2>3. (fat_entries - hi) % Word = fat_entries - hi
    BY <2>1, <2>2, SmallRemainder
  <2>4. n <= fat_entries - hi
    BY <1>2, <1>3, <2>3 DEF FatHasRoom
  <2> QED BY <1>4, <2>1, <2>4
<1>7. \A d \in DOMAIN dir_stack : dir_stack[d].dir_location < hi
  BY <1>1, <1>2 DEF DirsBelow
<1> QED BY <1>2, <1>5, <1>6, <1>7, ChainIsKept

(* A file of a name that is not at hand can be read, in good order, after  *)
(* every step.                                                             *)
LEMMA FilesStep ==
  ASSUME TypeInv, TypeInv', PackedInv, NamesInv, SetupKept, FrontierInv, FilesInv, [Next]_vars
  PROVE  FilesInv'
<1> SUFFICES ASSUME Orderly', NEW e \in FileEntries', job'.name # e.name
             PROVE  FileKept(e)'
  BY DEF FilesInv
<1>1. Orderly
  BY EventsGrow DEF Orderly
<1>2. LinksKept
  BY FrontierStep
<1>3. PICK u \in DOMAIN dirtables', k \in Slots : e = dirtables'[u].slots[k] /\ e.kind = "file" /\ e \in Entries
  <2>1. PICK u \in DOMAIN dirtables' :
          (\E k \in DOMAIN dirtables'[u].slots : e = dirtables'[u].slots[k]) /\ e.kind = "file"
    BY DEF FileEntries
  <2>2. dirtables' \in Seq(DirTables)
    BY DEF TypeInv, TypeOK
  <2>3. dirtables'[u] \in DirTables
    BY <2>2, ElementOfSeq
  <2>4. DOMAIN dirtables'[u].slots = Slots /\ \A k \in Slots : dirtables'[u].slots[k] \in Entries
    BY <2>3 DEF DirTables, Slots
  <2> QED BY <2>1, <2>4
<1>4. ASSUME FileKept(e) PROVE FileKept(e)'
  <2>1. \A b \in FatWords : fat[b] \notin {0, fat_end} => fat'[b] = fat[b]
    BY <1>2 DEF LinksKept
  <2>2. \A i \in 0 .. FileClusters(e) - 1 : e.first + i \in FatWords
    BY <1>4 DEF FileKept
  <2> QED BY <1>3, <1>4, <2>1, <2>2, OrderlyFat, RegionsGrow, FileStaysKept
<1>5. ASSUME NEW t \in DOMAIN dirtables, NEW i \in Slots, dirtables[t].slots[i] = e
      PROVE  /\ e \in FileEntries /\ 0 < e.name
             /\ e.name # job.name => FileKept(e)
             /\ e.name = job.name => pc = "data" /\ e.first = job.filePosition /\ e.size = job.size
  <2>1. e \in FileEntries
    <3>1. i \in DOMAIN dirtables[t].slots
      BY TableShape
    <3> QED BY <1>3, <1>5, <3>1 DEF FileEntries
  <2>2. e.name # job.name => FileKept(e)
    BY <1>1, <2>1 DEF FilesInv
  <2>3. 0 < e.name /\ (e.name = job.name => OfJob(e, pc, job))
    <3>1. e.kind # "none"
      BY <1>3
    <3> QED BY <1>5, <3>1 DEF NamesInv, Filed
  <2>4. OfJob(e, pc, job) => pc = "data" /\ e.first = job.filePosition /\ e.size = job.size
    BY <1>3 DEF OfJob
  <2> QED BY <2>1, <2>2, <2>3, <2>4
<1>6. ASSUME NEW entry \in Entries, dir_add_entry(entry), EntryOfJob(entry)
      PROVE  FileKept(e)'
  <2>1. PICK t, i : Placed(entry, t, i)
    BY <1>6, EntryPlaced
  <2>2. pc # "data"
    BY <1>6, EntryControl
  <2>3. CASE e = entry
    <3>1. entry = ShortEntry /\ job' = job
      BY <1>3, <1>6, <2>3, EntryControl DEF LfnEntry, DotEntry, DotDotEntry, Entry
    <3>2. e.name = job'.name
      BY <2>3, <3>1 DEF ShortEntry, Entry
    <3> QED BY <3>2
  <2>4. CASE u \in DOMAIN dirtables /\ dirtables'[u].slots[k] = dirtables[u].slots[k]
    BY <1>3, <1>4, <1>5, <2>2, <2>4
  <2>5. e.kind # "none"
    BY <1>3
  <2> QED BY <1>3, <2>1, <2>3, <2>4, <2>5, EntriesAfter
<1>7. CASE Quiet
  <2>1. dirtables' = dirtables
    BY <1>7 DEF Quiet
  <2>2. CASE e.name # job.name
    BY <1>3, <1>4, <1>5, <2>1, <2>2
  <2>3. CASE e.name = job.name
    <3>1. pc = "data" /\ e.first = job.filePosition /\ e.size = job.size
      BY <1>3, <1>5, <2>1, <2>3
    <3>2. ~UNCHANGED vars
      BY <2>3 DEF vars
    <3>3. fat_new_file
      BY <1>7, <3>1, <3>2 DEF Quiet, AddFile, AddFolder, add_file, PickFilePosition, Launch,
         AddLfnEntry, AddShortEntry
    <3>4. FatHasRoom
      BY <3>3 DEF fat_new_file, Orderly
    <3> QED BY <1>1, <1>3, <2>3, <3>1, <3>3, <3>4, NewFileKept
  <2> QED BY <2>2, <2>3
<1>8. CASE EnterFolder \/ up_dir
  <2>1. dirtables' = dirtables /\ job' = job
    BY <1>8 DEF EnterFolder, up_dir
  <2> QED BY <1>3, <1>4, <1>5, <2>1
<1> QED BY <1>6, <1>7, <1>8, StepKinds

(* A file whose chain and region are there is readable: where regions are  *)
(* ascending they share no address.                                        *)
LEMMA KeptIsReadable ==
  ASSUME TypeInv, RegionsSorted, NEW e \in Entries, FileKept(e)
  PROVE  Readable(e)
<1> DEFINE n == FileClusters(e)
<1>1. n \in Nat \ {0} /\ e.first \in Nat
  BY FileSize
<1>2. \A k \in 0 .. n - 1 : fat[e.first + k] = IF k = n - 1 THEN fat_end ELSE e.first + k + 1
  BY DEF FileKept
<1>3. PICK r \in DataRegions :
        address_regions[r] = AddressRegion(address_from_fatclus(e.first), FileLengthOf(e), NoPointer, e.name)
  BY DEF FileKept
<1>4. \A q \in DataRegions \ {r} :
        RegionEnd(q) <= address_regions[r].base \/ RegionEnd(r) <= address_regions[q].base
  <2>1. DataRegions \subseteq Nat
    <3>1. Len(SetupRegions) \in Nat
      BY DEF SetupRegions
    <3> QED BY <3>1 DEF DataRegions
  <2> QED BY <2>1 DEF RegionsSorted
<1> HIDE DEF n
<1>5. \A k \in 0 .. n - 2 : fat[e.first + k] = e.first + k + 1
  BY <1>1, <1>2
<1>6. fat[e.first + n - 1] = fat_end
  <2>1. n - 1 \in 0 .. n - 1 /\ e.first + (n - 1) = e.first + n - 1
    BY <1>1
  <2>2. fat[e.first + (n - 1)] = fat_end
    BY <1>2, <2>1
  <2> QED BY <2>1, <2>2
<1> QED BY <1>3, <1>4, <1>5, <1>6 DEF Readable, FileClusters, n

(* The file entries of a state are entries.                                *)
LEMMA FileEntriesType == TypeInv => FileEntries \subseteq Entries
  BY TableShape DEF FileEntries

(* A file whose add_file has returned can be read through its chain, and   *)
(* no other region reaches into its own, in every orderly state.           *)
THEOREM FilesCorrect == Spec => []FilesReadable
<1>1. TypeInv /\ PackedInv /\ [Next]_vars => PackedInv'
  BY PackedStep
<1>2. /\ TypeInv /\ TypeInv' /\ PackedInv /\ NamesInv /\ SetupKept /\ FrontierInv
      /\ FilesInv /\ [Next]_vars
      => FilesInv'
  BY FilesStep, Zenon
<1>3. Init => SetupKept /\ FilesInv
  BY DEF Init, SetupKept, FilesInv, FileEntries
<1>4. TypeInv /\ FrontierInv /\ FilesInv => FilesReadable
  BY KeptIsReadable, FileEntriesType DEF FilesInv, FilesReadable, FrontierInv
<1> QED BY <1>1, <1>2, <1>3, <1>4, NamesInit, NamesStep, SetupStep, PackedInit, TypeCorrect,
       FrontierCorrect, PTL DEF Spec

-----------------------------------------------------------------------------
(* Where dirtables are mapped                                              *)

(* An open directory lists all of its dirtables, in the order of their     *)
(* malloc.                                                                 *)
Listed ==
  \A d \in DOMAIN dir_stack :
    /\ \A n, m \in DOMAIN dir_stack[d].dirtables :
         n < m => dir_stack[d].dirtables[n] < dir_stack[d].dirtables[m]
    /\ \A t \in DOMAIN dirtables : dirtables[t].dir = dir_stack[d].path =>
         \E n \in DOMAIN dir_stack[d].dirtables : dir_stack[d].dirtables[n] = t

(* A new dirtable goes to the end of the list of the directory it is of.   *)
LEMMA ListedStep == TypeInv /\ PackedInv /\ Numbered /\ Listed /\ [Next]_vars => Listed'
<1> SUFFICES ASSUME TypeInv, PackedInv, Numbered, Listed, [Next]_vars PROVE Listed'
  OBVIOUS
<1>1. ASSUME NEW entry \in Entries, dir_add_entry(entry), EntryOfJob(entry) PROVE Listed'
  <2>1. PICK t, i : Placed(entry, t, i)
    BY <1>1, EntryPlaced
  <2> DEFINE top == Len(dir_stack)
             us == current_dir'.dirtables
             ts == current_dir.dirtables
  <2>2. /\ top \in DOMAIN dir_stack /\ DOMAIN dir_stack' = DOMAIN dir_stack
        /\ dir_stack'[top] = current_dir' /\ current_dir = dir_stack[top]
        /\ Len(us) \in Nat \ {0} /\ DOMAIN us = 1 .. Len(us) /\ us[Len(us)] = t
        /\ \A n \in 1 .. Len(us) - 1 : n \in DOMAIN ts /\ us[n] = ts[n] /\ us[n] \in DOMAIN dirtables
        /\ \A d \in DOMAIN dir_stack : d # top => dir_stack'[d] = dir_stack[d]
    BY <2>1, ListsAfterEntry
  <2>3. /\ DOMAIN dirtables' = DOMAIN dirtables \cup {t} /\ t \in Nat \ {0}
        /\ \A u \in DOMAIN dirtables : dirtables'[u].dir = dirtables[u].dir
        /\ dirtables'[t].dir = current_dir.path /\ current_dir'.path = current_dir.path
        /\ t \in DOMAIN dirtables => us = ts
        /\ t \notin DOMAIN dirtables => t = Len(dirtables) + 1
    BY <2>1 DEF Placed
  <2>4. dirtables \in Seq(DirTables)
    BY DEF TypeInv, TypeOK
  <2>5. Len(dirtables) \in Nat /\ DOMAIN dirtables = 1 .. Len(dirtables)
    BY <2>4, LenProperties
  <2> HIDE DEF us, ts, top
  <2>6. ASSUME NEW d \in DOMAIN dir_stack, d # top
        PROVE  /\ \A n, m \in DOMAIN dir_stack'[d].dirtables :
                    n < m => dir_stack'[d].dirtables[n] < dir_stack'[d].dirtables[m]
               /\ \A u \in DOMAIN dirtables' : dirtables'[u].dir = dir_stack'[d].path =>
                    \E n \in DOMAIN dir_stack'[d].dirtables : dir_stack'[d].dirtables[n] = u
    <3>1. current_dir.path # dir_stack[d].path
      BY <2>2, <2>6 DEF Numbered
    <3>2. dir_stack'[d] = dir_stack[d]
      BY <2>2, <2>6
    <3> QED BY <2>3, <3>1, <3>2 DEF Listed
  <2>7. \A n, m \in DOMAIN us : n < m => us[n] < us[m]
    <3>1. CASE t \in DOMAIN dirtables
      BY <2>2, <2>3, <3>1 DEF Listed, ts
    <3>2. CASE t \notin DOMAIN dirtables
      <4> SUFFICES ASSUME NEW n \in 1 .. Len(us), NEW m \in 1 .. Len(us), n < m PROVE us[n] < us[m]
        BY <2>2
      <4>1. n \in 1 .. Len(us) - 1 /\ us[n] \in 1 .. Len(dirtables)
        BY <2>2, <2>5
      <4>2. CASE m = Len(us)
        BY <2>2, <2>3, <2>5, <3>2, <4>1, <4>2
      <4>3. CASE m # Len(us)
        <5>1. m \in 1 .. Len(us) - 1
          <6>1. Len(us) \in Nat
            BY <2>2
          <6> QED BY <4>3, <6>1
        <5> QED BY <2>2, <4>1, <5>1 DEF Listed, ts
      <4> QED BY <4>2, <4>3
    <3> QED BY <3>1, <3>2
  <2>8. ASSUME NEW u \in DOMAIN dirtables', dirtables'[u].dir = current_dir'.path
        PROVE  \E n \in DOMAIN us : us[n] = u
    <3>1. CASE u = t
      BY <2>2, <3>1
    <3>2. CASE u # t
      <4>1. u \in DOMAIN dirtables /\ dirtables[u].dir = current_dir.path
        BY <2>3, <2>8, <3>2
      <4>2. PICK n \in DOMAIN ts : ts[n] = u
        BY <2>2, <4>1 DEF Listed, ts
      <4>3. CASE t \in DOMAIN dirtables
        BY <2>3, <4>2, <4>3
      <4>4. CASE t \notin DOMAIN dirtables
        <5>1. us = Append(ts, t) /\ ts \in Seq(Nat \ {0})
          BY <2>1, <4>4, TopShape DEF Placed, us, ts
        <5>2. DOMAIN ts = 1 .. Len(ts) /\ Len(us) = Len(ts) + 1 /\ Len(ts) \in Nat
              /\ \A m \in 1 .. Len(ts) : us[m] = ts[m]
          BY <2>3, <5>1, AppendProperties, LenProperties
        <5>3. n \in DOMAIN us
          BY <2>2, <5>2
        <5> QED BY <4>2, <5>2, <5>3
      <4> QED BY <4>3, <4>4
    <3> QED BY <3>1, <3>2
  <2> QED BY <2>2, <2>6, <2>7, <2>8 DEF Listed, us
<1>2. CASE Quiet
  BY <1>2 DEF Quiet, Listed
<1>3. CASE EnterFolder
  <2> DEFINE top == Len(dir_stack) + 1
  <2>1. /\ top \in Nat \ {0} /\ Len(dir_stack') = top /\ DOMAIN dir_stack' = 1 .. top
        /\ DOMAIN dir_stack = 1 .. top - 1
        /\ dir_stack'[top] = Fat_Directory(job.name, << >>, 0, job.filePosition)
        /\ \A c \in 1 .. top - 1 : dir_stack'[c] = dir_stack[c]
    BY <1>3, FolderEntered
  <2>2. dirtables' = dirtables /\ pc = "enter"
    BY <1>3 DEF EnterFolder
  <2>3. \A t \in DOMAIN dirtables : dirtables[t].dir # job.name
    BY <2>2 DEF Numbered
  <2>4. DOMAIN dir_stack'[top].dirtables = {} /\ dir_stack'[top].path = job.name
    BY <2>1 DEF Fat_Directory
  <2> HIDE DEF top
  <2>5. \A d \in DOMAIN dir_stack' : d = top \/ (d \in DOMAIN dir_stack /\ dir_stack'[d] = dir_stack[d])
    BY <2>1
  <2> QED BY <2>2, <2>3, <2>4, <2>5 DEF Listed
<1>4. CASE up_dir
  <2>1. \A d \in DOMAIN dir_stack' : d \in DOMAIN dir_stack /\ dir_stack'[d] = dir_stack[d]
    BY <1>4, UpDirStack DEF TypeInv, TypeOK
  <2> QED BY <1>4, <2>1 DEF up_dir, Listed
<1> QED BY <1>1, <1>2, <1>3, <1>4, StepKinds

(* Region r maps the dirtable t at cluster c.                              *)
MappedAt(t, r, c) ==
  /\ address_regions[r].mem_pointer = DirTable(t)
  /\ address_regions[r].base = address_from_fatclus(c)
  /\ address_regions[r].length = cluster_size

(* Every dirtable is mapped by one region, at a cluster of the data area.  *)
Mapped ==
  /\ \A t \in DOMAIN dirtables : \E r \in DataRegions, c \in Nat : c >= 2 /\ MappedAt(t, r, c)
  /\ \A r \in DataRegions : \A t \in Nat : address_regions[r].mem_pointer = DirTable(t) =>
       /\ t \in DOMAIN dirtables
       /\ \A q \in DataRegions : address_regions[q].mem_pointer = DirTable(t) => q = r

(* clus_from_addr is the inverse of address_from_fatclus.                  *)
LEMMA ClusterOfAddress ==
  ASSUME NEW c \in Nat, c >= 2
  PROVE  clus_from_addr(address_from_fatclus(c)) = c
<1> DEFINE k == c - 2
<1>1. k \in Nat /\ 2 + k = c
  OBVIOUS
<1> HIDE DEF k
<1>2. /\ address_from_fatclus(2) \in Nat
      /\ address_from_fatclus(c) = address_from_fatclus(2) + cluster_size * k
  <2>1. 2 \in Nat /\ 2 >= 2
    OBVIOUS
  <2> QED BY <1>1, <2>1, ClusterAddress
<1>3. cluster_size \in Nat \ {0}
  BY Sizes
<1> DEFINE base == address_from_fatclus(2)
           address == address_from_fatclus(c)
<1>4. cluster_size * k \in Nat
  BY <1>1, <1>3
<1>5. address - base = cluster_size * k /\ ~(address < base)
  BY <1>2, <1>4
<1>6. clus_from_addr(address) = (address - base) \div cluster_size + 2
  BY <1>5 DEF clus_from_addr, root_dir_loc
<1> HIDE DEF base, address
<1>7. (cluster_size * k) \div cluster_size = k
  <2> DEFINE x == cluster_size * k
  <2>1. x \div cluster_size \in Nat /\ x % cluster_size \in 0 .. cluster_size - 1
        /\ x = cluster_size * (x \div cluster_size) + (x % cluster_size)
    BY <1>3, <1>4, Division
  <2>2. (cluster_size * k + 0) % cluster_size = 0
    BY <1>1, <1>3, Remainder
  <2>3. x % cluster_size = 0
    BY <1>4, <2>2
  <2>4. cluster_size * (x \div cluster_size) = cluster_size * k
    BY <1>3, <2>1, <2>3
  <2> HIDE DEF x
  <2>5. \A a, b \in Nat : cluster_size * a = cluster_size * b => a = b
    BY <1>3
  <2> QED BY <1>1, <2>1, <2>4, <2>5 DEF x
<1> QED BY <1>1, <1>5, <1>6, <1>7 DEF address

(* ClusterOf finds the region of a dirtable.                               *)
LEMMA ClusterFound ==
  ASSUME Mapped, NEW t \in DOMAIN dirtables, t \in Nat, NEW r \in DataRegions, NEW c \in Nat, c >= 2,
         MappedAt(t, r, c)
  PROVE  ClusterOf(t) = c
<1> DEFINE q == CHOOSE q \in DataRegions : address_regions[q].mem_pointer = DirTable(t)
<1>1. address_regions[r].mem_pointer = DirTable(t)
  BY DEF MappedAt
<1>2. q \in DataRegions /\ address_regions[q].mem_pointer = DirTable(t)
  BY <1>1
<1>3. q = r
  BY <1>1, <1>2 DEF Mapped
<1>4. ClusterOf(t) = clus_from_addr(address_regions[q].base)
  BY DEF ClusterOf
<1> QED BY <1>3, <1>4, ClusterOfAddress DEF MappedAt

(* So it does in the next state.                                           *)
PointersTell ==
  \A t \in DOMAIN dirtables, r \in DataRegions, c \in Nat :
    t \in Nat /\ c >= 2 /\ MappedAt(t, r, c) => ClusterOf(t) = c

(* A pointer tells where its dirtable is mapped ...                        *)
LEMMA ClustersFound == Mapped => PointersTell
  BY ClusterFound DEF PointersTell

(* ... also after a step.                                                  *)
LEMMA ClustersFoundNext == Mapped' => PointersTell'
  BY ClustersFound, PTL

(* So a dirtable has a cluster.                                            *)
LEMMA ClusterType ==
  ASSUME TypeInv, Mapped, NEW t \in DOMAIN dirtables
  PROVE  /\ ClusterOf(t) \in Nat /\ ClusterOf(t) >= 2
         /\ \E r \in DataRegions : MappedAt(t, r, ClusterOf(t))
<1>1. t \in Nat
  BY TableShape
<1>2. PICK r \in DataRegions, c \in Nat : c >= 2 /\ MappedAt(t, r, c)
  BY DEF Mapped
<1> QED BY <1>1, <1>2, ClusterFound

(* What a new region leaves of the map.                                    *)
LEMMA MapGrows ==
  ASSUME TypeInv, SetupKept, NEW r, address_regions' = Append(address_regions, r)
  PROVE  LET last == Len(address_regions) + 1 IN
         /\ DataRegions' = DataRegions \cup {last} /\ last \notin DataRegions
         /\ address_regions'[last] = r
         /\ \A i \in DataRegions : address_regions'[i] = address_regions[i]
<1>1. /\ Len(address_regions') = Len(address_regions) + 1 /\ Len(address_regions) \in Nat
      /\ \A i \in 1 .. Len(address_regions) : address_regions'[i] = address_regions[i]
      /\ address_regions'[Len(address_regions) + 1] = r
  BY RegionAppended
<1>2. Len(SetupRegions) = 6 /\ Len(address_regions) >= 6
  BY DEF SetupRegions, SetupKept
<1>3. DataRegions = 7 .. Len(address_regions) /\ DataRegions' = 7 .. Len(address_regions) + 1
  BY <1>1, <1>2 DEF DataRegions
<1> QED BY <1>1, <1>2, <1>3

(* A mapped dirtable stays where it is when regions are only added.        *)
MapKept == \A t \in DOMAIN dirtables : t \in DOMAIN dirtables' /\ ClusterOf(t)' = ClusterOf(t)

(* A dirtable is mapped when it is made, where its directory now ends.     *)
LEMMA MappedAfterEntry ==
  ASSUME TypeInv, TypeInv', SetupKept, Mapped, NEW entry, NEW t, NEW i, Placed(entry, t, i)
  PROVE  /\ Mapped' /\ MapKept
         /\ t \notin DOMAIN dirtables => ClusterOf(t)' = current_dir'.dir_location
<1>1. /\ DOMAIN dirtables' = DOMAIN dirtables \cup {t} /\ t \in Nat \ {0}
  BY DEF Placed
<1>2. \A u \in DOMAIN dirtables : u \in Nat
  BY TableShape
<1>3. CASE t \in DOMAIN dirtables
  <2>1. address_regions' = address_regions /\ DOMAIN dirtables' = DOMAIN dirtables
    BY <1>1, <1>3 DEF Placed
  <2>2. DataRegions' = DataRegions
    BY <2>1 DEF DataRegions
  <2> QED BY <1>3, <2>1, <2>2 DEF Mapped, MappedAt, MapKept, ClusterOf
<1>4. CASE t \notin DOMAIN dirtables
  <2>1. PICK loc \in Nat : loc = current_dir'.dir_location
    <3>1. current_dir' \in Fat_Directories'
      <4>1. Len(dir_stack') \in Nat \ {0} /\ \A d \in 1 .. Len(dir_stack') : dir_stack'[d] \in Fat_Directories
        <5>1. dir_stack' \in Seq(Fat_Directories) /\ dir_stack' # << >>
          BY DEF TypeInv, TypeOK
        <5> QED BY <5>1, LenProperties, EmptySeq, ElementOfSeq
      <4> QED BY <4>1 DEF current_dir
    <3> QED BY <3>1 DEF Fat_Directories
  <2> DEFINE r == AddressRegion(address_from_fatclus(loc), cluster_size, DirTable(t), 0)
  <2>2. address_regions' = Append(address_regions, r) /\ loc >= 2
    BY <1>4, <2>1 DEF Placed
  <2>3. PICK last \in Nat :
          /\ DataRegions' = DataRegions \cup {last} /\ last \notin DataRegions
          /\ address_regions'[last] = r
          /\ \A j \in DataRegions : address_regions'[j] = address_regions[j]
    <3>1. Len(address_regions) + 1 \in Nat
      BY <2>2, RegionAppended
    <3> QED BY <2>2, <3>1, MapGrows
  <2>4. /\ r.mem_pointer = DirTable(t) /\ r.base = address_from_fatclus(loc) /\ r.length = cluster_size
    BY DEF AddressRegion
  <2> HIDE DEF r
  <2>5. \A u, v : DirTable(u) = DirTable(v) => u = v
    BY DEF DirTable
  <2>6. \A u \in DOMAIN dirtables : \A j \in DataRegions : \A c \in Nat : MappedAt(u, j, c) => MappedAt(u, j, c)'
    BY <2>3 DEF MappedAt
  <2>7. MappedAt(t, last, loc)'
    BY <2>3, <2>4 DEF MappedAt
  <2>8. \A u \in DOMAIN dirtables' : \E j \in DataRegions', c \in Nat : c >= 2 /\ MappedAt(u, j, c)'
    <3>1. ASSUME NEW u \in DOMAIN dirtables PROVE \E j \in DataRegions', c \in Nat : c >= 2 /\ MappedAt(u, j, c)'
      BY <2>3, <2>6 DEF Mapped
    <3>2. \E j \in DataRegions', c \in Nat : c >= 2 /\ MappedAt(t, j, c)'
      BY <2>2, <2>3, <2>7
    <3> QED BY <1>1, <3>1, <3>2
  <2>9. ASSUME NEW j \in DataRegions', NEW u \in Nat, address_regions'[j].mem_pointer = DirTable(u)
        PROVE  /\ u \in DOMAIN dirtables'
               /\ \A q \in DataRegions' : address_regions'[q].mem_pointer = DirTable(u) => q = j
    <3>1. \A q \in DataRegions : address_regions'[q].mem_pointer # DirTable(t)
      BY <1>1, <1>4, <2>3 DEF Mapped
    <3>2. CASE j = last
      BY <1>1, <2>3, <2>4, <2>5, <2>9, <3>1, <3>2
    <3>3. CASE j \in DataRegions
      <4>1. u # t /\ address_regions[j].mem_pointer = DirTable(u)
        BY <2>3, <2>9, <3>1, <3>3
      <4>2. u \in DOMAIN dirtables /\ \A q \in DataRegions : address_regions[q].mem_pointer = DirTable(u) => q = j
        BY <3>3, <4>1 DEF Mapped
      <4> QED BY <1>1, <2>3, <2>4, <2>5, <4>1, <4>2
    <3> QED BY <2>3, <3>2, <3>3
  <2>10. Mapped'
    BY <2>8, <2>9 DEF Mapped
  <2>11. PointersTell'
    BY <2>10, ClustersFoundNext
  <2>12. ASSUME NEW u \in DOMAIN dirtables PROVE ClusterOf(u)' = ClusterOf(u)
    <3>1. PICK j \in DataRegions, c \in Nat : c >= 2 /\ MappedAt(u, j, c)
      BY DEF Mapped
    <3>2. ClusterOf(u) = c
      BY <1>2, <3>1, ClusterFound
    <3>3. MappedAt(u, j, c)' /\ j \in DataRegions' /\ u \in DOMAIN dirtables'
      BY <1>1, <2>3, <2>6, <3>1
    <3>4. ClusterOf(u)' = c
      BY <1>2, <2>11, <3>1, <3>3 DEF PointersTell
    <3> QED BY <3>2, <3>4
  <2>13. ClusterOf(t)' = loc
    <3>1. t \in DOMAIN dirtables' /\ t \in Nat /\ last \in DataRegions'
      BY <1>1, <2>3
    <3> QED BY <2>2, <2>7, <2>11, <3>1 DEF PointersTell
  <2> QED BY <1>1, <2>1, <2>10, <2>12, <2>13 DEF MapKept
<1> QED BY <1>3, <1>4

(* No step moves a dirtable.                                               *)
LEMMA MappedStep ==
  ASSUME TypeInv, TypeInv', PackedInv, SetupKept, Mapped, [Next]_vars
  PROVE  Mapped' /\ MapKept
<1>1. ASSUME NEW entry \in Entries, dir_add_entry(entry), EntryOfJob(entry) PROVE Mapped' /\ MapKept
  <2>1. PICK t, i : Placed(entry, t, i)
    BY <1>1, EntryPlaced
  <2> QED BY <2>1, MappedAfterEntry
<1>2. CASE UNCHANGED << dirtables, address_regions >>
  <2>1. DataRegions' = DataRegions
    BY <1>2 DEF DataRegions
  <2> QED BY <1>2, <2>1 DEF Mapped, MappedAt, MapKept, ClusterOf
<1>3. CASE fat_new_file /\ address_regions' # address_regions
  <2> DEFINE r == AddressRegion(address_from_fatclus(job.filePosition), FileLength, NoPointer, job.name)
  <2>1. address_regions' = Append(address_regions, r) /\ dirtables' = dirtables
    BY <1>3 DEF fat_new_file
  <2>2. PICK last :
          /\ DataRegions' = DataRegions \cup {last} /\ last \notin DataRegions
          /\ address_regions'[last] = r
          /\ \A j \in DataRegions : address_regions'[j] = address_regions[j]
    BY <2>1, MapGrows
  <2>3. \A t : r.mem_pointer # DirTable(t)
    BY DEF AddressRegion, NoPointer, DirTable
  <2> HIDE DEF r
  <2>4. \A u \in DOMAIN dirtables : \A j \in DataRegions : \A c \in Nat : MappedAt(u, j, c) => MappedAt(u, j, c)'
    BY <2>2 DEF MappedAt
  <2>5. \A t : address_regions'[last].mem_pointer # DirTable(t)
    BY <2>2, <2>3
  <2>6. \A u \in DOMAIN dirtables' : \E j \in DataRegions', c \in Nat : c >= 2 /\ MappedAt(u, j, c)'
    BY <2>1, <2>2, <2>4 DEF Mapped
  <2>7. Mapped'
    <3>1. ASSUME NEW j \in DataRegions', NEW u \in Nat, address_regions'[j].mem_pointer = DirTable(u)
          PROVE  /\ u \in DOMAIN dirtables'
                 /\ \A q \in DataRegions' : address_regions'[q].mem_pointer = DirTable(u) => q = j
      <4>1. j \in DataRegions /\ address_regions[j].mem_pointer = DirTable(u)
        BY <2>2, <2>5, <3>1
      <4>2. u \in DOMAIN dirtables /\ \A q \in DataRegions : address_regions[q].mem_pointer = DirTable(u) => q = j
        BY <4>1 DEF Mapped
      <4> QED BY <2>1, <2>2, <2>5, <4>2
    <3> QED BY <2>6, <3>1 DEF Mapped
  <2>8. PointersTell'
    BY <2>7, ClustersFoundNext
  <2>9. ASSUME NEW u \in DOMAIN dirtables PROVE ClusterOf(u)' = ClusterOf(u)
    <3>1. PICK j \in DataRegions, c \in Nat : c >= 2 /\ MappedAt(u, j, c)
      BY DEF Mapped
    <3>2. u \in Nat
      BY TableShape
    <3>3. ClusterOf(u) = c
      BY <3>1, <3>2, ClusterFound
    <3>4. MappedAt(u, j, c)' /\ j \in DataRegions' /\ u \in DOMAIN dirtables'
      BY <2>1, <2>2, <2>4, <3>1
    <3>5. ClusterOf(u)' = c
      BY <2>8, <3>1, <3>2, <3>4 DEF PointersTell
    <3> QED BY <3>3, <3>5
  <2> QED BY <2>1, <2>7, <2>9 DEF MapKept
<1>4. CASE Quiet
  <2>1. dirtables' = dirtables
    BY <1>4 DEF Quiet
  <2>2. address_regions' = address_regions \/ fat_new_file
    BY <1>4 DEF Quiet, AddFile, AddFolder, add_file, image, PickFilePosition, Launch, vars, Dropped
  <2> QED BY <1>2, <1>3, <2>1, <2>2
<1>5. CASE EnterFolder \/ up_dir
  BY <1>2, <1>5 DEF EnterFolder, up_dir
<1> QED BY <1>1, <1>4, <1>5, StepKinds

(* The dirtable a directory ends in.                                       *)
LastTable(d) == dir_stack[d].dirtables[Len(dir_stack[d].dirtables)]

(* It is a dirtable of that directory.                                     *)
LEMMA LastTableShape ==
  ASSUME TypeInv, PackedInv, NEW d \in DOMAIN dir_stack, dir_stack[d].dirtables # << >>
  PROVE  /\ Len(dir_stack[d].dirtables) \in DOMAIN dir_stack[d].dirtables
         /\ LastTable(d) \in DOMAIN dirtables
         /\ dirtables[LastTable(d)].dir = dir_stack[d].path
<1>1. dir_stack[d] \in Fat_Directories
  BY StackShape
<1>2. dir_stack[d].dirtables \in Seq(Nat \ {0})
  BY <1>1 DEF Fat_Directories
<1>3. Len(dir_stack[d].dirtables) \in DOMAIN dir_stack[d].dirtables
  BY <1>2, LenProperties, EmptySeq
<1> QED BY <1>3 DEF LastTable, PackedInv, DirectoriesPacked, TablesApart

(* dir_location is the cluster of the last dirtable.                       *)
Located ==
  \A d \in DOMAIN dir_stack :
    dir_stack[d].dirtables # << >> => ClusterOf(LastTable(d)) = dir_stack[d].dir_location

(* It stays so: a new last dirtable is mapped at the new dir_location.     *)
LEMMA LocatedStep ==
  ASSUME TypeInv, TypeInv', PackedInv, SetupKept, Mapped, Located, [Next]_vars
  PROVE  Located'
<1>1. MapKept
  BY MappedStep
<1>2. ASSUME NEW d, d \in DOMAIN dir_stack, dir_stack'[d] = dir_stack[d], dir_stack'[d].dirtables # << >>
      PROVE  ClusterOf(LastTable(d))' = dir_stack'[d].dir_location
  <2>1. LastTable(d)' = LastTable(d) /\ LastTable(d) \in DOMAIN dirtables
    BY <1>2, LastTableShape DEF LastTable
  <2>2. PICK t \in DOMAIN dirtables : t = LastTable(d)
    BY <2>1
  <2>3. ClusterOf(t)' = ClusterOf(t)
    BY <1>1 DEF MapKept
  <2>4. ClusterOf(t) = dir_stack[d].dir_location
    BY <1>2, <2>2 DEF Located
  <2>5. ClusterOf(LastTable(d))' = ClusterOf(t)'
    BY <2>1, <2>2
  <2> QED BY <1>2, <2>3, <2>4, <2>5
<1>3. ASSUME NEW entry \in Entries, dir_add_entry(entry), EntryOfJob(entry) PROVE Located'
  <2>1. PICK t, i : Placed(entry, t, i)
    BY <1>3, EntryPlaced
  <2>2. PICK top \in DOMAIN dir_stack : top = Len(dir_stack)
    BY TopShape
  <2>3. /\ DOMAIN dir_stack' = DOMAIN dir_stack /\ current_dir = dir_stack[top]
        /\ dir_stack'[top] = current_dir'
        /\ current_dir'.dirtables[Len(current_dir'.dirtables)] = t
        /\ \A d \in DOMAIN dir_stack : d # top => dir_stack'[d] = dir_stack[d]
    BY <2>1, <2>2, ListsAfterEntry
  <2>4. LastTable(top)' = t
    BY <2>3 DEF LastTable
  <2>5. ClusterOf(t)' = dir_stack'[top].dir_location
    <3>1. CASE t \in DOMAIN dirtables
      <4>1. /\ current_dir'.dirtables = current_dir.dirtables /\ current_dir'.dirtables # << >>
            /\ current_dir'.dir_location = current_dir.dir_location
        BY <2>1, <3>1 DEF Placed
      <4>2. LastTable(top) = t
        BY <2>3, <4>1 DEF LastTable
      <4>3. ClusterOf(t) = dir_stack[top].dir_location
        BY <2>3, <4>1, <4>2 DEF Located
      <4> QED BY <1>1, <2>3, <3>1, <4>1, <4>3 DEF MapKept
    <3>2. CASE t \notin DOMAIN dirtables
      BY <2>1, <2>3, <3>2, MappedAfterEntry
    <3> QED BY <3>1, <3>2
  <2>6. ClusterOf(LastTable(top))' = dir_stack'[top].dir_location
    BY <2>4, <2>5
  <2> QED BY <1>2, <2>3, <2>6 DEF Located
<1>4. CASE Quiet \/ up_dir
  <2>1. \A d \in DOMAIN dir_stack' : d \in DOMAIN dir_stack /\ dir_stack'[d] = dir_stack[d]
    BY <1>4, UpDirStack DEF Quiet, TypeInv, TypeOK
  <2> QED BY <1>2, <2>1 DEF Located
<1>5. CASE EnterFolder
  <2> DEFINE top == Len(dir_stack) + 1
  <2>1. /\ top \in Nat \ {0} /\ Len(dir_stack') = top /\ DOMAIN dir_stack' = 1 .. top
        /\ DOMAIN dir_stack = 1 .. top - 1
        /\ dir_stack'[top] = Fat_Directory(job.name, << >>, 0, job.filePosition)
        /\ \A c \in 1 .. top - 1 : dir_stack'[c] = dir_stack[c]
    BY <1>5, FolderEntered
  <2>2. dir_stack'[top].dirtables = << >>
    BY <2>1 DEF Fat_Directory
  <2> HIDE DEF top
  <2>3. \A d \in DOMAIN dir_stack' : d = top \/ (d \in DOMAIN dir_stack /\ dir_stack'[d] = dir_stack[d])
    BY <2>1
  <2> QED BY <1>2, <2>2, <2>3 DEF Located
<1> QED BY <1>3, <1>4, <1>5, StepKinds

(* While a folder is being made, the directory in which its entry stands.  *)
Holder == IF pc = "enter" THEN Len(dir_stack) ELSE Len(dir_stack) - 1

(* The entry of the folder at hand stands in the last dirtable of that     *)
(* directory, which does not grow until the folder's own is left.          *)
FolderAbove ==
  \A t \in DOMAIN dirtables : \A i \in Slots :
    LET e == dirtables[t].slots[i]
    IN  e.kind = "dir" /\ e.name = job.name =>
          /\ Holder \in DOMAIN dir_stack
          /\ dir_stack[Holder].dirtables # << >>
          /\ t = LastTable(Holder)

(* Where the folder at hand is: at the top of the stack, or below it.      *)
LEMMA FolderAboveStep ==
  ASSUME TypeInv, PackedInv, NamesInv, FolderAbove, [Next]_vars
  PROVE  FolderAbove'
<1>1. \A t \in DOMAIN dirtables : \A i \in Slots :
        LET e == dirtables[t].slots[i] IN
        e.kind = "dir" =>
          /\ 0 < e.name /\ e.name <= scanned /\ e.name \in Nat
          /\ e.name = job.name => pc \in {"enter", "dot", "dotdot"}
  <2>1. \A e, at, j : e.kind = "dir" /\ OfJob(e, at, j) => at \in {"enter", "dot", "dotdot"}
    BY DEF OfJob
  <2> QED BY <2>1, TableShape DEF NamesInv, Filed, Entries
<1>2. scanned \in Nat /\ NoJob.name = 0
  BY DEF TypeInv, TypeOK, NoJob, Job
<1>3. ASSUME NEW entry \in Entries, dir_add_entry(entry), EntryOfJob(entry),
             NEW u \in DOMAIN dirtables', NEW k \in Slots, dirtables'[u].slots[k].kind = "dir",
             dirtables'[u].slots[k].name = job'.name
      PROVE  /\ Holder' \in DOMAIN dir_stack'
             /\ dir_stack'[Holder'].dirtables # << >>
             /\ u = LastTable(Holder)'
  <2>1. PICK t, i : Placed(entry, t, i)
    BY <1>3, EntryPlaced
  <2>2. PICK top \in DOMAIN dir_stack : top = Len(dir_stack)
    BY TopShape
  <2>3. /\ DOMAIN dir_stack' = DOMAIN dir_stack /\ current_dir = dir_stack[top]
        /\ dir_stack'[top] = current_dir'
        /\ current_dir'.dirtables[Len(current_dir'.dirtables)] = t
        /\ \A d \in DOMAIN dir_stack : d # top => dir_stack'[d] = dir_stack[d]
    BY <2>1, <2>2, ListsAfterEntry
  <2>4. Len(dir_stack') = top /\ current_dir'.dirtables # << >>
    BY <2>1, <2>2 DEF Placed
  <2>5. CASE u = t /\ dirtables'[u].slots[k] = entry
    <3>1. entry.kind = "dir"
      BY <1>3, <2>5
    <3>2. entry = ShortEntry /\ pc' = (IF job.isDirectory # 0 THEN "enter" ELSE "data")
      BY <1>3, <3>1, EntryControl DEF LfnEntry, DotEntry, DotDotEntry, Entry
    <3>3. pc' = "enter"
      BY <3>1, <3>2 DEF ShortEntry, Entry
    <3>4. Holder' = top
      BY <2>4, <3>3 DEF Holder
    <3> QED BY <2>3, <2>4, <2>5, <3>4 DEF LastTable
  <2>6. CASE u \in DOMAIN dirtables /\ dirtables'[u].slots[k] = dirtables[u].slots[k]
    <3> DEFINE e == dirtables[u].slots[k]
    <3>1. e.kind = "dir" /\ e.name = job'.name /\ 0 < e.name /\ e.name \in Nat
      BY <1>1, <1>3, <2>6
    <3>2. job' # NoJob
      BY <1>2, <3>1
    <3>3. e.name = job.name
      BY <1>3, <3>1, <3>2, EntryControl
    <3>4. pc \in {"enter", "dot", "dotdot"}
      BY <1>1, <2>6, <3>1, <3>3
    <3>5. pc = "dot" /\ pc' = "dotdot"
      BY <1>3, <3>2, <3>4, EntryControl
    <3>6. Holder = top - 1 /\ Holder' = top - 1
      BY <2>2, <2>4, <3>5 DEF Holder
    <3>7. /\ Holder \in DOMAIN dir_stack /\ dir_stack[Holder].dirtables # << >>
          /\ u = LastTable(Holder)
      BY <2>6, <3>1, <3>3 DEF FolderAbove
    <3>8. top \in Nat /\ top - 1 # top
      BY <2>2, TopShape
    <3>9. dir_stack'[top - 1] = dir_stack[top - 1]
      BY <2>3, <3>6, <3>7, <3>8
    <3> QED BY <2>3, <3>6, <3>7, <3>9 DEF LastTable
  <2> QED BY <1>3, <2>1, <2>5, <2>6, EntriesAfter
<1>4. CASE Quiet
  <2>1. dirtables' = dirtables /\ dir_stack' = dir_stack
    BY <1>4 DEF Quiet
  <2>2. ASSUME NEW t \in DOMAIN dirtables, NEW i \in Slots, dirtables[t].slots[i].kind = "dir",
               dirtables[t].slots[i].name = job'.name
        PROVE  job'.name = job.name /\ pc' = pc
    <3> DEFINE e == dirtables[t].slots[i]
    <3>1. e.name = job'.name /\ 0 < e.name /\ e.name <= scanned /\ e.name \in Nat
          /\ (e.name = job.name => pc \in {"enter", "dot", "dotdot"})
      BY <1>1, <2>2
    <3> HIDE DEF e
    <3>2. job' # NoJob /\ job'.name # scanned + 1
      BY <1>2, <3>1
    <3> QED BY <1>4, <3>1, <3>2, QuietControl
  <2>3. pc' = pc => Holder' = Holder
    BY <2>1 DEF Holder
  <2> QED BY <2>1, <2>2, <2>3 DEF FolderAbove, LastTable
<1>5. CASE EnterFolder
  <2>1. PICK top \in Nat : top = Len(dir_stack) + 1
    BY StackShape
  <2>2. /\ Len(dir_stack') = top /\ DOMAIN dir_stack' = 1 .. top
        /\ DOMAIN dir_stack = 1 .. top - 1
        /\ \A c \in 1 .. top - 1 : dir_stack'[c] = dir_stack[c]
    BY <1>5, <2>1, FolderEntered
  <2>3. pc = "enter" /\ pc' = "dot" /\ dirtables' = dirtables /\ job' = job
    BY <1>5 DEF EnterFolder
  <2>4. Len(dir_stack) \in Nat /\ Len(dir_stack) = top - 1
    BY <2>1, StackShape
  <2>5. Holder = top - 1 /\ Holder' = top - 1
    BY <2>2, <2>3, <2>4 DEF Holder
  <2>6. \A d \in DOMAIN dir_stack : d \in DOMAIN dir_stack' /\ dir_stack'[d] = dir_stack[d]
    BY <2>1, <2>2
  <2> HIDE DEF Holder
  <2>7. Holder \in DOMAIN dir_stack =>
          Holder' \in DOMAIN dir_stack' /\ dir_stack'[Holder'] = dir_stack[Holder]
    BY <2>5, <2>6
  <2> QED BY <2>3, <2>5, <2>7 DEF FolderAbove, LastTable
<1>6. CASE up_dir
  <2>1. dirtables' = dirtables /\ job' = job /\ job.name = 0
    BY <1>6 DEF up_dir, NamesInv, Numbered
  <2>2. \A t \in DOMAIN dirtables : \A i \in Slots :
          dirtables[t].slots[i].kind = "dir" => dirtables[t].slots[i].name # job'.name
    BY <1>1, <2>1
  <2> QED BY <2>1, <2>2 DEF FolderAbove
<1>7. \/ \E entry \in Entries : dir_add_entry(entry) /\ EntryOfJob(entry)
      \/ Quiet \/ EnterFolder \/ up_dir
  BY StepKinds
<1>8. (\E entry \in Entries : dir_add_entry(entry) /\ EntryOfJob(entry)) => FolderAbove'
  BY <1>3 DEF FolderAbove
<1> QED BY <1>4, <1>5, <1>6, <1>7, <1>8

(* The .. entry of a folder names the cluster in which the folder's entry  *)
(* stands.                                                                 *)
ParentsAre ==
  \A t, u \in DOMAIN dirtables : \A i, j \in Slots :
    LET e == dirtables[t].slots[i]
        up == dirtables[u].slots[j]
    IN  e.kind = "dir" /\ up.kind = "dotdot" /\ up.name = e.name =>
          up.first = ClusterOf(t) % DotWord

(* The directory above the folder at hand is the one its entry stands in.  *)
LEMMA ParentsStep ==
  ASSUME TypeInv, TypeInv', PackedInv, NamesInv, SetupKept, Mapped, Located, FolderAbove,
         ParentsAre, [Next]_vars
  PROVE  ParentsAre'
<1>1. MapKept
  BY MappedStep
<1>2. ASSUME NEW entry \in Entries, dir_add_entry(entry), EntryOfJob(entry),
             NEW t \in DOMAIN dirtables', NEW u \in DOMAIN dirtables', NEW i \in Slots, NEW j \in Slots,
             dirtables'[t].slots[i].kind = "dir", dirtables'[u].slots[j].kind = "dotdot",
             dirtables'[u].slots[j].name = dirtables'[t].slots[i].name
      PROVE  dirtables'[u].slots[j].first = ClusterOf(t)' % DotWord
  <2>1. PICK s, k : Placed(entry, s, k)
    BY <1>2, EntryPlaced
  <2> DEFINE e == dirtables'[t].slots[i]
             up == dirtables'[u].slots[j]
  <2>2. e = entry \/ (t \in DOMAIN dirtables /\ e = dirtables[t].slots[i])
    BY <1>2, <2>1, EntriesAfter
  <2>3. up = entry \/ (u \in DOMAIN dirtables /\ up = dirtables[u].slots[j])
    BY <1>2, <2>1, EntriesAfter
  <2>4. e.kind = "dir" /\ up.kind = "dotdot" /\ up.name = e.name
    BY <1>2
  <2> HIDE DEF e, up
  <2>5. CASE e = entry
    <3>1. entry = ShortEntry /\ pc = "short"
      BY <1>2, <2>4, <2>5, EntryControl DEF LfnEntry, DotEntry, DotDotEntry, Entry
    <3>2. up # entry /\ up.name = job.name
      BY <2>4, <2>5, <3>1 DEF ShortEntry, Entry
    <3>3. u \in DOMAIN dirtables /\ up = dirtables[u].slots[j]
      BY <2>3, <3>2
    <3>4. OfJob(up, pc, job)
      BY <2>4, <3>2, <3>3 DEF NamesInv, Filed
    <3>5. FALSE
      BY <2>4, <3>1, <3>4 DEF OfJob
    <3> QED BY <3>5
  <2>6. CASE up = entry /\ e # entry
    <3>1. entry = DotDotEntry /\ pc = "dotdot"
      BY <1>2, <2>4, <2>6, EntryControl DEF LfnEntry, DotEntry, ShortEntry, Entry
    <3>2. t \in DOMAIN dirtables /\ e = dirtables[t].slots[i] /\ e.name = job.name
      BY <2>2, <2>4, <2>6, <3>1 DEF DotDotEntry, Entry
    <3>3. /\ Holder \in DOMAIN dir_stack /\ dir_stack[Holder].dirtables # << >>
          /\ t = LastTable(Holder)
      BY <2>4, <3>2 DEF FolderAbove
    <3>4. Holder = Len(dir_stack) - 1
      BY <3>1 DEF Holder
    <3>5. ClusterOf(t) = dir_stack[Len(dir_stack) - 1].dir_location
      BY <3>3, <3>4 DEF Located
    <3>6. up.first = dir_stack[Len(dir_stack) - 1].dir_location % DotWord
      BY <2>6, <3>1 DEF DotDotEntry, Entry
    <3>7. ClusterOf(t)' = ClusterOf(t)
      BY <1>1, <3>2 DEF MapKept
    <3> QED BY <3>5, <3>6, <3>7 DEF up
  <2>7. CASE e # entry /\ up # entry
    <3>1. /\ t \in DOMAIN dirtables /\ e = dirtables[t].slots[i]
          /\ u \in DOMAIN dirtables /\ up = dirtables[u].slots[j]
      BY <2>2, <2>3, <2>7
    <3>2. up.first = ClusterOf(t) % DotWord
      BY <2>4, <3>1 DEF ParentsAre
    <3>3. ClusterOf(t)' = ClusterOf(t)
      BY <1>1, <3>1 DEF MapKept
    <3> QED BY <3>2, <3>3 DEF up
  <2> QED BY <2>5, <2>6, <2>7
<1>3. CASE UNCHANGED dirtables
  <2>1. \A t \in DOMAIN dirtables : ClusterOf(t)' = ClusterOf(t)
    BY <1>1 DEF MapKept
  <2> QED BY <1>3, <2>1 DEF ParentsAre
<1>4. (\E entry \in Entries : dir_add_entry(entry) /\ EntryOfJob(entry)) => ParentsAre'
  BY <1>2 DEF ParentsAre
<1>5. Quiet \/ EnterFolder \/ up_dir => UNCHANGED dirtables
  BY DEF Quiet, EnterFolder, up_dir
<1> QED BY <1>3, <1>4, <1>5, StepKinds

(* All that places the dirtables and their folders.                        *)
PlacesInv == Listed /\ Mapped /\ Located /\ FolderAbove /\ ParentsAre

(* Before the first name is read there is no dirtable.                     *)
LEMMA PlacesInit == Init => PlacesInv
<1> SUFFICES ASSUME Init PROVE PlacesInv
  OBVIOUS
<1>1. DOMAIN dirtables = {} /\ \A d \in DOMAIN dir_stack : dir_stack[d].dirtables = << >>
  BY DEF Init, Fat_Directory
<1>2. DataRegions = {}
  <2>1. address_regions = SetupRegions /\ Len(SetupRegions) = 6
    BY DEF Init, SetupRegions
  <2> QED BY <2>1 DEF DataRegions
<1>3. \A d \in DOMAIN dir_stack : DOMAIN dir_stack[d].dirtables = {}
  BY <1>1
<1> QED BY <1>1, <1>2, <1>3 DEF PlacesInv, Listed, Mapped, Located, FolderAbove, ParentsAre

(* The parts keep each other.                                              *)
LEMMA PlacesStep ==
  TypeInv /\ TypeInv' /\ PackedInv /\ NamesInv /\ SetupKept /\ PlacesInv /\ [Next]_vars => PlacesInv'
<1> SUFFICES ASSUME TypeInv, TypeInv', PackedInv, NamesInv, SetupKept, PlacesInv, [Next]_vars
             PROVE  PlacesInv'
  OBVIOUS
<1>1. Listed /\ Mapped /\ Located /\ FolderAbove /\ ParentsAre /\ Numbered
  BY DEF PlacesInv, NamesInv
<1>2. Listed'
  BY <1>1, ListedStep
<1>3. Mapped'
  BY <1>1, MappedStep
<1>4. Located'
  BY <1>1, LocatedStep
<1>5. FolderAbove'
  BY <1>1, FolderAboveStep
<1>6. ParentsAre'
  BY <1>1, ParentsStep
<1> QED BY <1>2, <1>3, <1>4, <1>5, <1>6 DEF PlacesInv

(* The . entry of a folder names the cluster in the folder's entry, what    *)
(* the mask leaves of it.                                                  *)
OwnDots ==
  /\ pc = "dot" => current_dir.dir_location = job.filePosition
  /\ \A t, u \in DOMAIN dirtables : \A i, j \in Slots :
       LET e == dirtables[t].slots[i]
           dot == dirtables[u].slots[j]
       IN  e.kind = "dir" /\ dot.kind = "dot" /\ dot.name = e.name =>
             dot.first = e.first % DotWord

(* Both are given the position that was predicted for the folder.          *)
LEMMA OwnDotsStep ==
  ASSUME TypeInv, PackedInv, NamesInv, OwnDots, [Next]_vars
  PROVE  OwnDots'
<1>1. ASSUME NEW entry \in Entries, dir_add_entry(entry), EntryOfJob(entry),
             NEW t \in DOMAIN dirtables', NEW u \in DOMAIN dirtables', NEW i \in Slots, NEW j \in Slots,
             dirtables'[t].slots[i].kind = "dir", dirtables'[u].slots[j].kind = "dot",
             dirtables'[u].slots[j].name = dirtables'[t].slots[i].name
      PROVE  dirtables'[u].slots[j].first = dirtables'[t].slots[i].first % DotWord
  <2>1. PICK s, k : Placed(entry, s, k)
    BY <1>1, EntryPlaced
  <2> DEFINE e == dirtables'[t].slots[i]
             dot == dirtables'[u].slots[j]
  <2>2. e = entry \/ (t \in DOMAIN dirtables /\ e = dirtables[t].slots[i])
    BY <1>1, <2>1, EntriesAfter
  <2>3. dot = entry \/ (u \in DOMAIN dirtables /\ dot = dirtables[u].slots[j])
    BY <1>1, <2>1, EntriesAfter
  <2>4. e.kind = "dir" /\ dot.kind = "dot" /\ dot.name = e.name
    BY <1>1
  <2> HIDE DEF e, dot
  <2>5. CASE e = entry
    <3>1. entry = ShortEntry /\ pc = "short"
      BY <1>1, <2>4, <2>5, EntryControl DEF LfnEntry, DotEntry, DotDotEntry, Entry
    <3>2. dot # entry /\ dot.name = job.name
      BY <2>4, <2>5, <3>1 DEF ShortEntry, Entry
    <3>3. OfJob(dot, pc, job)
      BY <2>3, <2>4, <3>2 DEF NamesInv, Filed
    <3>4. FALSE
      BY <2>4, <3>1, <3>3 DEF OfJob
    <3> QED BY <3>4
  <2>6. CASE dot = entry /\ e # entry
    <3>1. entry = DotEntry /\ pc = "dot"
      BY <1>1, <2>4, <2>6, EntryControl DEF LfnEntry, DotDotEntry, ShortEntry, Entry
    <3>2. e = dirtables[t].slots[i] /\ t \in DOMAIN dirtables /\ e.name = job.name
      BY <2>2, <2>4, <2>6, <3>1 DEF DotEntry, Entry
    <3>3. OfJob(e, pc, job)
      BY <2>4, <3>2 DEF NamesInv, Filed
    <3>4. e.first = job.filePosition
      BY <2>4, <3>1, <3>3 DEF OfJob
    <3>5. dot.first = current_dir.dir_location % DotWord
      BY <2>6, <3>1 DEF DotEntry, Entry
    <3> QED BY <3>1, <3>4, <3>5 DEF OwnDots, e, dot
  <2>7. CASE e # entry /\ dot # entry
    <3>1. /\ t \in DOMAIN dirtables /\ e = dirtables[t].slots[i]
          /\ u \in DOMAIN dirtables /\ dot = dirtables[u].slots[j]
      BY <2>2, <2>3, <2>7
    <3>2. dot.first = e.first % DotWord
      BY <2>4, <3>1 DEF OwnDots
    <3> QED BY <3>2 DEF e, dot
  <2> QED BY <2>5, <2>6, <2>7
<1>2. ASSUME NEW entry \in Entries, dir_add_entry(entry), EntryOfJob(entry) PROVE OwnDots'
  <2>1. pc' # "dot"
    BY <1>2, EntryControl
  <2> QED BY <1>1, <1>2, <2>1 DEF OwnDots
<1>3. CASE EnterFolder
  <2>1. dirtables' = dirtables
    BY <1>3 DEF EnterFolder
  <2>2. current_dir'.dir_location = job'.filePosition
    <3>1. job' = job
      BY <1>3 DEF EnterFolder
    <3> QED BY <1>3, <3>1, FolderEntered DEF current_dir, Fat_Directory
  <2> QED BY <2>1, <2>2 DEF OwnDots
<1>4. CASE Quiet \/ up_dir
  <2>1. dirtables' = dirtables
    BY <1>4 DEF Quiet, up_dir
  <2>2. pc' = "dot" => UNCHANGED << pc, job, dir_stack >>
    BY <1>4, QuietControl DEF up_dir, Quiet
  <2> QED BY <2>1, <2>2 DEF OwnDots, current_dir
<1> QED BY <1>2, <1>3, <1>4, StepKinds

(* The . entry of a folder names its first cluster and the .. entry that of *)
(* its parent, where the parent is not the root and had one cluster when    *)
(* the folder was added, and no mask cuts the number; in every orderly      *)
(* state, for every geometry and folder.                                   *)
THEOREM DotsCorrect == Spec => []DotsNamed
<1>1. TypeInv /\ PackedInv /\ [Next]_vars => PackedInv'
  BY PackedStep
<1>2. Init => SetupKept /\ OwnDots
  BY DEF Init, SetupKept, OwnDots
<1>3. TypeInv /\ PackedInv /\ NamesInv /\ OwnDots /\ [Next]_vars => OwnDots'
  BY OwnDotsStep
<1>4. TypeInv /\ PlacesInv /\ OwnDots => DotsNamed
  <2> SUFFICES ASSUME TypeInv, PlacesInv, OwnDots, NEW t \in DOMAIN dirtables, NEW u \in DOMAIN dirtables,
                      NEW i \in Slots, NEW j \in Slots,
                      dirtables[t].slots[i].kind = "dir",
                      dirtables[u].slots[j].name = dirtables[t].slots[i].name
               PROVE  /\ dirtables[u].slots[j].kind = "dot" /\ dirtables[t].slots[i].first < DotWord
                           => dirtables[u].slots[j].first = dirtables[t].slots[i].first
                      /\ dirtables[u].slots[j].kind = "dotdot" /\ ClusterOf(t) < DotWord
                           => dirtables[u].slots[j].first = ClusterOf(t)
    BY TableShape DEF DotsNamed
  <2>1. dirtables[t].slots[i].first \in Nat
    BY TableShape DEF Entries
  <2>2. ClusterOf(t) \in Nat
    BY ClusterType DEF PlacesInv
  <2>3. \A x \in Nat : x < DotWord => x % DotWord = x
    BY FatFilesAssumption, SmallRemainder
  <2>4. dirtables[u].slots[j].kind = "dot" => dirtables[u].slots[j].first = dirtables[t].slots[i].first % DotWord
    BY DEF OwnDots
  <2>5. dirtables[u].slots[j].kind = "dotdot" => dirtables[u].slots[j].first = ClusterOf(t) % DotWord
    BY DEF PlacesInv, ParentsAre
  <2> QED BY <2>1, <2>2, <2>3, <2>4, <2>5
<1> QED BY <1>1, <1>2, <1>3, <1>4, NamesInit, NamesStep, SetupStep, PackedInit, PlacesInit, PlacesStep,
       TypeCorrect, PTL DEF Spec

-----------------------------------------------------------------------------
(* The chains of directories                                               *)

(* The dirtables of a folder after an entry.                               *)
LEMMA TablesAfterEntry ==
  ASSUME TypeInv, NEW entry, NEW t, NEW i, Placed(entry, t, i)
  PROVE  \A d : TablesOf(d)' = TablesOf(d) \cup (IF d = current_dir.path THEN {t} ELSE {})
<1>1. /\ DOMAIN dirtables' = DOMAIN dirtables \cup {t}
      /\ \A u \in DOMAIN dirtables : dirtables'[u].dir = dirtables[u].dir
      /\ dirtables'[t].dir = current_dir.path
  BY DEF Placed
<1> QED BY <1>1 DEF TablesOf

(* An open directory without a dirtable is the root or has just been entered. *)
Started ==
  \A d \in DOMAIN dir_stack : dir_stack[d].dirtables = << >> =>
    \/ dir_stack[d].path = 0
    \/ pc = "dot" /\ d = Len(dir_stack) /\ dir_stack[d].dir_location = job.filePosition

(* A directory gets its first dirtable with its first entry.               *)
LEMMA StartedStep ==
  ASSUME TypeInv, PackedInv, Started, [Next]_vars
  PROVE  Started'
<1>1. ASSUME NEW entry \in Entries, dir_add_entry(entry), EntryOfJob(entry) PROVE Started'
  <2>1. PICK t, i : Placed(entry, t, i)
    BY <1>1, EntryPlaced
  <2>2. PICK top \in DOMAIN dir_stack : top = Len(dir_stack)
    BY TopShape
  <2>3. /\ DOMAIN dir_stack' = DOMAIN dir_stack /\ dir_stack'[top] = current_dir'
        /\ \A d \in DOMAIN dir_stack : d # top => dir_stack'[d] = dir_stack[d]
    BY <2>1, <2>2, ListsAfterEntry
  <2>4. current_dir'.dirtables # << >>
    BY <2>1 DEF Placed
  <2> QED BY <2>2, <2>3, <2>4 DEF Started
<1>2. CASE Quiet
  <2>1. dir_stack' = dir_stack
    BY <1>2 DEF Quiet
  <2>2. pc = "dot" => pc' = pc /\ job' = job
    BY <1>2, QuietControl
  <2> QED BY <2>1, <2>2 DEF Started
<1>3. CASE EnterFolder
  <2>1. PICK top \in Nat : top = Len(dir_stack) + 1
    BY StackShape
  <2>2. /\ Len(dir_stack') = top /\ DOMAIN dir_stack' = 1 .. top
        /\ DOMAIN dir_stack = 1 .. top - 1
        /\ dir_stack'[top] = Fat_Directory(job.name, << >>, 0, job.filePosition)
        /\ \A c \in 1 .. top - 1 : dir_stack'[c] = dir_stack[c]
    BY <1>3, <2>1, FolderEntered
  <2>3. pc = "enter" /\ pc' = "dot" /\ job' = job
    BY <1>3 DEF EnterFolder
  <2>4. dir_stack'[top].dir_location = job.filePosition
    BY <2>2 DEF Fat_Directory
  <2>5. \A d \in DOMAIN dir_stack' : d = top \/ (d \in DOMAIN dir_stack /\ dir_stack'[d] = dir_stack[d])
    BY <2>1, <2>2
  <2> QED BY <2>2, <2>3, <2>4, <2>5 DEF Started
<1>4. CASE up_dir
  <2>1. \A d \in DOMAIN dir_stack' : d \in DOMAIN dir_stack /\ dir_stack'[d] = dir_stack[d]
    BY <1>4, UpDirStack DEF TypeInv, TypeOK
  <2>2. pc = "readdir"
    BY <1>4 DEF up_dir
  <2> QED BY <2>1, <2>2 DEF Started
<1> QED BY <1>1, <1>2, <1>3, <1>4, StepKinds

(* A directory gets its first dirtable where it was said to begin.         *)
LEMMA FirstLocation ==
  ASSUME TypeInv, NEW entry \in Entries, dir_add_entry(entry), current_dir.dirtables = << >>
  PROVE  current_dir'.dir_location = current_dir.dir_location
<1>1. FirstCluster(entry)
  BY DEF dir_add_entry, NextCluster, SameCluster
<1>2. PICK ts : ts = << Len(dirtables) + 1 >> /\ DirWithEntry(ts, current_dir.dir_location)
  BY <1>1 DEF FirstCluster
<1>3. ts \in Seq(Nat \ {0})
  <2>1. Len(dirtables) \in Nat
    BY LenProperties DEF TypeInv, TypeOK
  <2> QED BY <1>2, <2>1
<1>4. current_dir.dir_location \in Nat
  BY TopShape
<1> QED BY <1>2, <1>3, <1>4, TopReplaced

(* The entry of a folder names the cluster of its first dirtable.          *)
Begins(e) ==
  LET mine == TablesOf(e.name)
  IN  mine = {} \/ \E u \in mine : (\A v \in mine : u <= v) /\ e.first = ClusterOf(u)

(* Of every folder's entry.                                                *)
FirstNamed ==
  \A t \in DOMAIN dirtables : \A i \in Slots : \A e \in Entries :
    dirtables[t].slots[i] = e /\ e.kind = "dir" => Begins(e)

(* The first dirtable of a folder is mapped where its entry says.          *)
LEMMA FirstStep ==
  ASSUME TypeInv, TypeInv', PackedInv, NamesInv, SetupKept, Mapped, Started, FirstNamed, [Next]_vars
  PROVE  FirstNamed'
<1>1. MapKept
  BY MappedStep
<1>2. ASSUME NEW entry \in Entries, dir_add_entry(entry), EntryOfJob(entry), NEW e \in Entries,
             NEW s \in DOMAIN dirtables', NEW k \in Slots, dirtables'[s].slots[k] = e, e.kind = "dir"
      PROVE  Begins(e)'
  <2>1. PICK t, i : Placed(entry, t, i)
    BY <1>2, EntryPlaced
  <2>2. e = dirtables'[s].slots[k]
    BY <1>2
  <2>3. PICK path : path = current_dir.path
    OBVIOUS
  <2>4. \A d : TablesOf(d)' = TablesOf(d) \cup (IF d = path THEN {t} ELSE {})
    BY <2>1, <2>3, TablesAfterEntry
  <2>5. e = entry \/ (s \in DOMAIN dirtables /\ e = dirtables[s].slots[k])
    BY <1>2, <2>1, <2>2, EntriesAfter
  <2>6. TablesOf(e.name) \subseteq DOMAIN dirtables /\ \A u \in DOMAIN dirtables : u \in Nat
    BY TableShape DEF TablesOf
  <2>7. CASE e = entry
    <3>1. pc = "short" /\ e.name = job.name
      BY <1>2, <2>2, <2>7, EntryControl DEF LfnEntry, DotEntry, DotDotEntry, ShortEntry, Entry
    <3>2. path # job.name
      BY <2>3, <3>1, TopShape DEF NamesInv, Numbered
    <3>3. TablesOf(job.name) = {}
      BY <3>1 DEF NamesInv, Numbered, TablesOf
    <3>4. TablesOf(e.name)' = {}
      BY <2>4, <3>1, <3>2, <3>3
    <3> QED BY <3>4 DEF Begins
  <2>8. CASE s \in DOMAIN dirtables /\ e = dirtables[s].slots[k]
    <3>1. \/ TablesOf(e.name) = {}
          \/ \E u \in TablesOf(e.name) : (\A v \in TablesOf(e.name) : u <= v) /\ e.first = ClusterOf(u)
      BY <1>2, <2>8 DEF FirstNamed, Begins
    <3>2. CASE TablesOf(e.name) # {}
      <4>1. PICK u \in TablesOf(e.name) : (\A v \in TablesOf(e.name) : u <= v) /\ e.first = ClusterOf(u)
        BY <3>1, <3>2
      <4>2. ClusterOf(u)' = ClusterOf(u)
        BY <1>1, <2>6 DEF MapKept
      <4>3. e.name = path => u <= t
        <5> SUFFICES ASSUME e.name = path PROVE u <= t
          OBVIOUS
        <5>1. CASE t \in DOMAIN dirtables
          <6>1. t \in TablesOf(e.name)
            BY <2>1, <2>3, <5>1 DEF TablesOf, Placed
          <6> QED BY <4>1, <6>1
        <5>2. CASE t \notin DOMAIN dirtables
          <6>1. t = Len(dirtables) + 1
            BY <2>1, <5>2 DEF Placed
          <6>2. Len(dirtables) \in Nat /\ u \in 1 .. Len(dirtables)
            BY <2>6, LenProperties DEF TypeInv, TypeOK
          <6> QED BY <6>1, <6>2
        <5> QED BY <5>1, <5>2
      <4>4. u \in TablesOf(e.name)' /\ \A v \in TablesOf(e.name)' : u <= v
        BY <2>4, <4>1, <4>3
      <4> QED BY <4>1, <4>2, <4>4 DEF Begins
    <3>3. CASE TablesOf(e.name) = {} /\ e.name # path
      <4>1. TablesOf(e.name)' = {}
        BY <2>4, <3>3
      <4> QED BY <4>1 DEF Begins
    <3>4. CASE TablesOf(e.name) = {} /\ e.name = path
      <4>1. PICK top \in DOMAIN dir_stack : top = Len(dir_stack) /\ current_dir = dir_stack[top]
        BY TopShape
      <4>2. current_dir.dirtables = << >>
        <5>1. ASSUME current_dir.dirtables # << >> PROVE FALSE
          <6>1. LastTable(top) \in TablesOf(path)
            BY <2>3, <4>1, <5>1, LastTableShape DEF TablesOf
          <6> QED BY <3>4, <6>1
        <5> QED BY <5>1
      <4>3. e.name > 0 /\ (e.name = job.name => OfJob(e, pc, job))
        BY <1>2, <2>2, <2>8 DEF NamesInv, Filed
      <4>4. path # 0
        BY <3>4, <4>3
      <4>5. pc = "dot" /\ current_dir.dir_location = job.filePosition
        BY <2>3, <4>1, <4>2, <4>4 DEF Started
      <4>6. path = job.name
        BY <2>3, <4>5 DEF NamesInv, Numbered
      <4>7. e.first = job.filePosition
        BY <1>2, <2>2, <3>4, <4>3, <4>5, <4>6 DEF OfJob
      <4>8. t \notin DOMAIN dirtables
        <5>1. t \in DOMAIN dirtables => t \in TablesOf(path)
          BY <2>1, <2>3 DEF TablesOf, Placed
        <5> QED BY <3>4, <5>1
      <4>9. ClusterOf(t)' = current_dir'.dir_location
        BY <2>1, <4>8, MappedAfterEntry
      <4>10. current_dir'.dir_location = current_dir.dir_location
        BY <1>2, <4>2, FirstLocation
      <4>11. e.first = ClusterOf(t)'
        BY <4>5, <4>7, <4>9, <4>10
      <4>12. TablesOf(e.name)' = {t} /\ t <= t
        BY <2>1, <2>4, <3>4 DEF Placed
      <4> QED BY <4>11, <4>12 DEF Begins
    <3> QED BY <3>2, <3>3, <3>4
  <2> QED BY <2>5, <2>7, <2>8
<1>3. CASE UNCHANGED dirtables
  <2>1. \A t \in DOMAIN dirtables : ClusterOf(t)' = ClusterOf(t)
    BY <1>1 DEF MapKept
  <2>2. \A d : TablesOf(d)' = TablesOf(d) /\ TablesOf(d) \subseteq DOMAIN dirtables
    BY <1>3 DEF TablesOf
  <2>3. \A e : Begins(e) => Begins(e)'
    BY <2>1, <2>2 DEF Begins
  <2> QED BY <1>3, <2>3 DEF FirstNamed
<1>4. (\E entry \in Entries : dir_add_entry(entry) /\ EntryOfJob(entry)) => FirstNamed'
  BY <1>2 DEF FirstNamed
<1>5. Quiet \/ EnterFolder \/ up_dir => UNCHANGED dirtables
  BY DEF Quiet, EnterFolder, up_dir
<1> QED BY <1>3, <1>4, <1>5, StepKinds

(* Dirtables lie below the frontier.                                       *)
LEMMA ClusterBelow ==
  ASSUME TypeInv, Mapped, NEW hi \in Nat, hi >= 2, Filled(hi), NEW t \in DOMAIN dirtables
  PROVE  ClusterOf(t) < hi
<1>1. PICK c \in Nat : c = ClusterOf(t) /\ c >= 2
  BY ClusterType
<1>2. PICK r \in DataRegions : MappedAt(t, r, c)
  BY <1>1, ClusterType
<1>3. cluster_size \in Nat \ {0}
  BY Sizes
<1>4. RegionEnd(r) = address_from_fatclus(c) + cluster_size
  BY <1>2 DEF RegionEnd, MappedAt
<1>5. RegionEnd(r) <= address_from_fatclus(hi)
  BY DEF Filled
<1>6. address_from_fatclus(hi) \in Nat /\ address_from_fatclus(c) \in Nat
  <2>1. 0 \in Nat
    OBVIOUS
  <2> QED BY <1>1, <2>1, ClusterAddress
<1>7. ASSUME hi <= c PROVE FALSE
  <2>1. PICK n \in Nat : c = hi + n
    <3>1. c - hi \in Nat /\ c = hi + (c - hi)
      BY <1>1, <1>7
    <3> QED BY <3>1
  <2>2. address_from_fatclus(hi + n) = address_from_fatclus(hi) + cluster_size * n
    BY ClusterAddress
  <2>3. cluster_size * n \in Nat
    BY <1>3
  <2> QED BY <1>3, <1>4, <1>5, <1>6, <2>1, <2>2, <2>3
<1> QED BY <1>1, <1>7

(* No two dirtables share a cluster.                                       *)
LEMMA ClustersApart ==
  ASSUME TypeInv, Mapped, RegionsSorted, NEW t \in DOMAIN dirtables, NEW u \in DOMAIN dirtables, t # u
  PROVE  ClusterOf(t) # ClusterOf(u)
<1> SUFFICES ASSUME ClusterOf(t) = ClusterOf(u) PROVE FALSE
  OBVIOUS
<1>1. PICK c \in Nat : c = ClusterOf(t) /\ c >= 2
  BY ClusterType
<1>2. PICK r \in DataRegions : MappedAt(t, r, c)
  BY <1>1, ClusterType
<1>3. PICK q \in DataRegions : MappedAt(u, q, c)
  BY <1>1, ClusterType
<1>4. r # q
  BY <1>2, <1>3 DEF MappedAt, DirTable
<1>5. r \in Nat /\ q \in Nat
  <2>1. Len(SetupRegions) = 6
    BY DEF SetupRegions
  <2> QED BY <2>1 DEF DataRegions
<1>6. cluster_size \in Nat \ {0} /\ address_from_fatclus(c) \in Nat
  <2>1. 0 \in Nat
    OBVIOUS
  <2> QED BY <1>1, <2>1, ClusterAddress, Sizes
<1>7. /\ RegionEnd(r) = address_from_fatclus(c) + cluster_size
      /\ RegionEnd(q) = address_from_fatclus(c) + cluster_size
      /\ address_regions[r].base = address_from_fatclus(c)
      /\ address_regions[q].base = address_from_fatclus(c)
  BY <1>2, <1>3 DEF RegionEnd, MappedAt
<1>8. RegionEnd(r) <= address_regions[q].base \/ RegionEnd(q) <= address_regions[r].base
  BY <1>4, <1>5 DEF RegionsSorted
<1> QED BY <1>6, <1>7, <1>8

(* The dirtable a directory ends in is its greatest.                       *)
LEMMA LastIsGreatest ==
  ASSUME TypeInv, PackedInv, Listed, NEW d \in DOMAIN dir_stack, NEW t \in TablesOf(dir_stack[d].path)
  PROVE  /\ dir_stack[d].dirtables # << >>
         /\ t <= LastTable(d)
<1>1. PICK n \in DOMAIN dir_stack[d].dirtables : dir_stack[d].dirtables[n] = t
  BY DEF Listed, TablesOf
<1>2. dir_stack[d] \in Fat_Directories
  BY StackShape
<1>3. dir_stack[d].dirtables \in Seq(Nat \ {0})
  BY <1>2 DEF Fat_Directories
<1>4. PICK L \in Nat : L = Len(dir_stack[d].dirtables) /\ DOMAIN dir_stack[d].dirtables = 1 .. L
  BY <1>3, LenProperties
<1>5. dir_stack[d].dirtables # << >> /\ L \in DOMAIN dir_stack[d].dirtables
  BY <1>1, <1>4
<1>6. n \in Nat /\ (n = L \/ n < L)
  BY <1>1, <1>4
<1>7. t \in Nat
  BY TableShape DEF TablesOf
<1>8. LastTable(d) = dir_stack[d].dirtables[L]
  BY <1>4 DEF LastTable
<1>9. n < L => t < dir_stack[d].dirtables[L]
  BY <1>1, <1>5 DEF Listed
<1>10. n = L => t = dir_stack[d].dirtables[L]
  BY <1>1
<1>11. dir_stack[d].dirtables[L] \in Nat
  BY <1>3, <1>5, ElementOfSeq
<1>12. t <= dir_stack[d].dirtables[L]
  BY <1>6, <1>7, <1>9, <1>10, <1>11
<1> QED BY <1>5, <1>8, <1>12

(* What a new dirtable does to an orderly FAT: the chain of the current    *)
(* directory, if it had one, leads to its cluster and ends there.          *)
LEMMA EntryLinks ==
  ASSUME TypeInv, PackedInv, NEW entry \in Entries, dir_add_entry(entry),
         current_fat_position' < fat_entries, NEW hi \in 2 .. fat_entries, Filled(hi), DirsBelow(hi),
         NEW t, NEW i, Placed(entry, t, i), t \notin DOMAIN dirtables
  PROVE  LET loc == current_dir.dir_location
             c == current_dir'.dir_location
         IN  /\ fat'[c] = fat_end
             /\ current_dir.dirtables # << >> => fat'[loc] = c
             /\ \A b \in FatWords : b < hi /\ b # loc => fat'[b] = fat[b]
<1>1. PICK top \in DOMAIN dir_stack : top = Len(dir_stack) /\ current_dir = dir_stack[top]
  BY TopShape
<1>2. PICK loc \in Nat : loc = current_dir.dir_location
  BY TopShape
<1>3. hi \in Nat /\ FatWords = 0 .. fat_entries + FatSlack - 1 /\ FatSlack \in Nat /\ fat_entries \in Nat
  BY Sizes, FatFilesAssumption DEF FatWords
<1>4. DOMAIN fat = FatWords
  BY DEF TypeInv, TypeOK
<1>5. current_dir.dirtables \in Seq(Nat \ {0}) /\ t \in Nat \ {0}
  BY TopShape DEF Placed
<1>6. CASE FirstCluster(entry)
  <2>1. current_dir.dirtables = << >> /\ fat' = [fat EXCEPT ![loc] = fat_end]
    BY <1>2, <1>6 DEF FirstCluster
  <2>2. current_dir'.dir_location = loc
    BY <1>2, <2>1, FirstLocation
  <2>3. loc = hi /\ hi < fat_entries
    BY <1>1, <1>2, <2>1 DEF DirsBelow, Tableless
  <2>4. loc \in FatWords
    BY <1>3, <2>3
  <2> QED BY <1>2, <1>4, <2>1, <2>2, <2>4
<1>7. CASE NextCluster(entry)
  <2>1. PICK c \in current_fat_position .. fat_entries + FatSlack :
          /\ fat_find_free(c) /\ current_fat_position' = c
          /\ fat' = FatWithLink(c)
          /\ DirWithEntry(Append(current_dir.dirtables, Len(dirtables) + 1), c)
    BY <1>7 DEF NextCluster
  <2>2. c = hi
    BY <2>1, FreeIsFrontier
  <2>3. t = Len(dirtables) + 1
    BY DEF Placed
  <2>4. Append(current_dir.dirtables, t) \in Seq(Nat \ {0})
    BY <1>5, AppendProperties
  <2>5. current_dir'.dir_location = c
    BY <1>3, <2>1, <2>2, <2>3, <2>4, TopReplaced
  <2>6. loc < hi
    <3>1. current_dir.dirtables # << >>
      BY <1>7 DEF NextCluster
    <3> QED BY <1>1, <1>2, <3>1 DEF DirsBelow, Tableless
  <2>7. hi < fat_entries
    BY <2>1, <2>2
  <2>8. loc \in FatWords /\ hi \in FatWords /\ loc # hi
    BY <1>2, <1>3, <2>6, <2>7
  <2>9. fat' = [fat EXCEPT ![loc] = hi, ![hi] = fat_end]
    BY <1>2, <2>1, <2>2 DEF FatWithLink
  <2>10. fat'[loc] = hi /\ fat'[hi] = fat_end /\ \A b \in FatWords : b # loc /\ b # hi => fat'[b] = fat[b]
    BY <1>4, <2>8, <2>9
  <2>11. \A b \in FatWords : b < hi => b # hi
    BY <1>3
  <2> QED BY <1>2, <2>2, <2>5, <2>10, <2>11
<1>8. CASE SameCluster(entry)
  <2>1. DOMAIN dirtables' = DOMAIN dirtables
    BY <1>8 DEF SameCluster
  <2> QED BY <2>1 DEF Placed
<1> QED BY <1>6, <1>7, <1>8 DEF dir_add_entry

(* t is the last dirtable of its directory; u is the one after t.          *)
Ends(t) == \A v \in DOMAIN dirtables : dirtables[v].dir = dirtables[t].dir => v <= t

Follows(t, u) ==
  /\ u \in DOMAIN dirtables /\ dirtables[u].dir = dirtables[t].dir /\ u > t
  /\ \A v \in DOMAIN dirtables : dirtables[v].dir = dirtables[t].dir /\ v > t => u <= v

(* The FAT leads from each dirtable to the next.                           *)
Chained ==
  Orderly => \A t \in DOMAIN dirtables :
               \/ Ends(t) /\ fat[ClusterOf(t)] = fat_end
               \/ \E u : Follows(t, u) /\ fat[ClusterOf(t)] = ClusterOf(u)

(* So it does when a directory gets one more.                              *)
LEMMA ChainedAfterEntry ==
  ASSUME TypeInv, TypeInv', PackedInv, Numbered, SetupKept, Listed, Mapped, Located, RegionsSorted,
         Chained, Orderly, MapKept,
         NEW entry \in Entries, dir_add_entry(entry), current_fat_position' < fat_entries,
         NEW hi \in 2 .. fat_entries, Filled(hi), DirsBelow(hi),
         NEW t, NEW i, Placed(entry, t, i)
  PROVE  \A s \in DOMAIN dirtables' :
           \/ Ends(s)' /\ fat'[ClusterOf(s)'] = fat_end
           \/ \E u : Follows(s, u)' /\ fat'[ClusterOf(s)'] = ClusterOf(u)'
<1>1. /\ DOMAIN dirtables' = DOMAIN dirtables \cup {t} /\ t \in Nat \ {0}
      /\ \A u \in DOMAIN dirtables : dirtables'[u].dir = dirtables[u].dir
      /\ dirtables'[t].dir = current_dir.path
  BY DEF Placed
<1>2. \A u \in DOMAIN dirtables : u \in Nat
  BY TableShape
<1>3. \A s \in DOMAIN dirtables :
        /\ ClusterOf(s)' = ClusterOf(s)
        /\ \/ Ends(s) /\ fat[ClusterOf(s)] = fat_end
           \/ \E u : Follows(s, u) /\ fat[ClusterOf(s)] = ClusterOf(u)
  BY DEF MapKept, Chained
<1>4. CASE t \in DOMAIN dirtables
  <2>1. fat' = fat /\ DOMAIN dirtables' = DOMAIN dirtables
    BY <1>1, <1>4 DEF Placed
  <2>2. \A s \in DOMAIN dirtables : (Ends(s) => Ends(s)') /\ \A u : Follows(s, u) => Follows(s, u)'
    BY <1>1, <2>1 DEF Ends, Follows
  <2>3. \A s, u : Follows(s, u) => u \in DOMAIN dirtables
    BY DEF Follows
  <2> QED BY <1>3, <2>1, <2>2, <2>3
<1>5. CASE t \notin DOMAIN dirtables
  <2>1. PICK top \in DOMAIN dir_stack : top = Len(dir_stack) /\ current_dir = dir_stack[top]
    BY TopShape
  <2>2. PICK loc \in Nat : loc = current_dir.dir_location
    BY TopShape
  <2>3. PICK c : c = current_dir'.dir_location
    OBVIOUS
  <2>4. /\ fat'[c] = fat_end
        /\ current_dir.dirtables # << >> => fat'[loc] = c
        /\ \A b \in FatWords : b < hi /\ b # loc => fat'[b] = fat[b]
    BY <1>5, <2>2, <2>3, EntryLinks
  <2>5. ClusterOf(t)' = c
    BY <1>5, <2>3, MappedAfterEntry
  <2>6. \A u \in DOMAIN dirtables : u < t
    <3>1. t = Len(dirtables) + 1
      BY <1>5 DEF Placed
    <3>2. Len(dirtables) \in Nat /\ DOMAIN dirtables = 1 .. Len(dirtables)
      BY LenProperties DEF TypeInv, TypeOK
    <3> QED BY <3>1, <3>2
  <2>7. hi \in Nat /\ hi >= 2 /\ \A b \in Nat : b < hi => b \in FatWords
    BY Sizes, FatFilesAssumption DEF FatWords
  <2>8. Ends(t)' /\ fat'[ClusterOf(t)'] = fat_end
    BY <1>1, <2>4, <2>5, <2>6 DEF Ends
  <2>9. ASSUME NEW s \in DOMAIN dirtables, ClusterOf(s) # loc
        PROVE  fat'[ClusterOf(s)] = fat[ClusterOf(s)]
    <3>1. ClusterOf(s) < hi /\ ClusterOf(s) \in Nat
      BY <2>7, ClusterBelow, ClusterType
    <3> QED BY <2>4, <2>7, <2>9, <3>1
  <2>10. ASSUME NEW s \in DOMAIN dirtables, dirtables[s].dir # current_dir.path
         PROVE  \/ Ends(s)' /\ fat'[ClusterOf(s)'] = fat_end
                \/ \E u : Follows(s, u)' /\ fat'[ClusterOf(s)'] = ClusterOf(u)'
    <3>1. ClusterOf(s) # loc
      <4>1. CASE current_dir.dirtables = << >>
        <5>1. loc = hi
          BY <2>1, <2>2, <4>1 DEF DirsBelow, Tableless
        <5>2. ClusterOf(s) < hi /\ ClusterOf(s) \in Nat
          BY <2>7, ClusterBelow, ClusterType
        <5> QED BY <2>7, <5>1, <5>2
      <4>2. CASE current_dir.dirtables # << >>
        <5>1. /\ LastTable(top) \in DOMAIN dirtables
              /\ dirtables[LastTable(top)].dir = current_dir.path
          BY <2>1, <4>2, LastTableShape
        <5>2. ClusterOf(LastTable(top)) = loc
          BY <2>1, <2>2, <4>2 DEF Located
        <5>3. PICK x \in DOMAIN dirtables : x = LastTable(top)
          BY <5>1
        <5> QED BY <2>10, <5>1, <5>2, <5>3, ClustersApart
      <4> QED BY <4>1, <4>2
    <3>2. fat'[ClusterOf(s)'] = fat[ClusterOf(s)]
      BY <1>3, <2>9, <3>1
    <3>3. Ends(s) => Ends(s)'
      BY <1>1, <2>10 DEF Ends
    <3>4. \A u : Follows(s, u) => Follows(s, u)' /\ u \in DOMAIN dirtables
      BY <1>1, <2>10 DEF Follows
    <3> QED BY <1>3, <3>2, <3>3, <3>4
  <2>11. ASSUME NEW s \in DOMAIN dirtables, dirtables[s].dir = current_dir.path
         PROVE  \/ Ends(s)' /\ fat'[ClusterOf(s)'] = fat_end
                \/ \E u : Follows(s, u)' /\ fat'[ClusterOf(s)'] = ClusterOf(u)'
    <3>1. \A v \in TablesOf(current_dir.path) : current_dir.dirtables # << >> /\ v <= LastTable(top)
      BY <2>1, LastIsGreatest
    <3>2. s \in TablesOf(current_dir.path)
      BY <2>11 DEF TablesOf
    <3>3. current_dir.dirtables # << >> /\ s <= LastTable(top)
      BY <3>1, <3>2
    <3>4. /\ LastTable(top) \in DOMAIN dirtables
          /\ dirtables[LastTable(top)].dir = current_dir.path
      BY <2>1, <3>3, LastTableShape
    <3>5. PICK last \in DOMAIN dirtables : last = LastTable(top) /\ dirtables[last].dir = current_dir.path
      BY <3>4
    <3>6. ClusterOf(last) = loc
      BY <2>1, <2>2, <3>3, <3>5 DEF Located
    <3>7. CASE s = last
      <4>1. \A v \in DOMAIN dirtables : dirtables[v].dir = dirtables[s].dir => v <= s
        BY <2>11, <3>1, <3>5, <3>7 DEF TablesOf
      <4>2. \A v \in DOMAIN dirtables : dirtables[v].dir = dirtables[s].dir => ~(v > s)
        BY <1>2, <4>1
      <4>3. Follows(s, t)'
        BY <1>1, <2>6, <2>11, <4>2 DEF Follows
      <4>4. fat'[ClusterOf(s)'] = ClusterOf(t)'
        BY <1>3, <2>4, <2>5, <3>3, <3>6, <3>7
      <4> QED BY <4>3, <4>4
    <3>8. CASE s # last
      <4>1. ClusterOf(s) # loc
        BY <3>6, <3>8, ClustersApart
      <4>2. fat'[ClusterOf(s)'] = fat[ClusterOf(s)]
        BY <1>3, <2>9, <4>1
      <4>3. ~Ends(s)
        <5>1. ~(last <= s)
          BY <1>2, <3>3, <3>5, <3>8
        <5> QED BY <2>11, <3>5, <5>1 DEF Ends
      <4>4. PICK u : Follows(s, u) /\ fat[ClusterOf(s)] = ClusterOf(u)
        BY <1>3, <4>3
      <4>5. u \in DOMAIN dirtables /\ u <= t
        <5>1. u \in DOMAIN dirtables
          BY <4>4 DEF Follows
        <5> QED BY <1>1, <1>2, <2>6, <5>1
      <4>6. Follows(s, u)'
        BY <1>1, <2>11, <4>4, <4>5 DEF Follows
      <4> QED BY <1>3, <4>2, <4>4, <4>5, <4>6
    <3> QED BY <3>7, <3>8
  <2> QED BY <1>1, <2>8, <2>10, <2>11
<1> QED BY <1>4, <1>5

(* The chain of a file is written behind all directories.                  *)
LEMMA ChainedAfterFile ==
  ASSUME TypeInv, Mapped, NEW hi \in 2 .. fat_entries, Filled(hi),
         fat' = FatWithChain(hi, ClustersRequired), NEW t \in DOMAIN dirtables
  PROVE  fat'[ClusterOf(t)] = fat[ClusterOf(t)]
<1>1. ClustersRequired \in Nat \ {0}
  <2>1. FileLength \in Nat \ {0}
    BY DEF TypeInv, TypeOK, FileLength
  <2>2. cluster_size \in Nat \ {0}
    BY Sizes
  <2> QED BY <2>1, <2>2, CeilDiv DEF ClustersRequired
<1>2. PICK n \in Nat \ {0} : n = ClustersRequired
  BY <1>1
<1>3. hi \in Nat /\ hi >= 2 /\ \A b \in Nat : b < hi => b \in FatWords
  BY Sizes, FatFilesAssumption DEF FatWords
<1>4. PICK b \in Nat : b = ClusterOf(t) /\ b < hi
  BY <1>3, ClusterBelow, ClusterType
<1>5. fat'[b] = IF b = hi + n - 1 THEN fat_end ELSE IF b \in hi .. hi + n - 2 THEN b + 1 ELSE fat[b]
  BY <1>2, <1>3, <1>4 DEF FatWithChain
<1>6. b # hi + n - 1 /\ b \notin hi .. hi + n - 2
  BY <1>3, <1>4
<1> QED BY <1>4, <1>5, <1>6

(* No orderly step breaks a chain of dirtables.                            *)
LEMMA ChainedStep ==
  ASSUME TypeInv, TypeInv', PackedInv, Numbered, SetupKept, FrontierInv, Listed, Mapped, Located,
         Chained, [Next]_vars
  PROVE  Chained'
<1> SUFFICES ASSUME Orderly'
             PROVE  \A s \in DOMAIN dirtables' :
                      \/ Ends(s)' /\ fat'[ClusterOf(s)'] = fat_end
                      \/ \E u : Follows(s, u)' /\ fat'[ClusterOf(s)'] = ClusterOf(u)'
  BY DEF Chained
<1>1. Orderly
  BY EventsGrow DEF Orderly
<1>2. MapKept
  BY MappedStep
<1>3. PICK hi \in 2 .. fat_entries : Filled(hi) /\ DirsBelow(hi) /\ JobAt(hi)
  BY <1>1 DEF FrontierInv
<1>4. RegionsSorted
  BY <1>1 DEF FrontierInv
<1>5. ASSUME NEW entry \in Entries, dir_add_entry(entry), EntryOfJob(entry)
      PROVE  \A s \in DOMAIN dirtables' :
               \/ Ends(s)' /\ fat'[ClusterOf(s)'] = fat_end
               \/ \E u : Follows(s, u)' /\ fat'[ClusterOf(s)'] = ClusterOf(u)'
  <2>1. PICK t, i : Placed(entry, t, i)
    BY <1>5, EntryPlaced
  <2>2. current_fat_position' < fat_entries
    BY <1>5, EntryOrderly
  <2> QED BY <1>1, <1>2, <1>3, <1>4, <1>5, <2>1, <2>2, ChainedAfterEntry
<1>6. ASSUME UNCHANGED dirtables, \A t \in DOMAIN dirtables : fat'[ClusterOf(t)] = fat[ClusterOf(t)]
      PROVE  \A s \in DOMAIN dirtables' :
               \/ Ends(s)' /\ fat'[ClusterOf(s)'] = fat_end
               \/ \E u : Follows(s, u)' /\ fat'[ClusterOf(s)'] = ClusterOf(u)'
  <2>1. \A s \in DOMAIN dirtables :
          /\ ClusterOf(s)' = ClusterOf(s)
          /\ \/ Ends(s) /\ fat[ClusterOf(s)] = fat_end
             \/ \E u : Follows(s, u) /\ fat[ClusterOf(s)] = ClusterOf(u)
    BY <1>1, <1>2 DEF MapKept, Chained
  <2>2. \A s \in DOMAIN dirtables :
          (Ends(s) => Ends(s)') /\ \A u : Follows(s, u) => Follows(s, u)' /\ u \in DOMAIN dirtables
    BY <1>6 DEF Ends, Follows
  <2> QED BY <1>6, <2>1, <2>2
<1>7. CASE Quiet
  <2>1. fat' = fat \/ (fat_new_file /\ fat' = FatWithChain(job.filePosition, ClustersRequired))
    BY <1>7 DEF Quiet, AddFile, AddFolder, add_file, image, PickFilePosition, fat_new_file, Launch,
       vars, Dropped
  <2>2. fat_new_file => job.filePosition = hi
    BY <1>3 DEF JobAt, fat_new_file
  <2>3. \A t \in DOMAIN dirtables : fat'[ClusterOf(t)] = fat[ClusterOf(t)]
    BY <1>3, <2>1, <2>2, ChainedAfterFile
  <2> QED BY <1>6, <1>7, <2>3 DEF Quiet
<1>8. CASE EnterFolder \/ up_dir
  <2>1. fat' = fat /\ dirtables' = dirtables
    BY <1>8 DEF EnterFolder, up_dir
  <2> QED BY <1>6, <2>1
<1> QED BY <1>5, <1>7, <1>8, StepKinds

(* CHOOSE finds the least.                                                 *)
LEMMA LeastChosen ==
  ASSUME NEW S, \A v \in S : v \in Nat, NEW u \in S, \A v \in S : u <= v
  PROVE  (CHOOSE w \in S : \A v \in S : w <= v) = u
<1> DEFINE w == CHOOSE w \in S : \A v \in S : w <= v
<1>1. w \in S /\ \A v \in S : w <= v
  OBVIOUS
<1> HIDE DEF w
<1>2. w <= u /\ u <= w /\ w \in Nat /\ u \in Nat
  BY <1>1
<1>3. w = u
  BY <1>2
<1> QED BY <1>3 DEF w

(* Chains and entries are what a driver needs to read the directories.     *)
LEMMA ChainsRead ==
  ASSUME TypeInv, Chained, FirstNamed
  PROVE  DirsReadable
<1> SUFFICES ASSUME Orderly PROVE DirsReadable
  BY DEF DirsReadable
<1>1. \A u \in DOMAIN dirtables : u \in Nat
  BY TableShape
<1>2. ASSUME NEW t \in DOMAIN dirtables, NEW later, later = {u \in TablesOf(dirtables[t].dir) : u > t}
      PROVE  fat[ClusterOf(t)] = IF later = {} THEN fat_end
                                 ELSE ClusterOf(CHOOSE u \in later : \A v \in later : u <= v)
  <2>1. \A v : v \in later <=> v \in DOMAIN dirtables /\ dirtables[v].dir = dirtables[t].dir /\ v > t
    BY <1>2 DEF TablesOf
  <2>2. CASE Ends(t) /\ fat[ClusterOf(t)] = fat_end
    <3>1. ASSUME NEW v \in later PROVE FALSE
      <4>1. v <= t /\ v > t /\ v \in Nat /\ t \in Nat
        BY <1>1, <2>1, <2>2, <3>1 DEF Ends
      <4> QED BY <4>1
    <3> QED BY <2>2, <3>1
  <2>3. CASE \E u : Follows(t, u) /\ fat[ClusterOf(t)] = ClusterOf(u)
    <3>1. PICK u : Follows(t, u) /\ fat[ClusterOf(t)] = ClusterOf(u)
      BY <2>3
    <3>2. u \in later /\ \A v \in later : u <= v
      BY <2>1, <3>1 DEF Follows
    <3>3. \A v \in later : v \in Nat
      BY <1>1, <2>1
    <3>4. (CHOOSE w \in later : \A v \in later : w <= v) = u
      BY <3>2, <3>3, LeastChosen
    <3> QED BY <3>1, <3>2, <3>4
  <2> QED BY <2>2, <2>3 DEF Chained
<1>3. ASSUME NEW t \in DOMAIN dirtables, NEW i \in DOMAIN dirtables[t].slots, NEW e,
             e = dirtables[t].slots[i], e.kind = "dir", NEW mine, mine = TablesOf(e.name), mine # {}
      PROVE  e.first = ClusterOf(CHOOSE u \in mine : \A v \in mine : u <= v)
  <2>1. i \in Slots /\ e \in Entries
    BY <1>3, TableShape
  <2>2. PICK u \in mine : (\A v \in mine : u <= v) /\ e.first = ClusterOf(u)
    BY <1>3, <2>1 DEF FirstNamed, Begins
  <2>3. \A v \in mine : v \in Nat
    BY <1>1, <1>3 DEF TablesOf
  <2>4. (CHOOSE w \in mine : \A v \in mine : w <= v) = u
    BY <2>2, <2>3, LeastChosen
  <2> QED BY <2>2, <2>4
<1>4. ASSUME NEW t \in DOMAIN dirtables
      PROVE  LET later == {u \in TablesOf(dirtables[t].dir) : u > t}
                 next == CHOOSE u \in later : \A v \in later : u <= v
             IN  fat[ClusterOf(t)] = IF later = {} THEN fat_end ELSE ClusterOf(next)
  BY <1>2, Zenon
<1>5. ASSUME NEW t \in DOMAIN dirtables, NEW i \in DOMAIN dirtables[t].slots
      PROVE  LET e == dirtables[t].slots[i]
                 mine == TablesOf(e.name)
             IN  e.kind = "dir" /\ mine # {} =>
                   e.first = ClusterOf(CHOOSE u \in mine : \A v \in mine : u <= v)
  BY <1>3, Zenon
<1> QED BY <1>4, <1>5, Zenon DEF DirsReadable

(* The entry of a folder leads to its first dirtable, and the FAT from each *)
(* of its dirtables to the next and to the end mark, in every orderly      *)
(* state.                                                                  *)
THEOREM DirsCorrect == Spec => []DirsReadable
<1>1. TypeInv /\ PackedInv /\ [Next]_vars => PackedInv'
  BY PackedStep
<1>2. /\ TypeInv /\ TypeInv' /\ PackedInv /\ NamesInv /\ SetupKept /\ FrontierInv
      /\ PlacesInv /\ Started /\ FirstNamed /\ Chained /\ [Next]_vars
      => Started' /\ FirstNamed' /\ Chained'
  <2> SUFFICES ASSUME TypeInv, TypeInv', PackedInv, NamesInv, SetupKept, FrontierInv,
                      PlacesInv, Started, FirstNamed, Chained, [Next]_vars
               PROVE  Started' /\ FirstNamed' /\ Chained'
    OBVIOUS
  <2>1. Numbered /\ Listed /\ Mapped /\ Located
    BY DEF NamesInv, PlacesInv
  <2>2. Started'
    BY StartedStep
  <2>3. FirstNamed'
    BY <2>1, FirstStep
  <2>4. Chained'
    BY <2>1, ChainedStep
  <2> QED BY <2>2, <2>3, <2>4
<1>3. Init => SetupKept /\ Started /\ FirstNamed /\ Chained
  BY DEF Init, SetupKept, Started, FirstNamed, Chained, Fat_Directory, RootFolder
<1>4. TypeInv /\ FirstNamed /\ Chained => DirsReadable
  BY ChainsRead
<1> QED BY <1>1, <1>2, <1>3, <1>4, NamesInit, NamesStep, SetupStep, PackedInit, PlacesInit, PlacesStep,
       TypeCorrect, FrontierCorrect, PTL DEF Spec

-----------------------------------------------------------------------------
(* Long names                                                              *)

(* Slot k of dirtable u is the one behind slot i of dirtable t.            *)
Behind(t, i, u, k) ==
  \/ u = t /\ k = i + 1
  \/ i = entrys_per_cluster - 1 /\ k = 0 /\ Follows(t, u)

(* The nth LFN entry of this name has its next entry ...                   *)
Completed(t, i, name, n) ==
  \E u \in DOMAIN dirtables, k \in Slots :
    /\ Behind(t, i, u, k)
    /\ dirtables[u].slots[k].kind \in {"lfn", "file", "dir"}
    /\ dirtables[u].slots[k].name = name
    /\ n > 1 => dirtables[u].slots[k].kind = "lfn" /\ dirtables[u].slots[k].size = n - 1
    /\ n = 1 => dirtables[u].slots[k].kind \in {"file", "dir"}

(* ... or is the last entry of the current directory, whose next one is to *)
(* come, n - 1 LFN entries being left.                                     *)
Pending(t, i, name, n) ==
  /\ pc \in {"lfn", "position", "short"}
  /\ job.name = name /\ job.left = n - 1
  /\ current_dir.dirtables # << >>
  /\ t = LastTable(Len(dir_stack))
  /\ entrys_per_cluster * (Len(current_dir.dirtables) - 1) + i + 1 = current_dir.current_dir_position

(* One or the other holds of every LFN entry.                              *)
LfnsFollowed ==
  "dir_full" \notin events =>
    \A t \in DOMAIN dirtables : \A i \in Slots : \A name \in Nat, n \in Nat :
      LET e == dirtables[t].slots[i] IN
      e.kind = "lfn" /\ e.name = name /\ e.size = n =>
        Completed(t, i, name, n) \/ Pending(t, i, name, n)

(* Of the name at hand the LFN entries that are not left are there.        *)
LfnsAdded ==
  "dir_full" \notin events /\ pc \in {"lfn", "position", "short"} =>
    /\ pc # "lfn" => job.left = 0
    /\ \A n \in job.left + 1 .. job.lfn :
         \E t \in DOMAIN dirtables : \E i \in Slots :
           dirtables[t].slots[i] = Entry("lfn", job.name, 0, n, scanned_folder)

(* Slots without an entry are zero.                                        *)
ZeroSlots ==
  \A t \in DOMAIN dirtables : \A i \in Slots :
    dirtables[t].slots[i].kind = "none" => dirtables[t].slots[i] = NoEntry

(* A new dirtable is zeroed.                                               *)
LEMMA ZeroSlotsStep == TypeInv /\ PackedInv /\ ZeroSlots /\ [Next]_vars => ZeroSlots'
<1> SUFFICES ASSUME TypeInv, PackedInv, ZeroSlots, [Next]_vars PROVE ZeroSlots'
  OBVIOUS
<1>1. ASSUME NEW entry \in Entries, entry.kind # "none", dir_add_entry(entry) PROVE ZeroSlots'
  <2>1. PICK t, i : Placed(entry, t, i)
    BY <1>1, EntryPlaced
  <2>2. /\ DOMAIN dirtables' = DOMAIN dirtables \cup {t}
        /\ \A u \in DOMAIN dirtables : \A k \in Slots :
             u # t \/ k # i => dirtables'[u].slots[k] = dirtables[u].slots[k]
        /\ dirtables'[t].slots[i] = entry
        /\ t \notin DOMAIN dirtables => \A k \in Slots : k # i => dirtables'[t].slots[k] = NoEntry
    BY <2>1 DEF Placed
  <2>3. ASSUME NEW u \in DOMAIN dirtables', NEW k \in Slots, dirtables'[u].slots[k].kind = "none"
        PROVE  dirtables'[u].slots[k] = NoEntry
    <3>1. u # t \/ k # i
      BY <1>1, <2>2, <2>3
    <3> QED BY <2>2, <2>3, <3>1 DEF ZeroSlots
  <2> QED BY <2>3 DEF ZeroSlots
<1>2. Quiet \/ EnterFolder \/ up_dir => dirtables' = dirtables
  BY DEF Quiet, EnterFolder, up_dir
<1> QED BY <1>1, <1>2, StepKinds DEF ZeroSlots

(* The slot behind the last entry of the current directory is free.        *)
LEMMA NextSlotFree ==
  ASSUME TypeInv, PackedInv, NEW t \in DOMAIN dirtables, NEW i \in Slots,
         current_dir.dirtables # << >>, t = LastTable(Len(dir_stack)),
         entrys_per_cluster * (Len(current_dir.dirtables) - 1) + i = current_dir.current_dir_position
  PROVE  dirtables[t].slots[i].kind = "none"
<1>1. PICK top \in DOMAIN dir_stack : top = Len(dir_stack) /\ current_dir = dir_stack[top]
  BY TopShape
<1>2. Len(current_dir.dirtables) \in DOMAIN current_dir.dirtables
      /\ t = current_dir.dirtables[Len(current_dir.dirtables)]
  BY <1>1, LastTableShape DEF LastTable
<1>3. dirtables[t].slots[i].kind # "none"
        <=> entrys_per_cluster * (Len(current_dir.dirtables) - 1) + i < current_dir.current_dir_position
  BY <1>1, <1>2 DEF PackedInv, DirectoriesPacked, Slots
<1>4. current_dir.current_dir_position \in Nat
  BY TopShape
<1>5. ~(current_dir.current_dir_position < current_dir.current_dir_position)
  BY <1>4
<1> QED BY <1>3, <1>5

(* An entry once added stays.                                              *)
LEMMA UsedStays ==
  ASSUME TypeInv, PackedInv, NEW entry, NEW t, NEW i, Placed(entry, t, i),
         NEW u \in DOMAIN dirtables, NEW l \in Slots, dirtables[u].slots[l].kind # "none"
  PROVE  u \in DOMAIN dirtables' /\ dirtables'[u].slots[l] = dirtables[u].slots[l]
<1>1. /\ DOMAIN dirtables' = DOMAIN dirtables \cup {t} /\ i \in Slots
      /\ \A x \in DOMAIN dirtables : \A y \in Slots :
           x # t \/ y # i => dirtables'[x].slots[y] = dirtables[x].slots[y]
      /\ t \in DOMAIN dirtables => current_dir'.dirtables = current_dir.dirtables
      /\ current_dir'.dirtables # << >>
      /\ current_dir'.dirtables[Len(current_dir'.dirtables)] = t
      /\ current_dir.current_dir_position = entrys_per_cluster * (Len(current_dir'.dirtables) - 1) + i
  BY DEF Placed
<1>2. ASSUME t \in DOMAIN dirtables PROVE dirtables[t].slots[i].kind = "none"
  <2>1. current_dir.dirtables # << >> /\ t = LastTable(Len(dir_stack))
    BY <1>1, <1>2, TopShape DEF LastTable
  <2>2. entrys_per_cluster * (Len(current_dir.dirtables) - 1) + i = current_dir.current_dir_position
    BY <1>1, <1>2
  <2> QED BY <1>1, <1>2, <2>1, <2>2, NextSlotFree
<1>3. u # t \/ l # i
  BY <1>2
<1> QED BY <1>1, <1>3

(* Entries stay followed by what they are followed by.                     *)
LEMMA CompletedStays ==
  ASSUME TypeInv, PackedInv, NEW entry, NEW t, NEW i, Placed(entry, t, i),
         NEW s \in DOMAIN dirtables, NEW k \in Slots, NEW name, NEW n, Completed(s, k, name, n)
  PROVE  Completed(s, k, name, n)'
<1>1. PICK u \in DOMAIN dirtables, l \in Slots :
        /\ Behind(s, k, u, l)
        /\ dirtables[u].slots[l].kind \in {"lfn", "file", "dir"}
        /\ dirtables[u].slots[l].name = name
        /\ n > 1 => dirtables[u].slots[l].kind = "lfn" /\ dirtables[u].slots[l].size = n - 1
        /\ n = 1 => dirtables[u].slots[l].kind \in {"file", "dir"}
  BY DEF Completed
<1>2. /\ DOMAIN dirtables' = DOMAIN dirtables \cup {t} /\ t \in Nat \ {0}
      /\ \A x \in DOMAIN dirtables : dirtables'[x].dir = dirtables[x].dir
      /\ t \notin DOMAIN dirtables => t = Len(dirtables) + 1
  BY DEF Placed
<1>3. dirtables[u].slots[l].kind # "none"
  BY <1>1
<1>4. dirtables'[u].slots[l] = dirtables[u].slots[l]
  BY <1>1, <1>3, UsedStays
<1>5. t \notin DOMAIN dirtables => u <= t
  <2>1. Len(dirtables) \in Nat /\ DOMAIN dirtables = 1 .. Len(dirtables)
    BY LenProperties DEF TypeInv, TypeOK
  <2> QED BY <1>2, <2>1
<1>6. Follows(s, u) => Follows(s, u)'
  BY <1>2, <1>5 DEF Follows
<1>7. Behind(s, k, u, l)'
  BY <1>1, <1>6 DEF Behind
<1> QED BY <1>1, <1>2, <1>4, <1>7 DEF Completed

(* The next entry of a name comes right behind its last LFN entry.         *)
LEMMA PendingCompleted ==
  ASSUME TypeInv, PackedInv, Listed, NEW entry, entry.kind \in {"lfn", "file", "dir"},
         NEW t, NEW i, Placed(entry, t, i),
         NEW s \in DOMAIN dirtables, NEW k \in Slots, NEW name, NEW m, Pending(s, k, name, m),
         entry.name = name,
         m > 1 => entry.kind = "lfn" /\ entry.size = m - 1,
         m = 1 => entry.kind \in {"file", "dir"}
  PROVE  Completed(s, k, name, m)'
<1>1. PICK top \in DOMAIN dir_stack : top = Len(dir_stack) /\ current_dir = dir_stack[top]
  BY TopShape
<1>2. /\ DOMAIN dirtables' = DOMAIN dirtables \cup {t} /\ t \in Nat \ {0} /\ i \in Slots
      /\ \A x \in DOMAIN dirtables : dirtables'[x].dir = dirtables[x].dir
      /\ dirtables'[t].dir = current_dir.path /\ dirtables'[t].slots[i] = entry
      /\ t \in DOMAIN dirtables => current_dir'.dirtables = current_dir.dirtables
      /\ t \notin DOMAIN dirtables =>
           i = 0 /\ t = Len(dirtables) + 1 /\ current_dir'.dirtables = Append(current_dir.dirtables, t)
      /\ current_dir'.dirtables[Len(current_dir'.dirtables)] = t
      /\ current_dir.current_dir_position = entrys_per_cluster * (Len(current_dir'.dirtables) - 1) + i
  BY DEF Placed
<1>3. /\ current_dir.dirtables # << >> /\ s = LastTable(top)
      /\ entrys_per_cluster * (Len(current_dir.dirtables) - 1) + k + 1 = current_dir.current_dir_position
  BY <1>1 DEF Pending
<1>4. dirtables[s].dir = current_dir.path
  BY <1>1, <1>3, LastTableShape
<1>5. PICK L \in Nat : L = Len(current_dir.dirtables) /\ L > 0
  <2>1. current_dir.dirtables \in Seq(Nat \ {0})
    BY TopShape
  <2> QED BY <1>3, <2>1, LenProperties, EmptySeq
<1>6. PICK n \in Nat : n = entrys_per_cluster * (L - 1) /\ entrys_per_cluster * L = n + entrys_per_cluster
  <2>1. entrys_per_cluster \in Nat
    BY Sizes
  <2>2. entrys_per_cluster * (L - 1) \in Nat
        /\ entrys_per_cluster * L = entrys_per_cluster * (L - 1) + entrys_per_cluster
    BY <1>5, <2>1
  <2> QED BY <2>2
<1>7. i \in Nat /\ k \in Nat /\ entrys_per_cluster \in Nat
  BY <1>2, Sizes DEF Slots
<1>8. Behind(s, k, t, i)'
  <2>1. CASE t \in DOMAIN dirtables
    <3>1. t = s
      BY <1>1, <1>2, <1>3, <2>1 DEF LastTable
    <3>2. n + i = n + k + 1
      BY <1>2, <1>3, <1>5, <1>6, <2>1
    <3>3. i = k + 1
      BY <1>6, <1>7, <3>2
    <3> QED BY <3>1, <3>3 DEF Behind
  <2>2. CASE t \notin DOMAIN dirtables
    <3>1. Len(current_dir'.dirtables) = L + 1
      <4>1. current_dir.dirtables \in Seq(Nat \ {0}) /\ current_dir'.dirtables = Append(current_dir.dirtables, t)
        BY <1>2, <2>2, TopShape
      <4>2. Len(Append(current_dir.dirtables, t)) = Len(current_dir.dirtables) + 1
        BY <1>2, <4>1, AppendProperties
      <4> QED BY <1>5, <4>1, <4>2
    <3>2. Len(current_dir'.dirtables) - 1 = L
      BY <3>1
    <3>3. n + entrys_per_cluster + i = n + k + 1 /\ i = 0
      BY <1>2, <1>3, <1>5, <1>6, <2>2, <3>2
    <3>4. k = entrys_per_cluster - 1
      BY <1>6, <1>7, <3>3
    <3>5. \A v \in DOMAIN dirtables : v \in Nat /\ v < t
      <4>1. Len(dirtables) \in Nat /\ DOMAIN dirtables = 1 .. Len(dirtables)
        BY LenProperties DEF TypeInv, TypeOK
      <4> QED BY <1>2, <2>2, <4>1
    <3>6. \A v \in DOMAIN dirtables : dirtables[v].dir = dirtables[s].dir => v <= s
      BY <1>1, <1>3, <1>4, LastIsGreatest DEF TablesOf
    <3>7. \A v \in DOMAIN dirtables : dirtables[v].dir = dirtables[s].dir => ~(v > s)
      BY <3>5, <3>6
    <3>8. Follows(s, t)'
      BY <1>2, <1>4, <3>5, <3>7 DEF Follows
    <3> QED BY <3>3, <3>4, <3>8 DEF Behind
  <2> QED BY <2>1, <2>2
<1> QED BY <1>2, <1>8 DEF Completed

(* A step without an entry leaves the count of LFN entries alone.          *)
LEMMA QuietJob ==
  ASSUME TypeInv, Quiet, "dir_full" \notin events', pc \in {"lfn", "position", "short"}
  PROVE  /\ pc' \in {"lfn", "position", "short"} /\ (pc' = "lfn" <=> pc = "lfn")
         /\ job'.name = job.name /\ job'.lfn = job.lfn /\ job'.left = job.left
         /\ scanned_folder' = scanned_folder
<1>1. ~Dropped
  BY DEF Dropped
<1>2. CASE PickFilePosition
  <2>1. PICK c, f : job' = [job EXCEPT !.clusters_needed = c, !.filePosition = f]
    BY <1>2 DEF PickFilePosition
  <2>2. job'.name = job.name /\ job'.lfn = job.lfn /\ job'.left = job.left
    BY <2>1 DEF TypeInv, TypeOK
  <2> QED BY <1>2, <2>2 DEF PickFilePosition, scanned_folder
<1>3. CASE UNCHANGED vars
  BY <1>3 DEF vars, scanned_folder
<1> QED BY <1>1, <1>2, <1>3 DEF Quiet, AddFile, AddFolder, add_file, fat_new_file, Launch

(* No step leaves an LFN entry without the rest of its name, but for those *)
(* of a directory that is full.                                            *)
LEMMA LfnsStep ==
  ASSUME TypeInv, PackedInv, NamesInv, Listed, LfnsAdded, LfnsFollowed, [Next]_vars
  PROVE  LfnsFollowed'
<1> SUFFICES ASSUME "dir_full" \notin events',
                    NEW s \in DOMAIN dirtables', NEW k \in Slots, NEW name \in Nat, NEW n \in Nat,
                    dirtables'[s].slots[k].kind = "lfn", dirtables'[s].slots[k].name = name,
                    dirtables'[s].slots[k].size = n
             PROVE  Completed(s, k, name, n)' \/ Pending(s, k, name, n)'
  BY DEF LfnsFollowed
<1>1. "dir_full" \notin events
  BY EventsGrow
<1>2. ASSUME s \in DOMAIN dirtables, dirtables'[s].slots[k] = dirtables[s].slots[k]
      PROVE  Completed(s, k, name, n) \/ Pending(s, k, name, n)
  BY <1>1, <1>2 DEF LfnsFollowed
<1>3. ASSUME NEW entry \in Entries, dir_add_entry(entry), EntryOfJob(entry)
      PROVE  Completed(s, k, name, n)' \/ Pending(s, k, name, n)'
  <2>1. PICK t, i : Placed(entry, t, i)
    BY <1>3, EntryPlaced
  <2>2. CASE s = t /\ k = i /\ dirtables'[s].slots[k] = entry
    <3>1. entry.kind = "lfn" /\ entry.name = name /\ entry.size = n
      BY <2>2
    <3>2. /\ pc' \in {"lfn", "position"} /\ entry = LfnEntry
          /\ job'.name = job.name /\ job'.left = job.left - 1
      BY <1>3, <3>1, EntryControl DEF ShortEntry, DotEntry, DotDotEntry, Entry
    <3>3. job'.name = name /\ job'.left = n - 1
      BY <3>1, <3>2 DEF LfnEntry, Entry
    <3>4. PICK top \in DOMAIN dir_stack : top = Len(dir_stack) /\ dir_stack'[top] = current_dir'
      BY <2>1, ListsAfterEntry
    <3>5. /\ Len(dir_stack') = top /\ current_dir'.dirtables # << >>
          /\ current_dir'.dirtables[Len(current_dir'.dirtables)] = t
          /\ current_dir'.current_dir_position = current_dir.current_dir_position + 1
          /\ current_dir.current_dir_position = entrys_per_cluster * (Len(current_dir'.dirtables) - 1) + i
      BY <2>1, <3>4 DEF Placed
    <3>6. LastTable(Len(dir_stack))' = t
      BY <3>4, <3>5 DEF LastTable
    <3>7. Pending(s, k, name, n)'
      BY <2>2, <3>2, <3>3, <3>5, <3>6 DEF Pending
    <3> QED BY <3>7
  <2>3. CASE s \in DOMAIN dirtables /\ dirtables'[s].slots[k] = dirtables[s].slots[k]
    <3>1. CASE Completed(s, k, name, n)
      BY <2>1, <2>3, <3>1, CompletedStays
    <3>2. CASE Pending(s, k, name, n)
      <4>1. pc \in {"lfn", "position", "short"} /\ job.name = name /\ job.left = n - 1
        BY <3>2 DEF Pending
      <4>2. \/ pc = "lfn" /\ entry = LfnEntry
            \/ pc = "short" /\ entry = ShortEntry
        BY <1>3, <4>1, EntryControl
      <4>3. entry.kind \in {"lfn", "file", "dir"} /\ entry.name = name
        BY <4>1, <4>2 DEF LfnEntry, ShortEntry, Entry
      <4>4. pc = "lfn" => job.left \in Nat /\ job.left > 0
        BY DEF TypeInv, TypeOK, ClustersOK
      <4>5. pc = "short" => job.left = 0
        BY <1>1 DEF LfnsAdded
      <4>6. CASE pc = "lfn" /\ entry = LfnEntry
        <5>1. n > 1 /\ n # 1
          BY <4>1, <4>4, <4>6
        <5>2. entry.kind = "lfn" /\ entry.size = n - 1
          BY <4>1, <4>6 DEF LfnEntry, Entry
        <5>3. /\ n > 1 => entry.kind = "lfn" /\ entry.size = n - 1
              /\ n = 1 => entry.kind \in {"file", "dir"}
          BY <5>1, <5>2
        <5>4. Completed(s, k, name, n)'
          BY <2>1, <2>3, <3>2, <4>3, <5>3, PendingCompleted
        <5> QED BY <5>4
      <4>7. CASE pc = "short" /\ entry = ShortEntry
        <5>1. n = 1 /\ ~(n > 1)
          BY <4>1, <4>5, <4>7
        <5>2. entry.kind \in {"file", "dir"}
          BY <4>7 DEF ShortEntry, Entry
        <5>3. /\ n > 1 => entry.kind = "lfn" /\ entry.size = n - 1
              /\ n = 1 => entry.kind \in {"file", "dir"}
          BY <5>1, <5>2
        <5>4. Completed(s, k, name, n)'
          BY <2>1, <2>3, <3>2, <4>3, <5>3, PendingCompleted
        <5> QED BY <5>4
      <4> QED BY <4>2, <4>6, <4>7
    <3> QED BY <1>2, <2>3, <3>1, <3>2
  <2>4. dirtables'[s].slots[k].kind # "none"
    OBVIOUS
  <2> QED BY <2>1, <2>2, <2>3, <2>4, EntriesAfter
<1>4. ASSUME dirtables' = dirtables,
             Pending(s, k, name, n) => Pending(s, k, name, n)'
      PROVE  Completed(s, k, name, n)' \/ Pending(s, k, name, n)'
  <2>1. Completed(s, k, name, n) => Completed(s, k, name, n)'
    BY <1>4 DEF Completed, Behind, Follows
  <2> QED BY <1>2, <1>4, <2>1
<1>5. CASE Quiet
  <2>1. dirtables' = dirtables /\ dir_stack' = dir_stack
    BY <1>5 DEF Quiet
  <2>2. ASSUME pc \in {"lfn", "position", "short"}
        PROVE  /\ job'.name = job.name /\ job'.left = job.left
               /\ pc' \in {"lfn", "position", "short"}
    BY <1>5, <2>2, QuietJob
  <2>3. Pending(s, k, name, n) => Pending(s, k, name, n)'
    BY <2>1, <2>2 DEF Pending, current_dir, LastTable
  <2> QED BY <1>4, <2>1, <2>3
<1>6. CASE EnterFolder \/ up_dir
  <2>1. dirtables' = dirtables /\ pc \in {"enter", "readdir"}
    BY <1>6 DEF EnterFolder, up_dir
  <2>2. ~Pending(s, k, name, n)
    BY <2>1 DEF Pending
  <2> QED BY <1>4, <2>1, <2>2
<1> QED BY <1>3, <1>5, <1>6, StepKinds

(* The LFN entries of the name at hand are added one by one.               *)
LEMMA LfnsAddedStep ==
  ASSUME TypeInv, PackedInv, LfnsAdded, [Next]_vars
  PROVE  LfnsAdded'
<1> SUFFICES ASSUME "dir_full" \notin events', pc' \in {"lfn", "position", "short"}
             PROVE  /\ pc' # "lfn" => job'.left = 0
                    /\ \A n \in job'.left + 1 .. job'.lfn :
                         \E t \in DOMAIN dirtables' : \E i \in Slots :
                           dirtables'[t].slots[i] = Entry("lfn", job'.name, 0, n, scanned_folder')
  BY DEF LfnsAdded
<1>1. "dir_full" \notin events
  BY EventsGrow
<1>2. job.left \in Nat /\ job.lfn \in Nat
  BY DEF TypeInv, TypeOK
<1>3. ASSUME NEW entry \in Entries, dir_add_entry(entry), EntryOfJob(entry)
      PROVE  /\ pc' # "lfn" => job'.left = 0
             /\ \A n \in job'.left + 1 .. job'.lfn :
                  \E t \in DOMAIN dirtables' : \E i \in Slots :
                    dirtables'[t].slots[i] = Entry("lfn", job'.name, 0, n, scanned_folder')
  <2>1. PICK t, i : Placed(entry, t, i)
    BY <1>3, EntryPlaced
  <2>2. /\ pc = "lfn" /\ pc' \in {"lfn", "position"} /\ entry = LfnEntry
        /\ job'.name = job.name /\ job'.lfn = job.lfn /\ job'.left = job.left - 1
        /\ pc' = "position" => job.left = 1
    BY <1>3, EntryControl
  <2>3. scanned_folder' = scanned_folder
    BY <1>3, <2>2 DEF EntryOfJob, AddLfnEntry, AddShortEntry, AddDot, AddDotDot, scanned_folder
  <2>4. t \in DOMAIN dirtables' /\ i \in Slots /\ dirtables'[t].slots[i] = entry
    BY <2>1 DEF Placed
  <2>5. ASSUME NEW n \in job.left .. job.lfn
        PROVE  \E u \in DOMAIN dirtables' : \E l \in Slots :
                 dirtables'[u].slots[l] = Entry("lfn", job.name, 0, n, scanned_folder)
    <3>1. CASE n = job.left
      BY <2>2, <2>4, <3>1 DEF LfnEntry
    <3>2. CASE n # job.left
      <4>1. n \in job.left + 1 .. job.lfn
        BY <1>2, <3>2
      <4>2. PICK u \in DOMAIN dirtables, l \in Slots :
              dirtables[u].slots[l] = Entry("lfn", job.name, 0, n, scanned_folder)
        BY <1>1, <2>2, <4>1 DEF LfnsAdded
      <4>3. dirtables[u].slots[l].kind # "none"
        BY <4>2 DEF Entry
      <4> QED BY <2>1, <4>2, <4>3, UsedStays
    <3> QED BY <3>1, <3>2
  <2>6. job'.left + 1 = job.left
    BY <1>2, <2>2
  <2> QED BY <2>2, <2>3, <2>5, <2>6
<1>4. CASE Quiet
  <2>1. dirtables' = dirtables
    BY <1>4 DEF Quiet
  <2>2. CASE pc \in {"lfn", "position", "short"}
    <3>1. /\ job'.name = job.name /\ job'.lfn = job.lfn /\ job'.left = job.left
          /\ pc' = "lfn" <=> pc = "lfn"
          /\ scanned_folder' = scanned_folder
      BY <1>4, <2>2, QuietJob
    <3> QED BY <1>1, <2>1, <2>2, <3>1 DEF LfnsAdded
  <2>3. CASE pc \notin {"lfn", "position", "short"}
    <3>1. AddFile \/ AddFolder
      BY <1>4, <2>3 DEF Quiet, PickFilePosition, fat_new_file, Launch, vars, AddLfnEntry, AddShortEntry
    <3>2. PICK m, st, d : m \in Nat /\ add_file(m, st, d)
      BY <3>1, FatFilesAssumption DEF AddFile, AddFolder
    <3>3. job'.lfn = m /\ job'.left = m /\ (pc' # "lfn" => m = 0)
      BY <3>2 DEF add_file, Job
    <3>4. m + 1 .. m = {}
      BY <3>2
    <3>5. job'.left + 1 .. job'.lfn = {}
      BY <3>3, <3>4
    <3> QED BY <3>3, <3>5 DEF LfnsAdded
  <2> QED BY <2>2, <2>3
<1>5. CASE EnterFolder \/ up_dir
  <2>1. FALSE
    BY <1>5 DEF EnterFolder, up_dir
  <2> QED BY <2>1
<1> QED BY <1>3, <1>4, <1>5, StepKinds

(* NextEntry finds the entry behind a slot.                                *)
LEMMA NextEntryIs ==
  ASSUME TypeInv, NEW t \in DOMAIN dirtables, NEW i \in Slots
  PROVE  /\ i + 1 \in Slots => NextEntry(t, i) = dirtables[t].slots[i + 1]
         /\ i = entrys_per_cluster - 1 =>
              /\ \A u : Follows(t, u) => NextEntry(t, i) = dirtables[u].slots[0]
              /\ Ends(t) => NextEntry(t, i) = NoEntry
<1>1. PICK e \in Nat : e = entrys_per_cluster
  BY Sizes
<1>2. i \in 0 .. e - 1
  BY <1>1 DEF Slots
<1> DEFINE later == {u \in TablesOf(dirtables[t].dir) : u > t}
<1>4. NextEntry(t, i) =
        IF i + 1 < entrys_per_cluster THEN dirtables[t].slots[i + 1]
        ELSE IF later = {} THEN NoEntry
        ELSE dirtables[CHOOSE u \in later : \A v \in later : u <= v].slots[0]
  BY DEF NextEntry
<1>5. \A v : v \in later <=> v \in DOMAIN dirtables /\ dirtables[v].dir = dirtables[t].dir /\ v > t
  BY DEF TablesOf
<1> HIDE DEF later
<1>6. \A v \in DOMAIN dirtables : v \in Nat
  BY TableShape
<1>7. i + 1 \in Slots => i + 1 < entrys_per_cluster
  BY <1>1, <1>2 DEF Slots
<1>8. i = entrys_per_cluster - 1 => ~(i + 1 < entrys_per_cluster)
  BY <1>1, <1>2
<1>9. ASSUME NEW u, Follows(t, u)
      PROVE  later # {} /\ (CHOOSE w \in later : \A v \in later : w <= v) = u
  <2>1. u \in later /\ \A v \in later : u <= v
    BY <1>5, <1>9 DEF Follows
  <2>2. \A v \in later : v \in Nat
    BY <1>5, <1>6
  <2> QED BY <2>1, <2>2, LeastChosen
<1>10. Ends(t) => later = {}
  <2>1. ASSUME Ends(t), NEW v \in later PROVE FALSE
    <3>1. v <= t /\ v > t /\ v \in Nat /\ t \in Nat
      BY <1>5, <1>6, <2>1 DEF Ends
    <3> QED BY <3>1
  <2> QED BY <2>1
<1> QED BY <1>4, <1>7, <1>8, <1>9, <1>10

(* What follows an LFN entry is what LfnsComplete asks for.                *)
LEMMA FollowedIsComplete ==
  ASSUME TypeInv, PackedInv, Listed, ZeroSlots, LfnsFollowed,
         "dir_full" \notin events, NEW t \in DOMAIN dirtables, NEW i \in DOMAIN dirtables[t].slots,
         dirtables[t].slots[i].kind = "lfn"
  PROVE  LET e == dirtables[t].slots[i]
             next == NextEntry(t, i)
         IN  \/ /\ next.name = e.name
                /\ e.size > 1 => next.kind = "lfn" /\ next.size = e.size - 1
                /\ e.size = 1 => next.kind \in {"file", "dir"}
             \/ next = NoEntry /\ job.name = e.name /\ job.left = e.size - 1
<1>1. i \in Slots /\ dirtables[t].slots[i] \in Entries
  BY TableShape
<1>2. PICK name \in Nat, n \in Nat : name = dirtables[t].slots[i].name /\ n = dirtables[t].slots[i].size
  BY <1>1 DEF Entries
<1>3. PICK e \in Nat : e = entrys_per_cluster /\ e > 1
  BY Sizes
<1>4. i \in 0 .. e - 1
  BY <1>1, <1>3 DEF Slots
<1>5. CASE Completed(t, i, name, n)
  <2>1. PICK u \in DOMAIN dirtables, k \in Slots :
          /\ Behind(t, i, u, k)
          /\ dirtables[u].slots[k].kind \in {"lfn", "file", "dir"}
          /\ dirtables[u].slots[k].name = name
          /\ n > 1 => dirtables[u].slots[k].kind = "lfn" /\ dirtables[u].slots[k].size = n - 1
          /\ n = 1 => dirtables[u].slots[k].kind \in {"file", "dir"}
    BY <1>5 DEF Completed
  <2>2. NextEntry(t, i) = dirtables[u].slots[k]
    BY <1>1, <2>1, NextEntryIs DEF Behind
  <2> QED BY <1>2, <2>1, <2>2
<1>6. CASE Pending(t, i, name, n)
  <2>1. PICK top \in DOMAIN dir_stack : top = Len(dir_stack) /\ current_dir = dir_stack[top]
    BY TopShape
  <2>2. /\ current_dir.dirtables # << >> /\ t = LastTable(top)
        /\ entrys_per_cluster * (Len(current_dir.dirtables) - 1) + i + 1 = current_dir.current_dir_position
        /\ job.name = name /\ job.left = n - 1
    BY <1>6, <2>1 DEF Pending
  <2>3. CASE i + 1 \in Slots
    <3>1. entrys_per_cluster * (Len(current_dir.dirtables) - 1) + (i + 1) = current_dir.current_dir_position
      <4>1. Len(current_dir.dirtables) - 1 \in Int
        BY TopShape
      <4>2. PICK x \in Int : x = entrys_per_cluster * (Len(current_dir.dirtables) - 1)
        BY <1>3, <4>1
      <4>3. x + (i + 1) = x + i + 1
        BY <1>4, <4>2
      <4> QED BY <2>2, <4>2, <4>3
    <3>2. dirtables[t].slots[i + 1].kind = "none"
      BY <2>1, <2>2, <2>3, <3>1, NextSlotFree
    <3>3. dirtables[t].slots[i + 1] = NoEntry
      BY <2>3, <3>2 DEF ZeroSlots
    <3> QED BY <1>1, <1>2, <2>2, <2>3, <3>3, NextEntryIs
  <2>4. CASE i = entrys_per_cluster - 1
    <3>1. dirtables[t].dir = current_dir.path
      BY <2>1, <2>2, LastTableShape
    <3>2. Ends(t)
      BY <2>1, <2>2, <3>1, LastIsGreatest DEF Ends, TablesOf
    <3>3. NextEntry(t, i) = NoEntry
      BY <1>1, <2>4, <3>2, NextEntryIs
    <3> QED BY <1>2, <2>2, <3>3
  <2>5. i + 1 \in Slots \/ i = entrys_per_cluster - 1
    BY <1>3, <1>4 DEF Slots
  <2> QED BY <2>3, <2>4, <2>5
<1>7. Completed(t, i, name, n) \/ Pending(t, i, name, n)
  BY <1>1, <1>2 DEF LfnsFollowed
<1> QED BY <1>5, <1>6, <1>7

(* As long as no directory is full, the LFN entries of a name stand before *)
(* its short entry, numbered from their count down to 1, with nothing in    *)
(* between, in every reachable state.                                      *)
THEOREM LfnsCorrect == Spec => []LfnsComplete
<1>1. TypeInv /\ PackedInv /\ [Next]_vars => PackedInv'
  BY PackedStep
<1>2. TypeInv /\ PackedInv /\ NamesInv /\ PlacesInv /\ LfnsAdded /\ LfnsFollowed /\ [Next]_vars
        => LfnsAdded' /\ LfnsFollowed'
  BY LfnsStep, LfnsAddedStep DEF PlacesInv
<1>3. Init => SetupKept /\ ZeroSlots /\ LfnsAdded /\ LfnsFollowed
  BY DEF Init, SetupKept, ZeroSlots, LfnsAdded, LfnsFollowed
<1>4. TypeInv /\ PackedInv /\ PlacesInv /\ ZeroSlots /\ LfnsAdded /\ LfnsFollowed => LfnsComplete
  <2> SUFFICES ASSUME TypeInv, PackedInv, PlacesInv, ZeroSlots, LfnsAdded, LfnsFollowed,
                      "dir_full" \notin events
               PROVE  LfnsComplete
    BY DEF LfnsComplete
  <2>1. ASSUME pc \in {"position", "short"}, NEW n \in 1 .. job.lfn
        PROVE  \E t \in DOMAIN dirtables : \E i \in DOMAIN dirtables[t].slots :
                 dirtables[t].slots[i] = Entry("lfn", job.name, 0, n, scanned_folder)
    <3>1. job.left = 0
      BY <2>1 DEF LfnsAdded
    <3>2. job.left + 1 = 1
      BY <3>1
    <3>3. PICK t \in DOMAIN dirtables, i \in Slots :
            dirtables[t].slots[i] = Entry("lfn", job.name, 0, n, scanned_folder)
      BY <2>1, <3>2 DEF LfnsAdded
    <3> QED BY <3>3, TableShape
  <2>2. Listed
    BY DEF PlacesInv
  <2> QED BY <2>1, <2>2, FollowedIsComplete, Zenon DEF LfnsComplete
<1> QED BY <1>1, <1>2, <1>3, <1>4, ZeroSlotsStep, NamesInit, NamesStep, SetupStep, PackedInit, PlacesInit,
       PlacesStep, TypeCorrect, PTL DEF Spec

=============================================================================
