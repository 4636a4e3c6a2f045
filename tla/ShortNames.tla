----------------------------- MODULE ShortNames -----------------------------
(***************************************************************************)
(* The names of a directory: format_name_83 (utils.c) gives each name that *)
(* add_file (fatfiles.c) is called with a short form of eight and three    *)
(* characters, which for a name that does not fit is made unique with a    *)
(* tilde and a number; the name itself is then spread over LFN entries.    *)
(* The list current_dir->files remembers the short names in use.           *)
(*                                                                         *)
(* A name is a sequence of bytes.  The zeroed node at the end of the list  *)
(* equals no name, for a name has no zero in it, and is left out; the node *)
(* of a name is in the list from its add_file on.                          *)
(***************************************************************************)
EXTENDS Integers, FiniteSets, Sequences

CONSTANTS
  StemLength,     (* 8  *)
  ExtLength,      (* 3  *)
  Radix,          (* 10 *)
  CharsPerEntry,  (* LFN_Chars_Per_Entry, 13 *)
  MaxLfnEntries,  (* LFN_Max_Entries, 20     *)
  Folder,         (* the names in a folder, each up to 255 bytes long  *)
  MaxNames        (* bound: names read from it                          *)

Bytes == 0 .. 255

Space == 32
Period == 46
Zero == 48
Underscore == 95
Tilde == 126
AlternateE5 == 5

(* Names have no zero byte, and no more characters than the LFN entries hold *)
(* (255 bytes in 20 entries of 13); a stem has room for a tilde and two     *)
(* digits.                                                                  *)
ASSUME ShortNamesAssumption ==
  /\ StemLength \in Nat /\ StemLength > 2
  /\ ExtLength \in Nat \ {0}
  /\ Radix \in Nat /\ Radix > 1
  /\ CharsPerEntry \in Nat \ {0}
  /\ MaxLfnEntries \in 1 .. 31
  /\ Folder \subseteq Seq(Bytes \ {0}) \ {<< >>}
  /\ \A name \in Folder : Len(name) <= MaxLfnEntries * CharsPerEntry
  /\ MaxNames \in Nat

VARIABLES
  files,      (* current_dir->files                                        *)
  entries,    (* the entries that dir_add_entry was given, in their order  *)
  names,      (* history: the names added                                  *)
  pc,
  filename,   (* the locals of the running format_name_83: the stem,       *)
  ext,
  tildePos,   (* where the tilde goes, counted from 0,                     *)
  iterator    (* and the number to try next                                *)

locals == << filename, ext, tildePos, iterator >>
vars == << files, entries, names, pc, locals >>

-----------------------------------------------------------------------------
(* Short forms *)

toupper(c) == IF c \in 97 .. 122 THEN c - 32 ELSE c

Adjusted(c) ==
  CASE c = Space -> Underscore
    [] c = 229   -> AlternateE5
    [] OTHER     -> toupper(c)

Periods(name) == {a \in DOMAIN name : name[a] = Period}

(* How many characters precede the last period, or all of them. *)
period(name) ==
  IF Periods(name) = {} THEN Len(name)
  ELSE (CHOOSE a \in Periods(name) : \A b \in Periods(name) : b <= a) - 1

(* Without a period its position is -1, and the length of the extension,    *)
(* length - period as an unsigned number, is one more than the name's.      *)
ExtensionTooLong(name) ==
  Len(name) - (IF Periods(name) = {} THEN -1 ELSE period(name)) > ExtLength + 1

lfn_required(name) ==
  \/ \E a \in DOMAIN name : Adjusted(name[a]) # name[a]
  \/ Len(name) > StemLength + ExtLength
  \/ Len(name) > StemLength /\ Periods(name) = {}
  \/ ExtensionTooLong(name)

Stem(name) ==
  [a \in 1 .. StemLength |-> IF a <= period(name) THEN Adjusted(name[a]) ELSE Space]

Extension(name) ==
  [a \in 1 .. ExtLength |->
     LET b == period(name) + 1 + a
     IN  IF b <= Len(name) THEN Adjusted(name[b]) ELSE Space]

FileEntry(f, e) == [Filename |-> f, Ext |-> e]

(* Mutant: the last node of the list is not looked at. *)
file_exists_but_last(f, e) ==
  \E k \in 1 .. Len(files) - 1 : files[k] = FileEntry(f, e)

file_exists(f, e) == \E k \in DOMAIN files : files[k] = FileEntry(f, e)

FirstTildePos(name) ==
  IF period(name) < StemLength - 1 THEN period(name) ELSE StemLength - 2

(* Mutant: a tilde in front of the last two characters stays there. *)
MovedTildeLate(i, position) ==
  IF i = Radix /\ position > StemLength - 2 THEN position - 1 ELSE position

(* With the first number of two digits the tilde moves, if it has to. *)
MovedTilde(i, position) ==
  IF i = Radix /\ position > StemLength - 3 THEN position - 1 ELSE position

Digit(n) == (Zero + n) % 256

(* Mutant: only the last digit of the number is written. *)
updateSFN_last_digit(f, position, i) ==
  [f EXCEPT ![position + 1] = Tilde, ![position + 2] = Digit(i % Radix)]

(* The stem with the tilde and the number i: two digits from Radix + 1 on,  *)
(* one character up to it, which for Radix itself is the one behind 9.  The *)
(* result, -1 from 100 on, is not looked at.                                *)
updateSFN(f, position, i) ==
  IF i > Radix
  THEN [f EXCEPT ![position + 1] = Tilde, ![position + 2] = Digit(i \div Radix),
                 ![position + 3] = Digit(i % Radix)]
  ELSE [f EXCEPT ![position + 1] = Tilde, ![position + 2] = Digit(i)]

(* The tens are stored in a byte: from here on the stems come round again.  *)
LastNumber == 256 * Radix + Radix

-----------------------------------------------------------------------------
(* Directory entries *)

(* A round of the checksum: rotate right, add. *)
NextSum(sum, c) == ((sum % 2) * 128 + sum \div 2 + c) % 256

(* The checksum of the eleven characters of a short name. *)
fn_checksum(short) ==
  LET chars == short.Filename \o short.Ext
      sums[n \in 0 .. Len(chars)] == IF n = 0 THEN 0 ELSE NextSum(sums[n - 1], chars[n])
  IN  sums[Len(chars)]

(* The first piece of the name has number 1; the last one bears a flag. *)
LfnEntry(seq, isLast, chars, checksum) ==
  [kind |-> "lfn", LFN_Seq |-> seq, LFN_First_Flag |-> isLast, chars |-> chars,
   LFN_Checksum |-> checksum]

ShortEntry(short) == [kind |-> "short", DIR_Name |-> short]

LfnEntryCount(name) ==
  LET needed == (Len(name) + CharsPerEntry - 1) \div CharsPerEntry
  IN  IF needed > MaxLfnEntries THEN MaxLfnEntries ELSE needed

(* The n-th piece of the name, zeros behind its end. *)
Piece(name, n) ==
  [i \in 1 .. CharsPerEntry |->
     LET b == CharsPerEntry * (n - 1) + i IN IF b <= Len(name) THEN name[b] ELSE 0]

(* Mutant: the pieces of the name in their order. *)
LfnEntriesForward(name, short) ==
  [n \in 1 .. LfnEntryCount(name) |->
     LfnEntry(n, n = LfnEntryCount(name), Piece(name, n), fn_checksum(short))]

(* The LFN entries of a name, the last piece first.  The sequence numbers   *)
(* are cut to five bits.                                                    *)
LfnEntries(name, short) ==
  [k \in 1 .. LfnEntryCount(name) |->
     LET n == LfnEntryCount(name) - k + 1
     IN  LfnEntry(n % 32, k = 1, Piece(name, n), fn_checksum(short))]

-----------------------------------------------------------------------------
Init ==
  /\ files = << >>
  /\ entries = << >>
  /\ names = << >>
  /\ pc = "readdir"
  /\ filename = << >>
  /\ ext = << >>
  /\ tildePos = 0
  /\ iterator = 0

Read(n) == \E k \in DOMAIN names : names[k] = n

(* add_file puts the short name in the list and its entries in the         *)
(* directory, with LFN entries before it if format_name_83 asked for them. *)
Added(name, short) ==
  /\ files' = Append(files, short)
  /\ entries' = entries \o (IF lfn_required(name) THEN LfnEntries(name, short) ELSE << >>)
                        \o << ShortEntry(short) >>

(* A name that fits is taken as it is; nothing is looked up. *)
AddPlain(name) ==
  /\ pc = "readdir"
  /\ Len(names) < MaxNames
  /\ ~Read(name)
  /\ ~lfn_required(name)
  /\ names' = Append(names, name)
  /\ Added(name, FileEntry(Stem(name), Extension(name)))
  /\ UNCHANGED << pc, locals >>

(* Otherwise the loop for a usable name begins. *)
AddLong(name) ==
  /\ pc = "readdir"
  /\ Len(names) < MaxNames
  /\ ~Read(name)
  /\ lfn_required(name)
  /\ names' = Append(names, name)
  /\ pc' = "try"
  /\ filename' = Stem(name)
  /\ ext' = Extension(name)
  /\ tildePos' = FirstTildePos(name)
  /\ iterator' = 1
  /\ UNCHANGED << files, entries >>

CurrentName == names[Len(names)]

Tilded == updateSFN(filename, MovedTilde(iterator, tildePos), iterator)

(* The number's short name is in use: the next round works on its stem. *)
TryNext ==
  /\ pc = "try"
  /\ file_exists(Tilded, ext)
  /\ filename' = Tilded
  /\ tildePos' = MovedTilde(iterator, tildePos)
  /\ iterator' = IF iterator = LastNumber THEN Radix + 1 ELSE iterator + 1
  /\ UNCHANGED << files, entries, names, pc, ext >>

(* It is not in use: format_name_83 returns, its locals are gone. *)
Found ==
  /\ pc = "try"
  /\ ~file_exists(Tilded, ext)
  /\ Added(CurrentName, FileEntry(Tilded, ext))
  /\ pc' = "readdir"
  /\ filename' = << >>
  /\ ext' = << >>
  /\ tildePos' = 0
  /\ iterator' = 0
  /\ UNCHANGED names

(* The folder is read, or as much of it as the bound allows. *)
FolderRead ==
  /\ pc = "readdir"
  /\ Len(names) = MaxNames \/ \A n \in Folder : Read(n)
  /\ UNCHANGED vars

Next ==
  \/ \E name \in Folder : AddPlain(name) \/ AddLong(name)
  \/ TryNext \/ Found \/ FolderRead

Spec == Init /\ [][Next]_vars

(* The thread that scans the folder goes on. *)
FairSpec == Spec /\ WF_vars(TryNext \/ Found)
-----------------------------------------------------------------------------
(* Properties *)

ShortNameSet == [Filename : [1 .. StemLength -> Bytes], Ext : [1 .. ExtLength -> Bytes]]

EntrySet ==
  [kind : {"lfn"}, LFN_Seq : 0 .. 31, LFN_First_Flag : BOOLEAN,
   chars : [1 .. CharsPerEntry -> Bytes], LFN_Checksum : Bytes]
  \cup [kind : {"short"}, DIR_Name : ShortNameSet]

NamesTyped ==
  /\ files \in Seq(ShortNameSet)
  /\ names \in Seq(Folder)
  /\ pc \in {"readdir", "try"}
  /\ Len(names) = Len(files) + (IF pc = "try" THEN 1 ELSE 0)
  /\ pc = "try" =>
       /\ filename \in [1 .. StemLength -> Bytes]
       /\ ext \in [1 .. ExtLength -> Bytes]
       /\ iterator \in 1 .. LastNumber
       /\ tildePos \in 0 .. StemLength - (IF iterator > Radix THEN 3 ELSE 2)

(* Every variable has its type; the tilde and its digits fit the stem, also *)
(* once the tilde had to move (utils.c:87-103 writes without a check).      *)
TypeOK == NamesTyped /\ entries \in Seq(EntrySet)

(* Plain names that their short form shows in full. *)
Faithful(name) ==
  /\ period(name) <= StemLength
  /\ period(name) # Len(name) - 1

(* Two names of a folder are given the same short name only when the later  *)
(* one was taken as it is, and it spells the tilded name of the earlier one *)
(* or one of the two is cut: a stem of nine or ten characters, a period at  *)
(* the end.                                                                 *)
ShortNamesApart ==
  \A j, k \in DOMAIN files :
    j < k /\ files[j] = files[k] =>
      /\ ~lfn_required(names[k])
      /\ \/ lfn_required(names[j])
         \/ ~Faithful(names[j])
         \/ ~Faithful(names[k])

(* The list of short names is kept "to prevent colisions on LFNs": the      *)
(* short name of a long name is that of no other entry of the directory.    *)
LfnNamesUnique ==
  \A j, k \in DOMAIN files :
    lfn_required(names[j]) /\ files[j] = files[k] => j = k

(* How a driver reads the name of the short entry at position i of a         *)
(* directory (external: the FAT specification): from the LFN entries before  *)
(* it if they are a complete run with its checksum, else from the short name. *)
LfnRun(dir, i, n) ==
  /\ n < i
  /\ \A k \in 1 .. n :
       LET e == dir[i - k]
       IN  /\ e.kind = "lfn"
           /\ e.LFN_Seq = k
           /\ e.LFN_First_Flag = (k = n)
           /\ e.LFN_Checksum = fn_checksum(dir[i].DIR_Name)

(* A sequence up to the first c in it. *)
Before(s, c) == [k \in {j \in DOMAIN s : \A i \in 1 .. j : s[i] # c} |-> s[k]]

(* The characters of the n entries before position i, nearest first. *)
LongName(dir, i, n) ==
  Before([p \in 1 .. n * CharsPerEntry |->
            dir[i - 1 - (p - 1) \div CharsPerEntry].chars[((p - 1) % CharsPerEntry) + 1]], 0)

ShownShort(short) ==
  LET e == Before(short.Ext, Space)
  IN  Before(short.Filename, Space) \o (IF e = << >> THEN << >> ELSE << Period >> \o e)

SeenName(dir, i) ==
  IF \E n \in 1 .. MaxLfnEntries : LfnRun(dir, i, n)
  THEN LongName(dir, i, CHOOSE n \in 1 .. MaxLfnEntries : LfnRun(dir, i, n))
  ELSE ShownShort(dir[i].DIR_Name)

ShortPositions(dir) == {i \in DOMAIN dir : dir[i].kind = "short"}

(* How many short entries there are up to position i. *)
ShortsTo(dir, i) == Cardinality({j \in ShortPositions(dir) : j <= i})

(* A driver sees the names of the folder, each in its place: the long ones  *)
(* put together from their LFN entries, whose checksum is that of the short *)
(* name behind them, the plain ones from their short name.                  *)
NamesSeen ==
  pc = "readdir" =>
    /\ Cardinality(ShortPositions(entries)) = Len(names)
    /\ \A i \in ShortPositions(entries) :
         LET name == names[ShortsTo(entries, i)]
         IN  lfn_required(name) \/ Faithful(name) => SeenName(entries, i) = name

(* The search for a short name ends, for as long as the directory has fewer *)
(* names than there are numbers of two digits.                              *)
NamesAreFound ==
  pc = "try" /\ Len(files) < 256 * Radix ~> pc = "readdir"
=============================================================================
