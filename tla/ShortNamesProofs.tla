-------------------------- MODULE ShortNamesProofs --------------------------
(***************************************************************************)
(* Proofs about ShortNames, for every folder and for every length of a     *)
(* short name and of the pieces of a long one: which names of a directory  *)
(* may get the same short name, and that a driver reads every name back.   *)
(***************************************************************************)
EXTENDS ShortNames, FiniteSetTheorems, WellFoundedInduction, TLAPS

-----------------------------------------------------------------------------
(* The parts of a name *)

(* Every name is a sequence of bytes other than zero, with one at least. *)
LEMMA NameType ==
  ASSUME NEW name \in Folder
  PROVE  /\ name \in Seq(Bytes \ {0})
         /\ Len(name) \in Nat \ {0}
         /\ DOMAIN name = 1 .. Len(name)
         /\ \A a \in DOMAIN name : name[a] \in Bytes \ {0}
<1>1. name \in Seq(Bytes \ {0}) \ {<< >>}
  BY ShortNamesAssumption
<1> QED
  BY <1>1

(* A nonempty set of positions has a last one. *)
LEMMA LastExists ==
  ASSUME NEW n \in Nat, NEW S \in SUBSET (1 .. n), S # {}
  PROVE  \E a \in S : \A b \in S : b <= a
<1> DEFINE T == {n - a : a \in S}
<1>0. \A a \in S : a \in 1 .. n /\ n - a \in Nat
  OBVIOUS
<1>1. T \subseteq Nat /\ T # {}
  <2>1. T \subseteq Nat
    BY <1>0
  <2>2. PICK a \in S : TRUE
    OBVIOUS
  <2>3. n - a \in T
    BY <2>2
  <2> QED
    BY <2>1, <2>3
<1>2. IsWellFoundedOn(OpToRel(<, Nat), Nat)
  BY NatLessThanWellFounded
<1>3. \E x \in T : \A y \in T : ~ (<<y, x>> \in OpToRel(<, Nat))
  BY <1>1, <1>2, WFMin
<1>4. PICK x \in T : \A y \in T : ~ (<<y, x>> \in OpToRel(<, Nat))
  BY <1>3
<1>5. \A y \in T : ~ (y < x)
  BY <1>4, <1>1 DEF OpToRel
<1>6. PICK a \in S : x = n - a
  BY <1>4
<1>7. \A b \in S : n - b \in T /\ ~ (n - b < n - a)
  BY <1>5, <1>6
<1> QED
  BY <1>0, <1>6, <1>7

(* period is where the last period is, or the length of the name. *)
LEMMA PeriodIs ==
  ASSUME NEW name \in Folder
  PROVE  /\ Periods(name) = {} => period(name) = Len(name)
         /\ Periods(name) # {} =>
              /\ period(name) \in 0 .. Len(name) - 1
              /\ name[period(name) + 1] = Period
<1> USE NameType
<1>1. Periods(name) \in SUBSET (1 .. Len(name))
  BY DEF Periods
<1>2. CASE Periods(name) = {}
  BY <1>2 DEF period
<1>3. CASE Periods(name) # {}
  <2> DEFINE last == CHOOSE a \in Periods(name) : \A b \in Periods(name) : b <= a
  <2>1. \E a \in Periods(name) : \A b \in Periods(name) : b <= a
    BY <1>1, <1>3, LastExists
  <2>2. last \in Periods(name)
    BY <2>1
  <2>3. period(name) = last - 1
    BY <1>3 DEF period
  <2>4. last \in 1 .. Len(name) /\ name[last] = Period
    BY <2>2 DEF Periods
  <2> QED
    BY <2>3, <2>4, <1>3
<1> QED
  BY <1>2, <1>3

(* A plain name goes into its short form unchanged, and has no space. *)
LEMMA PlainChars ==
  ASSUME NEW name \in Folder, ~lfn_required(name)
  PROVE  \A a \in DOMAIN name : Adjusted(name[a]) = name[a] /\ name[a] # Space
<1>1. \A a \in DOMAIN name : Adjusted(name[a]) = name[a]
  BY DEF lfn_required
<1>2. Adjusted(Space) # Space
  BY DEF Adjusted, Space, Underscore
<1> QED
  BY <1>1, <1>2

(* Sizes of a plain name that is shown in full: without a period it fits    *)
(* into the stem, with one both parts fit.                                  *)
LEMMA PlainSizes ==
  ASSUME NEW name \in Folder, ~lfn_required(name), Faithful(name)
  PROVE  /\ period(name) \in 0 .. StemLength
         /\ Periods(name) = {} => period(name) = Len(name)
         /\ Periods(name) # {} =>
              /\ period(name) + 1 < Len(name)
              /\ Len(name) <= period(name) + 1 + ExtLength
              /\ name[period(name) + 1] = Period
<1>1. Len(name) \in Nat \ {0} /\ StemLength \in Nat /\ ExtLength \in Nat
  BY NameType, ShortNamesAssumption
<1>2. period(name) <= StemLength /\ period(name) # Len(name) - 1
  BY DEF Faithful
<1>3. ~ExtensionTooLong(name)
  BY DEF lfn_required
<1>4. CASE Periods(name) = {}
  BY <1>1, <1>2, <1>4, PeriodIs
<1>5. CASE Periods(name) # {}
  <2>1. period(name) \in 0 .. Len(name) - 1 /\ name[period(name) + 1] = Period
    BY <1>5, PeriodIs
  <2>2. ~(Len(name) - period(name) > ExtLength + 1)
    BY <1>3, <1>5 DEF ExtensionTooLong
  <2> QED
    BY <1>1, <1>2, <1>5, <2>1, <2>2
<1> QED
  BY <1>4, <1>5

(* What the stem and the extension hold of a plain name. *)
LEMMA PlainShort ==
  ASSUME NEW name \in Folder, ~lfn_required(name), Faithful(name)
  PROVE  /\ \A a \in 1 .. StemLength :
              Stem(name)[a] = IF a <= period(name) THEN name[a] ELSE Space
         /\ \A a \in 1 .. ExtLength :
              Extension(name)[a] = IF period(name) + 1 + a <= Len(name)
                                   THEN name[period(name) + 1 + a] ELSE Space
<1>1. /\ Len(name) \in Nat \ {0} /\ StemLength \in Nat /\ ExtLength \in Nat
      /\ DOMAIN name = 1 .. Len(name)
  BY NameType, ShortNamesAssumption
<1>2. period(name) \in 0 .. StemLength /\ period(name) <= Len(name)
  BY PlainSizes, <1>1
<1>3. \A a \in DOMAIN name : Adjusted(name[a]) = name[a]
  BY PlainChars
<1>4. ASSUME NEW a \in 1 .. StemLength
      PROVE  Stem(name)[a] = IF a <= period(name) THEN name[a] ELSE Space
  <2>1. Stem(name)[a] = IF a <= period(name) THEN Adjusted(name[a]) ELSE Space
    BY DEF Stem
  <2>2. a <= period(name) => a \in DOMAIN name
    BY <1>1, <1>2
  <2> QED
    BY <2>1, <2>2, <1>3
<1>5. ASSUME NEW a \in 1 .. ExtLength
      PROVE  Extension(name)[a] = IF period(name) + 1 + a <= Len(name)
                                  THEN name[period(name) + 1 + a] ELSE Space
  <2>1. Extension(name)[a] = IF period(name) + 1 + a <= Len(name)
                             THEN Adjusted(name[period(name) + 1 + a]) ELSE Space
    BY DEF Extension
  <2>2. period(name) + 1 + a <= Len(name) => period(name) + 1 + a \in DOMAIN name
    BY <1>1, <1>2
  <2> QED
    BY <2>1, <2>2, <1>3
<1> QED
  BY <1>4, <1>5

(* Stems tell where the period is: no name's period is before another's     *)
(* when their stems are the same.                                           *)
LEMMA SamePeriod ==
  ASSUME NEW m \in Folder, ~lfn_required(m), Faithful(m),
         NEW n \in Folder, ~lfn_required(n), Faithful(n),
         Stem(m) = Stem(n)
  PROVE  ~(period(m) < period(n))
<1> SUFFICES ASSUME period(m) < period(n) PROVE FALSE
  OBVIOUS
<1>1. /\ period(m) \in 0 .. StemLength /\ period(n) \in 0 .. StemLength
      /\ period(n) <= Len(n)
  BY PlainSizes, NameType
<1>2. /\ period(m) + 1 \in 1 .. StemLength /\ period(m) + 1 \in DOMAIN n
      /\ ~(period(m) + 1 <= period(m)) /\ period(m) + 1 <= period(n)
  BY <1>1, NameType, ShortNamesAssumption
<1>3. Stem(m)[period(m) + 1] = Space
  BY <1>2, PlainShort
<1>4. Stem(n)[period(m) + 1] = n[period(m) + 1]
  BY <1>2, PlainShort
<1>5. n[period(m) + 1] # Space
  BY <1>2, PlainChars
<1> QED
  BY <1>3, <1>4, <1>5

(* With the period in one place, extensions tell the length of a name.      *)
LEMMA SameLength ==
  ASSUME NEW m \in Folder, ~lfn_required(m), Faithful(m),
         NEW n \in Folder, ~lfn_required(n), Faithful(n),
         Extension(m) = Extension(n), period(m) = period(n)
  PROVE  ~(Len(m) < Len(n))
<1> SUFFICES ASSUME Len(m) < Len(n) PROVE FALSE
  OBVIOUS
<1> DEFINE p == period(m)
<1>1. /\ Len(m) \in Nat \ {0} /\ Len(n) \in Nat \ {0}
      /\ DOMAIN n = 1 .. Len(n)
      /\ p \in Nat /\ p <= Len(m)
      /\ ExtLength \in Nat \ {0}
  BY NameType, PlainSizes, ShortNamesAssumption
<1>2. Periods(n) # {}
  BY <1>1, PlainSizes
<1>3. p + 1 < Len(n) /\ Len(n) <= p + 1 + ExtLength
  BY <1>2, PlainSizes
<1>4. PICK a \in 1 .. ExtLength : p + 1 + a <= Len(n) /\ ~(p + 1 + a <= Len(m))
  <2>1. CASE Len(m) <= p + 1
    <3>1. 1 \in 1 .. ExtLength /\ p + 1 + 1 <= Len(n) /\ ~(p + 1 + 1 <= Len(m))
      BY <1>1, <1>3, <2>1
    <3> QED
      BY <3>1
  <2>2. CASE Len(m) > p + 1
    <3>1. /\ Len(m) - p \in 1 .. ExtLength
          /\ p + 1 + (Len(m) - p) <= Len(n)
          /\ ~(p + 1 + (Len(m) - p) <= Len(m))
      BY <1>1, <1>3, <2>2
    <3> QED
      BY <3>1
  <2> QED
    BY <1>1, <2>1, <2>2
<1>5. Extension(m)[a] = Space
  BY <1>4, PlainShort
<1>6. Extension(n)[a] = n[p + 1 + a]
  BY <1>4, PlainShort
<1>7. p + 1 + a \in DOMAIN n
  BY <1>1, <1>4
<1>8. n[p + 1 + a] # Space
  BY <1>7, PlainChars
<1> QED
  BY <1>5, <1>6, <1>8

(* Plain names that are shown in full have different short names. *)
LEMMA PlainApart ==
  ASSUME NEW m \in Folder, ~lfn_required(m), Faithful(m),
         NEW n \in Folder, ~lfn_required(n), Faithful(n),
         Stem(m) = Stem(n), Extension(m) = Extension(n)
  PROVE  m = n
<1> DEFINE p == period(m)
<1>1. /\ period(m) \in 0 .. StemLength /\ period(n) \in 0 .. StemLength
      /\ StemLength \in Nat /\ ExtLength \in Nat
  BY PlainSizes, ShortNamesAssumption
<1>2. period(m) = period(n)
  BY <1>1, SamePeriod
<1>3. /\ m \in Seq(Bytes \ {0}) /\ n \in Seq(Bytes \ {0})
      /\ Len(m) \in Nat /\ DOMAIN m = 1 .. Len(m)
      /\ Len(n) \in Nat /\ DOMAIN n = 1 .. Len(n)
  BY NameType
<1>4. ~(Len(m) < Len(n)) /\ ~(Len(n) < Len(m))
  BY <1>2, SameLength
<1>5. Len(m) = Len(n)
  <2>1. Len(m) \in Nat /\ Len(n) \in Nat
    BY <1>3
  <2>2. \A x, y \in Nat : ~(x < y) /\ ~(y < x) => x = y
    OBVIOUS
  <2> QED
    BY <1>4, <2>1, <2>2
<1>6. ASSUME NEW b \in 1 .. Len(m)
      PROVE  m[b] = n[b]
  <2>1. CASE b <= p
    <3>1. b \in 1 .. StemLength
      BY <1>1, <2>1
    <3>2. Stem(m)[b] = m[b]
      BY <2>1, <3>1, PlainShort
    <3>3. Stem(n)[b] = n[b]
      BY <1>2, <2>1, <3>1, PlainShort
    <3> QED
      BY <3>2, <3>3
  <2>2. CASE b = p + 1
    <3>1. Periods(m) # {} /\ Periods(n) # {}
      BY <1>1, <1>2, <1>5, <2>2, PlainSizes
    <3>2. m[period(m) + 1] = Period
      BY <3>1, PlainSizes
    <3>3. n[period(n) + 1] = Period
      BY <3>1, PlainSizes
    <3> QED
      BY <1>2, <2>2, <3>2, <3>3
  <2>3. CASE b > p + 1
    <3>1. Periods(m) # {}
      BY <1>1, <1>3, <2>3, PlainSizes
    <3>2. Len(m) <= p + 1 + ExtLength
      BY <3>1, PlainSizes
    <3>3. PICK a \in 1 .. ExtLength : b = p + 1 + a
      <4>1. b - p - 1 \in 1 .. ExtLength /\ b = p + 1 + (b - p - 1)
        BY <1>1, <1>3, <2>3, <3>2
      <4> QED
        BY <4>1
    <3>4. Extension(m)[a] = m[p + 1 + a]
      BY <3>3, PlainShort
    <3>5. period(n) + 1 + a <= Len(n)
      BY <1>2, <1>5, <3>3
    <3>6. Extension(n)[a] = n[period(n) + 1 + a]
      BY <3>5, PlainShort
    <3> QED
      BY <1>2, <3>3, <3>4, <3>6
  <2> QED
    BY <1>1, <2>1, <2>2, <2>3
<1> QED
  BY <1>3, <1>5, <1>6

-----------------------------------------------------------------------------
(* The invariant *)

(* No name is added twice, and only a long name is being worked on.  A      *)
(* plain name has its own short form; the short name of a long one is that  *)
(* of none before it.                                                       *)
ShortsRight ==
  /\ pc = "try" => lfn_required(CurrentName)
  /\ \A j, k \in DOMAIN names : j < k => names[j] # names[k]
  /\ \A k \in DOMAIN files :
       IF lfn_required(names[k])
       THEN \A j \in DOMAIN files : j < k => files[j] # files[k]
       ELSE files[k] = FileEntry(Stem(names[k]), Extension(names[k]))

IInv == NamesTyped /\ ShortsRight

(* Every character that goes into a short name is a byte. *)
LEMMA ShortBytes ==
  ASSUME NEW name \in Folder
  PROVE  /\ Stem(name) \in [1 .. StemLength -> Bytes]
         /\ Extension(name) \in [1 .. ExtLength -> Bytes]
         /\ period(name) \in 0 .. Len(name)
<1>1. /\ Len(name) \in Nat \ {0} /\ DOMAIN name = 1 .. Len(name)
      /\ \A a \in DOMAIN name : name[a] \in Bytes
  BY NameType
<1>2. period(name) \in 0 .. Len(name)
  BY <1>1, PeriodIs
<1>3. \A a \in DOMAIN name : Adjusted(name[a]) \in Bytes
  BY <1>1 DEF Adjusted, toupper, Bytes, Underscore, AlternateE5
<1>4. Space \in Bytes
  BY DEF Space, Bytes
<1>5. Stem(name) \in [1 .. StemLength -> Bytes]
  <2>1. ASSUME NEW a \in 1 .. StemLength
        PROVE  (IF a <= period(name) THEN Adjusted(name[a]) ELSE Space) \in Bytes
    <3>1. a <= period(name) => a \in DOMAIN name
      BY <1>1, <1>2, ShortNamesAssumption
    <3> QED
      BY <1>3, <1>4, <3>1
  <2> QED
    BY <2>1 DEF Stem
<1>6. Extension(name) \in [1 .. ExtLength -> Bytes]
  <2>1. ASSUME NEW a \in 1 .. ExtLength
        PROVE  (IF period(name) + 1 + a <= Len(name)
                THEN Adjusted(name[period(name) + 1 + a]) ELSE Space) \in Bytes
    <3>1. period(name) + 1 + a <= Len(name) => period(name) + 1 + a \in DOMAIN name
      BY <1>1, <1>2, ShortNamesAssumption
    <3> QED
      BY <1>3, <1>4, <3>1
  <2> QED
    BY <2>1 DEF Extension
<1> QED
  BY <1>2, <1>5, <1>6

(* updateSFN keeps the stem a stem. *)
LEMMA TildedType ==
  ASSUME NamesTyped, pc = "try"
  PROVE  /\ Tilded \in [1 .. StemLength -> Bytes]
         /\ MovedTilde(iterator, tildePos)
              \in 0 .. StemLength - (IF iterator >= Radix THEN 3 ELSE 2)
<1>1. /\ StemLength \in Nat /\ StemLength > 2 /\ Radix \in Nat /\ Radix > 1
  BY ShortNamesAssumption
<1>2. /\ filename \in [1 .. StemLength -> Bytes]
      /\ iterator \in Nat
      /\ tildePos \in 0 .. StemLength - (IF iterator > Radix THEN 3 ELSE 2)
  BY <1>1 DEF NamesTyped, LastNumber
<1>3. \A n \in Nat : Digit(n) \in Bytes
  BY DEF Digit, Bytes, Zero
<1>4. iterator \div Radix \in Nat /\ iterator % Radix \in Nat
  BY <1>1, <1>2
<1>5. Tilde \in Bytes
  BY DEF Tilde, Bytes
<1>6. Tilded \in [1 .. StemLength -> Bytes]
  <2>1. /\ Digit(iterator) \in Bytes
        /\ Digit(iterator \div Radix) \in Bytes
        /\ Digit(iterator % Radix) \in Bytes
    BY <1>2, <1>3, <1>4
  <2> DEFINE p == MovedTilde(iterator, tildePos)
  <2>2. [filename EXCEPT ![p + 1] = Tilde, ![p + 2] = Digit(iterator \div Radix),
                         ![p + 3] = Digit(iterator % Radix)]
          \in [1 .. StemLength -> Bytes]
    BY <1>2, <1>5, <2>1
  <2>3. [filename EXCEPT ![p + 1] = Tilde, ![p + 2] = Digit(iterator)]
          \in [1 .. StemLength -> Bytes]
    BY <1>2, <1>5, <2>1
  <2> QED
    BY <2>2, <2>3 DEF Tilded, updateSFN
<1>7. MovedTilde(iterator, tildePos)
        \in 0 .. StemLength - (IF iterator >= Radix THEN 3 ELSE 2)
  BY <1>1, <1>2 DEF MovedTilde
<1> QED
  BY <1>6, <1>7

-----------------------------------------------------------------------------
(* The steps *)

(* An empty list. *)
LEMMA Start == Init => IInv
<1> SUFFICES ASSUME Init PROVE IInv
  OBVIOUS
<1>1. NamesTyped
  BY DEF Init, NamesTyped
<1>2. ShortsRight
  BY DEF Init, ShortsRight
<1> QED
  BY <1>1, <1>2 DEF IInv

(* A short name joins the list: what the list held stays, the new one must  *)
(* be the form of a plain name or in use by none.                           *)
LEMMA Listing ==
  ASSUME IInv, NEW name \in Folder, NEW short \in ShortNameSet,
         Len(names') = Len(files) + 1,
         names' \in Seq(Folder),
         \A k \in DOMAIN files : names'[k] = names[k],
         names'[Len(files) + 1] = name,
         files' = Append(files, short),
         \A j, k \in DOMAIN names' : j < k => names'[j] # names'[k],
         IF lfn_required(name) THEN \A j \in DOMAIN files : files[j] # short
                               ELSE short = FileEntry(Stem(name), Extension(name)),
         pc' = "readdir"
  PROVE  IInv'
<1>1. files \in Seq(ShortNameSet) /\ Len(files) \in Nat /\ DOMAIN files = 1 .. Len(files)
  BY DEF IInv, NamesTyped
<1>2. /\ files' \in Seq(ShortNameSet)
      /\ Len(files') = Len(files) + 1
      /\ DOMAIN files' = 1 .. Len(files) + 1
      /\ \A k \in 1 .. Len(files) : files'[k] = files[k]
      /\ files'[Len(files) + 1] = short
  BY <1>1
<1>3. NamesTyped'
  BY <1>2 DEF NamesTyped
<1>4. ASSUME NEW k \in DOMAIN files'
      PROVE  IF lfn_required(names'[k])
             THEN \A j \in DOMAIN files' : j < k => files'[j] # files'[k]
             ELSE files'[k] = FileEntry(Stem(names'[k]), Extension(names'[k]))
  <2>1. CASE k \in 1 .. Len(files)
    <3>1. IF lfn_required(names[k])
          THEN \A j \in DOMAIN files : j < k => files[j] # files[k]
          ELSE files[k] = FileEntry(Stem(names[k]), Extension(names[k]))
      BY <1>1, <2>1 DEF IInv, ShortsRight
    <3>2. names'[k] = names[k] /\ files'[k] = files[k]
      BY <1>1, <1>2, <2>1
    <3>3. \A j \in DOMAIN files' : j < k => j \in DOMAIN files /\ files'[j] = files[j]
      BY <1>1, <1>2, <2>1
    <3> QED
      BY <3>1, <3>2, <3>3
  <2>2. CASE k = Len(files) + 1
    <3>1. names'[k] = name /\ files'[k] = short
      BY <1>2, <2>2
    <3>2. \A j \in DOMAIN files' : j < k => j \in DOMAIN files /\ files'[j] = files[j]
      BY <1>1, <1>2, <2>2
    <3> QED
      BY <3>1, <3>2
  <2> QED
    BY <1>1, <1>2, <2>1, <2>2
<1>5. ShortsRight'
  <2>1. \A j, k \in DOMAIN names' : j < k => names'[j] # names'[k]
    OBVIOUS
  <2>2. pc' # "try"
    OBVIOUS
  <2> QED
    BY <1>4, <2>1, <2>2 DEF ShortsRight, lfn_required, ExtensionTooLong, Stem, Extension,
                             period, Periods, Adjusted, toupper, FileEntry
<1> QED
  BY <1>3, <1>5 DEF IInv

(* A name that was not read yet joins the names. *)
LEMMA Naming ==
  ASSUME IInv, NEW name \in Folder, ~Read(name), names' = Append(names, name)
  PROVE  /\ names' \in Seq(Folder)
         /\ Len(names') = Len(names) + 1
         /\ DOMAIN names' = 1 .. Len(names) + 1
         /\ names'[Len(names) + 1] = name
         /\ \A k \in DOMAIN names : names'[k] = names[k]
         /\ \A j, k \in DOMAIN names' : j < k => names'[j] # names'[k]
<1>1. names \in Seq(Folder) /\ Len(names) \in Nat /\ DOMAIN names = 1 .. Len(names)
  BY DEF IInv, NamesTyped
<1>2. /\ names' \in Seq(Folder)
      /\ Len(names') = Len(names) + 1
      /\ DOMAIN names' = 1 .. Len(names) + 1
      /\ names'[Len(names) + 1] = name
      /\ \A k \in 1 .. Len(names) : names'[k] = names[k]
  BY <1>1
<1>3. \A j, k \in 1 .. Len(names) : j < k => names[j] # names[k]
  BY <1>1 DEF IInv, ShortsRight
<1>4. \A j \in 1 .. Len(names) : names[j] # name
  BY <1>1 DEF Read
<1>5. ASSUME NEW j \in DOMAIN names', NEW k \in DOMAIN names', j < k
      PROVE  names'[j] # names'[k]
  <2>1. j \in 1 .. Len(names)
    BY <1>1, <1>2, <1>5
  <2>2. CASE k = Len(names) + 1
    BY <1>2, <1>4, <2>1, <2>2
  <2>3. CASE k \in 1 .. Len(names)
    BY <1>2, <1>3, <1>5, <2>1, <2>3
  <2> QED
    BY <1>1, <1>2, <2>2, <2>3
<1> QED
  BY <1>1, <1>2, <1>5

(* A plain name is added in one step. *)
LEMMA AddPlainKeeps ==
  ASSUME IInv, NEW name \in Folder, AddPlain(name)
  PROVE  IInv'
<1> DEFINE short == FileEntry(Stem(name), Extension(name))
<1>1. /\ pc = "readdir" /\ pc' = "readdir" /\ ~Read(name) /\ ~lfn_required(name)
      /\ names' = Append(names, name) /\ files' = Append(files, short)
  BY DEF AddPlain, Added
<1>2. Len(names) = Len(files) /\ Len(files) \in Nat
      /\ DOMAIN names = DOMAIN files
  BY <1>1 DEF IInv, NamesTyped
<1>3. short \in ShortNameSet
  BY ShortBytes DEF FileEntry, ShortNameSet
<1>4. /\ names' \in Seq(Folder)
      /\ Len(names') = Len(names) + 1
      /\ names'[Len(names) + 1] = name
      /\ \A k \in DOMAIN names : names'[k] = names[k]
      /\ \A j, k \in DOMAIN names' : j < k => names'[j] # names'[k]
  BY <1>1, Naming
<1> QED
  BY <1>1, <1>2, <1>3, <1>4, Listing

(* The search for the short name of a long one begins. *)
LEMMA AddLongKeeps ==
  ASSUME IInv, NEW name \in Folder, AddLong(name)
  PROVE  IInv'
<1>1. /\ pc = "readdir" /\ pc' = "try" /\ ~Read(name) /\ lfn_required(name)
      /\ names' = Append(names, name) /\ files' = files
      /\ filename' = Stem(name) /\ ext' = Extension(name)
      /\ tildePos' = FirstTildePos(name) /\ iterator' = 1
  BY DEF AddLong
<1>2. /\ Len(names) = Len(files) /\ Len(files) \in Nat
      /\ files \in Seq(ShortNameSet)
      /\ DOMAIN names = 1 .. Len(files) /\ DOMAIN files = 1 .. Len(files)
  BY <1>1 DEF IInv, NamesTyped
<1>3. /\ names' \in Seq(Folder)
      /\ Len(names') = Len(names) + 1
      /\ names'[Len(names) + 1] = name
      /\ \A k \in DOMAIN names : names'[k] = names[k]
      /\ \A j, k \in DOMAIN names' : j < k => names'[j] # names'[k]
  BY <1>1, Naming
<1>4. 1 \in 1 .. LastNumber /\ ~(1 > Radix)
  BY ShortNamesAssumption DEF LastNumber
<1>5. FirstTildePos(name) \in 0 .. StemLength - 2
  <2>1. period(name) \in 0 .. Len(name) /\ Len(name) \in Nat
    BY ShortBytes, NameType
  <2> QED
    BY <2>1, ShortNamesAssumption DEF FirstTildePos
<1>6. Stem(name) \in [1 .. StemLength -> Bytes] /\ Extension(name) \in [1 .. ExtLength -> Bytes]
  BY ShortBytes
<1>7. NamesTyped'
  <2>1. /\ files' \in Seq(ShortNameSet) /\ names' \in Seq(Folder)
        /\ pc' \in {"readdir", "try"}
        /\ Len(names') = Len(files') + (IF pc' = "try" THEN 1 ELSE 0)
    BY <1>1, <1>2, <1>3
  <2>2. /\ iterator' \in 1 .. LastNumber
        /\ tildePos' \in 0 .. StemLength - (IF iterator' > Radix THEN 3 ELSE 2)
    BY <1>1, <1>4, <1>5
  <2>3. filename' \in [1 .. StemLength -> Bytes] /\ ext' \in [1 .. ExtLength -> Bytes]
    BY <1>1, <1>6
  <2> QED
    BY <2>1, <2>2, <2>3 DEF NamesTyped, LastNumber
<1>8. ShortsRight'
  <2>1. CurrentName' = name
    BY <1>2, <1>3 DEF CurrentName
  <2>2. ASSUME NEW k \in DOMAIN files
        PROVE  names'[k] = names[k]
    BY <1>2, <1>3
  <2>3. ASSUME NEW k \in DOMAIN files
        PROVE  IF lfn_required(names[k])
               THEN \A j \in DOMAIN files : j < k => files[j] # files[k]
               ELSE files[k] = FileEntry(Stem(names[k]), Extension(names[k]))
    BY DEF IInv, ShortsRight
  <2>4. ASSUME NEW k \in DOMAIN files'
        PROVE  IF lfn_required(names'[k])
               THEN \A j \in DOMAIN files' : j < k => files'[j] # files'[k]
               ELSE files'[k] = FileEntry(Stem(names'[k]), Extension(names'[k]))
    BY <1>1, <2>2, <2>3
  <2>5. lfn_required(names'[Len(names')])
    BY <1>1, <2>1 DEF CurrentName
  <2> QED
    BY <1>3, <2>4, <2>5 DEF ShortsRight, CurrentName, lfn_required, ExtensionTooLong, Stem, Extension,
                                  period, Periods, Adjusted, toupper, FileEntry
<1> QED
  BY <1>7, <1>8 DEF IInv

(* What ShortsRight says outlives a step that leaves the two lists alone. *)
LEMMA ListsAlone ==
  ASSUME ShortsRight, files' = files, names' = names, pc' = pc
  PROVE  ShortsRight'
<1>1. ASSUME NEW k \in DOMAIN files'
      PROVE  IF lfn_required(names'[k])
             THEN \A j \in DOMAIN files' : j < k => files'[j] # files'[k]
             ELSE files'[k] = FileEntry(Stem(names'[k]), Extension(names'[k]))
  BY DEF ShortsRight
<1>2. \A j, k \in DOMAIN names' : j < k => names'[j] # names'[k]
  BY DEF ShortsRight
<1>3. pc' = "try" => lfn_required(names'[Len(names')])
  BY DEF ShortsRight, CurrentName
<1> QED
  BY <1>1, <1>2, <1>3 DEF ShortsRight, CurrentName, lfn_required, ExtensionTooLong, Stem,
                          Extension, period, Periods, Adjusted, toupper, FileEntry

(* A number in use: the stem and the tilde's place change, the list does not. *)
LEMMA TryNextKeeps ==
  ASSUME IInv, TryNext
  PROVE  IInv'
<1>1. /\ pc = "try" /\ filename' = Tilded /\ tildePos' = MovedTilde(iterator, tildePos)
      /\ iterator' = IF iterator = LastNumber THEN Radix + 1 ELSE iterator + 1
      /\ files' = files /\ names' = names /\ pc' = pc /\ ext' = ext
  BY DEF TryNext
<1>2. NamesTyped
  BY DEF IInv
<1>3. /\ Tilded \in [1 .. StemLength -> Bytes]
      /\ MovedTilde(iterator, tildePos)
           \in 0 .. StemLength - (IF iterator >= Radix THEN 3 ELSE 2)
  BY <1>1, <1>2, TildedType
<1>4. /\ Radix \in Nat /\ Radix > 1 /\ StemLength \in Nat /\ StemLength > 2
      /\ LastNumber \in Nat /\ LastNumber > Radix
  BY ShortNamesAssumption DEF LastNumber
<1>5. iterator \in 1 .. LastNumber
  BY <1>1, <1>2 DEF NamesTyped, LastNumber
<1>6. iterator' \in 1 .. LastNumber /\ (iterator' > Radix => iterator >= Radix)
  BY <1>1, <1>4, <1>5
<1>7. tildePos' \in 0 .. StemLength - (IF iterator' > Radix THEN 3 ELSE 2)
  BY <1>1, <1>3, <1>4, <1>5, <1>6
<1>8. NamesTyped'
  BY <1>1, <1>2, <1>3, <1>6, <1>7 DEF NamesTyped, LastNumber
<1>9. ShortsRight'
  BY <1>1, ListsAlone DEF IInv
<1> QED
  BY <1>8, <1>9 DEF IInv

(* A number that is free: the short name is that of no entry in the list. *)
LEMMA FoundKeeps ==
  ASSUME IInv, Found
  PROVE  IInv'
<1> DEFINE short == FileEntry(Tilded, ext)
<1>1. /\ pc = "try" /\ pc' = "readdir" /\ names' = names
      /\ ~file_exists(Tilded, ext) /\ files' = Append(files, short)
  BY DEF Found, Added
<1>2. /\ NamesTyped /\ ShortsRight
      /\ names \in Seq(Folder) /\ Len(files) \in Nat /\ Len(names) = Len(files) + 1
      /\ DOMAIN names = 1 .. Len(files) + 1 /\ DOMAIN files = 1 .. Len(files)
  BY <1>1 DEF IInv, NamesTyped
<1>3. short \in ShortNameSet
  BY <1>1, <1>2, TildedType DEF FileEntry, ShortNameSet, NamesTyped
<1>4. CurrentName \in Folder /\ names[Len(files) + 1] = CurrentName /\ lfn_required(CurrentName)
  BY <1>1, <1>2 DEF CurrentName, ShortsRight
<1>5. \A j \in DOMAIN files : files[j] # short
  BY <1>1 DEF file_exists
<1>6. \A j, k \in DOMAIN names' : j < k => names'[j] # names'[k]
  BY <1>1, <1>2 DEF ShortsRight
<1> QED
  BY <1>1, <1>2, <1>3, <1>4, <1>5, <1>6, Listing

(* The invariant holds, for every folder and in whatever order it is read. *)
THEOREM NamesCorrect == Spec => []IInv
<1>1. ASSUME IInv, [Next]_vars
      PROVE  IInv'
  <2>1. ASSUME NEW name \in Folder, AddPlain(name)
        PROVE  IInv'
    BY <1>1, <2>1, AddPlainKeeps
  <2>2. ASSUME NEW name \in Folder, AddLong(name)
        PROVE  IInv'
    BY <1>1, <2>2, AddLongKeeps
  <2>3. CASE TryNext
    BY <1>1, <2>3, TryNextKeeps
  <2>4. CASE Found
    BY <1>1, <2>4, FoundKeeps
  <2>5. CASE FolderRead \/ UNCHANGED vars
    <3>1. UNCHANGED << files, names, pc, filename, ext, tildePos, iterator >>
      BY <2>5 DEF FolderRead, vars, locals
    <3>2. ShortsRight'
      BY <1>1, <3>1, ListsAlone DEF IInv
    <3>3. NamesTyped'
      BY <1>1, <3>1 DEF IInv, NamesTyped, LastNumber
    <3> QED
      BY <3>2, <3>3 DEF IInv
  <2> QED
    BY <1>1, <2>1, <2>2, <2>3, <2>4, <2>5 DEF Next
<1> QED
  BY Start, <1>1, PTL DEF Spec

(* A short name has one stem and one extension. *)
LEMMA SameParts ==
  ASSUME NEW f, NEW e, NEW g, NEW d, FileEntry(f, e) = FileEntry(g, d)
  PROVE  f = g /\ e = d
<1>1. FileEntry(f, e).Filename = f /\ FileEntry(f, e).Ext = e
  BY DEF FileEntry
<1>2. FileEntry(g, d).Filename = g /\ FileEntry(g, d).Ext = d
  BY DEF FileEntry
<1> QED
  BY <1>1, <1>2

(* Two names share a short name only if the later one is plain and spells  *)
(* the other's tilded form, or one of them is cut.                         *)
LEMMA InvImpliesApart == IInv => ShortNamesApart
<1> SUFFICES ASSUME IInv,
                    NEW j \in DOMAIN files, NEW k \in DOMAIN files,
                    j < k, files[j] = files[k]
             PROVE  /\ ~lfn_required(names[k])
                    /\ \/ lfn_required(names[j])
                       \/ ~Faithful(names[j])
                       \/ ~Faithful(names[k])
  BY DEF ShortNamesApart
<1>1. /\ DOMAIN files = 1 .. Len(files) /\ Len(files) \in Nat
      /\ Len(names) >= Len(files) /\ Len(names) \in Nat
      /\ names \in Seq(Folder)
  BY DEF IInv, NamesTyped
<1>2. j \in DOMAIN names /\ k \in DOMAIN names
  BY <1>1
<1>3. names[j] \in Folder /\ names[k] \in Folder
  BY <1>1, <1>2
<1>4. ~lfn_required(names[k])
  BY DEF IInv, ShortsRight
<1>5. ASSUME ~lfn_required(names[j]), Faithful(names[j]), Faithful(names[k])
      PROVE  FALSE
  <2>1. /\ files[j] = FileEntry(Stem(names[j]), Extension(names[j]))
        /\ files[k] = FileEntry(Stem(names[k]), Extension(names[k]))
    BY <1>4, <1>5 DEF IInv, ShortsRight
  <2>2. Stem(names[j]) = Stem(names[k]) /\ Extension(names[j]) = Extension(names[k])
    <3>1. FileEntry(Stem(names[j]), Extension(names[j]))
            = FileEntry(Stem(names[k]), Extension(names[k]))
      BY <2>1
    <3> QED
      BY <3>1, SameParts
  <2>3. names[j] = names[k]
    BY <1>3, <1>4, <1>5, <2>2, PlainApart
  <2>4. names[j] # names[k]
    BY <1>2 DEF IInv, ShortsRight
  <2> QED
    BY <2>3, <2>4
<1> QED
  BY <1>4, <1>5

(* Short names are kept apart as far as the code can tell. *)
THEOREM NamesApart == Spec => []ShortNamesApart
  BY NamesCorrect, InvImpliesApart, PTL

-----------------------------------------------------------------------------
(* The checksum *)

(* Induction without an operator: a set of numbers with no least one.       *)
LEMMA NoLeast ==
  ASSUME NEW T \in SUBSET Nat, 0 \notin T,
         \A n \in Nat : n \notin T => n + 1 \notin T
  PROVE  T = {}
<1> SUFFICES ASSUME T # {} PROVE FALSE
  OBVIOUS
<1>1. IsWellFoundedOn(OpToRel(<, Nat), Nat)
  BY NatLessThanWellFounded
<1>2. PICK x \in T : \A y \in T : ~ (<<y, x>> \in OpToRel(<, Nat))
  BY <1>1, WFMin
<1>3. \A y \in T : ~ (y < x)
  BY <1>2 DEF OpToRel
<1>4. x \in Nat /\ x # 0
  OBVIOUS
<1>5. x - 1 \in Nat /\ x - 1 \notin T /\ (x - 1) + 1 = x
  BY <1>3, <1>4
<1> QED
  BY <1>5

(* A round of the checksum gives a byte. *)
LEMMA NextSumByte ==
  ASSUME NEW sum \in Bytes, NEW c \in Bytes
  PROVE  NextSum(sum, c) \in Bytes
  BY DEF NextSum, Bytes

(* The sums of a sequence exist: there is one function that satisfies the   *)
(* recursion, and it gives bytes.                                           *)
LEMMA SumsExist ==
  ASSUME NEW chars \in Seq(Bytes)
  PROVE  \E f : f = [n \in 0 .. Len(chars) |->
                       IF n = 0 THEN 0 ELSE NextSum(f[n - 1], chars[n])]
<1> DEFINE L == Len(chars)
           Sums(m, f) ==
             /\ f \in [0 .. m -> Bytes]
             /\ \A n \in 0 .. m : f[n] = IF n = 0 THEN 0 ELSE NextSum(f[n - 1], chars[n])
           T == {m \in Nat : m <= L /\ ~ \E f : Sums(m, f)}
<1>1. L \in Nat /\ \A n \in 1 .. L : chars[n] \in Bytes
  OBVIOUS
<1>2. 0 \notin T
  <2>1. Sums(0, [n \in 0 .. 0 |-> 0])
    BY DEF Bytes
  <2> HIDE DEF Sums
  <2> QED
    BY <2>1
<1>3. ASSUME NEW m \in Nat, m \notin T
      PROVE  m + 1 \notin T
  <2> SUFFICES ASSUME m + 1 <= L
               PROVE  \E f : Sums(m + 1, f)
    OBVIOUS
  <2>1. PICK g : Sums(m, g)
    BY <1>1, <1>3
  <2> DEFINE s == NextSum(g[m], chars[m + 1])
             h == [n \in 0 .. m + 1 |-> IF n = m + 1 THEN s ELSE g[n]]
  <2>2. s \in Bytes
    BY <1>1, <2>1, NextSumByte
  <2>3. h \in [0 .. m + 1 -> Bytes]
    BY <2>1, <2>2
  <2>4. ASSUME NEW n \in 0 .. m + 1
        PROVE  h[n] = IF n = 0 THEN 0 ELSE NextSum(h[n - 1], chars[n])
    <3> HIDE DEF s
    <3>1. CASE n = m + 1
      <4>1. h[n] = s /\ n # 0 /\ n - 1 = m /\ m \in 0 .. m + 1 /\ m # m + 1
        BY <3>1
      <4>2. h[n - 1] = g[m]
        BY <4>1
      <4> QED
        BY <4>1, <4>2, <3>1 DEF s
    <3>2. CASE n \in 0 .. m
      <4>1. h[n] = g[n] /\ g[n] = IF n = 0 THEN 0 ELSE NextSum(g[n - 1], chars[n])
        BY <2>1, <3>2
      <4>2. n # 0 => h[n - 1] = g[n - 1]
        BY <3>2
      <4> QED
        BY <4>1, <4>2
    <3> QED
      BY <3>1, <3>2
  <2>5. Sums(m + 1, h)
    BY <2>3, <2>4
  <2> QED
    BY <2>5
<1>4. T = {}
  <2> HIDE DEF Sums
  <2>1. T \subseteq Nat
    OBVIOUS
  <2> HIDE DEF T
  <2> QED
    BY <1>2, <1>3, <2>1, NoLeast
<1>5. PICK f : Sums(L, f)
  BY <1>1, <1>4
<1>6. f = [n \in 0 .. L |-> f[n]]
  BY <1>5
<1>7. [n \in 0 .. L |-> f[n]]
        = [n \in 0 .. L |-> IF n = 0 THEN 0 ELSE NextSum(f[n - 1], chars[n])]
  BY <1>5
<1> QED
  BY <1>6, <1>7

(* The checksum of a short name is a byte. *)
LEMMA ChecksumByte ==
  ASSUME NEW short \in ShortNameSet
  PROVE  fn_checksum(short) \in Bytes
<1> DEFINE chars == short.Filename \o short.Ext
           sums[n \in 0 .. Len(chars)] == IF n = 0 THEN 0 ELSE NextSum(sums[n - 1], chars[n])
           T == {n \in Nat : n <= Len(chars) /\ sums[n] \notin Bytes}
<1>1. chars \in Seq(Bytes)
  BY ShortNamesAssumption DEF ShortNameSet
<1>2. sums = [n \in 0 .. Len(chars) |->
                IF n = 0 THEN 0 ELSE NextSum(sums[n - 1], chars[n])]
  <2>1. \E f : f = [n \in 0 .. Len(chars) |->
                      IF n = 0 THEN 0 ELSE NextSum(f[n - 1], chars[n])]
    BY <1>1, SumsExist
  <2> QED
    BY <2>1
<1>3. fn_checksum(short) = sums[Len(chars)]
  BY DEF fn_checksum
<1> HIDE DEF sums, chars
<1>4. Len(chars) \in Nat /\ \A n \in 1 .. Len(chars) : chars[n] \in Bytes
  BY <1>1
<1>5. 0 \notin T
  BY <1>2, <1>4 DEF Bytes
<1>6. ASSUME NEW n \in Nat, n \notin T
      PROVE  n + 1 \notin T
  <2> SUFFICES ASSUME n + 1 <= Len(chars)
               PROVE  sums[n + 1] \in Bytes
    OBVIOUS
  <2>1. sums[n] \in Bytes
    BY <1>4, <1>6
  <2>2. sums[n + 1] = NextSum(sums[n], chars[n + 1])
    BY <1>2, <1>4
  <2> QED
    BY <1>4, <2>1, <2>2, NextSumByte
<1>7. T = {}
  <2>1. T \subseteq Nat
    OBVIOUS
  <2> HIDE DEF T
  <2> QED
    BY <1>5, <1>6, <2>1, NoLeast
<1> QED
  BY <1>3, <1>4, <1>7

-----------------------------------------------------------------------------
(* The entries of a name *)

(* x is y times its quotient and a remainder below y. *)
LEMMA Division ==
  ASSUME NEW x \in Nat, NEW y \in Nat \ {0}
  PROVE  /\ x \div y \in Nat
         /\ x % y \in 0 .. y - 1
         /\ x = y * (x \div y) + (x % y)
  OBVIOUS

(* A name has entries enough for its characters, and no more than there are *)
(* numbers for.                                                             *)
LEMMA CountFits ==
  ASSUME NEW name \in Folder
  PROVE  /\ LfnEntryCount(name) \in 1 .. MaxLfnEntries
         /\ LfnEntryCount(name) \in 1 .. 31
         /\ Len(name) <= LfnEntryCount(name) * CharsPerEntry
<1> DEFINE C == CharsPerEntry
           x == Len(name) + C - 1
           needed == x \div C
<1>1. /\ Len(name) \in Nat \ {0} /\ C \in Nat \ {0} /\ MaxLfnEntries \in 1 .. 31
      /\ Len(name) <= MaxLfnEntries * C
  BY NameType, ShortNamesAssumption
<1>2. x \in Nat
  BY <1>1
<1>3. /\ needed \in Nat /\ x % C \in 0 .. C - 1 /\ x = C * needed + (x % C)
  BY <1>1, <1>2, Division
<1>4. Len(name) <= C * needed
  BY <1>1, <1>3
<1>5. needed # 0
  <2> SUFFICES ASSUME needed = 0 PROVE FALSE
    OBVIOUS
  <2>1. C * needed = 0
    BY <1>1
  <2> QED
    BY <1>1, <1>4, <2>1
<1>6. LfnEntryCount(name) = IF needed > MaxLfnEntries THEN MaxLfnEntries ELSE needed
  BY DEF LfnEntryCount
<1>7. C * needed = needed * C
  BY <1>1, <1>3
<1> HIDE DEF needed
<1> QED
  BY <1>1, <1>3, <1>4, <1>5, <1>6, <1>7

(* A piece of a name is made of bytes. *)
LEMMA PieceType ==
  ASSUME NEW name \in Folder, NEW n \in Nat \ {0}
  PROVE  Piece(name, n) \in [1 .. CharsPerEntry -> Bytes]
<1>1. /\ Len(name) \in Nat /\ DOMAIN name = 1 .. Len(name) /\ CharsPerEntry \in Nat \ {0}
      /\ \A a \in DOMAIN name : name[a] \in Bytes
  BY NameType, ShortNamesAssumption
<1>2. CharsPerEntry * (n - 1) \in Nat
  BY <1>1
<1>3. ASSUME NEW i \in 1 .. CharsPerEntry
      PROVE  (IF CharsPerEntry * (n - 1) + i <= Len(name)
              THEN name[CharsPerEntry * (n - 1) + i] ELSE 0) \in Bytes
  <2> DEFINE b == CharsPerEntry * (n - 1) + i
  <2>1. b \in Nat \ {0}
    BY <1>1, <1>2
  <2> HIDE DEF b
  <2>2. b <= Len(name) => b \in DOMAIN name
    BY <1>1, <2>1
  <2>3. 0 \in Bytes
    BY DEF Bytes
  <2> QED
    BY <1>1, <2>2, <2>3 DEF b
<1> QED
  BY <1>3 DEF Piece

(* The LFN entries of a name, each with its number counted from the short   *)
(* entry, and the flag on the one that is farthest from it.                 *)
LEMMA LfnEntriesAre ==
  ASSUME NEW name \in Folder, NEW short \in ShortNameSet
  PROVE  LET count == LfnEntryCount(name)
             lfns == LfnEntries(name, short)
         IN  /\ lfns \in Seq(EntrySet)
             /\ Len(lfns) = count
             /\ \A n \in 1 .. count :
                  lfns[count - n + 1]
                    = LfnEntry(n, n = count, Piece(name, n), fn_checksum(short))
<1> DEFINE count == LfnEntryCount(name)
           lfns == LfnEntries(name, short)
           sum == fn_checksum(short)
<1>1. count \in 1 .. 31
  BY CountFits
<1>2. sum \in Bytes
  BY ChecksumByte
<1> HIDE DEF count, sum
<1>3. lfns = [k \in 1 .. count |-> LfnEntry((count - k + 1) % 32, k = 1,
                                           Piece(name, count - k + 1), sum)]
  BY DEF LfnEntries, count, sum
<1> HIDE DEF lfns
<1>4. ASSUME NEW n \in 1 .. count
      PROVE  lfns[count - n + 1] = LfnEntry(n, n = count, Piece(name, n), sum)
  <2>1. /\ count - n + 1 \in 1 .. count /\ count - (count - n + 1) + 1 = n /\ n % 32 = n
        /\ (count - n + 1 = 1) = (n = count)
    BY <1>1
  <2>2. lfns[count - n + 1]
          = LfnEntry((count - (count - n + 1) + 1) % 32, count - n + 1 = 1,
                     Piece(name, count - (count - n + 1) + 1), sum)
    BY <1>3, <2>1
  <2> QED
    BY <2>1, <2>2
<1>5. ASSUME NEW k \in 1 .. count
      PROVE  lfns[k] \in EntrySet
  <2>1. count - k + 1 \in 1 .. count /\ count - (count - k + 1) + 1 = k
    BY <1>1
  <2>2. lfns[k] = LfnEntry(count - k + 1, count - k + 1 = count, Piece(name, count - k + 1), sum)
    BY <1>4, <2>1
  <2>3. /\ count - k + 1 \in 0 .. 31
        /\ Piece(name, count - k + 1) \in [1 .. CharsPerEntry -> Bytes]
    BY <1>1, <2>1, PieceType
  <2>4. (count - k + 1 = count) \in BOOLEAN
    OBVIOUS
  <2> QED
    BY <1>2, <2>2, <2>3, <2>4 DEF EntrySet, LfnEntry
<1>6. lfns \in Seq(EntrySet) /\ Len(lfns) = count
  BY <1>1, <1>3, <1>5
<1> QED
  BY <1>4, <1>6 DEF count, lfns, sum

-----------------------------------------------------------------------------
(* A directory that gets the entries of one more name *)

(* A directory with a name's entries behind it: LFN entries and a short one. *)
LEMMA Joined ==
  ASSUME NEW s \in Seq(EntrySet), NEW t \in Seq(EntrySet), NEW short \in ShortNameSet,
         \A k \in 1 .. Len(t) : t[k].kind = "lfn"
  PROVE  LET u == s \o t \o << ShortEntry(short) >>
         IN  /\ u \in Seq(EntrySet)
             /\ Len(u) = Len(s) + Len(t) + 1
             /\ \A i \in 1 .. Len(s) : u[i] = s[i]
             /\ \A k \in 1 .. Len(t) : u[Len(s) + k] = t[k]
             /\ u[Len(u)] = ShortEntry(short)
             /\ ShortPositions(u) = ShortPositions(s) \cup {Len(u)}
<1> DEFINE e == ShortEntry(short)
           u == s \o t \o << e >>
<1>1. e \in EntrySet /\ e.kind = "short"
  BY DEF ShortEntry, EntrySet
<1> HIDE DEF e
<1>2. s \o t \in Seq(EntrySet) /\ Len(s \o t) = Len(s) + Len(t)
  OBVIOUS
<1>3. << e >> \in Seq(EntrySet) /\ Len(<< e >>) = 1 /\ << e >>[1] = e
  BY <1>1
<1>4. u \in Seq(EntrySet) /\ Len(u) = Len(s) + Len(t) + 1
  BY <1>2, <1>3
<1>5. Len(s) \in Nat /\ Len(t) \in Nat
  OBVIOUS
<1>6. ASSUME NEW i \in 1 .. Len(s)
      PROVE  u[i] = s[i]
  BY <1>2, <1>3, <1>5
<1>7. ASSUME NEW k \in 1 .. Len(t)
      PROVE  u[Len(s) + k] = t[k]
  BY <1>2, <1>3, <1>5
<1>8. u[Len(u)] = e
  BY <1>2, <1>3, <1>4, <1>5
<1> HIDE DEF u
<1>9. ShortPositions(u) = ShortPositions(s) \cup {Len(u)}
  <2>1. DOMAIN u = 1 .. Len(u) /\ DOMAIN s = 1 .. Len(s)
    BY <1>4
  <2>2. ASSUME NEW i \in 1 .. Len(u)
        PROVE  u[i].kind = "short" <=> (i \in 1 .. Len(s) /\ s[i].kind = "short") \/ i = Len(u)
    <3>1. CASE i \in 1 .. Len(s)
      BY <1>4, <1>5, <1>6, <3>1
    <3>2. CASE i = Len(u)
      BY <1>1, <1>8, <3>2
    <3>3. CASE i \notin 1 .. Len(s) /\ i # Len(u)
      <4> DEFINE k == i - Len(s)
      <4>1. k \in 1 .. Len(t) /\ i = Len(s) + k
        <5>1. i \in Nat /\ i > Len(s) /\ i <= Len(s) + Len(t) + 1 /\ i # Len(s) + Len(t) + 1
          BY <1>4, <1>5, <3>3
        <5> QED
          BY <1>5, <5>1
      <4> HIDE DEF k
      <4>2. u[i].kind = "lfn"
        BY <1>7, <4>1
      <4> QED
        BY <3>3, <4>2
    <3> QED
      BY <3>1, <3>2, <3>3
  <2>3. \A i \in 1 .. Len(s) : i \in 1 .. Len(u)
    BY <1>4, <1>5
  <2>4. Len(u) \in 1 .. Len(u)
    BY <1>4, <1>5
  <2> QED
    BY <2>1, <2>2, <2>3, <2>4 DEF ShortPositions
<1> QED
  BY <1>4, <1>6, <1>7, <1>8, <1>9 DEF u, e

(* The short entries of a directory are numbered from 1. *)
LEMMA Numbered ==
  ASSUME NEW s \in Seq(EntrySet)
  PROVE  /\ IsFiniteSet(ShortPositions(s))
         /\ Cardinality(ShortPositions(s)) \in Nat
         /\ \A i \in ShortPositions(s) : ShortsTo(s, i) \in 1 .. Cardinality(ShortPositions(s))
<1> DEFINE S == ShortPositions(s)
<1>1. S \subseteq 1 .. Len(s) /\ Len(s) \in Nat
  BY DEF ShortPositions
<1>2. IsFiniteSet(S) /\ Cardinality(S) \in Nat
  <2>1. IsFiniteSet(1 .. Len(s))
    BY <1>1, FS_Interval
  <2>2. IsFiniteSet(S)
    BY <1>1, <2>1, FS_Subset
  <2> QED
    BY <2>2, FS_CardinalityType
<1> HIDE DEF S
<1>3. ASSUME NEW i \in S
      PROVE  ShortsTo(s, i) \in 1 .. Cardinality(S)
  <2> DEFINE T == {j \in S : j <= i}
  <2>1. ShortsTo(s, i) = Cardinality(T)
    BY DEF ShortsTo, S
  <2>2. T \in SUBSET S /\ i \in T
    BY <1>1
  <2> HIDE DEF T
  <2>3. IsFiniteSet(T) /\ Cardinality(T) <= Cardinality(S)
    BY <1>2, <2>2, FS_Subset
  <2>4. Cardinality(T) \in Nat /\ Cardinality(T) # 0
    BY <2>2, <2>3, FS_CardinalityType, FS_EmptySet
  <2> QED
    BY <1>2, <2>1, <2>3, <2>4
<1> QED
  BY <1>2, <1>3 DEF S

(* The short entries that were there keep their number, the new one is last. *)
LEMMA Counted ==
  ASSUME NEW s \in Seq(EntrySet), NEW u \in Seq(EntrySet), Len(s) < Len(u),
         ShortPositions(u) = ShortPositions(s) \cup {Len(u)}
  PROVE  /\ Cardinality(ShortPositions(u)) = Cardinality(ShortPositions(s)) + 1
         /\ \A i \in ShortPositions(s) : ShortsTo(u, i) = ShortsTo(s, i)
         /\ ShortsTo(u, Len(u)) = Cardinality(ShortPositions(u))
<1> DEFINE S == ShortPositions(s)
           U == ShortPositions(u)
<1>1. S \subseteq 1 .. Len(s) /\ Len(s) \in Nat /\ Len(u) \in Nat
  BY DEF ShortPositions
<1>2. IsFiniteSet(S)
  BY Numbered
<1> HIDE DEF S, U
<1>3. U = S \cup {Len(u)} /\ Len(u) \notin S
  BY <1>1 DEF S, U
<1>4. Cardinality(U) = Cardinality(S) + 1
  BY <1>2, <1>3, FS_AddElement
<1>5. ASSUME NEW i \in S
      PROVE  ShortsTo(u, i) = ShortsTo(s, i)
  <2>1. {j \in U : j <= i} = {j \in S : j <= i}
    BY <1>1, <1>3
  <2> QED
    BY <2>1 DEF ShortsTo, S, U
<1>6. ShortsTo(u, Len(u)) = Cardinality(U)
  <2>1. \A j \in U : j <= Len(u)
    BY <1>1, <1>3
  <2>2. {j \in U : j <= Len(u)} = U
    BY <2>1
  <2> QED
    BY <2>2 DEF ShortsTo, U
<1> QED
  BY <1>4, <1>5, <1>6 DEF S, U

(* An entry is preceded by one run of LFN entries at most: the first flag   *)
(* ends it.                                                                 *)
LEMMA OneRun ==
  ASSUME NEW dir, NEW i \in Nat, NEW n \in Nat \ {0}, NEW m \in Nat \ {0},
         LfnRun(dir, i, n), LfnRun(dir, i, m)
  PROVE  n = m
<1>1. ASSUME NEW a \in Nat \ {0}, NEW b \in Nat \ {0}, LfnRun(dir, i, a), LfnRun(dir, i, b)
      PROVE  ~(a < b)
  <2> SUFFICES ASSUME a < b PROVE FALSE
    OBVIOUS
  <2>1. a \in 1 .. a /\ a \in 1 .. b
    BY <1>1
  <2>2. dir[i - a].LFN_First_Flag = (a = a) /\ dir[i - a].LFN_First_Flag = (a = b)
    BY <1>1, <2>1 DEF LfnRun
  <2>3. (a = b) = FALSE /\ (a = a) = TRUE
    OBVIOUS
  <2> QED
    BY <2>2, <2>3
<1>2. ~(n < m) /\ ~(m < n)
  BY <1>1
<1> QED
  BY <1>2

(* Which entry of a run a character of the name is in, and at which place. *)
LEMMA CharsBefore ==
  ASSUME NEW n \in Nat, NEW p \in 1 .. n * CharsPerEntry
  PROVE  /\ (p - 1) \div CharsPerEntry \in 0 .. n - 1
         /\ (p - 1) % CharsPerEntry \in 0 .. CharsPerEntry - 1
         /\ p = CharsPerEntry * ((p - 1) \div CharsPerEntry) + ((p - 1) % CharsPerEntry) + 1
<1> DEFINE C == CharsPerEntry
           q == (p - 1) \div C
           r == (p - 1) % C
<1>1. C \in Nat \ {0} /\ n * C \in Nat
  BY ShortNamesAssumption
<1>2. p - 1 \in Nat /\ p <= n * C
  BY <1>1
<1>3. q \in Nat /\ r \in 0 .. C - 1 /\ p - 1 = C * q + r
  BY <1>1, <1>2, Division
<1> HIDE DEF q, r
<1>4. q < n
  <2> SUFFICES ASSUME q >= n PROVE FALSE
    BY <1>3
  <2>1. C * q >= n * C
    BY <1>1, <1>3
  <2> QED
    BY <1>2, <1>3, <1>1, <2>1
<1> QED
  BY <1>2, <1>3, <1>4 DEF q, r

(* Entries behind it do not change how an entry is read. *)
LEMMA SeenBefore ==
  ASSUME NEW s \in Seq(EntrySet), NEW u,
         \A j \in 1 .. Len(s) : u[j] = s[j],
         NEW i \in 1 .. Len(s)
  PROVE  SeenName(u, i) = SeenName(s, i)
<1>1. i \in Nat /\ Len(s) \in Nat /\ u[i] = s[i]
  OBVIOUS
<1>2. ASSUME NEW n \in 1 .. MaxLfnEntries
      PROVE  LfnRun(u, i, n) <=> LfnRun(s, i, n)
  <2>1. n < i => \A k \in 1 .. n : u[i - k] = s[i - k]
    BY <1>1, ShortNamesAssumption
  <2> QED
    BY <1>1, <2>1 DEF LfnRun
<1>3. ASSUME NEW n \in 1 .. MaxLfnEntries, LfnRun(s, i, n)
      PROVE  LongName(u, i, n) = LongName(s, i, n)
  <2> DEFINE at(p) == i - 1 - (p - 1) \div CharsPerEntry
  <2>1. ASSUME NEW p \in 1 .. n * CharsPerEntry
        PROVE  u[at(p)] = s[at(p)]
    <3>0. n \in Nat
      BY ShortNamesAssumption
    <3>1. (p - 1) \div CharsPerEntry \in 0 .. n - 1
      BY <3>0, CharsBefore
    <3>2. n < i
      BY <1>3 DEF LfnRun
    <3>3. at(p) \in 1 .. Len(s)
      BY <1>1, <3>1, <3>2
    <3> QED
      BY <3>3
  <2> HIDE DEF at
  <2>2. [p \in 1 .. n * CharsPerEntry |-> u[at(p)].chars[((p - 1) % CharsPerEntry) + 1]]
          = [p \in 1 .. n * CharsPerEntry |-> s[at(p)].chars[((p - 1) % CharsPerEntry) + 1]]
    BY <2>1
  <2> QED
    BY <2>2 DEF LongName, at
<1>4. CASE \E n \in 1 .. MaxLfnEntries : LfnRun(s, i, n)
  <2>1. PICK n \in 1 .. MaxLfnEntries : LfnRun(s, i, n)
    BY <1>4
  <2>2. LfnRun(u, i, n)
    BY <1>2, <2>1
  <2>3. n \in Nat \ {0}
    BY ShortNamesAssumption
  <2>4. (CHOOSE m \in 1 .. MaxLfnEntries : LfnRun(s, i, m)) = n
    BY <1>1, <2>1, <2>3, OneRun, ShortNamesAssumption
  <2>5. (CHOOSE m \in 1 .. MaxLfnEntries : LfnRun(u, i, m)) = n
    BY <1>1, <2>2, <2>3, OneRun, ShortNamesAssumption
  <2>6. SeenName(s, i) = LongName(s, i, n) /\ SeenName(u, i) = LongName(u, i, n)
    BY <2>1, <2>2, <2>4, <2>5 DEF SeenName
  <2> QED
    BY <1>3, <2>1, <2>6
<1>5. CASE ~ \E n \in 1 .. MaxLfnEntries : LfnRun(s, i, n)
  BY <1>1, <1>2, <1>5 DEF SeenName
<1> QED
  BY <1>4, <1>5

-----------------------------------------------------------------------------
(* How names are read *)

(* A sequence up to its first c, when it is known where that is. *)
LEMMA BeforeIs ==
  ASSUME NEW f, NEW c, NEW l \in Nat, NEW m \in 0 .. l, DOMAIN f = 1 .. l,
         \A j \in 1 .. m : f[j] # c,
         m < l => f[m + 1] = c
  PROVE  Before(f, c) = [k \in 1 .. m |-> f[k]]
<1> DEFINE D == {j \in DOMAIN f : \A i \in 1 .. j : f[i] # c}
<1>1. ASSUME NEW j \in 1 .. m
      PROVE  j \in D
  BY <1>1
<1>2. ASSUME NEW j \in D
      PROVE  j \in 1 .. m
  <2> SUFFICES ASSUME j > m PROVE FALSE
    BY <1>2
  <2>1. m + 1 \in 1 .. j /\ m < l
    BY <1>2
  <2> QED
    BY <1>2, <2>1
<1>3. D = 1 .. m
  BY <1>1, <1>2
<1> QED
  BY <1>3 DEF Before

(* The fields of an LFN entry. *)
LEMMA LfnFields ==
  ASSUME NEW seq, NEW isLast, NEW chars, NEW checksum
  PROVE  LET e == LfnEntry(seq, isLast, chars, checksum)
         IN  /\ e.kind = "lfn" /\ e.LFN_Seq = seq /\ e.LFN_First_Flag = isLast
             /\ e.chars = chars /\ e.LFN_Checksum = checksum
  BY DEF LfnEntry

(* A long name is read from its LFN entries. *)
LEMMA LongSeen ==
  ASSUME NEW name \in Folder, NEW dir, NEW i \in Nat, LfnEntryCount(name) < i,
         \A n \in 1 .. LfnEntryCount(name) :
           dir[i - n] = LfnEntry(n, n = LfnEntryCount(name), Piece(name, n),
                                 fn_checksum(dir[i].DIR_Name))
  PROVE  SeenName(dir, i) = name
<1> DEFINE count == LfnEntryCount(name)
           C == CharsPerEntry
           sum == fn_checksum(dir[i].DIR_Name)
<1>1. /\ count \in 1 .. MaxLfnEntries /\ count \in Nat \ {0}
      /\ Len(name) <= count * C /\ Len(name) \in Nat /\ C \in Nat \ {0}
      /\ DOMAIN name = 1 .. Len(name)
      /\ \A a \in 1 .. Len(name) : name[a] # 0
  BY CountFits, NameType, ShortNamesAssumption
<1>0. name = [a \in 1 .. Len(name) |-> name[a]]
  BY NameType
<1> HIDE DEF count, sum
<1>2. \A n \in 1 .. count : dir[i - n] = LfnEntry(n, n = count, Piece(name, n), sum)
  BY DEF count, sum
<1>3. LfnRun(dir, i, count)
  <2>1. ASSUME NEW n \in 1 .. count
        PROVE  /\ dir[i - n].kind = "lfn" /\ dir[i - n].LFN_Seq = n
               /\ dir[i - n].LFN_First_Flag = (n = count)
               /\ dir[i - n].LFN_Checksum = sum
    <3> DEFINE flag == n = count
    <3>1. dir[i - n] = LfnEntry(n, flag, Piece(name, n), sum)
      BY <1>2
    <3> HIDE DEF flag
    <3>2. /\ dir[i - n].kind = "lfn" /\ dir[i - n].LFN_Seq = n
          /\ dir[i - n].LFN_First_Flag = flag /\ dir[i - n].LFN_Checksum = sum
      BY <3>1, LfnFields
    <3> QED
      BY <3>2 DEF flag
  <2> QED
    BY <2>1 DEF LfnRun, count, sum
<1>4. SeenName(dir, i) = LongName(dir, i, count)
  <2>1. (CHOOSE m \in 1 .. MaxLfnEntries : LfnRun(dir, i, m)) = count
    BY <1>1, <1>3, OneRun, ShortNamesAssumption
  <2> QED
    BY <1>1, <1>3, <2>1 DEF SeenName
<1> DEFINE f == [p \in 1 .. count * C |->
                   dir[i - 1 - (p - 1) \div C].chars[((p - 1) % C) + 1]]
<1>5. ASSUME NEW p \in 1 .. count * C
      PROVE  f[p] = IF p <= Len(name) THEN name[p] ELSE 0
  <2> DEFINE q == (p - 1) \div C
             r == (p - 1) % C
  <2>1. q \in 0 .. count - 1 /\ r \in 0 .. C - 1 /\ p = C * q + r + 1
    BY <1>1, CharsBefore
  <2>2. f[p] = dir[i - 1 - q].chars[r + 1]
    OBVIOUS
  <2> HIDE DEF q, r, f
  <2>3. q + 1 \in 1 .. count /\ i - 1 - q = i - (q + 1) /\ (q + 1) - 1 = q /\ r + 1 \in 1 .. C
    <3>1. count \in Nat /\ C \in Nat
      BY <1>1
    <3> QED
      BY <2>1, <3>1
  <2>4. f[p] = Piece(name, q + 1)[r + 1]
    <3>1. dir[i - (q + 1)]
            = LfnEntry(q + 1, q + 1 = count, Piece(name, q + 1), sum)
      BY <1>2, <2>3
    <3>2. dir[i - (q + 1)].chars = Piece(name, q + 1)
      BY <3>1, LfnFields
    <3> QED
      BY <2>2, <2>3, <3>2
  <2>5. C * ((q + 1) - 1) + (r + 1) = p
    BY <1>1, <2>1, <2>3
  <2> QED
    BY <2>3, <2>4, <2>5 DEF Piece
<1>6. DOMAIN f = 1 .. count * C /\ count * C \in Nat
  BY <1>1
<1>7. LongName(dir, i, count) = Before(f, 0)
  BY DEF LongName
<1> HIDE DEF f
<1>8. Before(f, 0) = [k \in 1 .. Len(name) |-> f[k]]
  <2>1. \A j \in 1 .. Len(name) : j \in 1 .. count * C /\ f[j] # 0
    BY <1>1, <1>5, <1>6
  <2>2. Len(name) < count * C => f[Len(name) + 1] = 0
    BY <1>1, <1>5, <1>6
  <2>3. Len(name) \in 0 .. count * C
    BY <1>1, <1>6
  <2> QED
    BY <1>6, <2>1, <2>2, <2>3, BeforeIs
<1>9. [k \in 1 .. Len(name) |-> f[k]] = [k \in 1 .. Len(name) |-> name[k]]
  BY <1>1, <1>5, <1>6
<1> QED
  BY <1>0, <1>4, <1>7, <1>8, <1>9

(* A plain name is read from its short name, if that shows it in full. *)
LEMMA PlainSeen ==
  ASSUME NEW name \in Folder, ~lfn_required(name), Faithful(name)
  PROVE  ShownShort(FileEntry(Stem(name), Extension(name))) = name
<1> DEFINE P == period(name)
           L == Len(name)
           f == Stem(name)
           e == Extension(name)
<1>1. /\ L \in Nat \ {0} /\ StemLength \in Nat /\ ExtLength \in Nat \ {0}
      /\ DOMAIN name = 1 .. L
  BY NameType, ShortNamesAssumption
<1>0. name = [a \in 1 .. L |-> name[a]]
  BY NameType
<1>2. /\ P \in 0 .. StemLength /\ P \in 0 .. L
      /\ Periods(name) = {} => P = L
      /\ Periods(name) # {} => P + 1 < L /\ L <= P + 1 + ExtLength /\ name[P + 1] = Period
  BY PlainSizes, ShortBytes
<1>3. \A a \in 1 .. L : name[a] # Space
  BY <1>1, PlainChars
<1>4. \A a \in 1 .. StemLength : f[a] = IF a <= P THEN name[a] ELSE Space
  BY PlainShort
<1>5. \A a \in 1 .. ExtLength : e[a] = IF P + 1 + a <= L THEN name[P + 1 + a] ELSE Space
  BY PlainShort
<1>6. DOMAIN f = 1 .. StemLength /\ DOMAIN e = 1 .. ExtLength
  BY DEF Stem, Extension
<1>7. FileEntry(f, e).Filename = f /\ FileEntry(f, e).Ext = e
  BY DEF FileEntry
<1> HIDE DEF P, L, f, e
<1> DEFINE g == Before(f, Space)
           x == Before(e, Space)
<1>8. g = [a \in 1 .. P |-> name[a]]
  <2>1. \A j \in 1 .. P : f[j] = name[j] /\ f[j] # Space
    BY <1>1, <1>2, <1>3, <1>4
  <2>2. P < StemLength => f[P + 1] = Space
    BY <1>1, <1>2, <1>4
  <2>3. g = [a \in 1 .. P |-> f[a]]
    BY <1>1, <1>2, <1>6, <2>1, <2>2, BeforeIs
  <2> QED
    BY <2>1, <2>3
<1>9. ShownShort(FileEntry(f, e)) = g \o (IF x = << >> THEN << >> ELSE << Period >> \o x)
  BY <1>7 DEF ShownShort
<1>10. CASE Periods(name) = {}
  <2>1. e[1] = Space
    BY <1>1, <1>2, <1>5, <1>10
  <2>2. x = [a \in 1 .. 0 |-> e[a]]
    BY <1>1, <1>6, <2>1, BeforeIs
  <2>3. x = << >>
    BY <2>2
  <2>4. g = name
    BY <1>0, <1>2, <1>8, <1>10
  <2>5. name \in Seq(Bytes \ {0})
    BY NameType
  <2> HIDE DEF g, x
  <2>6. name \o << >> = name
    BY <2>5
  <2> QED
    BY <1>9, <2>3, <2>4, <2>6 DEF L, P, f, e
<1>11. CASE Periods(name) # {}
  <2> DEFINE M == L - P - 1
  <2>1. M \in 1 .. ExtLength /\ L = P + 1 + M /\ name[P + 1] = Period
    BY <1>1, <1>2, <1>11
  <2> HIDE DEF M
  <2>2. \A a \in 1 .. M : e[a] = name[P + 1 + a] /\ e[a] # Space
    BY <1>1, <1>2, <1>3, <1>5, <2>1
  <2>3. M < ExtLength => e[M + 1] = Space
    BY <1>1, <1>2, <1>5, <2>1
  <2>4. x = [a \in 1 .. M |-> e[a]]
    BY <1>1, <1>6, <2>1, <2>2, <2>3, BeforeIs
  <2>5. x = [a \in 1 .. M |-> name[P + 1 + a]]
    BY <2>2, <2>4
  <2> HIDE DEF g, x
  <2>6. x \in Seq(Bytes) /\ Len(x) = M /\ x # << >>
    <3>1. \A a \in 1 .. M : name[P + 1 + a] \in Bytes
      <4>1. \A a \in 1 .. L : name[a] \in Bytes
        BY <1>1, NameType
      <4> QED
        BY <4>1, <1>2, <2>1
    <3>2. x \in Seq(Bytes) /\ Len(x) = M
      BY <2>1, <2>5, <3>1
    <3> QED
      BY <2>1, <3>2
  <2>7. g \in Seq(Bytes) /\ Len(g) = P
    <3>1. \A a \in 1 .. P : name[a] \in Bytes
      BY <1>1, <1>2, NameType
    <3> QED
      BY <1>2, <1>8, <3>1
  <2>8. Period \in Bytes
    BY DEF Period, Bytes
  <2> DEFINE y == << Period >> \o x
  <2>9. /\ y \in Seq(Bytes) /\ Len(y) = M + 1 /\ y[1] = Period
        /\ \A a \in 1 .. M : y[a + 1] = x[a]
    <3>1. << Period >> \in Seq(Bytes) /\ Len(<< Period >>) = 1 /\ << Period >>[1] = Period
      BY <2>8
    <3> QED
      BY <2>1, <2>6, <3>1
  <2> HIDE DEF y
  <2>10. g \o y \in Seq(Bytes) /\ Len(g \o y) = L
    BY <1>2, <2>1, <2>7, <2>9
  <2>11. ASSUME NEW a \in 1 .. L
         PROVE  (g \o y)[a] = name[a]
    <3>1. CASE a <= P
      <4>1. (g \o y)[a] = g[a]
        BY <1>2, <2>7, <2>9, <2>1, <3>1
      <4> QED
        BY <1>2, <1>8, <3>1, <4>1
    <3>2. CASE a = P + 1
      <4>1. (g \o y)[a] = y[1]
        BY <1>2, <2>7, <2>9, <2>1, <3>2
      <4> QED
        BY <2>1, <2>9, <3>2, <4>1
    <3>3. CASE a > P + 1
      <4> DEFINE b == a - P - 1
      <4>1. b \in 1 .. M /\ a = P + 1 + b
        BY <1>2, <2>1, <3>3
      <4> HIDE DEF b
      <4>2. (g \o y)[a] = y[b + 1]
        BY <1>2, <2>7, <2>9, <2>1, <4>1
      <4> QED
        BY <2>5, <2>9, <4>1, <4>2
    <3>4. a <= P \/ a = P + 1 \/ a > P + 1
      BY <1>1, <1>2
    <3> QED
      BY <3>1, <3>2, <3>3, <3>4
  <2>12. g \o y = name
    <3>1. g \o y = [a \in 1 .. L |-> (g \o y)[a]]
      <4> DEFINE z == g \o y
      <4>1. z \in Seq(Bytes) /\ Len(z) = L
        BY <2>10
      <4> HIDE DEF z
      <4>2. z = [a \in 1 .. L |-> z[a]]
        BY <4>1
      <4> QED
        BY <4>2 DEF z
    <3>2. [a \in 1 .. L |-> (g \o y)[a]] = [a \in 1 .. L |-> name[a]]
      BY <2>11
    <3> QED
      BY <1>0, <3>1, <3>2
  <2> QED
    BY <1>9, <2>6, <2>12 DEF y, f, e
<1> QED
  BY <1>10, <1>11

-----------------------------------------------------------------------------
(* The names of the directory *)

(* The entries of a directory end with a short one; there is one for every   *)
(* name in the list, and its name is read from it.                          *)
Shown ==
  /\ entries \in Seq(EntrySet)
  /\ entries # << >> => entries[Len(entries)].kind = "short"
  /\ Cardinality(ShortPositions(entries)) = Len(files)
  /\ \A i \in ShortPositions(entries) :
       LET name == names[ShortsTo(entries, i)]
       IN  lfn_required(name) \/ Faithful(name) => SeenName(entries, i) = name

(* The entries of one more name: those that were there are read as before,  *)
(* and the new one shows the name.                                          *)
LEMMA AddedShows ==
  ASSUME IInv, Shown, NEW name \in Folder, NEW short \in ShortNameSet,
         Added(name, short),
         ~lfn_required(name) => short = FileEntry(Stem(name), Extension(name)),
         \A k \in DOMAIN files : names'[k] = names[k],
         names'[Len(files) + 1] = name
  PROVE  Shown'
<1> DEFINE t == IF lfn_required(name) THEN LfnEntries(name, short) ELSE << >>
           s == entries
           u == s \o t \o << ShortEntry(short) >>
<1>1. s \in Seq(EntrySet) /\ Len(s) \in Nat
  BY DEF Shown
<1>2. t \in Seq(EntrySet) /\ Len(t) \in Nat /\ \A k \in 1 .. Len(t) : t[k].kind = "lfn"
  <2>1. CASE lfn_required(name)
    <3> DEFINE count == LfnEntryCount(name)
               lfns == LfnEntries(name, short)
    <3>1. /\ lfns \in Seq(EntrySet) /\ Len(lfns) = count /\ count \in Nat
          /\ \A n \in 1 .. count :
               lfns[count - n + 1]
                 = LfnEntry(n, n = count, Piece(name, n), fn_checksum(short))
      BY LfnEntriesAre, CountFits
    <3> HIDE DEF count, lfns
    <3>2. ASSUME NEW k \in 1 .. count
          PROVE  lfns[k].kind = "lfn"
      <4> DEFINE n == count - k + 1
                 flag == n = count
      <4>1. n \in 1 .. count /\ count - n + 1 = k
        BY <3>1
      <4>2. lfns[k] = LfnEntry(n, flag, Piece(name, n), fn_checksum(short))
        BY <3>1, <4>1
      <4> HIDE DEF n, flag
      <4> QED
        BY <4>2, LfnFields
    <3> QED
      BY <2>1, <3>1, <3>2 DEF lfns
  <2>2. CASE ~lfn_required(name)
    BY <2>2
  <2> QED
    BY <2>1, <2>2
<1>3. entries' = u
  BY DEF Added
<1> HIDE DEF t
<1>4. /\ u \in Seq(EntrySet) /\ Len(u) = Len(s) + Len(t) + 1
      /\ \A i \in 1 .. Len(s) : u[i] = s[i]
      /\ \A k \in 1 .. Len(t) : u[Len(s) + k] = t[k]
      /\ u[Len(u)] = ShortEntry(short)
      /\ ShortPositions(u) = ShortPositions(s) \cup {Len(u)}
  BY <1>1, <1>2, Joined
<1> HIDE DEF u
<1>5. /\ Cardinality(ShortPositions(s)) \in Nat
      /\ Cardinality(ShortPositions(u)) = Cardinality(ShortPositions(s)) + 1
      /\ \A i \in ShortPositions(s) : ShortsTo(u, i) = ShortsTo(s, i)
      /\ \A i \in ShortPositions(s) : ShortsTo(s, i) \in 1 .. Cardinality(ShortPositions(s))
      /\ ShortsTo(u, Len(u)) = Cardinality(ShortPositions(u))
  <2>1. Len(s) < Len(u)
    BY <1>1, <1>2, <1>4
  <2> HIDE DEF s
  <2> QED
    BY <1>1, <1>4, <2>1, Counted, Numbered
<1>6. /\ Cardinality(ShortPositions(s)) = Len(files)
      /\ DOMAIN files = 1 .. Len(files) /\ Len(files') = Len(files) + 1
  BY DEF Shown, IInv, NamesTyped, Added
<1>7. ASSUME NEW i \in ShortPositions(s),
             lfn_required(names'[ShortsTo(u, i)]) \/ Faithful(names'[ShortsTo(u, i)])
      PROVE  SeenName(u, i) = names'[ShortsTo(u, i)]
  <2>1. names'[ShortsTo(u, i)] = names[ShortsTo(s, i)]
    BY <1>5, <1>6
  <2>2. SeenName(s, i) = names[ShortsTo(s, i)]
    BY <1>7, <2>1 DEF Shown
  <2>3. i \in 1 .. Len(s)
    BY <1>1 DEF ShortPositions
  <2>4. SeenName(u, i) = SeenName(s, i)
    BY <1>1, <1>4, <2>3, SeenBefore
  <2> QED
    BY <2>1, <2>2, <2>4
<1>8. ASSUME lfn_required(name) \/ Faithful(name)
      PROVE  SeenName(u, Len(u)) = name
  <2>1. u[Len(u)].DIR_Name = short /\ Len(u) \in Nat
    BY <1>1, <1>2, <1>4 DEF ShortEntry
  <2>2. CASE lfn_required(name)
    <3> DEFINE count == LfnEntryCount(name)
    <3>1. /\ Len(t) = count /\ count \in Nat
          /\ \A n \in 1 .. count :
               t[count - n + 1]
                 = LfnEntry(n, n = count, Piece(name, n), fn_checksum(short))
      BY <2>2, LfnEntriesAre, CountFits DEF t
    <3> HIDE DEF count
    <3>2. ASSUME NEW n \in 1 .. count
          PROVE  u[Len(u) - n] = LfnEntry(n, n = count, Piece(name, n),
                                          fn_checksum(u[Len(u)].DIR_Name))
      <4>1. count - n + 1 \in 1 .. Len(t) /\ Len(u) - n = Len(s) + (count - n + 1)
        BY <1>1, <1>4, <3>1
      <4>2. u[Len(u) - n] = t[count - n + 1]
        BY <1>4, <4>1
      <4> QED
        BY <2>1, <3>1, <4>2
    <3>3. count < Len(u)
      BY <1>1, <1>4, <3>1
    <3> QED
      BY <2>1, <3>2, <3>3, LongSeen DEF count
  <2>3. CASE ~lfn_required(name)
    <3>1. t = << >> /\ Len(t) = 0
      BY <2>3 DEF t
    <3>2. ASSUME NEW n \in 1 .. MaxLfnEntries, LfnRun(u, Len(u), n)
          PROVE  FALSE
      <4>1. 1 \in 1 .. n /\ n < Len(u)
        BY <3>2, ShortNamesAssumption DEF LfnRun
      <4>2. u[Len(u) - 1].kind = "lfn"
        BY <3>2, <4>1 DEF LfnRun
      <4>3. Len(u) - 1 = Len(s) /\ Len(s) \in 1 .. Len(s)
        BY <1>1, <1>4, <3>1, <4>1, ShortNamesAssumption
      <4>4. s[Len(s)].kind = "short"
        BY <1>1, <4>3 DEF Shown
      <4> QED
        BY <1>4, <4>2, <4>3, <4>4
    <3>3. SeenName(u, Len(u)) = ShownShort(short)
      BY <2>1, <3>2 DEF SeenName
    <3> QED
      BY <1>8, <2>3, <3>3, PlainSeen
  <2> QED
    BY <2>2, <2>3
<1>9. names'[ShortsTo(u, Len(u))] = name
  BY <1>5, <1>6
<1>10. ASSUME NEW i \in ShortPositions(u),
              lfn_required(names'[ShortsTo(u, i)]) \/ Faithful(names'[ShortsTo(u, i)])
       PROVE  SeenName(u, i) = names'[ShortsTo(u, i)]
  <2>1. CASE i \in ShortPositions(s)
    BY <1>7, <1>10, <2>1
  <2>2. CASE i = Len(u)
    BY <1>8, <1>9, <1>10, <2>2
  <2> QED
    BY <1>4, <2>1, <2>2
<1>11. u[Len(u)].kind = "short"
  BY <1>4 DEF ShortEntry
<1>12. /\ entries' \in Seq(EntrySet)
       /\ entries'[Len(entries')].kind = "short"
       /\ Cardinality(ShortPositions(entries')) = Len(files')
       /\ \A i \in ShortPositions(entries') :
            lfn_required(names'[ShortsTo(entries', i)]) \/ Faithful(names'[ShortsTo(entries', i)])
              => SeenName(entries', i) = names'[ShortsTo(entries', i)]
  BY <1>3, <1>4, <1>5, <1>6, <1>10, <1>11
<1> QED
  BY <1>12 DEF Shown

(* A step that leaves the directory alone does not unsay a name. *)
LEMMA ShownStays ==
  ASSUME IInv, Shown, files' = files, entries' = entries,
         \A k \in DOMAIN files : names'[k] = names[k]
  PROVE  Shown'
<1>1. /\ entries \in Seq(EntrySet)
      /\ Cardinality(ShortPositions(entries)) = Len(files)
      /\ DOMAIN files = 1 .. Len(files)
  BY DEF Shown, IInv, NamesTyped
<1>2. ASSUME NEW i \in ShortPositions(entries)
      PROVE  names'[ShortsTo(entries, i)] = names[ShortsTo(entries, i)]
  BY <1>1, Numbered
<1>3. \A i \in ShortPositions(entries') :
        lfn_required(names'[ShortsTo(entries', i)]) \/ Faithful(names'[ShortsTo(entries', i)])
          => SeenName(entries', i) = names'[ShortsTo(entries', i)]
  <2>1. \A i \in ShortPositions(entries) :
          lfn_required(names[ShortsTo(entries, i)]) \/ Faithful(names[ShortsTo(entries, i)])
            => SeenName(entries, i) = names[ShortsTo(entries, i)]
    BY DEF Shown
  <2> QED
    BY <1>2, <2>1
<1>4. /\ entries' \in Seq(EntrySet)
      /\ entries' # << >> => entries'[Len(entries')].kind = "short"
      /\ Cardinality(ShortPositions(entries')) = Len(files')
  BY <1>1 DEF Shown
<1> QED
  BY <1>3, <1>4 DEF Shown

(* The empty directory. *)
LEMMA ShownFirst == Init => Shown
<1> SUFFICES ASSUME Init PROVE Shown
  OBVIOUS
<1>1. entries = << >> /\ files = << >> /\ Len(files) = 0
  BY DEF Init
<1>2. ShortPositions(entries) = {}
  BY <1>1 DEF ShortPositions
<1> QED
  BY <1>1, <1>2, FS_EmptySet DEF Shown

(* Every step keeps the directory in order. *)
LEMMA ShownKept ==
  ASSUME IInv, Shown, [Next]_vars
  PROVE  Shown'
<1>1. /\ names \in Seq(Folder) /\ Len(names) \in Nat /\ DOMAIN names = 1 .. Len(names)
      /\ files \in Seq(ShortNameSet) /\ Len(files) \in Nat /\ DOMAIN files = 1 .. Len(files)
      /\ Len(files) <= Len(names)
      /\ pc = "readdir" => Len(names) = Len(files)
      /\ pc = "try" => Len(names) = Len(files) + 1
  BY DEF IInv, NamesTyped
<1>2. ASSUME NEW name \in Folder, ~Read(name), names' = Append(names, name)
      PROVE  /\ \A k \in DOMAIN files : names'[k] = names[k]
             /\ names'[Len(names) + 1] = name
  <2>1. /\ names'[Len(names) + 1] = name
        /\ \A k \in DOMAIN names : names'[k] = names[k]
    BY <1>2, Naming
  <2>2. Len(files) \in Nat /\ Len(names) \in Nat /\ Len(files) <= Len(names)
    BY <1>1
  <2>3. DOMAIN files = 1 .. Len(files) /\ DOMAIN names = 1 .. Len(names)
    BY <1>1
  <2>4. DOMAIN files \subseteq DOMAIN names
    BY <2>2, <2>3
  <2> QED
    BY <2>1, <2>4
<1>3. ASSUME NEW name \in Folder, AddPlain(name)
      PROVE  Shown'
  <2> DEFINE short == FileEntry(Stem(name), Extension(name))
  <2>1. pc = "readdir" /\ ~lfn_required(name) /\ ~Read(name) /\ names' = Append(names, name)
        /\ Added(name, short)
    BY <1>3 DEF AddPlain
  <2>2. short \in ShortNameSet
    BY ShortBytes DEF FileEntry, ShortNameSet
  <2>3. names'[Len(files) + 1] = name /\ \A k \in DOMAIN files : names'[k] = names[k]
    BY <1>1, <1>2, <2>1
  <2> QED
    BY <2>1, <2>2, <2>3, AddedShows
<1>4. ASSUME NEW name \in Folder, AddLong(name)
      PROVE  Shown'
  <2>1. ~Read(name) /\ names' = Append(names, name) /\ files' = files /\ entries' = entries
    BY <1>4 DEF AddLong
  <2> QED
    BY <1>2, <2>1, ShownStays
<1>5. CASE TryNext
  BY <1>5, ShownStays DEF TryNext
<1>6. CASE Found
  <2> DEFINE short == FileEntry(Tilded, ext)
  <2>1. pc = "try" /\ names' = names /\ Added(CurrentName, short)
    BY <1>6 DEF Found
  <2>2. short \in ShortNameSet
    BY <2>1, TildedType DEF FileEntry, ShortNameSet, NamesTyped, IInv
  <2>3. /\ CurrentName \in Folder /\ names'[Len(files) + 1] = CurrentName
        /\ lfn_required(CurrentName)
    BY <1>1, <2>1 DEF CurrentName, IInv, ShortsRight
  <2> HIDE DEF short
  <2> QED
    BY <2>1, <2>2, <2>3, AddedShows
<1>7. CASE FolderRead \/ UNCHANGED vars
  BY <1>7, ShownStays DEF FolderRead, vars, locals
<1> QED
  BY <1>3, <1>4, <1>5, <1>6, <1>7 DEF Next

(* The invariant of the directory, which its names are read from. *)
THEOREM DirectoryCorrect == Spec => []Shown
<1>1. Init => IInv /\ Shown
  BY Start, ShownFirst
<1>2. IInv /\ Shown /\ IInv' /\ [Next]_vars => Shown'
  BY ShownKept
<1> QED
  BY <1>1, <1>2, NamesCorrect, PTL DEF Spec

(* The type invariant of the names, the tilde in the stem and the entries.  *)
THEOREM TypeCorrect == Spec => []TypeOK
<1>1. IInv /\ Shown => TypeOK
  BY DEF IInv, Shown, TypeOK
<1> QED
  BY <1>1, NamesCorrect, DirectoryCorrect, PTL

(* A driver sees the names of every folder, each in its place. *)
THEOREM NamesAreSeen == Spec => []NamesSeen
<1>1. IInv /\ Shown => NamesSeen
  BY DEF IInv, NamesTyped, Shown, NamesSeen
<1> QED
  BY <1>1, NamesCorrect, DirectoryCorrect, PTL

=============================================================================
