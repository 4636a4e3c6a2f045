----------------------------- MODULE BuseProofs -----------------------------
(***************************************************************************)
(* What holds of Buse for every disk, every sequence of requests and every *)
(* size of the sockets.  A socket's stream is looked at together with what *)
(* its writer still has in hand: the data of the request or of the reply   *)
(* that is being written.  In that stream each header is followed by the   *)
(* data that belongs to it and then by the next header, and what the       *)
(* reader still wants of the last header it took comes first.              *)
(***************************************************************************)
EXTENDS Buse, SequenceTheorems, TLAPS

(* Data, as items of a stream. *)
DataItems(d) == [i \in 1 .. Len(d) |-> DataItem(d[i])]

IsHeader(item) == item[1] # "data"

(* What of data d is left after its first n blocks. *)
Rest(d, n) == SubSeq(d, n + 1, Len(d))

(* As far as it goes, stream s is the data wanted, and after each header    *)
(* the data of its body.                                                   *)
Following(s, want, body) ==
  /\ \A i \in 1 .. Len(want) : i <= Len(s) => s[i] = DataItem(want[i])
  /\ \A j \in 1 .. Len(s) : IsHeader(s[j]) =>
       \A i \in 1 .. Len(body[s[j]]) : j + i <= Len(s) => s[j + i] = DataItem(body[s[j]][i])

(* No data is missing at the end of the stream. *)
Whole(s, want, body) ==
  /\ Len(want) <= Len(s)
  /\ \A j \in 1 .. Len(s) : IsHeader(s[j]) => j + Len(body[s[j]]) <= Len(s)

(* What comes after that data is a header. *)
HeadersNext(s, want, body) ==
  /\ Len(want) < Len(s) => IsHeader(s[Len(want) + 1])
  /\ \A j \in 1 .. Len(s) : IsHeader(s[j]) /\ j + Len(body[s[j]]) < Len(s) =>
       IsHeader(s[j + Len(body[s[j]]) + 1])

-----------------------------------------------------------------------------
(* Sequences and streams *)

(* What is left of a sequence without its first element, by index. *)
LEMMA TailIndex ==
  ASSUME NEW S, NEW s \in Seq(S), s # << >>
  PROVE  /\ Tail(s) \in Seq(S)
         /\ Len(s) \in Nat /\ Len(s) > 0
         /\ Len(Tail(s)) = Len(s) - 1
         /\ DOMAIN s = 1 .. Len(s)
         /\ DOMAIN Tail(s) = 1 .. Len(s) - 1
         /\ \A i \in 1 .. Len(s) - 1 : Tail(s)[i] = s[i + 1]
         /\ Head(s) = s[1] /\ Head(s) \in S
<1>1. /\ Tail(s) \in Seq(S) /\ Len(Tail(s)) = Len(s) - 1 /\ Head(s) = s[1] /\ Head(s) \in S
      /\ \A i \in 1 .. Len(Tail(s)) : Tail(s)[i] = s[i + 1]
  BY HeadTailProperties
<1>2. Len(s) \in Nat /\ DOMAIN s = 1 .. Len(s) /\ Len(s) # 0
  BY LenProperties, EmptySeq
<1>3. DOMAIN Tail(s) = 1 .. Len(Tail(s))
  BY <1>1, LenProperties
<1> QED BY <1>1, <1>2, <1>3

(* A sequence with one more element, by index. *)
LEMMA AppendIndex ==
  ASSUME NEW S, NEW s \in Seq(S), NEW e \in S
  PROVE  /\ Append(s, e) \in Seq(S)
         /\ Len(s) \in Nat
         /\ Len(Append(s, e)) = Len(s) + 1
         /\ DOMAIN s = 1 .. Len(s)
         /\ DOMAIN Append(s, e) = 1 .. Len(s) + 1
         /\ \A i \in 1 .. Len(s) : Append(s, e)[i] = s[i]
         /\ Append(s, e)[Len(s) + 1] = e
<1>1. /\ Append(s, e) \in Seq(S) /\ Len(Append(s, e)) = Len(s) + 1
      /\ \A i \in 1 .. Len(s) : Append(s, e)[i] = s[i]
      /\ Append(s, e)[Len(s) + 1] = e
  BY AppendProperties
<1>2. Len(s) \in Nat /\ DOMAIN s = 1 .. Len(s)
  BY LenProperties
<1>3. DOMAIN Append(s, e) = 1 .. Len(Append(s, e))
  BY <1>1, LenProperties
<1> QED BY <1>1, <1>2, <1>3

(* The items of a stream, told apart by their first component. *)
LEMMA Kinds ==
  ASSUME NEW item \in Items
  PROVE  /\ item[1] \in {"request", "reply", "data"}
         /\ item[1] = "request" =>
              item[2] \in Handles \cup {DiscHandle} /\ item = RequestItem(item[2])
         /\ item[1] = "reply" =>
              item[2] \in Handles /\ item[3] \in {0, EPERM} /\ item = ReplyItem(item[2], item[3])
         /\ item[1] = "data" => item[2] \in Values /\ item = DataItem(item[2])
BY DEF Items, RequestItem, ReplyItem, DataItem

(* What the items are made of. *)
LEMMA Made ==
  /\ \A h \in Handles \cup {DiscHandle} :
       RequestItem(h) \in Items /\ RequestItem(h)[1] = "request" /\ RequestItem(h)[2] = h
  /\ \A h \in Handles, e \in {0, EPERM} :
       /\ ReplyItem(h, e) \in Items /\ ReplyItem(h, e)[1] = "reply"
       /\ ReplyItem(h, e)[2] = h /\ ReplyItem(h, e)[3] = e
  /\ \A v \in Values : DataItem(v) \in Items /\ DataItem(v)[1] = "data" /\ DataItem(v)[2] = v
BY DEF Items, RequestItem, ReplyItem, DataItem

(* A stream and the data its writer has in hand, by index. *)
LEMMA Joined ==
  ASSUME NEW s \in Seq(Items), NEW d \in Seq(Values)
  PROVE  /\ s \o DataItems(d) \in Seq(Items)
         /\ Len(s) \in Nat /\ Len(d) \in Nat
         /\ Len(s \o DataItems(d)) = Len(s) + Len(d)
         /\ \A i \in 1 .. Len(s) : (s \o DataItems(d))[i] = s[i]
         /\ \A i \in 1 .. Len(d) : (s \o DataItems(d))[Len(s) + i] = DataItem(d[i])
<1>1. \A i \in 1 .. Len(d) : DataItem(d[i]) \in Items
  BY Made, ElementOfSeq
<1>2. DataItems(d) \in Seq(Items) /\ Len(DataItems(d)) = Len(d) /\ Len(d) \in Nat /\ Len(s) \in Nat
  <2>1. Len(d) \in Nat /\ Len(s) \in Nat
    BY LenProperties
  <2>2. DataItems(d) \in [1 .. Len(d) -> Items]
    BY <1>1 DEF DataItems
  <2>3. DataItems(d) \in Seq(Items)
    BY <2>1, <2>2
  <2> QED BY <2>1, <2>2, <2>3, LenProperties
<1>3. /\ s \o DataItems(d) \in Seq(Items)
      /\ Len(s \o DataItems(d)) = Len(s) + Len(DataItems(d))
      /\ \A i \in 1 .. Len(s) + Len(DataItems(d)) :
           (s \o DataItems(d))[i] = IF i <= Len(s) THEN s[i] ELSE DataItems(d)[i - Len(s)]
  BY <1>2, ConcatProperties
<1>4. \A i \in 1 .. Len(d) : DataItems(d)[i] = DataItem(d[i])
  BY DEF DataItems
<1>5. ASSUME NEW i \in 1 .. Len(d)
      PROVE  (s \o DataItems(d))[Len(s) + i] = DataItem(d[i])
  <2>1. Len(s) + i \in 1 .. Len(s) + Len(DataItems(d)) /\ ~ (Len(s) + i <= Len(s)) /\ Len(s) + i - Len(s) = i
    BY <1>2
  <2>2. (s \o DataItems(d))[Len(s) + i] = DataItems(d)[i]
    BY <1>3, <2>1
  <2> QED BY <2>2, <1>4
<1>6. \A i \in 1 .. Len(s) : (s \o DataItems(d))[i] = s[i]
  BY <1>2, <1>3
<1> QED BY <1>2, <1>3, <1>5, <1>6

(* A writer with nothing in hand. *)
LEMMA NothingInHand ==
  ASSUME NEW s \in Seq(Items)
  PROVE  s \o DataItems(<< >>) = s
<1>1. << >> \in Seq(Values) /\ Len(<< >>) = 0
  BY EmptySeq
<1>2. /\ s \o DataItems(<< >>) \in Seq(Items) /\ Len(s) \in Nat
      /\ Len(s \o DataItems(<< >>)) = Len(s) + 0
      /\ \A i \in 1 .. Len(s) : (s \o DataItems(<< >>))[i] = s[i]
  BY <1>1, Joined
<1> QED BY <1>2, SeqEqual

(* A writer puts the next block it has in hand into the socket. *)
LEMMA BlockMoved ==
  ASSUME NEW s \in Seq(Items), NEW d \in Seq(Values), d # << >>
  PROVE  /\ DataItem(Head(d)) \in Items
         /\ Append(s, DataItem(Head(d))) \o DataItems(Tail(d)) = s \o DataItems(d)
<1> DEFINE x == DataItem(Head(d))
           t == Append(s, x)
           whole == s \o DataItems(d)
           moved == t \o DataItems(Tail(d))
<1>1. /\ Tail(d) \in Seq(Values) /\ Len(d) \in Nat /\ Len(d) > 0
      /\ Len(Tail(d)) = Len(d) - 1
      /\ \A i \in 1 .. Len(d) - 1 : Tail(d)[i] = d[i + 1]
      /\ Head(d) = d[1] /\ Head(d) \in Values
  BY TailIndex
<1>2. x \in Items
  BY <1>1, Made
<1>3. /\ t \in Seq(Items) /\ Len(t) = Len(s) + 1 /\ Len(s) \in Nat
      /\ \A i \in 1 .. Len(s) : t[i] = s[i]
      /\ t[Len(s) + 1] = x
  BY <1>2, AppendIndex
<1>4. /\ whole \in Seq(Items) /\ Len(whole) = Len(s) + Len(d)
      /\ \A i \in 1 .. Len(s) : whole[i] = s[i]
      /\ \A i \in 1 .. Len(d) : whole[Len(s) + i] = DataItem(d[i])
  BY Joined
<1>5. /\ moved \in Seq(Items) /\ Len(moved) = Len(t) + Len(Tail(d))
      /\ \A i \in 1 .. Len(t) : moved[i] = t[i]
      /\ \A i \in 1 .. Len(Tail(d)) : moved[Len(t) + i] = DataItem(Tail(d)[i])
  BY <1>1, <1>3, Joined
<1> HIDE DEF t, whole, moved
<1>6. ASSUME NEW i \in 1 .. Len(moved)
      PROVE  moved[i] = whole[i]
  <2>1. CASE i <= Len(s)
    BY <2>1, <1>3, <1>4, <1>5
  <2>2. CASE i = Len(s) + 1
    <3>1. moved[i] = x
      BY <2>2, <1>3, <1>5
    <3>2. whole[Len(s) + 1] = DataItem(d[1])
      BY <1>1, <1>4
    <3> QED BY <2>2, <3>1, <3>2, <1>1
  <2>3. CASE i > Len(s) + 1
    <3> DEFINE k == i - Len(s) - 1
    <3>1. k \in 1 .. Len(Tail(d)) /\ k + 1 \in 1 .. Len(d) /\ i = Len(t) + k /\ i = Len(s) + (k + 1)
      BY <2>3, <1>1, <1>3, <1>5
    <3>2. moved[i] = DataItem(Tail(d)[k])
      BY <3>1, <1>5
    <3>3. whole[i] = DataItem(d[k + 1])
      BY <3>1, <1>4
    <3>4. Tail(d)[k] = d[k + 1]
      BY <3>1, <1>1
    <3> QED BY <3>2, <3>3, <3>4
  <2> QED BY <2>1, <2>2, <2>3, <1>3, <1>5
<1>7. Len(moved) = Len(whole)
  BY <1>1, <1>3, <1>4, <1>5
<1>8. moved = whole
  BY <1>4, <1>5, <1>6, <1>7, SeqEqual
<1> QED BY <1>2, <1>8 DEF moved, whole, t

(* A reader takes the first item of the socket. *)
LEMMA FirstTaken ==
  ASSUME NEW s \in Seq(Items), s # << >>, NEW d \in Seq(Values)
  PROVE  /\ s \o DataItems(d) # << >>
         /\ Head(s \o DataItems(d)) = Head(s)
         /\ Tail(s \o DataItems(d)) = Tail(s) \o DataItems(d)
<1> DEFINE whole == s \o DataItems(d)
           left == Tail(s) \o DataItems(d)
<1>1. /\ Tail(s) \in Seq(Items) /\ Len(s) \in Nat /\ Len(s) > 0
      /\ Len(Tail(s)) = Len(s) - 1
      /\ \A i \in 1 .. Len(s) - 1 : Tail(s)[i] = s[i + 1]
      /\ Head(s) = s[1]
  BY TailIndex
<1>2. /\ whole \in Seq(Items) /\ Len(d) \in Nat /\ Len(whole) = Len(s) + Len(d)
      /\ \A i \in 1 .. Len(s) : whole[i] = s[i]
      /\ \A i \in 1 .. Len(d) : whole[Len(s) + i] = DataItem(d[i])
  BY Joined
<1>3. /\ left \in Seq(Items) /\ Len(left) = Len(Tail(s)) + Len(d)
      /\ \A i \in 1 .. Len(Tail(s)) : left[i] = Tail(s)[i]
      /\ \A i \in 1 .. Len(d) : left[Len(Tail(s)) + i] = DataItem(d[i])
  BY <1>1, Joined
<1> HIDE DEF whole, left
<1>4. whole # << >>
  BY <1>1, <1>2, EmptySeq
<1>5. /\ Tail(whole) \in Seq(Items) /\ Len(Tail(whole)) = Len(whole) - 1
      /\ \A i \in 1 .. Len(whole) - 1 : Tail(whole)[i] = whole[i + 1]
      /\ Head(whole) = whole[1]
  BY <1>2, <1>4, TailIndex
<1>6. ASSUME NEW i \in 1 .. Len(left)
      PROVE  left[i] = Tail(whole)[i]
  <2>1. Tail(whole)[i] = whole[i + 1]
    BY <1>1, <1>2, <1>3, <1>5
  <2>2. CASE i <= Len(s) - 1
    BY <2>1, <2>2, <1>1, <1>2, <1>3
  <2>3. CASE i > Len(s) - 1
    <3> DEFINE k == i - (Len(s) - 1)
    <3>1. k \in 1 .. Len(d) /\ i = Len(Tail(s)) + k /\ i + 1 = Len(s) + k
      BY <2>3, <1>1, <1>2, <1>3
    <3>2. left[i] = DataItem(d[k]) /\ whole[i + 1] = DataItem(d[k])
      BY <3>1, <1>2, <1>3
    <3> QED BY <2>1, <3>2
  <2> QED BY <2>2, <2>3, <1>1, <1>2, <1>3
<1>7. left = Tail(whole)
  BY <1>1, <1>2, <1>3, <1>5, <1>6, SeqEqual
<1> QED BY <1>1, <1>2, <1>4, <1>5, <1>7 DEF whole, left

(* A header is appended, with data that begins with its body. *)
LEMMA PacketAppended ==
  ASSUME NEW s \in Seq(Items), NEW header \in Items, IsHeader(header), NEW d \in Seq(Values),
         NEW want \in Seq(Values), NEW body \in [Items -> Seq(Values)],
         Following(s, want, body), Whole(s, want, body),
         Len(body[header]) <= Len(d),
         \A i \in 1 .. Len(body[header]) : d[i] = body[header][i]
  PROVE  LET t == Append(s, header) \o DataItems(d) IN
         /\ Following(t, want, body)
         /\ Whole(t, want, body)
         /\ HeadersNext(s, want, body) /\ Len(d) = Len(body[header]) => HeadersNext(t, want, body)
<1> DEFINE a == Append(s, header)
           t == a \o DataItems(d)
<1>1. /\ a \in Seq(Items) /\ Len(a) = Len(s) + 1 /\ Len(s) \in Nat
      /\ \A i \in 1 .. Len(s) : a[i] = s[i]
      /\ a[Len(s) + 1] = header
  BY AppendIndex
<1>2. /\ t \in Seq(Items) /\ Len(d) \in Nat /\ Len(t) = Len(a) + Len(d)
      /\ \A i \in 1 .. Len(a) : t[i] = a[i]
      /\ \A i \in 1 .. Len(d) : t[Len(a) + i] = DataItem(d[i])
  BY <1>1, Joined
<1> HIDE DEF a, t
<1>3. /\ Len(t) = Len(s) + 1 + Len(d)
      /\ \A i \in 1 .. Len(s) : t[i] = s[i]
      /\ t[Len(s) + 1] = header
      /\ \A i \in 1 .. Len(d) : t[Len(s) + 1 + i] = DataItem(d[i])
  <2>1. Len(a) = Len(s) + 1 /\ Len(t) = Len(s) + 1 + Len(d)
    BY <1>1, <1>2
  <2>2. \A i \in 1 .. Len(d) : t[Len(s) + 1 + i] = DataItem(d[i])
    BY <1>2, <2>1
  <2>3. \A i \in 1 .. Len(s) : t[i] = s[i]
    BY <1>1, <1>2, <2>1
  <2>4. Len(s) + 1 \in 1 .. Len(a)
    BY <1>1
  <2>5. t[Len(s) + 1] = a[Len(s) + 1]
    BY <1>2, <2>4
  <2> QED BY <1>1, <2>1, <2>2, <2>3, <2>5
<1>4. /\ Len(want) \in Nat /\ Len(want) <= Len(s)
      /\ \A item \in Items : Len(body[item]) \in Nat
      /\ \A j \in 1 .. Len(s) : s[j] \in Items
  BY LenProperties, ElementOfSeq DEF Whole
<1>5. \A i \in 1 .. Len(d) : ~IsHeader(DataItem(d[i]))
  BY DEF IsHeader, DataItem
<1>6. ASSUME NEW j \in 1 .. Len(t), IsHeader(t[j]), j # Len(s) + 1
      PROVE  j \in 1 .. Len(s) /\ t[j] = s[j]
  <2>1. CASE j <= Len(s)
    <3>1. j \in 1 .. Len(s)
      BY <2>1, <1>1
    <3> QED BY <3>1, <1>3
  <2>2. CASE j > Len(s) + 1
    <3> DEFINE k == j - Len(s) - 1
    <3>1. k \in 1 .. Len(d) /\ j = Len(s) + 1 + k
      BY <2>2, <1>1, <1>2, <1>3
    <3>2. t[j] = DataItem(d[k])
      BY <3>1, <1>3
    <3> QED BY <3>1, <3>2, <1>5, <1>6
  <2> QED BY <2>1, <2>2, <1>1, <1>3, <1>6
<1>7. Following(t, want, body)
  <2>1. ASSUME NEW i \in 1 .. Len(want), i <= Len(t)
        PROVE  t[i] = DataItem(want[i])
    <3>1. i \in 1 .. Len(s)
      BY <1>1, <1>4
    <3>2. s[i] = DataItem(want[i])
      BY <3>1, <1>1 DEF Following
    <3> QED BY <3>1, <3>2, <1>3
  <2>2. ASSUME NEW j \in 1 .. Len(t), IsHeader(t[j]), NEW i \in 1 .. Len(body[t[j]]), j + i <= Len(t)
        PROVE  t[j + i] = DataItem(body[t[j]][i])
    <3>1. CASE j = Len(s) + 1
      <4>1. t[j] = header /\ i \in 1 .. Len(d) /\ j + i = Len(s) + 1 + i
        BY <3>1, <2>2, <1>1, <1>2, <1>3, <1>4
      <4>2. t[j + i] = DataItem(d[i])
        BY <4>1, <1>3
      <4>3. d[i] = body[header][i]
        BY <4>1
      <4> QED BY <4>1, <4>2, <4>3
    <3>2. CASE j # Len(s) + 1
      <4>1. j \in 1 .. Len(s) /\ t[j] = s[j] /\ s[j] \in Items
        BY <3>2, <2>2, <1>6, <1>4
      <4>2. Len(body[s[j]]) \in Nat /\ j + Len(body[s[j]]) <= Len(s)
        BY <4>1, <2>2, <1>4 DEF Whole
      <4>3. i \in 1 .. Len(body[s[j]]) /\ j + i \in 1 .. Len(s)
        <5>1. PICK x \in Nat : x = Len(body[s[j]])
          BY <4>2
        <5>2. i \in 1 .. x /\ j + x <= Len(s) /\ j \in Nat /\ Len(s) \in Nat
          BY <4>1, <4>2, <2>2, <1>1, <5>1
        <5>3. j + i \in 1 .. Len(s)
          BY <5>2
        <5> QED BY <5>1, <5>2, <5>3
      <4>4. s[j + i] = DataItem(body[s[j]][i])
        BY <4>1, <4>3, <2>2 DEF Following
      <4> QED BY <4>1, <4>3, <4>4, <1>3
    <3> QED BY <3>1, <3>2
  <2> QED BY <2>1, <2>2 DEF Following
<1>8. Whole(t, want, body)
  <2>1. ASSUME NEW j \in 1 .. Len(t), IsHeader(t[j])
        PROVE  j + Len(body[t[j]]) <= Len(t)
    <3>1. CASE j = Len(s) + 1
      <4>1. t[j] = header /\ Len(body[header]) \in Nat
        BY <3>1, <1>3, <1>4
      <4> QED BY <3>1, <4>1, <1>1, <1>2, <1>3
    <3>2. CASE j # Len(s) + 1
      <4>1. j \in 1 .. Len(s) /\ t[j] = s[j] /\ s[j] \in Items
        BY <3>2, <2>1, <1>6, <1>4
      <4>2. Len(body[s[j]]) \in Nat /\ j + Len(body[s[j]]) <= Len(s)
        BY <4>1, <2>1, <1>4 DEF Whole
      <4>3. body[t[j]] = body[s[j]]
        BY <4>1
      <4>4. Len(s) <= Len(t) /\ Len(s) \in Nat /\ Len(t) \in Nat /\ j \in Nat
        BY <1>1, <1>2, <1>3
      <4>5. j + Len(body[s[j]]) <= Len(t)
        BY <4>2, <4>4
      <4> QED BY <4>3, <4>5
    <3> QED BY <3>1, <3>2
  <2> QED BY <2>1, <1>1, <1>2, <1>3, <1>4 DEF Whole
<1>9. ASSUME HeadersNext(s, want, body), Len(d) = Len(body[header])
      PROVE  HeadersNext(t, want, body)
  <2>1. IsHeader(t[Len(want) + 1])
    <3>1. CASE Len(want) = Len(s)
      BY <3>1, <1>3
    <3>2. CASE Len(want) < Len(s)
      <4>1. IsHeader(s[Len(want) + 1])
        BY <3>2, <1>9 DEF HeadersNext
      <4>2. Len(want) + 1 \in 1 .. Len(s)
        BY <3>2, <1>1, <1>4
      <4> QED BY <4>1, <4>2, <1>3
    <3> QED BY <3>1, <3>2, <1>1, <1>4
  <2>2. ASSUME NEW j \in 1 .. Len(t), IsHeader(t[j]), j + Len(body[t[j]]) < Len(t)
        PROVE  IsHeader(t[j + Len(body[t[j]]) + 1])
    <3>1. j # Len(s) + 1
      BY <2>2, <1>1, <1>2, <1>3, <1>9
    <3>2. j \in 1 .. Len(s) /\ t[j] = s[j] /\ s[j] \in Items
      BY <3>1, <2>2, <1>6, <1>4
    <3>3. Len(body[s[j]]) \in Nat /\ j + Len(body[s[j]]) <= Len(s)
      BY <3>2, <2>2, <1>4 DEF Whole
    <3>4. CASE j + Len(body[s[j]]) = Len(s)
      <4>1. t[j + Len(body[t[j]]) + 1] = header
        BY <3>2, <3>4, <1>3
      <4> QED BY <4>1
    <3>5. CASE j + Len(body[s[j]]) < Len(s)
      <4>1. IsHeader(s[j + Len(body[s[j]]) + 1])
        BY <3>2, <3>5, <2>2, <1>9 DEF HeadersNext
      <4>2. j + Len(body[s[j]]) + 1 \in 1 .. Len(s)
        <5>1. PICK x \in Nat : x = Len(body[s[j]])
          BY <3>3
        <5>2. j \in 1 .. Len(s) /\ Len(s) \in Nat /\ j + x < Len(s)
          BY <3>2, <3>5, <5>1, <1>1
        <5>3. j + x + 1 \in 1 .. Len(s)
          BY <5>2
        <5> QED BY <5>1, <5>3
      <4> QED BY <3>2, <4>1, <4>2, <1>3
    <3>6. j + Len(body[s[j]]) = Len(s) \/ j + Len(body[s[j]]) < Len(s)
      <4>1. PICK x \in Int : x = j + Len(body[s[j]])
        BY <3>2, <3>3
      <4>2. x <= Len(s) /\ Len(s) \in Nat
        BY <3>3, <4>1, <1>1
      <4>3. x = Len(s) \/ x < Len(s)
        BY <4>2
      <4> QED BY <4>1, <4>3
    <3> QED BY <3>4, <3>5, <3>6
  <2> QED BY <2>1, <2>2 DEF HeadersNext
<1> QED BY <1>7, <1>8, <1>9 DEF t, a

(* The reader that wants no data takes a header; it then wants its body.   *)
LEMMA HeaderTaken ==
  ASSUME NEW s \in Seq(Items), s # << >>, IsHeader(Head(s)),
         NEW want \in Seq(Values), NEW body \in [Items -> Seq(Values)],
         Following(s, want, body)
  PROVE  /\ want = << >>
         /\ Following(Tail(s), body[Head(s)], body)
         /\ Whole(s, want, body) => Whole(Tail(s), body[Head(s)], body)
         /\ HeadersNext(s, want, body) => HeadersNext(Tail(s), body[Head(s)], body)
<1> DEFINE t == Tail(s)
           b == body[Head(s)]
<1>1. /\ t \in Seq(Items) /\ Len(s) \in Nat /\ Len(s) > 0
      /\ Len(t) = Len(s) - 1
      /\ \A i \in 1 .. Len(s) - 1 : t[i] = s[i + 1]
      /\ Head(s) = s[1] /\ Head(s) \in Items
  BY TailIndex
<1>2. b \in Seq(Values) /\ Len(b) \in Nat
  BY <1>1, LenProperties
<1> HIDE DEF t
<1>3. want = << >>
  <2>1. SUFFICES ASSUME want # << >> PROVE FALSE
    OBVIOUS
  <2>2. Len(want) \in Nat \ {0}
    BY <2>1, EmptySeq
  <2>3. s[1] = DataItem(want[1])
    BY <2>2, <1>1 DEF Following
  <2> QED BY <2>3, <1>1 DEF IsHeader, DataItem
<1>4. ASSUME NEW j \in 1 .. Len(t)
      PROVE  /\ j + 1 \in 1 .. Len(s) /\ t[j] = s[j + 1]
             /\ Len(body[s[j + 1]]) \in Nat
  <2>1. j + 1 \in 1 .. Len(s) /\ t[j] = s[j + 1]
    BY <1>1
  <2>2. s[j + 1] \in Items
    BY <2>1, ElementOfSeq
  <2> QED BY <2>1, <2>2, LenProperties
<1>5. 1 \in 1 .. Len(s) /\ b = body[s[1]] /\ IsHeader(s[1])
  BY <1>1
<1>6. Following(t, b, body)
  <2>1. ASSUME NEW i \in 1 .. Len(b), i <= Len(t)
        PROVE  t[i] = DataItem(b[i])
    <3>1. i \in 1 .. Len(body[s[1]]) /\ 1 + i <= Len(s) /\ i \in 1 .. Len(s) - 1
      BY <2>1, <1>1, <1>2, <1>5
    <3>2. s[1 + i] = DataItem(body[s[1]][i])
      BY <3>1, <1>5 DEF Following
    <3>3. 1 + i = i + 1
      BY <1>2
    <3> QED BY <3>1, <3>2, <3>3, <1>1, <1>5
  <2>2. ASSUME NEW j \in 1 .. Len(t), IsHeader(t[j]), NEW i \in 1 .. Len(body[t[j]]), j + i <= Len(t)
        PROVE  t[j + i] = DataItem(body[t[j]][i])
    <3>1. /\ j + 1 \in 1 .. Len(s) /\ t[j] = s[j + 1] /\ Len(body[s[j + 1]]) \in Nat
      BY <1>4
    <3>2. i \in 1 .. Len(body[s[j + 1]]) /\ (j + 1) + i <= Len(s) /\ j + i \in 1 .. Len(s) - 1
      BY <3>1, <2>2, <1>1
    <3>3. s[(j + 1) + i] = DataItem(body[s[j + 1]][i])
      BY <3>1, <3>2, <2>2 DEF Following
    <3>4. t[j + i] = s[(j + i) + 1] /\ (j + i) + 1 = (j + 1) + i
      BY <3>1, <3>2, <1>1
    <3> QED BY <3>1, <3>3, <3>4
  <2> QED BY <2>1, <2>2 DEF Following
<1>7. ASSUME Whole(s, want, body)
      PROVE  Whole(t, b, body)
  <2>1. Len(b) <= Len(t)
    <3>1. 1 + Len(body[s[1]]) <= Len(s)
      BY <1>5, <1>7 DEF Whole
    <3> QED BY <3>1, <1>1, <1>2, <1>5
  <2>2. ASSUME NEW j \in 1 .. Len(t), IsHeader(t[j])
        PROVE  j + Len(body[t[j]]) <= Len(t)
    <3>1. /\ j + 1 \in 1 .. Len(s) /\ t[j] = s[j + 1] /\ Len(body[s[j + 1]]) \in Nat
      BY <1>4
    <3>2. (j + 1) + Len(body[s[j + 1]]) <= Len(s)
      BY <3>1, <2>2, <1>7 DEF Whole
    <3> DEFINE n == Len(body[s[j + 1]])
    <3>3. Len(t) = Len(s) - 1 /\ Len(s) \in Nat /\ j \in Nat
      BY <1>1
    <3>4. n \in Nat /\ (j + 1) + n <= Len(s)
      BY <3>1, <3>2
    <3> HIDE DEF n
    <3>5. j + n <= Len(t)
      BY <3>3, <3>4
    <3> QED BY <3>1, <3>5 DEF n
  <2> QED BY <2>1, <2>2 DEF Whole
<1>8. ASSUME HeadersNext(s, want, body)
      PROVE  HeadersNext(t, b, body)
  <2>1. ASSUME Len(b) < Len(t)
        PROVE  IsHeader(t[Len(b) + 1])
    <3>1. 1 + Len(body[s[1]]) < Len(s) /\ Len(b) + 1 \in 1 .. Len(t)
      BY <2>1, <1>1, <1>2, <1>5
    <3>2. IsHeader(s[1 + Len(body[s[1]]) + 1])
      BY <3>1, <1>5, <1>8 DEF HeadersNext
    <3>3. t[Len(b) + 1] = s[(Len(b) + 1) + 1] /\ (Len(b) + 1) + 1 = 1 + Len(b) + 1
      BY <3>1, <1>2, <1>4
    <3> QED BY <3>2, <3>3, <1>5
  <2>2. ASSUME NEW j \in 1 .. Len(t), IsHeader(t[j]), j + Len(body[t[j]]) < Len(t)
        PROVE  IsHeader(t[j + Len(body[t[j]]) + 1])
    <3> DEFINE n == Len(body[s[j + 1]])
    <3>1. j + 1 \in 1 .. Len(s) /\ t[j] = s[j + 1] /\ n \in Nat
      BY <1>4
    <3>2. (j + 1) + n < Len(s) /\ Len(body[t[j]]) = n /\ j + n + 1 \in 1 .. Len(t)
      <4>1. Len(body[t[j]]) = n
        BY <3>1
      <4>2. j + n < Len(t)
        BY <4>1, <2>2
      <4>3. Len(t) = Len(s) - 1 /\ Len(s) \in Nat /\ j \in Nat /\ j > 0
        BY <1>1
      <4>4. n \in Nat
        BY <3>1
      <4> HIDE DEF n
      <4>5. (j + 1) + n < Len(s)
        BY <4>2, <4>3, <4>4
      <4>6. j + n + 1 \in 1 .. Len(t)
        BY <4>2, <4>3, <4>4
      <4> QED BY <4>1, <4>5, <4>6
    <3>3. IsHeader(s[(j + 1) + n + 1])
      BY <3>1, <3>2, <2>2, <1>8 DEF HeadersNext
    <3> HIDE DEF n
    <3>4. t[j + n + 1] = s[(j + n + 1) + 1] /\ (j + n + 1) + 1 = (j + 1) + n + 1
      BY <3>1, <3>2, <1>4
    <3> QED BY <3>2, <3>3, <3>4
  <2> QED BY <2>1, <2>2 DEF HeadersNext
<1> QED BY <1>3, <1>6, <1>7, <1>8 DEF t

(* The reader takes a block of the data it wants. *)
LEMMA BlockTaken ==
  ASSUME NEW s \in Seq(Items), s # << >>,
         NEW want \in Seq(Values), want # << >>, NEW body \in [Items -> Seq(Values)],
         Following(s, want, body)
  PROVE  /\ Head(s) = DataItem(Head(want))
         /\ Following(Tail(s), Tail(want), body)
         /\ Whole(s, want, body) => Whole(Tail(s), Tail(want), body)
         /\ HeadersNext(s, want, body) => HeadersNext(Tail(s), Tail(want), body)
<1> DEFINE t == Tail(s)
           w == Tail(want)
<1>1. /\ t \in Seq(Items) /\ Len(s) \in Nat /\ Len(s) > 0
      /\ Len(t) = Len(s) - 1
      /\ \A i \in 1 .. Len(s) - 1 : t[i] = s[i + 1]
      /\ Head(s) = s[1]
  BY TailIndex
<1>2. /\ w \in Seq(Values) /\ Len(want) \in Nat /\ Len(want) > 0
      /\ Len(w) = Len(want) - 1
      /\ \A i \in 1 .. Len(want) - 1 : w[i] = want[i + 1]
      /\ Head(want) = want[1]
  BY TailIndex
<1> HIDE DEF t, w
<1>3. s[1] = DataItem(want[1])
  <2>1. 1 \in 1 .. Len(want) /\ 1 <= Len(s)
    BY <1>1, <1>2
  <2> QED BY <2>1 DEF Following
<1>4. ASSUME NEW j \in 1 .. Len(t)
      PROVE  /\ j + 1 \in 1 .. Len(s) /\ t[j] = s[j + 1]
             /\ Len(body[s[j + 1]]) \in Nat
  <2>1. j + 1 \in 1 .. Len(s) /\ t[j] = s[j + 1]
    BY <1>1
  <2>2. s[j + 1] \in Items
    BY <2>1, ElementOfSeq
  <2> QED BY <2>1, <2>2, LenProperties
<1>6. Following(t, w, body)
  <2>1. ASSUME NEW i \in 1 .. Len(w), i <= Len(t)
        PROVE  t[i] = DataItem(w[i])
    <3>1. i + 1 \in 1 .. Len(want) /\ i + 1 <= Len(s) /\ i \in 1 .. Len(s) - 1 /\ i \in 1 .. Len(want) - 1
      BY <2>1, <1>1, <1>2
    <3>2. s[i + 1] = DataItem(want[i + 1])
      BY <3>1 DEF Following
    <3> QED BY <3>1, <3>2, <1>1, <1>2
  <2>2. ASSUME NEW j \in 1 .. Len(t), IsHeader(t[j]), NEW i \in 1 .. Len(body[t[j]]), j + i <= Len(t)
        PROVE  t[j + i] = DataItem(body[t[j]][i])
    <3>1. /\ j + 1 \in 1 .. Len(s) /\ t[j] = s[j + 1] /\ Len(body[s[j + 1]]) \in Nat
      BY <1>4
    <3>2. i \in 1 .. Len(body[s[j + 1]]) /\ (j + 1) + i <= Len(s) /\ j + i \in 1 .. Len(s) - 1
      BY <3>1, <2>2, <1>1
    <3>3. s[(j + 1) + i] = DataItem(body[s[j + 1]][i])
      BY <3>1, <3>2, <2>2 DEF Following
    <3>4. t[j + i] = s[(j + i) + 1] /\ (j + i) + 1 = (j + 1) + i
      BY <3>1, <3>2, <1>1
    <3> QED BY <3>1, <3>3, <3>4
  <2> QED BY <2>1, <2>2 DEF Following
<1>7. ASSUME Whole(s, want, body)
      PROVE  Whole(t, w, body)
  <2>1. Len(w) <= Len(t)
    BY <1>1, <1>2, <1>7 DEF Whole
  <2>2. ASSUME NEW j \in 1 .. Len(t), IsHeader(t[j])
        PROVE  j + Len(body[t[j]]) <= Len(t)
    <3>1. /\ j + 1 \in 1 .. Len(s) /\ t[j] = s[j + 1] /\ Len(body[s[j + 1]]) \in Nat
      BY <1>4
    <3>2. (j + 1) + Len(body[s[j + 1]]) <= Len(s)
      BY <3>1, <2>2, <1>7 DEF Whole
    <3> DEFINE n == Len(body[s[j + 1]])
    <3>3. Len(t) = Len(s) - 1 /\ Len(s) \in Nat /\ j \in Nat
      BY <1>1
    <3>4. n \in Nat /\ (j + 1) + n <= Len(s)
      BY <3>1, <3>2
    <3> HIDE DEF n
    <3>5. j + n <= Len(t)
      BY <3>3, <3>4
    <3> QED BY <3>1, <3>5 DEF n
  <2> QED BY <2>1, <2>2 DEF Whole
<1>8. ASSUME HeadersNext(s, want, body)
      PROVE  HeadersNext(t, w, body)
  <2>1. ASSUME Len(w) < Len(t)
        PROVE  IsHeader(t[Len(w) + 1])
    <3>1. Len(want) < Len(s) /\ Len(w) + 1 \in 1 .. Len(t)
      <4>1. PICK m \in Nat, n \in Nat : /\ m = Len(want) /\ n = Len(s) /\ m > 0 /\ n > 0
                                        /\ Len(w) = m - 1 /\ Len(t) = n - 1
        BY <1>1, <1>2
      <4>2. m < n /\ (m - 1) + 1 \in 1 .. n - 1
        BY <2>1, <4>1
      <4> QED BY <4>1, <4>2
    <3>2. IsHeader(s[Len(want) + 1])
      BY <3>1, <1>8 DEF HeadersNext
    <3>3. t[Len(w) + 1] = s[(Len(w) + 1) + 1] /\ (Len(w) + 1) + 1 = Len(want) + 1
      BY <3>1, <1>2, <1>4
    <3> QED BY <3>2, <3>3
  <2>2. ASSUME NEW j \in 1 .. Len(t), IsHeader(t[j]), j + Len(body[t[j]]) < Len(t)
        PROVE  IsHeader(t[j + Len(body[t[j]]) + 1])
    <3> DEFINE n == Len(body[s[j + 1]])
    <3>1. j + 1 \in 1 .. Len(s) /\ t[j] = s[j + 1] /\ n \in Nat
      BY <1>4
    <3>2. (j + 1) + n < Len(s) /\ Len(body[t[j]]) = n /\ j + n + 1 \in 1 .. Len(t)
      <4>1. Len(body[t[j]]) = n
        BY <3>1
      <4>2. j + n < Len(t)
        BY <4>1, <2>2
      <4>3. Len(t) = Len(s) - 1 /\ Len(s) \in Nat /\ j \in Nat /\ j > 0
        BY <1>1
      <4>4. n \in Nat
        BY <3>1
      <4> HIDE DEF n
      <4>5. (j + 1) + n < Len(s)
        BY <4>2, <4>3, <4>4
      <4>6. j + n + 1 \in 1 .. Len(t)
        BY <4>2, <4>3, <4>4
      <4> QED BY <4>1, <4>5, <4>6
    <3>3. IsHeader(s[(j + 1) + n + 1])
      BY <3>1, <3>2, <2>2, <1>8 DEF HeadersNext
    <3> HIDE DEF n
    <3>4. t[j + n + 1] = s[(j + n + 1) + 1] /\ (j + n + 1) + 1 = (j + 1) + n + 1
      BY <3>1, <3>2, <1>4
    <3> QED BY <3>2, <3>3, <3>4
  <2> QED BY <2>1, <2>2 DEF HeadersNext
<1> QED BY <1>1, <1>2, <1>3, <1>6, <1>7, <1>8 DEF t, w

(* The writer goes away with the data it has in hand. *)
LEMMA CutShort ==
  ASSUME NEW s \in Seq(Items), NEW d \in Seq(Values),
         NEW want \in Seq(Values), NEW body \in [Items -> Seq(Values)],
         Following(s \o DataItems(d), want, body), HeadersNext(s \o DataItems(d), want, body)
  PROVE  Following(s, want, body) /\ HeadersNext(s, want, body)
<1> DEFINE t == s \o DataItems(d)
<1>1. /\ Len(s) \in Nat /\ Len(d) \in Nat /\ Len(t) = Len(s) + Len(d)
      /\ \A i \in 1 .. Len(s) : t[i] = s[i]
  BY Joined
<1>2. Following(t, want, body) /\ HeadersNext(t, want, body)
  OBVIOUS
<1> HIDE DEF t
<1>3. ASSUME NEW j \in 1 .. Len(s)
      PROVE  j \in 1 .. Len(t) /\ t[j] = s[j] /\ s[j] \in Items /\ Len(body[s[j]]) \in Nat
  <2>1. s[j] \in Items
    BY ElementOfSeq
  <2>2. Len(body[s[j]]) \in Nat
    BY <2>1, LenProperties
  <2> QED BY <2>1, <2>2, <1>1
<1>4. Len(want) \in Nat
  BY LenProperties
<1>5. Following(s, want, body)
  <2>1. ASSUME NEW i \in 1 .. Len(want), i <= Len(s)
        PROVE  s[i] = DataItem(want[i])
    <3>1. i <= Len(t) /\ t[i] = s[i]
      BY <2>1, <1>1
    <3> QED BY <3>1, <1>2 DEF Following
  <2>2. ASSUME NEW j \in 1 .. Len(s), IsHeader(s[j]), NEW i \in 1 .. Len(body[s[j]]), j + i <= Len(s)
        PROVE  s[j + i] = DataItem(body[s[j]][i])
    <3>1. j \in 1 .. Len(t) /\ t[j] = s[j] /\ s[j] \in Items /\ Len(body[s[j]]) \in Nat
      BY <1>3
    <3>2. j + i \in 1 .. Len(s) /\ j + i <= Len(t)
      BY <3>1, <2>2, <1>1
    <3>3. t[j + i] = DataItem(body[t[j]][i])
      BY <3>1, <3>2, <2>2, <1>2 DEF Following
    <3> QED BY <3>1, <3>2, <3>3, <1>1
  <2> QED BY <2>1, <2>2 DEF Following
<1>6. HeadersNext(s, want, body)
  <2>1. ASSUME Len(want) < Len(s)
        PROVE  IsHeader(s[Len(want) + 1])
    <3>1. Len(want) < Len(t) /\ Len(want) + 1 \in 1 .. Len(s)
      BY <2>1, <1>1, <1>4
    <3>2. t[Len(want) + 1] = s[Len(want) + 1]
      BY <3>1, <1>1
    <3>3. IsHeader(t[Len(want) + 1])
      BY <3>1, <1>2 DEF HeadersNext
    <3> QED BY <3>2, <3>3
  <2>2. ASSUME NEW j \in 1 .. Len(s), IsHeader(s[j]), j + Len(body[s[j]]) < Len(s)
        PROVE  IsHeader(s[j + Len(body[s[j]]) + 1])
    <3> DEFINE n == Len(body[s[j]])
    <3>1. j \in 1 .. Len(t) /\ t[j] = s[j] /\ n \in Nat
      BY <1>3
    <3>2. j + n < Len(s)
      BY <2>2
    <3>3. Len(body[t[j]]) = n
      BY <3>1
    <3>4. j + n < Len(t) => IsHeader(t[j + n + 1])
      BY <3>1, <3>3, <2>2, <1>2 DEF HeadersNext
    <3> HIDE DEF n
    <3>5. j + n < Len(t) /\ j + n + 1 \in 1 .. Len(s)
      BY <3>1, <3>2, <1>1
    <3>6. t[j + n + 1] = s[j + n + 1]
      BY <3>5, <1>1
    <3> QED BY <3>4, <3>5, <3>6 DEF n
  <2> QED BY <2>1, <2>2 DEF HeadersNext
<1> QED BY <1>5, <1>6

(* A reader that wants no data takes an item, whatever it is, and wants     *)
(* none of its body.                                                       *)
LEMMA BodyIgnored ==
  ASSUME NEW s \in Seq(Items), s # << >>,
         NEW want \in Seq(Values), NEW body \in [Items -> Seq(Values)],
         Following(s, want, body), Whole(s, want, body)
  PROVE  Following(Tail(s), << >>, body) /\ Whole(Tail(s), << >>, body)
<1> DEFINE t == Tail(s)
<1>1. /\ Len(s) \in Nat /\ Len(s) > 0
      /\ Len(t) = Len(s) - 1
      /\ \A i \in 1 .. Len(s) - 1 : t[i] = s[i + 1]
  BY TailIndex
<1> HIDE DEF t
<1>2. Len(<< >>) = 0
  BY EmptySeq
<1>3. ASSUME NEW j \in 1 .. Len(t)
      PROVE  /\ j + 1 \in 1 .. Len(s) /\ t[j] = s[j + 1]
             /\ Len(body[s[j + 1]]) \in Nat
  <2>1. j + 1 \in 1 .. Len(s) /\ t[j] = s[j + 1]
    BY <1>1
  <2>2. s[j + 1] \in Items
    BY <2>1, ElementOfSeq
  <2> QED BY <2>1, <2>2, LenProperties
<1>4. ASSUME NEW j \in 1 .. Len(t), IsHeader(t[j])
      PROVE  /\ j + Len(body[t[j]]) <= Len(t)
             /\ \A i \in 1 .. Len(body[t[j]]) : t[j + i] = DataItem(body[t[j]][i])
  <2> DEFINE n == Len(body[s[j + 1]])
  <2>1. Len(t) = Len(s) - 1 /\ Len(s) \in Nat /\ j \in Nat
    BY <1>1
  <2>2. n \in Nat /\ j + 1 \in 1 .. Len(s) /\ t[j] = s[j + 1]
    BY <1>3
  <2>3. (j + 1) + n <= Len(s)
    BY <2>2, <1>4 DEF Whole
  <2>4. \A i \in 1 .. n : (j + 1) + i <= Len(s) => s[(j + 1) + i] = DataItem(body[s[j + 1]][i])
    BY <2>2, <1>4 DEF Following
  <2>5. Len(body[t[j]]) = n
    BY <2>2
  <2> HIDE DEF n
  <2>6. j + n <= Len(t)
    BY <2>1, <2>2, <2>3
  <2>7. ASSUME NEW i \in 1 .. n
        PROVE  t[j + i] = DataItem(body[t[j]][i])
    <3>1. (j + 1) + i <= Len(s) /\ j + i \in 1 .. Len(s) - 1 /\ (j + i) + 1 = (j + 1) + i
      BY <2>1, <2>2, <2>3
    <3>2. s[(j + 1) + i] = DataItem(body[s[j + 1]][i])
      BY <2>4, <3>1
    <3>3. t[j + i] = s[(j + i) + 1]
      BY <3>1, <1>1
    <3> QED BY <2>2, <3>1, <3>2, <3>3
  <2> QED BY <2>5, <2>6, <2>7
<1>5. Following(t, << >>, body)
  <2>1. 1 .. Len(<< >>) = {}
    BY <1>2
  <2> QED BY <2>1, <1>4 DEF Following
<1>6. Whole(t, << >>, body)
  BY <1>1, <1>2, <1>4 DEF Whole
<1> QED BY <1>5, <1>6 DEF t

(* Only the bodies of the headers in a stream matter to it. *)
LEMMA SameBodies ==
  ASSUME NEW s \in Seq(Items), NEW want, NEW body, NEW other,
         \A j \in 1 .. Len(s) : IsHeader(s[j]) => other[s[j]] = body[s[j]]
  PROVE  /\ Following(s, want, body) => Following(s, want, other)
         /\ Whole(s, want, body) => Whole(s, want, other)
         /\ HeadersNext(s, want, body) => HeadersNext(s, want, other)
BY DEF Following, Whole, HeadersNext

(* The same of what an item of a stream and its data in hand is. *)
LEMMA HeadersInSocket ==
  ASSUME NEW s \in Seq(Items), NEW d \in Seq(Values),
         NEW j \in 1 .. Len(s \o DataItems(d)), IsHeader((s \o DataItems(d))[j])
  PROVE  j \in 1 .. Len(s) /\ (s \o DataItems(d))[j] = s[j]
<1> DEFINE t == s \o DataItems(d)
<1>1. /\ Len(s) \in Nat /\ Len(d) \in Nat /\ Len(t) = Len(s) + Len(d)
      /\ \A i \in 1 .. Len(s) : t[i] = s[i]
      /\ \A i \in 1 .. Len(d) : t[Len(s) + i] = DataItem(d[i])
  BY Joined
<1>2. j \in 1 .. Len(t) /\ IsHeader(t[j])
  OBVIOUS
<1> HIDE DEF t
<1>3. CASE j > Len(s)
  <2>1. j - Len(s) \in 1 .. Len(d) /\ Len(s) + (j - Len(s)) = j
    BY <1>1, <1>2, <1>3
  <2>2. t[j] = DataItem(d[j - Len(s)])
    BY <2>1, <1>1
  <2> QED BY <2>2, <1>2 DEF IsHeader, DataItem
<1>4. CASE j <= Len(s)
  BY <1>1, <1>2, <1>4 DEF t
<1> QED BY <1>1, <1>2, <1>3, <1>4

(* What is left of data, by index. *)
LEMMA RestIndex ==
  ASSUME NEW d \in Seq(Values), NEW n \in Nat, n <= Len(d)
  PROVE  /\ Rest(d, n) \in Seq(Values)
         /\ Len(d) \in Nat
         /\ Len(Rest(d, n)) = Len(d) - n
         /\ \A i \in 1 .. Len(d) - n : Rest(d, n)[i] = d[n + i]
         /\ Rest(d, 0) = d
         /\ n < Len(d) => Rest(d, n) # << >> /\ Head(Rest(d, n)) = d[n + 1] /\ Tail(Rest(d, n)) = Rest(d, n + 1)
         /\ n = Len(d) => Rest(d, n) = << >>
<1>1. Len(d) \in Nat
  BY LenProperties
<1>2. ASSUME NEW m \in Nat, m <= Len(d)
      PROVE  /\ Rest(d, m) \in Seq(Values)
             /\ Len(Rest(d, m)) = Len(d) - m
             /\ \A i \in 1 .. Len(d) - m : Rest(d, m)[i] = d[m + i]
  <2>1. \A i \in m + 1 .. Len(d) : d[i] \in Values
    BY <1>1, ElementOfSeq
  <2>2. /\ SubSeq(d, m + 1, Len(d)) \in Seq(Values)
        /\ Len(SubSeq(d, m + 1, Len(d))) = IF m + 1 <= Len(d) THEN Len(d) - (m + 1) + 1 ELSE 0
        /\ \A i \in 1 .. Len(d) - (m + 1) + 1 : SubSeq(d, m + 1, Len(d))[i] = d[(m + 1) + i - 1]
    BY <1>1, <2>1, SubSeqProperties
  <2>3. Len(d) - (m + 1) + 1 = Len(d) - m
    BY <1>1
  <2>4. Len(Rest(d, m)) = Len(d) - m
    BY <1>1, <1>2, <2>2 DEF Rest
  <2>5. ASSUME NEW i \in 1 .. Len(d) - m
        PROVE  Rest(d, m)[i] = d[m + i]
    <3>1. (m + 1) + i - 1 = m + i /\ i \in 1 .. Len(d) - (m + 1) + 1
      BY <1>1
    <3> QED BY <2>2, <3>1 DEF Rest
  <2> QED BY <2>2, <2>4, <2>5 DEF Rest
<1>3. Rest(d, 0) = d
  BY <1>1, <1>2, SeqEqual
<1>4. ASSUME n < Len(d)
      PROVE  Rest(d, n) # << >> /\ Head(Rest(d, n)) = d[n + 1] /\ Tail(Rest(d, n)) = Rest(d, n + 1)
  <2> DEFINE r == Rest(d, n)
             q == Rest(d, n + 1)
  <2>1. r \in Seq(Values) /\ Len(r) = Len(d) - n /\ \A i \in 1 .. Len(d) - n : r[i] = d[n + i]
    BY <1>2
  <2>2. q \in Seq(Values) /\ Len(q) = Len(d) - (n + 1) /\ \A i \in 1 .. Len(d) - (n + 1) : q[i] = d[(n + 1) + i]
    <3>1. n + 1 \in Nat /\ n + 1 <= Len(d)
      BY <1>1, <1>4
    <3> QED BY <1>2, <3>1
  <2> HIDE DEF r, q
  <2>3. r # << >>
    BY <1>1, <1>4, <2>1, EmptySeq
  <2>4. /\ Tail(r) \in Seq(Values) /\ Len(Tail(r)) = Len(r) - 1
        /\ \A i \in 1 .. Len(r) - 1 : Tail(r)[i] = r[i + 1]
        /\ Head(r) = r[1]
    BY <2>1, <2>3, TailIndex
  <2>5. ASSUME NEW i \in 1 .. Len(q)
        PROVE  Tail(r)[i] = q[i]
    <3>1. i \in 1 .. Len(r) - 1 /\ i + 1 \in 1 .. Len(d) - n /\ n + (i + 1) = (n + 1) + i
      BY <1>1, <2>1, <2>2
    <3>2. Tail(r)[i] = d[n + (i + 1)]
      BY <3>1, <2>1, <2>4
    <3> QED BY <3>1, <3>2, <2>2
  <2>6. Len(Tail(r)) = Len(q)
    BY <1>1, <2>1, <2>2, <2>4
  <2>7. Tail(r) = q
    BY <2>2, <2>4, <2>5, <2>6, SeqEqual
  <2>8. Head(r) = d[n + 1]
    BY <1>1, <1>4, <2>1, <2>4
  <2> QED BY <2>3, <2>7, <2>8 DEF r, q
<1>5. n = Len(d) => Rest(d, n) = << >>
  BY <1>1, <1>2, EmptySeq
<1> QED BY <1>1, <1>2, <1>3, <1>4, <1>5

-----------------------------------------------------------------------------
(* The invariant *)

(* To the parent: the data of a write is the body of its header.           *)
Downstream == down \o DataItems(sending)
DownWant == IF pc = "payload" THEN Rest(Requests[handle].data, Len(chunk)) ELSE << >>
DownBody == [item \in Items |->
  IF item[1] = "request" /\ item[2] \in Handles THEN Requests[item[2]].data ELSE << >>]

(* To the driver: what a read returned is the body of its reply. *)
Upstream == up \o DataItems(IF pc = "data" THEN chunk ELSE << >>)
UpWant == IF receiving = Nobody THEN << >>
          ELSE Rest(effect[receiving[1]][1], Len(receiving[2]))
UpBody == [item \in Items |->
  IF /\ item[1] = "reply"
     /\ item[3] = 0
     /\ Requests[item[2]].type = "read"
     /\ effect[item[2]] # << >>
  THEN effect[item[2]][1] ELSE << >>]

DownInStep ==
  /\ Following(Downstream, DownWant, DownBody)
  /\ HeadersNext(Downstream, DownWant, DownBody)
  /\ conn # "cleared" => Whole(Downstream, DownWant, DownBody)

(* Without a read operation a reply is followed by data the driver does not *)
(* expect.                                                                 *)
UpInStep ==
  conn # "cleared" =>
    /\ Following(Upstream, UpWant, UpBody)
    /\ Whole(Upstream, UpWant, UpBody)
    /\ HasRead => HeadersNext(Upstream, UpWant, UpBody)

(* What the child and the parent may be at, and what they have not begun.  *)
Phases ==
  /\ pc = "setup" => conn = "none"
  /\ conn = "none" => pc \in {"setup", "exited", "aborted"}
  /\ conn = "setup" => pc \in {"open", "request", "unopened"}
  /\ conn \in {"none", "setup"} =>
       down = << >> /\ up = << >> /\ sending = << >> /\ receiving = Nobody /\ ~disc.sent
  /\ conn = "cleared" => queue = << >> /\ sending = << >> /\ receiving = Nobody
  /\ ~disc.sent => disc.begun = {}

(* Where the parent stands in a request, and what it has of it. *)
Serving ==
  /\ pc = "payload" =>
       /\ Requests[handle].type = "write"
       /\ error = 0
       /\ Len(chunk) < Requests[handle].len
       /\ \A k \in 1 .. Len(chunk) : chunk[k] = Requests[handle].data[k]
  /\ pc = "reply" =>
       /\ error = 0 => effect[handle] # << >>
       /\ Requests[handle].type = "read" =>
            /\ Len(chunk) = Requests[handle].len
            /\ error = 0 => effect[handle][1] = chunk
            /\ HasRead => error = 0
       /\ HasRead /\ HasWrite => error = 0
  /\ pc = "data" => chunk # << >>

(* What was carried out returned what a request of its type returns. *)
Effects ==
  \A h \in Handles :
    /\ effect[h] # << >> =>
         /\ Len(effect[h]) = 1
         /\ Len(effect[h][1]) = IF Requests[h].type = "read" THEN Requests[h].len ELSE 0
    /\ status[h] = "none" => effect[h] = << >>
    /\ Requests[h].type # "read" => answer[h] = << >>

(* The driver gets replies and data; a reply without error comes of a       *)
(* request that was carried out.                                           *)
Answers ==
  /\ \A i \in DOMAIN up : up[i][1] # "request"
  /\ \A i \in DOMAIN up : up[i][1] = "reply" =>
       /\ up[i][3] = 0 => effect[up[i][2]] # << >>
       /\ HasRead /\ HasWrite => up[i][3] = 0
  /\ receiving # Nobody =>
       /\ receiving[1] \in Handles
       /\ Requests[receiving[1]].type = "read"
       /\ effect[receiving[1]] # << >>
       /\ Len(receiving[2]) < Requests[receiving[1]].len
       /\ \A k \in 1 .. Len(receiving[2]) : receiving[2][k] = effect[receiving[1]][1][k]

(* The places where a request may be, before it is carried out and after.  *)
Queued(h) == \E i \in DOMAIN queue : queue[i] = h
Sent(h) == \E i \in DOMAIN down : down[i] = RequestItem(h)
Replied(h) == \E i \in DOMAIN up : up[i][1] = "reply" /\ up[i][2] = h
Before(h) == Queued(h) \/ Sent(h) \/ (pc = "payload" /\ handle = h)
After(h) == (pc = "reply" /\ handle = h) \/ Replied(h) \/ receiving[1] = h

(* A request is at most once in the queue and in each socket ... *)
QueuedOnce == \A i, j \in DOMAIN queue : queue[i] = queue[j] => i = j
SentOnce == \A i, j \in DOMAIN down : down[i] = down[j] /\ down[i][1] = "request" => i = j
RepliedOnce ==
  \A i, j \in DOMAIN up :
    up[i][1] = "reply" /\ up[j][1] = "reply" /\ up[i][2] = up[j][2] => i = j

(* ... and in one of these places at a time. *)
Apart ==
  \A h \in Handles :
    /\ ~ (Queued(h) /\ Sent(h))
    /\ (pc = "payload" /\ handle = h) => ~Queued(h) /\ ~Sent(h)
    /\ (pc = "reply" /\ handle = h) => ~Replied(h) /\ receiving[1] # h
    /\ ~ (Replied(h) /\ receiving[1] = h)
    /\ ~ (Before(h) /\ After(h))

(* Its submitter waits for it, until the child clears the queue. *)
Awaited ==
  \A h \in Handles :
    /\ Before(h) => effect[h] = << >>
    /\ Before(h) \/ After(h) =>
         /\ status[h] # "none"
         /\ conn # "cleared" => status[h] = "waiting"

(* There is one disconnect request. *)
DiscOnce == ~disc.sent => ~Sent(DiscHandle)

(* The driver sends no replies. *)
Asked == \A i \in DOMAIN down : down[i][1] # "reply"

(* The inductive invariant. *)
IInv ==
  /\ TypeOK
  /\ Phases /\ Serving /\ Effects /\ Answers
  /\ QueuedOnce /\ SentOnce /\ RepliedOnce /\ Apart /\ Awaited /\ DiscOnce /\ Asked
  /\ DownInStep /\ UpInStep

-----------------------------------------------------------------------------
(* Requests and places *)

(* What the assumption says of a request. *)
LEMMA RequestType ==
  ASSUME NEW h \in Handles
  PROVE  /\ h \in Nat /\ h > 0
         /\ Requests[h].type \in Types
         /\ Requests[h].from \in Nat /\ Requests[h].len \in Nat
         /\ Requests[h].data \in Seq(Values)
         /\ Requests[h].type = "write" => Len(Requests[h].data) = Requests[h].len
         /\ Requests[h].type # "write" => Requests[h].data = << >>
         /\ Requests[h].type \in {"read", "write"} =>
              /\ Requests[h].len > 0
              /\ Requests[h].from .. Requests[h].from + Requests[h].len - 1 \subseteq Blocks
<1> DEFINE R == [type : Types, from : Nat, len : Nat, data : Seq(Values)]
<1>1. Requests \in Seq(R)
  BY BuseAssumption
<1>2. DOMAIN Requests = 1 .. Len(Requests) /\ Len(Requests) \in Nat
  BY <1>1, LenProperties
<1>3. h \in 1 .. Len(Requests)
  BY <1>2 DEF Handles
<1>4. Requests[h] \in R
  BY <1>1, <1>3, ElementOfSeq
<1>5. /\ Len(Requests[h].data) = IF Requests[h].type = "write" THEN Requests[h].len ELSE 0
      /\ Requests[h].type \in {"read", "write"} =>
           /\ Requests[h].len > 0
           /\ Requests[h].from .. Requests[h].from + Requests[h].len - 1 \subseteq Blocks
  BY BuseAssumption
<1>6. Requests[h].data \in Seq(Values)
  BY <1>4
<1>7. Requests[h].type # "write" => Requests[h].data = << >>
  BY <1>5, <1>6, EmptySeq
<1> QED BY <1>2, <1>3, <1>4, <1>5, <1>7

(* The disconnect request is none of the driver's users'. *)
LEMMA HandlesOnly == DiscHandle \notin Handles /\ \A h \in Handles : h # 0
BY RequestType DEF DiscHandle

(* The driver queues a request. *)
LEMMA QueueAppended ==
  ASSUME queue \in Seq(Handles), NEW h \in Handles, queue' = Append(queue, h)
  PROVE  /\ queue' \in Seq(Handles)
         /\ \A g \in Handles : Queued(g)' <=> Queued(g) \/ g = h
         /\ QueuedOnce /\ ~Queued(h) => QueuedOnce'
<1>1. /\ queue' \in Seq(Handles) /\ Len(queue) \in Nat
      /\ DOMAIN queue = 1 .. Len(queue) /\ DOMAIN queue' = 1 .. Len(queue) + 1
      /\ \A i \in 1 .. Len(queue) : queue'[i] = queue[i]
      /\ queue'[Len(queue) + 1] = h
  BY AppendIndex
<1>2. \A i \in DOMAIN queue' : i \in DOMAIN queue \/ i = Len(queue) + 1
  BY <1>1
<1>3. \A i \in DOMAIN queue : i \in DOMAIN queue' /\ queue'[i] = queue[i]
  BY <1>1
<1>4. Len(queue) + 1 \in DOMAIN queue'
  BY <1>1
<1> QED BY <1>1, <1>2, <1>3, <1>4 DEF Queued, QueuedOnce

(* The driver takes the first request of its queue. *)
LEMMA QueueTaken ==
  ASSUME queue \in Seq(Handles), queue # << >>, queue' = Tail(queue), QueuedOnce
  PROVE  /\ queue' \in Seq(Handles)
         /\ Head(queue) \in Handles /\ Queued(Head(queue))
         /\ \A g \in Handles : Queued(g)' <=> Queued(g) /\ g # Head(queue)
         /\ QueuedOnce'
<1>1. /\ queue' \in Seq(Handles) /\ Len(queue) \in Nat /\ Len(queue) > 0
      /\ DOMAIN queue = 1 .. Len(queue) /\ DOMAIN queue' = 1 .. Len(queue) - 1
      /\ \A i \in 1 .. Len(queue) - 1 : queue'[i] = queue[i + 1]
      /\ Head(queue) = queue[1] /\ Head(queue) \in Handles
  BY TailIndex
<1>2. \A i \in DOMAIN queue' : i + 1 \in DOMAIN queue /\ queue'[i] = queue[i + 1] /\ i + 1 # 1
  BY <1>1
<1>3. \A i \in DOMAIN queue : i # 1 => i - 1 \in DOMAIN queue' /\ queue'[i - 1] = queue[i]
  BY <1>1
<1>4. 1 \in DOMAIN queue
  BY <1>1
<1>5. ASSUME NEW g \in Handles
      PROVE  Queued(g)' <=> Queued(g) /\ g # Head(queue)
  <2>1. Queued(g)' => Queued(g) /\ g # Head(queue)
    BY <1>1, <1>2, <1>4 DEF Queued, QueuedOnce
  <2>2. Queued(g) /\ g # Head(queue) => Queued(g)'
    BY <1>1, <1>3 DEF Queued
  <2> QED BY <2>1, <2>2
<1>6. QueuedOnce'
  <2>1. \A i, j \in DOMAIN queue' : i + 1 = j + 1 => i = j
    BY <1>1
  <2> QED BY <1>2, <2>1 DEF QueuedOnce
<1> QED BY <1>1, <1>4, <1>5, <1>6 DEF Queued

(* The driver puts an item into the socket to the parent. *)
LEMMA DownAppended ==
  ASSUME down \in Seq(Items), NEW x \in Items, down' = Append(down, x)
  PROVE  /\ down' \in Seq(Items)
         /\ \A g \in Handles \cup {DiscHandle} : Sent(g)' <=> Sent(g) \/ x = RequestItem(g)
         /\ SentOnce /\ (x[1] = "request" => ~Sent(x[2])) => SentOnce'
<1>1. /\ down' \in Seq(Items) /\ Len(down) \in Nat
      /\ DOMAIN down = 1 .. Len(down) /\ DOMAIN down' = 1 .. Len(down) + 1
      /\ \A i \in 1 .. Len(down) : down'[i] = down[i]
      /\ down'[Len(down) + 1] = x
  BY AppendIndex
<1>2. \A i \in DOMAIN down' : i \in DOMAIN down \/ i = Len(down) + 1
  BY <1>1
<1>3. \A i \in DOMAIN down : i \in DOMAIN down' /\ down'[i] = down[i]
  BY <1>1
<1>4. Len(down) + 1 \in DOMAIN down'
  BY <1>1
<1>5. \A g \in Handles \cup {DiscHandle} : Sent(g)' <=> Sent(g) \/ x = RequestItem(g)
  BY <1>1, <1>2, <1>3, <1>4 DEF Sent
<1>6. ASSUME SentOnce, x[1] = "request" => ~Sent(x[2])
      PROVE  SentOnce'
  <2>1. x[1] = "request" => \A i \in DOMAIN down : down[i] # x
    BY <1>6, Kinds DEF Sent
  <2> QED BY <1>1, <1>2, <1>3, <1>6, <2>1 DEF SentOnce
<1> QED BY <1>1, <1>5, <1>6

(* The parent takes the first item of its socket. *)
LEMMA DownTaken ==
  ASSUME down \in Seq(Items), down # << >>, down' = Tail(down), SentOnce
  PROVE  /\ down' \in Seq(Items)
         /\ Head(down) \in Items
         /\ \A g \in Handles \cup {DiscHandle} :
              /\ Head(down) = RequestItem(g) => Sent(g)
              /\ Sent(g)' <=> Sent(g) /\ Head(down) # RequestItem(g)
         /\ SentOnce'
<1>1. /\ down' \in Seq(Items) /\ Len(down) \in Nat /\ Len(down) > 0
      /\ DOMAIN down = 1 .. Len(down) /\ DOMAIN down' = 1 .. Len(down) - 1
      /\ \A i \in 1 .. Len(down) - 1 : down'[i] = down[i + 1]
      /\ Head(down) = down[1] /\ Head(down) \in Items
  BY TailIndex
<1>2. \A i \in DOMAIN down' : i + 1 \in DOMAIN down /\ down'[i] = down[i + 1] /\ i + 1 # 1
  BY <1>1
<1>3. \A i \in DOMAIN down : i # 1 => i - 1 \in DOMAIN down' /\ down'[i - 1] = down[i]
  BY <1>1
<1>4. 1 \in DOMAIN down
  BY <1>1
<1>5. ASSUME NEW g \in Handles \cup {DiscHandle}
      PROVE  Sent(g)' <=> Sent(g) /\ Head(down) # RequestItem(g)
  <2>1. RequestItem(g)[1] = "request"
    BY Made
  <2>2. Sent(g)' => Sent(g) /\ Head(down) # RequestItem(g)
    BY <1>1, <1>2, <1>4, <2>1 DEF Sent, SentOnce
  <2>3. Sent(g) /\ Head(down) # RequestItem(g) => Sent(g)'
    BY <1>1, <1>3 DEF Sent
  <2> QED BY <2>2, <2>3
<1>6. SentOnce'
  <2>1. \A i, j \in DOMAIN down' : i + 1 = j + 1 => i = j
    BY <1>1
  <2> QED BY <1>2, <2>1 DEF SentOnce
<1> QED BY <1>1, <1>4, <1>5, <1>6 DEF Sent

(* The parent puts an item into the socket to the driver. *)
LEMMA UpAppended ==
  ASSUME up \in Seq(Items), NEW x \in Items, up' = Append(up, x)
  PROVE  /\ up' \in Seq(Items)
         /\ \A g \in Handles : Replied(g)' <=> Replied(g) \/ (x[1] = "reply" /\ x[2] = g)
         /\ RepliedOnce /\ (x[1] = "reply" => ~Replied(x[2])) => RepliedOnce'
         /\ \A i \in DOMAIN up' : (i \in DOMAIN up /\ up'[i] = up[i]) \/ up'[i] = x
<1>1. /\ up' \in Seq(Items) /\ Len(up) \in Nat
      /\ DOMAIN up = 1 .. Len(up) /\ DOMAIN up' = 1 .. Len(up) + 1
      /\ \A i \in 1 .. Len(up) : up'[i] = up[i]
      /\ up'[Len(up) + 1] = x
  BY AppendIndex
<1>2. \A i \in DOMAIN up' : i \in DOMAIN up \/ i = Len(up) + 1
  BY <1>1
<1>3. \A i \in DOMAIN up : i \in DOMAIN up' /\ up'[i] = up[i]
  BY <1>1
<1>4. Len(up) + 1 \in DOMAIN up'
  BY <1>1
<1>5. \A g \in Handles : Replied(g)' <=> Replied(g) \/ (x[1] = "reply" /\ x[2] = g)
  BY <1>1, <1>2, <1>3, <1>4 DEF Replied
<1>6. ASSUME RepliedOnce, x[1] = "reply" => ~Replied(x[2])
      PROVE  RepliedOnce'
  BY <1>1, <1>2, <1>3, <1>6 DEF RepliedOnce, Replied
<1> QED BY <1>1, <1>2, <1>3, <1>5, <1>6

(* The driver takes the first item of its socket. *)
LEMMA UpTaken ==
  ASSUME up \in Seq(Items), up # << >>, up' = Tail(up), RepliedOnce
  PROVE  /\ up' \in Seq(Items)
         /\ Head(up) \in Items
         /\ \A g \in Handles :
              /\ Head(up)[1] = "reply" /\ Head(up)[2] = g => Replied(g)
              /\ Replied(g)' <=> Replied(g) /\ ~ (Head(up)[1] = "reply" /\ Head(up)[2] = g)
         /\ RepliedOnce'
         /\ \E i \in DOMAIN up : up[i] = Head(up)
         /\ \A i \in DOMAIN up' : \E j \in DOMAIN up : up'[i] = up[j]
<1>1. /\ up' \in Seq(Items) /\ Len(up) \in Nat /\ Len(up) > 0
      /\ DOMAIN up = 1 .. Len(up) /\ DOMAIN up' = 1 .. Len(up) - 1
      /\ \A i \in 1 .. Len(up) - 1 : up'[i] = up[i + 1]
      /\ Head(up) = up[1] /\ Head(up) \in Items
  BY TailIndex
<1>2. \A i \in DOMAIN up' : i + 1 \in DOMAIN up /\ up'[i] = up[i + 1] /\ i + 1 # 1
  BY <1>1
<1>3. \A i \in DOMAIN up : i # 1 => i - 1 \in DOMAIN up' /\ up'[i - 1] = up[i]
  BY <1>1
<1>4. 1 \in DOMAIN up
  BY <1>1
<1>5. ASSUME NEW g \in Handles
      PROVE  Replied(g)' <=> Replied(g) /\ ~ (Head(up)[1] = "reply" /\ Head(up)[2] = g)
  <2>1. Replied(g)' => Replied(g) /\ ~ (Head(up)[1] = "reply" /\ Head(up)[2] = g)
    BY <1>1, <1>2, <1>4 DEF Replied, RepliedOnce
  <2>2. Replied(g) /\ ~ (Head(up)[1] = "reply" /\ Head(up)[2] = g) => Replied(g)'
    BY <1>1, <1>3 DEF Replied
  <2> QED BY <2>1, <2>2
<1>6. RepliedOnce'
  <2>1. \A i, j \in DOMAIN up' : i + 1 = j + 1 => i = j
    BY <1>1
  <2> QED BY <1>2, <2>1 DEF RepliedOnce
<1> QED BY <1>1, <1>2, <1>4, <1>5, <1>6 DEF Replied

(* The data returned for a request. *)
LEMMA EffectType ==
  ASSUME TypeOK, Effects, NEW h \in Handles, effect[h] # << >>
  PROVE  /\ effect[h][1] \in Seq(Values)
         /\ Len(effect[h][1]) = IF Requests[h].type = "read" THEN Requests[h].len ELSE 0
         /\ effect[h] = << effect[h][1] >>
<1>1. effect[h] \in Seq(Seq(Values))
  BY DEF TypeOK
<1>2. /\ Len(effect[h]) = 1
      /\ Len(effect[h][1]) = IF Requests[h].type = "read" THEN Requests[h].len ELSE 0
  BY DEF Effects
<1>3. 1 \in 1 .. Len(effect[h])
  BY <1>2
<1>4. effect[h][1] \in Seq(Values)
  BY <1>1, <1>3, ElementOfSeq
<1>5. /\ << effect[h][1] >> \in Seq(Seq(Values)) /\ Len(<< effect[h][1] >>) = 1
      /\ << effect[h][1] >>[1] = effect[h][1]
  BY <1>4
<1>6. \A i \in 1 .. Len(effect[h]) : effect[h][i] = << effect[h][1] >>[i]
  BY <1>2, <1>5
<1>7. effect[h] = << effect[h][1] >>
  BY <1>1, <1>2, <1>5, <1>6, SeqEqual
<1> QED BY <1>2, <1>4, <1>7

(* What the streams are made of. *)
LEMMA StreamTypes ==
  ASSUME TypeOK, Serving, Effects, Answers
  PROVE  /\ DownBody \in [Items -> Seq(Values)] /\ UpBody \in [Items -> Seq(Values)]
         /\ DownWant \in Seq(Values) /\ UpWant \in Seq(Values)
<1>1. << >> \in Seq(Values)
  BY EmptySeq
<1>2. DownBody \in [Items -> Seq(Values)]
  BY <1>1, RequestType DEF DownBody
<1>3. ASSUME NEW item \in Items
      PROVE  UpBody[item] \in Seq(Values)
  <2>1. CASE item[1] = "reply" /\ item[3] = 0 /\ Requests[item[2]].type = "read" /\ effect[item[2]] # << >>
    <3>1. item[2] \in Handles
      BY <2>1, Kinds
    <3>2. effect[item[2]][1] \in Seq(Values)
      BY <2>1, <3>1, EffectType
    <3> QED BY <2>1, <3>2 DEF UpBody
  <2>2. CASE ~ (item[1] = "reply" /\ item[3] = 0 /\ Requests[item[2]].type = "read" /\ effect[item[2]] # << >>)
    BY <2>2, <1>1 DEF UpBody
  <2> QED BY <2>1, <2>2
<1>4. UpBody \in [Items -> Seq(Values)]
  <2>1. UpBody = [item \in Items |-> UpBody[item]]
    BY DEF UpBody
  <2> QED BY <1>3, <2>1
<1>5. DownWant \in Seq(Values)
  <2>1. CASE pc = "payload"
    <3>1. handle \in Handles /\ chunk \in Seq(Values)
      BY <2>1 DEF TypeOK
    <3>2. Len(chunk) < Requests[handle].len /\ Requests[handle].type = "write"
      BY <2>1 DEF Serving
    <3>3. Requests[handle].data \in Seq(Values) /\ Len(Requests[handle].data) = Requests[handle].len /\ Requests[handle].len \in Nat
      BY <3>1, <3>2, RequestType
    <3>4. Len(chunk) \in Nat /\ Len(chunk) <= Len(Requests[handle].data)
      BY <3>1, <3>2, <3>3, LenProperties
    <3> QED BY <2>1, <3>3, <3>4, RestIndex DEF DownWant
  <2>2. CASE pc # "payload"
    BY <2>2, <1>1 DEF DownWant
  <2> QED BY <2>1, <2>2
<1>6. UpWant \in Seq(Values)
  <2>1. CASE receiving # Nobody
    <3> DEFINE e == effect[receiving[1]][1]
    <3>1. receiving[2] \in Seq(Values)
      BY DEF TypeOK
    <3>2. /\ receiving[1] \in Handles /\ Requests[receiving[1]].type = "read"
          /\ effect[receiving[1]] # << >> /\ Len(receiving[2]) < Requests[receiving[1]].len
      BY <2>1 DEF Answers
    <3>3. e \in Seq(Values) /\ Len(e) = Requests[receiving[1]].len
      BY <3>2, EffectType
    <3>4. Len(receiving[2]) \in Nat /\ Len(e) \in Nat
      BY <3>1, <3>3, LenProperties
    <3>5. Len(receiving[2]) <= Len(e)
      BY <3>2, <3>3, <3>4
    <3>6. Rest(e, Len(receiving[2])) \in Seq(Values)
      BY <3>3, <3>4, <3>5, RestIndex
    <3> QED BY <2>1, <3>6 DEF UpWant
  <2>2. CASE receiving = Nobody
    BY <2>2, <1>1 DEF UpWant
  <2> QED BY <2>1, <2>2
<1> QED BY <1>2, <1>4, <1>5, <1>6

(* A parent that reads the data of a write finds the next block of it.     *)
LEMMA PayloadFound ==
  ASSUME IInv, pc = "payload", down # << >>
  PROVE  /\ handle \in Handles /\ Requests[handle].type = "write"
         /\ Requests[handle].data \in Seq(Values) /\ Len(Requests[handle].data) = Requests[handle].len
         /\ Requests[handle].len \in Nat
         /\ Len(chunk) \in Nat /\ Len(chunk) < Requests[handle].len
         /\ DownWant # << >> /\ Tail(DownWant) = Rest(Requests[handle].data, Len(chunk) + 1)
         /\ Head(down) = DataItem(Requests[handle].data[Len(chunk) + 1])
         /\ Requests[handle].data[Len(chunk) + 1] \in Values
<1> DEFINE d == Requests[handle].data
<1>1. handle \in Handles /\ chunk \in Seq(Values) /\ down \in Seq(Items) /\ sending \in Seq(Values)
  BY DEF IInv, TypeOK
<1>2. Len(chunk) < Requests[handle].len /\ Requests[handle].type = "write"
  BY DEF IInv, Serving
<1>3. d \in Seq(Values) /\ Len(d) = Requests[handle].len /\ Requests[handle].len \in Nat
  BY <1>1, <1>2, RequestType
<1>4. Len(chunk) \in Nat
  BY <1>1, LenProperties
<1>5. /\ Rest(d, Len(chunk)) # << >> /\ Head(Rest(d, Len(chunk))) = d[Len(chunk) + 1]
      /\ Tail(Rest(d, Len(chunk))) = Rest(d, Len(chunk) + 1)
  <2>1. Len(chunk) <= Len(d) /\ Len(chunk) < Len(d)
    BY <1>2, <1>3, <1>4
  <2> QED BY <1>3, <1>4, <2>1, RestIndex
<1>6. DownWant = Rest(d, Len(chunk))
  BY DEF DownWant
<1>7. DownBody \in [Items -> Seq(Values)] /\ DownWant \in Seq(Values)
  BY StreamTypes DEF IInv
<1>8. /\ Downstream \in Seq(Items) /\ Downstream # << >> /\ Head(Downstream) = Head(down)
  BY <1>1, Joined, FirstTaken DEF Downstream
<1>9. Following(Downstream, DownWant, DownBody)
  BY DEF IInv, DownInStep
<1>10. Head(Downstream) = DataItem(Head(DownWant))
  BY <1>5, <1>6, <1>7, <1>8, <1>9, BlockTaken
<1>11. d[Len(chunk) + 1] \in Values
  <2>1. Len(chunk) + 1 \in 1 .. Len(d)
    BY <1>2, <1>3, <1>4
  <2> QED BY <2>1, <1>3, ElementOfSeq
<1> QED BY <1>1, <1>2, <1>3, <1>4, <1>5, <1>6, <1>8, <1>10, <1>11

(* A driver that receives the data of a read finds the next block of it.   *)
LEMMA AnswerFound ==
  ASSUME IInv, conn # "cleared", receiving # Nobody, up # << >>
  PROVE  LET h == receiving[1]
             n == Len(receiving[2])
         IN  /\ h \in Handles /\ Requests[h].type = "read"
             /\ effect[h] # << >>
             /\ effect[h][1] \in Seq(Values) /\ Len(effect[h][1]) = Requests[h].len
             /\ Requests[h].len \in Nat
             /\ receiving[2] \in Seq(Values) /\ n \in Nat /\ n < Requests[h].len
             /\ UpWant # << >> /\ Tail(UpWant) = Rest(effect[h][1], n + 1)
             /\ Head(up) = DataItem(effect[h][1][n + 1])
             /\ effect[h][1][n + 1] \in Values
<1> DEFINE h == receiving[1]
           n == Len(receiving[2])
           d == effect[h][1]
<1>1. /\ receiving[2] \in Seq(Values) /\ up \in Seq(Items) /\ chunk \in Seq(Values)
  BY DEF IInv, TypeOK
<1>2. /\ h \in Handles /\ Requests[h].type = "read" /\ effect[h] # << >>
      /\ n < Requests[h].len
  BY DEF IInv, Answers
<1>3. d \in Seq(Values) /\ Len(d) = Requests[h].len /\ Requests[h].len \in Nat
  BY <1>2, EffectType, RequestType DEF IInv
<1>4. n \in Nat
  BY <1>1, LenProperties
<1>5. Rest(d, n) # << >> /\ Head(Rest(d, n)) = d[n + 1] /\ Tail(Rest(d, n)) = Rest(d, n + 1)
  <2>1. n <= Len(d) /\ n < Len(d)
    BY <1>2, <1>3, <1>4
  <2>2. d \in Seq(Values)
    BY <1>3
  <2> HIDE DEF d, n
  <2> QED BY <1>4, <2>1, <2>2, RestIndex
<1>6. UpWant = Rest(d, n)
  BY DEF UpWant
<1>7. UpBody \in [Items -> Seq(Values)] /\ UpWant \in Seq(Values)
  BY StreamTypes DEF IInv
<1>8. /\ Upstream \in Seq(Items) /\ Upstream # << >> /\ Head(Upstream) = Head(up)
  <2>1. (IF pc = "data" THEN chunk ELSE << >>) \in Seq(Values)
    BY <1>1, EmptySeq
  <2> QED BY <1>1, <2>1, Joined, FirstTaken DEF Upstream
<1>9. Following(Upstream, UpWant, UpBody)
  BY DEF IInv, UpInStep
<1>10. Head(Upstream) = DataItem(Head(UpWant))
  BY <1>5, <1>6, <1>7, <1>8, <1>9, BlockTaken
<1>11. d[n + 1] \in Values
  <2>1. n + 1 \in 1 .. Len(d)
    BY <1>2, <1>3, <1>4
  <2> QED BY <2>1, <1>3, ElementOfSeq
<1> QED BY <1>1, <1>2, <1>3, <1>4, <1>5, <1>6, <1>8, <1>10, <1>11

-----------------------------------------------------------------------------
(* Types *)

(* Items are told apart from what they hold. *)
LEMMA HeadRequest ==
  ASSUME NEW h \in Handles \cup {DiscHandle}, TypeOK, ReadRequest(h)
  PROVE  /\ down # << >> /\ down' = Tail(down) /\ down' \in Seq(Items) /\ Len(down') <= SockSize
         /\ Head(down) = RequestItem(h) /\ Head(down) \in Items
         /\ handle' = h /\ pc = "request"
<1>1. down \in Seq(Items) /\ Len(down) <= SockSize /\ down # << >>
  BY DEF TypeOK, ReadRequest
<1>2. /\ Tail(down) \in Seq(Items) /\ Len(Tail(down)) = Len(down) - 1 /\ Head(down) \in Items
      /\ Len(down) \in Nat
  BY <1>1, TailIndex
<1>3. SockSize \in Nat
  BY BuseAssumption
<1> QED BY <1>1, <1>2, <1>3 DEF ReadRequest

(* A read the driver receives, with its data. *)
LEMMA ReceivingType ==
  ASSUME NEW h \in Handles \cup {0}, NEW d \in Seq(Values)
  PROVE  << h, d >> \in (Handles \cup {0}) \X Seq(Values)
<1> DEFINE H == Handles \cup {0}
           D == Seq(Values)
<1>1. h \in H /\ d \in D
  OBVIOUS
<1> HIDE DEF H, D
<1>2. << h, d >> \in H \X D
  BY <1>1
<1> QED BY <1>2 DEF H, D

(* The initial state has the types. *)
LEMMA TypeInit == Init => TypeOK
<1>1. << >> \in Seq(Values) /\ << >> \in Seq(Items) /\ << >> \in Seq(Handles) /\ Len(<< >>) = 0
  BY EmptySeq
<1>2. SockSize \in Nat
  BY BuseAssumption
<1> SUFFICES ASSUME Init PROVE TypeOK
  OBVIOUS
<1>3. status \in [Handles -> {"none", "waiting", "ok", "error"}] /\ answer \in [Handles -> Seq(Values)]
  BY <1>1 DEF Init
<1>4. queue \in Seq(Handles) /\ sending \in Seq(Values) /\ chunk \in Seq(Values)
  BY <1>1 DEF Init
<1>5. down \in Seq(Items) /\ Len(down) <= SockSize /\ up \in Seq(Items) /\ Len(up) <= SockSize
  BY <1>1, <1>2 DEF Init
<1>6. receiving \in (Handles \cup {0}) \X Seq(Values)
  <2>1. << 0, << >> >> \in (Handles \cup {0}) \X Seq(Values)
    BY <1>1, ReceivingType
  <2> QED BY <2>1 DEF Init, Nobody
<1>7. disc \in [sent : BOOLEAN, begun : SUBSET Handles]
  BY DEF Init, NotDisconnected
<1>8. DOMAIN effect = Handles /\ \A h \in Handles : effect[h] # << >> => effect[h] \in Seq(Seq(Values))
  BY DEF Init
<1>9. /\ conn = "none" /\ interrupted = FALSE /\ pc = "setup" /\ handle = DiscHandle /\ error = 0
      /\ data \in [Blocks -> Values]
  BY DEF Init, DiscHandle
<1> QED BY <1>3, <1>4, <1>5, <1>6, <1>7, <1>8, <1>9 DEF TypeOK

(* Steps of the child and of the driver keep the types. *)
LEMMA TypeStepOutside ==
  ASSUME IInv,
         Submit \/ SendDisc \/ Interrupt \/ SetSock \/ ClearQueue
         \/ SendRequest \/ SendData \/ ReceiveReply \/ ReceiveData \/ Hangup
  PROVE  TypeOK'
<1>1. TypeOK
  BY DEF IInv
<1>2. << >> \in Seq(Values) /\ << >> \in Seq(Items) /\ << >> \in Seq(Handles)
  BY EmptySeq
<1>3. SockSize \in Nat
  BY BuseAssumption
<1>4. CASE Submit
  <2>1. PICK h \in Handles :
          /\ status[h] = "none"
          /\ \/ status' = [status EXCEPT ![h] = "error"] /\ UNCHANGED queue
             \/ status' = [status EXCEPT ![h] = "waiting"] /\ queue' = Append(queue, h)
    BY <1>4 DEF Submit
  <2>2. queue' \in Seq(Handles)
    <3>1. queue \in Seq(Handles)
      BY <1>1 DEF TypeOK
    <3>2. Append(queue, h) \in Seq(Handles)
      BY <3>1, AppendIndex
    <3> QED BY <2>1, <3>1, <3>2
  <2>3. status' \in [Handles -> {"none", "waiting", "ok", "error"}]
    BY <1>1, <2>1 DEF TypeOK
  <2>4. UNCHANGED << answer, sending, receiving, disc, down, up, conn, interrupted, parent >>
    BY <1>4 DEF Submit
  <2> QED BY <1>1, <2>2, <2>3, <2>4 DEF TypeOK, parent
<1>5. CASE SendDisc
  <2>1. RequestItem(DiscHandle) \in Items
    BY Made
  <2>2. down' \in Seq(Items) /\ Len(down') <= SockSize
    BY <1>1, <1>3, <1>5, <2>1, AppendIndex DEF SendDisc, CanSend, TypeOK
  <2>3. disc' \in [sent : BOOLEAN, begun : SUBSET Handles]
    BY <1>5 DEF SendDisc, Waiting
  <2>4. UNCHANGED << status, answer, queue, sending, receiving, up, conn, interrupted, parent >>
    BY <1>5 DEF SendDisc
  <2> QED BY <1>1, <2>2, <2>3, <2>4 DEF TypeOK, parent
<1>6. CASE Interrupt
  BY <1>1, <1>6 DEF Interrupt, TypeOK, driver, parent
<1>7. CASE SetSock
  BY <1>1, <1>7 DEF SetSock, TypeOK, driver, parent
<1>8. CASE ClearQueue
  BY <1>1, <1>2, <1>8 DEF ClearQueue, TypeOK, parent, Nobody
<1>9. CASE SendRequest
  <2>1. Head(queue) \in Handles /\ Tail(queue) \in Seq(Handles)
    BY <1>1, <1>9, TailIndex DEF SendRequest, TypeOK
  <2>2. RequestItem(Head(queue)) \in Items /\ Requests[Head(queue)].data \in Seq(Values)
    BY <2>1, Made, RequestType
  <2>3. down' \in Seq(Items) /\ Len(down') <= SockSize
    BY <1>1, <1>3, <1>9, <2>2, AppendIndex DEF SendRequest, CanSend, TypeOK
  <2> QED BY <1>1, <1>9, <2>1, <2>2, <2>3 DEF SendRequest, TypeOK, parent
<1>10. CASE SendData
  <2>1. DataItem(Head(sending)) \in Items /\ Tail(sending) \in Seq(Values)
    BY <1>1, <1>10, TailIndex, Made DEF SendData, TypeOK
  <2>2. down' \in Seq(Items) /\ Len(down') <= SockSize
    BY <1>1, <1>3, <1>10, <2>1, AppendIndex DEF SendData, CanSend, TypeOK
  <2> QED BY <1>1, <1>10, <2>1, <2>2 DEF SendData, TypeOK, parent
<1>11. CASE ReceiveReply
  <2>1. up' \in Seq(Items) /\ Len(up') <= SockSize
    BY <1>1, <1>3, <1>11, TailIndex DEF ReceiveReply, TypeOK
  <2>2. status' \in [Handles -> {"none", "waiting", "ok", "error"}]
    BY <1>1, <1>11 DEF ReceiveReply, TypeOK
  <2>3. receiving' \in (Handles \cup {0}) \X Seq(Values)
    <3>1. receiving' = receiving \/ \E h \in Handles : receiving' = << h, << >> >>
      BY <1>11 DEF ReceiveReply, IsReply, Waiting
    <3>2. \A h \in Handles : << h, << >> >> \in (Handles \cup {0}) \X Seq(Values)
      BY <1>2, ReceivingType
    <3>3. receiving \in (Handles \cup {0}) \X Seq(Values)
      BY <1>1 DEF TypeOK
    <3> QED BY <3>1, <3>2, <3>3
  <2> QED BY <1>1, <1>11, <2>1, <2>2, <2>3 DEF ReceiveReply, TypeOK, parent
<1>12. CASE ReceiveData
  <2>1. up' \in Seq(Items) /\ Len(up') <= SockSize
    BY <1>1, <1>3, <1>12, TailIndex DEF ReceiveData, TypeOK
  <2> DEFINE h == receiving[1]
             got == Append(receiving[2], Head(up)[2])
  <2>2. h \in Handles /\ got \in Seq(Values)
    <3>1. /\ h \in Handles /\ receiving[2] \in Seq(Values)
          /\ Head(up) = DataItem(effect[h][1][Len(receiving[2]) + 1])
          /\ effect[h][1][Len(receiving[2]) + 1] \in Values
      BY <1>12, AnswerFound DEF ReceiveData
    <3>2. Head(up)[2] \in Values
      BY <3>1, Made
    <3> QED BY <3>1, <3>2, AppendIndex
  <2>3. \/ receiving' = << h, got >> /\ UNCHANGED << status, answer >>
        \/ /\ receiving' = Nobody
           /\ status' = [status EXCEPT ![h] = "ok"]
           /\ answer' = [answer EXCEPT ![h] = got]
    BY <1>12 DEF ReceiveData
  <2>4. UNCHANGED << queue, sending, disc, down, conn, interrupted, parent >>
    BY <1>12 DEF ReceiveData
  <2> HIDE DEF got, h
  <2>5. receiving' \in (Handles \cup {0}) \X Seq(Values)
    <3>1. /\ << h, got >> \in (Handles \cup {0}) \X Seq(Values)
          /\ << 0, << >> >> \in (Handles \cup {0}) \X Seq(Values)
      BY <1>2, <2>2, ReceivingType
    <3> QED BY <2>3, <3>1 DEF Nobody
  <2>6. status' \in [Handles -> {"none", "waiting", "ok", "error"}]
    <3>1. status' = status \/ status' = [status EXCEPT ![h] = "ok"]
      BY <2>3
    <3>2. status \in [Handles -> {"none", "waiting", "ok", "error"}]
      BY <1>1 DEF TypeOK
    <3> QED BY <3>1, <3>2
  <2>7. answer' \in [Handles -> Seq(Values)]
    <3>1. answer' = answer \/ answer' = [answer EXCEPT ![h] = got]
      BY <2>3
    <3>2. answer \in [Handles -> Seq(Values)]
      BY <1>1 DEF TypeOK
    <3> QED BY <2>2, <3>1, <3>2
  <2> QED BY <1>1, <2>1, <2>4, <2>5, <2>6, <2>7 DEF TypeOK, parent
<1>13. CASE Hangup
  BY <1>1, <1>13 DEF Hangup, TypeOK, driver, parent
<1> QED BY <1>4, <1>5, <1>6, <1>7, <1>8, <1>9, <1>10, <1>11, <1>12, <1>13

(* Steps of the parent keep the types. *)
LEMMA TypeStepParent ==
  ASSUME IInv, Parent
  PROVE  TypeOK'
<1>1. TypeOK
  BY DEF IInv
<1>2. << >> \in Seq(Values) /\ << << >> >> \in Seq(Seq(Values))
  BY EmptySeq
<1>3. SockSize \in Nat
  BY BuseAssumption
<1>4. CASE Setup
  BY <1>1, <1>4 DEF Setup, TypeOK, driver
<1>5. CASE OpenDevice
  BY <1>1, <1>5 DEF OpenDevice, TypeOK, outside, driver
<1>6. CASE ServeRead
  <2>1. PICK h \in Handles :
          /\ ReadRequest(h)
          /\ Requests[h].type = "read"
          /\ \/ /\ HasRead
                /\ chunk' = [i \in 1 .. Requests[h].len |-> data[Requests[h].from + i - 1]]
                /\ error' = 0
                /\ Carried(h, chunk')
             \/ /\ ~HasRead
                /\ chunk' \in [1 .. Requests[h].len -> Values]
                /\ error' = EPERM
                /\ UNCHANGED effect
          /\ pc' = "reply"
          /\ UNCHANGED data
    BY <1>6 DEF ServeRead
  <2>2. /\ Requests[h].from \in Nat /\ Requests[h].len \in Nat
        /\ Requests[h].from .. Requests[h].from + Requests[h].len - 1 \subseteq Blocks
    BY <2>1, RequestType
  <2>3. \A i \in 1 .. Requests[h].len : data[Requests[h].from + i - 1] \in Values
    <3>1. \A i \in 1 .. Requests[h].len : Requests[h].from + i - 1 \in Blocks
      BY <2>2
    <3> QED BY <1>1, <3>1 DEF TypeOK
  <2>4. chunk' \in [1 .. Requests[h].len -> Values]
    BY <2>1, <2>3
  <2>5. chunk' \in Seq(Values) /\ << chunk' >> \in Seq(Seq(Values))
    BY <2>2, <2>4
  <2>6. /\ down' \in Seq(Items) /\ Len(down') <= SockSize /\ handle' = h
    BY <1>1, <2>1, HeadRequest
  <2>7. UNCHANGED << outside, up >>
    BY <2>1 DEF ReadRequest
  <2>8. effect' = effect \/ effect' = [effect EXCEPT ![h] = << chunk' >>]
    BY <2>1 DEF Carried
  <2>9. pc' = "reply" /\ error' \in {0, EPERM} /\ data' = data
    BY <2>1
  <2> QED BY <1>1, <2>5, <2>6, <2>7, <2>8, <2>9 DEF TypeOK, outside, driver
<1>7. CASE ServeWrite
  <2>1. PICK h \in Handles : ReadRequest(h) /\ chunk' = << >> /\ error' = 0 /\ pc' = "payload"
                             /\ UNCHANGED << data, effect >>
    BY <1>7 DEF ServeWrite
  <2>2. /\ down' \in Seq(Items) /\ Len(down') <= SockSize /\ handle' = h
        /\ UNCHANGED << outside, up >>
    BY <1>1, <2>1, HeadRequest DEF ReadRequest
  <2> QED BY <1>1, <1>2, <2>1, <2>2 DEF TypeOK, outside, driver
<1>8. CASE ServeOther
  <2>1. PICK h \in Handles : ReadRequest(h) /\ chunk' = << >> /\ error' = 0 /\ pc' = "reply"
                             /\ effect' = [effect EXCEPT ![h] = << << >> >>] /\ UNCHANGED data
    BY <1>8 DEF ServeOther, Carried
  <2>2. /\ down' \in Seq(Items) /\ Len(down') <= SockSize /\ handle' = h
        /\ UNCHANGED << outside, up >>
    BY <1>1, <2>1, HeadRequest DEF ReadRequest
  <2> QED BY <1>1, <1>2, <2>1, <2>2 DEF TypeOK, outside, driver
<1>9. CASE ServeDisc
  <2>1. ReadRequest(DiscHandle) /\ pc' = "exited" /\ UNCHANGED << chunk, error, data, effect >>
    BY <1>9 DEF ServeDisc
  <2>2. /\ down' \in Seq(Items) /\ Len(down') <= SockSize /\ handle' = DiscHandle
        /\ UNCHANGED << outside, up >>
    BY <1>1, <2>1, HeadRequest DEF ReadRequest
  <2> QED BY <1>1, <2>1, <2>2 DEF TypeOK, outside, driver
<1>10. CASE ReadShortHeader \/ EndOfRequests
  BY <1>1, <1>10 DEF ReadShortHeader, EndOfRequests, TypeOK, outside, driver
<1>11. CASE ReadPayload
  <2>1. /\ pc = "payload" /\ down # << >> /\ down' = Tail(down)
        /\ chunk' = Append(chunk, Head(down)[2])
        /\ UNCHANGED << outside, up, handle >>
    BY <1>11 DEF ReadPayload
  <2>2. /\ handle \in Handles /\ Requests[handle].type = "write"
        /\ Head(down) = DataItem(Requests[handle].data[Len(chunk) + 1])
        /\ Requests[handle].data[Len(chunk) + 1] \in Values
    BY <2>1, PayloadFound
  <2>3. chunk' \in Seq(Values)
    BY <1>1, <2>1, <2>2, Made, AppendIndex DEF TypeOK
  <2>4. down' \in Seq(Items) /\ Len(down') <= SockSize
    BY <1>1, <1>3, <2>1, TailIndex DEF TypeOK
  <2>5. pc' \in {"payload", "reply"} /\ error' \in {0, EPERM}
    BY <1>1, <1>11, <2>1 DEF ReadPayload, TypeOK
  <2>6. effect' = effect \/ effect' = [effect EXCEPT ![handle] = << << >> >>]
    BY <1>11 DEF ReadPayload, Carried
  <2>7. data' \in [Blocks -> Values]
    <3>1. CASE data' = data
      BY <1>1, <3>1 DEF TypeOK
    <3>2. CASE Len(chunk') = Requests[handle].len /\ data' = Written(data, Requests[handle], chunk')
      <4>1. Requests[handle].from \in Nat /\ Requests[handle].len \in Nat
        BY <2>2, RequestType
      <4>2. \A i \in 1 .. Requests[handle].len : chunk'[i] \in Values
        BY <2>3, <3>2, ElementOfSeq
      <4>3. ASSUME NEW b \in Requests[handle].from .. Requests[handle].from + Requests[handle].len - 1
            PROVE  chunk'[b - Requests[handle].from + 1] \in Values
        <5>1. b - Requests[handle].from + 1 \in 1 .. Requests[handle].len
          BY <4>1
        <5> QED BY <4>2, <5>1
      <4>4. \A b \in Blocks : data[b] \in Values
        BY <1>1 DEF TypeOK
      <4> QED BY <3>2, <4>3, <4>4 DEF Written
    <3>3. data' = data \/ (Len(chunk') = Requests[handle].len /\ data' = Written(data, Requests[handle], chunk'))
      BY <1>11 DEF ReadPayload
    <3> QED BY <3>1, <3>2, <3>3
  <2> QED BY <1>1, <1>2, <2>1, <2>2, <2>3, <2>4, <2>5, <2>6, <2>7 DEF TypeOK, outside, driver
<1>12. CASE WriteReply
  <2>1. handle \in Handles /\ ReplyItem(handle, error) \in Items
    BY <1>1, <1>12, Made DEF WriteReply, TypeOK
  <2>2. up' \in Seq(Items) /\ Len(up') <= SockSize
    BY <1>1, <1>3, <1>12, <2>1, AppendIndex DEF WriteReply, TypeOK
  <2> QED BY <1>1, <1>12, <2>1, <2>2 DEF WriteReply, TypeOK, outside, driver
<1>13. CASE WriteData
  <2>1. chunk # << >> /\ chunk \in Seq(Values)
    BY <1>1, <1>13 DEF WriteData, IInv, Serving, TypeOK
  <2>2. DataItem(Head(chunk)) \in Items /\ Tail(chunk) \in Seq(Values)
    BY <2>1, TailIndex, Made
  <2>3. up' \in Seq(Items) /\ Len(up') <= SockSize
    BY <1>1, <1>3, <1>13, <2>2, AppendIndex DEF WriteData, TypeOK
  <2> QED BY <1>1, <1>13, <2>2, <2>3 DEF WriteData, TypeOK, outside, driver
<1>14. CASE AssertFails
  BY <1>1, <1>14 DEF AssertFails, TypeOK, outside, driver
<1> QED BY <1>4, <1>5, <1>6, <1>7, <1>8, <1>9, <1>10, <1>11, <1>12, <1>13, <1>14 DEF Parent

-----------------------------------------------------------------------------
(* Phases, the parent's request, effects and answers *)

(* What each step of the parent but Setup leaves alone. *)
LEMMA ParentTouches ==
  ASSUME Parent
  PROVE  /\ UNCHANGED << status, answer, queue, sending, receiving, disc, interrupted >>
         /\ conn' = conn \/ (pc = "setup" /\ conn' = "setup" /\ pc' = "open" /\ UNCHANGED << down, up, effect >>)
BY DEF Parent, Setup, OpenDevice, ServeRead, ServeWrite, ServeOther, ServeDisc, ReadShortHeader, EndOfRequests,
       ReadPayload, WriteReply, WriteData, AssertFails, ReadRequest, outside, driver

(* The child and the parent go through their phases together. *)
LEMMA PhasesStep ==
  ASSUME IInv, Next
  PROVE  Phases'
<1>1. Phases
  BY DEF IInv
<1>2. CASE Submit
  BY <1>1, <1>2 DEF Submit, Phases, parent
<1>3. CASE SendDisc
  BY <1>1, <1>3 DEF SendDisc, CanSend, Phases, parent
<1>4. CASE Interrupt
  BY <1>1, <1>4 DEF Interrupt, Phases, driver, parent
<1>5. CASE SetSock
  BY <1>1, <1>5 DEF SetSock, Phases, driver, parent
<1>6. CASE ClearQueue
  BY <1>1, <1>6 DEF ClearQueue, Phases, parent
<1>7. CASE SendRequest
  BY <1>1, <1>7 DEF SendRequest, CanSend, Phases, parent
<1>8. CASE SendData
  BY <1>1, <1>8 DEF SendData, CanSend, Phases, parent
<1>9. CASE ReceiveReply
  BY <1>1, <1>9 DEF ReceiveReply, Phases, parent
<1>10. CASE ReceiveData
  BY <1>1, <1>10 DEF ReceiveData, Phases, parent
<1>11. CASE Hangup
  BY <1>1, <1>11 DEF Hangup, Phases, driver, parent
<1>12. CASE Parent
  <2>1. CASE Setup
    BY <1>1, <2>1 DEF Setup, Phases, driver
  <2>2. CASE OpenDevice
    BY <1>1, <2>2 DEF OpenDevice, Phases, outside, driver
  <2>3. CASE \E h \in Handles \cup {DiscHandle} : ReadRequest(h)
    BY <1>1, <1>12, <2>3, ParentTouches DEF ReadRequest, Phases, Parent, Setup, OpenDevice, ServeRead,
       ServeWrite, ServeOther, ServeDisc, ReadShortHeader, EndOfRequests, ReadPayload, WriteReply, WriteData, AssertFails
  <2>4. CASE ReadShortHeader \/ EndOfRequests
    BY <1>1, <2>4 DEF ReadShortHeader, EndOfRequests, Phases, outside, driver
  <2>5. CASE ReadPayload
    BY <1>1, <2>5 DEF ReadPayload, Phases, outside, driver
  <2>6. CASE WriteReply
    BY <1>1, <2>6 DEF WriteReply, Phases, outside, driver
  <2>7. CASE WriteData
    BY <1>1, <2>7 DEF WriteData, Phases, outside, driver
  <2>8. CASE AssertFails
    BY <1>1, <2>8 DEF AssertFails, Phases, outside, driver
  <2> QED BY <1>12, <2>1, <2>2, <2>3, <2>4, <2>5, <2>6, <2>7, <2>8
       DEF Parent, ServeRead, ServeWrite, ServeOther, ServeDisc
<1> QED BY <1>2, <1>3, <1>4, <1>5, <1>6, <1>7, <1>8, <1>9, <1>10, <1>11, <1>12 DEF Next

(* The parent has of a write what was sent of it, of a read what it holds.  *)
LEMMA ServingStep ==
  ASSUME IInv, Next
  PROVE  Serving'
<1>1. Serving /\ TypeOK
  BY DEF IInv
<1>2. CASE UNCHANGED << pc, handle, chunk, error, effect >>
  BY <1>1, <1>2 DEF Serving
<1>3. CASE Submit \/ SendDisc \/ Interrupt \/ SetSock \/ ClearQueue \/ SendRequest \/ SendData
           \/ ReceiveReply \/ ReceiveData \/ Hangup
  BY <1>2, <1>3 DEF Submit, SendDisc, Interrupt, SetSock, ClearQueue, SendRequest, SendData,
       ReceiveReply, ReceiveData, Hangup, parent
<1>4. CASE pc' \in {"open", "request", "exited", "aborted", "setup", "unopened", "shortheader"}
  BY <1>4 DEF Serving
<1>5. CASE Setup \/ OpenDevice \/ ServeDisc \/ ReadShortHeader \/ EndOfRequests \/ AssertFails
  BY <1>4, <1>5 DEF Setup, OpenDevice, ServeDisc, ReadShortHeader, EndOfRequests, AssertFails
<1>6. CASE ServeRead
  <2>1. PICK h \in Handles :
          /\ ReadRequest(h)
          /\ Requests[h].type = "read"
          /\ \/ /\ HasRead
                /\ chunk' = [i \in 1 .. Requests[h].len |-> data[Requests[h].from + i - 1]]
                /\ error' = 0
                /\ effect' = [effect EXCEPT ![h] = << chunk' >>]
             \/ /\ ~HasRead
                /\ chunk' \in [1 .. Requests[h].len -> Values]
                /\ error' = EPERM
          /\ pc' = "reply"
    BY <1>6 DEF ServeRead, Carried
  <2>2. handle' = h /\ Requests[h].len \in Nat
    BY <1>1, <2>1, HeadRequest, RequestType
  <2>3. Len(chunk') = Requests[h].len
    <3>1. chunk' \in [1 .. Requests[h].len -> Values] \/ chunk' = [i \in 1 .. Requests[h].len |-> data[Requests[h].from + i - 1]]
      BY <2>1
    <3> QED BY <2>2, <3>1
  <2>4. CASE HasRead
    <3>1. effect'[h] = << chunk' >>
      BY <1>1, <2>1, <2>4 DEF TypeOK
    <3>2. << chunk' >> # << >> /\ << chunk' >>[1] = chunk'
      OBVIOUS
    <3> QED BY <2>1, <2>2, <2>3, <2>4, <3>1, <3>2 DEF Serving
  <2>5. CASE ~HasRead
    BY <2>1, <2>2, <2>3, <2>5 DEF Serving, EPERM
  <2> QED BY <2>4, <2>5
<1>7. CASE ServeWrite
  <2>1. PICK h \in Handles : /\ ReadRequest(h) /\ Requests[h].type = "write"
                             /\ chunk' = << >> /\ error' = 0 /\ pc' = "payload"
    BY <1>7 DEF ServeWrite
  <2>2. handle' = h /\ Requests[h].len > 0 /\ Len(chunk') = 0
    BY <1>1, <2>1, HeadRequest, RequestType, EmptySeq
  <2>3. 1 .. Len(chunk') = {}
    BY <2>2
  <2> QED BY <2>1, <2>2, <2>3 DEF Serving
<1>8. CASE ServeOther
  <2>1. PICK h \in Handles : /\ ReadRequest(h) /\ Requests[h].type \in {"trim", "flush"} /\ error' = 0 /\ pc' = "reply"
                             /\ effect' = [effect EXCEPT ![h] = << << >> >>]
    BY <1>8 DEF ServeOther, Carried
  <2>2. handle' = h
    BY <1>1, <2>1, HeadRequest
  <2>3. effect'[h] # << >>
    BY <1>1, <2>1 DEF TypeOK
  <2> QED BY <2>1, <2>2, <2>3 DEF Serving
<1>9. CASE ReadPayload
  <2> DEFINE d == Requests[handle].data
  <2>1. /\ pc = "payload" /\ down # << >> /\ handle' = handle
        /\ chunk' = Append(chunk, Head(down)[2])
    BY <1>9 DEF ReadPayload, outside
  <2>2. /\ handle \in Handles /\ Requests[handle].type = "write"
        /\ Head(down) = DataItem(d[Len(chunk) + 1]) /\ d[Len(chunk) + 1] \in Values
        /\ Len(chunk) \in Nat /\ Len(chunk) < Requests[handle].len /\ Requests[handle].len \in Nat
    BY <2>1, PayloadFound
  <2>3. /\ Len(chunk') = Len(chunk) + 1
        /\ \A i \in 1 .. Len(chunk) : chunk'[i] = chunk[i]
        /\ chunk'[Len(chunk) + 1] = d[Len(chunk) + 1]
    <3>1. Head(down)[2] = d[Len(chunk) + 1] /\ Head(down)[2] \in Values
      BY <2>2, Made
    <3> QED BY <1>1, <2>1, <3>1, AppendIndex DEF TypeOK
  <2>4. \A i \in 1 .. Len(chunk') : chunk'[i] = d[i]
    <3>1. \A i \in 1 .. Len(chunk) : chunk[i] = d[i]
      BY <1>1, <2>1 DEF Serving
    <3>2. \A i \in 1 .. Len(chunk') : i \in 1 .. Len(chunk) \/ i = Len(chunk) + 1
      BY <2>2, <2>3
    <3> QED BY <2>3, <3>1, <3>2
  <2>5. CASE Len(chunk') < Requests[handle].len
    <3>1. pc' = "payload" /\ error' = error
      BY <1>9, <2>1, <2>5, <2>2, <2>3 DEF ReadPayload
    <3>2. error = 0
      BY <1>1, <2>1 DEF Serving
    <3> QED BY <2>1, <2>2, <2>4, <2>5, <3>1, <3>2 DEF Serving
  <2>6. CASE Len(chunk') = Requests[handle].len
    <3>1. pc' = "reply"
      BY <1>9, <2>6, <2>2, <2>3 DEF ReadPayload
    <3>2. CASE HasWrite
      <4>1. error' = error /\ effect' = [effect EXCEPT ![handle] = << << >> >>]
        BY <1>9, <2>6, <2>2, <2>3, <3>2 DEF ReadPayload, Carried
      <4>2. effect'[handle] # << >>
        BY <1>1, <2>2, <4>1 DEF TypeOK
      <4>3. error = 0
        BY <1>1, <2>1 DEF Serving
      <4> QED BY <2>1, <2>2, <3>1, <4>1, <4>2, <4>3 DEF Serving
    <3>3. CASE ~HasWrite
      <4>1. error' = EPERM
        BY <1>9, <2>6, <2>2, <2>3, <3>3 DEF ReadPayload
      <4> QED BY <2>1, <2>2, <3>1, <3>3, <4>1 DEF Serving, EPERM
    <3> QED BY <3>2, <3>3
  <2> QED BY <2>2, <2>3, <2>5, <2>6
<1>10. CASE WriteReply
  <2>1. /\ pc = "reply" /\ pc' = (IF Requests[handle].type = "read" THEN "data" ELSE "request")
        /\ UNCHANGED << handle, chunk >>
    BY <1>10 DEF WriteReply
  <2>2. handle \in Handles
    BY <1>1, <2>1 DEF TypeOK
  <2>3. CASE Requests[handle].type = "read"
    <3>1. Len(chunk) = Requests[handle].len /\ Requests[handle].len > 0
      BY <1>1, <2>1, <2>2, <2>3, RequestType DEF Serving
    <3>2. chunk # << >>
      BY <3>1, EmptySeq
    <3> QED BY <2>1, <2>3, <3>2 DEF Serving
  <2>4. CASE Requests[handle].type # "read"
    BY <2>1, <2>4, <1>4
  <2> QED BY <2>3, <2>4
<1>11. CASE WriteData
  <2>1. pc = "data" /\ pc' = (IF Len(chunk) = 1 THEN "request" ELSE "data") /\ chunk' = Tail(chunk)
    BY <1>11 DEF WriteData
  <2>2. chunk # << >> /\ chunk \in Seq(Values)
    BY <1>1, <2>1 DEF Serving, TypeOK
  <2>3. Len(chunk') = Len(chunk) - 1 /\ Len(chunk) \in Nat /\ Len(chunk) > 0
    BY <2>1, <2>2, TailIndex
  <2>4. ASSUME pc' = "data" PROVE chunk' # << >>
    <3>1. Len(chunk) # 1
      BY <2>1, <2>4
    <3>2. Len(chunk') # 0
      BY <2>3, <3>1
    <3> QED BY <3>2, EmptySeq
  <2> QED BY <2>1, <2>4, <1>4 DEF Serving
<1> QED BY <1>3, <1>5, <1>6, <1>7, <1>8, <1>9, <1>10, <1>11 DEF Next, Parent

(* A request the parent takes or serves was not carried out before. *)
LEMMA ServedOnce ==
  ASSUME IInv, NEW h \in Handles, Sent(h) \/ (pc = "payload" /\ handle = h)
  PROVE  /\ effect[h] = << >> /\ status[h] # "none"
         /\ ~Queued(h) /\ ~After(h)
BY DEF IInv, Awaited, Apart, Before

(* The request whose header the parent takes. *)
LEMMA HeadSent ==
  ASSUME IInv, NEW h \in Handles \cup {DiscHandle}, ReadRequest(h)
  PROVE  Sent(h)
<1>1. down \in Seq(Items) /\ SentOnce /\ down # << >> /\ down' = Tail(down) /\ Head(down) = RequestItem(h)
  BY DEF IInv, TypeOK, ReadRequest
<1> QED BY <1>1, DownTaken

(* What was returned stays, whoever is served. *)
LEMMA EffectsKept ==
  ASSUME IInv, Next, NEW g \in Handles, effect[g] # << >>
  PROVE  effect'[g] = effect[g]
<1>1. TypeOK
  BY DEF IInv
<1>2. CASE effect' = effect
  BY <1>2
<1>3. ASSUME NEW h \in Handles, NEW what, ReadRequest(h) \/ (pc = "payload" /\ handle = h),
             effect' = [effect EXCEPT ![h] = << what >>]
      PROVE  effect'[g] = effect[g]
  <2>1. effect[h] = << >>
    BY <1>3, ServedOnce, HeadSent
  <2>2. g # h
    BY <2>1
  <2> QED BY <1>1, <1>3, <2>2 DEF TypeOK
<1>4. CASE ServeRead
  BY <1>2, <1>3, <1>4 DEF ServeRead, Carried
<1>5. CASE ServeOther
  BY <1>3, <1>5 DEF ServeOther, Carried
<1>6. CASE ReadPayload
  <2>1. pc = "payload" /\ handle \in Handles
    BY <1>1, <1>6 DEF ReadPayload, TypeOK
  <2>2. effect' = effect \/ effect' = [effect EXCEPT ![handle] = << << >> >>]
    BY <1>6 DEF ReadPayload, Carried
  <2> QED BY <1>2, <1>3, <2>1, <2>2
<1>7. CASE ~ (ServeRead \/ ServeOther \/ ReadPayload)
  BY <1>2, <1>7 DEF Next, Parent, Submit, SendDisc, Interrupt, SetSock, ClearQueue, SendRequest, SendData,
       ReceiveReply, ReceiveData, Hangup, Setup, OpenDevice, ServeWrite, ServeDisc, ReadShortHeader, EndOfRequests,
       WriteReply, WriteData, AssertFails, parent
<1> QED BY <1>4, <1>5, <1>6, <1>7

(* A request never goes back to what it was before it was submitted. *)
LEMMA StatusKept ==
  ASSUME IInv, Next, NEW g \in Handles
  PROVE  /\ status[g] # "none" => status'[g] # "none"
         /\ Requests[g].type # "read" => answer'[g] = answer[g]
<1>1. TypeOK
  BY DEF IInv
<1>2. CASE Submit
  BY <1>1, <1>2 DEF Submit, TypeOK
<1>3. CASE ClearQueue
  BY <1>1, <1>3 DEF ClearQueue, TypeOK
<1>4. CASE ReceiveReply
  BY <1>1, <1>4 DEF ReceiveReply, TypeOK
<1>5. CASE ReceiveData
  <2>1. receiving[1] \in Handles /\ Requests[receiving[1]].type = "read"
    BY <1>5, AnswerFound DEF ReceiveData
  <2>2. \/ UNCHANGED << status, answer >>
        \/ /\ status' = [status EXCEPT ![receiving[1]] = "ok"]
           /\ answer' = [answer EXCEPT ![receiving[1]] = Append(receiving[2], Head(up)[2])]
    BY <1>5 DEF ReceiveData
  <2> QED BY <1>1, <2>1, <2>2 DEF TypeOK
<1>6. CASE ~ (Submit \/ ClearQueue \/ ReceiveReply \/ ReceiveData)
  <2>1. UNCHANGED << status, answer >>
    BY <1>6, ParentTouches DEF Next, SendDisc, Interrupt, SetSock, SendRequest, SendData, Hangup
  <2> QED BY <2>1
<1> QED BY <1>2, <1>3, <1>4, <1>5, <1>6

(* Effects have the form of what their requests return. *)
LEMMA EffectsStep ==
  ASSUME IInv, Next
  PROVE  Effects'
<1>1. TypeOK /\ Effects
  BY DEF IInv
<1>2. ASSUME NEW g \in Handles,
             effect'[g] = effect[g] \/
               /\ status[g] # "none"
               /\ Len(effect'[g]) = 1
               /\ Len(effect'[g][1]) = IF Requests[g].type = "read" THEN Requests[g].len ELSE 0
      PROVE  /\ effect'[g] # << >> =>
                  /\ Len(effect'[g]) = 1
                  /\ Len(effect'[g][1]) = IF Requests[g].type = "read" THEN Requests[g].len ELSE 0
             /\ status'[g] = "none" => effect'[g] = << >>
             /\ Requests[g].type # "read" => answer'[g] = << >>
  <2>1. /\ status[g] # "none" => status'[g] # "none"
        /\ Requests[g].type # "read" => answer'[g] = answer[g]
    BY StatusKept
  <2> QED BY <1>1, <1>2, <2>1 DEF Effects
<1>3. SUFFICES ASSUME NEW g \in Handles
               PROVE  effect'[g] = effect[g] \/
                        /\ status[g] # "none"
                        /\ Len(effect'[g]) = 1
                        /\ Len(effect'[g][1]) = IF Requests[g].type = "read" THEN Requests[g].len ELSE 0
  BY <1>2 DEF Effects
<1>4. ASSUME NEW h \in Handles, NEW what, ReadRequest(h) \/ (pc = "payload" /\ handle = h),
             effect' = [effect EXCEPT ![h] = << what >>],
             Len(what) = IF Requests[h].type = "read" THEN Requests[h].len ELSE 0
      PROVE  effect'[g] = effect[g] \/
               /\ status[g] # "none"
               /\ Len(effect'[g]) = 1
               /\ Len(effect'[g][1]) = IF Requests[g].type = "read" THEN Requests[g].len ELSE 0
  <2>1. status[h] # "none"
    BY <1>4, ServedOnce, HeadSent
  <2>2. g # h => effect'[g] = effect[g]
    BY <1>1, <1>4 DEF TypeOK
  <2>3. g = h => effect'[g] = << what >>
    BY <1>1, <1>4 DEF TypeOK
  <2>4. Len(<< what >>) = 1 /\ << what >>[1] = what
    OBVIOUS
  <2> QED BY <1>4, <2>1, <2>2, <2>3, <2>4
<1>5. CASE ServeRead
  <2>1. PICK h \in Handles :
          /\ ReadRequest(h)
          /\ Requests[h].type = "read"
          /\ \/ /\ chunk' = [i \in 1 .. Requests[h].len |-> data[Requests[h].from + i - 1]]
                /\ effect' = [effect EXCEPT ![h] = << chunk' >>]
             \/ UNCHANGED effect
    BY <1>5 DEF ServeRead, Carried
  <2>2. CASE UNCHANGED effect
    BY <2>2
  <2>3. CASE /\ chunk' = [i \in 1 .. Requests[h].len |-> data[Requests[h].from + i - 1]]
             /\ effect' = [effect EXCEPT ![h] = << chunk' >>]
    <3>1. Len(chunk') = Requests[h].len
      BY <2>3, RequestType
    <3> QED BY <1>4, <2>1, <2>3, <3>1
  <2> QED BY <2>1, <2>2, <2>3
<1>6. CASE ServeOther
  BY <1>4, <1>6, EmptySeq DEF ServeOther, Carried
<1>7. CASE ReadPayload
  <2>1. pc = "payload" /\ handle \in Handles /\ Requests[handle].type = "write"
    BY <1>1, <1>7 DEF ReadPayload, TypeOK, IInv, Serving
  <2>2. effect' = effect \/ effect' = [effect EXCEPT ![handle] = << << >> >>]
    BY <1>7 DEF ReadPayload, Carried
  <2>3. CASE effect' = [effect EXCEPT ![handle] = << << >> >>]
    BY <1>4, <2>1, <2>3, EmptySeq
  <2> QED BY <2>2, <2>3
<1>8. CASE ~ (ServeRead \/ ServeOther \/ ReadPayload)
  BY <1>8 DEF Next, Parent, Submit, SendDisc, Interrupt, SetSock, ClearQueue, SendRequest, SendData,
       ReceiveReply, ReceiveData, Hangup, Setup, OpenDevice, ServeWrite, ServeDisc, ReadShortHeader, EndOfRequests,
       WriteReply, WriteData, AssertFails, parent
<1> QED BY <1>5, <1>6, <1>7, <1>8

(* Replies and answers stay what was returned. *)
LEMMA AnswersStep ==
  ASSUME IInv, Next
  PROVE  Answers'
<1> DEFINE Up(s) == \A i \in DOMAIN s :
                      /\ s[i][1] # "request"
                      /\ s[i][1] = "reply" =>
                           /\ s[i][3] = 0 => effect[s[i][2]] # << >>
                           /\ HasRead /\ HasWrite => s[i][3] = 0
           Got(r) == r # Nobody =>
                       /\ r[1] \in Handles
                       /\ Requests[r[1]].type = "read"
                       /\ effect[r[1]] # << >>
                       /\ Len(r[2]) < Requests[r[1]].len
                       /\ \A k \in 1 .. Len(r[2]) : r[2][k] = effect[r[1]][1][k]
<1>1. TypeOK /\ Answers /\ Serving /\ RepliedOnce
  BY DEF IInv
<1>2. up \in Seq(Items)
  BY <1>1 DEF TypeOK
<1>3. Up(up')
  <2>1. CASE up' = up
    BY <1>1, <2>1 DEF Answers
  <2>2. CASE up # << >> /\ up' = Tail(up)
    <3>1. \A i \in DOMAIN up' : \E j \in DOMAIN up : up'[i] = up[j]
      BY <1>1, <1>2, <2>2, UpTaken
    <3> QED BY <1>1, <3>1 DEF Answers
  <2>3. CASE WriteReply
    <3> DEFINE x == ReplyItem(handle, error)
    <3>1. pc = "reply" /\ handle \in Handles /\ up' = Append(up, x)
      BY <1>1, <2>3 DEF WriteReply, TypeOK
    <3>2. x \in Items /\ x[1] = "reply" /\ x[2] = handle /\ x[3] = error
      BY <1>1, <3>1, Made DEF TypeOK
    <3>3. (error = 0 => effect[handle] # << >>) /\ (HasRead /\ HasWrite => error = 0)
      BY <1>1, <3>1 DEF Serving
    <3> HIDE DEF x
    <3>4. \A i \in DOMAIN up' : (i \in DOMAIN up /\ up'[i] = up[i]) \/ up'[i] = x
      BY <1>2, <3>1, <3>2, UpAppended
    <3> QED BY <1>1, <3>2, <3>3, <3>4 DEF Answers
  <2>4. CASE WriteData
    <3> DEFINE x == DataItem(Head(chunk))
    <3>1. chunk # << >> /\ chunk \in Seq(Values) /\ up' = Append(up, x)
      BY <1>1, <2>4 DEF WriteData, Serving, TypeOK
    <3>2. x \in Items /\ x[1] = "data"
      BY <3>1, TailIndex, Made
    <3> HIDE DEF x
    <3>3. \A i \in DOMAIN up' : (i \in DOMAIN up /\ up'[i] = up[i]) \/ up'[i] = x
      BY <1>2, <3>1, <3>2, UpAppended
    <3> QED BY <1>1, <3>2, <3>3 DEF Answers
  <2>5. CASE ~ (WriteReply \/ WriteData)
    BY <2>1, <2>2, <2>5 DEF Next, Parent, Submit, SendDisc, Interrupt, SetSock, ClearQueue, SendRequest, SendData,
         ReceiveReply, ReceiveData, Hangup, Setup, OpenDevice, ServeRead, ServeWrite, ServeOther, ServeDisc,
         ReadShortHeader, EndOfRequests, ReadPayload, AssertFails, ReadRequest, parent, outside
  <2> QED BY <2>3, <2>4, <2>5
<1>4. Got(receiving')
  <2>1. CASE receiving' = receiving \/ receiving' = Nobody
    BY <1>1, <2>1 DEF Answers
  <2>2. CASE ReceiveReply
    <3> DEFINE h == Head(up)[2]
    <3>1. SUFFICES ASSUME ~ (receiving' = receiving) PROVE Got(receiving')
      BY <2>1
    <3>2. /\ up # << >> /\ up' = Tail(up) /\ IsReply(Head(up)) /\ Head(up)[3] = 0
          /\ Requests[h].type = "read" /\ receiving' = << h, << >> >>
      BY <2>2, <3>1 DEF ReceiveReply
    <3>3. h \in Handles /\ Head(up)[1] = "reply"
      BY <3>2 DEF IsReply, Waiting
    <3>4. \E i \in DOMAIN up : up[i] = Head(up)
      BY <1>1, <1>2, <3>2, UpTaken
    <3>5. effect[h] # << >>
      BY <1>1, <3>2, <3>3, <3>4 DEF Answers
    <3>6. Requests[h].len > 0 /\ Len(<< >>) = 0
      BY <3>2, <3>3, RequestType, EmptySeq
    <3> HIDE DEF h
    <3>7. 1 .. Len(<< >>) = {}
      BY <3>6
    <3> QED BY <3>2, <3>3, <3>5, <3>6, <3>7
  <2>3. CASE ReceiveData
    <3> DEFINE h == receiving[1]
               n == Len(receiving[2])
               d == effect[h][1]
               got == Append(receiving[2], Head(up)[2])
    <3>1. /\ h \in Handles /\ Requests[h].type = "read" /\ effect[h] # << >>
          /\ receiving[2] \in Seq(Values) /\ n \in Nat
          /\ Head(up) = DataItem(d[n + 1]) /\ d[n + 1] \in Values
      BY <2>3, AnswerFound DEF ReceiveData
    <3>2. SUFFICES ASSUME receiving' # Nobody PROVE Got(receiving')
      BY <2>1
    <3>3. Len(got) < Requests[h].len /\ receiving' = << h, got >>
      BY <2>3, <3>2 DEF ReceiveData
    <3>4. Head(up)[2] = d[n + 1]
      BY <3>1, Made
    <3>5. /\ Len(got) = n + 1
          /\ \A i \in 1 .. n : got[i] = receiving[2][i]
          /\ got[n + 1] = d[n + 1]
      BY <3>1, <3>4, AppendIndex
    <3>6. \A i \in 1 .. n : receiving[2][i] = d[i]
      BY <1>1, <2>3 DEF Answers, ReceiveData
    <3> HIDE DEF got, d, n
    <3>7. \A k \in 1 .. Len(got) : got[k] = d[k]
      <4>1. \A k \in 1 .. Len(got) : k \in 1 .. n \/ k = n + 1
        BY <3>1, <3>5
      <4> QED BY <3>5, <3>6, <4>1
    <3> QED BY <3>1, <3>3, <3>7 DEF d
  <2>4. CASE ~ (ReceiveReply \/ ReceiveData)
    <3>1. receiving' = receiving \/ receiving' = Nobody
      BY <2>4, ParentTouches DEF Next, Submit, SendDisc, Interrupt, SetSock, ClearQueue, SendRequest, SendData,
         Hangup, driver
    <3> QED BY <2>1, <3>1
  <2> QED BY <2>2, <2>3, <2>4
<1>5. \A g \in Handles : effect[g] # << >> => effect'[g] = effect[g]
  BY EffectsKept
<1>6. ASSUME NEW i \in DOMAIN up', up'[i][1] = "reply"
      PROVE  up'[i][2] \in Handles
  <2>1. up' \in Seq(Items)
    BY TypeStepOutside, TypeStepParent DEF Next, TypeOK
  <2>2. up'[i] \in Items
    BY <2>1, LenProperties, ElementOfSeq
  <2> QED BY <1>6, <2>2, Kinds
<1>7. ASSUME NEW i \in DOMAIN up'
      PROVE  /\ up'[i][1] # "request"
             /\ up'[i][1] = "reply" =>
                  (up'[i][3] = 0 => effect'[up'[i][2]] # << >>) /\ (HasRead /\ HasWrite => up'[i][3] = 0)
  BY <1>3, <1>5, <1>6
<1>8. receiving' # Nobody =>
        /\ receiving'[1] \in Handles
        /\ Requests[receiving'[1]].type = "read"
        /\ effect'[receiving'[1]] # << >>
        /\ Len(receiving'[2]) < Requests[receiving'[1]].len
        /\ \A k \in 1 .. Len(receiving'[2]) : receiving'[2][k] = effect'[receiving'[1]][1][k]
  BY <1>4, <1>5
<1> QED BY <1>7, <1>8 DEF Answers, Nobody

-----------------------------------------------------------------------------
(* Places *)

(* What stays where it is. *)
LEMMA Unmoved ==
  /\ UNCHANGED queue => (QueuedOnce => QueuedOnce') /\ \A g \in Handles : Queued(g)' <=> Queued(g)
  /\ UNCHANGED down =>
       (SentOnce => SentOnce') /\ \A g \in Handles \cup {DiscHandle} : Sent(g)' <=> Sent(g)
  /\ UNCHANGED up => (RepliedOnce => RepliedOnce') /\ \A g \in Handles : Replied(g)' <=> Replied(g)
BY DEF QueuedOnce, SentOnce, RepliedOnce, Queued, Sent, Replied

(* Where the requests are. *)
Places == QueuedOnce /\ SentOnce /\ RepliedOnce /\ Apart /\ Awaited

(* Nothing moves where the child goes on, or where the parent does something *)
(* that is not part of a request.                                          *)
LEMMA PlacesStay ==
  ASSUME IInv,
         UNCHANGED << queue, down, up, receiving, effect, status >>,
         UNCHANGED << pc, handle >> \/ pc' \notin {"payload", "reply"},
         conn = "cleared" => conn' = "cleared"
  PROVE  Places'
<1>1. QueuedOnce /\ SentOnce /\ RepliedOnce /\ Apart /\ Awaited
  BY DEF IInv
<1>2. /\ QueuedOnce' /\ SentOnce' /\ RepliedOnce'
      /\ \A g \in Handles : (Queued(g)' <=> Queued(g)) /\ (Sent(g)' <=> Sent(g)) /\ (Replied(g)' <=> Replied(g))
  BY <1>1, Unmoved
<1>3. Apart'
  BY <1>1, <1>2 DEF Apart, Before, After
<1>4. Awaited'
  BY <1>1, <1>2 DEF Awaited, Before, After
<1> QED BY <1>2, <1>3, <1>4 DEF Places

(* A submitted request waits in the queue. *)
LEMMA PlacesSubmit ==
  ASSUME IInv, Submit
  PROVE  Places'
<1>1. QueuedOnce /\ SentOnce /\ RepliedOnce /\ Apart /\ Awaited /\ Effects /\ TypeOK /\ Phases
  BY DEF IInv
<1>2. PICK h \in Handles :
        /\ status[h] = "none"
        /\ IF conn = "cleared"
           THEN status' = [status EXCEPT ![h] = "error"] /\ UNCHANGED queue
           ELSE status' = [status EXCEPT ![h] = "waiting"] /\ queue' = Append(queue, h)
  BY DEF Submit
<1>3. UNCHANGED << down, up, receiving, effect, pc, handle, conn >>
  BY DEF Submit, parent
<1>4. ~Before(h) /\ ~After(h) /\ effect[h] = << >>
  BY <1>1, <1>2 DEF Awaited, Effects
<1>5. /\ SentOnce' /\ RepliedOnce'
      /\ \A g \in Handles : (Sent(g)' <=> Sent(g)) /\ (Replied(g)' <=> Replied(g))
  BY <1>1, <1>3, Unmoved
<1>6. \A g \in Handles : g # h => status'[g] = status[g]
  BY <1>1, <1>2 DEF TypeOK
<1>7. CASE conn = "cleared"
  <2>1. UNCHANGED queue /\ status'[h] = "error"
    BY <1>1, <1>2, <1>7 DEF TypeOK
  <2>2. QueuedOnce' /\ \A g \in Handles : Queued(g)' <=> Queued(g)
    BY <1>1, <2>1, Unmoved
  <2>3. Apart'
    BY <1>1, <1>3, <1>5, <2>2 DEF Apart, Before, After
  <2>4. Awaited'
    BY <1>1, <1>3, <1>4, <1>5, <1>6, <1>7, <2>1, <2>2 DEF Awaited, Before, After
  <2> QED BY <1>5, <2>2, <2>3, <2>4 DEF Places
<1>8. CASE conn # "cleared"
  <2>1. queue \in Seq(Handles) /\ queue' = Append(queue, h) /\ status'[h] = "waiting"
    BY <1>1, <1>2, <1>8 DEF TypeOK
  <2>2. QueuedOnce' /\ \A g \in Handles : Queued(g)' <=> Queued(g) \/ g = h
    BY <1>1, <1>4, <2>1, QueueAppended DEF Before
  <2>3. Apart'
    BY <1>1, <1>3, <1>4, <1>5, <2>2 DEF Apart, Before, After
  <2>4. Awaited'
    BY <1>1, <1>3, <1>4, <1>5, <1>6, <2>1, <2>2 DEF Awaited, Before, After
  <2> QED BY <1>5, <2>2, <2>3, <2>4 DEF Places
<1> QED BY <1>7, <1>8

(* The driver's other steps: what is sent leaves the queue. *)
LEMMA PlacesSend ==
  ASSUME IInv, SendRequest \/ SendData \/ SendDisc, SendDisc => ~Sent(DiscHandle)
  PROVE  Places'
<1>1. QueuedOnce /\ SentOnce /\ RepliedOnce /\ Apart /\ Awaited /\ TypeOK
  BY DEF IInv
<1>2. UNCHANGED << up, receiving, effect, pc, handle, conn, status >>
  BY DEF SendRequest, SendData, SendDisc, parent
<1>3. RepliedOnce' /\ \A g \in Handles : Replied(g)' <=> Replied(g)
  BY <1>1, <1>2, Unmoved
<1>4. down \in Seq(Items) /\ queue \in Seq(Handles) /\ sending \in Seq(Values)
  BY <1>1 DEF TypeOK
<1>5. CASE SendRequest
  <2> DEFINE h == Head(queue)
             x == RequestItem(h)
  <2>1. queue # << >> /\ queue' = Tail(queue) /\ down' = Append(down, x)
    BY <1>5 DEF SendRequest
  <2>2. /\ h \in Handles /\ Queued(h)
        /\ QueuedOnce' /\ \A g \in Handles : Queued(g)' <=> Queued(g) /\ g # h
    BY <1>1, <1>4, <2>1, QueueTaken
  <2>3. x \in Items /\ x[2] = h /\ \A g \in Handles : x = RequestItem(g) => g = h
    BY <2>2, Made
  <2>4. ~Sent(h)
    BY <1>1, <2>2 DEF Apart
  <2> HIDE DEF h, x
  <2>5. SentOnce' /\ \A g \in Handles : Sent(g)' <=> Sent(g) \/ x = RequestItem(g)
    BY <1>1, <1>4, <2>1, <2>3, <2>4, DownAppended
  <2>6. \A g \in Handles : Sent(g)' <=> Sent(g) \/ g = h
    BY <2>3, <2>5 DEF x
  <2>7. Apart'
    BY <1>1, <1>2, <1>3, <2>2, <2>6 DEF Apart, Before, After
  <2>8. Awaited'
    BY <1>1, <1>2, <1>3, <2>2, <2>6 DEF Awaited, Before, After
  <2> QED BY <1>3, <2>2, <2>5, <2>7, <2>8 DEF Places
<1>6. CASE SendData \/ SendDisc
  <2>1. UNCHANGED queue
    BY <1>6 DEF SendData, SendDisc
  <2>2. PICK x \in Items : /\ down' = Append(down, x)
                           /\ x[1] = "request" => ~Sent(x[2])
                           /\ \A g \in Handles : x # RequestItem(g)
    <3>1. CASE SendData
      <4>1. DataItem(Head(sending)) \in Items /\ DataItem(Head(sending))[1] = "data"
        BY <1>4, <3>1, TailIndex, Made DEF SendData
      <4>2. \A g \in Handles : RequestItem(g)[1] = "request"
        BY Made
      <4> QED BY <3>1, <4>1, <4>2 DEF SendData
    <3>2. CASE SendDisc
      BY <3>2, Made, HandlesOnly DEF SendDisc
    <3> QED BY <1>6, <3>1, <3>2
  <2>3. SentOnce' /\ \A g \in Handles : Sent(g)' <=> Sent(g)
    BY <1>1, <1>4, <2>2, DownAppended
  <2>4. QueuedOnce' /\ \A g \in Handles : Queued(g)' <=> Queued(g)
    BY <1>1, <2>1, Unmoved
  <2>5. Apart'
    BY <1>1, <1>2, <1>3, <2>3, <2>4 DEF Apart, Before, After
  <2>6. Awaited'
    BY <1>1, <1>2, <1>3, <2>3, <2>4 DEF Awaited, Before, After
  <2> QED BY <1>3, <2>3, <2>4, <2>5, <2>6 DEF Places
<1> QED BY <1>5, <1>6

(* The child drops what the driver has not sent. *)
LEMMA PlacesClear ==
  ASSUME IInv, ClearQueue
  PROVE  Places'
<1>1. QueuedOnce /\ SentOnce /\ RepliedOnce /\ Apart /\ Awaited /\ TypeOK
  BY DEF IInv
<1>2. /\ queue' = << >> /\ receiving' = Nobody /\ conn' = "cleared"
      /\ UNCHANGED << down, up, effect, pc, handle >>
  BY DEF ClearQueue, parent
<1>3. /\ SentOnce' /\ RepliedOnce'
      /\ \A g \in Handles : (Sent(g)' <=> Sent(g)) /\ (Replied(g)' <=> Replied(g))
  BY <1>1, <1>2, Unmoved
<1>4. QueuedOnce' /\ \A g \in Handles : ~Queued(g)'
  BY <1>2 DEF QueuedOnce, Queued
<1>5. \A g \in Handles : receiving'[1] # g
  BY <1>2, HandlesOnly DEF Nobody
<1>6. Apart'
  BY <1>1, <1>2, <1>3, <1>4, <1>5 DEF Apart, Before, After
<1>7. \A g \in Handles : status[g] # "none" => status'[g] # "none"
  BY <1>1 DEF ClearQueue, TypeOK
<1>8. Awaited'
  BY <1>1, <1>2, <1>3, <1>4, <1>5, <1>7 DEF Awaited, Before, After
<1> QED BY <1>3, <1>4, <1>6, <1>8 DEF Places

(* The driver receives a reply, or what it does not take for one. *)
LEMMA PlacesReply ==
  ASSUME IInv, ReceiveReply
  PROVE  Places'
<1>1. QueuedOnce /\ SentOnce /\ RepliedOnce /\ Apart /\ Awaited /\ TypeOK
  BY DEF IInv
<1>2. /\ up # << >> /\ up' = Tail(up) /\ conn = "connected" /\ receiving = Nobody
      /\ UNCHANGED << queue, down, effect, pc, handle >>
  BY DEF ReceiveReply, parent
<1>3. /\ QueuedOnce' /\ SentOnce'
      /\ \A g \in Handles : (Queued(g)' <=> Queued(g)) /\ (Sent(g)' <=> Sent(g))
  BY <1>1, <1>2, Unmoved
<1>4. up \in Seq(Items)
  BY <1>1 DEF TypeOK
<1>5. /\ RepliedOnce'
      /\ \A g \in Handles :
           /\ Head(up)[1] = "reply" /\ Head(up)[2] = g => Replied(g)
           /\ Replied(g)' <=> Replied(g) /\ ~ (Head(up)[1] = "reply" /\ Head(up)[2] = g)
  BY <1>1, <1>2, <1>4, UpTaken
<1>6. \A g \in Handles : receiving[1] # g
  BY <1>2, HandlesOnly DEF Nobody
<1>7. CASE IsReply(Head(up))
  <2> DEFINE h == Head(up)[2]
  <2>1. h \in Handles /\ Head(up)[1] = "reply"
    BY <1>7 DEF IsReply, Waiting
  <2>2. \/ receiving' = receiving /\ status' \in {[status EXCEPT ![h] = "error"], [status EXCEPT ![h] = "ok"]}
        \/ receiving' = << h, << >> >> /\ UNCHANGED status
    BY <1>7 DEF ReceiveReply
  <2> HIDE DEF h
  <2>3. \A g \in Handles : g # h => receiving'[1] # g /\ status'[g] = status[g]
    BY <1>1, <1>6, <2>1, <2>2 DEF TypeOK
  <2>4. Replied(h) /\ \A g \in Handles : Replied(g)' <=> Replied(g) /\ g # h
    BY <1>5, <2>1 DEF h
  <2>5. receiving'[1] = h => UNCHANGED status
    BY <1>6, <2>1, <2>2
  <2>6. Apart'
    BY <1>1, <1>2, <1>3, <2>1, <2>3, <2>4 DEF Apart, Before, After
  <2>7. conn' # "cleared"
    BY <1>2 DEF ReceiveReply
  <2>8. ASSUME NEW g \in Handles, Before(g)' \/ After(g)'
        PROVE  status'[g] = status[g]
    <3>1. CASE g = h
      <4>1. receiving'[1] = h
        BY <1>1, <1>2, <1>3, <2>1, <2>4, <2>8, <3>1 DEF Apart, Before, After
      <4> QED BY <2>5, <4>1
    <3> QED BY <2>3, <3>1
  <2>9. \A g \in Handles : (Before(g)' => Before(g)) /\ (Before(g)' \/ After(g)' => Before(g) \/ After(g))
    BY <1>2, <1>3, <1>6, <2>1, <2>3, <2>4 DEF Before, After
  <2>10. Awaited'
    BY <1>1, <1>2, <2>7, <2>8, <2>9 DEF Awaited
  <2> QED BY <1>3, <1>5, <2>6, <2>10 DEF Places
<1>8. CASE ~IsReply(Head(up))
  <2>1. UNCHANGED << status, receiving >> /\ conn' = "down"
    BY <1>8 DEF ReceiveReply
  <2>2. Apart'
    BY <1>1, <1>2, <1>3, <1>5, <2>1 DEF Apart, Before, After
  <2>3. \A g \in Handles : (Before(g)' => Before(g)) /\ (Before(g)' \/ After(g)' => Before(g) \/ After(g))
    BY <1>2, <1>3, <1>5, <2>1 DEF Before, After
  <2>4. Awaited'
    BY <1>1, <1>2, <2>1, <2>3 DEF Awaited
  <2> QED BY <1>3, <1>5, <2>2, <2>4 DEF Places
<1> QED BY <1>7, <1>8

(* The driver receives data of a read. *)
LEMMA PlacesData ==
  ASSUME IInv, ReceiveData
  PROVE  Places'
<1>1. QueuedOnce /\ SentOnce /\ RepliedOnce /\ Apart /\ Awaited /\ TypeOK
  BY DEF IInv
<1> DEFINE h == receiving[1]
<1>2. /\ up # << >> /\ up' = Tail(up)
      /\ UNCHANGED << queue, down, effect, pc, handle, conn >>
      /\ \/ receiving'[1] = h /\ UNCHANGED status
         \/ receiving' = Nobody /\ status' = [status EXCEPT ![h] = "ok"]
  BY DEF ReceiveData, parent
<1>3. /\ QueuedOnce' /\ SentOnce'
      /\ \A g \in Handles : (Queued(g)' <=> Queued(g)) /\ (Sent(g)' <=> Sent(g))
  BY <1>1, <1>2, Unmoved
<1>4. h \in Handles /\ \E v \in Values : Head(up) = DataItem(v)
  BY AnswerFound DEF ReceiveData
<1>5. up \in Seq(Items) /\ Head(up)[1] = "data"
  BY <1>1, <1>4, Made DEF TypeOK
<1>6. RepliedOnce' /\ \A g \in Handles : Replied(g)' <=> Replied(g)
  BY <1>1, <1>2, <1>5, UpTaken
<1> HIDE DEF h
<1>7. \A g \in Handles : g # h => status'[g] = status[g] /\ receiving'[1] # g
  BY <1>1, <1>2, HandlesOnly DEF TypeOK, Nobody
<1>8. receiving'[1] = h => UNCHANGED status
  BY <1>2, <1>4, HandlesOnly DEF Nobody
<1>9. Apart'
  BY <1>1, <1>2, <1>3, <1>6, <1>7 DEF Apart, Before, After, h
<1>10. ASSUME NEW g \in Handles, Before(g)' \/ After(g)'
       PROVE  status'[g] = status[g]
  <2>1. CASE g = h
    <3>1. receiving'[1] = h
      BY <1>1, <1>2, <1>3, <1>4, <1>6, <1>10, <2>1 DEF Apart, Before, After, h
    <3> QED BY <1>8, <3>1
  <2> QED BY <1>7, <2>1
<1>11. \A g \in Handles : (Before(g)' => Before(g)) /\ (Before(g)' \/ After(g)' => Before(g) \/ After(g))
  BY <1>2, <1>3, <1>6, <1>7 DEF Before, After, h
<1>12. Awaited'
  BY <1>1, <1>2, <1>10, <1>11 DEF Awaited
<1> QED BY <1>3, <1>6, <1>9, <1>12 DEF Places

(* The parent takes the header of a request and serves it. *)
LEMMA PlacesServe ==
  ASSUME IInv, NEW h \in Handles, ReadRequest(h),
         pc' \in {"payload", "reply"},
         pc' = "payload" => UNCHANGED effect,
         \A g \in Handles : g # h => effect'[g] = effect[g]
  PROVE  Places'
<1>1. QueuedOnce /\ SentOnce /\ RepliedOnce /\ Apart /\ Awaited /\ TypeOK
  BY DEF IInv
<1>2. /\ down # << >> /\ down' = Tail(down) /\ Head(down) = RequestItem(h) /\ handle' = h /\ pc = "request"
      /\ UNCHANGED << queue, up, receiving, status, conn >>
  BY <1>1, HeadRequest DEF ReadRequest, outside, driver
<1>3. /\ QueuedOnce' /\ RepliedOnce'
      /\ \A g \in Handles : (Queued(g)' <=> Queued(g)) /\ (Replied(g)' <=> Replied(g))
  BY <1>1, <1>2, Unmoved
<1>4. down \in Seq(Items)
  BY <1>1 DEF TypeOK
<1>5. SentOnce' /\ \A g \in Handles : Sent(g)' <=> Sent(g) /\ Head(down) # RequestItem(g)
  BY <1>1, <1>2, <1>4, DownTaken
<1>6. \A g \in Handles : RequestItem(h) = RequestItem(g) <=> g = h
  BY DEF RequestItem
<1>7. Sent(h) /\ \A g \in Handles : Sent(g)' <=> Sent(g) /\ g # h
  BY <1>2, <1>5, <1>6, HeadSent
<1>8. effect[h] = << >> /\ ~Queued(h) /\ ~After(h)
  BY <1>7, ServedOnce
<1>9. Apart'
  BY <1>1, <1>2, <1>3, <1>7, <1>8 DEF Apart, Before, After
<1>10. ASSUME NEW g \in Handles, Before(g)'
       PROVE  Before(g) /\ effect'[g] = << >>
  <2>1. CASE g = h
    <3>1. pc' = "payload"
      BY <1>2, <1>3, <1>7, <1>8, <1>10, <2>1 DEF Before
    <3> QED BY <1>7, <1>8, <2>1, <3>1 DEF Before
  <2>2. CASE g # h
    <3>1. Before(g)
      BY <1>2, <1>3, <1>7, <1>10, <2>2 DEF Before
    <3> QED BY <1>1, <2>2, <3>1 DEF Awaited
  <2> QED BY <2>1, <2>2
<1>11. ASSUME NEW g \in Handles, After(g)'
       PROVE  Before(g) \/ After(g)
  BY <1>2, <1>3, <1>7, <1>11 DEF Before, After
<1>12. Awaited'
  BY <1>1, <1>2, <1>10, <1>11 DEF Awaited
<1> QED BY <1>3, <1>5, <1>9, <1>12 DEF Places

(* The parent reads the data of a write. *)
LEMMA PlacesPayload ==
  ASSUME IInv, ReadPayload
  PROVE  Places'
<1>1. QueuedOnce /\ SentOnce /\ RepliedOnce /\ Apart /\ Awaited /\ TypeOK
  BY DEF IInv
<1>2. /\ pc = "payload" /\ down # << >> /\ down' = Tail(down)
      /\ UNCHANGED << queue, up, receiving, status, conn, handle >>
  BY DEF ReadPayload, outside, driver
<1>3. /\ QueuedOnce' /\ RepliedOnce'
      /\ \A g \in Handles : (Queued(g)' <=> Queued(g)) /\ (Replied(g)' <=> Replied(g))
  BY <1>1, <1>2, Unmoved
<1>4. handle \in Handles /\ \E v \in Values : Head(down) = DataItem(v)
  BY <1>2, PayloadFound
<1>5. down \in Seq(Items) /\ Head(down)[1] = "data"
  BY <1>1, <1>4, Made DEF TypeOK
<1>6. SentOnce' /\ \A g \in Handles : Sent(g)' <=> Sent(g) /\ Head(down) # RequestItem(g)
  BY <1>1, <1>2, <1>5, DownTaken
<1>7. \A g \in Handles : Sent(g)' <=> Sent(g)
  BY <1>5, <1>6, Made
<1>8. \/ pc' = "payload" /\ UNCHANGED effect
      \/ pc' = "reply" /\ effect' \in {effect, [effect EXCEPT ![handle] = << << >> >>]}
  BY <1>2 DEF ReadPayload, Carried
<1>9. ~Queued(handle) /\ ~Sent(handle) /\ ~After(handle)
  BY <1>1, <1>2, <1>4 DEF Apart, Before
<1>10. Apart'
  <2>1. CASE pc' = "payload"
    BY <1>1, <1>2, <1>3, <1>7, <2>1 DEF Apart, Before, After
  <2>2. CASE pc' = "reply"
    BY <1>1, <1>2, <1>3, <1>7, <1>9, <2>2 DEF Apart, Before, After
  <2> QED BY <1>8, <2>1, <2>2
<1>11. ASSUME NEW g \in Handles, Before(g)'
       PROVE  Before(g) /\ effect'[g] = << >>
  <2>1. Before(g)
    BY <1>2, <1>3, <1>7, <1>11 DEF Before
  <2>2. pc' = "reply" => g # handle
    BY <1>2, <1>3, <1>7, <1>9, <1>11 DEF Before
  <2>3. effect'[g] = effect[g]
    BY <1>1, <1>8, <2>2 DEF TypeOK
  <2> QED BY <1>1, <2>1, <2>3 DEF Awaited
<1>12. ASSUME NEW g \in Handles, After(g)'
       PROVE  Before(g) \/ After(g)
  BY <1>2, <1>3, <1>7, <1>12 DEF Before, After
<1>13. Awaited'
  BY <1>1, <1>2, <1>11, <1>12 DEF Awaited
<1> QED BY <1>3, <1>6, <1>10, <1>13 DEF Places

(* The parent writes a reply or data of a read. *)
LEMMA PlacesWrite ==
  ASSUME IInv, WriteReply \/ WriteData
  PROVE  Places'
<1>1. QueuedOnce /\ SentOnce /\ RepliedOnce /\ Apart /\ Awaited /\ TypeOK
  BY DEF IInv
<1>2. UNCHANGED << queue, down, receiving, status, conn, handle, effect >> /\ pc' \notin {"payload", "reply"}
  BY DEF WriteReply, WriteData, outside, driver
<1>3. /\ QueuedOnce' /\ SentOnce'
      /\ \A g \in Handles : (Queued(g)' <=> Queued(g)) /\ (Sent(g)' <=> Sent(g))
  BY <1>1, <1>2, Unmoved
<1>4. up \in Seq(Items)
  BY <1>1 DEF TypeOK
<1>5. CASE WriteReply
  <2> DEFINE x == ReplyItem(handle, error)
  <2>1. pc = "reply" /\ handle \in Handles /\ up' = Append(up, x)
    BY <1>1, <1>5 DEF WriteReply, TypeOK
  <2>2. x \in Items /\ x[1] = "reply" /\ x[2] = handle
    BY <1>1, <2>1, Made DEF TypeOK
  <2>3. ~Replied(handle) /\ ~Before(handle) /\ receiving[1] # handle
    BY <1>1, <2>1 DEF Apart, After
  <2> HIDE DEF x
  <2>4. RepliedOnce' /\ \A g \in Handles : Replied(g)' <=> Replied(g) \/ g = handle
    BY <1>1, <1>4, <2>1, <2>2, <2>3, UpAppended
  <2>5. Apart'
    BY <1>1, <1>2, <1>3, <2>1, <2>3, <2>4 DEF Apart, Before, After
  <2>6. Awaited'
    BY <1>1, <1>2, <1>3, <2>1, <2>4 DEF Awaited, Before, After
  <2> QED BY <1>3, <2>4, <2>5, <2>6 DEF Places
<1>6. CASE WriteData
  <2>1. /\ DataItem(Head(chunk)) \in Items /\ DataItem(Head(chunk))[1] = "data" /\ pc = "data"
        /\ up' = Append(up, DataItem(Head(chunk)))
    BY <1>1, <1>6, TailIndex, Made DEF WriteData, IInv, Serving, TypeOK
  <2>2. RepliedOnce' /\ \A g \in Handles : Replied(g)' <=> Replied(g)
    BY <1>1, <1>4, <2>1, UpAppended
  <2>3. Apart'
    BY <1>1, <1>2, <1>3, <2>2 DEF Apart, Before, After
  <2>4. Awaited'
    BY <1>1, <1>2, <1>3, <2>2 DEF Awaited, Before, After
  <2> QED BY <1>3, <2>2, <2>3, <2>4 DEF Places
<1> QED BY <1>5, <1>6

(* A request is in one place, and awaited. *)
LEMMA PlacesStep ==
  ASSUME IInv, Next
  PROVE  Places'
<1>1. CASE Submit
  BY <1>1, PlacesSubmit
<1>2. CASE SendRequest \/ SendData \/ SendDisc
  <2>1. SendDisc => ~Sent(DiscHandle)
    BY DEF SendDisc, IInv, DiscOnce
  <2> QED BY <1>2, <2>1, PlacesSend
<1>3. CASE ClearQueue
  BY <1>3, PlacesClear
<1>4. CASE ReceiveReply
  BY <1>4, PlacesReply
<1>5. CASE ReceiveData
  BY <1>5, PlacesData
<1>6. CASE Interrupt \/ SetSock \/ Hangup
  BY <1>6, PlacesStay DEF Interrupt, SetSock, Hangup, driver, parent
<1>7. CASE Parent
  <2>1. CASE Setup \/ OpenDevice \/ ReadShortHeader \/ EndOfRequests \/ AssertFails
    <3>1. Phases
      BY DEF IInv
    <3>2. /\ UNCHANGED << queue, down, up, receiving, effect, status >>
          /\ pc' \notin {"payload", "reply"}
          /\ conn = "cleared" => conn' = "cleared"
      BY <2>1, <3>1 DEF Setup, OpenDevice, ReadShortHeader, EndOfRequests, AssertFails, outside, driver, Phases
    <3> QED BY <3>2, PlacesStay
  <2>2. TypeOK
    BY DEF IInv
  <2>3. CASE ServeRead
    <3>1. PICK h \in Handles : /\ ReadRequest(h) /\ pc' = "reply"
                               /\ effect' = effect \/ effect' = [effect EXCEPT ![h] = << chunk' >>]
      BY <2>3 DEF ServeRead, Carried
    <3>2. \A g \in Handles : g # h => effect'[g] = effect[g]
      BY <2>2, <3>1 DEF TypeOK
    <3> QED BY <3>1, <3>2, PlacesServe
  <2>4. CASE ServeOther
    <3>1. PICK h \in Handles : /\ ReadRequest(h) /\ pc' = "reply"
                               /\ effect' = [effect EXCEPT ![h] = << << >> >>]
      BY <2>4 DEF ServeOther, Carried
    <3>2. \A g \in Handles : g # h => effect'[g] = effect[g]
      BY <2>2, <3>1 DEF TypeOK
    <3> QED BY <3>1, <3>2, PlacesServe
  <2>5. CASE ServeWrite
    BY <2>5, PlacesServe DEF ServeWrite
  <2>6. CASE ServeDisc
    <3>1. ReadRequest(DiscHandle) /\ pc' = "exited" /\ UNCHANGED effect
      BY <2>6 DEF ServeDisc
    <3>2. down \in Seq(Items) /\ down # << >> /\ down' = Tail(down) /\ Head(down) = RequestItem(DiscHandle)
          /\ pc = "request"
      BY <2>2, <3>1, HeadRequest DEF TypeOK
    <3>3. QueuedOnce /\ SentOnce /\ RepliedOnce /\ Apart /\ Awaited
      BY DEF IInv
    <3>4. UNCHANGED << queue, up, receiving, status, conn >>
      BY <3>1 DEF ReadRequest, outside, driver
    <3>5. \A g \in Handles : RequestItem(DiscHandle) # RequestItem(g)
      BY HandlesOnly DEF RequestItem
    <3>6. SentOnce' /\ \A g \in Handles : Sent(g)' <=> Sent(g)
      BY <3>2, <3>3, <3>5, DownTaken
    <3>7. /\ QueuedOnce' /\ RepliedOnce'
          /\ \A g \in Handles : (Queued(g)' <=> Queued(g)) /\ (Replied(g)' <=> Replied(g))
      BY <3>3, <3>4, Unmoved
    <3>8. Apart'
      BY <3>1, <3>2, <3>3, <3>4, <3>6, <3>7 DEF Apart, Before, After
    <3>9. Awaited'
      BY <3>1, <3>2, <3>3, <3>4, <3>6, <3>7 DEF Awaited, Before, After
    <3> QED BY <3>6, <3>7, <3>8, <3>9 DEF Places
  <2>7. CASE ReadPayload
    BY <2>7, PlacesPayload
  <2>8. CASE WriteReply \/ WriteData
    BY <2>8, PlacesWrite
  <2> QED BY <1>7, <2>1, <2>3, <2>4, <2>5, <2>6, <2>7, <2>8 DEF Parent
<1> QED BY <1>1, <1>2, <1>3, <1>4, <1>5, <1>6, <1>7 DEF Next

(* The disconnect request is sent once. *)
LEMMA DiscOnceStep ==
  ASSUME IInv, Next
  PROVE  DiscOnce'
<1>1. TypeOK /\ DiscOnce /\ SentOnce
  BY DEF IInv
<1>2. SUFFICES ASSUME ~disc'.sent PROVE ~Sent(DiscHandle)'
  BY DEF DiscOnce
<1>3. CASE SendDisc
  BY <1>2, <1>3 DEF SendDisc
<1>4. CASE ~SendDisc
  <2>1. disc' = disc
    BY <1>4, ParentTouches DEF Next, Submit, Interrupt, SetSock, ClearQueue, SendRequest, SendData,
       ReceiveReply, ReceiveData, Hangup, driver
  <2>2. ~Sent(DiscHandle)
    BY <1>1, <1>2, <2>1 DEF DiscOnce
  <2>3. CASE down' = down
    BY <2>2, <2>3, Unmoved
  <2>4. CASE down # << >> /\ down' = Tail(down)
    <3>1. down \in Seq(Items)
      BY <1>1 DEF TypeOK
    <3> QED BY <1>1, <2>2, <2>4, <3>1, DownTaken
  <2>5. CASE SendRequest
    <3>1. Head(queue) \in Handles
      BY <1>1, <2>5, TailIndex DEF SendRequest, TypeOK
    <3>2. RequestItem(Head(queue)) \in Items
      BY <3>1, Made
    <3>3. RequestItem(Head(queue)) # RequestItem(DiscHandle)
      BY <3>1, HandlesOnly DEF RequestItem
    <3>4. down' = Append(down, RequestItem(Head(queue))) /\ down \in Seq(Items)
      BY <1>1, <2>5 DEF SendRequest, TypeOK
    <3> QED BY <2>2, <3>2, <3>3, <3>4, DownAppended
  <2>6. CASE SendData
    <3>1. DataItem(Head(sending)) \in Items /\ DataItem(Head(sending))[1] = "data"
      BY <1>1, <2>6, TailIndex, Made DEF SendData, TypeOK
    <3>2. DataItem(Head(sending)) # RequestItem(DiscHandle)
      BY <3>1, Made
    <3>3. down' = Append(down, DataItem(Head(sending))) /\ down \in Seq(Items)
      BY <1>1, <2>6 DEF SendData, TypeOK
    <3> QED BY <2>2, <3>1, <3>2, <3>3, DownAppended
  <2>7. CASE ~ (SendRequest \/ SendData)
    <3>1. down' = down \/ (down # << >> /\ down' = Tail(down))
      BY <1>4, <2>7 DEF Next, Parent, Submit, Interrupt, SetSock, ClearQueue,
         ReceiveReply, ReceiveData, Hangup, Setup, OpenDevice, ServeRead, ServeWrite, ServeOther, ServeDisc,
         ReadShortHeader, EndOfRequests, ReadPayload, WriteReply, WriteData, AssertFails, ReadRequest, outside
    <3> QED BY <2>3, <2>4, <3>1
  <2> QED BY <2>5, <2>6, <2>7
<1> QED BY <1>3, <1>4

(* What the parent is sent are requests and data. *)
LEMMA AskedStep ==
  ASSUME IInv, Next
  PROVE  Asked'
<1>1. TypeOK /\ Asked
  BY DEF IInv
<1>2. down \in Seq(Items)
  BY <1>1 DEF TypeOK
<1>3. ASSUME NEW x \in Items, x[1] # "reply", down' = Append(down, x)
      PROVE  Asked'
  BY <1>1, <1>2, <1>3, AppendIndex DEF Asked
<1>4. CASE down' = down
  BY <1>1, <1>4 DEF Asked
<1>5. CASE down # << >> /\ down' = Tail(down)
  <2>1. /\ Len(down) \in Nat /\ DOMAIN down = 1 .. Len(down) /\ DOMAIN down' = 1 .. Len(down) - 1
        /\ \A i \in 1 .. Len(down) - 1 : down'[i] = down[i + 1]
    BY <1>2, <1>5, TailIndex
  <2>2. \A i \in DOMAIN down' : i + 1 \in DOMAIN down /\ down'[i] = down[i + 1]
    BY <2>1
  <2> QED BY <1>1, <2>2 DEF Asked
<1>6. CASE SendRequest
  <2>1. Head(queue) \in Handles
    BY <1>1, <1>6, TailIndex DEF SendRequest, TypeOK
  <2>2. RequestItem(Head(queue)) \in Items /\ RequestItem(Head(queue))[1] = "request"
    BY <2>1, Made
  <2> QED BY <2>2, <1>3, <1>6 DEF SendRequest
<1>7. CASE SendData
  <2>1. DataItem(Head(sending)) \in Items /\ DataItem(Head(sending))[1] = "data"
    BY <1>1, <1>7, TailIndex, Made DEF SendData, TypeOK
  <2> QED BY <2>1, <1>3, <1>7 DEF SendData
<1>8. CASE SendDisc
  <2>1. RequestItem(DiscHandle) \in Items /\ RequestItem(DiscHandle)[1] = "request"
    BY Made
  <2> QED BY <2>1, <1>3, <1>8 DEF SendDisc
<1>9. CASE ~ (SendRequest \/ SendData \/ SendDisc)
  <2>1. down' = down \/ (down # << >> /\ down' = Tail(down))
    BY <1>9 DEF Next, Parent, Submit, Interrupt, SetSock, ClearQueue,
       ReceiveReply, ReceiveData, Hangup, Setup, OpenDevice, ServeRead, ServeWrite, ServeOther, ServeDisc,
       ReadShortHeader, EndOfRequests, ReadPayload, WriteReply, WriteData, AssertFails, ReadRequest, outside
  <2> QED BY <1>4, <1>5, <2>1
<1> QED BY <1>6, <1>7, <1>8, <1>9

-----------------------------------------------------------------------------
(* Streams *)

(* The parent and the driver keep in step where nothing moves. *)
LEMMA DownInStepStays ==
  ASSUME IInv,
         UNCHANGED << down, sending >>,
         UNCHANGED << pc, handle, chunk >> \/ (pc # "payload" /\ pc' # "payload"),
         conn = "cleared" => conn' = "cleared"
  PROVE  DownInStep'
<1>1. DownInStep
  BY DEF IInv
<1>2. Downstream' = Downstream /\ DownBody' = DownBody
  BY DEF Downstream, DownBody, DataItems
<1>3. DownWant' = DownWant
  BY DEF DownWant
<1> QED BY <1>1, <1>2, <1>3 DEF DownInStep

(* The driver's stream to the parent. *)
LEMMA DownInStepDriver ==
  ASSUME IInv, SendRequest \/ SendData \/ SendDisc \/ ClearQueue
  PROVE  DownInStep'
<1>1. TypeOK /\ DownInStep /\ Phases
  BY DEF IInv
<1>2. down \in Seq(Items) /\ sending \in Seq(Values) /\ queue \in Seq(Handles)
  BY <1>1 DEF TypeOK
<1>3. DownBody \in [Items -> Seq(Values)] /\ DownWant \in Seq(Values)
  BY StreamTypes DEF IInv
<1>4. DownBody' = DownBody /\ DownWant' = DownWant
  <2>1. UNCHANGED << pc, handle, chunk >>
    BY DEF SendRequest, SendData, SendDisc, ClearQueue, parent
  <2> QED BY <2>1 DEF DownBody, DownWant
<1>5. /\ Following(Downstream, DownWant, DownBody) /\ HeadersNext(Downstream, DownWant, DownBody)
      /\ conn # "cleared" => Whole(Downstream, DownWant, DownBody)
  BY <1>1 DEF DownInStep
<1>6. sending = << >> => Downstream = down
  BY <1>2, NothingInHand DEF Downstream
<1>7. CASE SendRequest \/ SendDisc
  <2>1. PICK x \in Items, d \in Seq(Values) :
          /\ IsHeader(x) /\ d = DownBody[x]
          /\ down' = Append(down, x) /\ sending' = d
    <3>1. CASE SendRequest
      <4> DEFINE h == Head(queue)
      <4>1. h \in Handles
        BY <1>2, <3>1, TailIndex DEF SendRequest
      <4>2. /\ RequestItem(h) \in Items /\ RequestItem(h)[1] = "request" /\ RequestItem(h)[2] = h
            /\ Requests[h].data \in Seq(Values)
        BY <4>1, Made, RequestType
      <4>3. DownBody[RequestItem(h)] = Requests[h].data
        BY <4>1, <4>2 DEF DownBody
      <4>4. IsHeader(RequestItem(h))
        BY <4>2 DEF IsHeader
      <4> QED BY <3>1, <4>2, <4>3, <4>4 DEF SendRequest
    <3>2. CASE SendDisc
      <4>1. /\ RequestItem(DiscHandle) \in Items /\ RequestItem(DiscHandle)[1] = "request"
            /\ RequestItem(DiscHandle)[2] = DiscHandle
        BY Made
      <4>2. DownBody[RequestItem(DiscHandle)] = << >>
        BY <4>1, HandlesOnly DEF DownBody
      <4>3. IsHeader(RequestItem(DiscHandle))
        BY <4>1 DEF IsHeader
      <4> QED BY <1>2, <3>2, <4>1, <4>2, <4>3 DEF SendDisc
    <3> QED BY <1>7, <3>1, <3>2
  <2>2. sending = << >> /\ conn # "cleared"
    BY <1>7 DEF SendRequest, SendDisc, CanSend
  <2>3. Len(DownBody[x]) <= Len(d) /\ Len(d) = Len(DownBody[x]) /\ \A i \in 1 .. Len(DownBody[x]) : d[i] = DownBody[x][i]
    BY <2>1, LenProperties
  <2>4. Downstream' = Append(down, x) \o DataItems(d)
    BY <2>1 DEF Downstream, DataItems
  <2>5. Following(down, DownWant, DownBody) /\ HeadersNext(down, DownWant, DownBody) /\ Whole(down, DownWant, DownBody)
    BY <1>5, <1>6, <2>2
  <2>6. /\ Following(Downstream', DownWant, DownBody) /\ HeadersNext(Downstream', DownWant, DownBody)
        /\ Whole(Downstream', DownWant, DownBody)
    BY <1>2, <1>3, <2>1, <2>3, <2>4, <2>5, PacketAppended
  <2> QED BY <1>4, <2>6 DEF DownInStep
<1>8. CASE SendData
  <2>1. sending # << >> /\ down' = Append(down, DataItem(Head(sending))) /\ sending' = Tail(sending)
    BY <1>8 DEF SendData
  <2>2. Append(down, DataItem(Head(sending))) \o DataItems(Tail(sending)) = down \o DataItems(sending)
    BY <1>2, <2>1, BlockMoved
  <2>3. Downstream' = Append(down, DataItem(Head(sending))) \o DataItems(Tail(sending))
    BY <2>1 DEF Downstream, DataItems
  <2>4. Downstream' = Downstream
    BY <2>2, <2>3 DEF Downstream
  <2>5. conn # "cleared"
    BY <1>8 DEF SendData, CanSend
  <2> QED BY <1>4, <1>5, <2>4, <2>5 DEF DownInStep
<1>9. CASE ClearQueue
  <2>1. down' = down /\ sending' = << >> /\ conn' = "cleared"
    BY <1>9 DEF ClearQueue
  <2>2. Downstream' = down
    <3>1. Downstream' = down \o DataItems(<< >>)
      BY <2>1 DEF Downstream, DataItems
    <3> QED BY <1>2, <3>1, NothingInHand
  <2>3. Following(down, DownWant, DownBody) /\ HeadersNext(down, DownWant, DownBody)
    BY <1>2, <1>3, <1>5, CutShort DEF Downstream
  <2> QED BY <1>4, <2>1, <2>2, <2>3 DEF DownInStep
<1> QED BY <1>7, <1>8, <1>9

(* The parent takes a header, and wants its body if that is a write's.      *)
LEMMA DownInStepHeader ==
  ASSUME IInv, NEW h \in Handles \cup {DiscHandle}, ReadRequest(h),
         pc' = "payload" => h \in Handles /\ chunk' = << >>,
         pc' # "payload" => h \notin Handles \/ Requests[h].type # "write"
  PROVE  DownInStep'
<1>1. TypeOK /\ DownInStep
  BY DEF IInv
<1>2. /\ down # << >> /\ down' = Tail(down) /\ Head(down) = RequestItem(h) /\ handle' = h
      /\ Head(down) \in Items /\ UNCHANGED << sending, conn >>
  BY <1>1, HeadRequest DEF ReadRequest, outside, driver
<1>3. down \in Seq(Items) /\ sending \in Seq(Values)
  BY <1>1 DEF TypeOK
<1>4. DownBody \in [Items -> Seq(Values)] /\ DownWant \in Seq(Values)
  BY StreamTypes DEF IInv
<1>5. Downstream # << >> /\ Head(Downstream) = Head(down) /\ Downstream \in Seq(Items)
  BY <1>2, <1>3, FirstTaken, Joined DEF Downstream
<1>6. Downstream' = Tail(Downstream)
  <2>1. Downstream' = Tail(down) \o DataItems(sending)
    BY <1>2 DEF Downstream, DataItems
  <2> QED BY <1>2, <1>3, <2>1, FirstTaken DEF Downstream
<1>7. DownBody' = DownBody
  BY DEF DownBody
<1>8. RequestItem(h)[1] = "request" /\ RequestItem(h)[2] = h /\ RequestItem(h) \in Items
  BY Made
<1>9. DownWant' = DownBody[Head(down)]
  <2>1. CASE pc' = "payload"
    <3>1. h \in Handles /\ chunk' = << >> /\ Len(<< >>) = 0
      BY <2>1, EmptySeq
    <3>2. DownWant' = Rest(Requests[h].data, 0)
      BY <1>2, <2>1, <3>1 DEF DownWant
    <3>3. Requests[h].data \in Seq(Values) /\ Len(Requests[h].data) \in Nat
      BY <3>1, RequestType, LenProperties
    <3>4. Rest(Requests[h].data, 0) = Requests[h].data
      BY <3>3, RestIndex
    <3> QED BY <1>2, <1>8, <3>1, <3>2, <3>4 DEF DownBody
  <2>2. CASE pc' # "payload"
    <3>1. DownWant' = << >>
      BY <2>2 DEF DownWant
    <3>2. h \in Handles => Requests[h].data = << >>
      BY <2>2, RequestType
    <3> QED BY <1>2, <1>8, <3>1, <3>2 DEF DownBody
  <2> QED BY <2>1, <2>2
<1>10. IsHeader(Head(Downstream))
  BY <1>2, <1>5, <1>8 DEF IsHeader
<1>11. /\ Following(Downstream, DownWant, DownBody) /\ HeadersNext(Downstream, DownWant, DownBody)
       /\ conn # "cleared" => Whole(Downstream, DownWant, DownBody)
  BY <1>1 DEF DownInStep
<1>12. /\ Following(Tail(Downstream), DownBody[Head(Downstream)], DownBody)
       /\ HeadersNext(Tail(Downstream), DownBody[Head(Downstream)], DownBody)
       /\ conn # "cleared" => Whole(Tail(Downstream), DownBody[Head(Downstream)], DownBody)
  BY <1>4, <1>5, <1>10, <1>11, HeaderTaken
<1> QED BY <1>2, <1>5, <1>6, <1>7, <1>9, <1>12 DEF DownInStep

(* The parent takes a block of a write. *)
LEMMA DownInStepPayload ==
  ASSUME IInv, ReadPayload
  PROVE  DownInStep'
<1> DEFINE d == Requests[handle].data
<1>1. TypeOK /\ DownInStep
  BY DEF IInv
<1>2. /\ pc = "payload" /\ down # << >> /\ down' = Tail(down) /\ handle' = handle
      /\ chunk' = Append(chunk, Head(down)[2])
      /\ UNCHANGED << sending, conn >>
  BY DEF ReadPayload, outside, driver
<1>3. down \in Seq(Items) /\ sending \in Seq(Values) /\ chunk \in Seq(Values)
  BY <1>1 DEF TypeOK
<1>4. DownBody \in [Items -> Seq(Values)] /\ DownWant \in Seq(Values)
  BY StreamTypes DEF IInv
<1>5. Downstream # << >> /\ Downstream \in Seq(Items)
  BY <1>2, <1>3, FirstTaken, Joined DEF Downstream
<1>6. Downstream' = Tail(Downstream)
  <2>1. Downstream' = Tail(down) \o DataItems(sending)
    BY <1>2 DEF Downstream, DataItems
  <2> QED BY <1>2, <1>3, <2>1, FirstTaken DEF Downstream
<1>7. DownBody' = DownBody
  BY DEF DownBody
<1>8. /\ d \in Seq(Values) /\ Len(d) = Requests[handle].len /\ Requests[handle].len \in Nat
      /\ Len(chunk) \in Nat /\ Len(chunk) < Requests[handle].len
      /\ DownWant # << >> /\ Tail(DownWant) = Rest(d, Len(chunk) + 1)
      /\ Head(down)[2] \in Values
  BY <1>2, PayloadFound, Made
<1>9. Len(chunk') = Len(chunk) + 1
  BY <1>2, <1>3, <1>8, AppendIndex
<1>10. DownWant' = Tail(DownWant)
  <2>1. CASE Len(chunk') < Requests[handle].len
    <3>1. pc' = "payload"
      BY <1>2, <1>8, <1>9, <2>1 DEF ReadPayload
    <3> QED BY <1>2, <1>8, <1>9, <3>1 DEF DownWant
  <2>2. CASE Len(chunk') = Requests[handle].len
    <3>1. pc' = "reply"
      BY <1>8, <1>9, <2>2 DEF ReadPayload
    <3>2. DownWant' = << >>
      BY <3>1 DEF DownWant
    <3>3. Len(chunk) + 1 \in Nat /\ Len(chunk) + 1 <= Len(d) /\ Len(chunk) + 1 = Len(d)
      BY <1>8, <1>9, <2>2
    <3>4. Rest(d, Len(chunk) + 1) = << >>
      BY <1>8, <3>3, RestIndex
    <3> QED BY <1>8, <3>2, <3>4
  <2> QED BY <1>8, <1>9, <2>1, <2>2
<1>11. /\ Following(Downstream, DownWant, DownBody) /\ HeadersNext(Downstream, DownWant, DownBody)
       /\ conn # "cleared" => Whole(Downstream, DownWant, DownBody)
  BY <1>1 DEF DownInStep
<1>12. /\ Following(Tail(Downstream), Tail(DownWant), DownBody)
       /\ HeadersNext(Tail(Downstream), Tail(DownWant), DownBody)
       /\ conn # "cleared" => Whole(Tail(Downstream), Tail(DownWant), DownBody)
  BY <1>4, <1>5, <1>8, <1>11, BlockTaken
<1> QED BY <1>2, <1>6, <1>7, <1>10, <1>12 DEF DownInStep

(* The parent's stream is read in step. *)
LEMMA DownInStepStep ==
  ASSUME IInv, Next
  PROVE  DownInStep'
<1>1. CASE SendRequest \/ SendData \/ SendDisc \/ ClearQueue
  BY <1>1, DownInStepDriver
<1>2. CASE Submit \/ Interrupt \/ SetSock \/ ReceiveReply \/ ReceiveData \/ Hangup
  <2>1. /\ UNCHANGED << down, sending, pc, handle, chunk >>
        /\ conn = "cleared" => conn' = "cleared"
    BY <1>2 DEF Submit, Interrupt, SetSock, ReceiveReply, ReceiveData, Hangup, driver, parent
  <2> QED BY <2>1, DownInStepStays
<1>3. CASE Setup \/ OpenDevice \/ ReadShortHeader \/ EndOfRequests \/ WriteReply \/ WriteData
  <2>1. Phases
    BY DEF IInv
  <2>2. /\ UNCHANGED << down, sending >> /\ pc # "payload" /\ pc' # "payload"
        /\ conn = "cleared" => conn' = "cleared"
    BY <1>3, <2>1 DEF Setup, OpenDevice, ReadShortHeader, EndOfRequests, WriteReply, WriteData, outside, driver, Phases
  <2> QED BY <2>2, DownInStepStays
<1>4. CASE AssertFails
  <2>1. UNCHANGED << down, sending, conn >> /\ pc' = "aborted"
    BY <1>4 DEF AssertFails, outside, driver
  <2>2. CASE pc # "payload"
    BY <2>1, <2>2, DownInStepStays
  <2>3. CASE pc = "payload"
    <3>1. down = << >> /\ conn = "cleared"
      BY <1>4, <2>3 DEF AssertFails
    <3>2. sending = << >>
      BY <3>1 DEF IInv, Phases
    <3>3. << >> \in Seq(Items) /\ Len(<< >>) = 0
      BY EmptySeq
    <3>4. Downstream' = << >>
      <4>1. Downstream' = << >> \o DataItems(<< >>)
        BY <2>1, <3>1, <3>2 DEF Downstream, DataItems
      <4> QED BY <3>3, <4>1, NothingInHand
    <3>5. DownWant' = << >>
      BY <2>1 DEF DownWant
    <3>6. 1 .. Len(<< >>) = {} /\ ~ (Len(<< >>) < Len(<< >>))
      BY <3>3
    <3>7. Following(<< >>, << >>, DownBody') /\ HeadersNext(<< >>, << >>, DownBody')
      BY <3>6 DEF Following, HeadersNext
    <3> QED BY <2>1, <3>1, <3>4, <3>5, <3>7 DEF DownInStep
  <2> QED BY <2>2, <2>3
<1>5. CASE ServeRead
  <2>1. PICK h \in Handles : ReadRequest(h) /\ Requests[h].type = "read" /\ pc' = "reply"
    BY <1>5 DEF ServeRead
  <2> QED BY <2>1, DownInStepHeader
<1>6. CASE ServeWrite
  <2>1. PICK h \in Handles : ReadRequest(h) /\ chunk' = << >> /\ pc' = "payload"
    BY <1>6 DEF ServeWrite
  <2> QED BY <2>1, DownInStepHeader
<1>7. CASE ServeOther
  <2>1. PICK h \in Handles : ReadRequest(h) /\ Requests[h].type \in {"trim", "flush"} /\ pc' = "reply"
    BY <1>7 DEF ServeOther
  <2> QED BY <2>1, DownInStepHeader
<1>8. CASE ServeDisc
  <2>1. ReadRequest(DiscHandle) /\ pc' = "exited"
    BY <1>8 DEF ServeDisc
  <2> QED BY <2>1, HandlesOnly, DownInStepHeader
<1>9. CASE ReadPayload
  BY <1>9, DownInStepPayload
<1> QED BY <1>1, <1>2, <1>3, <1>4, <1>5, <1>6, <1>7, <1>8, <1>9 DEF Next, Parent

(* What the parent has in hand of a reply. *)
InHand == IF pc = "data" THEN chunk ELSE << >>

(* The driver's end of the streams, as a sequence of items. *)
LEMMA UpstreamType ==
  ASSUME TypeOK
  PROVE  /\ up \in Seq(Items) /\ InHand \in Seq(Values)
         /\ Upstream = up \o DataItems(InHand) /\ Upstream \in Seq(Items)
<1>1. up \in Seq(Items) /\ InHand \in Seq(Values)
  BY EmptySeq DEF TypeOK, InHand
<1>2. Upstream = up \o DataItems(InHand)
  BY DEF Upstream, InHand
<1> QED BY <1>1, <1>2, Joined

(* With a read operation the driver that expects a reply finds one to a     *)
(* request that waits.                                                     *)
LEMMA ReplyFound ==
  ASSUME IInv, HasRead, conn # "cleared", receiving = Nobody, up # << >>
  PROVE  IsReply(Head(up)) /\ IsHeader(Head(up))
<1>1. TypeOK /\ Awaited /\ Answers /\ RepliedOnce
  BY DEF IInv
<1>2. /\ up \in Seq(Items) /\ InHand \in Seq(Values)
      /\ Upstream = up \o DataItems(InHand) /\ Upstream \in Seq(Items)
  BY <1>1, UpstreamType
<1>3. Upstream # << >> /\ Head(Upstream) = Head(up)
  BY <1>2, FirstTaken
<1>4. Len(Upstream) > 0 /\ Head(Upstream) = Upstream[1]
  BY <1>2, <1>3, TailIndex
<1>5. HeadersNext(Upstream, << >>, UpBody)
  BY DEF IInv, UpInStep, UpWant
<1>6. IsHeader(Head(up))
  <2>1. Len(<< >>) = 0
    BY EmptySeq
  <2>2. 0 < Len(Upstream) => IsHeader(Upstream[0 + 1])
    BY <1>5, <2>1 DEF HeadersNext
  <2> QED BY <1>3, <1>4, <2>2
<1>7. Head(up) \in Items /\ Head(up) = up[1] /\ 1 \in DOMAIN up
  BY <1>2, TailIndex
<1>8. Head(up)[1] = "reply" /\ Head(up)[2] \in Handles
  BY <1>1, <1>6, <1>7, Kinds DEF IsHeader, Answers
<1>9. Replied(Head(up)[2])
  BY <1>7, <1>8 DEF Replied
<1>10. status[Head(up)[2]] = "waiting"
  BY <1>1, <1>8, <1>9 DEF Awaited, After
<1> QED BY <1>6, <1>8, <1>10 DEF IsReply, Waiting

(* Serving a request changes nothing about the replies before it. *)
LEMMA UpBodyKept ==
  ASSUME IInv, Next
  PROVE  /\ \A j \in 1 .. Len(Upstream) : IsHeader(Upstream[j]) => UpBody'[Upstream[j]] = UpBody[Upstream[j]]
         /\ receiving' = receiving => UpWant' = UpWant
<1>1. TypeOK /\ Answers
  BY DEF IInv
<1>2. /\ up \in Seq(Items) /\ InHand \in Seq(Values)
      /\ Upstream = up \o DataItems(InHand) /\ Upstream \in Seq(Items)
  BY <1>1, UpstreamType
<1>3. ASSUME NEW j \in 1 .. Len(Upstream), IsHeader(Upstream[j])
      PROVE  UpBody'[Upstream[j]] = UpBody[Upstream[j]]
  <2> DEFINE x == Upstream[j]
  <2>1. j \in 1 .. Len(up) /\ x = up[j]
    BY <1>2, <1>3, HeadersInSocket
  <2>2. j \in DOMAIN up /\ x \in Items
    BY <1>2, <2>1, LenProperties, ElementOfSeq
  <2>3. CASE x[1] = "reply" /\ x[3] = 0
    <3>1. x[2] \in Handles
      BY <2>2, <2>3, Kinds
    <3>2. effect[x[2]] # << >>
      BY <1>1, <2>1, <2>2, <2>3 DEF Answers
    <3>3. effect'[x[2]] = effect[x[2]]
      BY <3>1, <3>2, EffectsKept
    <3> HIDE DEF x
    <3>4. UpBody'[x] = UpBody[x]
      BY <2>2, <3>3 DEF UpBody
    <3> QED BY <3>4 DEF x
  <2>4. CASE ~ (x[1] = "reply" /\ x[3] = 0)
    <3> HIDE DEF x
    <3>1. UpBody'[x] = UpBody[x]
      BY <2>2, <2>4 DEF UpBody
    <3> QED BY <3>1 DEF x
  <2> QED BY <2>3, <2>4
<1>4. receiving' = receiving => UpWant' = UpWant
  <2>1. CASE receiving = Nobody
    BY <2>1 DEF UpWant, Nobody
  <2>2. CASE receiving # Nobody
    <3>1. effect'[receiving[1]] = effect[receiving[1]]
      BY <1>1, <2>2, EffectsKept DEF Answers
    <3> QED BY <2>2, <3>1 DEF UpWant, Nobody
  <2> QED BY <2>1, <2>2
<1> QED BY <1>3, <1>4

(* The driver keeps in step where its socket is left alone. *)
LEMMA UpInStepStays ==
  ASSUME IInv, Next, UNCHANGED << up, receiving >>,
         conn' # "cleared" => conn # "cleared" /\ InHand' = InHand
  PROVE  UpInStep'
<1>1. TypeOK /\ TypeOK'
  BY TypeStepOutside, TypeStepParent DEF IInv, Next
<1>2. SUFFICES ASSUME conn' # "cleared"
               PROVE  /\ Following(Upstream', UpWant', UpBody')
                      /\ Whole(Upstream', UpWant', UpBody')
                      /\ HasRead => HeadersNext(Upstream', UpWant', UpBody')
  BY DEF UpInStep
<1>3. Upstream' = Upstream
  BY <1>2 DEF Upstream, InHand, DataItems
<1>4. UpWant' = UpWant /\ Upstream \in Seq(Items)
  BY <1>1, UpBodyKept, UpstreamType
<1>5. /\ Following(Upstream, UpWant, UpBody)
      /\ Whole(Upstream, UpWant, UpBody)
      /\ HasRead => HeadersNext(Upstream, UpWant, UpBody)
  BY <1>2 DEF IInv, UpInStep
<1>6. \A j \in 1 .. Len(Upstream) : IsHeader(Upstream[j]) => UpBody'[Upstream[j]] = UpBody[Upstream[j]]
  BY UpBodyKept
<1>7. /\ Following(Upstream, UpWant, UpBody')
      /\ Whole(Upstream, UpWant, UpBody')
      /\ HasRead => HeadersNext(Upstream, UpWant, UpBody')
  BY <1>4, <1>5, <1>6, SameBodies
<1> QED BY <1>3, <1>4, <1>7

(* The parent writes a reply, and has the data of a read in hand. *)
LEMMA UpInStepReplied ==
  ASSUME IInv, WriteReply
  PROVE  UpInStep'
<1>1. TypeOK /\ Serving /\ Effects
  BY DEF IInv
<1> DEFINE x == ReplyItem(handle, error)
           d == IF Requests[handle].type = "read" THEN chunk ELSE << >>
<1>2. /\ pc = "reply" /\ conn # "cleared" /\ up' = Append(up, x)
      /\ pc' = (IF Requests[handle].type = "read" THEN "data" ELSE "request")
      /\ UNCHANGED << handle, chunk, effect, receiving, conn >>
  BY DEF WriteReply, outside, driver
<1>3. handle \in Handles /\ chunk \in Seq(Values) /\ d \in Seq(Values) /\ error \in {0, EPERM}
  BY <1>1, <1>2, EmptySeq DEF TypeOK
<1>4. x \in Items /\ x[1] = "reply" /\ x[2] = handle /\ x[3] = error
  BY <1>3, Made
<1>5. up \in Seq(Items) /\ Upstream = up
  <2>1. InHand = << >>
    BY <1>2 DEF InHand
  <2> QED BY <1>1, <2>1, UpstreamType, NothingInHand
<1>6. UpBody \in [Items -> Seq(Values)] /\ UpWant \in Seq(Values)
  BY StreamTypes DEF IInv
<1>7. /\ Following(up, UpWant, UpBody) /\ Whole(up, UpWant, UpBody)
      /\ HasRead => HeadersNext(up, UpWant, UpBody)
  BY <1>2, <1>5 DEF IInv, UpInStep
<1>8. UpBody' = UpBody /\ UpWant' = UpWant
  BY <1>2 DEF UpBody, UpWant, Nobody
<1>9. UpBody[x] = IF Requests[handle].type = "read" /\ error = 0 THEN chunk ELSE << >>
  <2>1. CASE Requests[handle].type = "read" /\ error = 0
    <3>1. effect[handle] # << >> /\ effect[handle][1] = chunk
      BY <1>1, <1>2, <2>1 DEF Serving
    <3> HIDE DEF x
    <3> QED BY <1>4, <2>1, <3>1 DEF UpBody
  <2>2. CASE ~ (Requests[handle].type = "read" /\ error = 0)
    <3> HIDE DEF x
    <3> QED BY <1>4, <2>2 DEF UpBody
  <2> QED BY <2>1, <2>2
<1>10. UpBody[x] = << >> \/ UpBody[x] = d
  BY <1>9
<1>11. HasRead => UpBody[x] = d
  BY <1>1, <1>2, <1>9 DEF Serving
<1>12. Upstream' = Append(up, x) \o DataItems(d)
  <2>1. CASE Requests[handle].type = "read"
    BY <1>2, <2>1 DEF Upstream, DataItems
  <2>2. CASE Requests[handle].type # "read"
    BY <1>2, <2>2 DEF Upstream, DataItems
  <2> QED BY <2>1, <2>2
<1>13. IsHeader(x)
  BY <1>4 DEF IsHeader
<1>14. /\ Len(d) \in Nat /\ Len(<< >>) = 0 /\ 1 .. Len(<< >>) = {}
  BY <1>3, LenProperties, EmptySeq
<1> HIDE DEF x, d
<1>15. Len(UpBody[x]) <= Len(d) /\ \A i \in 1 .. Len(UpBody[x]) : d[i] = UpBody[x][i]
  BY <1>10, <1>14
<1>16. /\ Following(Upstream', UpWant, UpBody) /\ Whole(Upstream', UpWant, UpBody)
       /\ HasRead => HeadersNext(Upstream', UpWant, UpBody)
  BY <1>3, <1>4, <1>5, <1>6, <1>7, <1>11, <1>12, <1>13, <1>15, PacketAppended
<1> QED BY <1>8, <1>16 DEF UpInStep

(* The parent writes data it has in hand. *)
LEMMA UpInStepWritten ==
  ASSUME IInv, WriteData
  PROVE  UpInStep'
<1>1. TypeOK /\ Serving
  BY DEF IInv
<1>2. /\ pc = "data" /\ conn # "cleared" /\ up' = Append(up, DataItem(Head(chunk)))
      /\ chunk' = Tail(chunk)
      /\ pc' = (IF Len(chunk) = 1 THEN "request" ELSE "data")
      /\ UNCHANGED << handle, effect, receiving, conn >>
  BY DEF WriteData, outside, driver
<1>3. up \in Seq(Items) /\ chunk \in Seq(Values) /\ chunk # << >>
  BY <1>1, <1>2 DEF TypeOK, Serving
<1>4. InHand' = Tail(chunk)
  <2>1. CASE Len(chunk) = 1
    <3>1. Tail(chunk) \in Seq(Values) /\ Len(Tail(chunk)) = 0
      BY <1>3, <2>1, TailIndex
    <3>2. Tail(chunk) = << >>
      BY <3>1, EmptySeq
    <3> QED BY <1>2, <2>1, <3>2 DEF InHand
  <2>2. CASE Len(chunk) # 1
    BY <1>2, <2>2 DEF InHand
  <2> QED BY <2>1, <2>2
<1>5. Upstream = up \o DataItems(chunk)
  BY <1>2 DEF Upstream
<1>6. Upstream' = Append(up, DataItem(Head(chunk))) \o DataItems(Tail(chunk))
  BY <1>2, <1>4 DEF Upstream, InHand, DataItems
<1>7. Upstream' = Upstream
  BY <1>3, <1>5, <1>6, BlockMoved
<1>8. UpBody' = UpBody /\ UpWant' = UpWant
  BY <1>2 DEF UpBody, UpWant, Nobody
<1> QED BY <1>2, <1>7, <1>8 DEF IInv, UpInStep

(* The driver receives a reply, and wants the data of a read. *)
LEMMA UpInStepReply ==
  ASSUME IInv, ReceiveReply
  PROVE  UpInStep'
<1>1. TypeOK /\ Answers /\ Effects /\ RepliedOnce
  BY DEF IInv
<1>2. /\ conn = "connected" /\ conn' # "cleared" /\ receiving = Nobody /\ up # << >> /\ up' = Tail(up)
      /\ UNCHANGED << effect, pc, chunk >>
  BY DEF ReceiveReply, parent
<1>3. /\ up \in Seq(Items) /\ InHand \in Seq(Values)
      /\ Upstream = up \o DataItems(InHand) /\ Upstream \in Seq(Items)
  BY <1>1, UpstreamType
<1>4. Upstream # << >> /\ Head(Upstream) = Head(up)
  BY <1>2, <1>3, FirstTaken
<1>5. Upstream' = Tail(Upstream)
  <2>1. Upstream' = Tail(up) \o DataItems(InHand)
    BY <1>2 DEF Upstream, InHand, DataItems
  <2> QED BY <1>2, <1>3, <2>1, FirstTaken
<1>6. UpBody \in [Items -> Seq(Values)] /\ UpWant \in Seq(Values) /\ UpWant = << >>
  BY <1>2, StreamTypes DEF IInv, UpWant
<1>7. /\ Following(Upstream, UpWant, UpBody) /\ Whole(Upstream, UpWant, UpBody)
      /\ HasRead => HeadersNext(Upstream, UpWant, UpBody)
  BY <1>2 DEF IInv, UpInStep
<1>8. UpBody' = UpBody
  BY <1>2 DEF UpBody
<1>9. CASE IsReply(Head(up))
  <2> DEFINE x == Head(up)
             h == x[2]
  <2>1. x[1] = "reply" /\ h \in Handles /\ IsHeader(Head(Upstream))
    BY <1>4, <1>9 DEF IsReply, Waiting, IsHeader
  <2>2. x \in Items /\ \E i \in DOMAIN up : up[i] = x
    BY <1>1, <1>2, <1>3, UpTaken
  <2>3. UpWant' = UpBody[x]
    <3>1. CASE x[3] = 0 /\ Requests[h].type = "read"
      <4>1. receiving' = << h, << >> >>
        BY <1>9, <3>1 DEF ReceiveReply
      <4>2. effect[h] # << >>
        BY <1>1, <2>1, <2>2, <3>1 DEF Answers
      <4>3. UpBody[x] = effect[h][1]
        <5> HIDE DEF x
        <5> QED BY <2>1, <2>2, <3>1, <4>2 DEF UpBody
      <4>4. effect[h][1] \in Seq(Values)
        BY <1>1, <2>1, <4>2, EffectType
      <4>5. h # 0 /\ Len(<< >>) = 0
        BY <2>1, HandlesOnly, EmptySeq
      <4>6. Rest(effect[h][1], 0) = effect[h][1]
        BY <4>4, RestIndex, LenProperties
      <4> HIDE DEF h
      <4>7. receiving' # Nobody /\ receiving'[1] = h /\ receiving'[2] = << >>
        BY <4>1, <4>5 DEF Nobody
      <4>8. UpWant' = Rest(effect[h][1], Len(<< >>))
        BY <1>2, <4>7 DEF UpWant, Nobody
      <4> QED BY <4>3, <4>5, <4>6, <4>8
    <3>2. CASE ~ (x[3] = 0 /\ Requests[h].type = "read")
      <4>1. receiving' = Nobody
        BY <1>2, <1>9, <3>2 DEF ReceiveReply
      <4>2. UpBody[x] = << >>
        <5> HIDE DEF x
        <5> QED BY <2>2, <3>2 DEF UpBody
      <4> QED BY <4>1, <4>2 DEF UpWant, Nobody
    <3> QED BY <3>1, <3>2
  <2>4. /\ Following(Tail(Upstream), UpBody[x], UpBody) /\ Whole(Tail(Upstream), UpBody[x], UpBody)
        /\ HasRead => HeadersNext(Tail(Upstream), UpBody[x], UpBody)
    BY <1>3, <1>4, <1>6, <1>7, <2>1, HeaderTaken
  <2> QED BY <1>5, <1>8, <2>3, <2>4 DEF UpInStep
<1>10. CASE ~IsReply(Head(up))
  <2>1. ~HasRead
    BY <1>2, <1>10, ReplyFound
  <2>2. receiving' = Nobody
    BY <1>2, <1>10 DEF ReceiveReply
  <2>3. UpWant' = << >>
    BY <2>2 DEF UpWant, Nobody
  <2>4. Following(Tail(Upstream), << >>, UpBody) /\ Whole(Tail(Upstream), << >>, UpBody)
    BY <1>3, <1>4, <1>6, <1>7, BodyIgnored
  <2> QED BY <1>5, <1>8, <2>1, <2>3, <2>4 DEF UpInStep
<1> QED BY <1>9, <1>10

(* The driver receives data of a read. *)
LEMMA UpInStepData ==
  ASSUME IInv, ReceiveData
  PROVE  UpInStep'
<1>1. TypeOK
  BY DEF IInv
<1>2. /\ conn = "connected" /\ conn' = conn /\ receiving # Nobody /\ up # << >> /\ up' = Tail(up)
      /\ UNCHANGED << effect, pc, chunk >>
  BY DEF ReceiveData, parent
<1>3. /\ up \in Seq(Items) /\ InHand \in Seq(Values)
      /\ Upstream = up \o DataItems(InHand) /\ Upstream \in Seq(Items)
  BY <1>1, UpstreamType
<1>4. Upstream # << >>
  BY <1>2, <1>3, FirstTaken
<1>5. Upstream' = Tail(Upstream)
  <2>1. Upstream' = Tail(up) \o DataItems(InHand)
    BY <1>2 DEF Upstream, InHand, DataItems
  <2> QED BY <1>2, <1>3, <2>1, FirstTaken
<1>6. UpBody \in [Items -> Seq(Values)] /\ UpWant \in Seq(Values)
  BY StreamTypes DEF IInv
<1>7. /\ Following(Upstream, UpWant, UpBody) /\ Whole(Upstream, UpWant, UpBody)
      /\ HasRead => HeadersNext(Upstream, UpWant, UpBody)
  BY <1>2 DEF IInv, UpInStep
<1>8. UpBody' = UpBody
  BY <1>2 DEF UpBody
<1> DEFINE h == receiving[1]
           n == Len(receiving[2])
           e == effect[h][1]
           got == Append(receiving[2], Head(up)[2])
<1>9. /\ h \in Handles /\ e \in Seq(Values) /\ Len(e) = Requests[h].len /\ Requests[h].len \in Nat
      /\ receiving[2] \in Seq(Values) /\ n \in Nat /\ n < Requests[h].len
      /\ UpWant # << >> /\ Tail(UpWant) = Rest(e, n + 1)
      /\ Head(up) = DataItem(e[n + 1]) /\ e[n + 1] \in Values
  BY <1>2, AnswerFound
<1>10. Len(got) = n + 1
  <2>1. Head(up)[2] \in Values
    BY <1>9, Made
  <2> QED BY <1>9, <2>1, AppendIndex
<1>11. UpWant' = Tail(UpWant)
  <2>1. CASE Len(got) < Requests[h].len
    <3>1. receiving' = << h, got >>
      BY <2>1 DEF ReceiveData
    <3>2. h # 0
      BY <1>9, HandlesOnly
    <3> HIDE DEF h, got, e, n
    <3>3. receiving' # Nobody /\ receiving'[1] = h /\ receiving'[2] = got
      BY <3>1, <3>2 DEF Nobody
    <3>4. UpWant' = Rest(effect[h][1], Len(got))
      BY <1>2, <3>3 DEF UpWant, Nobody
    <3> QED BY <1>9, <1>10, <3>4 DEF e
  <2>2. CASE ~ (Len(got) < Requests[h].len)
    <3>1. receiving' = Nobody
      BY <2>2 DEF ReceiveData
    <3>2. UpWant' = << >>
      BY <3>1 DEF UpWant, Nobody
    <3> HIDE DEF h, got, e, n
    <3>3. n + 1 \in Nat /\ n + 1 <= Len(e) /\ n + 1 = Len(e)
      BY <1>9, <1>10, <2>2
    <3>4. Rest(e, n + 1) = << >>
      BY <1>9, <3>3, RestIndex
    <3> QED BY <1>9, <3>2, <3>4
  <2> QED BY <2>1, <2>2
<1>12. /\ Following(Tail(Upstream), Tail(UpWant), UpBody) /\ Whole(Tail(Upstream), Tail(UpWant), UpBody)
       /\ HasRead => HeadersNext(Tail(Upstream), Tail(UpWant), UpBody)
  BY <1>3, <1>4, <1>6, <1>7, <1>9, BlockTaken
<1> QED BY <1>5, <1>8, <1>11, <1>12 DEF UpInStep

(* The driver's stream is read in step. *)
LEMMA UpInStepStep ==
  ASSUME IInv, Next
  PROVE  UpInStep'
<1>1. CASE WriteReply
  BY <1>1, UpInStepReplied
<1>2. CASE WriteData
  BY <1>2, UpInStepWritten
<1>3. CASE ReceiveReply
  BY <1>3, UpInStepReply
<1>4. CASE ReceiveData
  BY <1>4, UpInStepData
<1>5. CASE Submit \/ SendDisc \/ Interrupt \/ SetSock \/ ClearQueue \/ SendRequest \/ SendData \/ Hangup
  <2>1. conn' # "cleared" => UNCHANGED << up, receiving, pc, chunk >> /\ conn # "cleared"
    BY <1>5 DEF Submit, SendDisc, Interrupt, SetSock, ClearQueue, SendRequest, SendData, Hangup, CanSend,
       driver, parent
  <2>2. CASE conn' = "cleared"
    BY <2>2 DEF UpInStep
  <2>3. CASE conn' # "cleared"
    <3>1. InHand' = InHand
      BY <2>1, <2>3 DEF InHand
    <3> QED BY <2>1, <2>3, <3>1, UpInStepStays
  <2> QED BY <2>2, <2>3
<1>6. CASE Setup \/ OpenDevice \/ ServeRead \/ ServeWrite \/ ServeOther \/ ServeDisc \/ ReadShortHeader \/ EndOfRequests
           \/ ReadPayload \/ AssertFails
  <2>1. Phases
    BY DEF IInv
  <2>2. UNCHANGED << up, receiving >> /\ (conn' # "cleared" => conn # "cleared")
    BY <1>6, <2>1 DEF Setup, OpenDevice, ServeRead, ServeWrite, ServeOther, ServeDisc, ReadShortHeader, EndOfRequests,
       ReadPayload, AssertFails, ReadRequest, outside, driver, Phases
  <2>3. conn' # "cleared" => pc # "data" /\ pc' # "data"
    BY <1>6 DEF Setup, OpenDevice, ServeRead, ServeWrite, ServeOther, ServeDisc, ReadShortHeader, EndOfRequests,
       ReadPayload, AssertFails, ReadRequest, outside, driver
  <2>4. conn' # "cleared" => InHand' = InHand
    BY <2>3 DEF InHand
  <2> QED BY <2>2, <2>4, UpInStepStays
<1> QED BY <1>1, <1>2, <1>3, <1>4, <1>5, <1>6 DEF Next, Parent

-----------------------------------------------------------------------------
(* The theorems *)

(* The sockets are empty when buse_main begins, and nothing is submitted.  *)
LEMMA IInvInit == Init => IInv
<1> SUFFICES ASSUME Init PROVE IInv
  OBVIOUS
<1>1. TypeOK
  BY TypeInit
<1>2. /\ status = [h \in Handles |-> "none"] /\ answer = [h \in Handles |-> << >>]
      /\ queue = << >> /\ sending = << >> /\ down = << >> /\ up = << >>
      /\ receiving = Nobody /\ conn = "none" /\ disc = NotDisconnected
      /\ pc = "setup" /\ effect = [h \in Handles |-> << >>]
  BY DEF Init
<1>3. /\ DOMAIN queue = {} /\ DOMAIN down = {} /\ DOMAIN up = {}
  BY <1>2
<1>4. \A h \in Handles : ~Queued(h) /\ ~Sent(h) /\ ~Replied(h) /\ receiving[1] # h
  BY <1>2, <1>3, HandlesOnly DEF Queued, Sent, Replied, Nobody
<1>5. Phases /\ Serving
  BY <1>2 DEF Phases, Serving, NotDisconnected
<1>6. Effects /\ Answers
  BY <1>2, <1>3 DEF Effects, Answers
<1>7. QueuedOnce /\ SentOnce /\ RepliedOnce
  BY <1>3 DEF QueuedOnce, SentOnce, RepliedOnce
<1>8. Apart /\ Awaited
  BY <1>2, <1>4 DEF Apart, Awaited, Before, After
<1>9. DiscOnce /\ Asked
  BY <1>3 DEF DiscOnce, Sent, Asked
<1>10. << >> \in Seq(Items) /\ << >> \o DataItems(<< >>) = << >>
  BY EmptySeq, NothingInHand
<1>11. Len(<< >>) = 0 /\ 1 .. Len(<< >>) = {}
  BY EmptySeq
<1>12. DownInStep
  <2>1. Downstream = << >> /\ DownWant = << >>
    BY <1>2, <1>10 DEF Downstream, DownWant
  <2> QED BY <2>1, <1>11 DEF DownInStep, Following, Whole, HeadersNext
<1>13. UpInStep
  <2>1. Upstream = << >> /\ UpWant = << >>
    BY <1>2, <1>10 DEF Upstream, UpWant
  <2> QED BY <2>1, <1>11 DEF UpInStep, Following, Whole, HeadersNext
<1> QED BY <1>1, <1>5, <1>6, <1>7, <1>8, <1>9, <1>12, <1>13 DEF IInv

(* Every step of the child, the driver and the parent keeps the invariant.  *)
LEMMA IInvStep == IInv /\ [Next]_vars => IInv'
<1> SUFFICES ASSUME IInv, [Next]_vars PROVE IInv'
  OBVIOUS
<1>1. CASE Next
  <2>1. TypeOK'
    BY <1>1, TypeStepOutside, TypeStepParent DEF Next
  <2>2. Phases' /\ Serving' /\ Effects' /\ Answers'
    BY <1>1, PhasesStep, ServingStep, EffectsStep, AnswersStep
  <2>3. QueuedOnce' /\ SentOnce' /\ RepliedOnce' /\ Apart' /\ Awaited'
    BY <1>1, PlacesStep DEF Places
  <2>4. DiscOnce' /\ Asked' /\ DownInStep' /\ UpInStep'
    BY <1>1, DiscOnceStep, AskedStep, DownInStepStep, UpInStepStep
  <2> QED BY <2>1, <2>2, <2>3, <2>4 DEF IInv
<1>2. CASE UNCHANGED vars
  <2>1. UNCHANGED << status, answer, queue, sending, receiving, disc, down, up, conn, interrupted,
                     pc, handle, chunk, error, data, effect >>
    BY <1>2 DEF vars, driver, parent
  <2>2. TypeOK'
    BY <2>1 DEF IInv, TypeOK
  <2>3. Phases' /\ Serving'
    BY <2>1 DEF IInv, Phases, Serving
  <2>4. Effects' /\ Answers'
    BY <2>1 DEF IInv, Effects, Answers
  <2>5. QueuedOnce' /\ SentOnce' /\ RepliedOnce' /\ Apart' /\ Awaited' /\ DiscOnce' /\ Asked'
    BY <2>1 DEF IInv, QueuedOnce, SentOnce, RepliedOnce, Apart, Awaited, DiscOnce, Asked,
                Before, After, Queued, Sent, Replied
  <2>6. DownInStep'
    BY <2>1 DEF IInv, DownInStep, Downstream, DownWant, DownBody
  <2>7. UpInStep'
    BY <2>1 DEF IInv, UpInStep, Upstream, UpWant, UpBody
  <2> QED BY <2>2, <2>3, <2>4, <2>5, <2>6, <2>7 DEF IInv
<1> QED BY <1>1, <1>2

(* The invariant holds of the device whatever the child and the driver do.  *)
THEOREM Invariant == Spec => []IInv
<1>1. Init => IInv
  BY IInvInit
<1>2. IInv /\ [Next]_vars => IInv'
  BY IInvStep
<1> QED BY <1>1, <1>2, PTL DEF Spec

(* Every variable keeps its type, and no socket holds more than fits. *)
THEOREM TypeCorrect == Spec => []TypeOK
<1>1. IInv => TypeOK
  BY DEF IInv
<1> QED BY <1>1, Invariant, PTL

(* Where the parent expects a header it finds a request's. *)
LEMMA RequestFound ==
  ASSUME IInv, pc # "payload", down # << >>
  PROVE  Head(down)[1] = "request"
<1>1. down \in Seq(Items) /\ sending \in Seq(Values)
  BY DEF IInv, TypeOK
<1>2. Downstream \in Seq(Items) /\ Downstream # << >> /\ Head(Downstream) = Head(down)
  BY <1>1, FirstTaken, Joined DEF Downstream
<1>3. Len(Downstream) > 0 /\ Head(Downstream) = Downstream[1]
  BY <1>2, TailIndex
<1>4. HeadersNext(Downstream, << >>, DownBody)
  BY DEF IInv, DownInStep, DownWant
<1>5. Len(<< >>) = 0
  BY EmptySeq
<1>6. 0 < Len(Downstream) => IsHeader(Downstream[0 + 1])
  BY <1>4, <1>5 DEF HeadersNext
<1>7. Head(down) \in Items /\ Head(down) = down[1] /\ 1 \in DOMAIN down
  BY <1>1, TailIndex
<1>8. Head(down)[1] # "reply"
  BY <1>7 DEF IInv, Asked
<1> QED BY <1>2, <1>3, <1>6, <1>7, <1>8, Kinds DEF IsHeader

(* With a read operation the parent and the driver always agree on where a *)
(* header stands and where data: magic numbers are found where they are    *)
(* looked for (buse.c, the assertion of buse_main).  Without one the driver *)
(* reads the data of a failed read as a reply: run buse_no_read.           *)
THEOREM StreamsCorrect ==
  ASSUME HasRead
  PROVE  Spec => []StreamsInStep
<1>1. ASSUME IInv
      PROVE  StreamsInStep
  <2>1. ASSUME pc = "request", down # << >>
        PROVE  Head(down)[1] = "request"
    BY <1>1, <2>1, RequestFound
  <2>2. ASSUME pc = "payload", down # << >>
        PROVE  Head(down)[1] = "data"
    BY <1>1, <2>2, PayloadFound, Made
  <2>3. ASSUME conn = "connected", up # << >>, receiving = Nobody
        PROVE  IsReply(Head(up))
    BY <1>1, <2>3, ReplyFound
  <2>4. ASSUME conn = "connected", up # << >>, receiving # Nobody
        PROVE  Head(up)[1] = "data"
    BY <1>1, <2>4, AnswerFound, Made
  <2> QED BY <2>1, <2>2, <2>3, <2>4 DEF StreamsInStep
<1> QED BY <1>1, Invariant, PTL

=============================================================================
