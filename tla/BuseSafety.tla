----------------------------- MODULE BuseSafety -----------------------------
(***************************************************************************)
(* What the invariant of BuseProofs is for: when the child lets go of the  *)
(* device the parent has nothing left to do, so that no assertion on the   *)
(* streams fails (StreamAssertionsHold), requests begun before a           *)
(* disconnect request are answered (BegunIsAnswered), and what the users   *)
(* of the device see is one disk (LinearDevice).                           *)
(***************************************************************************)
EXTENDS BuseProofs

(* Without a signal the child lets go of the device before the parent has   *)
(* served, or once it has returned or failed.                              *)
Departure ==
  /\ conn \in {"down", "cleared"} /\ ~interrupted =>
       pc = "exited" \/ Failed \/ (pc \in {"open", "request"} /\ down = << >>)
  /\ pc = "aborted" => interrupted \/ conn = "none"

(* Departure is inductive where the driver never meets a reply it has no    *)
(* request for, so that it stays in NBD_DO_IT.                              *)
LEMMA DepartureStep ==
  ASSUME IInv, Departure, HasRead, Next
  PROVE  Departure'
<1>1. Phases
  BY DEF IInv
<1>2. CASE Submit \/ SendDisc \/ SendRequest \/ SendData \/ Interrupt \/ ClearQueue
  BY <1>2 DEF Departure, Failed, Submit, SendDisc, SendRequest, SendData, CanSend, Interrupt, ClearQueue, parent
<1>3. CASE SetSock
  BY <1>1, <1>3 DEF Departure, Failed, Phases, SetSock, parent
<1>4. CASE ReceiveReply
  <2>1. IsReply(Head(up))
    BY <1>4, ReplyFound DEF ReceiveReply
  <2> QED BY <1>4, <2>1 DEF Departure, Failed, ReceiveReply, parent
<1>5. CASE ReceiveData
  BY <1>5 DEF Departure, Failed, ReceiveData, parent
<1>6. CASE Hangup
  BY <1>6 DEF Departure, Hangup, Ended, Failed, parent
<1>7. CASE Setup \/ OpenDevice \/ ReadShortHeader \/ EndOfRequests
  BY <1>1, <1>7 DEF Departure, Failed, Phases, Setup, OpenDevice, ReadShortHeader, EndOfRequests, outside
<1>8. CASE ServeRead \/ ServeWrite \/ ServeOther \/ ServeDisc
  <2>1. /\ pc = "request" /\ down # << >> /\ pc' # "aborted"
        /\ UNCHANGED << conn, interrupted >>
    BY <1>8 DEF ServeRead, ServeWrite, ServeOther, ServeDisc, ReadRequest, outside
  <2> QED BY <2>1 DEF Departure, Failed
<1>9. CASE ReadPayload \/ WriteReply \/ WriteData
  <2>1. /\ pc \in {"payload", "reply", "data"} /\ pc' # "aborted"
        /\ UNCHANGED << conn, interrupted >>
    BY <1>9 DEF ReadPayload, WriteReply, WriteData, outside
  <2> QED BY <2>1 DEF Departure, Failed
<1>10. CASE AssertFails
  <2>1. /\ pc' = "aborted" /\ UNCHANGED << conn, interrupted, down >>
        /\ conn = "cleared" /\ pc \in {"payload", "reply", "data"}
    BY <1>10, RequestFound DEF AssertFails, outside
  <2> QED BY <2>1 DEF Departure, Failed
<1> QED BY <1>2, <1>3, <1>4, <1>5, <1>6, <1>7, <1>8, <1>9, <1>10 DEF Next, Parent

(* buse_main's assertions on the magic number of a request and on what      *)
(* read_all and write_all return hold, with a read operation: they fail     *)
(* only when the device could not be set up before the fork, or when a      *)
(* signal took the child away.  The assertions that the open succeeds and   *)
(* that read returns a whole header are not among them: they may fail, and  *)
(* the streams and the child go on with it.  Without a read operation see   *)
(* run buse_no_read.                                                        *)
THEOREM StreamAssertionsCorrect ==
  ASSUME HasRead
  PROVE  Spec => []StreamAssertionsHold
<1>1. Init => Departure
  BY DEF Init, Departure, Failed
<1>2. IInv /\ Departure /\ [Next]_vars => Departure'
  <2>1. UNCHANGED vars /\ Departure => Departure'
    BY DEF Departure, Failed, vars, parent
  <2> QED BY <2>1, DepartureStep
<1>3. Departure => StreamAssertionsHold
  BY DEF Departure, StreamAssertionsHold
<1> QED BY <1>1, <1>2, <1>3, Invariant, PTL DEF Spec

-----------------------------------------------------------------------------
(* Requests before a disconnect request *)

(* A request that waits is somewhere, while the child is in the driver.    *)
NotLost ==
  conn \in {"none", "setup", "connected"} =>
    \A h \in Handles : status[h] = "waiting" => Before(h) \/ After(h)

InPayload(h) == pc = "payload" /\ handle = h

(* The header of a request is in the socket ahead of the disconnect request, *)
(* at which the parent returns.                                            *)
Ahead(h) ==
  \E i, j \in DOMAIN down :
    i < j /\ down[i] = RequestItem(h) /\ down[j] = RequestItem(DiscHandle)

(* Requests begun before the disconnect request are still to be served, or  *)
(* are answered.                                                           *)
BegunAhead ==
  \A h \in disc.begun :
    ~interrupted /\ ~Failed =>
      \/ status[h] = "ok"
      \/ /\ conn = "connected"
         /\ After(h) \/ (~Ended /\ (InPayload(h) \/ Ahead(h)))

(* Being ahead survives what is sent after, and what is taken before. *)
LEMMA AheadAppended ==
  ASSUME down \in Seq(Items), NEW x \in Items, down' = Append(down, x), NEW h \in Handles
  PROVE  /\ Ahead(h) => Ahead(h)'
         /\ Sent(h) /\ x = RequestItem(DiscHandle) => Ahead(h)'
<1>1. /\ Len(down) \in Nat /\ DOMAIN down = 1 .. Len(down) /\ DOMAIN down' = 1 .. Len(down) + 1
      /\ \A i \in 1 .. Len(down) : down'[i] = down[i]
      /\ down'[Len(down) + 1] = x
  BY AppendIndex
<1>2. \A i \in DOMAIN down : i \in DOMAIN down' /\ down'[i] = down[i] /\ i < Len(down) + 1
  BY <1>1
<1>3. Len(down) + 1 \in DOMAIN down'
  BY <1>1
<1>4. Ahead(h) => Ahead(h)'
  BY <1>2 DEF Ahead
<1>5. Sent(h) /\ x = RequestItem(DiscHandle) => Ahead(h)'
  BY <1>1, <1>2, <1>3 DEF Ahead, Sent
<1> QED BY <1>4, <1>5

LEMMA AheadTaken ==
  ASSUME down \in Seq(Items), down # << >>, down' = Tail(down), SentOnce,
         NEW h \in Handles, Ahead(h)
  PROVE  /\ Head(down) # RequestItem(h) => Ahead(h)'
         /\ Head(down) # RequestItem(DiscHandle)
<1>1. /\ Len(down) \in Nat /\ Len(down) > 0
      /\ DOMAIN down = 1 .. Len(down) /\ DOMAIN down' = 1 .. Len(down) - 1
      /\ \A i \in 1 .. Len(down) - 1 : down'[i] = down[i + 1]
      /\ Head(down) = down[1]
  BY TailIndex
<1>2. PICK i, j \in DOMAIN down :
        i < j /\ down[i] = RequestItem(h) /\ down[j] = RequestItem(DiscHandle)
  BY DEF Ahead
<1>3. i \in 1 .. Len(down) /\ j \in 1 .. Len(down) /\ i < j
  BY <1>1, <1>2
<1>4. 1 \in DOMAIN down /\ j # 1
  BY <1>1, <1>3
<1>5. Head(down) # RequestItem(DiscHandle)
  BY <1>1, <1>2, <1>4, Made DEF SentOnce
<1>6. ASSUME Head(down) # RequestItem(h)
      PROVE  Ahead(h)'
  <2>1. i # 1
    BY <1>1, <1>2, <1>6
  <2>2. i - 1 \in DOMAIN down' /\ j - 1 \in DOMAIN down' /\ i - 1 < j - 1
    BY <1>1, <1>3, <2>1
  <2>3. down'[i - 1] = down[i] /\ down'[j - 1] = down[j]
    BY <1>1, <1>3, <2>1
  <2> QED BY <1>2, <2>2, <2>3 DEF Ahead
<1> QED BY <1>5, <1>6

(* A request that was served is with its reply until it is answered. *)
LEMMA AfterKept ==
  ASSUME IInv, Next, NEW h \in Handles, After(h), conn = "connected", conn' = "connected"
  PROVE  \/ After(h)'
         \/ status'[h] \in {"ok", "error"} /\ (HasRead /\ HasWrite => status'[h] = "ok")
<1>1. TypeOK /\ RepliedOnce /\ Answers
  BY DEF IInv
<1>2. up \in Seq(Items) /\ up' = up => \A g \in Handles : Replied(g)' <=> Replied(g)
  BY Unmoved
<1>3. up \in Seq(Items)
  BY <1>1 DEF TypeOK
<1>4. CASE UNCHANGED << up, receiving >> /\ (pc = "reply" => UNCHANGED << pc, handle >>)
  BY <1>2, <1>3, <1>4 DEF After
<1>5. CASE ReceiveReply
  <2>1. /\ up # << >> /\ up' = Tail(up) /\ receiving = Nobody
        /\ UNCHANGED << pc, handle >>
    BY <1>5 DEF ReceiveReply, parent
  <2>2. /\ Head(up) \in Items
        /\ Replied(h)' <=> Replied(h) /\ ~ (Head(up)[1] = "reply" /\ Head(up)[2] = h)
    BY <1>1, <1>3, <2>1, UpTaken
  <2>3. receiving[1] # h
    BY <2>1, HandlesOnly DEF Nobody
  <2>4. CASE Head(up)[1] = "reply" /\ Head(up)[2] = h
    <3>1. 1 \in DOMAIN up /\ Head(up) = up[1]
      BY <1>3, <2>1, TailIndex
    <3>2. HasRead /\ HasWrite => Head(up)[3] = 0
      BY <1>1, <2>4, <3>1 DEF Answers
    <3>3. \/ status' = [status EXCEPT ![h] = "error"] /\ Head(up)[3] # 0
          \/ status' = [status EXCEPT ![h] = "ok"]
          \/ receiving' = << h, << >> >>
      BY <1>5, <2>4 DEF ReceiveReply
    <3> QED BY <1>1, <3>2, <3>3 DEF TypeOK, After
  <2>5. CASE ~ (Head(up)[1] = "reply" /\ Head(up)[2] = h)
    BY <2>1, <2>2, <2>3, <2>5 DEF After
  <2> QED BY <2>4, <2>5
<1>6. CASE ReceiveData
  <2>1. /\ up # << >> /\ up' = Tail(up) /\ receiving # Nobody
        /\ UNCHANGED << pc, handle >>
        /\ \/ receiving'[1] = receiving[1]
           \/ status' = [status EXCEPT ![receiving[1]] = "ok"]
    BY <1>6 DEF ReceiveData, parent
  <2>2. Head(up)[1] = "data"
    BY <2>1, AnswerFound, Made
  <2>3. Replied(h)' <=> Replied(h)
    BY <1>1, <1>3, <2>1, <2>2, UpTaken
  <2> QED BY <1>1, <2>1, <2>3 DEF After, TypeOK
<1>7. CASE WriteReply
  <2>1. /\ handle \in Handles /\ error \in {0, EPERM}
        /\ up' = Append(up, ReplyItem(handle, error)) /\ UNCHANGED receiving
    BY <1>1, <1>7 DEF WriteReply, TypeOK, outside, driver
  <2>2. /\ ReplyItem(handle, error) \in Items
        /\ ReplyItem(handle, error)[1] = "reply" /\ ReplyItem(handle, error)[2] = handle
    BY <2>1, Made
  <2>3. Replied(h)' <=> Replied(h) \/ handle = h
    BY <1>3, <2>1, <2>2, UpAppended
  <2> QED BY <2>1, <2>3 DEF After
<1>8. CASE WriteData
  <2>1. /\ pc = "data" /\ chunk # << >> /\ chunk \in Seq(Values)
        /\ up' = Append(up, DataItem(Head(chunk))) /\ UNCHANGED receiving
    BY <1>1, <1>8 DEF WriteData, TypeOK, outside, driver, IInv, Serving
  <2>2. DataItem(Head(chunk)) \in Items /\ DataItem(Head(chunk))[1] = "data"
    BY <2>1, TailIndex, Made
  <2>3. Replied(h)' <=> Replied(h)
    BY <1>3, <2>1, <2>2, UpAppended
  <2> QED BY <2>1, <2>3 DEF After
<1>9. CASE ~ (ReceiveReply \/ ReceiveData \/ WriteReply \/ WriteData)
  <2>1. UNCHANGED << up, receiving >> /\ (pc = "reply" => UNCHANGED << pc, handle >>)
    BY <1>9 DEF Next, Parent, Submit, SendDisc, Interrupt, SetSock, ClearQueue, SendRequest, SendData, Hangup,
       Setup, OpenDevice, ServeRead, ServeWrite, ServeOther, ServeDisc, ReadShortHeader, EndOfRequests, ReadPayload,
       AssertFails, ReadRequest, outside, driver, parent
  <2> QED BY <1>4, <2>1
<1> QED BY <1>5, <1>6, <1>7, <1>8, <1>9

(* A request the parent takes is ahead no more: it is being served. *)
LEMMA TakenIsServed ==
  ASSUME IInv, NEW g \in Handles, ReadRequest(g), pc' \in {"payload", "reply"}, NEW h \in Handles
  PROVE  /\ Sent(h) => Sent(h)' \/ InPayload(h)' \/ After(h)'
         /\ Ahead(h) => Ahead(h)' \/ InPayload(h)' \/ After(h)'
<1>1. TypeOK /\ SentOnce
  BY DEF IInv
<1>2. /\ down \in Seq(Items) /\ down # << >> /\ down' = Tail(down)
      /\ Head(down) = RequestItem(g) /\ handle' = g
  BY <1>1, HeadRequest DEF TypeOK
<1>3. CASE h = g
  BY <1>2, <1>3 DEF InPayload, After
<1>4. CASE h # g
  <2>1. Head(down) # RequestItem(h)
    BY <1>2, <1>4 DEF RequestItem
  <2>2. Sent(h) => Sent(h)'
    BY <1>1, <1>2, <2>1, DownTaken
  <2>3. Ahead(h) => Ahead(h)'
    BY <1>1, <1>2, <2>1, AheadTaken
  <2> QED BY <2>2, <2>3
<1> QED BY <1>3, <1>4

(* While the child is in the driver a request that is not served yet gets   *)
(* nearer to it, and is not passed over.                                   *)
LEMMA BeforeKept ==
  ASSUME IInv, Next, NEW h \in Handles,
         conn \in {"setup", "connected"}, conn' \in {"setup", "connected"}
  PROVE  /\ Queued(h) => Queued(h)' \/ Sent(h)'
         /\ Sent(h) => Sent(h)' \/ InPayload(h)' \/ After(h)'
         /\ InPayload(h) => InPayload(h)' \/ After(h)'
         /\ Ahead(h) /\ ~Ended => (Ahead(h)' /\ ~Ended') \/ InPayload(h)' \/ After(h)' \/ Failed'
<1>1. TypeOK /\ SentOnce /\ QueuedOnce /\ Phases
  BY DEF IInv
<1>2. down \in Seq(Items) /\ queue \in Seq(Handles)
  BY <1>1 DEF TypeOK
<1>3. CASE ServeRead \/ ServeWrite \/ ServeOther
  <2>1. PICK g \in Handles : ReadRequest(g) /\ pc' \in {"payload", "reply"}
    BY <1>3 DEF ServeRead, ServeWrite, ServeOther
  <2>2. pc = "request" /\ UNCHANGED queue
    BY <2>1 DEF ReadRequest, outside, driver
  <2>3. Queued(h)' <=> Queued(h)
    BY <2>2, Unmoved
  <2> QED BY <2>1, <2>2, <2>3, TakenIsServed DEF InPayload, Ended, Failed
<1>4. CASE ServeDisc
  <2>1. /\ pc = "request" /\ UNCHANGED queue /\ ReadRequest(DiscHandle)
        /\ down # << >> /\ down' = Tail(down) /\ Head(down) = RequestItem(DiscHandle)
    BY <1>4 DEF ServeDisc, ReadRequest, outside, driver
  <2>2. Queued(h)' <=> Queued(h)
    BY <2>1, Unmoved
  <2>3. ~Ahead(h)
    BY <1>1, <1>2, <2>1, AheadTaken
  <2>4. RequestItem(DiscHandle) # RequestItem(h)
    BY HandlesOnly DEF RequestItem
  <2>5. Sent(h)' <=> Sent(h)
    BY <1>1, <1>2, <2>1, <2>4, DownTaken
  <2> QED BY <2>1, <2>2, <2>3, <2>5 DEF InPayload
<1>5. CASE ReadPayload
  <2>1. /\ pc = "payload" /\ down # << >> /\ down' = Tail(down)
        /\ UNCHANGED << queue, handle >> /\ pc' \in {"payload", "reply"}
    BY <1>5 DEF ReadPayload, outside, driver
  <2>2. Queued(h)' <=> Queued(h)
    BY <2>1, Unmoved
  <2>3. Head(down)[1] = "data"
    BY <2>1, PayloadFound, Made
  <2>4. Head(down) # RequestItem(h)
    BY <2>3, Made
  <2>5. Sent(h)' <=> Sent(h)
    BY <1>1, <1>2, <2>1, <2>4, DownTaken
  <2>6. Ahead(h) => Ahead(h)'
    BY <1>1, <1>2, <2>1, <2>4, AheadTaken
  <2> QED BY <2>1, <2>2, <2>5, <2>6 DEF InPayload, After, Ended, Failed
<1>6. ASSUME NEW x \in Items, down' = Append(down, x), UNCHANGED << pc, handle >>
      PROVE  /\ Sent(h) => Sent(h)'
             /\ Ahead(h) => Ahead(h)'
             /\ InPayload(h) => InPayload(h)'
             /\ ~Ended => ~Ended'
  BY <1>2, <1>6, DownAppended, AheadAppended DEF InPayload, Ended, Failed
<1>7. CASE SendRequest
  <2>1. /\ queue # << >> /\ queue' = Tail(queue) /\ UNCHANGED << pc, handle >>
        /\ down' = Append(down, RequestItem(Head(queue)))
    BY <1>7 DEF SendRequest, parent
  <2>2. Head(queue) \in Handles /\ (Queued(h)' <=> Queued(h) /\ h # Head(queue))
    BY <1>1, <1>2, <2>1, QueueTaken
  <2>3. RequestItem(Head(queue)) \in Items
    BY <2>2, Made
  <2>4. h = Head(queue) => Sent(h)'
    BY <1>2, <2>1, <2>2, <2>3, DownAppended
  <2> QED BY <1>6, <2>1, <2>2, <2>3, <2>4
<1>8. CASE SendData \/ SendDisc
  <2>1. PICK x \in Items : down' = Append(down, x)
    <3>1. CASE SendData
      BY <1>1, <3>1, TailIndex, Made DEF SendData, TypeOK
    <3>2. CASE SendDisc
      BY <3>2, Made DEF SendDisc
    <3> QED BY <1>8, <3>1, <3>2
  <2>2. UNCHANGED << queue, pc, handle >>
    BY <1>8 DEF SendData, SendDisc, parent
  <2>3. Queued(h)' <=> Queued(h)
    BY <2>2, Unmoved
  <2> QED BY <1>6, <2>1, <2>2, <2>3
<1>9. ASSUME UNCHANGED down,
             pc = "payload" => UNCHANGED << pc, handle >>,
             ~Ended => ~Ended' \/ Failed'
      PROVE  /\ Sent(h) => Sent(h)'
             /\ Ahead(h) => Ahead(h)'
             /\ InPayload(h) => InPayload(h)'
             /\ ~Ended => ~Ended' \/ Failed'
  BY <1>9, Unmoved DEF InPayload, Ahead
<1>10. CASE Submit
  <2>1. UNCHANGED << pc, handle, down >> /\ (queue' = queue \/ \E g \in Handles : queue' = Append(queue, g))
    BY <1>10 DEF Submit, parent
  <2>2. Queued(h) => Queued(h)'
    BY <1>2, <2>1, Unmoved, QueueAppended
  <2> QED BY <1>9, <2>1, <2>2 DEF Ended, Failed
<1>11. CASE ~ (ServeRead \/ ServeWrite \/ ServeOther \/ ServeDisc \/ ReadPayload
               \/ SendRequest \/ SendData \/ SendDisc \/ Submit)
  <2>1. AssertFails => conn = "cleared"
    BY RequestFound DEF AssertFails
  <2>2. /\ UNCHANGED << down, queue >>
        /\ pc = "payload" => UNCHANGED << pc, handle >>
        /\ ~Ended => ~Ended' \/ Failed'
    BY <1>1, <1>11, <2>1 DEF Next, Parent, Interrupt, SetSock, ClearQueue, ReceiveReply, ReceiveData, Hangup,
       Setup, OpenDevice, ReadShortHeader, EndOfRequests, WriteReply, WriteData, outside, driver, parent,
       Ended, Failed, Phases
  <2>3. Queued(h)' <=> Queued(h)
    BY <2>2, Unmoved
  <2> QED BY <1>9, <2>2, <2>3
<1> QED BY <1>3, <1>4, <1>5, <1>7, <1>8, <1>10, <1>11

(* While the child is in the driver every request that waits is somewhere. *)
LEMMA NotLostStep ==
  ASSUME IInv, NotLost, Next
  PROVE  NotLost'
<1>1. TypeOK /\ Phases
  BY DEF IInv
<1>2. SUFFICES ASSUME conn' \in {"none", "setup", "connected"},
                      NEW h \in Handles, status'[h] = "waiting"
               PROVE  Before(h)' \/ After(h)'
  BY DEF NotLost
<1>3. conn \in {"none", "setup", "connected"}
  BY <1>1, <1>2, ParentTouches DEF Next, Submit, SendDisc, CanSend, Interrupt, SetSock, ClearQueue, SendRequest,
     SendData, ReceiveReply, ReceiveData, Hangup, Phases
<1>4. CASE status[h] = "waiting"
  <2>1. Before(h) \/ After(h)
    BY <1>3, <1>4 DEF NotLost
  <2>2. conn \in {"setup", "connected"} => conn' \in {"setup", "connected"}
    BY <1>1, <1>2, ParentTouches DEF Next, Submit, SendDisc, CanSend, Interrupt, SetSock, ClearQueue, SendRequest,
       SendData, ReceiveReply, ReceiveData, Hangup, Phases
  <2>3. CASE conn = "none"
    <3>1. /\ UNCHANGED << queue, down, up, receiving >>
          /\ pc \notin {"payload", "reply"}
      BY <1>1, <2>3 DEF Phases, Next, Parent, Submit, SendDisc, CanSend, Interrupt, SetSock, ClearQueue,
         SendRequest, SendData, ReceiveReply, ReceiveData, Hangup, Setup, OpenDevice, ServeRead, ServeWrite,
         ServeOther, ServeDisc, ReadShortHeader, EndOfRequests, ReadPayload, WriteReply, WriteData, AssertFails,
         ReadRequest, outside, driver
    <3> QED BY <2>1, <3>1, Unmoved DEF Before, After
  <2>4. CASE conn = "setup"
    <3>1. ~After(h)
      BY <1>1, <2>4, HandlesOnly DEF Phases, After, Replied, Nobody
    <3> QED BY <1>2, <2>1, <2>2, <2>4, <3>1, BeforeKept DEF Before, InPayload
  <2>5. CASE conn = "connected"
    <3>1. conn' = "connected"
      BY <1>1, <1>2, <2>5, ParentTouches DEF Next, Submit, SendDisc, CanSend, Interrupt, SetSock, ClearQueue,
         SendRequest, SendData, ReceiveReply, ReceiveData, Hangup, Phases
    <3>2. After(h) => After(h)'
      BY <1>2, <2>5, <3>1, AfterKept
    <3>3. Before(h) => Before(h)' \/ After(h)'
      BY <2>5, <3>1, BeforeKept DEF Before, InPayload
    <3> QED BY <2>1, <3>2, <3>3
  <2> QED BY <1>3, <2>3, <2>4, <2>5
<1>5. CASE status[h] # "waiting"
  <2>1. Submit
    BY <1>1, <1>2, <1>5, ParentTouches DEF Next, SendDisc, Interrupt, SetSock, ClearQueue, SendRequest,
       SendData, ReceiveReply, ReceiveData, Hangup, Waiting, TypeOK
  <2>2. queue' = Append(queue, h) /\ queue \in Seq(Handles)
    BY <1>1, <1>2, <1>5, <2>1 DEF Submit, TypeOK
  <2> QED BY <2>2, QueueAppended DEF Before
<1> QED BY <1>4, <1>5

(* When all the parent wrote was received nobody is left waiting for data.  *)
LEMMA NothingReceiving ==
  ASSUME IInv, conn = "connected", Ended, up = << >>
  PROVE  \A h \in Handles : ~After(h)
<1>1. TypeOK /\ Answers /\ UpInStep
  BY DEF IInv
<1>2. Upstream = << >>
  <2>1. InHand = << >>
    BY DEF InHand, Ended, Failed
  <2> QED BY <1>1, <2>1, UpstreamType, NothingInHand
<1>3. receiving = Nobody
  <2>1. SUFFICES ASSUME receiving # Nobody PROVE FALSE
    OBVIOUS
  <2> DEFINE h == receiving[1]
             n == Len(receiving[2])
  <2>2. /\ h \in Handles /\ Requests[h].type = "read"
        /\ effect[h] # << >> /\ n < Requests[h].len
    BY <1>1, <2>1 DEF Answers
  <2>3. effect[h][1] \in Seq(Values) /\ Len(effect[h][1]) = Requests[h].len
    BY <1>1, <2>2, EffectType DEF IInv
  <2>4. receiving[2] \in Seq(Values)
    BY <1>1 DEF TypeOK
  <2>5. n \in Nat /\ Requests[h].len \in Nat
    BY <2>2, <2>4, LenProperties, RequestType
  <2>6. UpWant = Rest(effect[h][1], n)
    BY <2>1 DEF UpWant
  <2> HIDE DEF h, n
  <2>7. UpWant # << >>
    BY <2>2, <2>3, <2>5, <2>6, RestIndex
  <2>8. UpWant \in Seq(Values)
    BY <2>2, <2>3, <2>5, <2>6, RestIndex
  <2>9. Len(UpWant) <= 0
    BY <1>1, <1>2, EmptySeq DEF UpInStep, Whole
  <2> QED BY <2>7, <2>8, <2>9, TailIndex
<1> QED BY <1>3, HandlesOnly DEF After, Replied, Ended, Failed, Nobody

(* The parent does nothing once it has failed. *)
LEMMA FailedStays ==
  ASSUME Next, Failed
  PROVE  Failed'
BY DEF Failed, Next, Parent, Submit, SendDisc, Interrupt, SetSock, ClearQueue, SendRequest, SendData,
   ReceiveReply, ReceiveData, Hangup, Setup, OpenDevice, ServeRead, ServeWrite, ServeOther, ServeDisc,
   ReadShortHeader, EndOfRequests, ReadPayload, WriteReply, WriteData, AssertFails, ReadRequest,
   outside, driver, parent

(* With a read and a write operation, the requests begun before a disconnect *)
(* request stay ahead of it until they are answered.                        *)
LEMMA BegunAheadStep ==
  ASSUME IInv, NotLost, BegunAhead, HasRead, HasWrite, Next
  PROVE  BegunAhead'
<1>1. TypeOK /\ Phases /\ Awaited
  BY DEF IInv
<1>2. SUFFICES ASSUME NEW h \in disc'.begun, ~interrupted', ~Failed'
               PROVE  \/ status'[h] = "ok"
                      \/ /\ conn' = "connected"
                         /\ After(h)' \/ (~Ended' /\ (InPayload(h)' \/ Ahead(h)'))
  BY DEF BegunAhead
<1>3. CASE SendDisc
  <2>1. /\ conn = "connected" /\ conn' = "connected" /\ ~Ended
        /\ disc'.begun = Waiting \ {queue[i] : i \in DOMAIN queue}
        /\ down' = Append(down, RequestItem(DiscHandle))
        /\ UNCHANGED << up, receiving, pc, handle >>
    BY <1>3 DEF SendDisc, CanSend, parent
  <2>2. h \in Handles /\ status[h] = "waiting" /\ ~Queued(h)
    BY <2>1 DEF Waiting, Queued
  <2>3. Sent(h) \/ InPayload(h) \/ After(h)
    BY <2>1, <2>2 DEF NotLost, Before, InPayload
  <2>4. Sent(h) => Ahead(h)'
    BY <1>1, <2>1, <2>2, Made, AheadAppended DEF TypeOK
  <2>5. InPayload(h) => InPayload(h)'
    BY <2>1 DEF InPayload
  <2>6. After(h) => After(h)'
    BY <2>1, <2>2, Unmoved DEF After
  <2> QED BY <2>1, <2>3, <2>4, <2>5, <2>6 DEF Ended, Failed
<1>4. CASE ~SendDisc
  <2>1. disc' = disc /\ (interrupted' = interrupted \/ interrupted')
    BY <1>4, ParentTouches DEF Next, Submit, Interrupt, SetSock, ClearQueue, SendRequest, SendData,
       ReceiveReply, ReceiveData, Hangup, driver
  <2>2. h \in Handles /\ disc.sent /\ ~interrupted /\ h \in disc.begun
    BY <1>1, <1>2, <2>1 DEF TypeOK, Phases
  <2> ~Failed
    BY <1>2, FailedStays
  <2>3. conn \in {"connected", "down", "cleared"}
    BY <1>1, <2>2 DEF Phases, TypeOK
  <2>4. CASE status[h] = "ok"
    <3>1. status'[h] = "ok"
      <4>1. CASE ReceiveReply
        <5>1. \/ UNCHANGED status
              \/ /\ Head(up)[2] \in Handles /\ status[Head(up)[2]] = "waiting"
                 /\ status' \in {[status EXCEPT ![Head(up)[2]] = "error"], [status EXCEPT ![Head(up)[2]] = "ok"]}
          BY <4>1 DEF ReceiveReply, IsReply, Waiting
        <5> QED BY <1>1, <2>2, <2>4, <5>1 DEF TypeOK
      <4>2. CASE ~ReceiveReply
        BY <1>1, <1>4, <2>2, <2>4, <4>2, ParentTouches DEF Next, Submit, Interrupt, SetSock, ClearQueue,
           SendRequest, SendData, ReceiveData, Hangup, Waiting, TypeOK
      <4> QED BY <4>1, <4>2
    <3> QED BY <3>1
  <2>5. CASE status[h] # "ok"
    <3>1. conn = "connected" /\ (After(h) \/ (~Ended /\ (InPayload(h) \/ Ahead(h))))
      BY <2>2, <2>5 DEF BegunAhead
    <3>2. conn' = "connected"
      <4>1. CASE ReceiveReply
        BY <3>1, <4>1, ReplyFound DEF ReceiveReply
      <4>2. CASE Hangup
        BY <2>2, <3>1, <4>2, NothingReceiving DEF Hangup
      <4>3. CASE ~ (ReceiveReply \/ Hangup)
        BY <1>1, <1>2, <1>4, <3>1, <4>3, ParentTouches DEF Next, Submit, Interrupt, SetSock, ClearQueue,
           SendRequest, SendData, ReceiveData, Phases
      <4> QED BY <4>1, <4>2, <4>3
    <3>3. After(h) => After(h)' \/ status'[h] = "ok"
      BY <2>2, <3>1, <3>2, AfterKept
    <3>4. ~Ended /\ InPayload(h) => After(h)' \/ (~Ended' /\ InPayload(h)')
      BY <1>2, <2>2, <3>1, <3>2, BeforeKept DEF InPayload, Ended, Failed
    <3>5. ~Ended /\ Ahead(h) => After(h)' \/ (~Ended' /\ (InPayload(h)' \/ Ahead(h)'))
      BY <1>2, <2>2, <3>1, <3>2, BeforeKept DEF InPayload, Ended, Failed
    <3> QED BY <3>1, <3>2, <3>3, <3>4, <3>5
  <2> QED BY <2>4, <2>5
<1> QED BY <1>3, <1>4

(* A request that the driver began to send before a disconnect request is   *)
(* answered, where the device has both operations: buse_main returns at the *)
(* disconnect request, and everything begun is ahead of it in the socket,   *)
(* so no reply is lost, and the child receives all that was written before  *)
(* it lets go.  One is lost only to a signal to the child, or where the     *)
(* parent fails: its open of the device, or a header read in part.          *)
THEOREM BegunCorrect ==
  ASSUME HasRead, HasWrite
  PROVE  Spec => []BegunIsAnswered
<1>1. Init => NotLost /\ BegunAhead
  BY DEF Init, NotLost, BegunAhead, NotDisconnected
<1>2. IInv /\ NotLost /\ BegunAhead /\ [Next]_vars => NotLost' /\ BegunAhead'
  <2>1. ASSUME UNCHANGED vars, NotLost, BegunAhead
        PROVE  NotLost' /\ BegunAhead'
    <3>1. UNCHANGED << status, queue, receiving, disc, down, up, conn, interrupted, pc, handle >>
      BY <2>1 DEF vars, driver, parent
    <3>2. NotLost'
      BY <2>1, <3>1 DEF NotLost, Before, After, Queued, Sent, Replied
    <3>3. BegunAhead'
      BY <2>1, <3>1 DEF BegunAhead, After, Replied, InPayload, Ahead, Ended, Failed
    <3> QED BY <3>2, <3>3
  <2> QED BY <2>1, NotLostStep, BegunAheadStep
<1>3. IInv /\ BegunAhead => BegunIsAnswered
  <2>1. SUFFICES ASSUME IInv, BegunAhead, NEW h \in disc.begun, status[h] = "error",
                        ~interrupted, ~Failed
                 PROVE  FALSE
    BY DEF BegunIsAnswered
  <2>2. h \in Handles
    BY <2>1 DEF IInv, TypeOK
  <2>3. conn = "connected" /\ (After(h) \/ InPayload(h) \/ Ahead(h))
    BY <2>1 DEF BegunAhead
  <2>4. Before(h) \/ After(h)
    BY <2>3 DEF Before, InPayload, Ahead, Sent
  <2> QED BY <2>1, <2>2, <2>3, <2>4 DEF IInv, Awaited
<1> QED BY <1>1, <1>2, <1>3, Invariant, PTL DEF Spec

-----------------------------------------------------------------------------
(* The device as its users see it *)

seen == << data, status, answer, effect >>

(* The data of a write is the submitter's, block for block. *)
LEMMA WrittenIsSubmitted ==
  ASSUME IInv, ReadPayload, Len(chunk') = Requests[handle].len
  PROVE  /\ handle \in Handles /\ Requests[handle].type = "write"
         /\ Written(data, Requests[handle], chunk') = Device!DiskAfter(Requests[handle])
<1> DEFINE r == Requests[handle]
<1>1. pc = "payload" /\ down # << >> /\ chunk' = Append(chunk, Head(down)[2]) /\ chunk \in Seq(Values)
  BY DEF ReadPayload, IInv, TypeOK
<1>2. /\ handle \in Handles /\ r.type = "write"
      /\ r.data \in Seq(Values) /\ Len(r.data) = r.len /\ r.len \in Nat
      /\ Len(chunk) \in Nat /\ Len(chunk) < r.len
      /\ Head(down) = DataItem(r.data[Len(chunk) + 1])
      /\ r.data[Len(chunk) + 1] \in Values
  BY <1>1, PayloadFound
<1>3. Head(down)[2] = r.data[Len(chunk) + 1]
  BY <1>2, Made
<1>4. /\ Len(chunk') = Len(chunk) + 1
      /\ \A k \in 1 .. Len(chunk) : chunk'[k] = chunk[k]
      /\ chunk'[Len(chunk) + 1] = r.data[Len(chunk) + 1]
  BY <1>1, <1>2, <1>3, AppendIndex
<1>5. \A k \in 1 .. Len(chunk) : chunk[k] = r.data[k]
  BY <1>1 DEF IInv, Serving
<1>6. r.from \in Nat
  BY <1>2, RequestType
<1>7. Len(chunk') = r.len
  OBVIOUS
<1> HIDE DEF r
<1>8. ASSUME NEW k \in 1 .. r.len
      PROVE  chunk'[k] = r.data[k]
  <2>1. k \in 1 .. Len(chunk) \/ k = Len(chunk) + 1
    BY <1>2, <1>4, <1>7
  <2> QED BY <2>1, <1>4, <1>5
<1>9. ASSUME NEW b \in r.from .. r.from + r.len - 1
      PROVE  chunk'[b - r.from + 1] = r.data[b - r.from + 1]
  <2>1. b - r.from + 1 \in 1 .. r.len
    BY <1>2, <1>6
  <2> QED BY <1>8, <2>1
<1>10. Written(data, r, chunk') = Device!DiskAfter(r)
  BY <1>2, <1>9 DEF Written, Device!DiskAfter
<1> QED BY <1>2, <1>10 DEF r

(* What the parent carries out is performed by the device, once. *)
LEMMA ParentPerforms ==
  ASSUME IInv, Parent
  PROVE  [Device!Next]_seen
<1>1. TypeOK /\ Effects
  BY DEF IInv
<1>2. UNCHANGED << status, answer >>
  BY ParentTouches
<1>3. ASSUME NEW h \in Handles, Device!Perform(h)
      PROVE  Device!Next
  BY <1>3 DEF Device!Next, Handles, Device!Handles
<1>4. CASE ServeRead
  <2>1. PICK h \in Handles :
          /\ ReadRequest(h) /\ Requests[h].type = "read"
          /\ \/ /\ chunk' = [i \in 1 .. Requests[h].len |-> data[Requests[h].from + i - 1]]
                /\ effect' = [effect EXCEPT ![h] = << chunk' >>]
             \/ UNCHANGED effect
          /\ UNCHANGED data
    BY <1>4 DEF ServeRead, Carried
  <2>2. status[h] # "none" /\ effect[h] = << >>
    BY <2>1, HeadSent, ServedOnce
  <2>3. CASE UNCHANGED effect
    BY <1>2, <2>1, <2>3 DEF seen
  <2>4. CASE effect' = [effect EXCEPT ![h] = << chunk' >>]
             /\ chunk' = [i \in 1 .. Requests[h].len |-> data[Requests[h].from + i - 1]]
    <3>1. chunk' = Device!ReadResult(Requests[h])
      BY <2>4 DEF Device!ReadResult
    <3>2. data' = Device!DiskAfter(Requests[h])
      BY <2>1 DEF Device!DiskAfter
    <3> QED BY <1>2, <1>3, <2>1, <2>2, <2>4, <3>1, <3>2 DEF Device!Perform
  <2> QED BY <2>1, <2>3, <2>4
<1>5. CASE ServeOther
  <2>1. PICK h \in Handles :
          /\ ReadRequest(h) /\ Requests[h].type \in {"trim", "flush"}
          /\ effect' = [effect EXCEPT ![h] = << << >> >>] /\ UNCHANGED data
    BY <1>5 DEF ServeOther, Carried
  <2>2. status[h] # "none" /\ effect[h] = << >>
    BY <2>1, HeadSent, ServedOnce
  <2>3. data' = Device!DiskAfter(Requests[h])
    BY <2>1 DEF Device!DiskAfter
  <2> QED BY <1>2, <1>3, <2>1, <2>2, <2>3 DEF Device!Perform
<1>6. CASE ReadPayload
  <2>1. CASE UNCHANGED << data, effect >>
    BY <1>2, <2>1 DEF seen
  <2>2. CASE ~ UNCHANGED << data, effect >>
    <3>1. /\ pc = "payload" /\ Len(chunk') = Requests[handle].len
          /\ data' = Written(data, Requests[handle], chunk')
          /\ effect' = [effect EXCEPT ![handle] = << << >> >>]
      BY <1>6, <2>2 DEF ReadPayload, Carried
    <3>2. /\ handle \in Handles /\ Requests[handle].type = "write"
          /\ data' = Device!DiskAfter(Requests[handle])
      BY <1>6, <3>1, WrittenIsSubmitted
    <3>3. status[handle] # "none" /\ effect[handle] = << >>
      BY <3>1, <3>2, ServedOnce
    <3> QED BY <1>2, <1>3, <3>1, <3>2, <3>3 DEF Device!Perform
  <2> QED BY <2>1, <2>2
<1>7. CASE ~ (ServeRead \/ ServeOther \/ ReadPayload)
  <2>1. UNCHANGED << data, effect >>
    BY <1>7 DEF Parent, Setup, OpenDevice, ServeWrite, ServeDisc, ReadShortHeader, EndOfRequests, WriteReply, WriteData,
       AssertFails
  <2> QED BY <1>2, <2>1 DEF seen
<1> QED BY <1>4, <1>5, <1>6, <1>7

(* A request answered has the answer of its effect. *)
LEMMA DeviceAnswers ==
  ASSUME IInv, NEW h \in Handles, After(h), conn = "connected", effect[h] # << >>,
         status' = [status EXCEPT ![h] = "ok"],
         answer' = [answer EXCEPT ![h] = effect[h][1]],
         UNCHANGED << data, effect >>
  PROVE  Device!Next
<1>1. status[h] = "waiting"
  BY DEF IInv, Awaited
<1>2. Device!Answer(h)
  BY <1>1 DEF Device!Answer
<1> QED BY <1>2 DEF Device!Next, Handles, Device!Handles

(* Requests fail that wait, or come too late. *)
LEMMA DeviceFails ==
  ASSUME TypeOK, NEW failed \in SUBSET {h \in Handles : status[h] \in {"none", "waiting"}},
         status' = [h \in Handles |-> IF h \in failed THEN "error" ELSE status[h]],
         UNCHANGED << data, answer, effect >>
  PROVE  Device!Next
BY DEF Device!Next, Device!Fail, Handles, Device!Handles

(* The driver answers with what the parent carried out. *)
LEMMA ReplyAnswers ==
  ASSUME IInv, ReceiveReply
  PROVE  [Device!Next]_seen
<1>1. TypeOK /\ Effects /\ Answers
  BY DEF IInv
<1>2. /\ up # << >> /\ up \in Seq(Items) /\ conn = "connected"
      /\ UNCHANGED << data, answer, effect >>
  BY <1>1 DEF ReceiveReply, parent, TypeOK
<1>3. CASE UNCHANGED status
  BY <1>2, <1>3 DEF seen
<1> DEFINE h == Head(up)[2]
<1>4. CASE IsReply(Head(up)) /\ status' = [status EXCEPT ![h] = "error"]
  <2>1. h \in Handles /\ status[h] = "waiting"
    BY <1>4 DEF IsReply, Waiting
  <2> HIDE DEF h
  <2>2. status' = [g \in Handles |-> IF g \in {h} THEN "error" ELSE status[g]]
    BY <1>1, <1>4, <2>1 DEF TypeOK
  <2>3. {h} \in SUBSET {g \in Handles : status[g] \in {"none", "waiting"}}
    BY <2>1
  <2>4. Device!Next
    BY <1>1, <1>2, <2>2, <2>3, DeviceFails
  <2> QED BY <2>4
<1>5. CASE /\ IsReply(Head(up)) /\ Head(up)[3] = 0 /\ Requests[h].type # "read"
           /\ status' = [status EXCEPT ![h] = "ok"]
  <2>1. h \in Handles /\ Head(up)[1] = "reply" /\ Head(up) = up[1] /\ 1 \in DOMAIN up
    BY <1>2, <1>5, TailIndex DEF IsReply, Waiting
  <2>2. effect[h] # << >> /\ After(h)
    BY <1>1, <1>5, <2>1 DEF Answers, After, Replied
  <2>3. effect[h][1] = << >>
    <3>1. effect[h][1] \in Seq(Values) /\ Len(effect[h][1]) = 0
      BY <1>1, <1>5, <2>1, <2>2, EffectType
    <3> QED BY <3>1, EmptySeq
  <2>4. answer[h] = << >>
    BY <1>1, <1>5, <2>1 DEF Effects
  <2> HIDE DEF h
  <2>5. answer' = [answer EXCEPT ![h] = effect[h][1]]
    BY <1>1, <1>2, <2>1, <2>3, <2>4 DEF TypeOK
  <2>6. Device!Next
    BY <1>2, <1>5, <2>1, <2>2, <2>5, DeviceAnswers
  <2> QED BY <2>6
<1>6. \/ UNCHANGED status
      \/ IsReply(Head(up)) /\ status' = [status EXCEPT ![h] = "error"]
      \/ /\ IsReply(Head(up)) /\ Head(up)[3] = 0 /\ Requests[h].type # "read"
         /\ status' = [status EXCEPT ![h] = "ok"]
  BY DEF ReceiveReply
<1> QED BY <1>3, <1>4, <1>5, <1>6

(* The blocks the driver received are those that were read. *)
LEMMA DataAnswers ==
  ASSUME IInv, ReceiveData
  PROVE  [Device!Next]_seen
<1>1. TypeOK /\ Answers
  BY DEF IInv
<1>2. /\ conn = "connected" /\ receiving # Nobody /\ up # << >>
      /\ UNCHANGED << data, effect >>
  BY DEF ReceiveData, parent
<1> DEFINE h == receiving[1]
           got == Append(receiving[2], Head(up)[2])
           n == Len(receiving[2])
<1>3. /\ h \in Handles /\ effect[h] # << >>
      /\ effect[h][1] \in Seq(Values) /\ Len(effect[h][1]) = Requests[h].len
      /\ Requests[h].len \in Nat
      /\ receiving[2] \in Seq(Values) /\ n \in Nat /\ n < Requests[h].len
      /\ Head(up) = DataItem(effect[h][1][n + 1])
      /\ effect[h][1][n + 1] \in Values
  BY <1>2, AnswerFound
<1>4. Head(up)[2] = effect[h][1][n + 1]
  BY <1>3, Made
<1>5. /\ got \in Seq(Values) /\ Len(got) = n + 1
      /\ \A k \in 1 .. n : got[k] = receiving[2][k]
      /\ got[n + 1] = effect[h][1][n + 1]
  BY <1>3, <1>4, AppendIndex
<1>6. \A k \in 1 .. n : receiving[2][k] = effect[h][1][k]
  BY <1>1, <1>2 DEF Answers
<1>7. \/ /\ UNCHANGED << status, answer >>
      \/ /\ ~ (Len(got) < Requests[h].len)
         /\ status' = [status EXCEPT ![h] = "ok"] /\ answer' = [answer EXCEPT ![h] = got]
  BY DEF ReceiveData
<1>8. After(h)
  BY DEF After
<1> HIDE DEF h, got, n
<1>9. ASSUME ~ (Len(got) < Requests[h].len)
      PROVE  got = effect[h][1]
  <2>1. Len(got) = Requests[h].len
    BY <1>3, <1>5, <1>9
  <2>2. ASSUME NEW k \in 1 .. Len(got)
        PROVE  got[k] = effect[h][1][k]
    <3>1. k \in 1 .. n \/ k = n + 1
      BY <1>3, <1>5
    <3> QED BY <3>1, <1>5, <1>6
  <2> QED BY <1>3, <1>5, <2>1, <2>2, SeqEqual
<1>10. CASE UNCHANGED << status, answer >>
  BY <1>2, <1>10 DEF seen
<1>11. CASE /\ ~ (Len(got) < Requests[h].len)
            /\ status' = [status EXCEPT ![h] = "ok"] /\ answer' = [answer EXCEPT ![h] = got]
  <2>1. Device!Next
    BY <1>2, <1>3, <1>8, <1>9, <1>11, DeviceAnswers
  <2> QED BY <2>1
<1> QED BY <1>7, <1>10, <1>11

(* The device behind the sockets is one disk: every request takes effect    *)
(* once, between its submission and its answer, and the answer is that      *)
(* effect's, for every number of requests, of blocks and of items a socket  *)
(* holds, with a read and a write operation or without, and whenever the    *)
(* child or the parent goes away.                                           *)
THEOREM BuseIsADevice == Spec => LinearDevice
<1>1. Init => Device!Init
  BY DEF Init, Device!Init, Handles, Device!Handles
<1>2. IInv /\ [Next]_vars => [Device!Next]_seen
  <2>1. SUFFICES ASSUME IInv, [Next]_vars PROVE [Device!Next]_seen
    OBVIOUS
  <2>2. TypeOK
    BY <2>1 DEF IInv
  <2>3. CASE Submit
    <3>1. PICK h \in Handles :
            /\ status[h] = "none"
            /\ status' \in {[status EXCEPT ![h] = "error"], [status EXCEPT ![h] = "waiting"]}
            /\ UNCHANGED << data, answer, effect >>
      BY <2>3 DEF Submit, parent
    <3>2. CASE status' = [status EXCEPT ![h] = "error"]
      <4>1. status' = [g \in Handles |-> IF g \in {h} THEN "error" ELSE status[g]]
        BY <2>2, <3>2 DEF TypeOK
      <4>2. {h} \in SUBSET {g \in Handles : status[g] \in {"none", "waiting"}}
        BY <3>1
      <4>3. Device!Next
        BY <2>2, <3>1, <4>1, <4>2, DeviceFails
      <4> QED BY <4>3
    <3>3. CASE status' = [status EXCEPT ![h] = "waiting"]
      <4>1. Device!Submit(h)
        BY <3>1, <3>3 DEF Device!Submit
      <4> QED BY <4>1 DEF Device!Next, Handles, Device!Handles
    <3> QED BY <3>1, <3>2, <3>3
  <2>4. CASE ClearQueue
    <3>1. /\ status' = [h \in Handles |-> IF h \in Waiting THEN "error" ELSE status[h]]
          /\ UNCHANGED << data, answer, effect >>
      BY <2>4 DEF ClearQueue, parent
    <3>2. Waiting \in SUBSET {h \in Handles : status[h] \in {"none", "waiting"}}
      BY DEF Waiting
    <3>3. Device!Next
      BY <2>2, <3>1, <3>2, DeviceFails
    <3> QED BY <3>3
  <2>5. CASE ReceiveReply
    BY <2>1, <2>5, ReplyAnswers
  <2>6. CASE ReceiveData
    BY <2>1, <2>6, DataAnswers
  <2>7. CASE Parent
    BY <2>1, <2>7, ParentPerforms
  <2>8. CASE SendDisc \/ Interrupt \/ SetSock \/ SendRequest \/ SendData \/ Hangup \/ UNCHANGED vars
    BY <2>8 DEF SendDisc, Interrupt, SetSock, SendRequest, SendData, Hangup, vars, parent, seen
  <2> QED BY <2>1, <2>3, <2>4, <2>5, <2>6, <2>7, <2>8 DEF Next
<1> QED BY <1>1, <1>2, Invariant, PTL DEF Spec, LinearDevice, Device!Spec, seen

=============================================================================
