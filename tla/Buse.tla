-------------------------------- MODULE Buse --------------------------------
(***************************************************************************)
(* Serving a block device: buse_main (buse.c) sets the device up and       *)
(* forks; its child hands one end of a socket pair to the nbd driver and   *)
(* stays in the driver until it lets go, the parent reads requests from    *)
(* the other end, calls the operations of buse_operations and writes       *)
(* replies.  The operations are those of busexmp.c, a disk in memory.      *)
(*                                                                         *)
(* The nbd driver is outside this code: one thread of it sends requests,   *)
(* another one, the child's, receives replies and finds their requests by  *)
(* the handle.  A header is an item of the socket's stream and a block of  *)
(* data is one.  read_all and write_all go on until all is moved; the      *)
(* header of a request is read by one call of read, which may return a     *)
(* part of it.                                                             *)
(***************************************************************************)
EXTENDS Integers, Sequences, FiniteSets

CONSTANTS
  Blocks,              (* of the disk, numbers in a row                    *)
  Values,              (* what a block may hold                            *)
  Requests,            (* [type, from, len, data], a sequence: its indices *)
                       (* are the handles                                  *)
  HasRead, HasWrite,   (* FALSE where buse_operations has NULL             *)
  SockSize             (* bound: items that fit in a socket                *)

Handles == DOMAIN Requests

(* The types buse_main has a case for; the driver sends no others, so that  *)
(* the default at buse.c:258 is not reached.                               *)
Types == {"read", "write", "trim", "flush"}

(* Requests are for blocks of the device, and not empty; the data sent is   *)
(* that of writes.                                                         *)
ASSUME BuseAssumption ==
  /\ {HasRead, HasWrite} \subseteq BOOLEAN
  /\ SockSize \in Nat \ {0}
  /\ Requests \in Seq([type : Types, from : Nat, len : Nat, data : Seq(Values)])
  /\ \A h \in Handles :
       LET r == Requests[h] IN
       /\ r.type \in {"read", "write"} =>
            r.len > 0 /\ r.from .. r.from + r.len - 1 \subseteq Blocks
       /\ Len(r.data) = IF r.type = "write" THEN r.len ELSE 0

VARIABLES
  status,      (* of each request, as its submitter sees it                *)
  answer,      (* of each request, the data its submitter was given        *)
  queue,       (* external: requests the driver has not begun to send      *)
  sending,     (* external: what is left of the payload being sent         *)
  down, up,    (* the sockets, to the parent and to the driver             *)
  receiving,   (* external: the read whose data is received, with the data *)
  conn,        (* what the child does: set up, stay in NBD_DO_IT, clear up *)
  interrupted, (* a signal took the child out of NBD_DO_IT                 *)
  disc,        (* history: the requests begun before a disconnect request  *)
  pc,          (* where the parent stands in buse_main                     *)
  handle,      (* of the request it serves                                 *)
  chunk,       (* the data read, or still to be written                    *)
  error,       (* reply.error                                              *)
  data,        (* the memory of busexmp.c                                  *)
  effect       (* history: of each request, << >> or << what it returned >> *)

driver == << queue, sending, receiving, disc >>
parent == << pc, handle, chunk, error, data, effect >>
vars == << status, answer, driver, down, up, conn, interrupted, parent >>

Nobody == << 0, << >> >>

RequestItem(h) == << "request", h >>
ReplyItem(h, e) == << "reply", h, e >>
DataItem(v) == << "data", v >>

DiscHandle == 0      (* of the disconnect request, which has no reply *)
EPERM == 1

NotDisconnected == [sent |-> FALSE, begun |-> {}]

Init ==
  /\ status = [h \in Handles |-> "none"]
  /\ answer = [h \in Handles |-> << >>]
  /\ queue = << >>
  /\ sending = << >>
  /\ down = << >>
  /\ up = << >>
  /\ receiving = Nobody
  /\ conn = "none"
  /\ interrupted = FALSE
  /\ disc = NotDisconnected
  /\ pc = "setup"
  /\ handle = 0
  /\ chunk = << >>
  /\ error = 0
  /\ data \in [Blocks -> Values]
  /\ effect = [h \in Handles |-> << >>]

Waiting == {h \in Handles : status[h] = "waiting"}

(* What is outside the parent failed it, and an assertion stopped it:       *)
(* "unopened":    open of the device failed (buse.c:166)                    *)
(* "shortheader": read returned a part of a header (buse.c:177)             *)
Failed == pc \in {"unopened", "shortheader"}

Ended == pc \in {"exited", "aborted"} \/ Failed

-----------------------------------------------------------------------------
(* The child *)

(* NBD_SET_SOCK, NBD_SET_FLAGS and NBD_DO_IT, or an error of one of them.  *)
SetSock ==
  /\ conn = "setup"
  /\ conn' \in {"connected", "down"}
  /\ UNCHANGED << status, answer, driver, down, up, interrupted, parent >>

(* NBD_CLEAR_QUE fails the requests that wait, NBD_CLEAR_SOCK and exit      *)
(* close the socket.                                                        *)
ClearQueue ==
  /\ conn = "down"
  /\ conn' = "cleared"
  /\ status' = [h \in Handles |-> IF h \in Waiting THEN "error" ELSE status[h]]
  /\ queue' = << >>
  /\ sending' = << >>
  /\ receiving' = Nobody
  /\ UNCHANGED << answer, disc, down, up, interrupted, parent >>

(* A signal ends NBD_DO_IT. *)
Interrupt ==
  /\ conn = "connected"
  /\ conn' = "down"
  /\ interrupted' = TRUE
  /\ UNCHANGED << status, answer, driver, down, up, parent >>

-----------------------------------------------------------------------------
(* The nbd driver *)

(* Requests that come before buse_main has forked are none of its: the      *)
(* driver fails them by itself.  So it does after the end of the device.    *)
Submit ==
  /\ conn # "none"
  /\ \E h \in Handles :
       /\ status[h] = "none"
       /\ IF conn = "cleared"
          THEN status' = [status EXCEPT ![h] = "error"] /\ UNCHANGED queue
          ELSE status' = [status EXCEPT ![h] = "waiting"] /\ queue' = Append(queue, h)
  /\ UNCHANGED << answer, sending, receiving, disc, down, up, conn, interrupted, parent >>

CanSend == conn = "connected" /\ ~Ended /\ Len(down) < SockSize

SendRequest ==
  /\ CanSend
  /\ sending = << >>
  /\ queue # << >>
  /\ down' = Append(down, RequestItem(Head(queue)))
  /\ queue' = Tail(queue)
  /\ sending' = Requests[Head(queue)].data
  /\ UNCHANGED << status, answer, receiving, disc, up, conn, interrupted, parent >>

SendData ==
  /\ CanSend
  /\ sending # << >>
  /\ down' = Append(down, DataItem(Head(sending)))
  /\ sending' = Tail(sending)
  /\ UNCHANGED << status, answer, queue, receiving, disc, up, conn, interrupted, parent >>

(* NBD_DISCONNECT, called by nbd-client -d. *)
SendDisc ==
  /\ CanSend
  /\ sending = << >>
  /\ ~disc.sent
  /\ disc' = [sent |-> TRUE, begun |-> Waiting \ {queue[i] : i \in DOMAIN queue}]
  /\ down' = Append(down, RequestItem(DiscHandle))
  /\ UNCHANGED << status, answer, queue, sending, receiving, up, conn, interrupted, parent >>

(* The driver gives up when what it takes for a reply belongs to nothing.  *)
IsReply(item) == item[1] = "reply" /\ item[2] \in Waiting

ReceiveReply ==
  /\ conn = "connected"
  /\ receiving = Nobody
  /\ up # << >>
  /\ up' = Tail(up)
  /\ LET h == Head(up)[2] IN
     \/ /\ IsReply(Head(up))
        /\ Head(up)[3] # 0
        /\ status' = [status EXCEPT ![h] = "error"]
        /\ UNCHANGED << receiving, conn >>
     \/ /\ IsReply(Head(up))
        /\ Head(up)[3] = 0
        /\ Requests[h].type = "read"
        /\ receiving' = << h, << >> >>
        /\ UNCHANGED << status, conn >>
     \/ /\ IsReply(Head(up))
        /\ Head(up)[3] = 0
        /\ Requests[h].type # "read"
        /\ status' = [status EXCEPT ![h] = "ok"]
        /\ UNCHANGED << receiving, conn >>
     \/ /\ ~IsReply(Head(up))
        /\ conn' = "down"
        /\ UNCHANGED << status, receiving >>
  /\ UNCHANGED << answer, queue, sending, disc, down, interrupted, parent >>

ReceiveData ==
  /\ conn = "connected"
  /\ receiving # Nobody
  /\ up # << >>
  /\ up' = Tail(up)
  /\ LET h == receiving[1]
         got == Append(receiving[2], Head(up)[2])
     IN  IF Len(got) < Requests[h].len
         THEN receiving' = << h, got >> /\ UNCHANGED << status, answer >>
         ELSE /\ receiving' = Nobody
              /\ status' = [status EXCEPT ![h] = "ok"]
              /\ answer' = [answer EXCEPT ![h] = got]
  /\ UNCHANGED << queue, sending, disc, down, conn, interrupted, parent >>

(* The parent is gone and all it wrote was received: NBD_DO_IT returns.    *)
Hangup ==
  /\ conn = "connected"
  /\ Ended
  /\ up = << >>
  /\ conn' = "down"
  /\ UNCHANGED << status, answer, driver, down, up, interrupted, parent >>

-----------------------------------------------------------------------------
(* The parent *)

outside == << status, answer, driver, conn, interrupted >>

(* The socket pair, the device, its size: where one cannot be had buse_main *)
(* returns or an assertion fails.  Otherwise it forks.                      *)
Setup ==
  /\ pc = "setup"
  /\ \/ pc' = "open" /\ conn' = "setup"
     \/ pc' \in {"exited", "aborted"} /\ UNCHANGED conn
  /\ UNCHANGED << status, answer, driver, interrupted, down, up,
                  handle, chunk, error, data, effect >>

(* It opens the device once, to be closed again with the child's socket;    *)
(* where the open fails an assertion does.                                 *)
OpenDevice ==
  /\ pc = "open"
  /\ pc' \in {"request", "unopened"}
  /\ UNCHANGED << outside, down, up, handle, chunk, error, data, effect >>

(* buse_main has read the whole header of request h; reply.error is reset. *)
ReadRequest(h) ==
  /\ pc = "request"
  /\ down # << >>
  /\ Head(down) = RequestItem(h)
  /\ down' = Tail(down)
  /\ handle' = h
  /\ UNCHANGED << outside, up >>

(* What the operation returned is remembered. *)
Carried(h, what) == effect' = [effect EXCEPT ![h] = << what >>]

(* aop->read fills chunk.  Without it chunk holds what malloc returned.    *)
ServeRead ==
  \E h \in Handles :
    /\ ReadRequest(h)
    /\ Requests[h].type = "read"
    /\ \/ /\ HasRead
          /\ chunk' = [i \in 1 .. Requests[h].len |-> data[Requests[h].from + i - 1]]
          /\ error' = 0
          /\ Carried(h, chunk')
       \/ /\ ~HasRead
          /\ chunk' \in [1 .. Requests[h].len -> Values]
          /\ error' = EPERM
          /\ UNCHANGED effect
    /\ pc' = "reply"
    /\ UNCHANGED data

(* Mutant: the data of a write is left in the socket. *)
ServeWriteUnread ==
  \E h \in Handles :
    /\ ReadRequest(h)
    /\ Requests[h].type = "write"
    /\ chunk' = << >>
    /\ error' = 0
    /\ pc' = "reply"
    /\ UNCHANGED << data, effect >>

(* The data of a write follows its header. *)
ServeWrite ==
  \E h \in Handles :
    /\ ReadRequest(h)
    /\ Requests[h].type = "write"
    /\ chunk' = << >>
    /\ error' = 0
    /\ pc' = "payload"
    /\ UNCHANGED << data, effect >>

(* Mutant: a TRIM or FLUSH without an operation gets no reply. *)
ServeOtherSilently ==
  \E h \in Handles :
    /\ ReadRequest(h)
    /\ Requests[h].type \in {"trim", "flush"}
    /\ pc' = "request"
    /\ Carried(h, << >>)
    /\ UNCHANGED << chunk, error, data >>

(* TRIM and FLUSH change nothing, and succeed with an operation or without. *)
ServeOther ==
  \E h \in Handles :
    /\ ReadRequest(h)
    /\ Requests[h].type \in {"trim", "flush"}
    /\ chunk' = << >>
    /\ error' = 0
    /\ pc' = "reply"
    /\ Carried(h, << >>)
    /\ UNCHANGED data

(* Mutant: the disconnect request is replied to like any other. *)
ServeDiscReplied ==
  /\ ReadRequest(DiscHandle)
  /\ pc' = "reply"
  /\ UNCHANGED << chunk, error, data, effect >>

(* buse_main returns, and with it main. *)
ServeDisc ==
  /\ ReadRequest(DiscHandle)
  /\ pc' = "exited"
  /\ UNCHANGED << chunk, error, data, effect >>

(* read has returned a part of a header.  The assertion on its length ends  *)
(* the parent; nothing reads the rest.                                     *)
ReadShortHeader ==
  /\ pc = "request"
  /\ down # << >>
  /\ pc' = "shortheader"
  /\ UNCHANGED << outside, down, up, handle, chunk, error, data, effect >>

(* Mutant: only an error of read ends the loop. *)
EndOfRequestsUnseen ==
  /\ pc = "request"
  /\ down = << >>
  /\ conn = "cleared"
  /\ UNCHANGED vars

(* Once the child has closed the socket read returns 0, or -1 where it left *)
(* replies in it: both end the loop.                                       *)
EndOfRequests ==
  /\ pc = "request"
  /\ down = << >>
  /\ conn = "cleared"
  /\ pc' = "exited"
  /\ UNCHANGED << outside, down, up, handle, chunk, error, data, effect >>

(* Mutant: memcpy of the first block only. *)
WrittenFirst(d, r, new) == [d EXCEPT ![r.from] = new[1]]

(* memcpy of the chunk to the disk. *)
Written(d, r, new) ==
  [b \in Blocks |-> IF b \in r.from .. r.from + r.len - 1
                    THEN new[b - r.from + 1] ELSE d[b]]

(* read_all; after the last block aop->write is called, if there is one.   *)
ReadPayload ==
  /\ pc = "payload"
  /\ down # << >>
  /\ down' = Tail(down)
  /\ chunk' = Append(chunk, Head(down)[2])
  /\ LET r == Requests[handle] IN
     \/ /\ Len(chunk') < r.len
        /\ UNCHANGED << pc, error, data, effect >>
     \/ /\ Len(chunk') = r.len
        /\ HasWrite
        /\ data' = Written(data, r, chunk')
        /\ Carried(handle, << >>)
        /\ pc' = "reply"
        /\ UNCHANGED error
     \/ /\ Len(chunk') = r.len
        /\ ~HasWrite
        /\ error' = EPERM
        /\ pc' = "reply"
        /\ UNCHANGED << data, effect >>
  /\ UNCHANGED << outside, up, handle >>

(* write_all of the header.  READ is the only case that sends its chunk,   *)
(* with an error as without.                                                *)
WriteReply ==
  /\ pc = "reply"
  /\ conn # "cleared"
  /\ Len(up) < SockSize
  /\ up' = Append(up, ReplyItem(handle, error))
  /\ pc' = IF Requests[handle].type = "read" THEN "data" ELSE "request"
  /\ UNCHANGED << outside, down, handle, chunk, error, data, effect >>

(* write_all of the chunk. *)
WriteData ==
  /\ pc = "data"
  /\ conn # "cleared"
  /\ Len(up) < SockSize
  /\ up' = Append(up, DataItem(Head(chunk)))
  /\ chunk' = Tail(chunk)
  /\ pc' = IF Len(chunk) = 1 THEN "request" ELSE "data"
  /\ UNCHANGED << outside, down, handle, error, data, effect >>

(* What is read for a request must have its magic number; on a closed       *)
(* socket read_all asserts and write_all gets SIGPIPE.  The assertions on   *)
(* the open and on the length of a header are in the steps that make them.  *)
AssertFails ==
  /\ \/ pc = "request" /\ down # << >> /\ Head(down)[1] # "request"
     \/ conn = "cleared" /\ pc \in {"reply", "data"}
     \/ conn = "cleared" /\ pc = "payload" /\ down = << >>
  /\ pc' = "aborted"
  /\ UNCHANGED << outside, down, up, handle, chunk, error, data, effect >>

Child == SetSock \/ ClearQueue
Sender == SendRequest \/ SendData
Receiver == ReceiveReply \/ ReceiveData \/ Hangup
Parent ==
  \/ Setup \/ OpenDevice \/ ServeRead \/ ServeWrite \/ ServeOther \/ ServeDisc
  \/ ReadShortHeader \/ EndOfRequests \/ ReadPayload \/ WriteReply \/ WriteData \/ AssertFails

Next ==
  \/ Submit \/ SendDisc \/ Interrupt
  \/ SetSock \/ ClearQueue
  \/ SendRequest \/ SendData
  \/ ReceiveReply \/ ReceiveData \/ Hangup
  \/ Parent

(* Each of the four threads goes on while it can. *)
Spec ==
  /\ Init /\ [][Next]_vars
  /\ WF_vars(Child) /\ WF_vars(Sender) /\ WF_vars(Receiver) /\ WF_vars(Parent)
-----------------------------------------------------------------------------
(* Properties *)

Items == {RequestItem(h) : h \in Handles \cup {DiscHandle}}
         \cup {ReplyItem(h, e) : h \in Handles, e \in {0, EPERM}}
         \cup {DataItem(v) : v \in Values}

(* Every variable has its type, and the sockets hold what fits in them. *)
TypeOK ==
  /\ status \in [Handles -> {"none", "waiting", "ok", "error"}]
  /\ answer \in [Handles -> Seq(Values)]
  /\ queue \in Seq(Handles)
  /\ sending \in Seq(Values)
  /\ down \in Seq(Items) /\ Len(down) <= SockSize
  /\ up \in Seq(Items) /\ Len(up) <= SockSize
  /\ receiving \in (Handles \cup {0}) \X Seq(Values)
  /\ conn \in {"none", "setup", "connected", "down", "cleared"}
  /\ interrupted \in BOOLEAN
  /\ disc \in [sent : BOOLEAN, begun : SUBSET Handles]
  /\ pc \in {"setup", "open", "request", "payload", "reply", "data", "exited", "aborted",
             "unopened", "shortheader"}
  /\ handle \in Handles \cup {DiscHandle}
  /\ pc \in {"payload", "reply", "data"} => handle \in Handles
  /\ chunk \in Seq(Values)
  /\ error \in {0, EPERM}
  /\ data \in [Blocks -> Values]
  /\ DOMAIN effect = Handles
  /\ \A h \in Handles : effect[h] # << >> => effect[h] \in Seq(Seq(Values))

(* The assertions on what the streams hold, the magic number of a request   *)
(* and the results of read_all and write_all, never fail, and no write is   *)
(* into a closed socket, unless the device could not be set up before the   *)
(* fork, or a signal took the child away from it: not when the child could  *)
(* not set it up, and not at a disconnect request.  The two assertions that *)
(* what is outside can fail at any time are set apart (Failed).             *)
StreamAssertionsHold == pc = "aborted" => interrupted \/ conn = "none"

(* Both ends agree on where a header stands in the stream and where data:   *)
(* the parent finds a request or the data of its write, the driver a reply  *)
(* to a request that waits or the data of its read.                         *)
StreamsInStep ==
  /\ pc = "request" /\ down # << >> => Head(down)[1] = "request"
  /\ pc = "payload" /\ down # << >> => Head(down)[1] = "data"
  /\ conn = "connected" /\ up # << >> =>
       IF receiving = Nobody THEN IsReply(Head(up)) ELSE Head(up)[1] = "data"

(* A request that the driver began to send before a disconnect request is   *)
(* answered: none of them is lost because the parent returns.  It may be    *)
(* lost with the child, to a signal, or with the parent, to an open that    *)
(* fails or a header that is read in part.                                  *)
BegunIsAnswered ==
  \A h \in disc.begun : status[h] = "error" => interrupted \/ Failed

(* Where buse_operations has no read the error EPERM goes to the reads and  *)
(* to nothing else: other requests fail only with the device, when it was   *)
(* not set up, was left at a signal, disconnected, or failed the parent.    *)
OnlyReadsFail ==
  \A h \in Handles :
    Requests[h].type # "read" /\ status[h] = "error" =>
      handle = 0 \/ interrupted \/ disc.sent \/ Failed

(* The device behind the sockets: what the parent carries out is what the   *)
(* users of the device see, in one order.                                   *)
Device == INSTANCE BlockDevice WITH disk <- data

LinearDevice == Device!Spec

(* Every request is answered, or fails when the device goes away.           *)
RequestsEnd ==
  \A h \in Handles : status[h] = "waiting" ~> status[h] \in {"ok", "error"}

(* Once the child has let go of the device the parent ends.                 *)
ParentEnds == conn = "down" ~> Ended
=============================================================================
