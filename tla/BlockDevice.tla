----------------------------- MODULE BlockDevice -----------------------------
(***************************************************************************)
(* What a device made with buse_main promises to those who use it: every   *)
(* request takes effect at one moment after its submission and before its  *)
(* answer, and the answer to a read is what the disk held at that moment.  *)
(* A request may fail when the device goes away; its effect may then come  *)
(* before its failure, after it, or not at all.                            *)
(***************************************************************************)
EXTENDS Integers, Sequences

CONSTANTS Blocks, Values, Requests

VARIABLES
  disk,      (* what the blocks hold                                       *)
  status,    (* of each request                                            *)
  answer,    (* of each request, the data its submitter was given          *)
  effect     (* of each request, << >> or << what came of it >>            *)

Handles == DOMAIN Requests

ReadResult(r) == [i \in 1 .. r.len |-> disk[r.from + i - 1]]

(* The disk after request r. *)
DiskAfter(r) ==
  IF r.type = "write"
  THEN [b \in Blocks |-> IF b \in r.from .. r.from + r.len - 1
                         THEN r.data[b - r.from + 1] ELSE disk[b]]
  ELSE disk

Init ==
  /\ disk \in [Blocks -> Values]
  /\ status = [h \in Handles |-> "none"]
  /\ answer = [h \in Handles |-> << >>]
  /\ effect = [h \in Handles |-> << >>]

Submit(h) ==
  /\ status[h] = "none"
  /\ status' = [status EXCEPT ![h] = "waiting"]
  /\ UNCHANGED << disk, answer, effect >>

Perform(h) ==
  /\ status[h] # "none"
  /\ effect[h] = << >>
  /\ effect' = [effect EXCEPT ![h] =
                 << IF Requests[h].type = "read" THEN ReadResult(Requests[h]) ELSE << >> >>]
  /\ disk' = DiskAfter(Requests[h])
  /\ UNCHANGED << status, answer >>

Answer(h) ==
  /\ status[h] = "waiting"
  /\ effect[h] # << >>
  /\ status' = [status EXCEPT ![h] = "ok"]
  /\ answer' = [answer EXCEPT ![h] = effect[h][1]]
  /\ UNCHANGED << disk, effect >>

(* Requests that wait fail, and so do requests that come too late. *)
Fail ==
  /\ \E failed \in SUBSET {h \in Handles : status[h] \in {"none", "waiting"}} :
       status' = [h \in Handles |-> IF h \in failed THEN "error" ELSE status[h]]
  /\ UNCHANGED << disk, answer, effect >>

Next == (\E h \in Handles : Submit(h) \/ Perform(h) \/ Answer(h)) \/ Fail

Spec == Init /\ [][Next]_<< disk, status, answer, effect >>
=============================================================================
