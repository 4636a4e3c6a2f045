------------------------------- MODULE MCBuse -------------------------------
(***************************************************************************)
(* Buse on a disk of two blocks: a write of both, a read of both, a write  *)
(* of one, a trim.                                                         *)
(***************************************************************************)
EXTENDS Buse

MCBlocks == {0, 1}
MCValues == {"old", "new"}

MCRequests ==
  << [type |-> "write", from |-> 0, len |-> 2, data |-> << "new", "new" >>],
     [type |-> "read", from |-> 0, len |-> 2, data |-> << >>],
     [type |-> "write", from |-> 1, len |-> 1, data |-> << "old" >>],
     [type |-> "trim", from |-> 0, len |-> 1, data |-> << >>] >>
=============================================================================
