------------------------------ MODULE LogReserved -----------------------------
(***************************************************************************)
(* The log where every operation keeps within what begin_op() reserves for *)
(* it, and the blocks on disk suffice for all that is reserved at a time.  *)
(* The calls of sysfile.c and file.c are of this kind: with 10 blocks      *)
(* reserved the largest, filewrite(), writes 7 at most.  An operation of   *)
(* do_wunmap() may not be: it writes up to 11.                             *)
(***************************************************************************)
EXTENDS Log

ASSUME Reservations ==
  /\ OPWRITES <= MAXOPBLOCKS
  /\ LOGSIZE - (MAXOPBLOCKS - OPWRITES) <= NLOG - 1
=============================================================================
