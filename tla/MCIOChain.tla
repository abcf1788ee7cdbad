----------------------------- MODULE MCIOChain -----------------------------
(***************************************************************************)
(* IOChain for a team of three threads and a ring of three slots, the case *)
(* of iochain.h's "Safe for num_threads >= IOC_SIZE", with a block         *)
(* multiple of 2 for the code's 8.  Eleven elements make five blocks and   *)
(* leftovers by default, so that the ring is wrapped twice.                *)
(***************************************************************************)
EXTENDS IOChain, TLC

CONSTANTS t1, t2, t3

MCThreads == {t1, t2, t3}

(* The default, a legal size with a shorter last block, an illegal one. *)
MCBlockSizes == {0, 4, 3}
=============================================================================
