---------------------------- MODULE MC_QSpinLock ----------------------------
(***************************************************************************)
(* Three threads that lock and unlock for ever: one holds the lock, one is *)
(* at the head of the queue, one arrives, and each comes back while the    *)
(* others still know its old node.                                         *)
(***************************************************************************)
EXTENDS QSpinLock
=============================================================================
