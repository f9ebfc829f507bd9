----------------------------- MODULE MC_CondVar -----------------------------
(***************************************************************************)
(* Two threads that wait and two that notify.  With two waiters one may    *)
(* come after the other was notified and before it was woken.              *)
(***************************************************************************)
EXTENDS CondVar
=============================================================================
