----------------------------- MODULE MCLifecycle -----------------------------
(***************************************************************************)
(* Instances of BhttpLifecycle for TLC.                                    *)
(***************************************************************************)
EXTENDS BhttpLifecycle
=============================================================================
