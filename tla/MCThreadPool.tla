---------------------------- MODULE MCThreadPool ----------------------------
(***************************************************************************)
(* The thread pool on a small instance: two workers compete for the        *)
(* receiver, two callers for the sender.  The first caller makes two       *)
(* calls, so that the jobs a panic left behind meet a later call.          *)
(***************************************************************************)
EXTENDS ThreadPool, TLC

CONSTANTS c1, c2

MCCallers == {c1, c2}
MCMaxCalls == c1 :> 2 @@ c2 :> 1
=============================================================================
