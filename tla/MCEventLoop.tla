---------------------------- MODULE MCEventLoop -----------------------------
(***************************************************************************)
(* EventLoop for TLC: two threads that post and quit, three tasks (posted  *)
(* by threads, callbacks or other tasks) and one channel.                  *)
(***************************************************************************)
EXTENDS EventLoop
=============================================================================
