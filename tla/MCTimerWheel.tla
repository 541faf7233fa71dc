---------------------------- MODULE MCTimerWheel ----------------------------
(***************************************************************************)
(* TimerWheel for TLC.  SoundArgs has one-shot timers with and without a   *)
(* delay (AsyncSleep) and repeating ones of two intervals (GameServer).    *)
(***************************************************************************)
EXTENDS TimerWheel

SoundArgs == {<<0, FALSE>>, <<2, FALSE>>, <<1, TRUE>>, <<2, TRUE>>}
=============================================================================
