---------------------------- MODULE MCGameRooms -----------------------------
(***************************************************************************)
(* GameRooms for TLC.  IdSpace = 3 leaves two usable ids, so that ids wrap *)
(* around, collide with players still in the room and are used again; a    *)
(* shot takes half of the hp; a tick of 400 ms divides neither a second    *)
(* nor the respawn delay.  Five ticks are the two seconds of the match,    *)
(* but a float of 128 significands adds them up to less: it ends with the  *)
(* sixth.  Addresses are interchangeable.                                  *)
(***************************************************************************)
EXTENDS GameRooms, TLC

Symmetry == Permutations(Addrs)
=============================================================================
