---------------------------- MODULE MCGameClient ----------------------------
(***************************************************************************)
(* GameClient for TLC.  What the rooms keep for their own properties only, *)
(* the events of the last step and the histories, decides nothing here:    *)
(* states that differ in nothing else are one.                             *)
(***************************************************************************)
EXTENDS GameClient

View == <<room_open, players_, peer_index_, next_player_id_, time_left_sec_, match_accum_,
          match_over_, match_broadcast_counter_, server, due, net, extra, client, nat, shown>>
=============================================================================
