-------------------------- MODULE MCStreamSession ---------------------------
(***************************************************************************)
(* StreamSession for TLC: HTTP requests with no body, an empty one and one *)
(* of two bytes, that keep the connection or close it, one whose length is *)
(* no number and one with a wrong start line; RPC requests and other       *)
(* messages of one and three units.                                        *)
(***************************************************************************)
EXTENDS StreamSession

Shape(last, body) == [last |-> last, body |-> body, bad |-> FALSE]

AllShapes ==
    [http |-> {Shape(FALSE, -1), Shape(FALSE, 0), Shape(FALSE, 2), Shape(TRUE, -1),
               Shape(FALSE, NoNumber),
               [last |-> FALSE, body |-> -1, bad |-> TRUE]},
     rpc  |-> {Shape(l, n) : l \in BOOLEAN, n \in {0, 2}}]
=============================================================================
