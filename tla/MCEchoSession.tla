--------------------------- MODULE MCEchoSession ----------------------------
(* EchoSession for model checking: the constants get their values in the cfg. *)
EXTENDS EchoSession
=============================================================================
