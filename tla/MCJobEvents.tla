---------------------------- MODULE MCJobEvents ----------------------------
(***************************************************************************)
(* The instance of JobEvents for TLC.  Clients do not interact: what one   *)
(* client sees is what the handlers and its own calls make of it.          *)
(***************************************************************************)
EXTENDS JobEvents

CONSTANT c1

MCClients == {c1}
=============================================================================
