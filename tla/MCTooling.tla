------------------------------- MODULE MCTooling -------------------------------
(***************************************************************************)
(* Tooling on a small instance: a game of six pieces.                      *)
(***************************************************************************)
EXTENDS Tooling

MCPieceQueue == <<"L", "J", "O", "T", "O", "I">>
===============================================================================
