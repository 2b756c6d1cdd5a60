---------------------------- MODULE MCWebSession ----------------------------
(* WebSession for TLC. *)
EXTENDS WebSession

CONSTANTS c1, c2, h1, h2, h3
=============================================================================
