---------------------------- MODULE MCGraphClient ----------------------------
(* Two node ids; the backend starts with node 1 alone.                     *)
EXTENDS GraphClient

MCServer0 == [node |-> {1}, edge |-> {}]
=============================================================================
