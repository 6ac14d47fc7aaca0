------------------------------ MODULE MCMedia ------------------------------
(* Two requests of the same process, each with up to three media. *)
EXTENDS MediaHandle
=============================================================================
