-------------------------- MODULE MCDurableStream --------------------------
(* Two workers, which may overlap, and a client that may restart twice. *)
EXTENDS DurableStream
=============================================================================
