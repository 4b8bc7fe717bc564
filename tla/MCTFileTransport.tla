-------------------------- MODULE MCTFileTransport --------------------------
(* A small instance of TFileTransport. *)
EXTENDS TFileTransport
=============================================================================
