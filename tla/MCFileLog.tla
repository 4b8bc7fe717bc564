------------------------------ MODULE MCFileLog ------------------------------
(* A small instance of FileLog: the bytes of the n-th event are all n. *)
EXTENDS FileLog

EventBytes(n, l) == [i \in 1 .. l |-> n]
=============================================================================
