--------------------------- MODULE MCTimerManager ---------------------------
(* A small instance of TimerManager. *)
EXTENDS TimerManager

MCDelays == {2}

\* With two ticks to the millisecond, a time that is rounded up to 1.
MCExpirations == {1}
=============================================================================
