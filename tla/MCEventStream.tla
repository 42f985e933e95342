--------------------------- MODULE MCEventStream ---------------------------
(***************************************************************************)
(* EventStream for TLC: every transcript of at most MaxSequence events.    *)
(***************************************************************************)
EXTENDS EventStream

CONSTANT MaxSequence

BoundedNext == Len(stream) < MaxSequence /\ Next

BoundedSpec == Init /\ [][BoundedNext]_stream

=============================================================================
