-------------------------- MODULE MCProcessRunner --------------------------
(***************************************************************************)
(* ProcessRunner for TLC: a limit of one byte in a pipe of two, so that a  *)
(* read can end before, at and past the limit and a tool that writes four  *)
(* bytes blocks unless the thread reads on.                                *)
(***************************************************************************)
EXTENDS ProcessRunner

Bytes(out, err) == [s \in Stream |-> IF s = "stdout" THEN out ELSE err]

SmallLimit == Bytes(1, 0)

SomePlans == {Bytes(0, 0), Bytes(1, 0), Bytes(4, 0), Bytes(0, 3), Bytes(2, 3)}

=============================================================================
