------------------------------ MODULE Options -------------------------------
(***************************************************************************)
(* Rust's Option<T> as a set of at most one value, and the arithmetic of   *)
(* unsigned integers that saturates.                                       *)
(***************************************************************************)
EXTENDS Integers

Option(S) == {o \in SUBSET S : \A x, y \in o : x = y}

\* unwrap_or
Or(option, default) ==
  IF option = {} THEN default ELSE CHOOSE x \in option : TRUE

\* or
OrElse(option, other) == IF option = {} THEN other ELSE option

Least(a, b)    == IF a <= b THEN a ELSE b
Greatest(a, b) == IF a >= b THEN a ELSE b

=============================================================================
