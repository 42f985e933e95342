------------------------------ MODULE Contents ------------------------------
(***************************************************************************)
(* What files hold.  A content is a value and stands for its own SHA-256:  *)
(* digests are equal exactly when contents are.                            *)
(*                                                                         *)
(* crates/scene-core-media/src/hash.rs, Sha256Digest::from_bytes           *)
(***************************************************************************)
EXTENDS Naturals

CONSTANTS
  Content,  \* what a file may hold
  Size      \* of a content, in bytes

ASSUME SizeAssumption == Size \in [Content -> Nat]

=============================================================================
