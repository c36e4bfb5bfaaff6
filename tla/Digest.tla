------------------------------- MODULE Digest -------------------------------
(***************************************************************************)
(* blake3 as the store uses it.  A byte string is abstract; a digest is   *)
(* the record [b3 |-> s] of the string s it hashes, so equal inputs give  *)
(* equal digests and distinct inputs distinct ones (no collisions).  A    *)
(* digest is itself 32 bytes and may be part of another byte string: the  *)
(* concatenation of digests a and b is the sequence <<a, b>>.             *)
(***************************************************************************)

\* blake3::hash(bytes), and blake3::Hasher fed the given bytes.
Digest(bytes) == [b3 |-> bytes]

\* vec![0u8; 32]: 32 zero bytes, the digest of no input.
ZeroRoot == "zero32"

=============================================================================
