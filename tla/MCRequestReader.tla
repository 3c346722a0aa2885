-------------------------- MODULE MCRequestReader ---------------------------
(* Instances of RequestReader for TLC. *)
EXTENDS RequestReader

\* Every text of up to so many characters.
UpTo(n) == UNION {[1 .. k -> {"a", CR, LF}] : k \in 0 .. n}
Short == UpTo(6)
=============================================================================
