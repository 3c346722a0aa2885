---------------------------- MODULE MCHttpFetch -----------------------------
(* Instances of HttpFetch for TLC. *)
EXTENDS HttpFetch
=============================================================================
