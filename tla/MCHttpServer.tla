---------------------------- MODULE MCHttpServer ----------------------------
(* Instances of HttpServer for TLC. *)
EXTENDS HttpServer, TLC

\* Descriptors and workers are interchangeable, and so are the connections
\* of careless clients.
Symmetry == Permutations(FDs) \cup Permutations(Workers) \cup Permutations(Conns \ Careful)
=============================================================================
