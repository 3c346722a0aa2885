---------------------------- MODULE MCCgiRequest ----------------------------
(* Instances of CgiRequest for TLC. *)
EXTENDS CgiRequest

\* A body that is longer than a pipe, and the value exe_cgi refuses.  A POST
\* without a body takes the same steps as any method that is not GET.
AnyLength == {-1, 2}
=============================================================================
