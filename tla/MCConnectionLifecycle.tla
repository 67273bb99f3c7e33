----------------------- MODULE MCConnectionLifecycle -----------------------
(* ConnectionLifecycle on small instances; see the README for the bounds.  *)
EXTENDS ConnectionLifecycle
=============================================================================
