----------------------------- MODULE MCHttpFront -----------------------------
(* Two buyers, model values; the bounds are in the configuration. *)
EXTENDS HttpFront
=============================================================================
