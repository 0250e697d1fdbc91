-------------------------- MODULE MCIntentLifecycle --------------------------
(* Two buyers, model values; the bounds are in the configurations. *)
EXTENDS IntentLifecycle
=============================================================================
