---------------------------- MODULE MCAnchorSink ----------------------------
(* Two overlapping cycles; the bounds are in the configuration. *)
EXTENDS AnchorSink
=============================================================================
