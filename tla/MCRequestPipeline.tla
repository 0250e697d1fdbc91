-------------------------- MODULE MCRequestPipeline --------------------------
(* Two buyers with a token each; the second may not use the forecast tool. *)
EXTENDS RequestPipeline, TLC

CONSTANTS b1, b2, t1, t2
MCSub == t1 :> b1 @@ t2 :> b2
MCExp == t1 :> 2 @@ t2 :> 3
MCGranted == {<<b1, "create">>, <<b1, "forecast">>, <<b2, "create">>}
=============================================================================
