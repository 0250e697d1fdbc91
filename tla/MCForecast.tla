----------------------------- MODULE MCForecast -----------------------------
(* Two families and two periods: the first ends on day 1, the second joins the rolling window
   on day 1.  The policies: two significant figures, one figure with a haircut and a least
   quantity, and a 1-2-5 ladder. *)
EXTENDS Forecast, TLC

MCFamilies == <<"ros", "video">>
MCPeriods == <<"p1", "p2">>
MCOpens == "p1" :> 0 @@ "p2" :> 1
MCStarts == "p1" :> 0 @@ "p2" :> 2
MCEnds == "p1" :> 1 @@ "p2" :> 9
MCReading == {[units |-> 99, viewable |-> -1], [units |-> 286, viewable |-> 279]}
MCPolicy == {[figures |-> 2, ladder |-> {}, haircut |-> 100, least |-> 0],
             [figures |-> 1, ladder |-> {}, haircut |-> 70, least |-> 100],
             [figures |-> 2, ladder |-> {10, 20, 50}, haircut |-> 100, least |-> 0]}
MCRequest == {90, 200, 283}
MCEntitlement == {{"ros"}, {"ros", "video"}}
MCSymmetry == Permutations(Cycle)
=============================================================================
