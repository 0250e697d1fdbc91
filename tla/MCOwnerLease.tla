---------------------------- MODULE MCOwnerLease ----------------------------
(* Three processes; the third is the first one's container restarted: same pid and host. *)
EXTENDS OwnerLease, TLC

CONSTANTS p1, p2, p3
MCProc == {p1, p2, p3}
MCIdent == p1 :> "a" @@ p2 :> "b" @@ p3 :> "a"
=============================================================================
