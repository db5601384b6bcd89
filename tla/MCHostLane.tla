------------------------------ MODULE MCHostLane ------------------------------
(***************************************************************************)
(* A lane with one case of each kind; in the order in which run submits    *)
(* its first such cases.                                                    *)
(***************************************************************************)
EXTENDS HostLane

MCLane == <<"runs", "fails", "refused">>
=============================================================================
