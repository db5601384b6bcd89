--------------------------- MODULE MCScheduleGraph ---------------------------
(* A small instance of ScheduleGraph.  A sigma is one of 25 values, of     *)
(* which a host tensor holds nine; neighbours in a steeply shifted         *)
(* schedule meet when they are rounded, as 1.0 and its neighbour do.       *)
EXTENDS ScheduleGraph

MCFloat32 == [v \in 0 .. One |-> ((v + 1) \div 3) * 3]

MCRatio == [Turbo |-> 2, RAW |-> 3, LoRA |-> 1, SD3 |-> 2, H3 |-> 8]

MCSliceWidgets == {<<0, -1>>, <<0, 2>>, <<2, -1>>}

(* One schedule that rounding leaves alone and one that it makes collapse  *)
MCAdvancedWidgets ==
    {[start |-> One, end |-> 6, ratio |-> 1, policy |-> "append_zero"],
     [start |-> One, end |-> 0, ratio |-> 8, policy |-> "preserve"]}

MCHostTensors == {<<24, 15, 0>>}
=============================================================================
