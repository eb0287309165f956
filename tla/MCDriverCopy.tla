----------------------------- MODULE MCDriverCopy -----------------------------
(* Instances of DriverCopy for TLC: two groups and the two lanes. *)
EXTENDS DriverCopy

CONSTANTS safety, speeding

MCLanes    == {safety, speeding}
MCSpeeding == {speeding}
MCGroups   == {1, 2}

\* Group 2 holds the link; group 1 has the driver's name in its title.
MCLinked == {2}
MCTitles == [g \in MCGroups |-> IF g = 1 THEN "unit and name" ELSE "unit"]

\* The safety lane's alerts are crashes whose clip is not there yet; the
\* speeding lane's carry both clips, the road's, or none.
MCClipSets == [l \in MCLanes |-> IF l = safety THEN {{}} ELSE {{"road", "cabin"}, {"road"}}]
MCCrashLanes == {safety}
MCClipSizes == {"fits", "huge"}

OneLane       == {speeding}
OneGroup      == {1}
OneClipSets   == [l \in OneLane |-> {{"road", "cabin"}}]
OneTitle      == [g \in OneGroup |-> "unit"]
NoLanes       == {}
=============================================================================
