-------------------------- MODULE MCReferenceTracking --------------------------
(***************************************************************************)
(* ReferenceTracking for model checking.  The unit is half a sample.       *)
(***************************************************************************)
EXTENDS ReferenceTracking

\* A straight, a corner, lanes one, two and three samples apart, a loop that
\* closes, one that crosses its own way, a fold, repeated points, and nothing.
Shapes ==
    {<< <<0,0>>, <<12,0>> >>,
     << <<0,0>>, <<6,0>>, <<6,6>> >>,
     << <<0,0>>, <<8,0>>, <<8,2>>, <<0,2>> >>,
     << <<0,0>>, <<12,0>>, <<12,4>>, <<0,4>> >>,
     << <<0,0>>, <<12,0>>, <<12,6>>, <<0,6>> >>,
     << <<0,0>>, <<6,0>>, <<6,6>>, <<0,6>>, <<0,0>> >>,
     << <<0,0>>, <<8,0>>, <<8,4>>, <<4,4>>, <<4,-4>> >>,
     << <<0,0>>, <<8,0>>, <<2,0>> >>,
     << <<0,0>>, <<0,0>>, <<6,0>>, <<6,0>> >>,
     << <<0,0>>, <<0,0>> >>}

\* A quarter turn.
Quarter(pt) == [i \in DOMAIN pt |-> <<-pt[i][2], pt[i][1]>>]

MCWaypointLists == Shapes \cup {Quarter(pt) : pt \in Shapes}

\* A planner's own speeds, on a path that turns back after two samples: fast,
\* turning, backwards for a while, standing, turning on the spot, not finite.
RawShape == << <<0,0>>, <<2,0>>, <<4,0>>, <<4,0>>, <<2,0>>, <<0,0>> >>

Straightway == [i \in 1..6 |-> <<2 * (i - 1), 0>>]

Raw(pt, heading, turn, energy, gear, bad) ==
    [pt |-> pt, arc |-> Arcs(pt), heading |-> heading, turn |-> turn,
     energy |-> energy, gear |-> gear, bad |-> bad]

MCRawReferences ==
    {Raw(RawShape, [i \in 1..6 |-> IF i = 4 THEN h ELSE 0], Zeros(6),
         [i \in 1..6 |-> IF i > 3 THEN -36 ELSE 36],
         [i \in 1..5 |-> IF i > 3 THEN -1 ELSE 1], {}) : h \in {0, 2}}
    \cup
    {Raw(Straightway, Zeros(6), [i \in 1..6 |-> IF i = 3 THEN t ELSE 0],
         [i \in 1..6 |-> IF i \in back THEN -64 ELSE IF i \in bad THEN 0 ELSE 64],
         [i \in 1..5 |-> IF i + 1 \in back THEN -1 ELSE 1], bad) :
        t \in {0, -3, -4}, back \in {{}, {3}, {2, 3}, {3, 4, 5}, {1, 3, 5}},
        bad \in {{}, {6}}}

\* Tracks, sample by sample: straight, a loop, a U-turn, an S.
MCTracks ==
    {Resampled(pt) : pt \in
        {<< <<0,0>>, <<12,0>> >>,
         << <<0,0>>, <<8,0>>, <<8,6>>, <<0,6>>, <<0,0>> >>,
         << <<0,0>>, <<8,0>>, <<8,4>>, <<0,4>> >>,
         << <<0,0>>, <<6,0>>, <<6,6>>, <<12,6>> >>}}

MCSerpentines == {<<2, 8>>, <<3, 8>>}

MCOffsets == -1..1
MCSlants == -1..1

\* Anywhere around the paths; between the lanes and away from their ends.
MCSeedPoses == {-1, 0, 3, 4, 7, 8, 11, 12, 13} \X {-1, 0, 1, 2, 4, 5, 7}
MCSeedYaws == {-1, 0, 3, 6}
MCNoYaws == {-1}
MCMidwayPoses == (4..6) \X (0..6)

\* All ways that are offered are clear: what is proved of followers and of
\* starts is proved of every one of them.
OfferedWays ==
    {Resampled(pt) : pt \in WaypointLists} \cup Tracks \cup {Opened(pt) : pt \in Tracks}
      \cup {Serpentine(size[1], size[2]) : size \in Serpentines}

ASSUME OfferedWaysAreClear ==
    /\ \A pt \in OfferedWays : ClearAhead(Waypoints(pt))
    /\ \A pt \in Tracks : ClearOfStart(Waypoints(Opened(pt)))
    /\ \A r \in RawReferences : ClearAhead(r) /\ Regular(r)
=============================================================================
