--------------------------- MODULE MCSiscoutSync ---------------------------
(* Small instances of SiscoutSync: two zones, pages of one or two records. *)
EXTENDS SiscoutSync, TLC

CONSTANTS p1, p2, p3, z1, z2, chief, g1, near, national, i1

MCPlace == p1 :> 1 @@ p2 :> 2 @@ p3 :> 3
Entry(lists, zone, cargo, group) ==
    [lists |-> lists, zone |-> zone, says |-> [cargo |-> cargo, group |-> group]]
MCAbsent == Entry({}, NoZone, NoCargo, NoGroup)
InOne == Entry({z1}, z1, chief, g1)
InTwo == Entry({z2}, z2, NoCargo, NoGroup)
\* Listed in the first zone with a zone_id that is not of it.
Stray == Entry({z1}, NoZone, NoCargo, g1)
MCEntries == {MCAbsent, InOne, InTwo, Stray}

\* Two people in the first zone and one in the second.
MCRegistries == {p1 :> InOne @@ p2 :> InOne @@ p3 :> InTwo}

\* Pages of one record and chunks of two; or everything at once and by ones.
Small == [zones |-> <<z1, z2>>, pageLength |-> 1, maxPages |-> 3, minMain |-> 1, chunk |-> 2]
Large == [zones |-> <<z1, z2>>, pageLength |-> 3, maxPages |-> 1, minMain |-> 2, chunk |-> 1]
MCConfigs == {Small, Large}
MCZonesOf == near :> {z1, z2} @@ national :> {}
MCTurn == national :> 1 @@ near :> 2

FileRow(p) == [person |-> p, zone |-> z1, says |-> [cargo |-> chief, group |-> g1]]
MCFiles == {{FileRow(p3)}}
=============================================================================
