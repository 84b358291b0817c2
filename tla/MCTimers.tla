------------------------------ MODULE MCTimers ------------------------------
(* The video clock in NTSC mode, whose display range becomes invalid and valid *)
(* again by changes of Y1 alone: three GPU cycles to two CPU cycles and frames *)
(* of a few short lines.                                                       *)
EXTENDS Timers

Hz == [mode \in {"Ntsc", "Pal"} |-> 3]

MCCyclesPerLine == [mode \in {"Ntsc", "Pal"} |-> 8]
MCLinesPerFrame == [mode \in {"Ntsc", "Pal"} |-> [interlaced \in BOOLEAN |-> 3]]
MCInitGpu == [x1 |-> 1, x2 |-> 4, y1 |-> 0, y2 |-> 2, divider |-> 2]
SameY2 == {[y1 |-> 2, y2 |-> 2], [y1 |-> 0, y2 |-> 2]}
=============================================================================
