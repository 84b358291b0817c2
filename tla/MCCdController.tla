--------------------------- MODULE MCCdController ---------------------------
(* Instances of CdController.  Every countdown is long enough for the host to  *)
(* act in the middle of it, and the disc is long enough to read past a sector  *)
(* that was not delivered.                                                     *)
EXTENDS CdController

Mode(double, adpcm, filter, report, auto_pause) ==
  [double |-> double, adpcm |-> adpcm, filter |-> filter, report |-> report,
   auto_pause |-> auto_pause]

MCSecondCycles == [c \in {"GetId", "ReadToc", "Stop", "Init"} |-> 2]
MCSectorCycles == [double \in BOOLEAN |-> IF double THEN 2 ELSE 3]
MCAckMasks == {Bits}
MCEnableMasks == {{}, Bits}

\* Data: three sectors on one track, the second with real-time audio.
DataParams == {1, 2}
DataAsTime == <<0, 1>>
DataAsMode == <<Mode(TRUE, FALSE, FALSE, FALSE, FALSE), Mode(FALSE, TRUE, FALSE, FALSE, FALSE)>>
DataXaChannel == [t \in Times |-> IF t = 1 THEN "channel" ELSE None]
AsOne == <<1, 1>>
OneTrack == <<0>>
NoXa == [t \in Times |-> None]

AllSupported == <<TRUE, TRUE>>

\* Control and audio: three tracks of one sector, reports and auto-pause.
AudioParams == {1, 2}
AudioAsTime == <<1, 2>>
AudioAsMode == <<Mode(FALSE, FALSE, FALSE, TRUE, TRUE), Mode(FALSE, FALSE, FALSE, TRUE, TRUE)>>
AudioAsTrack == <<0, 2>>
ThreeTracks == <<0, 1, 2>>
MCAckEither == {Bits, {0}}
=============================================================================
