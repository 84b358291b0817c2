----------------------------- MODULE DiscImage ------------------------------
(* Images of discs (cdrom/src): the parser of CUE sheets, the layout of the   *)
(* tracks of a sheet and its BIN files or of the metadata of a CHD file, the  *)
(* lookup of a track by time, and the readers, which remember where their     *)
(* file stands (BIN) or which hunk they hold (CHD).                           *)
(*                                                                            *)
(* A sector is the file it is of and its number there.  A read may fail; it   *)
(* leaves the file anywhere, or the hunk half decompressed.                   *)
EXTENDS CdTime, Sequences, SequencesExt

CONSTANTS
  None,
  Files,         \* names of BIN files
  Lengths,       \* the lengths, in sectors, that one may have
  Lines,         \* the lines of CUE sheets
  MaxLines,      \* bound on the lines of a sheet
  ChdTracks,     \* metadata of CHD files: sequences of [number, type, frames, pregap]
  HunkLen,       \* sectors of a hunk
  ReadTimes(_)   \* the times read from a disc with these tracks

VARIABLES
  parser,        \* CueParser, or "Error"
  lines,         \* number of lines parsed
  length,        \* the lengths of the BIN files
  image,         \* the opened disc: its format, its tracks and (history) what it was made of; or None
  reader,        \* BIN: position, and where the file stands; CHD: the hunk held
  got            \* what was read last, and at which time (history); None at first

vars == <<parser, lines, length, image, reader, got>>

NewParser ==
  [files |-> <<>>, tracks |-> <<>>, current_file |-> None, current_track |-> None,
   last_track_number |-> 0, pregap_len |-> None, pause_start |-> None, track_start |-> None]

Torn == -1       \* somewhere else: in the middle of a sector, half of a hunk
Unread == -2     \* position of a new file, hunk of a new reader
NewReader == [position |-> [f \in Files |-> 0], stands |-> [f \in Files |-> 0],
              hunk |-> Unread, held |-> Unread]

Init ==
  /\ parser = NewParser /\ lines = 0 /\ length \in [Files -> Lengths]
  /\ image = None /\ reader = NewReader /\ got = None
-----------------------------------------------------------------------------
(* The parser: a track is pushed by the line that begins the next one, with   *)
(* all the times that were read since the last.                               *)

Error == [NewParser EXCEPT !.last_track_number = -1]

PushTrack(p) ==
  IF p.current_track = None THEN p
  ELSE IF p.current_track.number # p.last_track_number + 1 \/ p.track_start = None THEN Error
  ELSE [p EXCEPT !.tracks = Append(@, [type |-> p.current_track.type, pregap_len |-> p.pregap_len,
                                       pause_start |-> p.pause_start, track_start |-> p.track_start]),
                 !.last_track_number = p.current_track.number, !.current_track = None,
                 !.pregap_len = None, !.pause_start = None, !.track_start = None]

PushFile(p) ==
  LET q == PushTrack(p)
  IN IF q = Error \/ q.current_file = None THEN q
     ELSE IF q.tracks = <<>> THEN Error
     ELSE [q EXCEPT !.files = Append(@, [name |-> q.current_file, tracks |-> q.tracks]),
                    !.tracks = <<>>, !.current_file = None]

Parsed(p, line) ==
  CASE line.kind = "FILE"   -> LET q == PushFile(p)
                               IN IF q = Error THEN q ELSE [q EXCEPT !.current_file = line.name]
    [] line.kind = "TRACK"  -> LET q == PushTrack(p)
                               IN IF q = Error THEN q ELSE [q EXCEPT !.current_track = line]
    [] line.kind = "INDEX"  -> IF line.index = 0 THEN [p EXCEPT !.pause_start = line.time]
                               ELSE IF line.index = 1 THEN [p EXCEPT !.track_start = line.time]
                               ELSE Error
    [] line.kind = "PREGAP" -> [p EXCEPT !.pregap_len = line.time]

ParseLine ==
  /\ image = None /\ parser # Error /\ lines < MaxLines
  /\ \E line \in Lines : parser' = Parsed(parser, line)
  /\ lines' = lines + 1
  /\ UNCHANGED <<length, image, reader, got>>
-----------------------------------------------------------------------------
(* The layout of a disc.                                                      *)

TwoSeconds == Plus(FromSector(FRAMES_PER_SECOND), FromSector(FRAMES_PER_SECOND))
Or(time, default) == IF time = None THEN default ELSE time

PregapLen(type, len) == IF type = "Data" THEN TwoSeconds ELSE len
PostgapLen(type) == IF type = "Data" THEN TwoSeconds ELSE ZERO

FirstIndex(track) == Or(track.pause_start, track.track_start)

DataEndAtIndex1(file, i) ==
  IF i = Len(file.tracks) THEN FromSector(length[file.name]) ELSE file.tracks[i + 1].track_start

\* A track ends where the next one begins, or with its file.
DataEnd(file, i) ==
  IF i = Len(file.tracks) THEN FromSector(length[file.name]) ELSE FirstIndex(file.tracks[i + 1])

CueTrack(file, i) ==
  LET track == file.tracks[i]
  IN [type |-> track.type, pregap_len |-> PregapLen(track.type, Or(track.pregap_len, ZERO)),
      pause_len |-> IF track.pause_start = None THEN ZERO ELSE Minus(track.track_start, track.pause_start),
      data_len |-> Minus(DataEnd(file, i), track.track_start), postgap_len |-> PostgapLen(track.type),
      file |-> file.name, first |-> ToSector(FirstIndex(track))]

\* Every track begins where the one before ends; the last one has a postgap.
WithTimes(done, track) ==
  LET start == IF done = <<>> THEN ZERO ELSE Last(done).end_time
      stored == Plus(IF track.file = None THEN ZERO ELSE track.pause_len, track.data_len)
  IN Append(done, [type |-> track.type, start_time |-> start,
                   end_time |-> Plus(start, Plus(Plus(track.pregap_len, stored), track.postgap_len)),
                   pregap_len |-> track.pregap_len, pause_len |-> track.pause_len,
                   postgap_len |-> track.postgap_len, file |-> track.file, first |-> track.first])

Finalized(tracks) ==
  LET last == tracks[Len(tracks)]
  IN IF last.postgap_len # ZERO THEN tracks
     ELSE [tracks EXCEPT ![Len(tracks)] =
             [last EXCEPT !.postgap_len = TwoSeconds, !.end_time = Plus(@, TwoSeconds)]]

LaidOut(tracks) == Finalized(FoldLeft(WithTimes, <<>>, tracks))

OpenCueBin ==
  /\ image = None /\ parser # Error
  /\ LET p == PushFile(parser)
     IN IF p = Error \/ p.files = <<>> THEN parser' = Error /\ UNCHANGED image
        ELSE /\ parser' = p
             /\ image' = [format |-> "CueBin",
                          tracks |-> LaidOut(FlattenSeq([f \in DOMAIN p.files |->
                            [i \in DOMAIN p.files[f].tracks |-> CueTrack(p.files[f], i)]])),
                          of |-> p.files]
  /\ UNCHANGED <<lines, length, reader, got>>

\* A CHD file keeps its tracks one after the other, each padded to a multiple of four sectors.
PaddedFrames(n) == IF n % 4 = 0 THEN n ELSE (n - (n % 4)) + 4

ChdTrack(metadata, i) ==
  LET pregap == PregapLen(metadata[i].type, FromSector(metadata[i].pregap))
      before == FoldLeft(LAMBDA n, m : PaddedFrames(n + m.frames), 0, SubSeq(metadata, 1, i - 1))
  IN [type |-> metadata[i].type, pregap_len |-> pregap,
      pause_len |-> IF metadata[i].type = "Data" THEN ZERO ELSE pregap,
      data_len |-> FromSector(metadata[i].frames), postgap_len |-> PostgapLen(metadata[i].type),
      file |-> None, first |-> before]

OpenChd ==
  /\ image = None /\ lines = 0
  /\ \E listed \in ChdTracks :
       LET metadata == SortSeq(listed, LAMBDA m, n : m.number < n.number)
       IN IF \E i \in DOMAIN metadata : metadata[i].number # i THEN parser' = Error /\ UNCHANGED image
          ELSE /\ image' = [format |-> "Chd",
                            tracks |-> LaidOut([i \in DOMAIN metadata |-> ChdTrack(metadata, i)]),
                            of |-> metadata]
               /\ UNCHANGED parser
  /\ UNCHANGED <<lines, length, reader, got>>
-----------------------------------------------------------------------------
(* Reading.                                                                   *)

\* find_track_by_time: a binary search of the start times.  A time past the end of the disc
\* stops the emulator (todo!).
FindTrack(tracks, time) ==
  LET started == {i \in DOMAIN tracks : ~Before(time, tracks[i].start_time)}
  IN CHOOSE i \in started : \A j \in started : j <= i

InGap(track, relative) ==
  \/ Before(relative, track.pregap_len)
  \/ ~Before(relative, Minus(Minus(track.end_time, track.postgap_len), track.start_time))

Gap == <<"gap">>
Failed == <<"failed">>
Garbage == <<"garbage">>
Sector(file, n) == <<file, n>>

\* What reading this content may give: most often, the checksum of a data sector tells garbage.
Checked(track, content) ==
  IF content = Garbage /\ track.type = "Data" THEN {Garbage, Failed} ELSE {content}

\* CdBinFiles::read_sector: seeks only if it believes not to be there already.
Stands(file, n) == IF reader.position[file] # n THEN n ELSE reader.stands[file]

ReadBin(track, n, time) ==
  LET stands == Stands(track.file, n)
      move(position, place) ==
        reader' = [reader EXCEPT !.position[track.file] = position, !.stands[track.file] = place]
  IN \/ /\ stands = Torn \/ stands < length[track.file]
        /\ \E content \in Checked(track, IF stands = Torn THEN Garbage ELSE Sector(track.file, stands)) :
             got' = [time |-> time, content |-> content]
        /\ move(n + 1, IF stands = Torn THEN Torn ELSE stands + 1)
     \/ /\ got' = [time |-> time, content |-> Failed]
        /\ move(reader.position[track.file], Torn)

\* ChdFile::read_sector: decompresses a hunk only if it is not the one it holds.
ReadChd(track, n, time) ==
  LET hunk == n \div HunkLen
      held == IF reader.hunk # hunk THEN hunk ELSE reader.held
  IN \/ /\ \E content \in Checked(track, IF held = Torn THEN Garbage
                                       ELSE Sector(None, held * HunkLen + (n % HunkLen))) :
             got' = [time |-> time, content |-> content]
        /\ reader' = [reader EXCEPT !.hunk = hunk, !.held = held]
     \/ /\ reader.hunk # hunk
        /\ got' = [time |-> time, content |-> Failed]
        /\ reader' = [reader EXCEPT !.held = Torn]

\* read_sector_atime of the drive, and CdRom::read_sector.
ReadSector ==
  /\ image # None
  /\ \E time \in ReadTimes(image) :
       LET track == image.tracks[FindTrack(image.tracks, time)]
           relative == Minus(time, track.start_time)
           n == track.first + ToSector(Minus(relative, track.pregap_len))
       IN IF InGap(track, relative) THEN got' = [time |-> time, content |-> Gap] /\ UNCHANGED reader
          ELSE IF image.format = "Chd" THEN ReadChd(track, n, time)
          ELSE ReadBin(track, n, time)
  /\ UNCHANGED <<parser, lines, length, image>>

\* Another disc, after this one or after an image that was refused: all is made anew.
ChangeDisc ==
  /\ parser = Error \/ image # None
  /\ parser' = NewParser /\ lines' = 0 /\ length' \in [Files -> Lengths]
  /\ image' = None /\ reader' = NewReader /\ got' = None

Next == ParseLine \/ OpenCueBin \/ OpenChd \/ ReadSector \/ ChangeDisc

Spec == Init /\ [][Next]_vars
-----------------------------------------------------------------------------
(* What a disc holds, sector by sector: the sheet says so, without times.     *)

Gaps(len) == [n \in 1 .. ToSector(len) |-> Gap]
Stored(file, first, end) == [n \in 1 .. end - first |-> Sector(file, first + n - 1)]

\* Of a sheet: every track has its part of the file, from its first index to the next one's.
CueContents(files) ==
  FlattenSeq([f \in DOMAIN files |->
    LET file == files[f]
        first(i) == ToSector(FirstIndex(file.tracks[i]))
        end(i) == IF i = Len(file.tracks) THEN length[file.name] ELSE first(i + 1)
        before(track) == IF track.type = "Data" THEN TwoSeconds ELSE Or(track.pregap_len, ZERO)
    IN FlattenSeq([i \in DOMAIN file.tracks |->
         Gaps(before(file.tracks[i])) \o Stored(file.name, first(i), end(i))
           \o Gaps(PostgapLen(file.tracks[i].type))])])

\* Of a CHD file: every track begins at the first multiple of four after the last.
ChdContents(metadata) ==
  LET frames(i) == metadata[i].frames
      fours(i) == (frames(i) + 3) \div 4
      first[i \in DOMAIN metadata] == IF i = 1 THEN 0 ELSE first[i - 1] + 4 * fours(i - 1)
      before(track) == IF track.type = "Data" THEN TwoSeconds ELSE FromSector(track.pregap)
  IN FlattenSeq([i \in DOMAIN metadata |->
       Gaps(before(metadata[i])) \o Stored(None, first[i], first[i] + frames(i))
         \o Gaps(PostgapLen(metadata[i].type))])

\* Two more seconds after a last track of audio.
Contents(opened) ==
  (IF opened.format = "Chd" THEN ChdContents(opened.of) ELSE CueContents(opened.of))
    \o (IF Last(opened.tracks).type = "Audio" THEN Gaps(TwoSeconds) ELSE <<>>)

\* The times of a file's indices ascend and are of the file, and the disc is not too long.
InOrder(file) ==
  LET starts == [i \in DOMAIN file.tracks |-> ToSector(file.tracks[i].track_start)]
      firsts == [i \in DOMAIN file.tracks |-> ToSector(FirstIndex(file.tracks[i]))]
  IN \A i \in DOMAIN file.tracks :
       /\ firsts[i] <= starts[i]
       /\ starts[i] < (IF i = Len(file.tracks) THEN length[file.name] ELSE firsts[i + 1])

WellFormed(opened) ==
  /\ opened.format = "CueBin" => \A f \in DOMAIN opened.of : InOrder(opened.of[f])
  /\ Len(Contents(opened)) < MAX_SECTORS

\* What is looked up at a time is a sector of a file of the disc: one the file has, unless the
\* sheet is not well formed.
PlacesExist ==
  image # None =>
    \A time \in ReadTimes(image) :
      LET track == image.tracks[FindTrack(image.tracks, time)]
          relative == Minus(time, track.start_time)
          n == track.first + ToSector(Minus(relative, track.pregap_len))
      IN ~InGap(track, relative) =>
           /\ n \in Nat
           /\ IF image.format = "Chd" THEN track.file = None
              ELSE track.file \in Files /\ (WellFormed(image) => n < length[track.file])

\* What a disc that was just opened gives at a time.
GivenAt(opened, time) ==
  LET track == opened.tracks[FindTrack(opened.tracks, time)]
      relative == Minus(time, track.start_time)
  IN IF InGap(track, relative) THEN Gap
     ELSE Sector(track.file, track.first + ToSector(Minus(relative, track.pregap_len)))

\* cue.rs:68: the start of a track that the table of contents tells.
EffectiveStart(track) == Plus(Plus(track.start_time, track.pregap_len), track.pause_len)

\* A disc reads from its first sector to its end what its sheet says, every sector of it and
\* nothing twice; the start that is told of a track of a sheet is its INDEX 01.
LaysOutWhatTheSheetSays ==
  image # None /\ got = None /\ WellFormed(image) =>
    LET contents == Contents(image)
    IN /\ ToSector(Last(image.tracks).end_time) = Len(contents)
       /\ \A n \in DOMAIN contents : GivenAt(image, FromSector(n - 1)) = contents[n]
       /\ image.format = "CueBin" =>
            LET all == FlattenSeq([f \in DOMAIN image.of |-> image.of[f].tracks])
            IN \A i \in DOMAIN image.tracks :
                 contents[ToSector(EffectiveStart(image.tracks[i])) + 1]
                   = Sector(image.tracks[i].file, ToSector(all[i].track_start))

\* A read gives what is at its time or fails, unless an earlier one failed in the middle of a
\* sector or a hunk, and the reader has not moved away since.
TornReader == (\E f \in Files : reader.stands[f] = Torn) \/ reader.held = Torn
ReadsWhatIsThere ==
  got # None => \/ got.content = GivenAt(image, got.time)
                \/ got.content = Failed
                \/ got.content = Garbage /\ TornReader
=============================================================================
