------------------------------ MODULE PageCache ------------------------------
(***************************************************************************)
(* FreeInkBook's page cache: the file of one chapter in one generation,    *)
(* the writer that a layout session feeds, and the reader.  A layout is    *)
(* deterministic, so page i of every build is the same: a page is its      *)
(* number, and its blob is PageParts cells that carry it.                  *)
(*                                                                         *)
(* A file is a sequence of cells, <<>> when there is none, and an offset   *)
(* counts cells.  The storage is the application's: it truncates the file  *)
(* at beginWrite() (inPlace, as in the host tests) or writes a temporary   *)
(* one that endWrite() renames.  Any of its calls may fail, and the power  *)
(* may go at any time, which leaves any prefix of what was written.        *)
(*                                                                         *)
(* The index of the writer lies in chunks that onPage() takes from an      *)
(* arena.  When the layout works in the same arena (shared), what it takes *)
(* between a mark and a release is given back with the rest.               *)
(***************************************************************************)
EXTENDS Naturals, Sequences

CONSTANTS
  Chapters,          \* numbers of pages a chapter may have
  PageParts,         \* writes of one page's blob
  kEntries,          \* pages of an index chunk
  kMaxPages

ASSUME CacheAssumption ==
  /\ Chapters \subseteq Nat \ {0} /\ PageParts \in Nat \ {0}
  /\ kEntries \in Nat \ {0} /\ kMaxPages \in Nat \ {0}

VARIABLES
  chapter,           \* its pages
  pictures,          \* one of them may break a page
  inPlace, shared,
  file,              \* under the chapter's name, but for a write in place
  stream,            \* what the open writer wrote
  open, failed,      \* of the writer
  index,             \* the offsets it recorded, one per page
  lost,              \* the pages whose offsets lie in memory the layout took back
  session, emitted,  \* the layout and the pages it delivered
  reader             \* [at, end, final], or NoReader
storageVars == <<file, stream>>
writerVars == <<open, failed, index, lost>>
settings == <<chapter, pictures, inPlace, shared>>
cacheVars == <<settings, storageVars, writerVars, session, emitted, reader>>

Header == <<"head">>
Blob(i) == [part \in 1..PageParts |-> <<"page", i, part>>]
Index(offsets) == [i \in 1..Len(offsets) |-> <<"index", offsets[i]>>]
Foot(final, at, count) == <<"foot", final, at, count>>
NoReader == <<>>

(* The bytes under the chapter's name.                                     *)
OnDisk == IF open /\ inPlace THEN stream ELSE file
Prefixes(s) == {SubSeq(s, 1, n) : n \in 0..Len(s)}

(* No offset, of a build, a file or a reader, lies beyond the last page.   *)
Offset == 0..(1 + chapter * PageParts)
PageCell == {Header} \cup ({"page"} \X (1..chapter) \X (1..PageParts))
Cell ==
  PageCell \cup ({"index"} \X Offset) \cup ({"foot"} \X BOOLEAN \X Offset \X (0..chapter))
CacheTypeOK ==
  /\ chapter \in Chapters /\ pictures \in BOOLEAN /\ inPlace \in BOOLEAN /\ shared \in BOOLEAN
  /\ file \in Seq(Cell) /\ stream \in Seq(PageCell)
  /\ open \in BOOLEAN /\ failed \in BOOLEAN /\ index \in Seq(Offset) /\ lost \subseteq 1..chapter
  /\ session \in {"idle", "parsing", "done", "failed"} /\ emitted \in 0..chapter
  /\ reader = NoReader \/ reader \in [at : Seq(Offset), end : Offset, final : BOOLEAN]

CacheInit ==
  /\ chapter \in Chapters /\ pictures \in BOOLEAN /\ inPlace \in BOOLEAN /\ shared \in BOOLEAN
  /\ file = <<>> /\ stream = <<>>
  /\ open = FALSE /\ failed = FALSE /\ index = <<>> /\ lost = {}
  /\ session = "idle" /\ emitted = 0 /\ reader = NoReader

-----------------------------------------------------------------------------
(* begin() of the writer and of the session.  The writer has no memory for *)
(* its anchors, cannot begin the file, cannot write the header, or is      *)
(* ready; what the session makes of it shows with the first page.          *)
BeginBuild ==
  /\ session = "idle" /\ ~open
  /\ index' = <<>> /\ lost' = {} /\ emitted' = 0
  /\ session' \in {"parsing", "failed"}
  /\ \/ open' = FALSE /\ failed' = TRUE /\ UNCHANGED storageVars
     \/ /\ open' = TRUE /\ failed' \in BOOLEAN
        /\ stream' = IF failed' THEN <<>> ELSE <<Header>>
        /\ file' = IF inPlace THEN <<>> ELSE file
  /\ UNCHANGED <<settings, reader>>

(* onPage() of the next page.  It refuses when an earlier write failed, at *)
(* the cap, or without memory for a chunk; or a write of the blob fails.   *)
Refuses(i) == failed \/ i > kMaxPages
StartsChunk(i) == (i - 1) % kEntries = 0
ChunkOf(i) == {j \in 1..chapter : (j - 1) \div kEntries = (i - 1) \div kEntries}
MutPageRefused(i) ==
  (Refuses(i) \/ StartsChunk(i)) /\ failed' = (i <= kMaxPages) /\ UNCHANGED <<stream, index, lost>>
PageRefused(i) ==
  (Refuses(i) \/ StartsChunk(i)) /\ failed' = TRUE /\ UNCHANGED <<stream, index, lost>>
Recorded(i, picture) ==
  /\ ~Refuses(i)
  /\ index' = Append(index, Len(stream))
  /\ lost' = IF shared /\ picture /\ StartsChunk(i) THEN lost \cup ChunkOf(i) ELSE lost
Written(i, cells) == stream' = stream \o cells /\ failed' = (cells # Blob(i))

(* The layout delivers its next page, at a break in the text or where it   *)
(* makes room for a picture: placeImage() holds a mark then.  A refusal    *)
(* ends the parse, and the session is done.                                *)
EmitPage ==
  /\ session = "parsing" /\ emitted < chapter
  /\ emitted' = emitted + 1
  /\ \/ PageRefused(emitted + 1)
     \/ \E picture \in {FALSE, pictures}, cells \in Prefixes(Blob(emitted + 1)) :
          Recorded(emitted + 1, picture) /\ Written(emitted + 1, cells)
  /\ session' = IF failed' THEN "done" ELSE "parsing"
  /\ UNCHANGED <<settings, file, open, reader>>
ParseEnds ==
  /\ session = "parsing" /\ session' \in {"failed"} \cup (IF emitted = chapter THEN {"done"} ELSE {})
  /\ UNCHANGED <<settings, storageVars, writerVars, emitted, reader>>
(* A link or a picture is resolved where a chunk was: its offsets become   *)
(* text.                                                                   *)
PathResolved ==
  /\ session = "parsing" /\ \E i \in lost \cap DOMAIN index : index' = [index EXCEPT ![i] = 0]
  /\ UNCHANGED <<settings, storageVars, open, failed, lost, session, emitted, reader>>

-----------------------------------------------------------------------------
(* remove() of a file that was written so far, which may fail.             *)
RemovedFrom(cells) == file' \in {<<>>, IF inPlace THEN cells ELSE file}

(* finish() and suspend().  After a failure they end the stream, which may *)
(* rename it, and remove the file.  Without one the index and the footer   *)
(* follow the pages; a write of them or endWrite() fails and the file is   *)
(* removed, or it is committed.                                            *)
Committed(final) == stream \o Index(index) \o <<Foot(final, Len(stream), Len(index))>>
Closed(final) ==
  LET whole == Committed(final)
  IN IF failed \/ ~open
     THEN /\ IF open THEN RemovedFrom(stream) \/ file' = stream ELSE UNCHANGED file
          /\ UNCHANGED failed
     ELSE \/ file' = whole /\ UNCHANGED failed
          \/ failed' = TRUE /\ \E n \in Len(stream)..Len(whole) : RemovedFrom(SubSeq(whole, 1, n))

Forgotten == stream' = <<>> /\ index' = <<>> /\ lost' = {} /\ emitted' = 0
(* The host commits a layout that is done, suspends one that is not, and   *)
(* forgets session and writer; it opens the file anew afterwards.          *)
CloseBuild(final) ==
  /\ Closed(final)
  /\ open' = FALSE /\ session' = "idle" /\ reader' = NoReader
  /\ Forgotten
  /\ UNCHANGED settings
Finish == session = "done" /\ CloseBuild(TRUE)
Suspend == session \in {"parsing", "failed"} /\ CloseBuild(FALSE)
(* The host gives a build up: the stream is never ended.                   *)
Abandon ==
  /\ open /\ open' = FALSE /\ session' = "idle"
  /\ file' = OnDisk /\ Forgotten
  /\ UNCHANGED <<settings, failed, reader>>

-----------------------------------------------------------------------------
(* open(): a footer at the end, whose index fills what is between.         *)
Opens(cells) ==
  /\ Len(cells) > 1 /\ cells[1] = Header /\ cells[Len(cells)][1] = "foot"
  /\ cells[Len(cells)][3] + cells[Len(cells)][4] + 1 = Len(cells)
Opened(cells) ==
  LET foot == cells[Len(cells)]
  IN [at |-> [i \in 1..foot[4] |-> cells[foot[3] + i][2]], end |-> foot[3], final |-> foot[2]]
OpenReader ==
  /\ Opens(OnDisk) /\ reader' = Opened(OnDisk)
  /\ UNCHANGED <<settings, storageVars, writerVars, session, emitted>>

(* The pages that a blob from offset `at` to `end` may be shown as: none   *)
(* when it cannot be read, and 0, no page of the chapter, when it is not a *)
(* page's: what is decoded may still have the lengths of one.              *)
Decoded(cells, at, end) ==
  IF end <= at \/ Len(cells) < end THEN {}
  ELSE LET page == {i \in 1..chapter : Blob(i) = SubSeq(cells, at + 1, end)}
       IN IF page = {} THEN {0} ELSE page
(* readPage() of the reader and, while the chapter is built, the writer.   *)
PageOf(r, cells, i) == Decoded(cells, r.at[i], IF i < Len(r.at) THEN r.at[i + 1] ELSE r.end)
PageBuilt(i) == Decoded(stream, index[i], IF i < Len(index) THEN index[i + 1] ELSE Len(stream))

(* The power goes out, in the middle of a commit too.                      *)
PowerLost ==
  /\ file' \in IF ~(open /\ inPlace) THEN {file}
               ELSE Prefixes(stream) \cup (IF failed THEN {} ELSE Prefixes(Committed(session = "done")))
  /\ open' = FALSE /\ failed' = FALSE /\ session' = "idle" /\ reader' = NoReader
  /\ Forgotten /\ UNCHANGED settings

CacheNext ==
  \/ BeginBuild \/ EmitPage \/ ParseEnds \/ PathResolved \/ Finish \/ Suspend \/ Abandon
  \/ OpenReader \/ PowerLost
CacheSpec == CacheInit /\ [][CacheNext]_cacheVars

-----------------------------------------------------------------------------
(* Turning a page is a lookup in an index: whatever opens serves page i as *)
(* its page i, all of the chapter when it is final; a reader that outlives *)
(* a rebuild of its file gets its page or an error; and the writer serves  *)
(* the pages of a build that goes on.  This holds wherever the index is    *)
(* not taken back: its arena is not the layout's, or no picture breaks a   *)
(* page.                                                                   *)
CacheIsTrue == ~(shared /\ pictures) =>
  /\ Opens(OnDisk) =>
       LET r == Opened(OnDisk)
       IN /\ \A i \in DOMAIN r.at : PageOf(r, OnDisk, i) = {i}
          /\ r.final => Len(r.at) = chapter
  /\ reader # NoReader => \A i \in DOMAIN reader.at : PageOf(reader, OnDisk, i) \subseteq {i}
  /\ open /\ ~failed => \A i \in DOMAIN index : PageBuilt(i) = {i}
=============================================================================
