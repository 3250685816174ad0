----------------------------- MODULE AmbixHandle -----------------------------
(***************************************************************************)
(* One ambix_t handle, the calls of the public API that change it, and the *)
(* file behind it (libambix/src/libambix.c, sndfile.c, adaptor.c,          *)
(* marker_region_chunk.c, uuid_chunk.c).                                   *)
(*                                                                         *)
(* A file is what its chunks say.  Sample data is abstracted to a count of *)
(* frames, the content of a matrix to the names of the matrices it is a    *)
(* product of, a marker or region to its label: the label is both where it *)
(* is and how it is called, so that a name that comes back attached to the *)
(* wrong position shows.                                                   *)
(***************************************************************************)
EXTENDS AmbixUtil, Sequences, FiniteSets, SequencesExt

CONSTANTS
  Counts,          \* channel numbers a caller may ask for when writing
  Contents,        \* names of what a matrix does
  Matrices,        \* matrices a caller may hand to ambix_set_adaptormatrix()
  Singular,        \* those for which no pseudo-inverse is found
  Labels,          \* labels of markers and regions
  Files,           \* what may be on disk before the first open: files and
                   \* the chunks that come with them
  ItemSizes,       \* sizeof(int16_t), ... of the readf/writef variants
  Blocks,          \* frame counts a caller passes to readf/writef
  BufferFrames,    \* DEFAULT_ADAPTORBUFFER_SIZE
  MaxLabels,       \* bound: markers plus regions a handle may hold
  MaxFrames,       \* bound: frames in the file
  MaxFaults,       \* bound: chunks libsndfile refuses to take
  Documented       \* TRUE: the caller sets the matrix before writing EXTENDED
                   \* data, as the comment in ambix_open() demands

Formats == {"NONE", "BASIC", "EXTENDED"}
Errors == {"SUCCESS", "UNKNOWN", "INVALID_DIMENSION", "INVALID_FILE",
           "INVALID_FORMAT", "INVALID_MATRIX", "INVALID_HANDLE"}

Matrix == [rows : Nat, cols : Nat, of : Seq(Contents)]
InfoType == [fileformat : Formats, ambichannels : Nat, extrachannels : Nat]
LabelEntry == [at : Labels, id : Nat]
StringEntry == [name : Labels, id : Nat]
FileType ==          \* kind, width and 'uuid' chunks, in file order
  [kind : {"caf", "amb", "other", "missing"}, channels : Nat, uuid : Seq(Matrix)]
ChunkType ==         \* 'mark', 'regn' and 'strg' chunks, in file order
  [mark : Seq(Seq(LabelEntry)), regn : Seq(Seq(LabelEntry)),
   strg : Seq(Seq(StringEntry))]

ASSUME HandleAssumption ==
  /\ Counts \subseteq Nat
  /\ {"identity", "fuma", "pinv"} \subseteq Contents
  /\ Matrices \subseteq {m \in Matrix : m.rows > 0 /\ m.cols > 0}
  /\ Singular \subseteq Matrices
  /\ Files \subseteq [file : FileType, chunks : ChunkType, frames : Nat]
  /\ ItemSizes \subseteq Nat \ {0}
  /\ Blocks \subseteq Nat
  /\ BufferFrames \in Nat \ {0}
  /\ MaxLabels \in Nat /\ MaxFrames \in Nat /\ MaxFaults \in Nat
  /\ Documented \in BOOLEAN

VARIABLES
  filemode,        \* "CLOSED" when no handle exists, else READ or WRITE
  channels,        \* channels of the sound file
  info,            \* what the caller is shown
  realinfo,        \* what is on disk
  matrix,          \* the adaptor matrix
  matrix2,         \* the matrix finally applied
  use_matrix,      \* 0: none, 1: matrix, 2: matrix2
  adaptorbuffersize,
  markers, regions,
  startedWriting,
  pendingHeaders,
  position,        \* libsndfile's frame position
  disk,            \* the file: what it is and its uuid chunks
  chunks,          \* its marker, region and string chunks
  frames,          \* its length
  faults,          \* chunks refused so far
  ret              \* what the last call returned

setup == <<channels, info, realinfo, matrix, matrix2, use_matrix>>
labels == <<markers, regions>>
flags == <<startedWriting, pendingHeaders>>
file == <<disk, chunks, frames>>
vars == <<filemode, setup, adaptorbuffersize, labels, flags, position, file,
          faults, ret>>

-----------------------------------------------------------------------------
(* Matrices                                                                *)

NoMatrix == [rows |-> 0, cols |-> 0, of |-> <<>>]
Identity(n) == [rows |-> n, cols |-> n, of |-> <<"identity">>]
Product(l, r) == [rows |-> l.rows, cols |-> r.cols, of |-> l.of \o r.of]
PseudoInverse(m) == [rows |-> m.cols, cols |-> m.rows, of |-> <<"pinv">> \o m.of]

(* The reconstruction matrix of a Furse-Malham .amb file, by its channels. *)
FumaRows(n) ==
  CASE n \in {3, 4} -> order2channels(1)
    [] n \in {5, 6, 9} -> order2channels(2)
    [] n \in {7, 8, 11, 16} -> order2channels(3)
    [] OTHER -> 0
Fuma(n) == [rows |-> FumaRows(n), cols |-> n, of |-> <<"fuma">>]

-----------------------------------------------------------------------------
(* Reading chunks                                                          *)

(* read_uuidchunk() takes the first uuid chunk that parses, and            *)
(* _ambix_uuid1_to_matrix() refuses one without rows or columns.           *)
Parses(m) == m.rows > 0 /\ m.cols > 0
IsFirst(i, f) ==
  /\ Parses(f.uuid[i])
  /\ \A j \in 1 .. i - 1 : ~ Parses(f.uuid[j])
UuidMatrix(f) ==
  IF \E i \in DOMAIN f.uuid : IsFirst(i, f)
  THEN f.uuid[CHOOSE i \in DOMAIN f.uuid : IsFirst(i, f)]
  ELSE NoMatrix

(* _ambix_read_chunk() reports a chunk of no length as the end of chunks.  *)
UpToEmpty(kind) ==
  LET end == SelectInSeq(kind, LAMBDA c : c = <<>>)
  IN FlattenSeq(IF end = 0 THEN kind ELSE SubSeq(kind, 1, end - 1))

(* The first string with the identifier.                                   *)
get_string_from_buffer(strings, id) ==
  LET hit == SelectInSeq(strings, LAMBDA s : s.id = id)
  IN IF hit = 0 THEN "" ELSE strings[hit].name

Label(l) == [at |-> l, name |-> l]

(* _ambix_read_markersregions(), for either kind of chunk.                 *)
Named(c, kind) ==
  LET entries == UpToEmpty(kind)
      strings == UpToEmpty(c.strg)
  IN [i \in DOMAIN entries |->
        [at |-> entries[i].at,
         name |-> get_string_from_buffer(strings, entries[i].id)]]

(* What kind of file the backend (_ambix_open) takes it for.               *)
IsAmbix(f) == f.kind = "caf" \/ (f.kind = "amb" /\ FumaRows(f.channels) > 0)
FileMatrix(f) ==
  CASE f.kind = "caf" -> UuidMatrix(f)
    [] f.kind = "amb" /\ IsAmbix(f) -> Fuma(f.channels)
    [] OTHER -> NoMatrix

(* variant: the matrix may be wider than the file *)
FileInfoUnbounded(f) ==
  LET m == FileMatrix(f)
  IN IF Parses(m) /\ is_fullset(m.rows)
     THEN [fileformat |-> "EXTENDED", ambichannels |-> m.cols,
           extrachannels |-> f.channels - m.cols]
     ELSE [fileformat |-> "BASIC", ambichannels |-> f.channels, extrachannels |-> 0]

(* variant: the full set is taken for what the file holds *)
FileInfoByRows(f) ==
  LET m == FileMatrix(f)
  IN IF Parses(m) /\ m.rows <= f.channels /\ is_fullset(m.rows)
     THEN [fileformat |-> "EXTENDED", ambichannels |-> m.rows,
           extrachannels |-> f.channels - m.rows]
     ELSE [fileformat |-> "NONE", ambichannels |-> 0, extrachannels |-> f.channels]

(* The classification ambix_open() makes of a file opened for reading.     *)
FileInfo(f) ==
  LET m == FileMatrix(f)
      plain == [fileformat |-> "NONE", ambichannels |-> 0,
                extrachannels |-> f.channels]
  IN CASE IsAmbix(f) /\ Parses(m) /\ m.cols <= f.channels /\ is_fullset(m.rows) ->
            [fileformat |-> "EXTENDED", ambichannels |-> m.cols,
             extrachannels |-> f.channels - m.cols]
       [] IsAmbix(f) /\ ~ Parses(m) /\ is_fullset(f.channels) ->
            [fileformat |-> "BASIC", ambichannels |-> f.channels,
             extrachannels |-> 0]
       [] OTHER -> plain

-----------------------------------------------------------------------------
(* variant: only what the caller is shown counts *)
ResizedAsShown(size, n, itemsize, shown, real) ==
  max_u64(size, (shown.ambichannels + shown.extrachannels) * n * itemsize)

(* _ambix_adaptorbuffer_resize(): room for n items of each channel.        *)
Resized(size, n, itemsize, shown, real) ==
  LET need == (max_u64(shown.ambichannels, real.ambichannels)
               + max_u64(shown.extrachannels, real.extrachannels))
              * n * itemsize
  IN max_u64(size, need)

-----------------------------------------------------------------------------
(* Writing headers                                                         *)

WritesUuid == realinfo.fileformat = "EXTENDED"
HasLabels == markers # <<>> \/ regions # <<>>
Attempted == (IF HasLabels THEN {"mark", "regn", "strg"} ELSE {})
             \cup (IF WritesUuid THEN {"uuid"} ELSE {})

(* variant: regions are numbered from the start like markers *)
PlacedFromStart(seq, offset) ==
  [i \in DOMAIN seq |-> [at |-> seq[i].at, id |-> i]]

Placed(seq, offset) == [i \in DOMAIN seq |-> [at |-> seq[i].at, id |-> offset + i]]
Strings == LET both == markers \o regions
           IN [i \in DOMAIN both |-> [name |-> both[i].name, id |-> i]]

(* _ambix_write_markersregions(): three chunks, whose fate nobody checks.  *)
WithLabels(refused) ==
  LET added(kind, name, data) ==
        IF HasLabels /\ name \notin refused THEN Append(kind, data) ELSE kind
  IN [mark |-> added(chunks.mark, "mark", Placed(markers, 0)),
      regn |-> added(chunks.regn, "regn", Placed(regions, Len(markers))),
      strg |-> added(chunks.strg, "strg", Strings)]

WithUuid(refused) ==
  IF WritesUuid /\ "uuid" \notin refused
  THEN [disk EXCEPT !.uuid = Append(@, matrix)] ELSE disk

(* _ambix_write_header(), which may leave its work to be done again.       *)
HeaderError(refused) ==
  CASE filemode # "WRITE" -> "INVALID_FILE"
    [] "uuid" \in refused -> "UNKNOWN"
    [] OTHER -> "SUCCESS"

_ambix_write_header(refused) ==
  IF filemode = "WRITE"
  THEN disk' = WithUuid(refused) /\ chunks' = WithLabels(refused)
  ELSE UNCHANGED <<disk, chunks>>

(* The chunks libsndfile may refuse on this attempt.                       *)
Refusable ==
  IF pendingHeaders /\ filemode = "WRITE"
  THEN {r \in SUBSET Attempted : faults + Cardinality(r) <= MaxFaults}
  ELSE {{}}

(* _ambix_check_write(): whether it lets the data through.                 *)
CheckError(refused) ==
  CASE realinfo.fileformat = "EXTENDED" /\ ~ is_fullset(matrix.rows) ->
         "INVALID_DIMENSION"
    [] pendingHeaders -> HeaderError(refused)
    [] OTHER -> "SUCCESS"

(* ambix_open(): an EXTENDED file expects its matrix before its data.      *)
ContractMet ==
  (Documented /\ filemode = "WRITE" /\ realinfo.fileformat = "EXTENDED")
    => /\ matrix.rows > 0
       /\ info.fileformat = "EXTENDED" => matrix.cols = realinfo.ambichannels

-----------------------------------------------------------------------------
NoInfo == [fileformat |-> "NONE", ambichannels |-> 0, extrachannels |-> 0]

Init ==
  /\ filemode = "CLOSED"
  /\ channels = 0 /\ info = NoInfo /\ realinfo = NoInfo
  /\ matrix = NoMatrix /\ matrix2 = NoMatrix /\ use_matrix = 0
  /\ adaptorbuffersize = 0
  /\ markers = <<>> /\ regions = <<>>
  /\ startedWriting = FALSE /\ pendingHeaders = FALSE
  /\ position = 0
  /\ \E f \in Files : disk = f.file /\ chunks = f.chunks /\ frames = f.frames
  /\ faults = 0
  /\ ret = "SUCCESS"

(* _check_write_ambixinfo()                                                *)
Writable(fmt, ambi, extra) ==
  CASE fmt = "NONE" -> ambi = 0
    [] fmt = "BASIC" -> extra = 0 /\ is_fullset(ambi)
    [] OTHER -> TRUE

(* ambix_open() for writing.  A BASIC file that cannot be one becomes an   *)
(* EXTENDED file shown as BASIC, whose full set is unknown until a matrix  *)
(* is set (basic2extended).                                                *)
OpenWrite(fmt, ambi, extra) ==
  LET extend == fmt = "BASIC" /\ ~ Writable(fmt, ambi, extra)
      onDisk == IF extend THEN "EXTENDED" ELSE fmt
      real == [fileformat |-> onDisk, ambichannels |-> ambi,
               extrachannels |-> extra]
      shown == IF extend
               THEN [real EXCEPT !.fileformat = "BASIC", !.ambichannels = 0]
               ELSE real
  IN /\ filemode = "CLOSED"
     /\ Writable(onDisk, ambi, extra)
     /\ ambi + extra > 0
     /\ filemode' = "WRITE"
     /\ channels' = ambi + extra
     /\ realinfo' = real
     /\ info' = shown
     /\ matrix' = NoMatrix /\ matrix2' = NoMatrix
     /\ use_matrix' = IF extend THEN 1 ELSE 0
     /\ adaptorbuffersize' = Resized(0, BufferFrames, 4, shown, real)
     /\ disk' = [kind |-> "caf", channels |-> ambi + extra, uuid |-> <<>>]
     /\ chunks' = [mark |-> <<>>, regn |-> <<>>, strg |-> <<>>]
     /\ frames' = 0
     /\ position' = 0
     /\ ret' = "SUCCESS"
     /\ UNCHANGED <<labels, flags, faults>>

(* ambix_open() for reading, as the format the caller wants.               *)
OpenRead(want) ==
  LET have == FileInfo(disk)
      m == IF want = "EXTENDED" /\ have.fileformat = "BASIC"
           THEN Identity(have.ambichannels) ELSE FileMatrix(disk)
      expand == want = "BASIC" /\ have.fileformat = "EXTENDED"
      shown == CASE expand -> [have EXCEPT !.fileformat = "BASIC",
                                           !.ambichannels = m.rows]
                 [] want = "EXTENDED" /\ have.fileformat = "BASIC" ->
                      [have EXCEPT !.fileformat = "EXTENDED"]
                 [] OTHER -> have
  IN /\ filemode = "CLOSED"
     /\ disk.kind # "missing" /\ disk.channels > 0
     /\ filemode' = "READ"
     /\ channels' = disk.channels
     /\ realinfo' = have
     /\ info' = shown
     /\ matrix' = m /\ matrix2' = NoMatrix
     /\ use_matrix' = IF expand THEN 1 ELSE 0
     /\ adaptorbuffersize' = Resized(0, BufferFrames, 4, shown, have)
     /\ markers' = IF IsAmbix(disk) THEN Named(chunks, chunks.mark) ELSE <<>>
     /\ regions' = IF IsAmbix(disk) THEN Named(chunks, chunks.regn) ELSE <<>>
     /\ pendingHeaders' = (markers' # <<>> \/ regions' # <<>>)
     /\ position' = 0
     /\ ret' = "SUCCESS"
     /\ UNCHANGED <<startedWriting, file, faults>>

(* ambix_open() returning NULL, with nothing left of the handle.           *)
OpenFails(mode, fmt, ambi, extra) ==
  /\ filemode = "CLOSED"
  /\ \/ mode = "RDWR"
     \/ /\ mode = "WRITE"
        /\ (fmt = "NONE" /\ ambi > 0) \/ ambi + extra = 0
     \/ mode = "READ" /\ (disk.kind = "missing" \/ disk.channels = 0)
  /\ ret' = "INVALID_HANDLE"
  /\ UNCHANGED <<filemode, setup, adaptorbuffersize, labels, flags, position,
                 file, faults>>

(* ambix_close(): the headers nobody has written yet, then everything goes. *)
Close(refused) ==
  /\ filemode # "CLOSED"
  /\ ContractMet
  /\ IF pendingHeaders THEN _ambix_write_header(refused)
     ELSE UNCHANGED <<disk, chunks>>
  /\ UNCHANGED frames
  /\ faults' = faults + Cardinality(refused)
  /\ filemode' = "CLOSED"
  /\ channels' = 0 /\ info' = NoInfo /\ realinfo' = NoInfo
  /\ matrix' = NoMatrix /\ matrix2' = NoMatrix /\ use_matrix' = 0
  /\ adaptorbuffersize' = 0
  /\ markers' = <<>> /\ regions' = <<>>
  /\ startedWriting' = FALSE /\ pendingHeaders' = FALSE
  /\ position' = 0
  /\ ret' = "SUCCESS"

ambix_seek(k) ==
  /\ filemode # "CLOSED"
  /\ k \in 0 .. frames
  /\ position' = k
  /\ ret' = "SUCCESS"
  /\ UNCHANGED <<filemode, setup, adaptorbuffersize, labels, flags, file, faults>>

-----------------------------------------------------------------------------
(* Markers and regions                                                     *)

(* variant: added at any time *)
AddLabelAnytime(l, held) ==
  /\ filemode # "CLOSED"
  /\ Len(markers) + Len(regions) < MaxLabels
  /\ ret' = "SUCCESS"
  /\ pendingHeaders' = TRUE
  /\ markers' = IF held = "marker" THEN Append(markers, Label(l)) ELSE markers
  /\ regions' = IF held = "region" THEN Append(regions, Label(l)) ELSE regions
  /\ UNCHANGED <<filemode, setup, adaptorbuffersize, startedWriting, position,
                 file, faults>>

(* ambix_add_marker() and ambix_add_region(): only before the first frame. *)
AddLabel(l, held) ==
  /\ filemode # "CLOSED"
  /\ Len(markers) + Len(regions) < MaxLabels
  /\ IF startedWriting
     THEN ret' = "UNKNOWN" /\ UNCHANGED <<labels, flags>>
     ELSE /\ ret' = "SUCCESS"
          /\ pendingHeaders' = TRUE
          /\ markers' = IF held = "marker" THEN Append(markers, Label(l)) ELSE markers
          /\ regions' = IF held = "region" THEN Append(regions, Label(l)) ELSE regions
          /\ UNCHANGED startedWriting
  /\ UNCHANGED <<filemode, setup, adaptorbuffersize, position, file, faults>>

ambix_add_marker(l) == AddLabel(l, "marker")
ambix_add_region(l) == AddLabel(l, "region")

ambix_delete_markers ==
  /\ filemode # "CLOSED"
  /\ ret' = IF markers = <<>> THEN "UNKNOWN" ELSE "SUCCESS"
  /\ markers' = <<>>
  /\ UNCHANGED <<filemode, setup, adaptorbuffersize, regions, flags, position,
                 file, faults>>

ambix_delete_regions ==
  /\ filemode # "CLOSED"
  /\ ret' = IF regions = <<>> THEN "UNKNOWN" ELSE "SUCCESS"
  /\ regions' = <<>>
  /\ UNCHANGED <<filemode, setup, adaptorbuffersize, markers, flags, position,
                 file, faults>>

-----------------------------------------------------------------------------
(* ambix_set_adaptormatrix()                                               *)

(* Reading as BASIC: multiply the set with one more matrix.  On a file     *)
(* that is BASIC the matrix takes effect and the call falls through to its *)
(* last line, which returns UNKNOWN.                                       *)
SetDecoder(m) ==
  /\ filemode = "READ" /\ info.fileformat = "BASIC"
  /\ LET extended == realinfo.fileformat = "EXTENDED"
         fits == m.cols = IF extended THEN matrix.rows ELSE realinfo.ambichannels
     IN /\ ret' = CASE fits /\ extended -> "SUCCESS"
                    [] ~ fits /\ ~ extended -> "INVALID_DIMENSION"
                    [] OTHER -> "UNKNOWN"
        /\ matrix2' = IF ~ fits THEN matrix2
                      ELSE IF extended THEN Product(m, matrix) ELSE m
        /\ use_matrix' = IF fits THEN 2 ELSE use_matrix
  /\ UNCHANGED <<filemode, channels, info, realinfo, matrix, adaptorbuffersize,
                 labels, flags, position, file, faults>>

(* variant: whatever has been written already *)
AdaptorErrorAnytime(m) ==
  CASE info.fileformat = "NONE" -> "UNKNOWN"
    [] ~ is_fullset(m.rows) -> "INVALID_DIMENSION"
    [] info.fileformat = "BASIC" /\ realinfo.ambichannels # m.cols ->
         "INVALID_DIMENSION"
    [] info.fileformat = "BASIC" /\ m \in Singular -> "INVALID_MATRIX"
    [] OTHER -> "SUCCESS"

(* variant: the width of the matrix goes unchecked *)
AdaptorErrorAnyWidth(m) ==
  CASE info.fileformat = "NONE" \/ startedWriting -> "UNKNOWN"
    [] ~ is_fullset(m.rows) -> "INVALID_DIMENSION"
    [] info.fileformat = "BASIC" /\ m \in Singular -> "INVALID_MATRIX"
    [] OTHER -> "SUCCESS"

(* Why a writer refuses a matrix, SUCCESS when it does not.                *)
AdaptorError(m) ==
  CASE info.fileformat = "NONE" \/ startedWriting -> "UNKNOWN"
    [] ~ is_fullset(m.rows) -> "INVALID_DIMENSION"
    [] info.fileformat = "BASIC" /\ realinfo.ambichannels # m.cols ->
         "INVALID_DIMENSION"
    [] info.fileformat = "BASIC" /\ m \in Singular -> "INVALID_MATRIX"
    [] OTHER -> "SUCCESS"

(* Writing: the matrix goes into the file; a caller who writes BASIC has   *)
(* its full set reduced by the pseudo-inverse.                             *)
SetAdaptor(m) ==
  /\ filemode = "WRITE"
  /\ AdaptorError(m) = "SUCCESS"
  /\ matrix' = m
  /\ IF info.fileformat = "BASIC"
     THEN /\ matrix2' = PseudoInverse(m)
          /\ realinfo' = [realinfo EXCEPT !.fileformat = "EXTENDED"]
          /\ info' = [info EXCEPT !.ambichannels = m.rows]
          /\ use_matrix' = 2
     ELSE UNCHANGED <<matrix2, realinfo, info, use_matrix>>
  /\ pendingHeaders' = TRUE
  /\ ret' = "SUCCESS"
  /\ UNCHANGED <<filemode, channels, adaptorbuffersize, labels, startedWriting,
                 position, file, faults>>

SetRefused(m) ==
  /\ \/ filemode = "READ" /\ info.fileformat # "BASIC" /\ ret' = "UNKNOWN"
     \/ /\ filemode = "WRITE" /\ AdaptorError(m) # "SUCCESS"
        /\ ret' = AdaptorError(m)
  /\ UNCHANGED <<filemode, setup, adaptorbuffersize, labels, flags, position,
                 file, faults>>

-----------------------------------------------------------------------------
(* Sample data                                                             *)

(* AMBIX_READF: a handle opened for writing reads nothing.                 *)
ambix_readf(n, itemsize) ==
  /\ filemode # "CLOSED"
  /\ adaptorbuffersize' = Resized(adaptorbuffersize, n, itemsize, info, realinfo)
  /\ position' = IF filemode = "WRITE" THEN position
                 ELSE IF position + n > frames THEN frames
                 ELSE position + n
  /\ ret' = "SUCCESS"
  /\ UNCHANGED <<filemode, setup, labels, flags, file, faults>>

(* AMBIX_WRITEF: headers first, then the frames; a handle opened for       *)
(* reading writes nothing.                                                 *)
ambix_writef(n, itemsize, refused) ==
  LET stored == IF filemode = "WRITE" THEN n ELSE 0
  IN /\ filemode # "CLOSED"
     /\ ContractMet
     /\ position + n <= MaxFrames
     /\ faults' = faults + Cardinality(refused)
     /\ ret' = CheckError(refused)
     /\ IF pendingHeaders /\ ret' # "INVALID_DIMENSION"
        THEN _ambix_write_header(refused) ELSE UNCHANGED <<disk, chunks>>
     /\ IF ret' = "SUCCESS"
        THEN /\ startedWriting' = TRUE
             /\ pendingHeaders' = FALSE
             /\ adaptorbuffersize' =
                  Resized(adaptorbuffersize, n, itemsize, info, realinfo)
             /\ frames' = max_u64(frames, position + stored)
             /\ position' = position + stored
        ELSE UNCHANGED <<flags, adaptorbuffersize, frames, position>>
     /\ UNCHANGED <<filemode, setup, labels>>

-----------------------------------------------------------------------------
Open ==
  \E fmt \in Formats, ambi, extra \in Counts :
    \/ OpenWrite(fmt, ambi, extra)
    \/ \E mode \in {"READ", "WRITE", "RDWR"} : OpenFails(mode, fmt, ambi, extra)

Configure ==
  \/ \E l \in Labels : ambix_add_marker(l) \/ ambix_add_region(l)
  \/ ambix_delete_markers
  \/ ambix_delete_regions
  \/ \E m \in Matrices : SetDecoder(m) \/ SetAdaptor(m) \/ SetRefused(m)

Transfer ==
  \/ \E k \in 0 .. MaxFrames : ambix_seek(k)
  \/ \E n \in Blocks, w \in ItemSizes :
       \/ ambix_readf(n, w)
       \/ \E refused \in Refusable : ambix_writef(n, w, refused)

Next ==
  \/ Open
  \/ \E want \in Formats : OpenRead(want)
  \/ Configure
  \/ Transfer
  \/ \E refused \in Refusable : Close(refused)

Spec == Init /\ [][Next]_vars

-----------------------------------------------------------------------------
(* Properties                                                              *)

(* Every variable stays in its type; what concerns labels comes last.      *)
AudioTypeOK ==
  /\ filemode \in {"CLOSED", "READ", "WRITE"}
  /\ channels \in Nat
  /\ info \in InfoType /\ realinfo \in InfoType
  /\ matrix \in Matrix /\ matrix2 \in Matrix /\ use_matrix \in 0 .. 2
  /\ adaptorbuffersize \in Nat
  /\ startedWriting \in BOOLEAN /\ pendingHeaders \in BOOLEAN
  /\ position \in Nat /\ frames \in Nat
  /\ disk \in FileType
  /\ ret \in Errors
TypeOK ==
  /\ AudioTypeOK
  /\ faults \in 0 .. MaxFaults
  /\ markers \in Seq([at : Labels, name : Labels \cup {""}])
  /\ regions \in Seq([at : Labels, name : Labels \cup {""}])
  /\ chunks \in ChunkType

(* The matrix readf/writef apply to a frame; without one they copy the     *)
(* channels of the file (readf) or those the caller was told of (writef).  *)
Copied == IF filemode = "READ" THEN realinfo.ambichannels ELSE info.ambichannels
Applied == CASE use_matrix = 1 -> matrix [] use_matrix = 2 -> matrix2
             [] OTHER -> Identity(Copied)

(* The frame ambix_writef() assembles has exactly the samples the backend  *)
(* takes from it, and takes from the caller the ambisonics channels the    *)
(* caller was told to provide, in whatever order open, set_adaptormatrix   *)
(* and failed header writes came before.                                   *)
WrittenFramesFillFile ==
  filemode = "WRITE" /\ startedWriting =>
    /\ Applied.rows + info.extrachannels = channels
    /\ Applied.cols = info.ambichannels

(* The frame ambix_readf() takes apart covers the channels of the file, no *)
(* more and no fewer, and without a matrix of the caller's own it delivers *)
(* the channels the caller was told about.                                 *)
ReadFramesMatchInfo ==
  filemode = "READ" =>
    /\ Applied.cols + info.extrachannels = channels
    /\ use_matrix # 2 => Applied.rows = info.ambichannels

(* The adaptor buffer holds every frame of a transfer, though its size was *)
(* chosen from channel counts that a later matrix changes.                 *)
BufferHoldsTransfer ==
  [][\A n \in Blocks, w \in ItemSizes :
       (ambix_readf(n, w) \/ (ambix_writef(n, w, {}) /\ ret' = "SUCCESS"))
         => adaptorbuffersize' >= n * w * channels]_vars

(* No sample data is written while headers are still to be written: the    *)
(* chunks of a CAF file under way cannot be added any more.                *)
HeadersBeforeData ==
  filemode = "WRITE" /\ (startedWriting \/ frames > 0) => ~ pendingHeaders

(* Once frames are in the file its chunks never change while the handle    *)
(* lives, not even when it is closed.                                      *)
ChunksFinalAfterData ==
  [][filemode = "WRITE" /\ frames > 0 =>
       UNCHANGED <<disk, chunks>>]_vars

(* The file keeps what the handle stood for when the first frame came, and *)
(* a reader is told just that (AmbixFile).                                 *)
Described(real, m, marks, regs) ==
  [real |-> real, matrix |-> IF real.fileformat = "EXTENDED" THEN m ELSE NoMatrix,
   markers |-> marks, regions |-> regs]

Unwritten ==
  Described([NoInfo EXCEPT !.fileformat = "unwritten"], NoMatrix, <<>>, <<>>)

Phase ==
  CASE filemode = "CLOSED" -> "closed"
    [] filemode = "READ" -> "reading"
    [] filemode = "WRITE" /\ ~ startedWriting -> "setup"
    [] OTHER -> "streaming"

Told ==
  IF Phase = "setup" THEN Unwritten
  ELSE Described(FileInfo(disk), FileMatrix(disk),
                 IF IsAmbix(disk) THEN Named(chunks, chunks.mark) ELSE <<>>,
                 IF IsAmbix(disk) THEN Named(chunks, chunks.regn) ELSE <<>>)

StoodFor ==
  IF filemode = "CLOSED" THEN Unwritten
  ELSE Described(realinfo, matrix, markers, regions)

File == INSTANCE AmbixFile WITH phase <- Phase, meta <- StoodFor, stored <- Told

ImplementsFile == File!Spec

(* What the library says of itself (each refuted by a run of its own)      *)

(* "the user MUST call set_adaptormatrix() first" (libambix.c:128), which  *)
(* _ambix_check_write() is there to enforce (libambix.c:443-446): no data  *)
(* goes into an EXTENDED file that has no matrix.                          *)
MatrixBeforeData ==
  filemode = "WRITE" /\ startedWriting /\ realinfo.fileformat = "EXTENDED"
    => matrix.rows > 0

(* "errorcode indicating success" (private.h:236): headers that were        *)
(* written successfully, after failed attempts or not, tell a reader the   *)
(* labels the handle holds, each under its own name and once.              *)
LabelsReadBack ==
  [][filemode = "WRITE" /\ ~ startedWriting /\ startedWriting' =>
       /\ Named(chunks', chunks'.mark) = markers
       /\ Named(chunks', chunks'.regn) = regions]_vars
=============================================================================
