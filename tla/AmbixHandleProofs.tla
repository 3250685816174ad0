-------------------------- MODULE AmbixHandleProofs --------------------------
(***************************************************************************)
(* Theorems about AmbixHandle, for every set of files, matrices and sizes. *)
(*                                                                         *)
(* The inductive invariants that carry them, each needing those before:    *)
(* HeaderInv is about the flags that decide when headers are written;      *)
(* AudioTypeOK has the types of the audio state; Account keeps account of  *)
(* where every channel of a frame comes from and goes to; LabelInv has the *)
(* types of labels and chunks; SetupInv says what is due to be written     *)
(* before the first frame.  HandleInv is all of them.                      *)
(***************************************************************************)
EXTENDS AmbixHandle, NatInduction, SequenceTheorems, FiniteSetTheorems, TLAPS

(* When headers may still be due.  A handle that does not exist has no     *)
(* flags set; frames in a file being written mean that writing started.    *)
HeaderInv ==
  /\ startedWriting \in BOOLEAN /\ pendingHeaders \in BOOLEAN
  /\ filemode = "CLOSED" => ~ startedWriting /\ ~ pendingHeaders
  /\ filemode = "WRITE" => /\ frames > 0 => startedWriting
                           /\ startedWriting => ~ pendingHeaders

LEMMA HeaderInvInit == Init => HeaderInv
BY DEF Init, HeaderInv

LEMMA HeaderInvStep == HeaderInv /\ [Next]_vars => HeaderInv'
<1> SUFFICES ASSUME HeaderInv, [Next]_vars PROVE HeaderInv'
  OBVIOUS
<1> USE DEF HeaderInv
<1>1. CASE UNCHANGED vars
  BY <1>1 DEF vars, setup, labels, flags, file
<1>2. ASSUME NEW fmt \in Formats, NEW ambi \in Counts, NEW extra \in Counts,
             OpenWrite(fmt, ambi, extra)
      PROVE  HeaderInv'
  BY <1>2 DEF OpenWrite, labels, flags
<1>3. ASSUME NEW mode \in {"READ", "WRITE", "RDWR"}, NEW fmt \in Formats,
             NEW ambi \in Counts, NEW extra \in Counts,
             OpenFails(mode, fmt, ambi, extra)
      PROVE  HeaderInv'
  BY <1>3 DEF OpenFails, setup, labels, flags, file
<1>4. ASSUME NEW want \in Formats, OpenRead(want) PROVE HeaderInv'
  BY <1>4 DEF OpenRead, file
<1>5. ASSUME NEW l \in Labels, NEW held \in {"marker", "region"},
             AddLabel(l, held)
      PROVE  HeaderInv'
  BY <1>5 DEF AddLabel, setup, labels, flags, file
<1>6. CASE ambix_delete_markers
  BY <1>6 DEF ambix_delete_markers, setup, flags, file
<1>7. CASE ambix_delete_regions
  BY <1>7 DEF ambix_delete_regions, setup, flags, file
<1>8. ASSUME NEW m \in Matrices, SetDecoder(m) PROVE HeaderInv'
  BY <1>8 DEF SetDecoder, labels, flags, file
<1>9. ASSUME NEW m \in Matrices, SetAdaptor(m) PROVE HeaderInv'
  <2>1. ~ startedWriting
    BY <1>9 DEF SetAdaptor, AdaptorError
  <2> QED
    BY <1>9, <2>1 DEF SetAdaptor, labels, file
<1>10. ASSUME NEW m \in Matrices, SetRefused(m) PROVE HeaderInv'
  BY <1>10 DEF SetRefused, setup, labels, flags, file
<1>11. ASSUME NEW k \in 0 .. MaxFrames, ambix_seek(k) PROVE HeaderInv'
  BY <1>11 DEF ambix_seek, setup, labels, flags, file
<1>12. ASSUME NEW n \in Blocks, NEW w \in ItemSizes, ambix_readf(n, w)
       PROVE  HeaderInv'
  BY <1>12 DEF ambix_readf, setup, labels, flags, file
<1>13. ASSUME NEW n \in Blocks, NEW w \in ItemSizes, NEW refused \in Refusable,
              ambix_writef(n, w, refused)
       PROVE  HeaderInv'
  BY <1>13 DEF ambix_writef, setup, labels, flags
<1>14. ASSUME NEW refused \in Refusable, Close(refused) PROVE HeaderInv'
  BY <1>14 DEF Close
<1> QED
  BY <1>1, <1>2, <1>3, <1>4, <1>5, <1>6, <1>7, <1>8, <1>9, <1>10, <1>11,
     <1>12, <1>13, <1>14
  DEF Next, Open, Configure, Transfer, ambix_add_marker, ambix_add_region

(* Whatever the order of calls, failed attempts included, no frame is in   *)
(* a file whose headers _ambix_check_write() has not written.              *)
THEOREM HeadersComeFirst == Spec => []HeadersBeforeData
<1>1. HeaderInv => HeadersBeforeData
  BY DEF HeaderInv, HeadersBeforeData
<1> QED
  BY <1>1, HeaderInvInit, HeaderInvStep, PTL DEF Spec

(* Nothing done to a handle that has written frames touches the chunks of  *)
(* its file: neither set_adaptormatrix() nor the marker functions nor the  *)
(* headers ambix_close() would write.                                      *)
THEOREM ChunksAreFinal == Spec => ChunksFinalAfterData
<1>1. HeaderInv /\ [Next]_vars
        => [filemode = "WRITE" /\ frames > 0 => UNCHANGED <<disk, chunks>>]_vars
  <2> SUFFICES ASSUME HeaderInv, Next, filemode = "WRITE", frames > 0
               PROVE  UNCHANGED <<disk, chunks>>
    OBVIOUS
  <2>1. ~ pendingHeaders
    BY DEF HeaderInv
  <2> QED
    BY <2>1
    DEF Next, Open, Configure, Transfer, OpenWrite, OpenRead, OpenFails,
        ambix_add_marker, ambix_add_region, AddLabel, ambix_delete_markers,
        ambix_delete_regions, SetDecoder, SetAdaptor, SetRefused, ambix_seek,
        ambix_readf, ambix_writef, Close, file
<1> QED
  BY <1>1, HeaderInvInit, HeaderInvStep, PTL DEF Spec, ChunksFinalAfterData
-----------------------------------------------------------------------------
(* Facts about the operators the calls are made of                         *)

LEMMA FumaType ==
  ASSUME NEW n \in Nat
  PROVE  Fuma(n) \in Matrix
<1>1. order2channels(1) = 4 /\ order2channels(2) = 9 /\ order2channels(3) = 16
  BY DEF order2channels
<1>2. FumaRows(n) \in Nat
  BY <1>1 DEF FumaRows
<1>3. <<"fuma">> \in Seq(Contents)
  BY HandleAssumption DEF HandleAssumption
<1> QED
  BY <1>2, <1>3 DEF Fuma, Matrix

LEMMA FileMatrixType ==
  ASSUME NEW f \in FileType
  PROVE  FileMatrix(f) \in Matrix
<1>1. UuidMatrix(f) \in Matrix
  <2>1. NoMatrix \in Matrix
    BY DEF NoMatrix, Matrix
  <2>2. ASSUME \E i \in DOMAIN f.uuid : IsFirst(i, f)
        PROVE  f.uuid[CHOOSE i \in DOMAIN f.uuid : IsFirst(i, f)] \in Matrix
    <3> DEFINE c == CHOOSE i \in DOMAIN f.uuid : IsFirst(i, f)
    <3>1. c \in DOMAIN f.uuid
      BY <2>2
    <3>2. f.uuid \in Seq(Matrix)
      BY DEF FileType
    <3> HIDE DEF c
    <3>3. f.uuid[c] \in Matrix
      BY <3>1, <3>2
    <3> QED
      BY <3>3 DEF c
  <2> QED
    BY <2>1, <2>2 DEF UuidMatrix
<1>2. Fuma(f.channels) \in Matrix
  BY FumaType DEF FileType
<1>3. NoMatrix \in Matrix
  BY DEF NoMatrix, Matrix
<1> QED
  BY <1>1, <1>2, <1>3 DEF FileMatrix

(* The channels of a file are those its classification speaks of, and an   *)
(* EXTENDED file has as many ambisonics channels as its matrix has columns. *)
LEMMA FileInfoChannels ==
  ASSUME NEW f \in FileType
  PROVE  LET have == FileInfo(f)
         IN /\ have \in InfoType
            /\ have.ambichannels + have.extrachannels = f.channels
            /\ have.fileformat = "EXTENDED" =>
                 FileMatrix(f).cols = have.ambichannels
<1> DEFINE m == FileMatrix(f)
           extended == /\ IsAmbix(f) /\ Parses(m) /\ m.cols <= f.channels
                       /\ is_fullset(m.rows)
           basic == IsAmbix(f) /\ ~ Parses(m) /\ is_fullset(f.channels)
<1>1. m.cols \in Nat /\ f.channels \in Nat
  BY FileMatrixType DEF Matrix, FileType
<1>2. CASE extended
  <2>1. FileInfo(f) = [fileformat |-> "EXTENDED", ambichannels |-> m.cols,
                       extrachannels |-> f.channels - m.cols]
    BY <1>2 DEF FileInfo
  <2>2. f.channels - m.cols \in Nat /\ m.cols + (f.channels - m.cols) = f.channels
    BY <1>1, <1>2
  <2> HIDE DEF m
  <2> QED
    BY <1>1, <2>1, <2>2 DEF InfoType, Formats, m
<1>3. CASE basic /\ ~ extended
  <2>1. FileInfo(f) = [fileformat |-> "BASIC", ambichannels |-> f.channels,
                       extrachannels |-> 0]
    BY <1>3 DEF FileInfo
  <2> QED
    BY <1>1, <2>1 DEF InfoType, Formats
<1>4. CASE ~ extended /\ ~ basic
  <2>1. FileInfo(f) = [fileformat |-> "NONE", ambichannels |-> 0,
                       extrachannels |-> f.channels]
    BY <1>4 DEF FileInfo
  <2> QED
    BY <1>1, <2>1 DEF InfoType, Formats
<1> QED
  BY <1>2, <1>3, <1>4

LEMMA ResizedNat ==
  ASSUME NEW size \in Nat, NEW n \in Nat, NEW itemsize \in Nat,
         NEW shown \in InfoType, NEW real \in InfoType
  PROVE  Resized(size, n, itemsize, shown, real) \in Nat
<1> DEFINE ambi == max_u64(shown.ambichannels, real.ambichannels)
           extra == max_u64(shown.extrachannels, real.extrachannels)
<1>1. ambi \in Nat /\ extra \in Nat
  BY DEF max_u64, InfoType
<1>2. (ambi + extra) * n * itemsize \in Nat
  <2> HIDE DEF ambi, extra
  <2>1. \A a, b \in Nat : a * b \in Nat
    OBVIOUS
  <2>2. ambi + extra \in Nat
    BY <1>1
  <2> QED
    BY <2>1, <2>2
<1> QED
  BY <1>2 DEF Resized, max_u64

(* Matrices as the calls make them.                                        *)
LEMMA MatrixTypes ==
  /\ NoMatrix \in Matrix
  /\ \A n \in Nat : Identity(n) \in Matrix
  /\ \A l, r \in Matrix : Product(l, r) \in Matrix
  /\ \A m \in Matrix : PseudoInverse(m) \in Matrix
<1>1. <<"identity">> \in Seq(Contents) /\ <<"pinv">> \in Seq(Contents)
  BY HandleAssumption DEF HandleAssumption
<1>2. \A s, t \in Seq(Contents) : s \o t \in Seq(Contents)
  OBVIOUS
<1>3. NoMatrix \in Matrix
  BY DEF NoMatrix, Matrix
<1>4. \A n \in Nat : Identity(n) \in Matrix
  BY <1>1 DEF Identity, Matrix
<1>5. \A l, r \in Matrix : Product(l, r) \in Matrix
  BY <1>2 DEF Product, Matrix
<1>6. \A m \in Matrix : PseudoInverse(m) \in Matrix
  BY <1>1, <1>2 DEF PseudoInverse, Matrix
<1> QED
  BY <1>3, <1>4, <1>5, <1>6
-----------------------------------------------------------------------------
(* The account of channels                                                 *)

(* A reader takes a frame of the file apart, whichever matrix it applies.  *)
ReadChannels ==
  /\ info.fileformat = "BASIC" /\ realinfo.fileformat = "EXTENDED"
       => matrix.cols = realinfo.ambichannels
  /\ use_matrix = 0 => info.ambichannels = realinfo.ambichannels
  /\ use_matrix = 1 => /\ matrix.cols = realinfo.ambichannels
                       /\ matrix.rows = info.ambichannels
  /\ use_matrix = 2 => matrix2.cols = realinfo.ambichannels

(* A writer puts one together.  While a full set is announced but no       *)
(* matrix reduces it yet (use_matrix = 1), nothing may be written.         *)
WriteChannels ==
  /\ use_matrix = 0 => info.ambichannels = realinfo.ambichannels
  /\ use_matrix = 1 => /\ matrix.rows = 0
                       /\ info.fileformat = "BASIC"
                       /\ realinfo.fileformat = "EXTENDED"
                       /\ Documented => ~ startedWriting
  /\ use_matrix = 2 => /\ matrix2.rows = realinfo.ambichannels
                       /\ matrix2.cols = info.ambichannels

Account ==
  /\ filemode # "CLOSED" =>
       /\ realinfo.ambichannels + realinfo.extrachannels = channels
       /\ info.extrachannels = realinfo.extrachannels
  /\ filemode = "READ" => ReadChannels
  /\ filemode = "WRITE" => WriteChannels

LEMMA AudioTypeInit == Init => AudioTypeOK
<1> SUFFICES ASSUME Init PROVE AudioTypeOK
  OBVIOUS
<1>1. NoInfo \in InfoType
  BY DEF NoInfo, InfoType, Formats
<1>2. disk \in FileType /\ frames \in Nat
  BY HandleAssumption DEF Init, HandleAssumption
<1>3. NoMatrix \in Matrix
  BY MatrixTypes
<1>4. startedWriting \in BOOLEAN /\ pendingHeaders \in BOOLEAN
  BY DEF Init
<1> QED
  BY <1>1, <1>2, <1>3, <1>4 DEF Init, AudioTypeOK, Errors

LEMMA AudioTypeStep == AudioTypeOK /\ [Next]_vars => AudioTypeOK'
<1> SUFFICES ASSUME AudioTypeOK, [Next]_vars PROVE AudioTypeOK'
  OBVIOUS
<1> USE DEF AudioTypeOK, Errors
<1>a. /\ \A c \in Counts : c \in Nat
      /\ \A n \in Blocks : n \in Nat
      /\ \A w \in ItemSizes : w \in Nat
      /\ BufferFrames \in Nat /\ 4 \in Nat /\ 0 \in Nat
      /\ \A m \in Matrices : m \in Matrix
  BY HandleAssumption DEF HandleAssumption
<1>b. NoInfo \in InfoType
  BY DEF NoInfo, InfoType, Formats
<1>1. CASE UNCHANGED vars
  BY <1>1 DEF vars, setup, labels, flags, file
<1>2. ASSUME NEW fmt \in Formats, NEW ambi \in Counts, NEW extra \in Counts,
             OpenWrite(fmt, ambi, extra)
      PROVE  AudioTypeOK'
  <2>1. info' \in InfoType /\ realinfo' \in InfoType
    BY <1>2, <1>a DEF OpenWrite, InfoType, Formats
  <2>2. adaptorbuffersize' \in Nat
    BY <1>2, <1>a, <2>1, ResizedNat DEF OpenWrite
  <2>3. disk' \in FileType
    <3>1. ambi + extra \in Nat /\ <<>> \in Seq(Matrix)
      BY <1>a
    <3> QED
      BY <1>2, <3>1 DEF OpenWrite, FileType
  <2> QED
    BY <1>2, <1>a, <2>1, <2>2, <2>3, MatrixTypes DEF OpenWrite, flags
<1>3. ASSUME NEW mode \in {"READ", "WRITE", "RDWR"}, NEW fmt \in Formats,
             NEW ambi \in Counts, NEW extra \in Counts,
             OpenFails(mode, fmt, ambi, extra)
      PROVE  AudioTypeOK'
  BY <1>3 DEF OpenFails, setup, labels, flags, file
<1>4. ASSUME NEW want \in Formats, OpenRead(want) PROVE AudioTypeOK'
  <2>1. FileInfo(disk) \in InfoType /\ FileMatrix(disk) \in Matrix
    BY FileInfoChannels, FileMatrixType
  <2>2. FileInfo(disk).ambichannels \in Nat
    BY <2>1 DEF InfoType
  <2>3. matrix' \in Matrix
    BY <1>4, <2>1, <2>2, MatrixTypes DEF OpenRead
  <2>4. matrix'.rows \in Nat
    BY <2>3 DEF Matrix
  <2>5. realinfo' \in InfoType /\ info' \in InfoType
    BY <1>4, <2>1, <2>4 DEF OpenRead, InfoType, Formats
  <2>6. adaptorbuffersize' \in Nat
    BY <1>4, <1>a, <2>5, ResizedNat DEF OpenRead
  <2>7. channels' \in Nat
    BY <1>4 DEF OpenRead, FileType
  <2> QED
    BY <1>4, <2>3, <2>5, <2>6, <2>7, MatrixTypes DEF OpenRead, file
<1>5. ASSUME NEW l \in Labels, NEW held \in {"marker", "region"},
             AddLabel(l, held)
      PROVE  AudioTypeOK'
  BY <1>5 DEF AddLabel, setup, labels, flags, file
<1>6. CASE ambix_delete_markers
  BY <1>6 DEF ambix_delete_markers, setup, flags, file
<1>7. CASE ambix_delete_regions
  BY <1>7 DEF ambix_delete_regions, setup, flags, file
<1>8. ASSUME NEW m \in Matrices, SetDecoder(m) PROVE AudioTypeOK'
  <2>1. matrix2' \in Matrix
    BY <1>8, <1>a, MatrixTypes DEF SetDecoder
  <2> QED
    BY <1>8, <2>1 DEF SetDecoder, labels, flags, file
<1>9. ASSUME NEW m \in Matrices, SetAdaptor(m) PROVE AudioTypeOK'
  <2>1. matrix' \in Matrix /\ matrix2' \in Matrix /\ m.rows \in Nat
    BY <1>9, <1>a, MatrixTypes DEF SetAdaptor, setup, Matrix
  <2>2. realinfo' \in InfoType /\ info' \in InfoType
    BY <1>9, <2>1 DEF SetAdaptor, InfoType, Formats
  <2>3. use_matrix' \in 0 .. 2
    BY <1>9 DEF SetAdaptor
  <2> QED
    BY <1>9, <2>1, <2>2, <2>3 DEF SetAdaptor, labels, file
<1>10. ASSUME NEW m \in Matrices, SetRefused(m) PROVE AudioTypeOK'
  BY <1>10 DEF SetRefused, AdaptorError, setup, labels, flags, file
<1>11. ASSUME NEW k \in 0 .. MaxFrames, ambix_seek(k) PROVE AudioTypeOK'
  BY <1>11 DEF ambix_seek, setup, labels, flags, file
<1>12. ASSUME NEW n \in Blocks, NEW w \in ItemSizes, ambix_readf(n, w)
       PROVE  AudioTypeOK'
  <2>1. adaptorbuffersize' \in Nat
    BY <1>12, <1>a, ResizedNat DEF ambix_readf
  <2>2. position' \in Nat
    BY <1>12, <1>a DEF ambix_readf
  <2> QED
    BY <1>12, <2>1, <2>2 DEF ambix_readf, setup, labels, flags, file
<1>c. ASSUME NEW refused PROVE WithUuid(refused) \in FileType
  <2>1. Append(disk.uuid, matrix) \in Seq(Matrix)
    <3>1. disk.uuid \in Seq(Matrix)
      BY DEF FileType
    <3> QED
      BY <3>1
  <2> QED
    BY <2>1 DEF WithUuid, FileType
<1>13. ASSUME NEW n \in Blocks, NEW w \in ItemSizes, NEW refused \in Refusable,
              ambix_writef(n, w, refused)
       PROVE  AudioTypeOK'
  <2>1. disk' \in FileType
    <3>1. disk' = disk \/ disk' = WithUuid(refused)
      BY <1>13 DEF ambix_writef, _ambix_write_header
    <3> QED
      BY <3>1, <1>c
  <2>2. adaptorbuffersize' \in Nat
    <3>1. \/ adaptorbuffersize' = adaptorbuffersize
          \/ adaptorbuffersize' = Resized(adaptorbuffersize, n, w, info, realinfo)
      BY <1>13 DEF ambix_writef
    <3>2. Resized(adaptorbuffersize, n, w, info, realinfo) \in Nat
      BY <1>a, ResizedNat
    <3> QED
      BY <3>1, <3>2
  <2>3. frames' \in Nat /\ position' \in Nat
    BY <1>13, <1>a DEF ambix_writef, max_u64
  <2>4. ret' \in Errors
    BY <1>13 DEF ambix_writef, CheckError, HeaderError
  <2> QED
    BY <1>13, <2>1, <2>2, <2>3, <2>4 DEF ambix_writef, setup, labels, flags
<1>14. ASSUME NEW refused \in Refusable, Close(refused) PROVE AudioTypeOK'
  <2>1. disk' \in FileType
    <3>1. disk' = disk \/ disk' = WithUuid(refused)
      BY <1>14 DEF Close, _ambix_write_header
    <3> QED
      BY <3>1, <1>c
  <2>2. NoMatrix \in Matrix
    BY MatrixTypes
  <2>3. startedWriting' \in BOOLEAN /\ pendingHeaders' \in BOOLEAN
    BY <1>14 DEF Close
  <2> QED
    BY <1>14, <1>b, <2>1, <2>2, <2>3 DEF Close
<1> QED
  BY <1>1, <1>2, <1>3, <1>4, <1>5, <1>6, <1>7, <1>8, <1>9, <1>10, <1>11,
     <1>12, <1>13, <1>14
  DEF Next, Open, Configure, Transfer, ambix_add_marker, ambix_add_region

(* The types of everything that bears on channels and frames.              *)
THEOREM AudioTypes == Spec => []AudioTypeOK
BY AudioTypeInit, AudioTypeStep, PTL DEF Spec

LEMMA AccountInit == Init => Account
BY DEF Init, Account

LEMMA AccountStep ==
  AudioTypeOK /\ HeaderInv /\ Account /\ [Next]_vars => Account'
<1> SUFFICES ASSUME AudioTypeOK, HeaderInv, Account, [Next]_vars
             PROVE  Account'
  OBVIOUS
<1> USE DEF Account, ReadChannels, WriteChannels
<1>1. CASE UNCHANGED vars
  BY <1>1 DEF vars, setup, labels, flags, file
<1>2. ASSUME NEW fmt \in Formats, NEW ambi \in Counts, NEW extra \in Counts,
             OpenWrite(fmt, ambi, extra)
      PROVE  Account'
  <2>1. filemode' = "WRITE" /\ channels' = ambi + extra
    BY <1>2 DEF OpenWrite
  <2>2. realinfo'.ambichannels = ambi /\ realinfo'.extrachannels = extra
    BY <1>2 DEF OpenWrite
  <2>3. CASE fmt = "BASIC" /\ ~ Writable(fmt, ambi, extra)
    <3>1. use_matrix' = 1 /\ matrix'.rows = 0
      BY <1>2, <2>3 DEF OpenWrite, NoMatrix
    <3>2. /\ info'.fileformat = "BASIC" /\ realinfo'.fileformat = "EXTENDED"
          /\ info'.extrachannels = extra
      BY <1>2, <2>3 DEF OpenWrite
    <3>3. ~ startedWriting'
      BY <1>2 DEF OpenWrite, flags, HeaderInv
    <3> QED
      BY <2>1, <2>2, <3>1, <3>2, <3>3
  <2>4. CASE ~ (fmt = "BASIC" /\ ~ Writable(fmt, ambi, extra))
    <3>1. use_matrix' = 0 /\ info' = realinfo'
      BY <1>2, <2>4 DEF OpenWrite
    <3> QED
      BY <2>1, <2>2, <3>1
  <2> QED
    BY <2>3, <2>4
<1>3. ASSUME NEW mode \in {"READ", "WRITE", "RDWR"}, NEW fmt \in Formats,
             NEW ambi \in Counts, NEW extra \in Counts,
             OpenFails(mode, fmt, ambi, extra)
      PROVE  Account'
  BY <1>3 DEF OpenFails, setup, labels, flags, file
<1>4. ASSUME NEW want \in Formats, OpenRead(want) PROVE Account'
  <2> DEFINE have == FileInfo(disk)
  <2>1. /\ have \in InfoType
        /\ have.ambichannels + have.extrachannels = disk.channels
        /\ have.fileformat = "EXTENDED" =>
             FileMatrix(disk).cols = have.ambichannels
    BY FileInfoChannels DEF AudioTypeOK
  <2>2. filemode' = "READ" /\ realinfo' = have /\ channels' = disk.channels
    BY <1>4 DEF OpenRead
  <2>3. CASE want = "BASIC" /\ have.fileformat = "EXTENDED"
    <3>1. /\ use_matrix' = 1 /\ matrix' = FileMatrix(disk)
          /\ info' = [have EXCEPT !.fileformat = "BASIC",
                                  !.ambichannels = FileMatrix(disk).rows]
      BY <1>4, <2>3 DEF OpenRead
    <3> HIDE DEF have
    <3>2. /\ info'.ambichannels = FileMatrix(disk).rows
          /\ info'.extrachannels = have.extrachannels
      BY <2>1, <3>1 DEF InfoType
    <3> QED
      BY <2>1, <2>2, <2>3, <3>1, <3>2
  <2>4. CASE ~ (want = "BASIC" /\ have.fileformat = "EXTENDED")
    <3>1. /\ use_matrix' = 0
          /\ \/ info' = have
             \/ /\ have.fileformat = "BASIC"
                /\ info' = [have EXCEPT !.fileformat = "EXTENDED"]
      BY <1>4, <2>4 DEF OpenRead
    <3>2. have.fileformat = "EXTENDED" => matrix' = FileMatrix(disk)
      BY <1>4 DEF OpenRead
    <3> HIDE DEF have
    <3>3. /\ info'.ambichannels = have.ambichannels
          /\ info'.extrachannels = have.extrachannels
      BY <2>1, <3>1 DEF InfoType
    <3>4. info'.fileformat = "BASIC" => have.fileformat # "EXTENDED"
      BY <2>1, <3>1 DEF InfoType
    <3> QED
      BY <2>1, <2>2, <3>1, <3>3, <3>4
  <2> QED
    BY <2>3, <2>4
<1>5. ASSUME NEW l \in Labels, NEW held \in {"marker", "region"},
             AddLabel(l, held)
      PROVE  Account'
  BY <1>5 DEF AddLabel, setup, flags
<1>6. CASE ambix_delete_markers
  BY <1>6 DEF ambix_delete_markers, setup, flags
<1>7. CASE ambix_delete_regions
  BY <1>7 DEF ambix_delete_regions, setup, flags
<1>8. ASSUME NEW m \in Matrices, SetDecoder(m) PROVE Account'
  <2>1. filemode = "READ" /\ info.fileformat = "BASIC"
    BY <1>8 DEF SetDecoder
  <2>2. Product(m, matrix).cols = matrix.cols
    BY DEF Product
  <2>3. CASE m.cols = IF realinfo.fileformat = "EXTENDED" THEN matrix.rows
                      ELSE realinfo.ambichannels
    BY <1>8, <2>1, <2>2, <2>3 DEF SetDecoder
  <2>4. CASE m.cols # IF realinfo.fileformat = "EXTENDED" THEN matrix.rows
                      ELSE realinfo.ambichannels
    BY <1>8, <2>1, <2>4 DEF SetDecoder
  <2> QED
    BY <2>3, <2>4
<1>9. ASSUME NEW m \in Matrices, SetAdaptor(m) PROVE Account'
  <2>1. /\ filemode = "WRITE" /\ filemode' = filemode
        /\ channels' = channels /\ startedWriting' = startedWriting
    BY <1>9 DEF SetAdaptor
  <2>2. CASE info.fileformat = "BASIC"
    <3>1. m.cols = realinfo.ambichannels
      BY <1>9, <2>2 DEF SetAdaptor, AdaptorError
    <3>2. /\ use_matrix' = 2 /\ matrix2' = PseudoInverse(m)
          /\ realinfo' = [realinfo EXCEPT !.fileformat = "EXTENDED"]
          /\ info' = [info EXCEPT !.ambichannels = m.rows]
      BY <1>9, <2>2 DEF SetAdaptor
    <3>3. /\ realinfo'.ambichannels = realinfo.ambichannels
          /\ realinfo'.extrachannels = realinfo.extrachannels
          /\ info'.ambichannels = m.rows
          /\ info'.extrachannels = info.extrachannels
      BY <3>2 DEF AudioTypeOK, InfoType
    <3> QED
      BY <2>1, <3>1, <3>2, <3>3 DEF PseudoInverse
  <2>3. CASE info.fileformat # "BASIC"
    BY <1>9, <2>1, <2>3 DEF SetAdaptor
  <2> QED
    BY <2>2, <2>3
<1>10. ASSUME NEW m \in Matrices, SetRefused(m) PROVE Account'
  BY <1>10 DEF SetRefused, setup, flags
<1>11. ASSUME NEW k \in 0 .. MaxFrames, ambix_seek(k) PROVE Account'
  BY <1>11 DEF ambix_seek, setup, flags
<1>12. ASSUME NEW n \in Blocks, NEW w \in ItemSizes, ambix_readf(n, w)
       PROVE  Account'
  BY <1>12 DEF ambix_readf, setup, flags
<1>13. ASSUME NEW n \in Blocks, NEW w \in ItemSizes, NEW refused \in Refusable,
              ambix_writef(n, w, refused)
       PROVE  Account'
  <2>1. UNCHANGED <<filemode, channels, info, realinfo, matrix, matrix2, use_matrix>>
    BY <1>13 DEF ambix_writef, setup
  <2>2. ASSUME filemode = "WRITE", use_matrix = 1, Documented
        PROVE  FALSE
    BY <1>13, <2>2 DEF ambix_writef, ContractMet
  <2> QED
    BY <2>1, <2>2
<1>14. ASSUME NEW refused \in Refusable, Close(refused) PROVE Account'
  BY <1>14 DEF Close
<1> QED
  BY <1>1, <1>2, <1>3, <1>4, <1>5, <1>6, <1>7, <1>8, <1>9, <1>10, <1>11,
     <1>12, <1>13, <1>14
  DEF Next, Open, Configure, Transfer, ambix_add_marker, ambix_add_region

(* Every reader delivers frames as announced, whatever is in the file and  *)
(* whatever matrix the caller has multiplied onto it.                      *)
THEOREM ReadersMatch == Spec => []ReadFramesMatchInfo
<1>1. AudioTypeOK /\ Account => ReadFramesMatchInfo
  <2> SUFFICES ASSUME AudioTypeOK, Account, filemode = "READ"
               PROVE  /\ Applied.cols + info.extrachannels = channels
                      /\ use_matrix # 2 => Applied.rows = info.ambichannels
    BY DEF ReadFramesMatchInfo
  <2>1. use_matrix \in {0, 1, 2}
    BY DEF AudioTypeOK
  <2>2. CASE use_matrix = 0
    <3>1. Applied = Identity(realinfo.ambichannels)
      BY <2>2 DEF Applied, Copied
    <3> QED
      BY <2>2, <3>1 DEF Account, ReadChannels, Identity
  <2>3. CASE use_matrix = 1
    <3>1. Applied = matrix
      BY <2>3 DEF Applied
    <3> QED
      BY <2>3, <3>1 DEF Account, ReadChannels
  <2>4. CASE use_matrix = 2
    <3>1. Applied = matrix2
      BY <2>4 DEF Applied
    <3> QED
      BY <2>4, <3>1 DEF Account, ReadChannels
  <2> QED
    BY <2>1, <2>2, <2>3, <2>4
<1> QED
  BY <1>1, AudioTypeInit, AudioTypeStep, HeaderInvInit, HeaderInvStep,
     AccountInit, AccountStep, PTL DEF Spec

(* Every writer that keeps to the contract in ambix_open() fills the frames *)
(* of its file exactly, whatever it configured and in which order.          *)
THEOREM WritersFill == Spec => [](Documented => WrittenFramesFillFile)
<1>1. AudioTypeOK /\ Account => (Documented => WrittenFramesFillFile)
  <2> SUFFICES ASSUME AudioTypeOK, Account, Documented,
                      filemode = "WRITE", startedWriting
               PROVE  /\ Applied.rows + info.extrachannels = channels
                      /\ Applied.cols = info.ambichannels
    BY DEF WrittenFramesFillFile
  <2>1. use_matrix \in {0, 2}
    BY DEF AudioTypeOK, Account, WriteChannels
  <2>2. CASE use_matrix = 0
    <3>1. Applied = Identity(info.ambichannels)
      BY <2>2 DEF Applied, Copied
    <3> QED
      BY <2>2, <3>1 DEF Account, WriteChannels, Identity
  <2>3. CASE use_matrix = 2
    <3>1. Applied = matrix2
      BY <2>3 DEF Applied
    <3> QED
      BY <2>3, <3>1 DEF Account, WriteChannels
  <2> QED
    BY <2>1, <2>2, <2>3
<1> QED
  BY <1>1, AudioTypeInit, AudioTypeStep, HeaderInvInit, HeaderInvStep,
     AccountInit, AccountStep, PTL DEF Spec

LEMMA TimesMonotonic ==
  ASSUME NEW a \in Nat, NEW b \in Nat, NEW n \in Nat, a >= b
  PROVE  a * n >= b * n
OBVIOUS

(* The room _ambix_adaptorbuffer_resize() makes is enough for n frames of  *)
(* the file, however large the buffer was and whatever it is told about    *)
(* the channels the caller sees.                                           *)
LEMMA ResizedHolds ==
  ASSUME NEW size \in Nat, NEW n \in Nat, NEW itemsize \in Nat,
         NEW shown \in InfoType, NEW real \in InfoType
  PROVE  Resized(size, n, itemsize, shown, real)
           >= n * itemsize * (real.ambichannels + real.extrachannels)
<1> DEFINE room == max_u64(shown.ambichannels, real.ambichannels)
                   + max_u64(shown.extrachannels, real.extrachannels)
           width == real.ambichannels + real.extrachannels
<1>1. room \in Nat /\ width \in Nat /\ room >= width
  BY DEF max_u64, InfoType
<1>2. Resized(size, n, itemsize, shown, real)
        = max_u64(size, room * n * itemsize)
  BY DEF Resized
<1> HIDE DEF room, width
<1>3. room * n >= width * n /\ room * n \in Nat /\ width * n \in Nat
  BY <1>1, TimesMonotonic
<1>4. (room * n) * itemsize >= (width * n) * itemsize
  BY <1>3, TimesMonotonic
<1>5. (width * n) * itemsize = n * itemsize * width
  BY <1>1
<1>6. room * n * itemsize \in Nat /\ n * itemsize * width \in Nat
  BY <1>1, <1>3
<1>7. max_u64(size, room * n * itemsize) >= n * itemsize * width
  BY <1>4, <1>5, <1>6 DEF max_u64
<1> QED
  BY <1>2, <1>7 DEF width

(* No transfer runs over the adaptor buffer, for all widths, block sizes   *)
(* and item sizes.                                                         *)
THEOREM BufferSuffices == Spec => BufferHoldsTransfer
<1>1. AudioTypeOK /\ Account /\ [Next]_vars
        => [\A n \in Blocks, w \in ItemSizes :
              (ambix_readf(n, w) \/ (ambix_writef(n, w, {}) /\ ret' = "SUCCESS"))
                => adaptorbuffersize' >= n * w * channels]_vars
  <2> SUFFICES ASSUME AudioTypeOK, Account,
                      NEW n \in Blocks, NEW w \in ItemSizes,
                      \/ ambix_readf(n, w)
                      \/ ambix_writef(n, w, {}) /\ ret' = "SUCCESS"
               PROVE  adaptorbuffersize' >= n * w * channels
    OBVIOUS
  <2>1. n \in Nat /\ w \in Nat
    BY HandleAssumption DEF HandleAssumption
  <2>2. channels = realinfo.ambichannels + realinfo.extrachannels
    BY DEF Account, ambix_readf, ambix_writef
  <2>3. adaptorbuffersize' = Resized(adaptorbuffersize, n, w, info, realinfo)
    BY DEF ambix_readf, ambix_writef
  <2>4. adaptorbuffersize \in Nat /\ info \in InfoType /\ realinfo \in InfoType
    BY DEF AudioTypeOK
  <2>5. Resized(adaptorbuffersize, n, w, info, realinfo)
          >= n * w * (realinfo.ambichannels + realinfo.extrachannels)
    BY <2>1, <2>4, ResizedHolds
  <2> QED
    BY <2>2, <2>3, <2>5
<1> QED
  BY <1>1, AudioTypeInit, AudioTypeStep, HeaderInvInit, HeaderInvStep,
     AccountInit, AccountStep, PTL DEF Spec, BufferHoldsTransfer
-----------------------------------------------------------------------------
(* Chunks as they are read                                                 *)

LEMMA MinIs ==
  ASSUME NEW I, I \subseteq Nat, I # {}
  PROVE  Min(I) \in I /\ \A i \in I : Min(I) <= i
<1>1. \E n \in I : \A m \in I : n =< m
  BY Least
<1> QED
  BY <1>1 DEF Min

FlatBy(f, ss) ==
  f = [i \in 1 .. Len(ss) |-> IF i = 1 THEN ss[i] ELSE f[i - 1] \o ss[i]]

LEMMA FlatExists ==
  ASSUME NEW ss, Len(ss) \in Nat
  PROVE  \E f : FlatBy(f, ss)
<1> DEFINE By(g, n) == \A m \in 1 .. n : g[m] = IF m = 1 THEN ss[m] ELSE g[m - 1] \o ss[m]
           U == {n \in Nat : \E g : g = [m \in 1 .. n |-> g[m]] /\ By(g, n)}
<1>1. 0 \in U
  <2> DEFINE g == [m \in 1 .. 0 |-> 0]
  <2>1. g = [m \in 1 .. 0 |-> g[m]]
    OBVIOUS
  <2>2. By(g, 0)
    <3>1. \A m \in 1 .. 0 : FALSE
      OBVIOUS
    <3> HIDE DEF g
    <3> QED
      BY <3>1
  <2> HIDE DEF g, By
  <2> QED
    BY <2>1, <2>2
<1>2. ASSUME NEW n \in Nat, n \in U PROVE n + 1 \in U
  <2>1. PICK g : g = [m \in 1 .. n |-> g[m]] /\ By(g, n)
    BY <1>2
  <2> DEFINE last == IF n + 1 = 1 THEN ss[n + 1] ELSE g[n] \o ss[n + 1]
             h == [m \in 1 .. n + 1 |-> IF m = n + 1 THEN last ELSE g[m]]
  <2> HIDE DEF last
  <2>2. h = [m \in 1 .. n + 1 |-> h[m]]
    OBVIOUS
  <2>3. h[n + 1] = last /\ \A m \in 1 .. n : h[m] = g[m]
    <3>1. \A m \in 1 .. n : m \in 1 .. n + 1 /\ m # n + 1
      OBVIOUS
    <3>2. n + 1 \in 1 .. n + 1
      OBVIOUS
    <3> QED
      BY <3>1, <3>2
  <2> USE DEF last
  <2> HIDE DEF h
  <2>4. ASSUME NEW m \in 1 .. n + 1
        PROVE  h[m] = IF m = 1 THEN ss[m] ELSE h[m - 1] \o ss[m]
    <3>1. CASE m = n + 1
      <4>1. m # 1 => m - 1 = n /\ n \in 1 .. n
        BY <3>1
      <4> QED
        BY <2>3, <3>1, <4>1
    <3>2. CASE m # n + 1
      <4>1. m \in 1 .. n /\ (m # 1 => m - 1 \in 1 .. n)
        BY <3>2
      <4> QED
        BY <2>1, <2>3, <4>1
    <3> QED
      BY <3>1, <3>2
  <2>5. By(h, n + 1)
    BY <2>4
  <2>6. \E e : e = [m \in 1 .. n + 1 |-> e[m]] /\ By(e, n + 1)
    <3> HIDE DEF By
    <3> QED
      BY <2>2, <2>5
  <2> HIDE DEF By
  <2> QED
    BY <2>6
<1>3. Nat \subseteq U
  <2> HIDE DEF U
  <2> QED
    BY <1>1, <1>2, Induct
<1>4. PICK g : g = [m \in 1 .. Len(ss) |-> g[m]] /\ By(g, Len(ss))
  BY <1>3
<1>5. FlatBy(g, ss)
  BY <1>4 DEF FlatBy
<1> QED
  BY <1>5

LEMMA FlattenType ==
  ASSUME NEW T, NEW ss \in Seq(Seq(T))
  PROVE  FlattenSeq(ss) \in Seq(T)
<1>1. Len(ss) \in Nat /\ \A i \in 1 .. Len(ss) : ss[i] \in Seq(T)
  BY LenProperties
<1>2. CASE Len(ss) = 0
  BY <1>2, EmptySeq DEF FlattenSeq
<1>3. CASE Len(ss) # 0
  <2> DEFINE f == CHOOSE g : FlatBy(g, ss)
  <2>1. FlattenSeq(ss) = f[Len(ss)]
    BY <1>3 DEF FlattenSeq, FlatBy
  <2>2. FlatBy(f, ss)
    BY <1>1, FlatExists
  <2> HIDE DEF f
  <2>3. \A i \in 1 .. Len(ss) : f[i] = IF i = 1 THEN ss[i] ELSE f[i - 1] \o ss[i]
    BY <2>2 DEF FlatBy
  <2> DEFINE U == {n \in Nat : n + 1 <= Len(ss) => f[n + 1] \in Seq(T)}
  <2>4. 0 \in U
    BY <1>1, <1>3, <2>3
  <2>5. ASSUME NEW n \in Nat, n \in U PROVE n + 1 \in U
    <3> SUFFICES ASSUME n + 2 <= Len(ss) PROVE f[n + 2] \in Seq(T)
      OBVIOUS
    <3>1. f[n + 1] \in Seq(T) /\ n + 2 \in 1 .. Len(ss) /\ (n + 2) - 1 = n + 1 /\ n + 2 # 1
      BY <1>1, <2>5
    <3>2. f[n + 1] \o ss[n + 2] \in Seq(T)
      BY <1>1, <3>1, ConcatProperties
    <3> QED
      BY <2>3, <3>1, <3>2
  <2>6. Nat \subseteq U
    <3> HIDE DEF U
    <3> QED
      BY <2>4, <2>5, Induct
  <2>7. Len(ss) - 1 \in Nat /\ (Len(ss) - 1) + 1 = Len(ss)
    BY <1>1, <1>3
  <2>8. f[Len(ss)] \in Seq(T)
    <3>1. Len(ss) - 1 \in U
      BY <2>6, <2>7
    <3>2. (Len(ss) - 1) + 1 <= Len(ss)
      BY <1>1, <2>7
    <3> QED
      BY <2>7, <3>1, <3>2
  <2> QED
    BY <2>1, <2>8
<1> QED
  BY <1>2, <1>3

LEMMA FlattenOne ==
  ASSUME NEW c
  PROVE  FlattenSeq(<<c>>) = c
<1> DEFINE ss == <<c>>
           f == CHOOSE g : FlatBy(g, ss)
<1>1. Len(ss) = 1 /\ ss[1] = c
  OBVIOUS
<1>2. FlattenSeq(ss) = f[Len(ss)]
  BY DEF FlattenSeq, FlatBy
<1>3. FlatBy(f, ss)
  BY <1>1, FlatExists
<1> HIDE DEF f, ss
<1>4. f[1] = c
  BY <1>1, <1>3 DEF FlatBy
<1> QED
  BY <1>1, <1>2, <1>4 DEF ss

LEMMA FlattenNone == FlattenSeq(<<>>) = <<>>
BY DEF FlattenSeq

LEMMA UpToEmptyType ==
  ASSUME NEW T, NEW kind \in Seq(Seq(T))
  PROVE  UpToEmpty(kind) \in Seq(T)
<1> DEFINE I == {i \in 1 .. Len(kind) : kind[i] = <<>>}
           end == IF I # {} THEN Min(I) ELSE 0
<1>1. UpToEmpty(kind) = FlattenSeq(IF end = 0 THEN kind ELSE SubSeq(kind, 1, end - 1))
  BY DEF UpToEmpty, SelectInSeq
<1>2. Len(kind) \in Nat /\ \A i \in 1 .. Len(kind) : kind[i] \in Seq(T)
  BY LenProperties
<1>3. end # 0 => end \in 1 .. Len(kind)
  <2>1. I \subseteq Nat
    BY <1>2
  <2>2. I # {} => Min(I) \in I
    BY <2>1, MinIs
  <2> QED
    BY <2>2
<1> HIDE DEF end
<1>4. end # 0 => SubSeq(kind, 1, end - 1) \in Seq(Seq(T))
  <2> SUFFICES ASSUME end # 0 PROVE SubSeq(kind, 1, end - 1) \in Seq(Seq(T))
    OBVIOUS
  <2>1. 1 \in Int /\ end - 1 \in Int /\ \A i \in 1 .. end - 1 : i \in 1 .. Len(kind)
    BY <1>2, <1>3
  <2>2. \A i \in 1 .. end - 1 : kind[i] \in Seq(T)
    BY <1>2, <2>1
  <2> QED
    BY <2>1, <2>2, SubSeqProperties
<1> QED
  BY <1>1, <1>4, FlattenType

LEMMA UpToEmptyNone == UpToEmpty(<<>>) = <<>>
<1>1. {i \in 1 .. Len(<<>>) : <<>>[i] = <<>>} = {}
  OBVIOUS
<1> QED
  BY <1>1, FlattenNone DEF UpToEmpty, SelectInSeq

LEMMA UpToEmptyOne ==
  ASSUME NEW T, NEW c \in Seq(T)
  PROVE  UpToEmpty(<<c>>) = c
<1> DEFINE kind == <<c>>
           I == {i \in 1 .. Len(kind) : kind[i] = <<>>}
           end == IF I # {} THEN Min(I) ELSE 0
<1>1. UpToEmpty(kind) = FlattenSeq(IF end = 0 THEN kind ELSE SubSeq(kind, 1, end - 1))
  BY DEF UpToEmpty, SelectInSeq
<1>2. CASE c = <<>>
  <2>1. I = {1}
    BY <1>2
  <2>2. Min(I) \in I
    BY <2>1, MinIs
  <2>3. end = 1
    BY <2>1, <2>2
  <2>4. SubSeq(kind, 1, 1 - 1) = <<>>
    OBVIOUS
  <2> HIDE DEF end, kind
  <2>5. (IF end = 0 THEN kind ELSE SubSeq(kind, 1, end - 1)) = <<>>
    BY <2>3, <2>4
  <2>6. UpToEmpty(kind) = FlattenSeq(<<>>)
    BY <1>1, <2>5, Zenon
  <2>7. UpToEmpty(kind) = c
    BY <1>2, <2>6, FlattenNone, Zenon
  <2> QED
    BY <2>7 DEF kind
<1>3. CASE c # <<>>
  <2>1. I = {}
    BY <1>3
  <2>2. end = 0
    BY <2>1
  <2> QED
    BY <1>1, <2>2, FlattenOne
<1> QED
  BY <1>2, <1>3

LEMMA StringType ==
  ASSUME NEW strings \in Seq(StringEntry), NEW id
  PROVE  get_string_from_buffer(strings, id) \in Labels \cup {""}
<1> DEFINE I == {i \in 1 .. Len(strings) : strings[i].id = id}
           hit == IF I # {} THEN Min(I) ELSE 0
<1>1. get_string_from_buffer(strings, id) = IF hit = 0 THEN "" ELSE strings[hit].name
  BY DEF get_string_from_buffer, SelectInSeq
<1>2. Len(strings) \in Nat /\ \A i \in 1 .. Len(strings) : strings[i] \in StringEntry
  BY LenProperties
<1>3. hit # 0 => hit \in 1 .. Len(strings)
  BY <1>2, MinIs
<1> HIDE DEF hit
<1>4. hit # 0 => strings[hit].name \in Labels
  BY <1>2, <1>3 DEF StringEntry
<1> QED
  BY <1>1, <1>4

(* A table in which every string has its place as identifier.              *)
LEMMA StringFound ==
  ASSUME NEW strings, Len(strings) \in Nat, \A i \in 1 .. Len(strings) : strings[i].id = i,
         NEW n \in 1 .. Len(strings)
  PROVE  get_string_from_buffer(strings, n) = strings[n].name
<1> DEFINE I == {i \in 1 .. Len(strings) : strings[i].id = n}
           hit == IF I # {} THEN Min(I) ELSE 0
<1>1. get_string_from_buffer(strings, n) = IF hit = 0 THEN "" ELSE strings[hit].name
  BY DEF get_string_from_buffer, SelectInSeq
<1>2. I = {n}
  OBVIOUS
<1>3. hit = n /\ n # 0
  BY <1>2, MinIs
<1> QED
  BY <1>1, <1>3

(* A label as it is read, maybe with no name.                              *)
AnyLabel == [at : Labels, name : Labels \cup {""}]

LEMMA NamedType ==
  ASSUME NEW c \in ChunkType, NEW kind \in Seq(Seq(LabelEntry))
  PROVE  Named(c, kind) \in Seq(AnyLabel)
<1> DEFINE entries == UpToEmpty(kind)
           strings == UpToEmpty(c.strg)
<1>1. entries \in Seq(LabelEntry)
  BY UpToEmptyType
<1>2. strings \in Seq(StringEntry)
  BY UpToEmptyType DEF ChunkType
<1>3. Named(c, kind) = [i \in DOMAIN entries |->
                          [at |-> entries[i].at,
                           name |-> get_string_from_buffer(strings, entries[i].id)]]
  BY DEF Named
<1> HIDE DEF entries, strings
<1>4. /\ Len(entries) \in Nat /\ DOMAIN entries = 1 .. Len(entries)
      /\ \A i \in 1 .. Len(entries) : entries[i] \in LabelEntry
  BY <1>1, LenProperties
<1>5. \A i \in 1 .. Len(entries) : entries[i].at \in Labels
  BY <1>4 DEF LabelEntry
<1>6. Named(c, kind) \in [1 .. Len(entries) -> AnyLabel]
  <2>1. \A i \in 1 .. Len(entries) :
          [at |-> entries[i].at, name |-> get_string_from_buffer(strings, entries[i].id)] \in AnyLabel
    BY <1>2, <1>5, StringType DEF AnyLabel
  <2> QED
    BY <1>3, <1>4, <2>1
<1> QED
  BY <1>4, <1>6, SeqDef
-----------------------------------------------------------------------------
(* The labels and the chunks they are kept in                              *)

(* A label as the caller gives it.                                         *)
GivenLabel == [at : Labels, name : Labels]

(* What the names of a handle can be: any when they were read, those given *)
(* by the caller in a handle that will write them.                         *)
LabelInv ==
  /\ faults \in 0 .. MaxFaults
  /\ markers \in Seq(AnyLabel) /\ regions \in Seq(AnyLabel)
  /\ chunks \in ChunkType
  /\ filemode = "CLOSED" => markers = <<>> /\ regions = <<>>
  /\ filemode = "WRITE" => markers \in Seq(GivenLabel) /\ regions \in Seq(GivenLabel)

LEMMA RefusableIs ==
  ASSUME faults \in 0 .. MaxFaults, NEW refused \in Refusable
  PROVE  /\ faults + Cardinality(refused) \in 0 .. MaxFaults
         /\ MaxFaults = 0 => refused = {}
<1> DEFINE All == {"mark", "regn", "strg", "uuid"}
<1>1. IsFiniteSet(All)
  <2>1. IsFiniteSet({}) /\ All = ((({} \cup {"mark"}) \cup {"regn"}) \cup {"strg"}) \cup {"uuid"}
    BY FS_EmptySet
  <2> HIDE DEF All
  <2> QED
    BY <2>1, FS_AddElement
<1>2. refused \subseteq All
  BY DEF Refusable, Attempted
<1> HIDE DEF All
<1>3. IsFiniteSet(refused)
  BY <1>1, <1>2, FS_Subset
<1>4. Cardinality(refused) \in Nat /\ (Cardinality(refused) = 0 <=> refused = {})
  BY <1>3, FS_CardinalityType, FS_EmptySet
<1>5. MaxFaults \in Nat /\ Cardinality({}) = 0
  BY HandleAssumption, FS_EmptySet DEF HandleAssumption
<1>6. faults + Cardinality(refused) <= MaxFaults
  BY <1>4, <1>5 DEF Refusable
<1> QED
  BY <1>4, <1>5, <1>6

LEMMA PlacedIs ==
  ASSUME NEW s \in Seq(GivenLabel), NEW offset \in Nat
  PROVE  /\ Placed(s, offset) \in Seq(LabelEntry)
         /\ Len(Placed(s, offset)) = Len(s)
         /\ \A i \in 1 .. Len(s) :
              Placed(s, offset)[i].at = s[i].at /\ Placed(s, offset)[i].id = offset + i
<1>1. /\ Len(s) \in Nat /\ DOMAIN s = 1 .. Len(s)
      /\ \A i \in 1 .. Len(s) : s[i] \in GivenLabel
  BY LenProperties
<1>2. \A i \in 1 .. Len(s) : [at |-> s[i].at, id |-> offset + i] \in LabelEntry
  <2>1. \A i \in 1 .. Len(s) : s[i].at \in Labels
    BY <1>1 DEF GivenLabel
  <2>2. \A i \in 1 .. Len(s) : offset + i \in Nat
    BY <1>1
  <2> QED
    BY <2>1, <2>2 DEF LabelEntry
<1>3. Placed(s, offset) \in [1 .. Len(s) -> LabelEntry]
  BY <1>1, <1>2 DEF Placed
<1> QED
  BY <1>1, <1>3, SeqDef DEF Placed

LEMMA StringsIs ==
  ASSUME markers \in Seq(GivenLabel), regions \in Seq(GivenLabel)
  PROVE  /\ Strings \in Seq(StringEntry)
         /\ Len(Strings) = Len(markers) + Len(regions)
         /\ \A i \in 1 .. Len(markers) + Len(regions) :
              /\ Strings[i].id = i
              /\ Strings[i].name = IF i <= Len(markers) THEN markers[i].name
                                   ELSE regions[i - Len(markers)].name
<1> DEFINE both == markers \o regions
<1>1. /\ both \in Seq(GivenLabel) /\ Len(both) = Len(markers) + Len(regions)
      /\ \A i \in 1 .. Len(markers) + Len(regions) :
           both[i] = IF i <= Len(markers) THEN markers[i] ELSE regions[i - Len(markers)]
  BY ConcatProperties
<1>2. Strings = [i \in DOMAIN both |-> [name |-> both[i].name, id |-> i]]
  BY DEF Strings
<1> HIDE DEF both
<1>3. /\ Len(both) \in Nat /\ DOMAIN both = 1 .. Len(both)
      /\ \A i \in 1 .. Len(both) : both[i] \in GivenLabel
  BY <1>1, LenProperties
<1>4. \A i \in 1 .. Len(both) : [name |-> both[i].name, id |-> i] \in StringEntry
  <2>1. \A i \in 1 .. Len(both) : both[i].name \in Labels
    BY <1>3 DEF GivenLabel
  <2> QED
    BY <1>3, <2>1 DEF StringEntry
<1>5. Strings \in [1 .. Len(both) -> StringEntry]
  BY <1>2, <1>3, <1>4
<1>6. Strings \in Seq(StringEntry) /\ Len(Strings) = Len(both)
  BY <1>3, <1>5, SeqDef
<1> QED
  BY <1>1, <1>2, <1>3, <1>6

LEMMA WithLabelsType ==
  ASSUME LabelInv, filemode = "WRITE", NEW refused
  PROVE  WithLabels(refused) \in ChunkType
<1>1. markers \in Seq(GivenLabel) /\ regions \in Seq(GivenLabel) /\ chunks \in ChunkType
      /\ Len(markers) \in Nat
  BY LenProperties DEF LabelInv
<1>2. /\ Placed(markers, 0) \in Seq(LabelEntry)
      /\ Placed(regions, Len(markers)) \in Seq(LabelEntry)
      /\ Strings \in Seq(StringEntry)
  BY <1>1, PlacedIs, StringsIs
<1>3. /\ chunks.mark \in Seq(Seq(LabelEntry)) /\ chunks.regn \in Seq(Seq(LabelEntry))
      /\ chunks.strg \in Seq(Seq(StringEntry))
  BY <1>1 DEF ChunkType
<1>4. /\ Append(chunks.mark, Placed(markers, 0)) \in Seq(Seq(LabelEntry))
      /\ Append(chunks.regn, Placed(regions, Len(markers))) \in Seq(Seq(LabelEntry))
      /\ Append(chunks.strg, Strings) \in Seq(Seq(StringEntry))
  BY <1>2, <1>3, AppendProperties
<1> QED
  BY <1>3, <1>4 DEF WithLabels, ChunkType

LEMMA LabelInit == Init => LabelInv
<1> SUFFICES ASSUME Init PROVE LabelInv
  OBVIOUS
<1>1. chunks \in ChunkType /\ MaxFaults \in Nat
  BY HandleAssumption DEF Init, HandleAssumption
<1>2. 0 \in 0 .. MaxFaults
  BY <1>1
<1> QED
  BY <1>1, <1>2, EmptySeq DEF Init, LabelInv

LEMMA LabelStep == LabelInv /\ [Next]_vars => LabelInv'
<1> SUFFICES ASSUME LabelInv, [Next]_vars PROVE LabelInv'
  OBVIOUS
<1> USE DEF LabelInv
<1>0. ASSUME UNCHANGED <<filemode, labels, chunks, faults>> PROVE LabelInv'
  BY <1>0 DEF labels
<1>1. CASE UNCHANGED vars
  BY <1>0, <1>1 DEF vars, file
<1>2. ASSUME NEW fmt \in Formats, NEW ambi \in Counts, NEW extra \in Counts,
             OpenWrite(fmt, ambi, extra)
      PROVE  LabelInv'
  <2>1. /\ filemode = "CLOSED" /\ filemode' = "WRITE"
        /\ chunks' = [mark |-> <<>>, regn |-> <<>>, strg |-> <<>>]
        /\ UNCHANGED <<markers, regions, faults>>
    BY <1>2 DEF OpenWrite, labels
  <2>2. chunks' \in ChunkType
    BY <2>1, EmptySeq DEF ChunkType
  <2> QED
    BY <2>1, <2>2, EmptySeq
<1>3. ASSUME NEW mode \in {"READ", "WRITE", "RDWR"}, NEW fmt \in Formats,
             NEW ambi \in Counts, NEW extra \in Counts,
             OpenFails(mode, fmt, ambi, extra)
      PROVE  LabelInv'
  BY <1>0, <1>3 DEF OpenFails, file
<1>4. ASSUME NEW want \in Formats, OpenRead(want) PROVE LabelInv'
  <2>1. /\ filemode' = "READ" /\ UNCHANGED <<chunks, faults>>
        /\ markers' = IF IsAmbix(disk) THEN Named(chunks, chunks.mark) ELSE <<>>
        /\ regions' = IF IsAmbix(disk) THEN Named(chunks, chunks.regn) ELSE <<>>
    BY <1>4 DEF OpenRead, file
  <2>2. chunks.mark \in Seq(Seq(LabelEntry)) /\ chunks.regn \in Seq(Seq(LabelEntry))
    BY DEF ChunkType
  <2>3. Named(chunks, chunks.mark) \in Seq(AnyLabel) /\ Named(chunks, chunks.regn) \in Seq(AnyLabel)
    BY <2>2, NamedType
  <2> QED
    BY <2>1, <2>3, EmptySeq
<1>5. ASSUME NEW l \in Labels, NEW held \in {"marker", "region"},
             AddLabel(l, held)
      PROVE  LabelInv'
  <2>1. /\ filemode # "CLOSED" /\ UNCHANGED <<filemode, chunks, faults>>
        /\ markers' \in {markers, Append(markers, Label(l))}
        /\ regions' \in {regions, Append(regions, Label(l))}
    BY <1>5 DEF AddLabel, labels, file
  <2>2. Label(l) \in GivenLabel /\ Label(l) \in AnyLabel
    BY DEF Label, GivenLabel, AnyLabel
  <2>3. /\ Append(markers, Label(l)) \in Seq(AnyLabel) /\ Append(regions, Label(l)) \in Seq(AnyLabel)
        /\ filemode = "WRITE" => /\ Append(markers, Label(l)) \in Seq(GivenLabel)
                                 /\ Append(regions, Label(l)) \in Seq(GivenLabel)
    BY <2>2, AppendProperties
  <2> QED
    BY <2>1, <2>3
<1>6. CASE ambix_delete_markers \/ ambix_delete_regions
  <2>1. /\ UNCHANGED <<filemode, chunks, faults>>
        /\ markers' \in {markers, <<>>} /\ regions' \in {regions, <<>>}
    BY <1>6 DEF ambix_delete_markers, ambix_delete_regions, file
  <2> QED
    BY <2>1, EmptySeq
<1>7. ASSUME NEW m \in Matrices, SetDecoder(m) \/ SetAdaptor(m) \/ SetRefused(m) PROVE LabelInv'
  <2>1. UNCHANGED <<filemode, labels, chunks, faults>>
    BY <1>7 DEF SetDecoder, SetAdaptor, SetRefused, file
  <2> QED
    BY <1>0, <2>1
<1>8. ASSUME NEW k \in 0 .. MaxFrames, ambix_seek(k) PROVE LabelInv'
  BY <1>0, <1>8 DEF ambix_seek, file
<1>9. ASSUME NEW n \in Blocks, NEW w \in ItemSizes, ambix_readf(n, w)
      PROVE  LabelInv'
  BY <1>0, <1>9 DEF ambix_readf, file
<1>a. ASSUME NEW refused, chunks' = chunks \/ _ambix_write_header(refused)
      PROVE  chunks' \in ChunkType
  BY <1>a, WithLabelsType DEF _ambix_write_header
<1>10. ASSUME NEW n \in Blocks, NEW w \in ItemSizes, NEW refused \in Refusable,
              ambix_writef(n, w, refused)
       PROVE  LabelInv'
  <2>1. UNCHANGED <<filemode, markers, regions>> /\ faults' = faults + Cardinality(refused)
    BY <1>10 DEF ambix_writef, labels
  <2>2. chunks' \in ChunkType
    BY <1>10, <1>a DEF ambix_writef
  <2>3. faults' \in 0 .. MaxFaults
    BY <2>1, RefusableIs
  <2> QED
    BY <2>1, <2>2, <2>3
<1>11. ASSUME NEW refused \in Refusable, Close(refused) PROVE LabelInv'
  <2>1. /\ filemode' = "CLOSED" /\ markers' = <<>> /\ regions' = <<>>
        /\ faults' = faults + Cardinality(refused)
    BY <1>11 DEF Close
  <2>2. chunks' \in ChunkType
    BY <1>11, <1>a DEF Close
  <2>3. faults' \in 0 .. MaxFaults
    BY <2>1, RefusableIs
  <2> QED
    BY <2>1, <2>2, <2>3, EmptySeq
<1> QED
  BY <1>1, <1>2, <1>3, <1>4, <1>5, <1>6, <1>7, <1>8, <1>9, <1>10, <1>11
  DEF Next, Open, Configure, Transfer, ambix_add_marker, ambix_add_region

(* All variables of a handle and its file keep their types, whatever files *)
(* it is given and in whatever order it is called.                         *)
THEOREM Types == Spec => []TypeOK
<1>1. AudioTypeOK /\ LabelInv => TypeOK
  BY DEF LabelInv, TypeOK, AnyLabel
<1> QED
  BY <1>1, AudioTypeInit, AudioTypeStep, LabelInit, LabelStep, PTL DEF Spec
-----------------------------------------------------------------------------
(* What is written is what is read                                         *)

NoChunks == [mark |-> <<>>, regn |-> <<>>, strg |-> <<>>]
Fresh == [kind |-> "caf", channels |-> channels, uuid |-> <<>>]

(* Between ambix_open() and the first frame nothing is in the file, and    *)
(* what has been set, labels or a matrix, is due to be written.            *)
SetupInv ==
  filemode = "WRITE" /\ ~ startedWriting =>
    /\ disk = Fresh /\ chunks = NoChunks
    /\ HasLabels => pendingHeaders
    /\ matrix # NoMatrix => /\ pendingHeaders /\ matrix \in Matrices
                            /\ is_fullset(matrix.rows)
                            /\ realinfo.fileformat = "EXTENDED"
                            /\ info.fileformat = "BASIC" => matrix.cols = realinfo.ambichannels
    /\ info.fileformat = "EXTENDED" => realinfo.fileformat = "EXTENDED"
    /\ realinfo.fileformat = "EXTENDED" => info.fileformat # "NONE"
    /\ realinfo.fileformat = "BASIC" =>
         realinfo.extrachannels = 0 /\ is_fullset(realinfo.ambichannels)
    /\ realinfo.fileformat = "NONE" => realinfo.ambichannels = 0

HandleInv == AudioTypeOK /\ HeaderInv /\ Account /\ LabelInv /\ SetupInv

LEMMA UuidOne ==
  ASSUME NEW m, NEW f, f.uuid = <<m>>, Parses(m)
  PROVE  UuidMatrix(f) = m
<1>1. DOMAIN f.uuid = {1} /\ f.uuid[1] = m
  OBVIOUS
<1>2. IsFirst(1, f)
  BY <1>1 DEF IsFirst
<1>3. (CHOOSE i \in DOMAIN f.uuid : IsFirst(i, f)) = 1
  BY <1>1, <1>2
<1> QED
  BY <1>1, <1>2, <1>3 DEF UuidMatrix

LEMMA UuidNone ==
  ASSUME NEW f, f.uuid = <<>>
  PROVE  UuidMatrix(f) = NoMatrix
<1>1. DOMAIN f.uuid = {}
  OBVIOUS
<1> QED
  BY <1>1 DEF UuidMatrix

(* The labels of a fresh file: each comes back with its own name.          *)
LEMMA LabelsAreRead ==
  ASSUME markers \in Seq(GivenLabel), regions \in Seq(GivenLabel), chunks = NoChunks, HasLabels
  PROVE  LET c == WithLabels({})
         IN Named(c, c.mark) = markers /\ Named(c, c.regn) = regions
<1> DEFINE c == WithLabels({})
           a == Placed(markers, 0)
           b == Placed(regions, Len(markers))
<1>1. c = [mark |-> <<a>>, regn |-> <<b>>, strg |-> <<Strings>>]
  <2>1. Append(<<>>, a) = <<a>> /\ Append(<<>>, b) = <<b>> /\ Append(<<>>, Strings) = <<Strings>>
    OBVIOUS
  <2> HIDE DEF a, b
  <2> QED
    BY <2>1 DEF WithLabels, NoChunks, a, b
<1>2. /\ Len(markers) \in Nat /\ DOMAIN markers = 1 .. Len(markers)
      /\ Len(regions) \in Nat /\ DOMAIN regions = 1 .. Len(regions)
      /\ \A i \in 1 .. Len(markers) : markers[i] \in GivenLabel
      /\ \A i \in 1 .. Len(regions) : regions[i] \in GivenLabel
  BY LenProperties
<1>3. /\ a \in Seq(LabelEntry) /\ Len(a) = Len(markers)
      /\ \A i \in 1 .. Len(markers) : a[i].at = markers[i].at /\ a[i].id = i
      /\ b \in Seq(LabelEntry) /\ Len(b) = Len(regions)
      /\ \A i \in 1 .. Len(regions) : b[i].at = regions[i].at /\ b[i].id = Len(markers) + i
  <2>1. \A i \in 1 .. Len(markers) : 0 + i = i
    OBVIOUS
  <2> QED
    BY <1>2, <2>1, PlacedIs
<1> DEFINE named(entries) == [i \in DOMAIN entries |->
                                [at |-> entries[i].at,
                                 name |-> get_string_from_buffer(Strings, entries[i].id)]]
<1>4. Named(c, c.mark) = named(a) /\ Named(c, c.regn) = named(b)
  <2>1. UpToEmpty(<<a>>) = a /\ UpToEmpty(<<b>>) = b /\ UpToEmpty(<<Strings>>) = Strings
    BY <1>3, StringsIs, UpToEmptyOne
  <2>2. c.mark = <<a>> /\ c.regn = <<b>> /\ c.strg = <<Strings>>
    BY <1>1
  <2> HIDE DEF a, b, c
  <2> QED
    BY <2>1, <2>2 DEF Named
<1> HIDE DEF a, b, c
<1>5. /\ Strings \in Seq(StringEntry) /\ Len(Strings) = Len(markers) + Len(regions)
      /\ \A i \in 1 .. Len(markers) + Len(regions) :
           /\ Strings[i].id = i
           /\ Strings[i].name = IF i <= Len(markers) THEN markers[i].name
                                ELSE regions[i - Len(markers)].name
  BY StringsIs
<1>6. \A i \in 1 .. Len(markers) + Len(regions) :
        get_string_from_buffer(Strings, i) = Strings[i].name
  <2>1. Len(Strings) \in Nat /\ \A i \in 1 .. Len(Strings) : Strings[i].id = i
    BY <1>2, <1>5
  <2> QED
    BY <1>5, <2>1, StringFound
<1>7. \A g \in GivenLabel : [at |-> g.at, name |-> g.name] = g
  BY DEF GivenLabel
<1>8. named(a) = markers
  <2>1. DOMAIN a = 1 .. Len(markers)
    BY <1>3, LenProperties
  <2>2. ASSUME NEW i \in 1 .. Len(markers)
        PROVE  [at |-> a[i].at, name |-> get_string_from_buffer(Strings, a[i].id)] = markers[i]
    <3>1. i \in 1 .. Len(markers) + Len(regions) /\ i <= Len(markers)
      BY <1>2
    <3>2. get_string_from_buffer(Strings, a[i].id) = markers[i].name /\ a[i].at = markers[i].at
      BY <1>3, <1>5, <1>6, <3>1
    <3> QED
      BY <1>2, <1>7, <3>2
  <2>3. markers = [i \in 1 .. Len(markers) |-> markers[i]]
    BY <1>2
  <2> QED
    BY <2>1, <2>2, <2>3
<1>9. named(b) = regions
  <2>1. DOMAIN b = 1 .. Len(regions)
    BY <1>3, LenProperties
  <2>2. ASSUME NEW i \in 1 .. Len(regions)
        PROVE  [at |-> b[i].at, name |-> get_string_from_buffer(Strings, b[i].id)] = regions[i]
    <3>1. PICK j \in 1 .. Len(markers) + Len(regions) :
            j = Len(markers) + i /\ ~ (j <= Len(markers)) /\ j - Len(markers) = i
      BY <1>2
    <3>2. get_string_from_buffer(Strings, j) = regions[i].name
      BY <1>5, <1>6, <3>1
    <3>3. b[i].id = j /\ b[i].at = regions[i].at
      BY <1>3, <3>1
    <3> QED
      BY <1>2, <1>7, <3>2, <3>3
  <2>3. regions = [i \in 1 .. Len(regions) |-> regions[i]]
    BY <1>2
  <2> QED
    BY <2>1, <2>2, <2>3
<1> QED
  BY <1>4, <1>8, <1>9 DEF c

(* What a file tells once its headers are written.                         *)
Tells(d, c) ==
  Described(FileInfo(d), FileMatrix(d),
            IF IsAmbix(d) THEN Named(c, c.mark) ELSE <<>>,
            IF IsAmbix(d) THEN Named(c, c.regn) ELSE <<>>)

LEMMA NamedNone == Named(NoChunks, NoChunks.mark) = <<>> /\ Named(NoChunks, NoChunks.regn) = <<>>
<1>1. NoChunks.mark = <<>> /\ NoChunks.regn = <<>>
  BY DEF NoChunks
<1> QED
  BY <1>1, UpToEmptyNone DEF Named

LEMMA WrittenIsTold ==
  ASSUME HandleInv, Documented, filemode = "WRITE", ~ startedWriting, ContractMet,
         IF pendingHeaders THEN _ambix_write_header({}) ELSE UNCHANGED <<disk, chunks>>
  PROVE  Tells(disk', chunks') = File!AsRead(Described(realinfo, matrix, markers, regions))
<1>0. /\ disk = Fresh /\ chunks = NoChunks
      /\ HasLabels => pendingHeaders
      /\ matrix # NoMatrix => /\ pendingHeaders /\ matrix \in Matrices
                              /\ is_fullset(matrix.rows)
                              /\ realinfo.fileformat = "EXTENDED"
                              /\ info.fileformat = "BASIC" => matrix.cols = realinfo.ambichannels
      /\ realinfo.fileformat = "EXTENDED" => info.fileformat # "NONE"
      /\ realinfo.fileformat = "BASIC" =>
           realinfo.extrachannels = 0 /\ is_fullset(realinfo.ambichannels)
      /\ realinfo.fileformat = "NONE" => realinfo.ambichannels = 0
  BY DEF HandleInv, SetupInv
<1>1. /\ realinfo \in InfoType /\ info \in InfoType
      /\ channels = realinfo.ambichannels + realinfo.extrachannels
      /\ realinfo.ambichannels \in Nat /\ realinfo.extrachannels \in Nat
      /\ realinfo.fileformat \in Formats /\ info.fileformat \in Formats
  BY DEF HandleInv, AudioTypeOK, Account, InfoType
<1>2. markers \in Seq(GivenLabel) /\ regions \in Seq(GivenLabel)
  BY DEF HandleInv, LabelInv
<1>3. Named(chunks', chunks'.mark) = markers /\ Named(chunks', chunks'.regn) = regions
  <2>1. CASE HasLabels
    <3>1. chunks' = WithLabels({})
      BY <1>0, <2>1 DEF _ambix_write_header
    <3> QED
      BY <1>0, <1>2, <2>1, <3>1, LabelsAreRead
  <2>2. CASE ~ HasLabels
    <3>1. markers = <<>> /\ regions = <<>>
      BY <2>2 DEF HasLabels
    <3>2. chunks' = chunks \/ chunks' = WithLabels({})
      BY DEF _ambix_write_header
    <3>3. WithLabels({}) = chunks
      BY <1>0, <2>2 DEF WithLabels, NoChunks
    <3> QED
      BY <1>0, <3>1, <3>2, <3>3, NamedNone
  <2> QED
    BY <2>1, <2>2
<1>4. disk' = [kind |-> "caf", channels |-> channels,
               uuid |-> IF realinfo.fileformat = "EXTENDED" THEN <<matrix>> ELSE <<>>]
  <2>1. CASE realinfo.fileformat = "EXTENDED"
    <3>1. matrix.rows > 0
      BY <2>1 DEF ContractMet
    <3>2. pendingHeaders
      BY <1>0, <3>1 DEF NoMatrix
    <3>3. disk' = [disk EXCEPT !.uuid = Append(@, matrix)]
      BY <2>1, <3>2 DEF _ambix_write_header, WithUuid, WritesUuid
    <3>4. Append(<<>>, matrix) = <<matrix>>
      OBVIOUS
    <3> QED
      BY <1>0, <2>1, <3>3, <3>4 DEF Fresh
  <2>2. CASE realinfo.fileformat # "EXTENDED"
    <3>1. disk' = disk
      BY <2>2 DEF _ambix_write_header, WithUuid, WritesUuid
    <3> QED
      BY <1>0, <2>2, <3>1 DEF Fresh
  <2> QED
    BY <2>1, <2>2
<1>5. IsAmbix(disk') /\ FileMatrix(disk') = UuidMatrix(disk') /\ disk'.channels = channels
  BY <1>4 DEF IsAmbix, FileMatrix
<1> DEFINE told == Described(FileInfo(disk'), FileMatrix(disk'), markers, regions)
<1>6. Tells(disk', chunks') = told
  BY <1>3, <1>5 DEF Tells
<1>7. \A c : File!is_fullset(c) = is_fullset(c)
  BY DEF File!is_fullset, is_fullset, File!order2channels, order2channels,
         File!channels2order, channels2order
<1>8. CASE realinfo.fileformat = "EXTENDED"
  <2>1. matrix.rows > 0 /\ matrix # NoMatrix
    BY <1>8 DEF ContractMet, NoMatrix
  <2>2. matrix.cols = realinfo.ambichannels
    <3>1. info.fileformat \in {"BASIC", "EXTENDED"}
      BY <1>0, <1>1, <1>8 DEF Formats
    <3> QED
      BY <1>0, <1>8, <2>1, <3>1 DEF ContractMet
  <2>3. matrix.cols > 0
    BY <1>0, <2>1, HandleAssumption DEF HandleAssumption
  <2>4. UuidMatrix(disk') = matrix
    <3>1. disk'.uuid = <<matrix>>
      BY <1>4, <1>8
    <3> QED
      BY <2>1, <2>3, <3>1, UuidOne DEF Parses
  <2>5. matrix.cols <= channels
    BY <1>1, <2>2
  <2>6. FileInfo(disk') = [fileformat |-> "EXTENDED", ambichannels |-> matrix.cols,
                           extrachannels |-> channels - matrix.cols]
    BY <1>0, <1>5, <2>1, <2>3, <2>4, <2>5 DEF FileInfo, Parses
  <2>7. FileInfo(disk') = realinfo
    <3>1. channels - matrix.cols = realinfo.extrachannels
      BY <1>1, <2>2
    <3> QED
      BY <1>1, <1>8, <2>2, <2>6, <3>1 DEF InfoType
  <2> QED
    BY <1>5, <1>6, <1>8, <2>4, <2>7 DEF File!AsRead, Described
<1>9. CASE realinfo.fileformat # "EXTENDED"
  <2>1. UuidMatrix(disk') = NoMatrix
    BY <1>4, <1>9, UuidNone
  <2>2. ~ Parses(NoMatrix)
    BY DEF Parses, NoMatrix
  <2>3. CASE realinfo.fileformat = "BASIC"
    <3>1. channels = realinfo.ambichannels
      BY <1>0, <1>1, <2>3
    <3>2. FileInfo(disk') = [fileformat |-> "BASIC", ambichannels |-> channels, extrachannels |-> 0]
      BY <1>0, <1>5, <2>1, <2>2, <2>3, <3>1 DEF FileInfo
    <3>3. FileInfo(disk') = realinfo
      BY <1>0, <1>1, <2>3, <3>1, <3>2 DEF InfoType
    <3> QED
      BY <1>6, <2>3, <3>3 DEF File!AsRead, Described
  <2>4. CASE realinfo.fileformat = "NONE"
    <3>1. channels = realinfo.extrachannels /\ realinfo.ambichannels = 0
      BY <1>0, <1>1, <2>4
    <3>2. CASE is_fullset(channels)
      <4>1. FileInfo(disk') = [fileformat |-> "BASIC", ambichannels |-> channels, extrachannels |-> 0]
        BY <1>5, <2>1, <2>2, <3>2 DEF FileInfo
      <4> QED
        BY <1>6, <1>7, <2>4, <3>1, <3>2, <4>1 DEF File!AsRead, Described
    <3>3. CASE ~ is_fullset(channels)
      <4>1. FileInfo(disk') = [fileformat |-> "NONE", ambichannels |-> 0, extrachannels |-> channels]
        BY <1>5, <2>1, <2>2, <3>3 DEF FileInfo
      <4>2. FileInfo(disk') = realinfo
        BY <1>1, <2>4, <3>1, <4>1 DEF InfoType
      <4> QED
        BY <1>6, <1>7, <2>4, <3>1, <3>3, <4>2 DEF File!AsRead, Described
    <3> QED
      BY <3>2, <3>3
  <2> QED
    BY <1>1, <1>9, <2>3, <2>4 DEF Formats
<1> QED
  BY <1>8, <1>9

LEMMA SetupInit == Init => SetupInv
BY DEF Init, SetupInv

(* Anything but headers and frames leaves the file of a setup as it is.    *)
LEMMA SetupStep ==
  MaxFaults = 0 /\ HandleInv /\ [Next]_vars => SetupInv'
<1> SUFFICES ASSUME MaxFaults = 0, HandleInv, [Next]_vars,
                    filemode' = "WRITE", ~ startedWriting'
             PROVE  SetupInv'
  BY DEF SetupInv
<1>0. AudioTypeOK /\ HeaderInv /\ Account /\ LabelInv /\ SetupInv
  BY DEF HandleInv
<1>1. CASE UNCHANGED vars
  BY <1>0, <1>1 DEF SetupInv, vars, setup, labels, flags, file, Fresh, HasLabels
<1>2. ASSUME NEW fmt \in Formats, NEW ambi \in Counts, NEW extra \in Counts,
             OpenWrite(fmt, ambi, extra)
      PROVE  SetupInv'
  <2> DEFINE onDisk == IF fmt = "BASIC" /\ ~ Writable(fmt, ambi, extra) THEN "EXTENDED" ELSE fmt
             real == [fileformat |-> onDisk, ambichannels |-> ambi, extrachannels |-> extra]
  <2>1. /\ filemode = "CLOSED" /\ UNCHANGED <<markers, regions>>
        /\ Writable(onDisk, ambi, extra) /\ realinfo' = real
        /\ channels' = ambi + extra /\ matrix' = NoMatrix
        /\ disk' = [kind |-> "caf", channels |-> ambi + extra, uuid |-> <<>>]
        /\ chunks' = NoChunks
    BY <1>2 DEF OpenWrite, labels, NoChunks
  <2>2. info'.fileformat = "EXTENDED" => onDisk = "EXTENDED"
    BY <1>2 DEF OpenWrite
  <2>3. onDisk = "EXTENDED" => info'.fileformat # "NONE"
    BY <1>2 DEF OpenWrite
  <2>4. ~ HasLabels'
    BY <1>0, <2>1 DEF LabelInv, HasLabels
  <2>5. /\ onDisk = "BASIC" => extra = 0 /\ is_fullset(ambi)
        /\ onDisk = "NONE" => ambi = 0
    BY <2>1 DEF Writable
  <2>6. disk' = Fresh'
    BY <2>1 DEF Fresh
  <2> HIDE DEF onDisk
  <2>7. /\ realinfo'.fileformat = onDisk /\ realinfo'.ambichannels = ambi
        /\ realinfo'.extrachannels = extra
    BY <2>1
  <2> QED
    BY <2>1, <2>2, <2>3, <2>4, <2>5, <2>6, <2>7 DEF SetupInv, NoChunks
<1>3. ASSUME NEW mode \in {"READ", "WRITE", "RDWR"}, NEW fmt \in Formats,
             NEW ambi \in Counts, NEW extra \in Counts,
             OpenFails(mode, fmt, ambi, extra)
      PROVE  SetupInv'
  BY <1>0, <1>3 DEF OpenFails
<1>4. ASSUME NEW want \in Formats, OpenRead(want) PROVE SetupInv'
  BY <1>4 DEF OpenRead
<1>5. ASSUME NEW l \in Labels, NEW held \in {"marker", "region"},
             AddLabel(l, held)
      PROVE  SetupInv'
  <2>1. UNCHANGED <<channels, info, realinfo, matrix, filemode, startedWriting, disk, chunks>>
    BY <1>5 DEF AddLabel, setup, flags, file
  <2>2. pendingHeaders'
    BY <1>5, <2>1 DEF AddLabel
  <2> QED
    BY <1>0, <2>1, <2>2 DEF SetupInv, Fresh
<1>6. CASE ambix_delete_markers \/ ambix_delete_regions
  <2>1. UNCHANGED <<channels, info, realinfo, matrix, filemode, flags, disk, chunks>>
    BY <1>6 DEF ambix_delete_markers, ambix_delete_regions, setup, file
  <2>2. HasLabels' => HasLabels
    BY <1>6 DEF ambix_delete_markers, ambix_delete_regions, HasLabels
  <2> QED
    BY <1>0, <2>1, <2>2 DEF SetupInv, Fresh, flags
<1>7. ASSUME NEW m \in Matrices, SetDecoder(m) \/ SetRefused(m) PROVE SetupInv'
  <2>1. CASE SetDecoder(m)
    BY <2>1 DEF SetDecoder
  <2>2. CASE SetRefused(m)
    BY <1>0, <2>2 DEF SetRefused, setup, labels, flags, file, SetupInv, Fresh, HasLabels
  <2> QED
    BY <1>7, <2>1, <2>2
<1>8. ASSUME NEW m \in Matrices, SetAdaptor(m) PROVE SetupInv'
  <2>1. /\ filemode = "WRITE" /\ ~ startedWriting
        /\ info.fileformat # "NONE" /\ is_fullset(m.rows)
        /\ info.fileformat = "BASIC" => realinfo.ambichannels = m.cols
    BY <1>8 DEF SetAdaptor, AdaptorError
  <2>2. /\ UNCHANGED <<channels, markers, regions, disk, chunks>>
        /\ pendingHeaders' /\ matrix' = m
    BY <1>8 DEF SetAdaptor, labels, file
  <2>3. /\ info'.fileformat = info.fileformat /\ realinfo'.fileformat = "EXTENDED"
        /\ realinfo'.ambichannels = realinfo.ambichannels
    <3>1. CASE info.fileformat = "BASIC"
      <4>1. /\ realinfo' = [realinfo EXCEPT !.fileformat = "EXTENDED"]
            /\ info' = [info EXCEPT !.ambichannels = m.rows]
        BY <1>8, <3>1 DEF SetAdaptor
      <4> QED
        BY <1>0, <4>1 DEF AudioTypeOK, InfoType
    <3>2. CASE info.fileformat # "BASIC"
      <4>1. UNCHANGED <<info, realinfo>>
        BY <1>8, <3>2 DEF SetAdaptor
      <4>2. info.fileformat = "EXTENDED"
        BY <1>0, <2>1, <3>2 DEF AudioTypeOK, InfoType, Formats
      <4> QED
        BY <1>0, <2>1, <4>1, <4>2 DEF SetupInv
    <3> QED
      BY <3>1, <3>2
  <2>4. disk' = Fresh' /\ chunks' = NoChunks
    BY <1>0, <2>1, <2>2 DEF SetupInv, Fresh
  <2> QED
    BY <2>1, <2>2, <2>3, <2>4 DEF SetupInv, NoChunks
<1>9. ASSUME NEW k \in 0 .. MaxFrames, ambix_seek(k) PROVE SetupInv'
  BY <1>0, <1>9 DEF ambix_seek, setup, labels, flags, file, SetupInv, Fresh, HasLabels
<1>10. ASSUME NEW n \in Blocks, NEW w \in ItemSizes, ambix_readf(n, w)
       PROVE  SetupInv'
  BY <1>0, <1>10 DEF ambix_readf, setup, labels, flags, file, SetupInv, Fresh, HasLabels
<1>11. ASSUME NEW n \in Blocks, NEW w \in ItemSizes, ambix_writef(n, w, {})
       PROVE  SetupInv'
  <2>1. ret' = "INVALID_DIMENSION" /\ filemode = "WRITE"
    <3>1. ret' # "SUCCESS" /\ ret' = CheckError({}) /\ filemode' = filemode
      BY <1>11 DEF ambix_writef
    <3>2. filemode = "WRITE"
      BY <3>1
    <3> QED
      BY <3>1, <3>2 DEF CheckError, HeaderError
  <2>2. /\ UNCHANGED <<channels, info, realinfo, matrix, filemode, disk, chunks>>
        /\ UNCHANGED <<markers, regions, startedWriting, pendingHeaders>>
    BY <1>11, <2>1 DEF ambix_writef, setup, labels, flags
  <2> QED
    BY <1>0, <2>2 DEF SetupInv, Fresh, HasLabels
<1>12. ASSUME NEW refused, Close(refused) PROVE SetupInv'
  BY <1>12 DEF Close
<1>13. \A refused \in Refusable : refused = {}
  BY <1>0, RefusableIs DEF LabelInv
<1> QED
  BY <1>1, <1>2, <1>3, <1>4, <1>5, <1>6, <1>7, <1>8, <1>9, <1>10, <1>11, <1>12, <1>13
  DEF Next, Open, Configure, Transfer, ambix_add_marker, ambix_add_region

-----------------------------------------------------------------------------
(* The file                                                                *)

LEMMA StandsForFile ==
  ASSUME AudioTypeOK, filemode # "CLOSED"
  PROVE  StoodFor # Unwritten
<1>1. realinfo.fileformat # "unwritten"
  BY DEF AudioTypeOK, InfoType, Formats
<1>2. StoodFor.real.fileformat = realinfo.fileformat
  BY DEF StoodFor, Described
<1>3. Unwritten.real.fileformat = "unwritten"
  BY DEF Unwritten, Described, NoInfo
<1> QED
  BY <1>1, <1>2, <1>3

LEMMA FileInit == Init => File!Init
<1> SUFFICES ASSUME Init PROVE File!Init
  OBVIOUS
<1>1. Phase = "closed" /\ StoodFor = Unwritten
  BY DEF Init, Phase, StoodFor
<1>2. FileInfo(disk).fileformat # "unwritten"
  BY AudioTypeInit, FileInfoChannels DEF AudioTypeOK, InfoType, Formats
<1>3. Told.real.fileformat = FileInfo(disk).fileformat
  BY <1>1 DEF Told, Described
<1>4. Unwritten.real.fileformat = "unwritten"
  BY DEF Unwritten, Described, NoInfo
<1> QED
  BY <1>1, <1>2, <1>3, <1>4 DEF File!Init

(* What becomes of an open handle without effect on its file.              *)
LEMMA FileUntouched ==
  ASSUME AudioTypeOK, AudioTypeOK', filemode # "CLOSED",
         UNCHANGED <<filemode, realinfo, matrix, disk, chunks>>,
         filemode = "WRITE" => startedWriting' = startedWriting
  PROVE  [File!Next]_(File!vars)
<1>1. Phase' = Phase
  BY DEF Phase
<1>2. Told' = Told
  BY <1>1 DEF Told
<1>3. filemode \in {"READ", "WRITE"}
  BY DEF AudioTypeOK
<1>4. CASE Phase = "setup"
  <2>1. StoodFor' # Unwritten
    <3>1. (AudioTypeOK /\ filemode # "CLOSED" => StoodFor # Unwritten)'
      BY StandsForFile, PTL
    <3> QED
      BY <3>1
  <2>2. StoodFor'.real = StoodFor.real
    BY DEF StoodFor, Described
  <2>3. File!Configure
    BY <1>1, <1>2, <1>4, <2>1, <2>2 DEF File!Configure
  <2> QED
    BY <2>3 DEF File!Next
<1>5. CASE Phase # "setup"
  <2>1. Phase \in {"streaming", "reading"}
    BY <1>3, <1>5 DEF Phase
  <2>2. StoodFor'.real = StoodFor.real /\ StoodFor'.matrix = StoodFor.matrix
    BY DEF StoodFor, Described
  <2>3. File!Relabel
    BY <1>1, <1>2, <2>1, <2>2 DEF File!Relabel, File!SameAudio
  <2> QED
    BY <2>3 DEF File!Next
<1> QED
  BY <1>4, <1>5

LEMMA OpensFile ==
  ASSUME HandleInv, HandleInv',
         \/ \E fmt \in Formats, ambi, extra \in Counts : OpenWrite(fmt, ambi, extra)
         \/ \E want \in Formats : OpenRead(want)
  PROVE  File!Next
<1>1. Phase = "closed" /\ ~ startedWriting
  <2>1. ASSUME NEW fmt \in Formats, NEW ambi \in Counts, NEW extra \in Counts,
               OpenWrite(fmt, ambi, extra)
        PROVE  filemode = "CLOSED"
    BY <2>1 DEF OpenWrite
  <2>2. \A want \in Formats : OpenRead(want) => filemode = "CLOSED"
    BY DEF OpenRead
  <2>3. filemode = "CLOSED"
    BY <2>1, <2>2
  <2> QED
    BY <2>3 DEF Phase, HandleInv, HeaderInv
<1>2. ASSUME NEW fmt \in Formats, NEW ambi \in Counts, NEW extra \in Counts,
             OpenWrite(fmt, ambi, extra)
      PROVE  File!Next
  <2>1. filemode' = "WRITE" /\ ~ startedWriting'
    BY <1>1, <1>2 DEF OpenWrite, flags
  <2>2. Phase' = "setup" /\ Told' = Unwritten
    BY <2>1 DEF Phase, Told
  <2>3. StoodFor' # Unwritten
    <3>1. (AudioTypeOK /\ filemode # "CLOSED" => StoodFor # Unwritten)'
      BY StandsForFile, PTL
    <3> QED
      BY <2>1, <3>1 DEF HandleInv
  <2> QED
    BY <1>1, <2>2, <2>3 DEF File!Next, File!Create
<1>3. ASSUME NEW want \in Formats, OpenRead(want)
      PROVE  File!Next
  <2>1. /\ filemode' = "READ" /\ UNCHANGED <<disk, chunks>>
        /\ realinfo' = FileInfo(disk)
        /\ markers' = IF IsAmbix(disk) THEN Named(chunks, chunks.mark) ELSE <<>>
        /\ regions' = IF IsAmbix(disk) THEN Named(chunks, chunks.regn) ELSE <<>>
        /\ FileInfo(disk).fileformat # "BASIC" => matrix' = FileMatrix(disk)
    BY <1>3 DEF OpenRead, file
  <2>2. Phase' = "reading"
    BY <2>1 DEF Phase
  <2>3. Told' = Told
    BY <1>1, <2>1, <2>2 DEF Told
  <2>4. StoodFor' = Described(realinfo', matrix', markers', regions')
    BY <2>1 DEF StoodFor
  <2>5. Told = Described(FileInfo(disk), FileMatrix(disk), markers', regions')
    BY <1>1, <2>1 DEF Told
  <2>6. FileInfo(disk).fileformat = "EXTENDED" => matrix' = FileMatrix(disk)
    BY <2>1
  <2>7. StoodFor' = Told
    BY <2>1, <2>4, <2>5, <2>6 DEF Described
  <2> QED
    BY <1>1, <2>2, <2>3, <2>7 DEF File!Next, File!OpenForReading
<1> QED
  BY <1>2, <1>3

LEMMA WritesFile ==
  ASSUME Documented, HandleInv, HandleInv',
         NEW n \in Blocks, NEW w \in ItemSizes, ambix_writef(n, w, {})
  PROVE  [File!Next]_(File!vars)
<1>0. /\ AudioTypeOK /\ AudioTypeOK' /\ HeaderInv
  BY DEF HandleInv
<1>1. /\ filemode # "CLOSED" /\ ContractMet
      /\ UNCHANGED <<filemode, realinfo, matrix, markers, regions>>
      /\ ret' = CheckError({})
  BY DEF ambix_writef, setup, labels
<1>2. CASE filemode = "READ"
  <2>1. UNCHANGED <<disk, chunks>>
    BY <1>2 DEF ambix_writef, _ambix_write_header
  <2> QED
    BY <1>0, <1>1, <1>2, <2>1, FileUntouched
<1>3. CASE filemode = "WRITE" /\ (startedWriting \/ ret' # "SUCCESS")
  <2>1. ret' # "SUCCESS" => ret' = "INVALID_DIMENSION"
    BY <1>1, <1>3 DEF CheckError, HeaderError
  <2>2. UNCHANGED <<disk, chunks>>
    BY <1>0, <1>3, <2>1 DEF ambix_writef, HeaderInv
  <2>3. startedWriting' = startedWriting
    BY <1>0, <1>3 DEF ambix_writef, flags, HeaderInv
  <2> QED
    BY <1>0, <1>1, <2>2, <2>3, FileUntouched
<1>4. CASE filemode = "WRITE" /\ ~ startedWriting /\ ret' = "SUCCESS"
  <2>1. IF pendingHeaders THEN _ambix_write_header({}) ELSE UNCHANGED <<disk, chunks>>
    BY <1>4 DEF ambix_writef
  <2>2. Tells(disk', chunks') = File!AsRead(Described(realinfo, matrix, markers, regions))
    BY <1>1, <1>4, <2>1, WrittenIsTold
  <2>3. startedWriting' = TRUE
    BY <1>4 DEF ambix_writef
  <2>4. Phase = "setup" /\ Phase' = "streaming"
    BY <1>1, <1>4, <2>3 DEF Phase
  <2>5. Told' = Tells(disk', chunks')
    BY <2>4 DEF Told, Tells
  <2>6. StoodFor = Described(realinfo, matrix, markers, regions) /\ StoodFor' = StoodFor
    BY <1>1 DEF StoodFor
  <2> QED
    BY <2>2, <2>4, <2>5, <2>6 DEF File!Next, File!Stream
<1> QED
  BY <1>0, <1>1, <1>2, <1>3, <1>4 DEF AudioTypeOK

LEMMA ClosesFile ==
  ASSUME Documented, HandleInv, Close({})
  PROVE  File!Next
<1>0. AudioTypeOK /\ HeaderInv
  BY DEF HandleInv
<1>1. /\ filemode # "CLOSED" /\ ContractMet /\ filemode' = "CLOSED"
      /\ IF pendingHeaders THEN _ambix_write_header({}) ELSE UNCHANGED <<disk, chunks>>
  BY DEF Close
<1>2. Phase # "closed" /\ Phase' = "closed" /\ StoodFor' = Unwritten
  BY <1>0, <1>1 DEF Phase, StoodFor, AudioTypeOK
<1>3. Told' = Tells(disk', chunks')
  BY <1>2 DEF Told, Tells
<1>4. CASE Phase = "setup"
  <2>1. filemode = "WRITE" /\ ~ startedWriting
    BY <1>4 DEF Phase
  <2>2. Told' = File!AsRead(StoodFor)
    BY <1>1, <1>3, <2>1, WrittenIsTold DEF StoodFor
  <2> QED
    BY <1>2, <1>4, <2>2 DEF File!Next, File!CloseFile
<1>5. CASE Phase # "setup"
  <2>1. UNCHANGED <<disk, chunks>>
    <3>1. CASE filemode = "READ"
      BY <1>1, <3>1 DEF _ambix_write_header
    <3>2. CASE filemode = "WRITE"
      <4>1. startedWriting
        BY <1>5, <3>2 DEF Phase
      <4> QED
        BY <1>0, <1>1, <3>2, <4>1 DEF HeaderInv
    <3> QED
      BY <1>0, <1>1, <3>1, <3>2 DEF AudioTypeOK
  <2>2. Told = Tells(disk, chunks)
    BY <1>5 DEF Told, Tells
  <2>3. Told' = Told
    BY <1>3, <2>1, <2>2
  <2> QED
    BY <1>2, <1>5, <2>3 DEF File!Next, File!CloseFile
<1> QED
  BY <1>4, <1>5

LEMMA FileStep ==
  Documented /\ MaxFaults = 0 /\ HandleInv /\ HandleInv' /\ [Next]_vars
    => [File!Next]_(File!vars)
<1> SUFFICES ASSUME Documented, MaxFaults = 0, HandleInv, HandleInv', [Next]_vars
             PROVE  [File!Next]_(File!vars)
  OBVIOUS
<1>0. AudioTypeOK /\ AudioTypeOK' /\ LabelInv
  BY DEF HandleInv
<1>a. ASSUME UNCHANGED <<filemode, setup, labels, flags, file>>
      PROVE  [File!Next]_(File!vars)
  BY <1>a DEF setup, labels, flags, file, File!vars, Phase, StoodFor, Told
<1>1. CASE UNCHANGED vars
  BY <1>1, <1>a DEF vars
<1>2. CASE Open \/ \E want \in Formats : OpenRead(want)
  <2>1. ASSUME NEW mode \in {"READ", "WRITE", "RDWR"}, NEW fmt \in Formats,
               NEW ambi \in Counts, NEW extra \in Counts,
               OpenFails(mode, fmt, ambi, extra)
        PROVE  [File!Next]_(File!vars)
    BY <1>a, <2>1 DEF OpenFails
  <2> QED
    BY <1>2, <2>1, OpensFile DEF Open
<1>3. ASSUME NEW l \in Labels, NEW held \in {"marker", "region"},
             AddLabel(l, held)
      PROVE  [File!Next]_(File!vars)
  <2>1. /\ filemode # "CLOSED" /\ startedWriting' = startedWriting
        /\ UNCHANGED <<filemode, realinfo, matrix, disk, chunks>>
    BY <1>3 DEF AddLabel, setup, flags, file
  <2> QED
    BY <1>0, <2>1, FileUntouched
<1>4. CASE ambix_delete_markers \/ ambix_delete_regions
  <2>1. /\ filemode # "CLOSED" /\ startedWriting' = startedWriting
        /\ UNCHANGED <<filemode, realinfo, matrix, disk, chunks>>
    BY <1>4 DEF ambix_delete_markers, ambix_delete_regions, setup, flags, file
  <2> QED
    BY <1>0, <2>1, FileUntouched
<1>5. ASSUME NEW m \in Matrices, SetDecoder(m) \/ SetRefused(m) PROVE [File!Next]_(File!vars)
  <2>1. CASE SetDecoder(m)
    <3>1. /\ filemode # "CLOSED" /\ startedWriting' = startedWriting
          /\ UNCHANGED <<filemode, realinfo, matrix, disk, chunks>>
      BY <2>1 DEF SetDecoder, flags, file
    <3> QED
      BY <1>0, <3>1, FileUntouched
  <2>2. CASE SetRefused(m)
    BY <1>a, <2>2 DEF SetRefused
  <2> QED
    BY <1>5, <2>1, <2>2
<1>6. ASSUME NEW m \in Matrices, SetAdaptor(m) PROVE [File!Next]_(File!vars)
  <2>1. /\ filemode = "WRITE" /\ ~ startedWriting
        /\ UNCHANGED <<filemode, startedWriting>>
    BY <1>6 DEF SetAdaptor, AdaptorError
  <2>2. Phase = "setup" /\ Phase' = "setup"
    BY <2>1 DEF Phase
  <2>3. /\ StoodFor'.real.ambichannels = StoodFor.real.ambichannels
        /\ StoodFor'.real.extrachannels = StoodFor.real.extrachannels
    <3>1. /\ realinfo'.ambichannels = realinfo.ambichannels
          /\ realinfo'.extrachannels = realinfo.extrachannels
      BY <1>0, <1>6 DEF SetAdaptor, AudioTypeOK, InfoType
    <3> QED
      BY <2>1, <3>1 DEF StoodFor, Described
  <2>4. StoodFor' # Unwritten
    <3>1. (AudioTypeOK /\ filemode # "CLOSED" => StoodFor # Unwritten)'
      BY StandsForFile, PTL
    <3> QED
      BY <1>0, <2>1, <3>1
  <2>5. Told' = Told
    BY <2>2 DEF Told
  <2> QED
    BY <2>2, <2>3, <2>4, <2>5 DEF File!Next, File!Configure
<1>7. ASSUME NEW k \in 0 .. MaxFrames, ambix_seek(k) PROVE [File!Next]_(File!vars)
  BY <1>a, <1>7 DEF ambix_seek
<1>8. ASSUME NEW n \in Blocks, NEW w \in ItemSizes, ambix_readf(n, w)
      PROVE  [File!Next]_(File!vars)
  BY <1>a, <1>8 DEF ambix_readf
<1>9. \A refused \in Refusable : refused = {}
  BY <1>0, RefusableIs DEF LabelInv
<1>10. ASSUME NEW refused \in Refusable, Close(refused) PROVE [File!Next]_(File!vars)
  BY <1>9, <1>10, ClosesFile
<1>11. ASSUME NEW n \in Blocks, NEW w \in ItemSizes, NEW refused \in Refusable,
              ambix_writef(n, w, refused)
       PROVE  [File!Next]_(File!vars)
  BY <1>9, <1>11, WritesFile
<1> QED
  BY <1>1, <1>2, <1>3, <1>4, <1>5, <1>6, <1>7, <1>8, <1>10, <1>11
  DEF Next, Configure, Transfer, ambix_add_marker, ambix_add_region

(* What a reader is told is what the handle stood for when its first frame *)
(* was written or it was closed: kind, channels, matrix, and every marker  *)
(* and region with its name, whatever was set, added, deleted and refused  *)
(* before, for all matrices and files; provided that the caller sets the   *)
(* matrix first, as the comment in ambix_open() demands, and that the      *)
(* backend takes the chunks.                                               *)
THEOREM FileIsAsMeant ==
  ASSUME Documented, MaxFaults = 0
  PROVE  Spec => ImplementsFile
<1>1. Init => HandleInv
  BY AudioTypeInit, HeaderInvInit, AccountInit, LabelInit, SetupInit DEF HandleInv
<1>2. HandleInv /\ [Next]_vars => HandleInv'
  BY AudioTypeStep, HeaderInvStep, AccountStep, LabelStep, SetupStep DEF HandleInv
<1>3. HandleInv /\ HandleInv' /\ [Next]_vars => [File!Next]_(File!vars)
  BY FileStep
<1> QED
  BY <1>1, <1>2, <1>3, FileInit, PTL DEF Spec, ImplementsFile, File!Spec
=============================================================================
