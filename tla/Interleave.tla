----------------------------- MODULE Interleave ------------------------------
(***************************************************************************)
(* ambix-interleave (utils/ambix-interleave.c): the channels of several    *)
(* sound files, one after the other, become an ambix file.  A step is a    *)
(* function of the program, of which ai_copy() calls one for every block.  *)
(*                                                                         *)
(* A sound file announces frames, of which fewer may be there to be read,  *)
(* and every sample in it differs from all others.                         *)
(***************************************************************************)
EXTENDS Matrices

CONSTANTS
  Sounds,        \* the sound files there are
  MaxIns,        \* bound: files on a command line
  Orders,        \* arguments of -O; -1: not given
  MatrixFiles,   \* arguments of -X that are matrix files
  Blocksizes     \* frames a block may have (-b)

Types == {"none", "fuma", "sid", "n3d", "n3d|sid", "unknown"}

Sound == [kind : {"wav", "amb", "missing"}, channels : Nat, frames : Nat, kept : Nat]

(* A matrix file is a sound file: it has a channel, but may have no frames. *)
ASSUME InterleaveAssumption ==
  /\ Sounds \subseteq Sound
  /\ \A s \in Sounds : s.kept <= s.frames
  /\ \A s \in Sounds : s.kind = "missing" => s.channels = 0 /\ s.frames = 0
  /\ MaxIns \in Nat
  /\ Orders \subseteq Nat \cup {-1} /\ Orders # {}
  /\ \A m \in MatrixFiles : m.rows \in Nat \ {0} /\ m.cols \in Nat
  /\ Blocksizes \subseteq Nat \ {0} /\ Blocksizes # {}

VARIABLES
  args,        \* the command line
  step,        \* the function that is next
  opened,      \* the inputs that are open
  info,        \* what the output is to be
  matrix,
  left,        \* frames still to copy
  outhandle,   \* whether the output is open
  outfile,     \* the ambix file
  exit         \* what main() returns; -1: it has not yet

vars == <<args, step, opened, info, matrix, left, outhandle, outfile, exit>>

(* channels: by -O, or 0; matrix and type: by -X.                          *)
Args == [ins : UNION {[1 .. n -> Sounds] : n \in 0 .. MaxIns}, order : Orders,
         matrix : {NoMatrix} \cup MatrixFiles, type : Types,
         blocksize : Blocksizes, output : BOOLEAN]

NoInfo == [fileformat |-> "NONE", ambichannels |-> 0, extrachannels |-> 0, frames |-> 0]
NoFile == [kind |-> "missing", channels |-> 0, matrix |-> NoMatrix, frames |-> <<>>]

Init ==
  /\ args \in Args
  /\ step = "cmdline"
  /\ opened = {} /\ info = NoInfo /\ matrix = NoMatrix /\ left = 0
  /\ outhandle = FALSE /\ outfile = NoFile /\ exit = -1

(* ai_close(): nothing is left open.                                       *)
Closes(code) ==
  /\ opened' = {} /\ outhandle' = FALSE /\ matrix' = NoMatrix
  /\ step' = "closed" /\ exit' = code

(* A failure after the command line: ambix_interleave() returns whether    *)
(* there is a result, and that is what the program exits with.             *)
Fails == Closes(0)

-----------------------------------------------------------------------------
Given(order) == IF order < 0 THEN 0 ELSE order2channels(order)

(* What ai_cmdline() exits with; 0 when it finds no fault.                 *)
Fault(a) ==
  CASE a.type = "unknown" -> 66
    [] a.type # "none" /\ a.matrix # NoMatrix -> 64
    [] a.ins = <<>> -> 66
    [] ~ a.output -> 73
    [] Given(a.order) > 0 /\ a.matrix # NoMatrix
         /\ Given(a.order) # a.matrix.rows -> 65
    [] OTHER -> 0

ai_cmdline ==
  /\ step = "cmdline"
  /\ IF Fault(args) # 0 THEN Closes(Fault(args))
     ELSE /\ step' = "open input" /\ matrix' = args.matrix
          /\ UNCHANGED <<opened, outhandle, exit>>
  /\ UNCHANGED <<args, info, left, outfile>>

-----------------------------------------------------------------------------
(* ai_open_input()                                                         *)

ins == args.ins
Found == {i \in DOMAIN ins : ins[i].kind # "missing"}
Channels == MapThenSumSet(LAMBDA i : ins[i].channels, DOMAIN ins)

(* The shortest input gives the length.  A length of 0 counts as none yet, *)
(* whether it comes from an empty file or one that cannot be opened.       *)
Frames == FoldLeft(LAMBDA frames, s : IF frames = 0 \/ frames > s.frames
                                      THEN s.frames ELSE frames, 0, ins)

SingleAmb == Len(ins) = 1 /\ ins[1].kind = "amb"

(* ai_calc_matrix() of a square that is filled with one of the predefined. *)
Norm(type, n) ==
  IF type \in {"n3d", "n3d|sid"}
  THEN IF channels2order(n) < 0 THEN NoMatrix ELSE diag(n3d2sn3d(n), n)
  ELSE Identity(n, n)
Rout(type, n) ==
  IF type \in {"sid", "n3d|sid"}
  THEN IF channels2order(n) < 0 THEN NoMatrix ELSE router(sid2acn(n), n)
  ELSE Identity(n, n)
Predefined(type, n) ==
  IF type = "fuma" THEN fuma2ambix(n) ELSE multiply(Rout(type, n), Norm(type, n))

(* The adaptor matrix: given, from an .amb file, or of a predefined type.  *)
Adaptor ==
  CASE args.type # "none" -> Predefined(args.type, Channels)
    [] args.type = "none" /\ SingleAmb -> fuma2ambix(Channels)
    [] OTHER -> matrix

Format(format, ambi, extra) ==
  [fileformat |-> format, ambichannels |-> ambi, extrachannels |-> extra,
   frames |-> Frames]

(* Why inputs are refused.                                                 *)
MatrixClash == SingleAmb /\ (matrix # NoMatrix \/ args.type # "none")
NoPredefined == args.type # "none" /\ Adaptor = NoMatrix
TooFewForMatrix == Adaptor # NoMatrix /\ Channels < Adaptor.cols
TooFewForOrder == Adaptor = NoMatrix /\ Channels < Given(args.order)
NoFullSet == Adaptor = NoMatrix /\ Given(args.order) = 0 /\ ~ is_fullset(Channels)
NoOutput == Channels < 1

Unfit ==             \* variant: any matrix will do
  MatrixClash \/ NoPredefined \/ TooFewForOrder \/ NoFullSet \/ NoOutput

Refused ==
  MatrixClash \/ NoPredefined \/ TooFewForMatrix \/ TooFewForOrder \/ NoFullSet
    \/ NoOutput

ai_open_input ==
  /\ step = "open input"
  /\ IF Refused
     THEN Fails /\ UNCHANGED info
     ELSE /\ opened' = Found
          /\ LET order == Given(args.order)
                 extended == Adaptor # NoMatrix
             IN /\ info' =
                     CASE extended -> Format("EXTENDED", Adaptor.cols, Channels - Adaptor.cols)
                       [] ~ extended /\ order > 0 /\ order < Channels ->
                            Format("EXTENDED", order, Channels - order)
                       [] OTHER -> Format("BASIC", Channels, 0)
                /\ matrix' = IF ~ extended /\ order > 0 /\ order < Channels
                             THEN Identity(order, order) ELSE Adaptor
          /\ step' = "open output"
          /\ UNCHANGED <<outhandle, exit>>
  /\ UNCHANGED <<args, left, outfile>>

-----------------------------------------------------------------------------
(* ai_open_output() does not check what ambix_open() returns: without a    *)
(* handle, the next call of the library crashes.                           *)
Crashes == step' = "crashed" /\ UNCHANGED <<opened, outhandle, matrix, exit>>

Extended == info.fileformat = "EXTENDED"

ai_open_output(ok) ==
  /\ step = "open output"
  /\ left' = info.frames
  /\ outfile' = IF ~ ok THEN outfile
                ELSE [kind |-> "caf", frames |-> <<>>,
                      channels |-> info.ambichannels + info.extrachannels,
                      matrix |-> IF Extended /\ is_fullset(matrix.rows)
                                 THEN matrix ELSE NoMatrix]
  /\ CASE Extended /\ ~ ok -> Crashes
       [] Extended /\ ok /\ ~ is_fullset(matrix.rows) -> Fails
       [] OTHER -> /\ step' = "copy" /\ outhandle' = ok
                   /\ UNCHANGED <<opened, matrix, exit>>
  /\ UNCHANGED <<args, info>>

-----------------------------------------------------------------------------
(* ai_copy() and ai_copy_block()                                           *)

sample(i, c, f) == 100 * i + 10 * c + f

Done == info.frames - left

(* What reading the next frames of an input puts into a buffer.            *)
Read(i, frames) ==
  [k \in 0 .. frames * ins[i].channels - 1 |->
     sample(i, k % ins[i].channels, Done + k \div ins[i].channels)]
Short(frames) == \E i \in opened : ins[i].kept < Done + frames

(* The inputs one after the other, each channel in one piece.              *)
Deinterleaved(frames) ==
  FoldLeft(LAMBDA data, i :
             IF i \notin opened THEN data
             ELSE LET offset == Cardinality(DOMAIN data)
                      more == deinterleaver(Read(i, frames), frames, ins[i].channels)
                  IN [k \in 0 .. offset + frames * ins[i].channels - 1 |->
                        IF k < offset THEN data[k] ELSE more[k - offset]],
           [k \in {} |-> 0], [i \in DOMAIN ins |-> i])

(* ambix_writef_float32() puts the two parts of a frame together.          *)
Merged(ambi, extra, frames) ==
  [f \in 1 .. frames |->
     [c \in 0 .. info.ambichannels + info.extrachannels - 1 |->
        IF c < info.ambichannels THEN ambi[(f - 1) * info.ambichannels + c]
        ELSE extra[(f - 1) * info.extrachannels + c - info.ambichannels]]]

FromChannel(frames) ==   \* variant: extra channels start after so many samples
  LET data == Deinterleaved(frames)
  IN Merged(interleaver(From(data, 0, frames * info.ambichannels), frames,
                        info.ambichannels),
            interleaver(From(data, info.ambichannels, frames * info.extrachannels),
                        frames, info.extrachannels), frames)

Block(frames) ==
  LET data == Deinterleaved(frames)
      first == frames * info.ambichannels
      rest == frames * info.extrachannels
  IN Merged(interleaver(From(data, 0, first), frames, info.ambichannels),
            interleaver(From(data, first, rest), frames, info.extrachannels), frames)

Whole(frames) == frames        \* variant: all in one block

(* The last block is what remains, a whole one included.                   *)
BlockFrames(frames) == IF frames > args.blocksize THEN args.blocksize ELSE frames

(* A matrix without columns is accepted, but has no data that could go into*)
(* the header: writing that crashes, before the first frame or at the end, *)
(* and the file is none that could be opened.                              *)
Unwritable == Extended /\ info.ambichannels = 0

(* One block; written of its frames reach the file.                        *)
ai_copy_block(written) ==
  /\ step = "copy"
  /\ LET frames == BlockFrames(left)
         full == written = frames
     IN /\ written <= frames
        /\ IF Short(frames) \/ ~ outhandle \/ Unwritable
           THEN /\ full
                /\ IF Short(frames) /\ ~ Unwritable
                   THEN Fails /\ UNCHANGED outfile
                   ELSE Crashes /\ outfile' = NoFile
                /\ UNCHANGED left
           ELSE /\ outfile' = [outfile EXCEPT !.frames =
                                 @ \o SubSeq(Block(frames), 1, written)]
                /\ left' = IF full THEN left - frames ELSE left
                /\ CASE ~ full -> Fails
                     [] full /\ left <= args.blocksize -> Closes(1)
                     [] OTHER -> UNCHANGED <<step, opened, outhandle, matrix, exit>>
  /\ UNCHANGED <<args, info>>

Next ==
  \/ ai_cmdline
  \/ ai_open_input
  \/ \E ok \in BOOLEAN : ai_open_output(ok)
  \/ \E written \in 0 .. args.blocksize : ai_copy_block(written)
=============================================================================
