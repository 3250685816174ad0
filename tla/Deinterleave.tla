---------------------------- MODULE Deinterleave -----------------------------
(***************************************************************************)
(* ambix-deinterleave (utils/ambix-deinterleave.c): an ambix file becomes  *)
(* one sound file for each channel of the full set its matrix restores,    *)
(* and one for each extra channel.  A step is a function of the program,   *)
(* of which ai_copy() calls one for every block.                           *)
(***************************************************************************)
EXTENDS Matrices

CONSTANTS
  Blocksizes     \* frames a block may have (-b)

VARIABLES
  infile,      \* the file: kind, channels, matrix and frames
  blocksize,
  step,        \* the function that is next
  inhandle,    \* whether the file is open
  info,        \* how its channels are divided
  matrix,
  left,        \* frames still to copy
  opened,      \* the outputs that are open
  outs,        \* the samples of each output
  exit         \* what main() returns; -1: it has not yet

vars == <<infile, blocksize, step, inhandle, info, matrix, left, opened, outs, exit>>

NoInfo == [ambichannels |-> 0, extrachannels |-> 0]

Init ==
  /\ blocksize \in Blocksizes
  /\ step = "open input"
  /\ inhandle = FALSE /\ info = NoInfo /\ matrix = NoMatrix /\ left = 0
  /\ opened = {} /\ outs = <<>> /\ exit = -1

(* ai_close(): nothing is left open.                                       *)
Closes(code) ==
  /\ inhandle' = FALSE /\ opened' = {} /\ matrix' = NoMatrix
  /\ step' = "closed" /\ exit' = code

Fails == Closes(0)

-----------------------------------------------------------------------------
(* ambix_open() of a file that is to be shown as EXTENDED.                 *)

(* A uuid chunk without rows or columns is not taken for one.              *)
Parses(m) == m.rows > 0 /\ m.cols > 0
Restores(m, channels) == Parses(m) /\ m.cols <= channels /\ is_fullset(m.rows)

AdaptorOf(file) ==
  CASE file.kind = "amb" /\ file.channels > 1 -> fuma2ambix(file.channels)
    [] file.kind = "caf" /\ Restores(file.matrix, file.channels) -> file.matrix
    [] file.kind = "caf" /\ ~ Parses(file.matrix) /\ is_fullset(file.channels) ->
         Identity(file.channels, file.channels)
    [] OTHER -> NoMatrix

InfoOf(file) == [ambichannels |-> AdaptorOf(file).cols,
                 extrachannels |-> file.channels - AdaptorOf(file).cols]

ai_open_input ==
  /\ step = "open input"
  /\ IF infile.kind = "missing" \/ infile.channels = 0
     THEN Fails /\ UNCHANGED info
     ELSE /\ inhandle' = TRUE
          /\ info' = InfoOf(infile)
          /\ matrix' = IF InfoOf(infile).ambichannels > 0 THEN AdaptorOf(infile)
                       ELSE NoMatrix
          /\ step' = "open output"
          /\ UNCHANGED <<opened, exit>>
  /\ UNCHANGED <<infile, blocksize, left, outs>>

-----------------------------------------------------------------------------
NumOuts == matrix.rows + info.extrachannels

(* Outputs are created one by one, until one cannot be.                    *)
ai_open_output(created) ==
  /\ step = "open output"
  /\ created <= NumOuts
  /\ outs' = [c \in 1 .. created |-> <<>>]
  /\ IF created < NumOuts
     THEN Fails /\ UNCHANGED left
     ELSE /\ opened' = 1 .. created
          /\ left' = Len(infile.frames)
          /\ step' = "copy"
          /\ UNCHANGED <<inhandle, matrix, exit>>
  /\ UNCHANGED <<infile, blocksize, info>>

-----------------------------------------------------------------------------
(* ai_copy() and ai_copy_block()                                           *)

BlockFrames(frames) == IF frames > blocksize THEN blocksize ELSE frames

(* ambix_readf_float32() takes frames apart.                               *)
Split(frames, from, channels) ==
  [k \in 0 .. frames * channels - 1 |->
     infile.frames[Len(infile.frames) - left + 1 + k \div channels]
       [from + (k % channels)]]

RawData(frames) == Split(frames, 0, info.ambichannels)
FromFirst(frames) == Split(frames, 0, info.extrachannels)   \* variant
ExtraData(frames) == Split(frames, info.ambichannels, info.extrachannels)
Cooked(frames) == multiply_float32(matrix, RawData(frames), frames)

(* What a channel of a deinterleaved buffer is, as its file takes it.      *)
Channel(buffer, c, frames) == [f \in 1 .. frames |-> buffer[c * frames + f - 1]]

(* What is written to each output.                                         *)
Block(frames) ==
  LET ambi == deinterleaver(Cooked(frames), frames, matrix.rows)
      extra == deinterleaver(ExtraData(frames), frames, info.extrachannels)
  IN [c \in 1 .. NumOuts |->
        IF c <= matrix.rows THEN Channel(ambi, c - 1, frames)
        ELSE Channel(extra, c - 1 - matrix.rows, frames)]

(* One block, which reaches so many of the outputs (of the one that fails, *)
(* what it may have taken is left out).                                    *)
ai_copy_block(served) ==
  /\ step = "copy"
  /\ served <= NumOuts
  /\ LET frames == BlockFrames(left)
         block == Block(frames)
         full == served = NumOuts
     IN /\ outs' = [c \in DOMAIN outs |-> IF c <= served THEN outs[c] \o block[c]
                                          ELSE outs[c]]
        /\ left' = IF full THEN left - frames ELSE left
        /\ CASE ~ full -> Fails
             [] full /\ left <= blocksize -> Closes(1)
             [] OTHER -> UNCHANGED <<step, inhandle, matrix, opened, exit>>
  /\ UNCHANGED <<infile, blocksize, info>>

(* The file cannot be read any further.                                    *)
ReadFails ==
  /\ step = "copy" /\ left > 0
  /\ Fails
  /\ UNCHANGED <<infile, blocksize, info, left, outs>>

Next ==
  \/ ai_open_input
  \/ \E created \in 0 .. NumOuts : ai_open_output(created)
  \/ \E served \in 0 .. NumOuts : ai_copy_block(served)
  \/ ReadFails
=============================================================================
