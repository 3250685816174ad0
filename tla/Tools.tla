-------------------------------- MODULE Tools --------------------------------
(***************************************************************************)
(* ambix-interleave makes a file, ambix-deinterleave takes it apart; or it *)
(* takes apart a file that comes from somewhere else.                      *)
(***************************************************************************)
EXTENDS Interleave

CONSTANTS
  Foreign        \* files from somewhere else

ASSUME ToolsAssumption ==
  \A f \in Foreign : /\ f.channels \in Nat
                     /\ f.matrix.rows \in Nat /\ f.matrix.cols \in Nat
                     /\ f.frames \in Seq([0 .. f.channels - 1 -> Int])

VARIABLES
  apart,         \* the program that takes the file apart, while it runs:
  inhandle, parts, decoder, rest, outputs, outs, code, blocksize

D == INSTANCE Deinterleave WITH
       infile <- outfile, step <- apart, info <- parts, matrix <- decoder,
       left <- rest, opened <- outputs, exit <- code
second == <<blocksize, apart, inhandle, parts, decoder, rest, outputs, outs, code>>
allvars == <<vars, second>>

Ended == step \in {"closed", "crashed"}

(* Or the file comes from somewhere else, and ambix-interleave is not run. *)
NotRun ==
  /\ args = CHOOSE a \in Args : TRUE
  /\ step = "closed" /\ opened = {} /\ info = NoInfo /\ matrix = NoMatrix /\ left = 0
  /\ outhandle = FALSE /\ outfile \in Foreign /\ exit = -1

First == (Init \/ NotRun) /\ D!Init

Interleaving == Next /\ UNCHANGED second
Deinterleaving == Ended /\ D!Next /\ UNCHANGED vars

Steps == Interleaving \/ Deinterleaving

Spec == First /\ [][Steps]_allvars

-----------------------------------------------------------------------------
(* What the programs are for, put without blocks and buffers               *)

(* The channels of all inputs that are there, as one frame.                *)
Sources == UNION {{i} \X (0 .. ins[i].channels - 1) : i \in DOMAIN ins}
Source(k) ==
  CHOOSE s \in Sources :
    k = MapThenSumSet(LAMBDA i : ins[i].channels, 1 .. s[1] - 1) + s[2]
Frame(f) == [k \in 0 .. Channels - 1 |-> sample(Source(k)[1], Source(k)[2], f - 1)]

(* A decoded channel: a row of the matrix times the channels of the frame, *)
(* or an extra channel.                                                    *)
Decoded(m, c, frame) ==
  IF c < m.rows
  THEN MapThenSumSet(LAMBDA k : m.data[c][k] * frame[k], 0 .. m.cols - 1)
  ELSE frame[m.cols + c - m.rows]

Interleaved == exit = 1

TypeOK ==
  /\ args \in Args
  /\ step \in {"cmdline", "open input", "open output", "copy", "closed", "crashed"}
  /\ opened \subseteq DOMAIN ins
  /\ info.ambichannels \in Nat /\ info.extrachannels \in Nat /\ info.frames \in Nat
  /\ left \in 0 .. info.frames
  /\ exit \in {-1, 0, 1, 64, 65, 66, 73}
  /\ apart \in {"open input", "open output", "copy", "closed"}
  /\ parts.ambichannels \in Nat /\ parts.extrachannels \in Nat
  /\ rest \in 0 .. Len(outfile.frames)
  /\ code \in {-1, 0, 1}

(* Whatever became of it, what ambix-interleave has written is the channels*)
(* of its inputs in the order of the command line, frame by frame from the *)
(* first; and it returns 1 only when nothing is missing of the shortest.   *)
WrittenInPlace ==
  step \in {"copy", "closed", "crashed"} /\ info # NoInfo =>
    /\ \A f \in DOMAIN outfile.frames : outfile.frames[f] = Frame(f)
    /\ Interleaved => \A i \in Found : Len(outfile.frames) <= ins[i].frames
    /\ Interleaved => Len(outfile.frames) = info.frames

(* What the file says of itself is what the command line asked for: a file *)
(* that was finished is divided by the reader as it was by the writer, its *)
(* matrix restores a full set, and for an .amb file of four channels it is *)
(* the documented one for the traditional B-format (doc/libambix.incl:392; *)
(* 7 stands for the root of 2).                                            *)
BFormat == <<<<7, 0, 0, 0>>, <<0, 0, 0, -1>>, <<0, 1, 0, 0>>, <<0, 0, -1, 0>>>>
ReadsBack ==
  Interleaved /\ apart # "open input" /\ code = -1 =>
    /\ parts.ambichannels = info.ambichannels
    /\ parts.extrachannels = info.extrachannels
    /\ is_fullset(decoder.rows)
    /\ SingleAmb /\ Channels = 4 =>
         \A r, c \in 0 .. 3 : decoder.data[r][c] = BFormat[r + 1][c + 1]

(* Each output has the decoded channel it stands for, frame by frame, and  *)
(* all of it when the program says so.                                     *)
SplitInPlace ==
  apart \in {"copy", "closed"} =>
    LET m == D!AdaptorOf(outfile)
    IN \A c \in DOMAIN outs :
         /\ \A f \in DOMAIN outs[c] : outs[c][f] = Decoded(m, c - 1, outfile.frames[f])
         /\ code = 1 => Len(outs[c]) = Len(outfile.frames)

(* Blocks fit into the buffers ai_copy() allocates for them: the inputs    *)
(* side by side, the parts of a frame, the decoded channels.               *)
BlocksFit ==
  /\ step = "copy" =>
       MapThenSumSet(LAMBDA i : ins[i].channels, opened) * BlockFrames(left)
         <= (info.ambichannels + info.extrachannels) * args.blocksize
  /\ apart = "copy" =>
       /\ decoder.cols = parts.ambichannels
       /\ decoder.rows = Cardinality(outputs) - parts.extrachannels
       /\ D!BlockFrames(rest) <= blocksize
=============================================================================
