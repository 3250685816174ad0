------------------------------ MODULE JackPlay -------------------------------
(***************************************************************************)
(* The player utils/ambix-jplay.c: the disk thread reads the file and puts *)
(* its frames into a ring buffer; JACK's process callback takes them out,  *)
(* directly or through a sample rate converter, and pokes the disk thread  *)
(* through a pipe; JACK's sync callback asks the disk thread to seek; main *)
(* waits for the disk thread and closes the file.                          *)
(*                                                                         *)
(* A step is what a thread does between two accesses to what it shares     *)
(* with another.  JACK's ring buffer is taken at its word: a read or a     *)
(* write is one step.  A frame is its place in the file, from 1, and 0 is  *)
(* silence.                                                                *)
(***************************************************************************)
EXTENDS Integers, Sequences

CONSTANTS
  FileFrames,        \* frames of the file
  BufferFrames,      \* option -b: frames of the local buffers
  RingFrames,        \* frames the ring takes: JACK rounds its size up to a
                     \* power of two and keeps one byte free
  MinimalFrames,     \* option -m: space the disk thread waits for
  RequestFrames,     \* option -q: frames the converter is given at a time
  Options,           \* the ways to run it: sets of the words below
  Ratios,            \* src_ratio: multiplied with osr / isr, a division of ints
  Seeks,             \* positions asked for by option -i and by JACK
  Periods,           \* sizes of the periods of JACK
  PipeBytes,         \* what the pipe takes before a write to it blocks
  MaxSeeks,          \* bound: seeks JACK asks for
  SeekAnytime        \* whether JACK may ask while a seek is carried out

Words == {"transport_aware", "samplerate"}  \* option -t; HAVE_SAMPLERATE

(* The program takes the options as they are: -m and -q may be larger than *)
(* the ring and the buffers, or 0.                                         *)
ASSUME JackPlayAssumption ==
  /\ FileFrames \in Nat /\ BufferFrames \in Nat \ {0} /\ RingFrames \in Nat
  /\ MinimalFrames \in Nat /\ RequestFrames \in Nat
  /\ Options \subseteq SUBSET Words /\ Ratios \subseteq Nat
  /\ Seeks \subseteq Nat /\ Periods \subseteq Nat \ {0}
  /\ PipeBytes \in Nat \ {0} /\ MaxSeeks \in Nat
  /\ SeekAnytime \in BOOLEAN

VARIABLES
  o, src_ratio,      \* the options
  seek_request,      \* what JACK has asked for, or -1
  rb, pipe,          \* the frames in the ring, the bytes in the pipe
  position,          \* of the open file
  nframes,           \* what the disk thread is about to read
  disk,              \* where disk_proc() is
  src,               \* frames the converter has been given and not yet used
  callback, period,  \* where signal_proc() is, and with how many frames
  rolling,           \* JACK's transport
  signalled,         \* observe_end_of_process()
  program,
  wanted,            \* what was asked for last and is still to come, or -1
  asked,             \* how many seeks JACK has asked for
  loaded, played     \* frames of the file put into the ring, put out

seeking == <<seek_request, wanted, asked>>
disc == <<position, nframes, disk, loaded>>
jack == <<src, callback, period, played>>
options == <<o, src_ratio>>
outside == <<rolling, signalled, program>>
vars == <<options, seeking, rb, pipe, disc, jack, outside>>

Aware == "transport_aware" \in o
AtMost(a, b) == IF a < b THEN a ELSE b
Running == program = "running"
Silence(n) == [i \in 1 .. n |-> 0]

(* The frames of s that are none of silence.                               *)
OfFile(s) ==
  LET kept[n \in 0 .. Len(s)] ==
        IF n = 0 THEN <<>>
        ELSE IF s[n] > 0 THEN Append(kept[n - 1], s[n]) ELSE kept[n - 1]
  IN kept[Len(s)]

(* libsndfile refuses to go behind the end.                                *)
Place(p) == IF p <= FileFrames THEN p ELSE -1

Init ==
  /\ o \in Options
  /\ src_ratio \in IF "samplerate" \in o THEN Ratios ELSE {1}
  /\ seek_request \in Seeks \cup {-1} /\ asked = 0
  /\ wanted = Place(seek_request)
  /\ rb = <<>> /\ pipe = 0
  /\ position = 0 /\ nframes = 0 /\ disk = "top" /\ loaded = <<>>
  /\ src = <<>> /\ callback = "idle" /\ period = 0 /\ played = <<>>
  /\ rolling = ~ Aware /\ signalled = FALSE /\ program = "running"

-----------------------------------------------------------------------------
(* disk_proc() with jack_ringbuffer_wait_for_write()                       *)

LoopTestPositive ==   \* variant: a request for the beginning is none
  /\ Running /\ disk = "top"
  /\ disk' = CASE signalled        -> "done"
               [] seek_request > 0 -> "seeks"
               [] OTHER            -> "checks"
  /\ UNCHANGED <<options, seeking, rb, pipe, position, nframes, loaded, jack, outside>>

LoopTest ==
  /\ Running /\ disk = "top"
  /\ disk' = CASE signalled         -> "done"
               [] seek_request >= 0 -> "seeks"
               [] OTHER             -> "checks"
  /\ UNCHANGED <<options, seeking, rb, pipe, position, nframes, loaded, jack, outside>>

SeekFile ==
  /\ Running /\ disk = "seeks"
  /\ IF Place(seek_request) = -1 THEN UNCHANGED <<position, wanted>>
     ELSE /\ position' = seek_request
          /\ wanted' = IF wanted = seek_request THEN -1 ELSE wanted
  /\ disk' = "has sought"
  /\ UNCHANGED <<options, seek_request, asked, rb, pipe, nframes, loaded, jack, outside>>

(* Whatever has been asked for meanwhile is forgotten.                     *)
ResetSeek ==
  /\ Running /\ disk = "has sought"
  /\ seek_request' = -1
  /\ disk' = "checks"
  /\ UNCHANGED <<options, wanted, asked, rb, pipe, position, nframes, loaded, jack, outside>>

Space == RingFrames - Len(rb)
NoSpace == Space < MinimalFrames

CheckAgain ==         \* variant: it looks again instead of waiting
  Running /\ disk = "checks" /\ NoSpace /\ UNCHANGED vars

Check ==
  /\ Running /\ disk = "checks" /\ NoSpace
  /\ disk' = "polls"
  /\ UNCHANGED <<options, seeking, rb, pipe, position, nframes, loaded, jack, outside>>

(* read() of one byte from the pipe, which waits while it is empty.        *)
TakePoke ==
  /\ Running /\ disk = "polls" /\ pipe > 0
  /\ pipe' = pipe - 1
  /\ disk' = "checks"
  /\ UNCHANGED <<options, seeking, rb, position, nframes, loaded, jack, outside>>

AllSpace == Space     \* variant: the local buffer is no limit

Writable == AtMost(Space, BufferFrames)

SpaceFound ==
  /\ Running /\ disk = "checks" /\ ~ NoSpace
  /\ nframes' = Writable
  /\ disk' = "reads"
  /\ UNCHANGED <<options, seeking, rb, pipe, position, loaded, jack, outside>>

Readable == AtMost(nframes, FileFrames - position)

EndAtShortRead ==     \* variant: fewer frames than asked for are the end
  Readable < nframes

EndOfFile == Readable = 0

(* ambix_readf_float32() and the write to the ring.                        *)
Load ==
  /\ Running /\ disk = "reads" /\ ~ EndOfFile
  /\ LET block == [i \in 1 .. Readable |-> position + i]
     IN rb' = rb \o block /\ loaded' = loaded \o block
  /\ position' = position + Readable
  /\ disk' = "top"
  /\ UNCHANGED <<options, seeking, pipe, nframes, jack, outside>>

(* Behind the end a player that follows the transport goes on with         *)
(* silence.                                                                *)
LoadSilence ==
  /\ Running /\ disk = "reads" /\ EndOfFile /\ Aware
  /\ rb' = rb \o Silence(nframes)
  /\ disk' = "top"
  /\ UNCHANGED <<options, seeking, pipe, position, nframes, loaded, jack, outside>>

Finish ==
  /\ Running /\ disk = "reads" /\ EndOfFile /\ ~ Aware
  /\ disk' = "done"
  /\ UNCHANGED <<options, seeking, rb, pipe, position, nframes, loaded, jack, outside>>

disk_proc ==
  \/ LoopTest \/ SeekFile \/ ResetSeek
  \/ Check \/ TakePoke \/ SpaceFound
  \/ Load \/ LoadSilence \/ Finish

-----------------------------------------------------------------------------
(* signal_proc(), in JACK's thread                                         *)

Begins == Running /\ callback = "idle"
Stopped == Aware /\ ~ rolling
Converts == "samplerate" \in o

(* FAILURE: exit(1) whatever the disk thread is at.                        *)
Exit == program' = "failed" /\ UNCHANGED <<options, seeking, rb, pipe, disc, jack, rolling, signalled>>

PeriodTooLarge(n) == Begins /\ n > BufferFrames /\ Exit

NeverMind == FALSE    \* variant: a stopped callback looks at nothing

(* "If stopped the disk thread will sleep and signals will be ignored, so  *)
(* check here also": otherwise it puts out silence and does not poke.      *)
EndIfStopped == Begins /\ Stopped /\ signalled /\ Exit

(* Frames put out; what is missing in a period is silence.                 *)
PutOut(s) == played' = played \o OfFile(s)

PlayFromFull(n) ==    \* variant: a poke only when the ring was full
  /\ Begins /\ ~ Stopped /\ ~ Converts /\ n <= BufferFrames
  /\ LET err == AtMost(n, Len(rb))
     IN rb' = SubSeq(rb, err + 1, Len(rb)) /\ PutOut(SubSeq(rb, 1, err))
  /\ callback' = IF Len(rb) = RingFrames THEN "poking" ELSE "idle"
  /\ UNCHANGED <<options, seeking, pipe, disc, src, period, outside>>

Play(n) ==
  /\ Begins /\ ~ Stopped /\ ~ Converts /\ n <= BufferFrames
  /\ LET err == AtMost(n, Len(rb))
     IN rb' = SubSeq(rb, err + 1, Len(rb)) /\ PutOut(SubSeq(rb, 1, err))
  /\ callback' = "poking"
  /\ UNCHANGED <<options, seeking, pipe, disc, src, period, outside>>

(* src_callback_read(): each frame it was given makes src_ratio frames,    *)
(* and as long as that is too little it asks read_input_from_rb() for      *)
(* more.  It refuses a ratio of 0.                                         *)
ConverterFails == Begins /\ ~ Stopped /\ Converts /\ src_ratio = 0 /\ Exit

src_callback_read(n) ==
  /\ Begins /\ ~ Stopped /\ Converts /\ src_ratio > 0 /\ n <= BufferFrames
  /\ callback' = "converting" /\ period' = n
  /\ UNCHANGED <<options, seeking, rb, pipe, disc, src, played, outside>>

Stretched(s) == [i \in 1 .. src_ratio * Len(s) |-> s[1 + (i - 1) \div src_ratio]]

RestLost ==           \* variant: an incomplete request counts as none
  /\ Running /\ callback = "converting" /\ Len(src) < period
  /\ LET err == AtMost(RequestFrames, Len(rb))
     IN /\ src' = src \o Stretched(IF err < RequestFrames THEN Silence(RequestFrames)
                                   ELSE SubSeq(rb, 1, err))
        /\ rb' = SubSeq(rb, err + 1, Len(rb))
  /\ UNCHANGED <<options, seeking, pipe, disc, callback, period, played, outside>>

(* An empty ring gives a whole request of silence.                         *)
read_input_from_rb ==
  /\ Running /\ callback = "converting" /\ Len(src) < period
  /\ LET err == AtMost(RequestFrames, Len(rb))
     IN /\ src' = src \o Stretched(IF err = 0 THEN Silence(RequestFrames)
                                   ELSE SubSeq(rb, 1, err))
        /\ rb' = SubSeq(rb, err + 1, Len(rb))
  /\ UNCHANGED <<options, seeking, pipe, disc, callback, period, played, outside>>

Converted ==
  /\ Running /\ callback = "converting" /\ Len(src) >= period
  /\ PutOut(SubSeq(src, 1, period))
  /\ src' = SubSeq(src, period + 1, Len(src))
  /\ callback' = "poking" /\ period' = 0
  /\ UNCHANGED <<options, seeking, rb, pipe, disc, outside>>

(* xwrite() of one byte, which waits while the pipe is full.               *)
Poke ==
  /\ Running /\ callback = "poking" /\ pipe < PipeBytes
  /\ pipe' = pipe + 1
  /\ callback' = "idle"
  /\ UNCHANGED <<options, seeking, rb, disc, src, period, played, outside>>

Callback ==
  \/ \E n \in Periods : Play(n) \/ src_callback_read(n)
  \/ ConverterFails \/ read_input_from_rb \/ Converted
  \/ EndIfStopped
  \/ Poke

signal_proc == Callback \/ \E n \in Periods : PeriodTooLarge(n)

-----------------------------------------------------------------------------
(* JACK and the user                                                       *)

sync_handler(p) ==
  /\ Running /\ Aware /\ asked < MaxSeeks
  /\ SeekAnytime \/ disk # "has sought"
  /\ seek_request' = p /\ wanted' = Place(p) /\ asked' = asked + 1
  /\ UNCHANGED <<options, rb, pipe, disc, jack, outside>>

Transport ==
  /\ Running /\ Aware
  /\ rolling' = ~ rolling
  /\ UNCHANGED <<options, seeking, rb, pipe, disc, jack, signalled, program>>

Signal ==
  /\ Running /\ ~ signalled
  /\ signalled' = TRUE
  /\ UNCHANGED <<options, seeking, rb, pipe, disc, jack, rolling, program>>

(* jackplay() joins the disk thread; jack_client_close() waits for a       *)
(* callback under way and lets no other come.  What is in the ring stays   *)
(* there.                                                                  *)
Close ==
  /\ Running /\ disk = "done" /\ callback = "idle"
  /\ program' = "closed"
  /\ UNCHANGED <<options, seeking, rb, pipe, disc, jack, rolling, signalled>>

Next ==
  \/ disk_proc \/ signal_proc
  \/ \E p \in Seeks : sync_handler(p)
  \/ Transport \/ Signal \/ Close

(* JACK keeps calling, with periods that fit the buffers, and the system   *)
(* schedules the other two threads.  Nothing is assumed of the transport   *)
(* and of signals.                                                         *)
Fairness == WF_vars(Callback) /\ WF_vars(disk_proc) /\ WF_vars(Close)

Spec == Init /\ [][Next]_vars /\ Fairness
-----------------------------------------------------------------------------
(* Properties                                                              *)

Frames == 0 .. FileFrames

(* What the next request puts into k_buffer.                               *)
Fetched == IF rb = <<>> THEN RequestFrames ELSE AtMost(RequestFrames, Len(rb))

(* Every variable stays in its type; the ring and the local buffers, that  *)
(* of the converter included, hold what is put into them.                  *)
TypeOK ==
  /\ o \in Options /\ src_ratio \in Ratios \cup {1}
  /\ seek_request \in Seeks \cup {-1} /\ wanted \in Seeks \cup {-1}
  /\ asked \in 0 .. MaxSeeks
  /\ rb \in Seq(Frames) /\ Len(rb) <= RingFrames /\ pipe \in 0 .. PipeBytes
  /\ position \in Frames /\ nframes \in 0 .. BufferFrames
  /\ disk \in {"top", "seeks", "has sought", "checks", "polls", "reads", "done"}
  /\ src \in Seq(Frames)
  /\ callback \in {"idle", "converting", "poking"} /\ period \in {0} \cup Periods
  /\ callback = "converting" /\ Len(src) < period => Fetched <= BufferFrames
  /\ loaded \in Seq(Frames) /\ played \in Seq(Frames)
  /\ rolling \in BOOLEAN /\ signalled \in BOOLEAN
  /\ program \in {"running", "failed", "closed"}

(* The disk thread never sleeps over space it could fill: when it waits at *)
(* an empty pipe and no poke is about to come, there is too little.        *)
NoPokeLost ==
  disk = "polls" /\ pipe = 0 /\ callback = "idle" => NoSpace

(* What is put out is what was read from the file, frame by frame and in   *)
(* order, through ring and converter, and at most what these hold is on    *)
(* its way; silence that is put in between does not count.                 *)
Holds == src_ratio * (RingFrames + RequestFrames) + BufferFrames
Numbered == [i \in DOMAIN played |->
               IF i <= Len(Stretched(loaded)) /\ played[i] = Stretched(loaded)[i]
               THEN i ELSE 0]
Fifo == INSTANCE SampleFifo WITH Capacity <- Holds, put <- Len(Stretched(loaded)),
                                 got <- Numbered
ImplementsFifo == Fifo!Spec

(* "Read the sound file from disk and write to the ring buffer until the   *)
(* end of file, at which point return" (ambix-jplay.c:98): a playback      *)
(* nobody interrupts has put out the file to its end but for what the ring *)
(* and the converter hold; so much of the end is never heard.              *)
PlaysAllButARing ==
  [][Close /\ ~ signalled =>
       /\ position = FileFrames
       /\ src_ratio * Len(loaded) - Len(played) <= Holds]_vars

NeverFull == [](pipe < PipeBytes)

(* "If stopped the disk thread will sleep and signals will be ignored, so  *)
(* check here also" (ambix-jplay.c:205): as long as the pipe takes every   *)
(* poke an interrupted player ends, whatever the transport does, and one   *)
(* that does not follow the transport ends by itself.                      *)
PlaybackEnds == NeverFull => (signalled \/ ~ Aware ~> ~ Running)

(* "Handle seek request" (ambix-jplay.c:106): while the transport rolls    *)
(* what JACK has asked for last is carried out.                            *)
SeeksAreMade ==
  NeverFull /\ <>[]rolling => (wanted # -1 ~> wanted = -1 \/ disk = "done" \/ ~ Running)

(* The callback, which runs in real time, does not hang in its pipe as     *)
(* long as there is a disk thread.                                         *)
PokeReturns ==
  callback = "poking" ~> callback = "idle" \/ disk = "done" \/ ~ Running
=============================================================================
