----------------------------- MODULE JackRecord ------------------------------
(***************************************************************************)
(* The recorder utils/ambix-jrecord.c: JACK's process callback puts a      *)
(* period of frames into a ring buffer and pokes the disk thread through a *)
(* pipe; the disk thread takes them out and writes them; main waits for    *)
(* the disk thread and closes the file.                                    *)
(*                                                                         *)
(* A step is what a thread does between two accesses to what it shares     *)
(* with another.  JACK's ring buffer is taken at its word: a read or a     *)
(* write is one step.  Frames are numbered in the order JACK delivers      *)
(* them, and the file is the frames handed to ambix_writef_float32(),      *)
(* whose result the recorder never looks at.                               *)
(***************************************************************************)
EXTENDS Integers, Sequences

CONSTANTS
  BufferFrames,      \* option -b: frames of the local buffers
  RingFrames,        \* frames the ring takes: JACK rounds its size up to a
                     \* power of two and keeps one byte free
  MinimalFrames,     \* option -m: frames the disk thread waits for
  Timers,            \* timer_frames: -1 and 0 are no timer
  Periods,           \* sizes of the periods JACK may deliver
  PipeBytes,         \* what the pipe takes before a write to it blocks
  MaxFrames,         \* bound: frames delivered
  MainIsLate         \* whether periods may overflow the ring once the disk
                     \* thread has ended and main has not stopped JACK yet

(* The program takes the options as they are: -m may be larger than the    *)
(* ring, or 0.                                                             *)
ASSUME JackRecordAssumption ==
  /\ BufferFrames \in Nat \ {0} /\ RingFrames \in Nat /\ MinimalFrames \in Nat
  /\ Timers \subseteq Int /\ Periods \subseteq Nat \ {0}
  /\ PipeBytes \in Nat \ {0} /\ MaxFrames \in Nat
  /\ MainIsLate \in BOOLEAN

VARIABLES
  timer_frames, timer_counter,
  ring_buffer,       \* the frames in it
  pipe,              \* bytes in it
  captured,          \* how many frames were delivered
  d_buffer,          \* what the disk thread has taken out and not yet written
  sound_file,        \* the frames written
  disk,              \* where disk_thread_procedure() is
  callback,          \* where process() is
  signalled,         \* observe_end_of_process()
  program

shared == <<ring_buffer, pipe, captured>>
timer == <<timer_frames, timer_counter>>
disc == <<d_buffer, sound_file, disk>>
vars == <<shared, timer, disc, callback, signalled, program>>

AtMost(a, b) == IF a < b THEN a ELSE b
Running == program = "running"

Init ==
  /\ timer_frames \in Timers /\ timer_counter = 0
  /\ ring_buffer = <<>> /\ pipe = 0 /\ captured = 0
  /\ d_buffer = <<>> /\ sound_file = <<>>
  /\ disk = "top" /\ callback = "idle"
  /\ signalled = FALSE /\ program = "running"

-----------------------------------------------------------------------------
(* process(), in JACK's thread                                             *)

Period(n) ==
  /\ Running /\ callback = "idle"
  /\ captured + n <= MaxFrames

Workable(n) == n < BufferFrames
Room(n) == Len(ring_buffer) + n <= RingFrames

(* FAILURE: exit(1) whatever the others are at; nobody closes the file.    *)
Exit ==
  /\ program' = "failed"
  /\ UNCHANGED <<shared, timer, disc, callback, signalled>>

PeriodTooLarge(n) == Period(n) /\ ~ Workable(n) /\ Exit

Overflow(n) ==
  /\ Period(n) /\ Workable(n) /\ ~ Room(n)
  /\ disk # "done" \/ MainIsLate
  /\ Exit

DeliverToSleeper(n) ==   \* variant: a poke only when the ring was empty
  /\ Period(n) /\ Workable(n) /\ Room(n)
  /\ ring_buffer' = ring_buffer \o [i \in 1 .. n |-> captured + i]
  /\ captured' = captured + n
  /\ callback' = IF ring_buffer = <<>> THEN "poking" ELSE "idle"
  /\ UNCHANGED <<pipe, timer, disc, signalled, program>>

Deliver(n) ==
  /\ Period(n) /\ Workable(n) /\ Room(n)
  /\ ring_buffer' = ring_buffer \o [i \in 1 .. n |-> captured + i]
  /\ captured' = captured + n
  /\ callback' = "poking"
  /\ UNCHANGED <<pipe, timer, disc, signalled, program>>

(* xwrite() of one byte, which waits while the pipe is full.               *)
Poke ==
  /\ Running /\ callback = "poking" /\ pipe < PipeBytes
  /\ pipe' = pipe + 1
  /\ callback' = "idle"
  /\ UNCHANGED <<ring_buffer, captured, timer, disc, signalled, program>>

Callback == (\E n \in Periods : Overflow(n) \/ Deliver(n)) \/ Poke
process == Callback \/ \E n \in Periods : PeriodTooLarge(n)

-----------------------------------------------------------------------------
(* disk_thread_procedure() with jack_ringbuffer_wait_for_read()            *)

LoopTest ==
  /\ Running /\ disk = "top"
  /\ disk' = IF signalled THEN "done" ELSE "checks"
  /\ UNCHANGED <<shared, timer, d_buffer, sound_file, callback, signalled, program>>

TooFew == Len(ring_buffer) < MinimalFrames

Check ==
  /\ Running /\ disk = "checks" /\ TooFew
  /\ disk' = "polls"
  /\ UNCHANGED <<shared, timer, d_buffer, sound_file, callback, signalled, program>>

(* read() of one byte from the pipe, which waits while it is empty.        *)
TakePoke ==
  /\ Running /\ disk = "polls" /\ pipe > 0
  /\ pipe' = pipe - 1
  /\ disk' = "checks"
  /\ UNCHANGED <<ring_buffer, captured, timer, d_buffer, sound_file, callback,
                 signalled, program>>

Everything == Len(ring_buffer)   \* variant: the local buffer is no limit

Readable == AtMost(Len(ring_buffer), BufferFrames)

TakeDroppingRest ==   \* variant: "Drop excessive data", as the comment says
  /\ Running /\ disk = "checks" /\ ~ TooFew
  /\ d_buffer' = SubSeq(ring_buffer, 1, Readable)
  /\ ring_buffer' = <<>>
  /\ disk' = "writes"
  /\ UNCHANGED <<pipe, captured, timer, sound_file, callback, signalled, program>>

Take ==
  /\ Running /\ disk = "checks" /\ ~ TooFew
  /\ d_buffer' = SubSeq(ring_buffer, 1, Readable)
  /\ ring_buffer' = SubSeq(ring_buffer, Readable + 1, Len(ring_buffer))
  /\ disk' = "writes"
  /\ UNCHANGED <<pipe, captured, timer, sound_file, callback, signalled, program>>

TimerAlways(n) ==     \* variant: any timer, 0 and -1 too, is one
  n >= timer_frames

TimerNever(n) ==      \* variant: the counter must hit the timer
  n = timer_frames

TimerOver(n) == timer_frames > 0 /\ n >= timer_frames

write_to_disk ==
  /\ Running /\ disk = "writes"
  /\ sound_file' = sound_file \o d_buffer
  /\ timer_counter' = timer_counter + Len(d_buffer)
  /\ d_buffer' = <<>>
  /\ disk' = IF TimerOver(timer_counter') THEN "done" ELSE "top"
  /\ UNCHANGED <<shared, timer_frames, callback, signalled, program>>

disk_thread_procedure == LoopTest \/ Check \/ TakePoke \/ Take \/ write_to_disk

-----------------------------------------------------------------------------
(* main() joins the disk thread; jack_client_close() waits for a callback  *)
(* under way and lets no other come; the file is closed.                   *)
Close ==
  /\ Running /\ disk = "done" /\ callback = "idle"
  /\ program' = "closed"
  /\ UNCHANGED <<shared, timer, disc, callback, signalled>>

Signal ==
  /\ Running /\ ~ signalled
  /\ signalled' = TRUE
  /\ UNCHANGED <<shared, timer, disc, callback, program>>

Next == process \/ disk_thread_procedure \/ Close \/ Signal

(* JACK keeps calling, with periods that fit the buffers, and the system   *)
(* schedules the other two threads.                                        *)
Fairness ==
  WF_vars(Callback) /\ WF_vars(disk_thread_procedure) /\ WF_vars(Close)

Spec == Init /\ [][Next]_vars /\ Fairness
-----------------------------------------------------------------------------
(* Properties                                                              *)

Frames == 1 .. MaxFrames

(* Every variable stays in its type; the local buffer and the ring hold    *)
(* what is put into them.                                                  *)
TypeOK ==
  /\ timer_frames \in Timers /\ timer_counter \in 0 .. MaxFrames
  /\ ring_buffer \in Seq(Frames) /\ Len(ring_buffer) <= RingFrames
  /\ pipe \in 0 .. PipeBytes /\ captured \in 0 .. MaxFrames
  /\ d_buffer \in Seq(Frames) /\ Len(d_buffer) <= BufferFrames
  /\ sound_file \in Seq(Frames)
  /\ disk \in {"top", "checks", "polls", "writes", "done"}
  /\ callback \in {"idle", "poking"}
  /\ signalled \in BOOLEAN
  /\ program \in {"running", "failed", "closed"}

(* Nothing vanishes between the callback and the file: every frame is in   *)
(* the file, on its way or in the ring, each at its place, even when more  *)
(* is in the ring than the local buffer takes ("Drop excessive data to not *)
(* overflow the local buffer", ambix-jrecord.c:166).                       *)
EveryFrameAccounted ==
  sound_file \o d_buffer \o ring_buffer = [i \in 1 .. captured |-> i]

(* The disk thread never sleeps over frames it could write: when it waits  *)
(* at an empty pipe and no poke is about to come, there are too few.  The  *)
(* pokes are bytes in a pipe of their own, which it reads only when it     *)
(* waits, so there may be more or fewer of them than periods in the ring.  *)
NoPokeLost ==
  disk = "polls" /\ pipe = 0 /\ callback = "idle" => TooFew

(* "-t N : Set a timer to record for N seconds" (ambix-jrecord.c:273): a   *)
(* recording nobody interrupts that closes has all the frames of its timer *)
(* and less than a buffer of more.                                         *)
TimerKept ==
  [][Close /\ ~ signalled =>
       /\ timer_frames > 0
       /\ Len(sound_file) >= timer_frames
       /\ Len(sound_file) < timer_frames + BufferFrames]_vars

(* As long as the pipe takes every poke, an interrupted recording or one   *)
(* with a timer comes to its end ("which it does when it reaches the end   *)
(* of the file or is interrupted", ambix-jrecord.c:513), unless JACK has   *)
(* no more to deliver before the timer is over.                            *)
Starved ==
  /\ disk = "polls" /\ callback = "idle"
  /\ timer_frames > 0 => timer_counter < timer_frames
  /\ \A n \in Periods : captured + n > MaxFrames
RecordingEnds ==
  [](pipe < PipeBytes) => (signalled \/ timer_frames > 0 ~> ~ Running \/ Starved)

(* Ring, local buffer and disk thread are a queue that loses nothing.      *)
Fifo == INSTANCE SampleFifo WITH Capacity <- RingFrames + BufferFrames,
                                 put <- captured, got <- sound_file
ImplementsFifo == Fifo!Spec
=============================================================================
