-------------------------- MODULE JackRecordProofs ---------------------------
(***************************************************************************)
(* Theorems about JackRecord, for all values of its constants.             *)
(***************************************************************************)
EXTENDS JackRecord, SequenceTheorems, TLAPS

(* Where every frame is: the local buffer is empty unless it is about to   *)
(* be written, and the timer counts what is in the file.                   *)
IInv ==
  /\ TypeOK
  /\ EveryFrameAccounted
  /\ disk # "writes" => d_buffer = <<>>
  /\ timer_counter = Len(sound_file)

-----------------------------------------------------------------------------
(* Sequences                                                               *)

LEMMA Empty == <<>> \in Seq(Frames) /\ Len(<<>>) = 0
BY EmptySeq

LEMMA Regroup ==
  ASSUME NEW a \in Seq(Frames), NEW b \in Seq(Frames), NEW c \in Seq(Frames)
  PROVE  (a \o b) \o c = a \o (b \o c)
BY ConcatAssociative

LEMMA CutInTwo ==
  ASSUME NEW s \in Seq(Frames), NEW n \in 0 .. Len(s)
  PROVE  /\ SubSeq(s, 1, n) \in Seq(Frames) /\ Len(SubSeq(s, 1, n)) = n
         /\ SubSeq(s, n + 1, Len(s)) \in Seq(Frames)
         /\ Len(SubSeq(s, n + 1, Len(s))) = Len(s) - n
         /\ SubSeq(s, 1, n) \o SubSeq(s, n + 1, Len(s)) = s
<1>1. Len(s) \in Nat /\ \A i \in 1 .. Len(s) : s[i] \in Frames
  BY LenProperties, ElementOfSeq
<1>2. SubSeq(s, 1, n) \in Seq(Frames) /\ Len(SubSeq(s, 1, n)) = n
  BY <1>1, SubSeqProperties
<1>3. /\ SubSeq(s, n + 1, Len(s)) \in Seq(Frames)
      /\ Len(SubSeq(s, n + 1, Len(s))) = Len(s) - n
  BY <1>1, SubSeqProperties
<1>4. SubSeq(s, 1, n) \o SubSeq(s, n + 1, Len(s)) = SubSeq(s, 1, Len(s))
  BY <1>1, 1 \in 1 .. Len(s) + 1, n \in 1 - 1 .. Len(s), Len(s) \in n .. Len(s),
     ConcatAdjacentSubSeq
<1>5. SubSeq(s, 1, Len(s)) = s
  BY SubSeqFull
<1> QED
  BY <1>2, <1>3, <1>4, <1>5

LEMMA CountOn ==
  ASSUME NEW m \in Nat, NEW n \in Nat
  PROVE  [i \in 1 .. m |-> i] \o [i \in 1 .. n |-> m + i] = [i \in 1 .. m + n |-> i]
<1> DEFINE s == [i \in 1 .. m |-> i]
           t == [i \in 1 .. n |-> m + i]
           u == [i \in 1 .. m + n |-> i]
<1>1. s \in Seq(Nat) /\ t \in Seq(Nat) /\ u \in Seq(Nat)
  OBVIOUS
<1>2. Len(s) = m /\ Len(t) = n /\ Len(u) = m + n
  OBVIOUS
<1> HIDE DEF s, t, u
<1>3. /\ s \o t \in Seq(Nat) /\ Len(s \o t) = m + n
      /\ \A i \in 1 .. m + n : (s \o t)[i] = IF i <= m THEN s[i] ELSE t[i - m]
  BY <1>1, <1>2, ConcatProperties
<1>4. \A i \in 1 .. m + n : (s \o t)[i] = u[i]
  BY <1>3 DEF s, t, u
<1> QED
  BY <1>1, <1>2, <1>3, <1>4, SeqEqual DEF s, t, u

(* What is in the file, on its way and in the ring is as many as captured. *)
LEMMA Lengths ==
  ASSUME IInv
  PROVE  Len(sound_file) + Len(d_buffer) + Len(ring_buffer) = captured
<1>1. /\ sound_file \in Seq(Frames) /\ d_buffer \in Seq(Frames)
      /\ ring_buffer \in Seq(Frames) /\ captured \in Nat
  BY DEF IInv, TypeOK
<1>2. sound_file \o d_buffer \in Seq(Frames)
  BY <1>1, ConcatProperties
<1>3. Len((sound_file \o d_buffer) \o ring_buffer)
        = Len(sound_file) + Len(d_buffer) + Len(ring_buffer)
  BY <1>1, <1>2, ConcatProperties
<1>4. Len([i \in 1 .. captured |-> i]) = captured
  BY <1>1
<1> QED
  BY <1>3, <1>4 DEF IInv, EveryFrameAccounted

-----------------------------------------------------------------------------
(* Every frame is accounted for                                            *)

LEMMA IInvInit == Init => IInv
<1> SUFFICES ASSUME Init PROVE IInv
  OBVIOUS
<1>1. TypeOK
  <2>1. /\ RingFrames \in Nat /\ BufferFrames \in Nat /\ PipeBytes \in Nat
        /\ MaxFrames \in Nat
    BY JackRecordAssumption DEF JackRecordAssumption
  <2>2. timer_counter \in 0 .. MaxFrames /\ captured \in 0 .. MaxFrames /\ pipe \in 0 .. PipeBytes
    BY <2>1 DEF Init
  <2>3. Len(ring_buffer) <= RingFrames /\ Len(d_buffer) <= BufferFrames
    BY <2>1, Empty DEF Init
  <2> QED
    BY <2>2, <2>3, Empty DEF Init, TypeOK
<1>2. EveryFrameAccounted
  BY DEF Init, EveryFrameAccounted
<1> QED
  BY <1>1, <1>2 DEF Init, IInv

LEMMA DeliverAccounts ==
  ASSUME IInv, NEW n \in Periods, Deliver(n)
  PROVE  IInv'
<1> DEFINE new == [i \in 1 .. n |-> captured + i]
<1>1. /\ sound_file \in Seq(Frames) /\ d_buffer \in Seq(Frames)
      /\ ring_buffer \in Seq(Frames) /\ captured \in 0 .. MaxFrames
      /\ n \in Nat /\ captured + n <= MaxFrames /\ MaxFrames \in Nat
      /\ Len(ring_buffer) + n <= RingFrames
  BY JackRecordAssumption DEF IInv, TypeOK, Deliver, Period, Room, JackRecordAssumption
<1>2. new \in Seq(Frames) /\ Len(new) = n
  <2>1. \A i \in 1 .. n : captured + i \in Frames
    BY <1>1 DEF Frames
  <2> QED
    BY <1>1, <2>1
<1>3. ring_buffer' = ring_buffer \o new /\ captured' = captured + n
  BY DEF Deliver
<1> HIDE DEF new
<1>4. ring_buffer' \in Seq(Frames) /\ Len(ring_buffer') = Len(ring_buffer) + n
  BY <1>1, <1>2, <1>3, ConcatProperties
<1>5. TypeOK'
  BY <1>1, <1>3, <1>4 DEF IInv, TypeOK, Deliver, timer, disc
<1>6. EveryFrameAccounted'
  <2>1. sound_file \o d_buffer \in Seq(Frames)
    BY <1>1, ConcatProperties
  <2>2. (sound_file \o d_buffer) \o ring_buffer'
          = ((sound_file \o d_buffer) \o ring_buffer) \o new
    BY <1>1, <1>2, <1>3, <2>1, Regroup
  <2>3. (sound_file \o d_buffer) \o ring_buffer = [i \in 1 .. captured |-> i]
    BY DEF IInv, EveryFrameAccounted
  <2>4. [i \in 1 .. captured |-> i] \o new = [i \in 1 .. captured' |-> i]
    BY <1>1, <1>3, CountOn DEF new
  <2>5. sound_file' = sound_file /\ d_buffer' = d_buffer
    BY DEF Deliver, disc
  <2> QED
    BY <2>2, <2>3, <2>4, <2>5 DEF EveryFrameAccounted
<1> QED
  BY <1>5, <1>6 DEF IInv, Deliver, timer, disc

LEMMA TakeAccounts ==
  ASSUME IInv, Take
  PROVE  IInv'
<1>1. /\ sound_file \in Seq(Frames) /\ ring_buffer \in Seq(Frames)
      /\ d_buffer = <<>> /\ Readable \in 0 .. Len(ring_buffer)
      /\ Readable <= BufferFrames
  BY JackRecordAssumption DEF IInv, TypeOK, Take, Readable, AtMost, JackRecordAssumption
<1>2. /\ d_buffer' = SubSeq(ring_buffer, 1, Readable)
      /\ ring_buffer' = SubSeq(ring_buffer, Readable + 1, Len(ring_buffer))
  BY DEF Take
<1>3. /\ d_buffer' \in Seq(Frames) /\ Len(d_buffer') = Readable
      /\ ring_buffer' \in Seq(Frames)
      /\ Len(ring_buffer') = Len(ring_buffer) - Readable
      /\ d_buffer' \o ring_buffer' = ring_buffer
  BY <1>1, <1>2, CutInTwo
<1>4. Len(ring_buffer') <= RingFrames
  BY <1>1, <1>3, LenProperties, JackRecordAssumption DEF IInv, TypeOK, JackRecordAssumption
<1>5. TypeOK'
  BY <1>1, <1>3, <1>4 DEF IInv, TypeOK, Take, timer
<1>6. EveryFrameAccounted'
  <2>1. (sound_file \o d_buffer') \o ring_buffer' = sound_file \o ring_buffer
    BY <1>1, <1>3, Regroup
  <2>2. sound_file \o ring_buffer = (sound_file \o d_buffer) \o ring_buffer
    BY <1>1, ConcatEmptySeq
  <2>3. sound_file' = sound_file /\ captured' = captured
    BY DEF Take
  <2> QED
    BY <2>1, <2>2, <2>3 DEF IInv, EveryFrameAccounted
<1> QED
  BY <1>5, <1>6 DEF IInv, Take, timer

LEMMA WriteAccounts ==
  ASSUME IInv, write_to_disk
  PROVE  IInv'
<1>1. /\ sound_file \in Seq(Frames) /\ d_buffer \in Seq(Frames)
      /\ ring_buffer \in Seq(Frames) /\ captured \in 0 .. MaxFrames
      /\ timer_counter = Len(sound_file)
  BY DEF IInv, TypeOK
<1>2. /\ sound_file' = sound_file \o d_buffer /\ d_buffer' = <<>>
      /\ timer_counter' = timer_counter + Len(d_buffer)
      /\ disk' \in {"done", "top"}
      /\ UNCHANGED <<shared, timer_frames, callback, signalled, program>>
  BY DEF write_to_disk
<1>3. sound_file' \in Seq(Frames) /\ Len(sound_file') = Len(sound_file) + Len(d_buffer)
  BY <1>1, <1>2, ConcatProperties
<1>4. timer_counter' \in 0 .. MaxFrames
  BY <1>1, <1>2, Lengths, LenProperties, JackRecordAssumption DEF JackRecordAssumption
<1>5. TypeOK'
  BY <1>2, <1>3, <1>4, Empty, JackRecordAssumption
     DEF IInv, TypeOK, shared, JackRecordAssumption
<1>6. EveryFrameAccounted'
  <2>1. sound_file' \o d_buffer' = sound_file \o d_buffer
    BY <1>2, <1>3, ConcatEmptySeq
  <2> QED
    BY <1>2, <2>1 DEF IInv, EveryFrameAccounted, shared
<1> QED
  BY <1>1, <1>2, <1>3, <1>5, <1>6 DEF IInv

LEMMA IInvStep == IInv /\ [Next]_vars => IInv'
<1> SUFFICES ASSUME IInv, [Next]_vars PROVE IInv'
  OBVIOUS
<1> USE DEF IInv, TypeOK, EveryFrameAccounted, shared, timer, disc
<1>1. ASSUME NEW n \in Periods, Deliver(n) PROVE IInv'
  BY <1>1, DeliverAccounts
<1>2. ASSUME NEW n \in Periods, PeriodTooLarge(n) \/ Overflow(n) PROVE IInv'
  BY <1>2 DEF PeriodTooLarge, Overflow, Exit
<1>3. CASE Poke
  BY <1>3, JackRecordAssumption DEF Poke, JackRecordAssumption
<1>4. CASE LoopTest
  BY <1>4 DEF LoopTest
<1>5. CASE Check
  BY <1>5 DEF Check
<1>6. CASE TakePoke
  BY <1>6, JackRecordAssumption DEF TakePoke, JackRecordAssumption
<1>7. CASE Take
  BY <1>7, TakeAccounts
<1>8. CASE write_to_disk
  BY <1>8, WriteAccounts
<1>9. CASE Close \/ Signal
  BY <1>9 DEF Close, Signal
<1>10. CASE UNCHANGED vars
  BY <1>10 DEF vars
<1> QED
  BY <1>1, <1>2, <1>3, <1>4, <1>5, <1>6, <1>7, <1>8, <1>9, <1>10
     DEF Next, process, Callback, disk_thread_procedure

(* Every variable of the recorder stays in its type; ring and local buffer *)
(* hold what is put into them, for all sizes of buffers and periods.       *)
THEOREM Types == Spec => []TypeOK
<1>1. IInv => TypeOK
  BY DEF IInv
<1> QED
  BY <1>1, IInvInit, IInvStep, PTL DEF Spec

(* The recorder loses no frame it was delivered and keeps their order, for *)
(* all sizes of ring, buffers and periods.                                 *)
THEOREM NothingVanishes == Spec => []EveryFrameAccounted
<1>1. IInv => EveryFrameAccounted
  BY DEF IInv
<1> QED
  BY <1>1, IInvInit, IInvStep, PTL DEF Spec

-----------------------------------------------------------------------------
(* Pokes                                                                   *)

LEMMA PokeStep == TypeOK /\ TypeOK' /\ NoPokeLost /\ [Next]_vars => NoPokeLost'
<1> SUFFICES ASSUME TypeOK, TypeOK', NoPokeLost, [Next]_vars PROVE NoPokeLost'
  OBVIOUS
<1> USE DEF NoPokeLost, TooFew, shared, timer, disc
<1>1. pipe \in Nat
  BY JackRecordAssumption DEF TypeOK, JackRecordAssumption
<1>2. ASSUME NEW n \in Periods, Deliver(n) PROVE NoPokeLost'
  BY <1>2 DEF Deliver
<1>3. ASSUME NEW n \in Periods, PeriodTooLarge(n) \/ Overflow(n) PROVE NoPokeLost'
  BY <1>3 DEF PeriodTooLarge, Overflow, Exit
<1>4. CASE Poke
  <2>1. pipe' # 0
    BY <1>1, <1>4 DEF Poke
  <2> QED
    BY <2>1
<1>5. CASE LoopTest
  BY <1>5 DEF LoopTest
<1>6. CASE Check
  BY <1>6 DEF Check
<1>7. CASE TakePoke
  BY <1>7 DEF TakePoke
<1>8. CASE Take
  BY <1>8 DEF Take
<1>9. CASE write_to_disk
  BY <1>9 DEF write_to_disk
<1>10. CASE Close \/ Signal
  BY <1>10 DEF Close, Signal
<1>11. CASE UNCHANGED vars
  BY <1>11 DEF vars
<1> QED
  BY <1>2, <1>3, <1>4, <1>5, <1>6, <1>7, <1>8, <1>9, <1>10, <1>11
     DEF Next, process, Callback, disk_thread_procedure

(* The disk thread of the recorder never sleeps over enough frames,        *)
(* whatever pokes have piled up in the pipe or been spared.                *)
THEOREM PokesSuffice == Spec => []NoPokeLost
<1>1. Init => NoPokeLost
  BY DEF Init, NoPokeLost
<1> QED
  BY <1>1, PokeStep, Types, PTL DEF Spec

-----------------------------------------------------------------------------
(* The timer                                                               *)

(* Before the disk thread is done a timer is not over; afterwards nothing  *)
(* but a signal or the timer can have made it end.                         *)
TimerInv ==
  /\ disk # "done" /\ timer_frames > 0 => timer_counter < timer_frames
  /\ disk = "done" /\ ~ signalled => timer_frames > 0 /\ timer_counter >= timer_frames
  /\ timer_frames > 0 => timer_counter < timer_frames + BufferFrames

LEMMA TimerInit == Init => TimerInv
BY JackRecordAssumption DEF Init, TimerInv, JackRecordAssumption

LEMMA TimerStep == IInv /\ TimerInv /\ [Next]_vars => TimerInv'
<1> SUFFICES ASSUME IInv, TimerInv, [Next]_vars PROVE TimerInv'
  OBVIOUS
<1> USE DEF TimerInv, shared, timer, disc
<1>1. ASSUME NEW n \in Periods, Deliver(n) PROVE TimerInv'
  BY <1>1 DEF Deliver
<1>2. ASSUME NEW n \in Periods, PeriodTooLarge(n) \/ Overflow(n) PROVE TimerInv'
  BY <1>2 DEF PeriodTooLarge, Overflow, Exit
<1>3. CASE Poke
  BY <1>3 DEF Poke
<1>4. CASE LoopTest
  BY <1>4 DEF LoopTest
<1>5. CASE Check
  BY <1>5 DEF Check
<1>6. CASE TakePoke
  BY <1>6 DEF TakePoke
<1>7. CASE Take
  BY <1>7 DEF Take
<1>8. CASE write_to_disk
  <2>1. /\ timer_frames \in Int /\ timer_counter \in Nat /\ BufferFrames \in Nat
        /\ Len(d_buffer) \in 0 .. BufferFrames
    BY JackRecordAssumption, LenProperties DEF IInv, TypeOK, JackRecordAssumption
  <2>2. /\ timer_counter' = timer_counter + Len(d_buffer)
        /\ timer_frames' = timer_frames /\ signalled' = signalled
        /\ disk = "writes"
        /\ disk' = IF TimerOver(timer_counter') THEN "done" ELSE "top"
    BY <1>8 DEF write_to_disk
  <2> QED
    BY <2>1, <2>2 DEF TimerOver
<1>9. CASE Close \/ Signal
  BY <1>9 DEF Close, Signal
<1>10. CASE UNCHANGED vars
  BY <1>10 DEF vars
<1> QED
  BY <1>1, <1>2, <1>3, <1>4, <1>5, <1>6, <1>7, <1>8, <1>9, <1>10
     DEF Next, process, Callback, disk_thread_procedure

(* A recording that is closed without a signal has the frames of its timer *)
(* and less than a buffer of more, for all sizes.                          *)
THEOREM TimerIsKept == Spec => TimerKept
<1>1. IInv /\ TimerInv /\ [Next]_vars
        => [Close /\ ~ signalled =>
              /\ timer_frames > 0
              /\ Len(sound_file) >= timer_frames
              /\ Len(sound_file) < timer_frames + BufferFrames]_vars
  BY DEF IInv, TimerInv, Close
<1> QED
  BY <1>1, IInvInit, IInvStep, TimerInit, TimerStep, PTL DEF Spec, TimerKept

-----------------------------------------------------------------------------
(* The recorder is a queue                                                 *)

LEMMA QueueInit == Init => Fifo!Init
BY DEF Init, Fifo!Init

(* A delivery is a Put, a write of something is a Get.                     *)
LEMMA DeliverPuts ==
  ASSUME IInv, NEW n \in Periods, Deliver(n)
  PROVE  Fifo!Put
<1>1. /\ sound_file' = sound_file /\ captured' = captured + n
      /\ n \in Nat \ {0} /\ Len(ring_buffer) + n <= RingFrames
  BY JackRecordAssumption DEF Deliver, Room, disc, JackRecordAssumption
<1>2. /\ Len(sound_file) \in Nat /\ Len(ring_buffer) \in Nat
      /\ Len(d_buffer) \in Nat /\ Len(d_buffer) <= BufferFrames
      /\ RingFrames \in Nat /\ BufferFrames \in Nat /\ captured \in Nat
  BY JackRecordAssumption, LenProperties DEF IInv, TypeOK, JackRecordAssumption
<1>3. captured' - Len(sound_file) <= RingFrames + BufferFrames
  BY <1>1, <1>2, Lengths
<1>4. n \in 1 .. RingFrames + BufferFrames
  BY <1>1, <1>2
<1> QED
  BY <1>1, <1>3, <1>4 DEF Fifo!Put

LEMMA WriteGets ==
  ASSUME IInv, write_to_disk
  PROVE  Fifo!Get \/ UNCHANGED Fifo!vars
<1>1. /\ sound_file \in Seq(Frames) /\ d_buffer \in Seq(Frames)
      /\ ring_buffer \in Seq(Frames)
  BY DEF IInv, TypeOK
<1>2. sound_file' = sound_file \o d_buffer /\ captured' = captured
  BY DEF write_to_disk, shared
<1>3. /\ Len(sound_file) \in Nat /\ Len(d_buffer) \in Nat
      /\ Len(ring_buffer) \in Nat /\ captured \in Nat
  BY <1>1, LenProperties DEF IInv, TypeOK
<1>4. \A i \in 1 .. Len(d_buffer) : d_buffer[i] = Len(sound_file) + i
  <2> SUFFICES ASSUME NEW i \in 1 .. Len(d_buffer)
               PROVE  d_buffer[i] = Len(sound_file) + i
    OBVIOUS
  <2> DEFINE both == sound_file \o d_buffer
  <2>1. /\ both \in Seq(Frames) /\ Len(both) = Len(sound_file) + Len(d_buffer)
        /\ both[Len(sound_file) + i] = d_buffer[i]
    BY <1>1, <1>3, ConcatProperties
  <2>2. Len(sound_file) + i \in 1 .. captured /\ Len(sound_file) + i <= Len(both)
    BY <1>3, <2>1, Lengths
  <2> HIDE DEF both
  <2>3. (both \o ring_buffer)[Len(sound_file) + i] = both[Len(sound_file) + i]
    BY <1>1, <1>3, <2>1, <2>2, ConcatProperties
  <2>4. (both \o ring_buffer)[Len(sound_file) + i] = Len(sound_file) + i
    BY <2>2 DEF IInv, EveryFrameAccounted, both
  <2> QED
    BY <2>1, <2>3, <2>4
<1>5. d_buffer = [i \in 1 .. Len(d_buffer) |-> Len(sound_file) + i]
  BY <1>1, <1>4, LenProperties
<1>6. CASE Len(d_buffer) = 0
  <2>1. d_buffer = <<>>
    BY <1>1, <1>6, EmptySeq
  <2> QED
    BY <1>1, <1>2, <2>1, ConcatEmptySeq DEF Fifo!vars
<1>7. CASE Len(d_buffer) # 0
  <2>1. Len(d_buffer) \in 1 .. captured - Len(sound_file)
    BY <1>3, <1>7, Lengths
  <2> QED
    BY <1>2, <1>5, <2>1 DEF Fifo!Get
<1> QED
  BY <1>6, <1>7

LEMMA QueueStep == IInv /\ [Next]_vars => [Fifo!Next]_(Fifo!vars)
<1> SUFFICES ASSUME IInv, [Next]_vars PROVE [Fifo!Next]_(Fifo!vars)
  OBVIOUS
<1> USE DEF Fifo!vars, shared, timer, disc
<1>1. ASSUME NEW n \in Periods, Deliver(n) PROVE Fifo!Next
  BY <1>1, DeliverPuts DEF Fifo!Next
<1>2. CASE write_to_disk
  BY <1>2, WriteGets DEF Fifo!Next
<1>3. ASSUME NEW n \in Periods, PeriodTooLarge(n) \/ Overflow(n)
      PROVE  UNCHANGED Fifo!vars
  BY <1>3 DEF PeriodTooLarge, Overflow, Exit
<1>4. CASE Poke \/ LoopTest \/ Check \/ TakePoke \/ Take \/ Close \/ Signal
  BY <1>4 DEF Poke, LoopTest, Check, TakePoke, Take, Close, Signal
<1>5. CASE UNCHANGED vars
  BY <1>5 DEF vars
<1> QED
  BY <1>1, <1>2, <1>3, <1>4, <1>5 DEF Next, process, Callback, disk_thread_procedure

(* Ring, local buffer and disk thread of the recorder implement the queue  *)
(* SampleFifo that loses, repeats and reorders nothing, for all sizes.     *)
THEOREM RecorderIsQueue == Spec => ImplementsFifo
BY IInvInit, IInvStep, QueueInit, QueueStep, PTL DEF Spec, ImplementsFifo, Fifo!Spec
=============================================================================
