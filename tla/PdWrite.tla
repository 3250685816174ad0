------------------------------- MODULE PdWrite -------------------------------
(***************************************************************************)
(* The Pd external [ambix_write~] (samples/pd/ambix_write~.c): the parent  *)
(* thread, which takes messages and DSP ticks one at a time, and the child *)
(* thread, which opens, writes and closes the file.                        *)
(*                                                                         *)
(* A step is what a thread does between two points where it gives up the   *)
(* mutex, or a call it makes without it.  Both conditions are modelled as  *)
(* they are in pthreads: a signal wakes the thread that waits and is lost  *)
(* when none does.  Frames are numbered in the order they are captured; 0  *)
(* stands for whatever else the buffer holds.                              *)
(***************************************************************************)
EXTENDS Integers, Sequences

CONSTANTS
  BufFrames,         \* x_bufframes
  VecSizes,          \* block sizes DSP may run with
  WRITFRAMES,        \* frames the child writes at a time (also READFRAMES)
  SignalsPerBuffer,  \* 16 in the code
  MaxFrames,         \* bound: frames captured per recording
  Trouble            \* all that may go wrong around an object

Troubles == {
  "open fails",      \* ambix_open() returns NULL
  "write fails",     \* ambix_writef_float32() writes less than it was given
  "falls behind",    \* the child is a whole buffer behind
  "freed any time",  \* the object is deleted while a request is being served
  "blocks change"}   \* DSP restarts with another block size while recording

ASSUME PdWriteAssumption ==
  /\ BufFrames \in Nat \ {0}
  /\ VecSizes \subseteq 1 .. BufFrames /\ VecSizes # {}
  /\ WRITFRAMES \in Nat \ {0} /\ SignalsPerBuffer \in Nat \ {0}
  /\ MaxFrames \in Nat
  /\ Trouble \subseteq Troubles

VARIABLES
  state, requestcode,
  fifosize, fifohead, fifotail,
  vecsize, sigcountdown, sigperiod,
  matrix,            \* x_matrix: "none", "set", or "freed" but not yet NULL
  fifo,              \* x_buf
  captured,          \* frames put into the fifo since the last open
  file,              \* frames that reached the file of the last open
  ambix,             \* whether the child holds an open handle
  parent,            \* the call it is in, and whether it sleeps there
  child,             \* where the child is
  block,             \* what the child is writing
  trouble            \* what goes wrong around this object

request == <<state, requestcode>>
ring == <<fifosize, fifohead, fifotail>>
ticks == <<vecsize, sigcountdown, sigperiod>>
data == <<fifo, captured, file>>
vars == <<request, ring, ticks, matrix, data, ambix, parent, child, block,
          trouble>>

Ready == [call |-> "none", asleep |-> FALSE]
NoBlock == [at |-> 0, n |-> 0, size |-> 0]
Empty == [i \in 0 .. BufFrames - 1 |-> 0]

Unrounded(v) ==       \* variant: the fifo is the whole buffer
  BufFrames

Rounded(v) == BufFrames - (BufFrames % v)
Period(size, v) == size \div (SignalsPerBuffer * v)

Init ==
  /\ state = "IDLE" /\ requestcode = "NOTHING"
  /\ fifosize = 0 /\ fifohead = 0 /\ fifotail = 0
  /\ vecsize \in VecSizes /\ sigcountdown = 0 /\ sigperiod = 0
  /\ matrix = "none"
  /\ fifo = Empty /\ captured = 0 /\ file = <<>>
  /\ ambix = FALSE
  /\ parent = Ready /\ child = "top" /\ block = NoBlock
  /\ trouble \in SUBSET Trouble

(* A child that finds REQUEST_BUSY at the top of its loop goes round and   *)
(* round without giving up the mutex.                                      *)
Spinning == child = "top" /\ requestcode = "BUSY"

Spin == Spinning /\ UNCHANGED vars

(* pthread_cond_signal() on either condition: where it leaves the other.   *)
ChildSignalled ==
  CASE child = "awaits request" -> "top"
    [] child = "awaits frames" -> "streaming"
    [] OTHER -> child
ParentSignalled == [parent EXCEPT !.asleep = FALSE]

-----------------------------------------------------------------------------
(* The parent                                                              *)

(* The parent takes the mutex to begin (from Ready) or go on with a call.  *)
Enters == parent = Ready /\ ~ Spinning
Resumes(call) == parent = [call |-> call, asleep |-> FALSE] /\ ~ Spinning

SleepsIn(call) ==
  /\ parent' = [call |-> call, asleep |-> TRUE]
  /\ child' = ChildSignalled

NoRoomTight ==        \* variant: head and tail may meet
  fifotail > fifohead /\ fifotail < fifohead + vecsize

(* The fifo has no room: the tail is ahead, and the head would reach it.   *)
NoRoom == fifotail > fifohead /\ fifotail < fifohead + vecsize + 1

(* interleave_samples(): one block goes to the head of the fifo, and past  *)
(* the end of it if the head is too far (TypeOK).                          *)
Written == fifohead .. fifohead + vecsize - 1
Captured == fifo' = [i \in DOMAIN fifo \cup Written |->
                       IF i \in Written THEN captured + 1 + i - fifohead ELSE fifo[i]]

Capture ==
  /\ Captured
  /\ captured' = captured + vecsize
  /\ fifohead' = IF fifohead + vecsize >= fifosize THEN 0 ELSE fifohead + vecsize

(* One DSP tick, which waits for room and then captures one block.         *)
ambix_write_perform ==
  /\ Enters \/ Resumes("perform")
  /\ state = "STREAM"
  /\ captured + vecsize <= MaxFrames
  /\ IF NoRoom
     THEN /\ SleepsIn("perform")
          /\ UNCHANGED <<ring, ticks, data>>
     ELSE /\ Capture
          /\ parent' = Ready
          /\ IF sigcountdown - 1 <= 0
             THEN sigcountdown' = sigperiod /\ child' = ChildSignalled
             ELSE sigcountdown' = sigcountdown - 1 /\ UNCHANGED child
          /\ UNCHANGED <<fifosize, fifotail, vecsize, sigperiod, file>>
  /\ UNCHANGED <<request, matrix, ambix, block, trouble>>

ambix_write_start ==
  /\ Enters
  /\ state = "STARTUP"
  /\ state' = "STREAM"
  /\ UNCHANGED <<requestcode, ring, ticks, matrix, data, ambix, parent, child,
                 block, trouble>>

Stop ==
  /\ state' = "IDLE"
  /\ requestcode' = "CLOSE"
  /\ child' = ChildSignalled
  /\ UNCHANGED <<ring, ticks, matrix, data, ambix, block, trouble>>

ambix_write_stop == Enters /\ Stop /\ UNCHANGED parent

UnlessBusy ==         \* variant: a close under way counts as idle
  requestcode \in {"NOTHING", "CLOSE"}

Idle == requestcode = "NOTHING"

(* ambix_write_open() first stops what is going on, giving up the mutex,   *)
(* then waits until the child has nothing to do.                           *)
StopForOpen ==
  /\ Enters /\ state # "IDLE"
  /\ Stop
  /\ parent' = [call |-> "open", asleep |-> FALSE]

ambix_write_open ==
  /\ (Enters /\ state = "IDLE") \/ Resumes("open")
  /\ IF ~ Idle
     THEN /\ SleepsIn("open")
          /\ UNCHANGED <<request, ring, ticks, data>>
     ELSE /\ requestcode' = "OPEN"
          /\ state' = "STARTUP"
          /\ fifosize' = Rounded(vecsize) /\ fifohead' = 0 /\ fifotail' = 0
          /\ sigperiod' = Period(Rounded(vecsize), vecsize)
          /\ sigcountdown' = sigperiod'
          /\ fifo' = Empty /\ captured' = 0 /\ file' = <<>>
          /\ parent' = Ready
          /\ child' = ChildSignalled
          /\ UNCHANGED vecsize
  /\ UNCHANGED <<matrix, ambix, block, trouble>>

(* DSP is switched on, perhaps with another block size.                    *)
ambix_write_dsp(v) ==
  /\ Enters
  /\ vecsize' = v
  /\ fifosize' = Rounded(v)
  /\ sigperiod' = Period(Rounded(v), v)
  /\ UNCHANGED <<request, fifohead, fifotail, sigcountdown, matrix, data,
                 ambix, parent, child, block, trouble>>

(* ambix_write_matrix() takes no mutex: it destroys the old matrix, then   *)
(* comes up with another one or none.  A child that takes a request in      *)
(* between (TakeOpen) copies a matrix that is no more.                     *)
DestroyMatrix ==
  /\ parent = Ready
  /\ matrix' = IF matrix = "set" THEN "freed" ELSE matrix
  /\ parent' = [call |-> "matrix", asleep |-> FALSE]
  /\ UNCHANGED <<request, ring, ticks, data, ambix, child, block, trouble>>

ambix_write_matrix ==
  /\ parent = [call |-> "matrix", asleep |-> FALSE]
  /\ matrix' \in {"set", "none"}
  /\ parent' = Ready
  /\ UNCHANGED <<request, ring, ticks, data, ambix, child, block, trouble>>

(* ambix_write_free(): QUIT, wait for the answer, join the child.          *)
RequestQuit ==
  /\ Enters
  /\ requestcode' = "QUIT"
  /\ SleepsIn("free")
  /\ UNCHANGED <<state, ring, ticks, matrix, data, ambix, block, trouble>>

AwaitQuit ==
  /\ Resumes("free")
  /\ IF requestcode # "NOTHING" THEN SleepsIn("free")
     ELSE parent' = [call |-> "join", asleep |-> FALSE] /\ UNCHANGED child
  /\ UNCHANGED <<request, ring, ticks, matrix, data, ambix, block, trouble>>

ambix_write_free ==
  /\ parent.call = "join" /\ child = "done"
  /\ parent' = [call |-> "gone", asleep |-> FALSE]
  /\ UNCHANGED <<request, ring, ticks, matrix, data, ambix, child, block,
                 trouble>>

(* Another object takes its place.                                         *)
ambix_write_new ==
  /\ parent.call = "gone"
  /\ state' = "IDLE" /\ requestcode' = "NOTHING"
  /\ fifosize' = 0 /\ fifohead' = 0 /\ fifotail' = 0
  /\ sigcountdown' = 0 /\ sigperiod' = 0
  /\ matrix' = "none"
  /\ fifo' = Empty /\ captured' = 0 /\ file' = <<>>
  /\ parent' = Ready /\ child' = "top" /\ block' = NoBlock
  /\ UNCHANGED <<vecsize, ambix, trouble>>

-----------------------------------------------------------------------------
(* The child: ambix_write_child_main()                                     *)

AwaitRequest ==
  /\ child = "top" /\ requestcode = "NOTHING"
  /\ parent' = ParentSignalled
  /\ child' = "awaits request"
  /\ UNCHANGED <<request, ring, ticks, matrix, data, ambix, block, trouble>>

(* Copies the request, matrix included, and gives up the mutex to open.    *)
TakeOpen ==
  /\ child = "top" /\ requestcode = "OPEN"
  /\ requestcode' = "BUSY"
  /\ ambix' = FALSE
  /\ child' = "opening"
  /\ UNCHANGED <<state, ring, ticks, matrix, data, parent, block, trouble>>

RequestAfterOpen(ok) == IF ok THEN requestcode ELSE "NOTHING"

Opened(ok) ==
  /\ child = "opening"
  /\ ok \/ "open fails" \in trouble
  /\ ambix' = ok
  /\ requestcode' = RequestAfterOpen(ok)
  /\ child' = IF ok /\ requestcode = "BUSY" THEN "streaming" ELSE "top"
  /\ fifotail' = IF child' = "streaming" THEN 0 ELSE fifotail
  /\ UNCHANGED <<state, fifosize, fifohead, ticks, matrix, data, parent, block,
                 trouble>>

StreamsBusy ==        \* variant: a close leaves the loop at once
  requestcode = "BUSY"

StreamsOnClose ==     \* variant: a close does not end the loop
  requestcode \in {"BUSY", "CLOSE"}

(* The child stays in its write loop until a close finds the fifo empty.   *)
Streams == requestcode = "BUSY" \/ (requestcode = "CLOSE" /\ fifohead # fifotail)

(* It writes when a lot has piled up, and whatever there is when closing.  *)
Worthwhile ==
  \/ fifohead < fifotail
  \/ fifohead >= fifotail + WRITFRAMES
  \/ requestcode = "CLOSE" /\ fifohead # fifotail

FifoEnd == fifosize   \* variant: as if the head were always behind the tail

(* How far the frames reach that are in one piece.                         *)
Upto == IF fifohead < fifotail THEN fifosize ELSE fifohead

BeginWrite ==
  /\ child = "streaming" /\ Streams /\ Worthwhile
  /\ LET most == Upto - fifotail
     IN block' = [at |-> fifotail, size |-> fifosize,
                  n |-> IF most > WRITFRAMES THEN WRITFRAMES ELSE most]
  /\ child' = "writing"
  /\ UNCHANGED <<request, ring, ticks, matrix, data, ambix, parent, trouble>>

AwaitFrames ==
  /\ child = "streaming" /\ Streams /\ ~ Worthwhile
  /\ parent' = ParentSignalled
  /\ child' = "awaits frames"
  /\ UNCHANGED <<request, ring, ticks, matrix, data, ambix, block, trouble>>

LeaveLoop ==
  /\ child = "streaming" /\ ~ Streams
  /\ child' = "top"
  /\ UNCHANGED <<request, ring, ticks, matrix, data, ambix, parent, block,
                 trouble>>

(* The frames of a block, as split_samples() finds them without the mutex. *)
Frames(b) == [i \in 1 .. b.n |-> fifo[b.at + i - 1]]

Wrote(ok) ==
  /\ child = "writing"
  /\ ok \/ "write fails" \in trouble
  /\ file' = IF ok THEN file \o Frames(block) ELSE file
  /\ block' = NoBlock
  /\ IF ok /\ requestcode \in {"BUSY", "CLOSE"}
     THEN /\ fifotail' = IF fifotail + block.n = block.size THEN 0
                         ELSE fifotail + block.n
          /\ parent' = ParentSignalled
          /\ child' = "streaming"
     ELSE UNCHANGED <<fifotail, parent>> /\ child' = "top"
  /\ UNCHANGED <<request, fifosize, fifohead, ticks, matrix, fifo, captured,
                 ambix, trouble>>

(* REQUEST_CLOSE and REQUEST_QUIT: the file is closed without the mutex,   *)
(* and whatever was requested meanwhile is taken for answered.             *)
Answered(quit) ==
  /\ requestcode' = "NOTHING"
  /\ parent' = ParentSignalled
  /\ child' = IF quit THEN "done" ELSE "top"
  /\ UNCHANGED <<state, ring, ticks, matrix, data, block, trouble>>

BeginClose ==
  /\ child = "top" /\ requestcode \in {"CLOSE", "QUIT"} /\ ambix
  /\ child' = IF requestcode = "QUIT" THEN "closing to quit" ELSE "closing"
  /\ UNCHANGED <<request, ring, ticks, matrix, data, ambix, parent, block,
                 trouble>>

NothingToClose ==
  /\ child = "top" /\ requestcode \in {"CLOSE", "QUIT"} /\ ~ ambix
  /\ Answered(requestcode = "QUIT")
  /\ UNCHANGED ambix

Closed ==
  /\ child \in {"closing", "closing to quit"}
  /\ ambix' = FALSE
  /\ Answered(child = "closing to quit")

-----------------------------------------------------------------------------
(* What does not go wrong around this object, of what the code does not    *)
(* rule out itself.                                                        *)

(* The tick that fills the fifo up to a tail at 0, where a full fifo and   *)
(* an empty one are the same, does not come: the child is faster.          *)
FillsUp == fifotail = 0 /\ fifohead + vecsize >= fifosize
KeepsUp == "falls behind" \in trouble \/ ~ FillsUp

(* DSP keeps its block size during a recording.                            *)
KeepsBlocks ==
  "blocks change" \in trouble \/ (state = "IDLE" /\ requestcode = "NOTHING")

(* The object is not deleted while the child opens or closes a file.       *)
Deletable == child \in {"awaits request", "awaits frames", "streaming", "writing"}
DeletedInPeace ==
  "freed any time" \in trouble \/ (Deletable /\ requestcode # "CLOSE")

-----------------------------------------------------------------------------
Tick == KeepsUp /\ ambix_write_perform

Messages ==
  \/ ambix_write_start \/ ambix_write_stop
  \/ StopForOpen \/ (parent = Ready /\ ambix_write_open)
  \/ KeepsBlocks /\ \E v \in VecSizes : ambix_write_dsp(v)
  \/ DestroyMatrix
  \/ DeletedInPeace /\ RequestQuit
  \/ ambix_write_new

(* What the parent does once it is in a call.                              *)
Resume ==
  \/ parent # Ready /\ (Tick \/ ambix_write_open)
  \/ AwaitQuit \/ ambix_write_free
  \/ ambix_write_matrix

Child ==
  \/ AwaitRequest
  \/ TakeOpen \/ \E ok \in BOOLEAN : Opened(ok)
  \/ BeginWrite \/ AwaitFrames \/ LeaveLoop \/ \E ok \in BOOLEAN : Wrote(ok)
  \/ BeginClose \/ NothingToClose \/ Closed
  \/ Spin

Next == Messages \/ (parent = Ready /\ Tick) \/ Resume \/ Child

(* Both threads are scheduled, and calls into libambix return.  Nothing is *)
(* assumed about messages and DSP ticks: they may never come.              *)
Fairness == WF_vars(Child) /\ WF_vars(Resume)

Spec == Init /\ [][Next]_vars /\ Fairness
-----------------------------------------------------------------------------
(* Properties                                                              *)

Calls == {"none", "perform", "open", "matrix", "free", "join", "gone"}
Places == {"top", "awaits request", "opening", "streaming", "awaits frames",
           "writing", "closing", "closing to quit", "done"}

(* Every variable stays in its type: the positions are in the buffer, a    *)
(* tick writes none but its frames (fifo has no others), and the block the *)
(* child reads ends within it.                                             *)
TypeOK ==
  /\ state \in {"IDLE", "STARTUP", "STREAM"}
  /\ requestcode \in {"NOTHING", "OPEN", "CLOSE", "QUIT", "BUSY"}
  /\ fifosize \in 0 .. BufFrames
  /\ fifohead \in 0 .. BufFrames /\ fifotail \in 0 .. BufFrames
  /\ vecsize \in VecSizes
  /\ sigcountdown \in 0 .. BufFrames /\ sigperiod \in 0 .. BufFrames
  /\ matrix \in {"none", "set", "freed"}
  /\ fifo \in [0 .. BufFrames - 1 -> 0 .. MaxFrames]
  /\ captured \in 0 .. MaxFrames
  /\ file \in Seq(0 .. MaxFrames)
  /\ ambix \in BOOLEAN
  /\ parent \in [call : Calls, asleep : BOOLEAN] /\ child \in Places
  /\ block \in [at : 0 .. BufFrames, n : 0 .. BufFrames, size : 0 .. BufFrames]
  /\ block.at + block.n <= BufFrames
  /\ trouble \subseteq Trouble

(* The file is a recording: its frames are the captured ones, in order,    *)
(* without a gap, through all the wrapping of the fifo and the waiting of  *)
(* both threads.                                                           *)
FileIsRecording ==
  /\ Len(file) <= captured
  /\ \A i \in DOMAIN file : file[i] = i

(* "this should never happen since ambix_write_open() calls stop if needed *)
(* and then waits until we're idle" (ambix_write~.c:286): no file is open  *)
(* when the child is told to open one.                                     *)
OpensOnlyWhenClosed == requestcode = "OPEN" => ~ ambix

(* What the child reads of the fifo without the mutex stays as it is until *)
(* it has been written, ticks notwithstanding.                             *)
BlockUndisturbed ==
  [][child = "writing" /\ child' = "writing" => Frames(block)' = Frames(block)]_vars

(* Files may fail to open; everything else goes well.                      *)
Untroubled == trouble \subseteq {"open fails"}

(* Every call the parent makes comes back, whatever the child is at: each  *)
(* wait is answered, with signals that are lost when nobody waits.         *)
CallsReturn == Untroubled => \A call \in {"perform", "open", "free"} :
                 (parent.call = call ~> parent.call \in {"none", "gone"})

(* A stop of a recording under way ends with everything captured in the    *)
(* file and the file closed, unless the object is deleted.                 *)
StopFlushes ==
  Untroubled =>
    (child \in {"streaming", "writing", "awaits frames"} /\ requestcode = "CLOSE"
       ~> (~ ambix /\ Len(file) = captured) \/ requestcode = "QUIT")

(* The fifo and the child together are a queue that loses nothing.         *)
Fifo == INSTANCE SampleFifo WITH Capacity <- BufFrames, put <- captured,
                                 got <- file
ImplementsFifo == Fifo!Spec

(* What the code and its help say (each refuted by a run of its own)       *)

(* "request QUIT and wait for acknowledge" (ambix_write~.c:642): deleting  *)
(* the object comes to an end.                                             *)
FreeReturns == parent.call = "free" ~> parent.call = "gone"
=============================================================================
