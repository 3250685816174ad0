------------------------------- MODULE PdRead --------------------------------
(***************************************************************************)
(* The Pd external [ambix_read~] (samples/pd/ambix_read~.c): the parent    *)
(* thread, which takes messages, clock callbacks and DSP ticks one at a    *)
(* time, and the child thread, which opens, reads and closes the file.     *)
(*                                                                         *)
(* Steps and conditions are as in PdWrite.  Unlike its sibling an open     *)
(* does not wait here: it overtakes whatever the child is doing.           *)
(*                                                                         *)
(* A file goes by the number of its frames, and one of 0 frames cannot be  *)
(* opened.  A frame is the file it is from and its place in it.            *)
(***************************************************************************)
EXTENDS Integers, Sequences

CONSTANTS
  BufFrames,         \* x_bufframes
  VecSizes,          \* block sizes DSP may run with
  READFRAMES,        \* frames the child reads at a time
  SignalsPerBuffer,  \* 16 in the code
  Files,             \* the files there are
  Onsets,            \* how many frames "open" may skip
  Positions,         \* where "seek" may go
  Trouble            \* what may go wrong around the object

Troubles == {
  "read fails",      \* ambix_readf_float32() returns an error
  "fails late",      \* an open fails that another open has overtaken
  "blocks change"}   \* DSP restarts with another block size while playing

ASSUME PdReadAssumption ==
  /\ BufFrames \in Nat \ {0}
  /\ VecSizes \subseteq 2 .. BufFrames /\ VecSizes # {}
  /\ READFRAMES \in Nat \ {0} /\ SignalsPerBuffer \in Nat \ {0}
  /\ Files \subseteq Nat /\ Onsets \subseteq Nat /\ Positions \subseteq Nat
  /\ Trouble \subseteq Troubles

VARIABLES
  state, requestcode,
  filename, onsetframes,
  fifosize, fifohead, fifotail, eof,
  vecsize, sigcountdown, sigperiod,
  infoflags, clock,  \* what the clock callback is to tell, and whether it is set
  fifo,              \* x_buf
  loaded,            \* frames put into the fifo since the last open
  played,            \* frames put out since the last open
  handle,            \* x_ambix_t: a file and a place in it
  parent,            \* the call it is in, and whether it sleeps there
  child,             \* where the child is
  taken,             \* the request the child has copied
  block              \* what the child is reading

request == <<state, requestcode, filename, onsetframes>>
ring == <<fifosize, fifohead, fifotail, eof>>
ticks == <<vecsize, sigcountdown, sigperiod>>
info == <<infoflags, clock>>
data == <<fifo, loaded, played>>
thread == <<child, taken, block>>
vars == <<request, ring, ticks, info, data, handle, parent, thread>>

Ready == [call |-> "none", asleep |-> FALSE]
Silence == [file |-> 0, at |-> 0]
NoHandle == Silence
NoBlock == [at |-> 0, n |-> 0, size |-> 0]
Empty == [i \in 0 .. BufFrames - 1 |-> Silence]
AtMost(a, b) == IF a < b THEN a ELSE b

Rounded(v) == BufFrames - (BufFrames % v)
Period(size, v) == size \div (SignalsPerBuffer * v)

Init ==
  /\ state = "IDLE" /\ requestcode = "NOTHING"
  /\ filename = 0 /\ onsetframes = 0
  /\ fifosize = 0 /\ fifohead = 0 /\ fifotail = 0 /\ eof = FALSE
  /\ vecsize \in VecSizes /\ sigcountdown = 0 /\ sigperiod = 0
  /\ infoflags = {} /\ clock = FALSE
  /\ fifo = Empty /\ loaded = <<>> /\ played = <<>>
  /\ handle = NoHandle
  /\ parent = Ready /\ child = "top" /\ taken = Silence /\ block = NoBlock

(* pthread_cond_signal() on either condition: where it leaves the other.   *)
ChildSignalled ==
  CASE child = "awaits request" -> "top"
    [] child = "awaits room" -> "streaming"
    [] OTHER -> child
SignalsChild == child' = ChildSignalled /\ UNCHANGED <<taken, block>>
SignalsParent == parent' = [parent EXCEPT !.asleep = FALSE]

Resumes(call) == parent = [call |-> call, asleep |-> FALSE]
SleepsIn(call) == parent' = [call |-> call, asleep |-> TRUE] /\ SignalsChild

-----------------------------------------------------------------------------
(* The parent: DSP                                                         *)

(* A tick that comes while the callback has something to tell about the    *)
(* file puts out silence and sets the clock.                               *)
Skip ==
  /\ parent = Ready /\ "ambix" \in infoflags
  /\ clock' = TRUE
  /\ UNCHANGED <<request, ring, ticks, infoflags, data, handle, parent, thread>>

Streaming ==
  /\ state = "STREAM"
  /\ (parent = Ready /\ "ambix" \notin infoflags) \/ Resumes("perform")

(* The fifo is about to drain: fewer frames than a tick takes, but for one *)
Draining == fifohead >= fifotail /\ fifohead < fifotail + vecsize - 1

Starve ==
  /\ Streaming /\ Draining /\ ~ eof
  /\ SleepsIn("perform")
  /\ UNCHANGED <<request, ring, ticks, info, data, handle>>

(* n frames from the tail of the fifo go to the outlets.  What goes on      *)
(* behind the frames that were read is not recorded (the bound on played). *)
PutOut(n) ==
  /\ played' = IF Len(played) <= Len(loaded)
               THEN played \o [i \in 1 .. n |-> fifo[fifotail + i - 1]]
               ELSE played
  /\ UNCHANGED <<fifo, loaded>>

(* The last tick puts out what is left, and one frame more.                *)
EndOfFile ==
  /\ Streaming /\ Draining /\ eof
  /\ infoflags' = infoflags \cup {"eof"} /\ clock' = TRUE
  /\ state' = "IDLE"
  /\ PutOut(fifohead - fifotail + 1)
  /\ parent' = Ready /\ SignalsChild
  /\ UNCHANGED <<requestcode, filename, onsetframes, ring, ticks, handle>>

Play ==
  /\ Streaming /\ ~ Draining
  /\ PutOut(vecsize)
  /\ fifotail' = IF fifotail + vecsize >= fifosize THEN 0 ELSE fifotail + vecsize
  /\ IF sigcountdown - 1 <= 0
     THEN sigcountdown' = sigperiod /\ SignalsChild
     ELSE sigcountdown' = sigcountdown - 1 /\ UNCHANGED thread
  /\ parent' = Ready
  /\ UNCHANGED <<request, fifosize, fifohead, eof, vecsize, sigperiod, info, handle>>

ambix_read_perform == Skip \/ Starve \/ EndOfFile \/ Play

(* The clock callback tells about the file and of its end.  It asks        *)
(* x_ambix_t for markers, which may be closed by now (undefined there).    *)
ambix_read_tick ==
  /\ parent = Ready /\ clock
  /\ clock' = FALSE /\ infoflags' = {}
  /\ UNCHANGED <<request, ring, ticks, data, handle, parent, thread>>

-----------------------------------------------------------------------------
(* The parent: messages                                                    *)

ambix_read_start ==
  /\ parent = Ready /\ state = "STARTUP"
  /\ state' = "STREAM"
  /\ UNCHANGED <<requestcode, filename, onsetframes, ring, ticks, info, data,
                 handle, parent, thread>>

ambix_read_stop ==
  /\ parent = Ready
  /\ state' = "IDLE" /\ requestcode' = "CLOSE"
  /\ SignalsChild
  /\ UNCHANGED <<filename, onsetframes, ring, ticks, info, data, handle, parent>>

RestartedLate ==      \* variant: the end of the last file stays
  fifohead' = 0 /\ fifotail' = 0 /\ eof' = eof

Restarted == fifohead' = 0 /\ fifotail' = 0 /\ eof' = FALSE

ambix_read_open(f, onset) ==
  /\ parent = Ready
  /\ requestcode' = "OPEN" /\ state' = "STARTUP"
  /\ filename' = f /\ onsetframes' = onset
  /\ Restarted
  /\ loaded' = <<>> /\ played' = <<>>
  /\ SignalsChild
  /\ UNCHANGED <<fifosize, ticks, info, fifo, handle, parent>>

(* DSP is switched on, perhaps with another block size.                    *)
ambix_read_dsp(v) ==
  /\ parent = Ready
  /\ vecsize' = v
  /\ sigperiod' = Period(fifosize, v)
  /\ UNCHANGED <<request, ring, sigcountdown, info, data, handle, parent, thread>>

(* The handle the child reads from is moved; libsndfile refuses a place    *)
(* behind the end of the file.  A seek while the child reads or closes the *)
(* handle comes before or after (what libsndfile does in between is        *)
(* undefined).                                                             *)
Sought(h, p) == IF p <= h.file THEN [h EXCEPT !.at = p] ELSE h

ambix_seek_pos(p) ==
  /\ parent = Ready /\ handle # NoHandle /\ state = "STARTUP"
  /\ handle' = Sought(handle, p)
  /\ UNCHANGED <<request, ring, ticks, info, data, parent, thread>>

(* ambix_read_free(): QUIT, wait for the answer, join the child.           *)
RequestQuit ==
  /\ parent = Ready
  /\ requestcode' = "QUIT"
  /\ SleepsIn("free")
  /\ UNCHANGED <<state, filename, onsetframes, ring, ticks, info, data, handle>>

AwaitQuit ==
  /\ Resumes("free")
  /\ IF requestcode # "NOTHING" THEN SleepsIn("free")
     ELSE parent' = [call |-> "join", asleep |-> FALSE] /\ UNCHANGED thread
  /\ UNCHANGED <<request, ring, ticks, info, data, handle>>

ambix_read_free ==
  /\ parent.call = "join" /\ child = "done"
  /\ parent' = [call |-> "gone", asleep |-> FALSE]
  /\ UNCHANGED <<request, ring, ticks, info, data, handle, thread>>

(* Another object takes its place.                                         *)
ambix_read_new ==
  /\ parent.call = "gone"
  /\ state' = "IDLE" /\ requestcode' = "NOTHING"
  /\ filename' = 0 /\ onsetframes' = 0
  /\ fifosize' = 0 /\ fifohead' = 0 /\ fifotail' = 0 /\ eof' = FALSE
  /\ sigcountdown' = 0 /\ sigperiod' = 0
  /\ infoflags' = {} /\ clock' = FALSE
  /\ fifo' = Empty /\ loaded' = <<>> /\ played' = <<>>
  /\ parent' = Ready /\ child' = "top" /\ taken' = Silence /\ block' = NoBlock
  /\ UNCHANGED <<vecsize, handle>>

-----------------------------------------------------------------------------
(* The child: ambix_read_child_main()                                      *)

AwaitRequest ==
  /\ child = "top" /\ requestcode = "NOTHING"
  /\ SignalsParent
  /\ child' = "awaits request"
  /\ UNCHANGED <<request, ring, ticks, info, data, handle, taken, block>>

(* Copies the request and gives up the mutex to open.                      *)
TakeOpen ==
  /\ child = "top" /\ requestcode = "OPEN"
  /\ requestcode' = "BUSY"
  /\ taken' = [file |-> filename, at |-> onsetframes]
  /\ child' = "opening"
  /\ UNCHANGED <<state, filename, onsetframes, ring, ticks, info, data, handle,
                 parent, block>>

LostOpen(h) ==        \* variant: an overtaken request leaves its file open
  /\ requestcode' = IF requestcode = "BUSY" THEN "NOTHING" ELSE requestcode
  /\ handle' = h
  /\ IF h = NoHandle \/ requestcode # "BUSY"
     THEN child' = "top" /\ SignalsParent
     ELSE child' = "leaving" /\ UNCHANGED parent

LostAnswering(h) ==   \* variant: whatever was requested counts as done
  /\ requestcode' = "NOTHING"
  /\ handle' = h
  /\ IF h = NoHandle THEN child' = "top" /\ SignalsParent
     ELSE child' = "leaving" /\ UNCHANGED parent

(* lost: a request that has not been overtaken is done, and whatever the   *)
(* child has open (h) is closed, without the mutex.                        *)
Lost(h) ==
  /\ requestcode' = IF requestcode = "BUSY" THEN "NOTHING" ELSE requestcode
  /\ handle' = h
  /\ IF h = NoHandle THEN child' = "top" /\ SignalsParent
     ELSE child' = "leaving" /\ UNCHANGED parent

OpenFailed ==
  /\ child = "opening" /\ taken.file = 0
  /\ eof' = TRUE
  /\ taken' = Silence
  /\ Lost(NoHandle)
  /\ UNCHANGED <<state, filename, onsetframes, fifosize, fifohead, fifotail,
                 ticks, info, data, block>>

Handle == Sought([file |-> taken.file, at |-> 0], taken.at)

OpenOvertaken ==
  /\ child = "opening" /\ taken.file # 0 /\ requestcode # "BUSY"
  /\ taken' = Silence
  /\ Lost(Handle)
  /\ UNCHANGED <<state, filename, onsetframes, ring, ticks, info, data, block>>

Opened ==
  /\ child = "opening" /\ taken.file # 0 /\ requestcode = "BUSY"
  /\ handle' = Handle
  /\ infoflags' = infoflags \cup {"ambix"}
  /\ fifo' = Empty
  /\ fifohead' = 0
  /\ fifosize' = Rounded(vecsize)
  /\ sigperiod' = Period(Rounded(vecsize), vecsize) /\ sigcountdown' = sigperiod'
  /\ taken' = Silence
  /\ child' = "streaming"
  /\ UNCHANGED <<request, fifotail, eof, vecsize, clock, loaded, played, parent,
                 block>>

(* The child stays in its read loop until the end or another request.      *)
Streams == requestcode = "BUSY" /\ ~ eof

RoomAnyway ==         \* variant: the fifo may be filled up
  IF fifohead >= fifotail THEN TRUE ELSE fifotail - fifohead >= READFRAMES

(* Room for a read that leaves the fifo short of full.                     *)
Room ==
  IF fifohead >= fifotail
  THEN fifotail # 0 \/ fifosize - fifohead > READFRAMES
  ELSE fifotail - fifohead - 1 >= READFRAMES

Wanted ==
  IF fifohead >= fifotail THEN AtMost(fifosize - fifohead, READFRAMES)
  ELSE READFRAMES

AwaitRoom ==
  /\ child = "streaming" /\ Streams /\ ~ Room
  /\ SignalsParent
  /\ child' = "awaits room"
  /\ UNCHANGED <<request, ring, ticks, info, data, handle, taken, block>>

BeginRead ==
  /\ child = "streaming" /\ Streams /\ Room
  /\ block' = [at |-> fifohead, n |-> Wanted, size |-> fifosize]
  /\ child' = "reading"
  /\ UNCHANGED <<request, ring, ticks, info, data, handle, parent, taken>>

LeaveLoop ==
  /\ child = "streaming" /\ ~ Streams
  /\ Lost(handle)
  /\ UNCHANGED <<state, filename, onsetframes, ring, ticks, info, data, taken, block>>

(* ambix_readf_float32() and merge_samples(), without the mutex: past the  *)
(* end of the fifo if the block does not end there (TypeOK).               *)
ReadBlock ==
  /\ child = "reading"
  /\ LET n == AtMost(block.n, handle.file - handle.at)
         new == block.at .. block.at + n - 1
     IN /\ fifo' = [i \in DOMAIN fifo \cup new |->
                      IF i \in new THEN [handle EXCEPT !.at = @ + 1 + i - block.at]
                      ELSE fifo[i]]
        /\ handle' = [handle EXCEPT !.at = @ + n]
        /\ block' = [block EXCEPT !.n = n]
  /\ child' = "has read"
  /\ UNCHANGED <<request, ring, ticks, info, loaded, played, parent, taken>>

ReadFails ==
  /\ child = "reading" /\ "read fails" \in Trouble
  /\ block' = [block EXCEPT !.n = -1]
  /\ child' = "has read"
  /\ UNCHANGED <<request, ring, ticks, info, data, handle, parent, taken>>

AcceptedLate ==       \* variant: the request is not looked at again
  block.n > 0

(* With the mutex again, a block counts if nothing has been requested.     *)
Accepted == requestcode = "BUSY" /\ block.n > 0

HeadUnwrapped ==      \* variant: the head is not wrapped
  fifohead + block.n

HeadBehind == IF fifohead + block.n = block.size THEN 0 ELSE fifohead + block.n

Load ==
  /\ child = "has read" /\ Accepted
  /\ fifohead' = HeadBehind
  /\ loaded' = loaded \o [i \in 1 .. block.n |-> fifo[block.at + i - 1]]
  /\ block' = NoBlock
  /\ child' = "streaming"
  /\ SignalsParent
  /\ UNCHANGED <<request, fifosize, fifotail, eof, ticks, info, fifo, played,
                 handle, taken>>

EndMissed ==          \* variant: a read of nothing is taken for an error
  eof

EndSeen == eof \/ (requestcode = "BUSY" /\ block.n = 0)

StopReading ==
  /\ child = "has read" /\ ~ Accepted
  /\ eof' = EndSeen
  /\ block' = NoBlock
  /\ Lost(handle)
  /\ UNCHANGED <<state, filename, onsetframes, fifosize, fifohead, fifotail,
                 ticks, info, data, taken>>

Closed ==
  /\ child = "leaving"
  /\ handle' = NoHandle
  /\ child' = "top"
  /\ SignalsParent
  /\ UNCHANGED <<request, ring, ticks, info, data, taken, block>>

(* REQUEST_CLOSE and REQUEST_QUIT find nothing to close: see               *)
(* ClosedBetweenRequests.                                                  *)
Answer ==
  /\ child = "top" /\ requestcode \in {"CLOSE", "QUIT"}
  /\ requestcode' = "NOTHING"
  /\ child' = IF requestcode = "QUIT" THEN "done" ELSE "top"
  /\ SignalsParent
  /\ UNCHANGED <<state, filename, onsetframes, ring, ticks, info, data, handle,
                 taken, block>>
-----------------------------------------------------------------------------
(* What does not go wrong around this object, of what the code does not    *)
(* rule out itself.                                                        *)

(* A file that cannot be opened fails before another one is asked for.     *)
FailsInTime ==
  "fails late" \in Trouble \/ ~ (child = "opening" /\ taken.file = 0)

(* DSP keeps its block size during a playback.                             *)
KeepsBlocks ==
  "blocks change" \in Trouble \/ (state = "IDLE" /\ requestcode = "NOTHING")

-----------------------------------------------------------------------------
Messages ==
  \/ ambix_read_start \/ ambix_read_stop
  \/ FailsInTime /\ \E f \in Files, p \in Onsets : ambix_read_open(f, p)
  \/ KeepsBlocks /\ \E v \in VecSizes : ambix_read_dsp(v)
  \/ \E p \in Positions : ambix_seek_pos(p)
  \/ RequestQuit
  \/ ambix_read_new

Deletion == AwaitQuit \/ ambix_read_free

Child ==
  \/ AwaitRequest
  \/ TakeOpen \/ OpenFailed \/ OpenOvertaken \/ Opened
  \/ AwaitRoom \/ BeginRead \/ LeaveLoop
  \/ ReadBlock \/ ReadFails \/ Load \/ StopReading
  \/ Closed \/ Answer

Next == Messages \/ ambix_read_perform \/ ambix_read_tick \/ Deletion \/ Child

(* DSP is on: its ticks and the clock keep coming.  Both threads are       *)
(* scheduled and calls into libambix return; messages may never come.      *)
Fairness ==
  /\ WF_vars(ambix_read_perform) /\ WF_vars(ambix_read_tick)
  /\ WF_vars(Deletion) /\ WF_vars(Child)

Spec == Init /\ [][Next]_vars /\ Fairness
-----------------------------------------------------------------------------
(* Properties                                                              *)

Calls == {"none", "perform", "free", "join", "gone"}
At == {"top", "awaits request", "opening", "streaming", "awaits room",
       "reading", "has read", "leaving", "done"}
Frame == [file : Files \cup {0}, at : Nat]

(* Every variable stays in its type, the positions in the buffer.          *)
TypeOK ==
  /\ state \in {"IDLE", "STARTUP", "STREAM"}
  /\ requestcode \in {"NOTHING", "OPEN", "CLOSE", "QUIT", "BUSY"}
  /\ filename \in Files \cup {0} /\ onsetframes \in Nat
  /\ fifosize \in 0 .. BufFrames /\ eof \in BOOLEAN
  /\ fifohead \in 0 .. BufFrames - 1 /\ fifotail \in 0 .. BufFrames - 1
  /\ fifosize > 0 => fifohead < fifosize /\ fifotail < fifosize
  /\ vecsize \in VecSizes
  /\ sigcountdown \in 0 .. BufFrames /\ sigperiod \in 0 .. BufFrames
  /\ infoflags \subseteq {"ambix", "eof"} /\ clock \in BOOLEAN
  /\ fifo \in [0 .. BufFrames - 1 -> Frame]
  /\ loaded \in Seq(Frame) /\ played \in Seq(Frame)
  /\ handle \in Frame /\ taken \in Frame
  /\ parent \in [call : Calls, asleep : BOOLEAN] /\ child \in At
  /\ block \in [at : 0 .. BufFrames - 1, n : -1 .. READFRAMES, size : 0 .. BufFrames]

(* What is put out is what was read, frame by frame, through all the       *)
(* wrapping of the fifo and the waiting of both threads; at the very end   *)
(* of the file one frame more comes out.                                   *)
PlaysInOrder ==
  /\ \A i \in DOMAIN played : i <= Len(loaded) => played[i] = loaded[i]
  /\ Len(played) <= Len(loaded) + (IF state = "IDLE" /\ eof THEN 1 ELSE 0)

(* What is read is the file asked for last, whatever the child was reading *)
(* when the open overtook it, from the place asked for and without a gap,  *)
(* but for what was sought.                                                *)
Asked == Sought([file |-> filename, at |-> 0], onsetframes)
LoadsFileAskedFor ==
  \A i \in DOMAIN loaded :
    /\ loaded[i].file = Asked.file
    /\ \/ loaded[i].at - 1 \in Positions \cup {Asked.at}
       \/ i > 1 /\ loaded[i].at = loaded[i - 1].at + 1

(* "check if another request has been made; if so, field it"               *)
(* (ambix_read~.c:290): however requests overtake each other, the child    *)
(* has no file open when it takes the next one.                            *)
ClosedBetweenRequests ==
  child \in {"top", "awaits request", "opening", "done"} => handle = NoHandle

(* A playback that comes to its end has put out the file to its last frame.*)
PlaysToTheEnd ==
  [][EndOfFile /\ filename # 0 =>
       /\ loaded # <<>> /\ loaded[Len(loaded)].at = filename
       /\ Len(played') >= Len(loaded)]_vars

(* A playback ends, by itself or by a message, if no read fails: every     *)
(* wait of the tick for the child and of the child for the tick is         *)
(* answered, and the end of the file is noticed ("check for EOF (and       *)
(* buffer is about to drain)", ambix_read~.c:625).                         *)
PlaybackEnds ==
  [](block.n >= 0) => (state = "STREAM" ~> state # "STREAM" \/ parent.call = "gone")

(* "request QUIT and wait for acknowledge" (ambix_read~.c:772): deleting   *)
(* the object comes to an end, whatever the child is at.                   *)
FreeReturns == parent.call = "free" ~> parent.call = "gone"

(* The fifo is a queue that loses nothing; the frame too much at the end   *)
(* does not count.                                                         *)
Numbered == [i \in 1 .. AtMost(Len(played), Len(loaded)) |->
               IF played[i] = loaded[i] THEN i ELSE 0]
Fifo == INSTANCE SampleFifo WITH Capacity <- BufFrames, put <- Len(loaded),
                                 got <- Numbered
ImplementsFifo == Fifo!Spec
=============================================================================
