---------------------------- MODULE PdReadProofs -----------------------------
(***************************************************************************)
(* Theorems about PdRead, for all values of its constants.                 *)
(***************************************************************************)
EXTENDS PdRead, SequenceTheorems, TLAPS

(* What a request finds closed, and why it stays so when another object    *)
(* takes the place of one that is deleted: the child has ended by then.    *)
CloseInv ==
  /\ parent \in [call : Calls, asleep : BOOLEAN]
  /\ parent.call = "gone" => child = "done"
  /\ ClosedBetweenRequests

(* A signal changes where the child waits, and nothing else.               *)
LEMMA Signals ==
  ASSUME SignalsChild
  PROVE  /\ child = "done" => child' = "done"
         /\ child' \in {"top", "awaits request", "opening", "done"}
              => child \in {"top", "awaits request", "opening", "done"}
BY DEF SignalsChild, ChildSignalled

(* lost: the child goes to the top only with nothing open.                 *)
LEMMA LostCloses ==
  ASSUME NEW h, Lost(h), parent \in [call : Calls, asleep : BOOLEAN]
  PROVE  /\ child' \in {"top", "leaving"}
         /\ child' = "top" => handle' = NoHandle
         /\ parent' \in [call : Calls, asleep : BOOLEAN]
         /\ parent'.call = parent.call
BY DEF Lost, SignalsParent

LEMMA CloseInit == Init => CloseInv
BY DEF Init, CloseInv, ClosedBetweenRequests, Ready, Calls

LEMMA MessagesKeepClosed == CloseInv /\ Messages => CloseInv'
<1> SUFFICES ASSUME CloseInv, Messages PROVE CloseInv'
  OBVIOUS
<1> USE DEF CloseInv, ClosedBetweenRequests, Ready, Calls, request, ring, ticks,
            info, data, thread
<1>1. CASE ambix_read_start
  BY <1>1 DEF ambix_read_start
<1>2. CASE ambix_read_stop
  BY <1>2, Signals DEF ambix_read_stop
<1>3. ASSUME NEW f \in Files, NEW p \in Onsets, ambix_read_open(f, p)
      PROVE  CloseInv'
  BY <1>3, Signals DEF ambix_read_open
<1>4. ASSUME NEW v \in VecSizes, ambix_read_dsp(v) PROVE CloseInv'
  BY <1>4 DEF ambix_read_dsp
<1>5. ASSUME NEW p \in Positions, ambix_seek_pos(p) PROVE CloseInv'
  BY <1>5 DEF ambix_seek_pos
<1>6. CASE RequestQuit
  BY <1>6, Signals DEF RequestQuit, SleepsIn
<1>7. CASE ambix_read_new
  BY <1>7 DEF ambix_read_new
<1> QED
  BY <1>1, <1>2, <1>3, <1>4, <1>5, <1>6, <1>7 DEF Messages

LEMMA DspKeepsClosed ==
  CloseInv /\ (ambix_read_perform \/ ambix_read_tick) => CloseInv'
<1> SUFFICES ASSUME CloseInv, ambix_read_perform \/ ambix_read_tick
             PROVE  CloseInv'
  OBVIOUS
<1> USE DEF CloseInv, ClosedBetweenRequests, Ready, Calls, request, ring, ticks,
            info, data, thread
<1>1. CASE Skip
  BY <1>1 DEF Skip
<1>2. CASE Starve
  BY <1>2, Signals DEF Starve, Streaming, Resumes, SleepsIn
<1>3. CASE EndOfFile
  BY <1>3, Signals DEF EndOfFile
<1>4. CASE Play
  <2>1. child' = child \/ SignalsChild
    BY <1>4 DEF Play
  <2> QED
    BY <1>4, <2>1, Signals DEF Play
<1>5. CASE ambix_read_tick
  BY <1>5 DEF ambix_read_tick
<1> QED
  BY <1>1, <1>2, <1>3, <1>4, <1>5 DEF ambix_read_perform

LEMMA DeletionKeepsClosed == CloseInv /\ Deletion => CloseInv'
<1> SUFFICES ASSUME CloseInv, Deletion PROVE CloseInv'
  OBVIOUS
<1> USE DEF CloseInv, ClosedBetweenRequests, Ready, Calls, request, ring, ticks,
            info, data, thread
<1>1. CASE AwaitQuit
  <2>1. parent.call = "free" /\ handle' = handle
    BY <1>1 DEF AwaitQuit, Resumes
  <2>2. CASE requestcode # "NOTHING"
    <3>1. SignalsChild /\ parent' = [call |-> "free", asleep |-> TRUE]
      BY <1>1, <2>2 DEF AwaitQuit, SleepsIn
    <3> QED
      BY <2>1, <3>1, Signals
  <2>3. CASE requestcode = "NOTHING"
    <3>1. child' = child /\ parent' = [call |-> "join", asleep |-> FALSE]
      BY <1>1, <2>3 DEF AwaitQuit
    <3> QED
      BY <2>1, <3>1
  <2> QED
    BY <2>2, <2>3
<1>2. CASE ambix_read_free
  BY <1>2 DEF ambix_read_free
<1> QED
  BY <1>1, <1>2 DEF Deletion

LEMMA ChildKeepsClosed == CloseInv /\ Child => CloseInv'
<1> SUFFICES ASSUME CloseInv, Child PROVE CloseInv'
  OBVIOUS
<1> USE DEF CloseInv, ClosedBetweenRequests, Ready, Calls, request, ring, ticks,
            info, data
<1>1. CASE AwaitRequest
  BY <1>1 DEF AwaitRequest, SignalsParent
<1>2. CASE TakeOpen
  BY <1>2 DEF TakeOpen
<1>3. CASE OpenFailed
  BY <1>3, LostCloses DEF OpenFailed
<1>4. CASE OpenOvertaken
  BY <1>4, LostCloses DEF OpenOvertaken
<1>5. CASE Opened
  BY <1>5 DEF Opened
<1>6. CASE AwaitRoom
  BY <1>6 DEF AwaitRoom, SignalsParent
<1>7. CASE BeginRead
  BY <1>7 DEF BeginRead
<1>8. CASE LeaveLoop
  BY <1>8, LostCloses DEF LeaveLoop
<1>9. CASE ReadBlock
  BY <1>9 DEF ReadBlock
<1>10. CASE ReadFails
  BY <1>10 DEF ReadFails
<1>11. CASE Load
  BY <1>11 DEF Load, SignalsParent
<1>12. CASE StopReading
  BY <1>12, LostCloses DEF StopReading
<1>13. CASE Closed
  BY <1>13 DEF Closed, SignalsParent
<1>14. CASE Answer
  BY <1>14 DEF Answer, SignalsParent
<1> QED
  BY <1>1, <1>2, <1>3, <1>4, <1>5, <1>6, <1>7, <1>8, <1>9, <1>10, <1>11, <1>12,
     <1>13, <1>14 DEF Child

LEMMA CloseStep == CloseInv /\ [Next]_vars => CloseInv'
<1>1. CASE UNCHANGED vars
  BY <1>1 DEF CloseInv, ClosedBetweenRequests, vars, thread
<1> QED
  BY <1>1, MessagesKeepClosed, DspKeepsClosed, DeletionKeepsClosed,
     ChildKeepsClosed DEF Next

(* Whatever requests overtake each other, the child has closed its file    *)
(* when it takes the next one: the branches that would close it there      *)
(* (ambix_read~.c:264, 404 and 414) are never needed.                      *)
THEOREM ClosedFirst == Spec => []ClosedBetweenRequests
<1>1. CloseInv => ClosedBetweenRequests
  BY DEF CloseInv
<1> QED
  BY <1>1, CloseInit, CloseStep, PTL DEF Spec

-----------------------------------------------------------------------------
(* What is read is what was asked for                                      *)

(* DSP keeps its block size during a playback.                             *)
Steady == "blocks change" \notin Trouble

Deleting == parent.call \in {"free", "join", "gone"}
Loop == {"streaming", "awaits room", "reading", "has read"}

(* The child serves the request that is on.                                *)
Serves == requestcode = "BUSY" /\ child \in Loop

(* Nothing has been read for the file that was asked for.                  *)
Primed == fifohead = 0 /\ fifotail = 0 /\ loaded = <<>>

(* The fifo was rounded for the block size, and the tail moves in blocks.  *)
Multiple(n) == \E q \in Nat : n = vecsize * q
Sized == fifosize = Rounded(vecsize) /\ Multiple(fifotail)

(* Who is where: which request the child is at, and from when on there is  *)
(* something in the fifo for the ticks.                                    *)
Control ==
  /\ child \in Loop \cup {"opening"} => requestcode # "NOTHING"
  /\ requestcode = "BUSY" => child \in Loop \cup {"opening"}
  /\ requestcode = "CLOSE" => state = "IDLE"
  /\ requestcode = "QUIT" => Deleting
  /\ Deleting => requestcode \in {"NOTHING", "QUIT"}
  /\ requestcode = "OPEN" => Primed
  /\ requestcode = "BUSY" /\ child = "opening" =>
       Primed /\ taken = [file |-> filename, at |-> onsetframes]
  /\ Serves => Sized
  /\ state # "IDLE" /\ ~ Deleting => Primed \/ Sized

(* The block the child reads ends within the fifo; unless it has been      *)
(* overtaken it goes to the head and ends before the end, and so it does   *)
(* still when the block counts.                                            *)
BlockFits ==
  /\ child = "reading" => block.n > 0 /\ block.at + block.n <= BufFrames
  /\ child \in {"reading", "has read"} /\ requestcode = "BUSY" =>
       /\ block.at = fifohead /\ block.size = fifosize
       /\ fifohead + block.n <= fifosize

(* The frame behind place p of the file may follow what has been read.     *)
Follows(p) ==
  \/ p \in Positions \cup {Asked.at}
  \/ loaded # <<>> /\ p = loaded[Len(loaded)].at

(* What the handle will read, or has read, is what was asked for.          *)
HasRead(p) ==
  /\ Follows(p)
  /\ block.n = 0 => p = Asked.file
  /\ \A i \in 1 .. block.n :
       fifo[block.at + i - 1] = [file |-> Asked.file, at |-> p + i]
  /\ block.n >= 0 => handle.at \in Positions \cup {Asked.at, p + block.n}
ReadsOn ==
  /\ handle.at <= handle.file
  /\ Serves => handle.file = Asked.file
  /\ Serves /\ child # "has read" => Follows(handle.at)
  /\ Serves /\ child = "has read" => \E p \in Nat : HasRead(p)

LoadInv == TypeOK /\ Control /\ BlockFits /\ ReadsOn /\ LoadsFileAskedFor

LEMMA Constants ==
  /\ BufFrames \in Nat \ {0} /\ READFRAMES \in Nat \ {0}
  /\ SignalsPerBuffer \in Nat \ {0}
  /\ Files \subseteq Nat /\ Onsets \subseteq Nat /\ Positions \subseteq Nat
  /\ \A v \in VecSizes : v \in Nat /\ 2 <= v /\ v <= BufFrames
BY PdReadAssumption DEF PdReadAssumption

LEMMA Quotient ==
  ASSUME NEW a \in Nat, NEW b \in Nat \ {0}
  PROVE  a \div b \in 0 .. a
<1>1. a \div b \in Nat /\ a = b * (a \div b) + (a % b) /\ a % b \in 0 .. b - 1
  OBVIOUS
<1>2. PICK q \in Nat : q = a \div b
  BY <1>1
<1>3. b * q <= a /\ q <= b * q
  BY <1>1, <1>2
<1> QED
  BY <1>2, <1>3

LEMMA PeriodType ==
  ASSUME NEW s \in 0 .. BufFrames, NEW v \in VecSizes
  PROVE  Period(s, v) \in 0 .. BufFrames
<1>1. SignalsPerBuffer * v \in Nat \ {0} /\ s \in Nat /\ BufFrames \in Nat
  BY Constants
<1>2. s \div (SignalsPerBuffer * v) \in 0 .. s
  BY <1>1, Quotient
<1> QED
  BY <1>1, <1>2 DEF Period

LEMMA RoundedSize ==
  ASSUME NEW v \in VecSizes
  PROVE  Rounded(v) \in 1 .. BufFrames /\ \E q \in Nat : Rounded(v) = v * q
<1>1. v \in Nat /\ v > 0 /\ v <= BufFrames /\ BufFrames \in Nat
  BY Constants
<1>2. BufFrames \div v \in Nat /\ BufFrames % v \in 0 .. v - 1
  BY <1>1
<1>3. BufFrames = v * (BufFrames \div v) + (BufFrames % v)
  BY <1>1
<1>4. Rounded(v) = v * (BufFrames \div v)
  BY <1>1, <1>2, <1>3 DEF Rounded
<1>5. Rounded(v) \in 1 .. BufFrames
  BY <1>1, <1>2 DEF Rounded
<1> QED
  BY <1>2, <1>4, <1>5

(* A multiple of v below another one is at least v below it.               *)
LEMMA NextMultiple ==
  ASSUME NEW v \in Nat, v > 0, NEW q \in Nat, NEW r \in Nat, v * q < v * r
  PROVE  v * q + v <= v * r /\ v * q + v = v * (q + 1)
<1>1. q < r
  <2>1. q >= r => v * q >= v * r
    OBVIOUS
  <2> QED
    BY <2>1
<1>2. PICK d \in Nat : r = q + 1 + d
  <2>1. r - q - 1 \in Nat /\ r = q + 1 + (r - q - 1)
    BY <1>1
  <2> QED
    BY <2>1
<1>3. v * d \in Nat /\ v * r = v * q + v + v * d
  BY <1>2
<1> QED
  BY <1>3

LEMMA TailFits ==
  ASSUME vecsize \in VecSizes, Sized, fifotail < fifosize
  PROVE  fifotail + vecsize <= fifosize /\ Multiple(fifotail + vecsize)
<1>1. vecsize \in Nat /\ vecsize > 0
  BY Constants
<1>2. PICK q \in Nat : fifotail = vecsize * q
  BY DEF Sized, Multiple
<1>3. PICK r \in Nat : fifosize = vecsize * r
  BY RoundedSize DEF Sized
<1>4. /\ vecsize * q + vecsize <= vecsize * r
      /\ vecsize * q + vecsize = vecsize * (q + 1)
  BY <1>1, <1>2, <1>3, NextMultiple
<1> QED
  BY <1>2, <1>3, <1>4 DEF Multiple

LEMMA ZeroIsMultiple == ASSUME vecsize \in VecSizes PROVE Multiple(0)
<1>1. vecsize \in Nat
  BY Constants
<1>2. 0 = vecsize * 0
  BY <1>1
<1> QED
  BY <1>2 DEF Multiple

(* A signal changes where the child waits, and nothing else.               *)
LEMMA SignalsTo ==
  ASSUME SignalsChild
  PROVE  /\ UNCHANGED <<taken, block>>
         /\ child \in At => child' \in At
         /\ \A c \in {"opening", "reading", "has read", "leaving", "done"} :
              child' = c <=> child = c
         /\ child' \in Loop <=> child \in Loop
BY DEF SignalsChild, ChildSignalled, At, Loop

LEMMA Fresh ==
  /\ BufFrames \in Nat \ {0} /\ 0 \in 0 .. BufFrames /\ 0 \in 0 .. BufFrames - 1
  /\ 0 \in Files \cup {0} /\ 0 \in Nat
  /\ Silence \in Frame /\ NoHandle \in Frame
  /\ Empty \in [0 .. BufFrames - 1 -> Frame]
  /\ NoBlock \in [at : 0 .. BufFrames - 1, n : -1 .. READFRAMES, size : 0 .. BufFrames]
  /\ Ready \in [call : Calls, asleep : BOOLEAN]
  /\ \A call \in Calls, b \in BOOLEAN :
       [call |-> call, asleep |-> b] \in [call : Calls, asleep : BOOLEAN]
  /\ {"none", "perform", "free", "join", "gone"} = Calls
  /\ "top" \in At /\ <<>> \in Seq(Frame)
<1>1. BufFrames \in Nat \ {0} /\ READFRAMES \in Nat \ {0}
  BY Constants
<1>2. Silence \in Frame /\ NoHandle \in Frame
  BY DEF Silence, NoHandle, Frame
<1>3. Empty \in [0 .. BufFrames - 1 -> Frame]
  BY <1>2 DEF Empty
<1> QED
  BY <1>1, <1>2, <1>3 DEF NoBlock, Ready, Calls, At

(* The parts of the type invariant the threads are about.                  *)
ThreadTypes ==
  /\ parent \in [call : Calls, asleep : BOOLEAN] /\ child \in At
  /\ taken \in Frame
  /\ block \in [at : 0 .. BufFrames - 1, n : -1 .. READFRAMES, size : 0 .. BufFrames]
RequestTypes ==
  /\ state \in {"IDLE", "STARTUP", "STREAM"}
  /\ requestcode \in {"NOTHING", "OPEN", "CLOSE", "QUIT", "BUSY"}
  /\ filename \in Files \cup {0} /\ onsetframes \in Nat
RingTypes ==
  /\ fifosize \in 0 .. BufFrames /\ eof \in BOOLEAN
  /\ fifohead \in 0 .. BufFrames - 1 /\ fifotail \in 0 .. BufFrames - 1
  /\ fifosize > 0 => fifohead < fifosize /\ fifotail < fifosize
TickTypes ==
  /\ vecsize \in VecSizes
  /\ sigcountdown \in 0 .. BufFrames /\ sigperiod \in 0 .. BufFrames
  /\ infoflags \subseteq {"ambix", "eof"} /\ clock \in BOOLEAN
DataTypes ==
  /\ fifo \in [0 .. BufFrames - 1 -> Frame]
  /\ loaded \in Seq(Frame) /\ played \in Seq(Frame)
  /\ handle \in Frame

LEMMA TypeParts ==
  TypeOK <=> ThreadTypes /\ RequestTypes /\ RingTypes /\ TickTypes /\ DataTypes
BY DEF TypeOK, ThreadTypes, RequestTypes, RingTypes, TickTypes, DataTypes

LEMMA TypeInit == Init => TypeOK
<1> SUFFICES ASSUME Init PROVE TypeOK
  OBVIOUS
<1>1. ThreadTypes /\ RequestTypes
  BY Fresh DEF Init, ThreadTypes, RequestTypes
<1>2. RingTypes /\ TickTypes
  BY Fresh DEF Init, RingTypes, TickTypes
<1>3. DataTypes
  BY Fresh DEF Init, DataTypes
<1> QED
  BY <1>1, <1>2, <1>3, TypeParts

LEMMA SignalTypes ==
  ASSUME ThreadTypes, SignalsChild, parent' \in [call : Calls, asleep : BOOLEAN]
  PROVE  ThreadTypes'
BY SignalsTo DEF ThreadTypes

LEMMA LostTypes ==
  ASSUME NEW h \in Frame, Lost(h), ThreadTypes, RequestTypes,
         UNCHANGED <<state, filename, onsetframes>>, taken' \in {taken, Silence},
         block' \in {block, NoBlock}
  PROVE  ThreadTypes' /\ RequestTypes' /\ handle' = h
<1>1. taken' \in Frame
  BY Fresh DEF ThreadTypes
<1>2. block' \in [at : 0 .. BufFrames - 1, n : -1 .. READFRAMES, size : 0 .. BufFrames]
  BY Fresh DEF ThreadTypes
<1>3. parent' \in [call : Calls, asleep : BOOLEAN] /\ child' \in At
  BY DEF Lost, SignalsParent, ThreadTypes, At
<1>4. RequestTypes' /\ handle' = h
  BY DEF Lost, RequestTypes
<1> QED
  BY <1>1, <1>2, <1>3, <1>4 DEF ThreadTypes

LEMMA BlockParts ==
  ASSUME ThreadTypes
  PROVE  /\ block.at \in Nat /\ block.n \in Int /\ block.size \in Nat
         /\ -1 <= block.n /\ block.n <= READFRAMES /\ block.at < BufFrames
         /\ block = [at |-> block.at, n |-> block.n, size |-> block.size]
         /\ \A n \in -1 .. READFRAMES :
              /\ [block EXCEPT !.n = n] = [at |-> block.at, n |-> n, size |-> block.size]
              /\ [block EXCEPT !.n = n]
                   \in [at : 0 .. BufFrames - 1, n : -1 .. READFRAMES, size : 0 .. BufFrames]
BY Constants DEF ThreadTypes

LEMMA IsRun ==
  ASSUME NEW S, NEW n \in Nat, NEW s \in [1 .. n -> S]
  PROVE  s \in Seq(S) /\ Len(s) = n
OBVIOUS

(* n frames from the fifo are a sequence of frames.                        *)
LEMMA Piece ==
  ASSUME DataTypes, NEW a \in Nat, NEW n \in Nat, a + n <= BufFrames
  PROVE  /\ [i \in 1 .. n |-> fifo[a + i - 1]] \in Seq(Frame)
         /\ Len([i \in 1 .. n |-> fifo[a + i - 1]]) = n
<1>1. BufFrames \in Nat
  BY Constants
<1>2. \A i \in 1 .. n : a + i - 1 \in 0 .. BufFrames - 1
  BY <1>1
<1>3. \A i \in 1 .. n : fifo[a + i - 1] \in Frame
  BY <1>2 DEF DataTypes
<1>4. [i \in 1 .. n |-> fifo[a + i - 1]] \in [1 .. n -> Frame]
  BY <1>3
<1> QED
  BY <1>4, IsRun

LEMMA PutOutTypes ==
  ASSUME DataTypes, NEW n \in Nat, fifotail \in Nat, fifotail + n <= BufFrames,
         PutOut(n), UNCHANGED handle
  PROVE  DataTypes'
<1> DEFINE s == [i \in 1 .. n |-> fifo[fifotail + i - 1]]
<1>1. s \in Seq(Frame)
  BY Piece
<1>2. played \o s \in Seq(Frame)
  BY <1>1, ConcatProperties DEF DataTypes
<1>3. played' \in {played, played \o s} /\ UNCHANGED <<fifo, loaded>>
  BY DEF PutOut
<1> QED
  BY <1>2, <1>3 DEF DataTypes

LEMMA ParentTypes ==
  ASSUME TypeOK, Control, Steady,
         Messages \/ ambix_read_perform \/ ambix_read_tick \/ Deletion
  PROVE  TypeOK'
<1>0. ThreadTypes /\ RequestTypes /\ RingTypes /\ TickTypes /\ DataTypes
  BY TypeParts
<1> SUFFICES ThreadTypes' /\ RequestTypes' /\ RingTypes' /\ TickTypes' /\ DataTypes'
  BY TypeParts, PTL
<1>a. BufFrames \in Nat
  BY Constants
<1>b. /\ \A v \in VecSizes : v \in Nat /\ 2 <= v /\ v <= BufFrames
      /\ Files \subseteq Nat /\ Onsets \subseteq Nat
  BY Constants
<1> USE DEF ThreadTypes, RequestTypes, RingTypes, TickTypes, DataTypes, request, ring,
            ticks, info, data, thread
<1>1. CASE Skip
  BY <1>0, <1>1 DEF Skip
<1>2. CASE Starve
  BY <1>0, <1>2, <1>a, Fresh, SignalTypes DEF Starve, SleepsIn
<1>3. CASE EndOfFile
  <2>1. /\ parent' = Ready /\ SignalsChild /\ state' = "IDLE"
        /\ UNCHANGED <<requestcode, filename, onsetframes, ring, ticks, handle>>
        /\ infoflags' = infoflags \cup {"eof"} /\ clock' = TRUE
        /\ PutOut(fifohead - fifotail + 1)
    BY <1>3 DEF EndOfFile
  <2>2. /\ fifohead - fifotail + 1 \in Nat /\ fifotail \in Nat
        /\ fifotail + (fifohead - fifotail + 1) <= BufFrames
    BY <1>0, <1>3, <1>a DEF EndOfFile, Draining
  <2>3. DataTypes'
    BY <1>0, <2>1, <2>2, PutOutTypes
  <2> QED
    BY <1>0, <2>1, <2>3, Fresh, SignalTypes
<1>4. CASE Play
  <2>1. state = "STREAM" /\ parent.call \in {"none", "perform"}
    BY <1>4 DEF Play, Streaming, Ready, Resumes
  <2>2. Primed \/ Sized
    BY <2>1 DEF Control, Deleting
  <2>3. ~ Primed
    BY <1>0, <1>4, <1>b DEF Play, Draining, Primed
  <2>4. fifosize > 0
    BY <1>0, <2>2, <2>3, RoundedSize, Constants DEF Sized
  <2>5. fifotail \in Nat /\ fifosize \in Nat /\ vecsize \in Nat
        /\ fifotail + vecsize <= fifosize /\ fifosize <= BufFrames
    BY <1>0, <1>b, <2>2, <2>3, <2>4, TailFits, Constants
  <2>6. DataTypes'
    BY <1>0, <1>4, <2>5, <1>a, PutOutTypes DEF Play
  <2>7. RingTypes'
    BY <1>0, <1>4, <2>5, <1>a DEF Play
  <2>8. ThreadTypes'
    BY <1>0, <1>4, <1>a, Fresh, SignalTypes DEF Play
  <2>9. TickTypes' /\ RequestTypes'
    BY <1>0, <1>4, <1>a DEF Play
  <2> QED
    BY <2>6, <2>7, <2>8, <2>9
<1>5. CASE ambix_read_tick
  BY <1>0, <1>5 DEF ambix_read_tick
<1>6. CASE ambix_read_start
  BY <1>0, <1>6 DEF ambix_read_start
<1>7. CASE ambix_read_stop
  BY <1>0, <1>7, SignalTypes DEF ambix_read_stop
<1>8. ASSUME NEW f \in Files, NEW p \in Onsets, ambix_read_open(f, p)
      PROVE  ThreadTypes' /\ RequestTypes' /\ RingTypes' /\ TickTypes' /\ DataTypes'
  <2>1. SignalsChild /\ parent' = parent
    BY <1>8 DEF ambix_read_open
  <2>2. ThreadTypes'
    BY <1>0, <2>1, SignalTypes
  <2>3. RequestTypes' /\ TickTypes'
    BY <1>0, <1>8, <1>b DEF ambix_read_open
  <2>4. RingTypes' /\ DataTypes'
    BY <1>0, <1>8, Fresh DEF ambix_read_open, Restarted
  <2> QED
    BY <2>2, <2>3, <2>4
<1>9. ASSUME NEW v \in VecSizes, ambix_read_dsp(v)
      PROVE  ThreadTypes' /\ RequestTypes' /\ RingTypes' /\ TickTypes' /\ DataTypes'
  BY <1>0, <1>9, PeriodType DEF ambix_read_dsp
<1>10. ASSUME NEW p \in Positions, ambix_seek_pos(p)
       PROVE  ThreadTypes' /\ RequestTypes' /\ RingTypes' /\ TickTypes' /\ DataTypes'
  <2>1. handle' \in Frame
    BY <1>0, <1>10, Constants DEF ambix_seek_pos, Sought, Frame
  <2> QED
    BY <1>0, <1>10, <2>1 DEF ambix_seek_pos
<1>11. CASE RequestQuit
  BY <1>0, <1>11, <1>a, Fresh, SignalTypes DEF RequestQuit, SleepsIn
<1>12. CASE ambix_read_new
  BY <1>0, <1>12, Fresh DEF ambix_read_new
<1>13. CASE AwaitQuit
  <2>1. UNCHANGED <<request, ring, ticks, info, data, handle>>
    BY <1>13 DEF AwaitQuit
  <2>2. ThreadTypes'
    <3>1. CASE requestcode # "NOTHING"
      <4>1. SignalsChild /\ parent' = [call |-> "free", asleep |-> TRUE]
        BY <1>13, <3>1 DEF AwaitQuit, SleepsIn
      <4> QED
        BY <1>0, <4>1, Fresh, SignalTypes
    <3>2. CASE requestcode = "NOTHING"
      <4>1. parent' = [call |-> "join", asleep |-> FALSE] /\ UNCHANGED <<child, taken, block>>
        BY <1>13, <3>2 DEF AwaitQuit
      <4> QED
        BY <1>0, <4>1, Fresh
    <3> QED
      BY <3>1, <3>2
  <2> QED
    BY <1>0, <2>1, <2>2
<1>14. CASE ambix_read_free
  BY <1>0, <1>14, Fresh DEF ambix_read_free
<1> QED
  BY <1>1, <1>2, <1>3, <1>4, <1>5, <1>6, <1>7, <1>8, <1>9, <1>10, <1>11, <1>12,
     <1>13, <1>14 DEF Messages, ambix_read_perform, Deletion

LEMMA FrameParts ==
  ASSUME NEW h \in Frame
  PROVE  /\ h.file \in Nat /\ h.file \in Files \cup {0} /\ h.at \in Nat
         /\ h = [file |-> h.file, at |-> h.at]
         /\ \A n \in Nat : [h EXCEPT !.at = n] = [file |-> h.file, at |-> n]
                          /\ [h EXCEPT !.at = n] \in Frame
BY Constants DEF Frame

LEMMA Seeks ==
  ASSUME NEW h \in Frame, NEW p \in Nat, h.at <= h.file
  PROVE  /\ Sought(h, p) \in Frame /\ Sought(h, p).at <= Sought(h, p).file
         /\ Sought(h, p).file = h.file /\ Sought(h, p).at \in {h.at, p}
<1>1. CASE p <= h.file
  <2>1. Sought(h, p) = [file |-> h.file, at |-> p] /\ Sought(h, p) \in Frame
    BY <1>1, FrameParts DEF Sought
  <2> QED
    BY <1>1, <2>1
<1>2. CASE ~ (p <= h.file)
  BY <1>2 DEF Sought
<1> QED
  BY <1>1, <1>2

LEMMA Opens ==
  ASSUME taken \in Frame
  PROVE  Handle \in Frame /\ Handle.at <= Handle.file /\ Handle.file = taken.file
<1>1. taken.file \in Nat /\ taken.file \in Files \cup {0} /\ taken.at \in Nat
  BY FrameParts
<1>2. [file |-> taken.file, at |-> 0] \in Frame
  BY <1>1 DEF Frame
<1> QED
  BY <1>1, <1>2, Seeks DEF Handle

(* What a read puts into the fifo, and how far it gets.                    *)
LEMMA Reads ==
  ASSUME TypeOK, BlockFits, ReadsOn, ReadBlock
  PROVE  /\ block'.n \in 0 .. block.n
         /\ block'.n = 0 => handle.at = handle.file
         /\ block' = [at |-> block.at, n |-> block'.n, size |-> block.size]
         /\ handle' = [file |-> handle.file, at |-> handle.at + block'.n]
         /\ handle'.at <= handle.file
         /\ fifo' \in [0 .. BufFrames - 1 -> Frame]
         /\ \A i \in 0 .. BufFrames - 1 :
              fifo'[i] = IF i \in block.at .. block.at + block'.n - 1
                         THEN [file |-> handle.file, at |-> handle.at + 1 + i - block.at]
                         ELSE fifo[i]
<1>0. ThreadTypes /\ DataTypes
  BY TypeParts
<1>1. /\ block.n \in Nat /\ block.n > 0 /\ block.at \in Nat
      /\ block = [at |-> block.at, n |-> block.n, size |-> block.size]
      /\ handle.file \in Nat /\ handle.at \in Nat /\ handle.at <= handle.file
      /\ handle = [file |-> handle.file, at |-> handle.at]
      /\ handle.file \in Files \cup {0}
      /\ fifo \in [0 .. BufFrames - 1 -> Frame]
  <2>1. handle \in Frame /\ fifo \in [0 .. BufFrames - 1 -> Frame]
    BY <1>0 DEF DataTypes
  <2>2. block.n > 0 /\ handle.at <= handle.file
    BY DEF ReadBlock, BlockFits, ReadsOn
  <2>4. /\ block = [at |-> block.at, n |-> block.n, size |-> block.size]
        /\ block.n \in Nat /\ block.at \in Nat
    BY <1>0, <2>2, BlockParts
  <2> QED
    BY <2>1, <2>2, <2>4, FrameParts
<1> DEFINE n == AtMost(block.n, handle.file - handle.at)
<1>2. /\ n \in 0 .. block.n
      /\ n = 0 => handle.at = handle.file
      /\ handle.at + n <= handle.file
  BY <1>1 DEF AtMost
<1>3. /\ handle' = [handle EXCEPT !.at = @ + n]
      /\ block' = [block EXCEPT !.n = n]
      /\ fifo' = [i \in DOMAIN fifo |->
                   IF i \in block.at .. block.at + n - 1
                   THEN [handle EXCEPT !.at = @ + 1 + i - block.at] ELSE fifo[i]]
  <2>1. /\ handle' = [handle EXCEPT !.at = @ + n]
        /\ block' = [block EXCEPT !.n = n]
        /\ fifo' = [i \in DOMAIN fifo \cup (block.at .. block.at + n - 1) |->
                     IF i \in block.at .. block.at + n - 1
                     THEN [handle EXCEPT !.at = @ + 1 + i - block.at] ELSE fifo[i]]
    BY DEF ReadBlock
  <2>2. block.at + block.n <= BufFrames
    BY DEF BlockFits, ReadBlock
  <2>3. DOMAIN fifo \cup (block.at .. block.at + n - 1) = DOMAIN fifo
    BY <1>1, <1>2, <2>2, Constants
  <2> QED
    BY <2>1, <2>3
<1> HIDE DEF n
<1>4. block'.n = n /\ block' = [at |-> block.at, n |-> n, size |-> block.size]
      /\ handle' = [file |-> handle.file, at |-> handle.at + n]
  BY <1>1, <1>3
<1>5. ASSUME NEW i \in 0 .. BufFrames - 1
      PROVE  /\ fifo'[i] = IF i \in block.at .. block.at + n - 1
                           THEN [file |-> handle.file, at |-> handle.at + 1 + i - block.at]
                           ELSE fifo[i]
             /\ fifo'[i] \in Frame
  <2>1. fifo'[i] = IF i \in block.at .. block.at + n - 1
                   THEN [handle EXCEPT !.at = handle.at + 1 + i - block.at] ELSE fifo[i]
    BY <1>1, <1>3
  <2>2. [handle EXCEPT !.at = handle.at + 1 + i - block.at]
          = [file |-> handle.file, at |-> handle.at + 1 + i - block.at]
    BY <1>1
  <2>3. i \in block.at .. block.at + n - 1 => handle.at + 1 + i - block.at \in Nat
    BY <1>1, <1>2
  <2>4. fifo[i] \in Frame
    BY <1>1
  <2> QED
    BY <1>1, <2>1, <2>2, <2>3, <2>4 DEF Frame
<1>6. fifo' \in [0 .. BufFrames - 1 -> Frame]
  <2>1. fifo' = [i \in 0 .. BufFrames - 1 |-> fifo'[i]]
    BY <1>1, <1>3
  <2> QED
    BY <1>5, <2>1
<1>7. block'.n \in 0 .. block.n /\ (block'.n = 0 => handle.at = handle.file)
  BY <1>2, <1>4
<1>8. handle'.at = handle.at + n
  BY <1>4
<1> QED
  BY <1>2, <1>4, <1>5, <1>6, <1>7, <1>8

LEMMA ChildTypes ==
  ASSUME TypeOK, Control, BlockFits, ReadsOn, Child
  PROVE  TypeOK'
<1>0. ThreadTypes /\ RequestTypes /\ RingTypes /\ TickTypes /\ DataTypes
  BY TypeParts
<1> SUFFICES ThreadTypes' /\ RequestTypes' /\ RingTypes' /\ TickTypes' /\ DataTypes'
  BY TypeParts, PTL
<1>a. BufFrames \in Nat \ {0} /\ READFRAMES \in Nat \ {0}
  BY Constants
<1> USE DEF ThreadTypes, RequestTypes, RingTypes, TickTypes, DataTypes, request, ring,
            ticks, info, data, thread, At
<1>1. CASE AwaitRequest
  BY <1>0, <1>1 DEF AwaitRequest, SignalsParent
<1>2. CASE TakeOpen
  BY <1>0, <1>2 DEF TakeOpen, Frame
<1>3. CASE OpenFailed
  <2>1. taken' = Silence /\ eof' = TRUE /\ Lost(NoHandle)
        /\ UNCHANGED <<state, filename, onsetframes, fifosize, fifohead, fifotail,
                      ticks, info, data, block>>
    BY <1>3 DEF OpenFailed
  <2>2. NoHandle \in Frame
    BY Fresh
  <2>3. ThreadTypes' /\ RequestTypes' /\ handle' = NoHandle
    BY <1>0, <2>1, <2>2, LostTypes
  <2> QED
    BY <1>0, <2>1, <2>2, <2>3
<1>4. CASE OpenOvertaken
  <2>1. taken' = Silence /\ Lost(Handle)
        /\ UNCHANGED <<state, filename, onsetframes, ring, ticks, info, data, block>>
    BY <1>4 DEF OpenOvertaken
  <2> QED
    BY <1>0, <2>1, LostTypes, Opens
<1>5. CASE Opened
  <2>1. Rounded(vecsize) \in 1 .. BufFrames /\ Period(Rounded(vecsize), vecsize) \in 0 .. BufFrames
    <3>1. vecsize \in VecSizes
      BY <1>0
    <3>2. Rounded(vecsize) \in 0 .. BufFrames
      BY <1>a, <3>1, RoundedSize
    <3> QED
      BY <3>1, <3>2, RoundedSize, PeriodType
  <2>2. fifotail = 0
    BY <1>5 DEF Opened, Control, Primed
  <2>3. RingTypes'
    BY <1>0, <1>5, <1>a, <2>1, <2>2 DEF Opened
  <2>4. ThreadTypes' /\ RequestTypes'
    BY <1>0, <1>5, Fresh DEF Opened
  <2>5. TickTypes'
    BY <1>0, <1>5, <2>1 DEF Opened
  <2>6. DataTypes'
    BY <1>0, <1>5, Fresh, Opens DEF Opened
  <2> QED
    BY <2>3, <2>4, <2>5, <2>6
<1>6. CASE AwaitRoom
  BY <1>0, <1>6 DEF AwaitRoom, SignalsParent
<1>7. CASE BeginRead
  <2>1. Wanted \in -1 .. READFRAMES
    BY <1>0, <1>a, <1>7, RoundedSize DEF BeginRead, Wanted, AtMost, Control, Streams, Serves, Loop, Sized
  <2> QED
    BY <1>0, <1>7, <2>1 DEF BeginRead
<1>8. CASE LeaveLoop
  <2>1. /\ Lost(handle)
        /\ UNCHANGED <<state, filename, onsetframes, ring, ticks, info, data, taken, block>>
    BY <1>8 DEF LeaveLoop
  <2> QED
    BY <1>0, <2>1, LostTypes
<1>9. CASE ReadBlock
  <2>1. handle' \in Frame /\ block'.n \in 0 .. READFRAMES
    <3>1. handle' = [file |-> handle.file, at |-> handle.at + block'.n] /\ block'.n \in 0 .. block.n
      BY <1>9, Reads
    <3>2. block.n \in Int /\ block.n <= READFRAMES
      BY <1>0, BlockParts
    <3>3. handle \in Frame
      BY <1>0
    <3>4. handle.at + block'.n \in Nat /\ handle.file \in Files \cup {0}
      BY <3>1, <3>2, <3>3, FrameParts
    <3> QED
      BY <1>a, <3>1, <3>2, <3>4 DEF Frame
  <2>2. block' \in [at : 0 .. BufFrames - 1, n : -1 .. READFRAMES, size : 0 .. BufFrames]
    <3>1. block' = [block EXCEPT !.n = block'.n] /\ block'.n \in -1 .. READFRAMES
      <4>1. block'.n \in -1 .. READFRAMES
        BY <1>a, <2>1
      <4>2. block' = [at |-> block.at, n |-> block'.n, size |-> block.size]
        BY <1>9, Reads
      <4> QED
        BY <1>0, <4>1, <4>2, BlockParts
    <3> QED
      BY <1>0, <3>1, BlockParts
  <2>3. fifo' \in [0 .. BufFrames - 1 -> Frame]
    BY <1>9, Reads
  <2>4. child' = "has read" /\ UNCHANGED <<request, ring, ticks, info, loaded, played, parent, taken>>
    BY <1>9 DEF ReadBlock
  <2> QED
    BY <1>0, <2>1, <2>2, <2>3, <2>4
<1>10. CASE ReadFails
  <2>1. block' = [block EXCEPT !.n = -1] /\ child' = "has read"
        /\ UNCHANGED <<request, ring, ticks, info, data, handle, parent, taken>>
    BY <1>10 DEF ReadFails
  <2>2. -1 \in -1 .. READFRAMES
    BY <1>a
  <2>3. block' \in [at : 0 .. BufFrames - 1, n : -1 .. READFRAMES, size : 0 .. BufFrames]
    BY <1>0, <2>1, <2>2
  <2> QED
    BY <1>0, <2>1, <2>3
<1>11. CASE Load
  <2>1. /\ block.at = fifohead /\ block.size = fifosize
        /\ fifohead + block.n <= fifosize /\ block.n > 0
    BY <1>11 DEF Load, Accepted, BlockFits
  <2>2. /\ block.at \in Nat /\ block.n \in Nat /\ block.at + block.n <= BufFrames
        /\ fifosize \in Nat /\ fifohead \in Nat /\ fifosize <= BufFrames
    <3>1. block.n \in Int /\ fifosize \in 0 .. BufFrames /\ fifohead \in 0 .. BufFrames - 1
      BY <1>0, BlockParts
    <3> QED
      BY <1>a, <2>1, <3>1
  <2>3. loaded' \in Seq(Frame)
    BY <1>0, <1>11, <2>2, Piece, ConcatProperties DEF Load
  <2>4. fifohead' \in 0 .. BufFrames - 1 /\ (fifosize > 0 => fifohead' < fifosize)
    <3>1. fifohead' = IF fifohead + block.n = fifosize THEN 0 ELSE fifohead + block.n
      BY <1>11, <2>1 DEF Load, HeadBehind
    <3> QED
      BY <1>a, <2>1, <2>2, <3>1
  <2> QED
    BY <1>0, <1>11, <2>3, <2>4, Fresh DEF Load, SignalsParent
<1>12. CASE StopReading
  <2>1. eof' \in BOOLEAN
    BY <1>0, <1>12 DEF StopReading, EndSeen
  <2>2. block' = NoBlock /\ Lost(handle)
        /\ UNCHANGED <<state, filename, onsetframes, fifosize, fifohead, fifotail,
                      ticks, info, data, taken>>
    BY <1>12 DEF StopReading
  <2> QED
    <3>1. ThreadTypes' /\ RequestTypes' /\ handle' = handle
      BY <1>0, <2>2, LostTypes
    <3> QED
      BY <1>0, <2>1, <2>2, <3>1
<1>13. CASE Closed
  BY <1>0, <1>13, Fresh DEF Closed, SignalsParent
<1>14. CASE Answer
  BY <1>0, <1>14 DEF Answer, SignalsParent
<1> QED
  BY <1>1, <1>2, <1>3, <1>4, <1>5, <1>6, <1>7, <1>8, <1>9, <1>10, <1>11, <1>12,
     <1>13, <1>14 DEF Child

LEMMA ControlInit == Init => Control
BY DEF Init, Control, Loop, Serves, Deleting, Ready

(* Most steps of the parent leave request and fifo as they are.            *)
LEMMA QuietControl ==
  ASSUME Control,
         UNCHANGED <<requestcode, filename, onsetframes, taken,
                     fifosize, fifohead, fifotail, loaded, vecsize>>,
         state' # "IDLE" => state # "IDLE",
         child' \in Loop <=> child \in Loop, child' = "opening" <=> child = "opening",
         Deleting' <=> Deleting
  PROVE  Control'
<1>1. (Primed' <=> Primed) /\ (Serves' <=> Serves) /\ (Sized' <=> Sized)
  BY DEF Primed, Serves, Sized, Multiple
<1>2. child' \in Loop \cup {"opening"} <=> child \in Loop \cup {"opening"}
  OBVIOUS
<1> QED
  BY <1>1, <1>2 DEF Control

LEMMA ParentControls ==
  ASSUME TypeOK, Control, Steady,
         Messages \/ ambix_read_perform \/ ambix_read_tick \/ Deletion
  PROVE  Control'
<1> USE DEF request, ring, ticks, info, data, thread
<1>1. CASE Skip
  BY <1>1, QuietControl DEF Skip, Deleting
<1>2. CASE Starve
  <2>1. /\ SignalsChild /\ ~ Deleting /\ ~ Deleting'
        /\ UNCHANGED <<request, ring, ticks, info, data, handle>>
    BY <1>2 DEF Starve, SleepsIn, Streaming, Resumes, Deleting, Ready
  <2> QED
    BY <2>1, SignalsTo, QuietControl
<1>3. CASE EndOfFile
  <2>1. /\ SignalsChild /\ ~ Deleting /\ ~ Deleting' /\ state' = "IDLE" /\ loaded' = loaded
        /\ UNCHANGED <<requestcode, filename, onsetframes, ring, ticks>>
    BY <1>3 DEF EndOfFile, Streaming, Resumes, Deleting, Ready, PutOut
  <2> QED
    BY <2>1, SignalsTo, QuietControl
<1>4. CASE Play
  <2>0. parent.call \in {"none", "perform"} /\ parent' = Ready
    BY <1>4 DEF Play, Streaming, Resumes, Ready
  <2>1. /\ UNCHANGED <<request, fifosize, fifohead, taken, vecsize, loaded>>
        /\ ~ Deleting /\ ~ Deleting' /\ state = "STREAM"
    <3>1. taken' = taken
      BY <1>4, SignalsTo DEF Play
    <3>2. ~ Deleting /\ ~ Deleting'
      BY <2>0 DEF Deleting, Ready
    <3> QED
      BY <1>4, <3>1, <3>2 DEF Play, Streaming, PutOut
  <2>2. /\ child' \in Loop <=> child \in Loop
        /\ child' = "opening" <=> child = "opening"
    BY <1>4, SignalsTo DEF Play
  <2>3. vecsize \in VecSizes /\ vecsize \in Nat /\ vecsize >= 2
    BY Constants DEF TypeOK
  <2>4. ~ Primed
    BY <1>4, <2>3 DEF Play, Draining, Primed
  <2>5. Sized /\ (Sized => Sized')
    <3>1. Sized
      BY <2>1, <2>4 DEF Control
    <3>2. fifosize > 0
      BY <2>3, <3>1, RoundedSize, Constants DEF Sized
    <3>3. fifotail < fifosize
      BY <3>2 DEF TypeOK
    <3>4. fifotail' = (IF fifotail + vecsize >= fifosize THEN 0 ELSE fifotail + vecsize)
      BY <1>4 DEF Play
    <3>5. Multiple(0) /\ Multiple(fifotail + vecsize)
      BY <2>3, <3>1, <3>3, TailFits, ZeroIsMultiple
    <3> QED
      BY <2>1, <3>1, <3>4, <3>5 DEF Sized, Multiple
  <2>6. requestcode # "OPEN" /\ ~ (requestcode = "BUSY" /\ child = "opening")
    BY <2>4 DEF Control
  <2> QED
    BY <2>1, <2>2, <2>5, <2>6 DEF Control, Serves
<1>5. CASE ambix_read_tick
  BY <1>5, QuietControl DEF ambix_read_tick, Deleting
<1>6. CASE ambix_read_start
  BY <1>6, QuietControl DEF ambix_read_start, Deleting
<1>7. CASE ambix_read_stop
  <2>1. /\ SignalsChild /\ ~ Deleting /\ ~ Deleting' /\ state' = "IDLE"
        /\ requestcode' = "CLOSE"
    BY <1>7 DEF ambix_read_stop, Deleting, Ready
  <2> QED
    BY <2>1, SignalsTo DEF Control, Serves
<1>8. ASSUME NEW f \in Files, NEW p \in Onsets, ambix_read_open(f, p)
      PROVE  Control'
  <2>1. /\ SignalsChild /\ ~ Deleting /\ ~ Deleting'
        /\ requestcode' = "OPEN" /\ Primed'
    BY <1>8 DEF ambix_read_open, Deleting, Ready, Restarted, Primed
  <2> QED
    BY <2>1, SignalsTo DEF Control, Serves
<1>9. ASSUME NEW v \in VecSizes, KeepsBlocks, ambix_read_dsp(v)
      PROVE  Control'
  <2>1. /\ state = "IDLE" /\ requestcode = "NOTHING" /\ ~ Deleting /\ ~ Deleting'
        /\ UNCHANGED <<state, requestcode, child, taken>>
    BY <1>9 DEF ambix_read_dsp, KeepsBlocks, Steady, Deleting, Ready
  <2> QED
    BY <2>1 DEF Control, Serves
<1>10. ASSUME NEW p \in Positions, ambix_seek_pos(p)
       PROVE  Control'
  BY <1>10, QuietControl DEF ambix_seek_pos, Deleting
<1>11. CASE RequestQuit
  <2>1. /\ SignalsChild /\ requestcode' = "QUIT" /\ Deleting'
    BY <1>11 DEF RequestQuit, Deleting, SleepsIn
  <2> QED
    BY <2>1, SignalsTo DEF Control, Serves
<1>12. CASE ambix_read_new
  <2>1. /\ state' = "IDLE" /\ requestcode' = "NOTHING" /\ child' = "top" /\ ~ Deleting'
    BY <1>12 DEF ambix_read_new, Deleting, Ready
  <2> QED
    BY <2>1 DEF Control, Serves, Loop
<1>13. CASE AwaitQuit
  <2>1. Deleting /\ UNCHANGED <<request, ring, ticks, info, data, handle>>
    BY <1>13 DEF AwaitQuit, Deleting, Resumes
  <2>2. CASE requestcode # "NOTHING"
    <3>1. SignalsChild /\ parent' = [call |-> "free", asleep |-> TRUE]
      BY <1>13, <2>2 DEF AwaitQuit, SleepsIn
    <3>2. Deleting'
      BY <3>1 DEF Deleting
    <3> QED
      BY <2>1, <3>1, <3>2, SignalsTo, QuietControl
  <2>3. CASE requestcode = "NOTHING"
    <3>1. parent' = [call |-> "join", asleep |-> FALSE] /\ UNCHANGED thread
      BY <1>13, <2>3 DEF AwaitQuit
    <3> QED
      BY <2>1, <3>1, QuietControl DEF Deleting
  <2> QED
    BY <2>2, <2>3
<1>14. CASE ambix_read_free
  <2>1. /\ Deleting /\ Deleting'
        /\ UNCHANGED <<request, ring, ticks, info, data, handle, thread>>
    BY <1>14 DEF ambix_read_free, Deleting
  <2> QED
    BY <2>1, QuietControl
<1> QED
  BY <1>1, <1>2, <1>3, <1>4, <1>5, <1>6, <1>7, <1>8, <1>9, <1>10, <1>11, <1>12,
     <1>13, <1>14 DEF Messages, ambix_read_perform, Deletion

(* The child signals the parent and changes nothing else there.            *)
LEMMA ChildLeavesParent ==
  ASSUME TypeOK, Child
  PROVE  parent'.call = parent.call /\ (Deleting' <=> Deleting) /\ state' = state
<1>1. parent \in [call : Calls, asleep : BOOLEAN]
  BY DEF TypeOK
<1>2. (parent' = parent \/ SignalsParent) /\ state' = state
  BY DEF Child, AwaitRequest, TakeOpen, OpenFailed, OpenOvertaken, Opened, AwaitRoom,
     BeginRead, LeaveLoop, ReadBlock, ReadFails, Load, StopReading, Closed, Answer, Lost,
     request
<1>3. parent'.call = parent.call
  BY <1>1, <1>2 DEF SignalsParent
<1> QED
  BY <1>2, <1>3 DEF Deleting

LEMMA LostControls ==
  ASSUME Control, NEW h, Lost(h), child \in Loop \cup {"opening"},
         UNCHANGED <<state, fifosize, fifohead, fifotail, loaded, vecsize>>,
         Deleting' <=> Deleting
  PROVE  Control'
<1>1. /\ child' \in {"top", "leaving"}
      /\ requestcode' = IF requestcode = "BUSY" THEN "NOTHING" ELSE requestcode
  BY DEF Lost
<1>2. (Primed' <=> Primed) /\ (Sized' <=> Sized) /\ ~ Serves'
  BY <1>1 DEF Primed, Serves, Sized, Multiple, Loop
<1> QED
  BY <1>1, <1>2 DEF Control, Loop

LEMMA ChildControls == ASSUME TypeOK, Control, Child PROVE Control'
<1>0. (Deleting' <=> Deleting) /\ state' = state
  BY ChildLeavesParent
<1> USE DEF request, ring, ticks, info, data, thread, Loop
<1>1. CASE AwaitRequest
  BY <1>0, <1>1, QuietControl DEF AwaitRequest
<1>2. CASE TakeOpen
  <2>1. Primed /\ Primed' /\ ~ Deleting
    BY <1>2 DEF TakeOpen, Control, Primed
  <2> QED
    BY <1>0, <1>2, <2>1 DEF TakeOpen, Control, Serves
<1>3. CASE OpenFailed
  BY <1>0, <1>3, LostControls DEF OpenFailed
<1>4. CASE OpenOvertaken
  BY <1>0, <1>4, LostControls DEF OpenOvertaken
<1>5. CASE Opened
  <2>1. Primed /\ vecsize \in VecSizes /\ requestcode = "BUSY" /\ ~ Deleting
    BY <1>5 DEF Opened, Control, TypeOK
  <2>2. Sized'
    BY <1>5, <2>1, ZeroIsMultiple DEF Opened, Sized, Primed, Multiple
  <2> QED
    BY <1>0, <1>5, <2>1, <2>2 DEF Opened, Control
<1>6. CASE AwaitRoom
  BY <1>0, <1>6, QuietControl DEF AwaitRoom
<1>7. CASE BeginRead
  BY <1>0, <1>7, QuietControl DEF BeginRead
<1>8. CASE LeaveLoop
  BY <1>0, <1>8, LostControls DEF LeaveLoop
<1>9. CASE ReadBlock
  BY <1>0, <1>9, QuietControl DEF ReadBlock
<1>10. CASE ReadFails
  BY <1>0, <1>10, QuietControl DEF ReadFails
<1>11. CASE Load
  <2>1. /\ requestcode = "BUSY" /\ requestcode' = "BUSY" /\ Serves
        /\ child' = "streaming" /\ UNCHANGED <<fifosize, vecsize, fifotail>>
    BY <1>11 DEF Load, Accepted, Serves
  <2>2. Sized /\ Sized' /\ ~ Deleting
    BY <2>1 DEF Control, Sized, Multiple
  <2> QED
    BY <1>0, <2>1, <2>2 DEF Control
<1>12. CASE StopReading
  BY <1>0, <1>12, LostControls DEF StopReading
<1>13. CASE Closed
  <2>1. /\ child = "leaving" /\ child' = "top" /\ requestcode # "BUSY"
        /\ UNCHANGED <<request, ring, ticks, info, data, taken>>
    BY <1>13 DEF Closed, Control
  <2> QED
    BY <1>0, <2>1, QuietControl
<1>14. CASE Answer
  <2>1. /\ requestcode' = "NOTHING" /\ child' \in {"top", "done"}
        /\ UNCHANGED <<ring, ticks, data>>
    BY <1>14 DEF Answer
  <2>2. (Primed' <=> Primed) /\ (Sized' <=> Sized) /\ ~ Serves'
    BY <2>1 DEF Primed, Serves, Sized, Multiple
  <2> QED
    BY <1>0, <2>1, <2>2 DEF Control
<1> QED
  BY <1>1, <1>2, <1>3, <1>4, <1>5, <1>6, <1>7, <1>8, <1>9, <1>10, <1>11, <1>12,
     <1>13, <1>14 DEF Child

LEMMA ReadInit == Init => BlockFits /\ ReadsOn /\ LoadsFileAskedFor
BY DEF Init, BlockFits, ReadsOn, LoadsFileAskedFor, Serves, NoHandle, Silence

(* The parent leaves alone what the child has read and is about to read,   *)
(* but for the place in the file; another request makes the child stop.    *)
LEMMA ParentLeavesRead ==
  ASSUME TypeOK, Control, Steady,
         Messages \/ ambix_read_perform \/ ambix_read_tick \/ Deletion
  PROVE  /\ child' \in {"reading", "has read"} => child' = child /\ block' = block
         /\ requestcode' = "BUSY" =>
              /\ requestcode = "BUSY" /\ block' = block
              /\ \A c \in {"reading", "has read"} : child' = c <=> child = c
              /\ child' \in Loop <=> child \in Loop
              /\ UNCHANGED <<filename, onsetframes, fifosize, fifohead, loaded, fifo>>
         /\ UNCHANGED <<loaded, filename, onsetframes>> \/ loaded' = <<>>
         /\ handle' = handle \/ \E p \in Positions : handle' = Sought(handle, p)
<1> USE DEF request, ring, ticks, info, data, thread
<1>1. CASE Skip
  BY <1>1 DEF Skip
<1>2. CASE Starve
  BY <1>2, SignalsTo DEF Starve, SleepsIn
<1>3. CASE EndOfFile
  BY <1>3, SignalsTo DEF EndOfFile, PutOut
<1>4. CASE Play
  BY <1>4, SignalsTo DEF Play, PutOut
<1>5. CASE ambix_read_tick
  BY <1>5 DEF ambix_read_tick
<1>6. CASE ambix_read_start
  BY <1>6 DEF ambix_read_start
<1>7. CASE ambix_read_stop
  BY <1>7, SignalsTo DEF ambix_read_stop
<1>8. ASSUME NEW f \in Files, NEW p \in Onsets, ambix_read_open(f, p)
      PROVE  /\ child' \in {"reading", "has read"} => child' = child /\ block' = block
             /\ requestcode' # "BUSY" /\ loaded' = <<>> /\ handle' = handle
  BY <1>8, SignalsTo DEF ambix_read_open
<1>9. ASSUME NEW v \in VecSizes, ambix_read_dsp(v)
      PROVE  UNCHANGED <<request, child, block, fifosize, fifohead, loaded, fifo, handle>>
  BY <1>9 DEF ambix_read_dsp
<1>10. ASSUME NEW p \in Positions, ambix_seek_pos(p)
       PROVE  /\ UNCHANGED <<request, child, block, fifosize, fifohead, loaded, fifo>>
              /\ handle' = Sought(handle, p)
  BY <1>10 DEF ambix_seek_pos
<1>11. CASE RequestQuit
  BY <1>11, SignalsTo DEF RequestQuit, SleepsIn
<1>12. CASE ambix_read_new
  BY <1>12 DEF ambix_read_new
<1>13. CASE AwaitQuit
  <2>1. SignalsChild \/ UNCHANGED thread
    BY <1>13 DEF AwaitQuit, SleepsIn
  <2> QED
    BY <1>13, <2>1, SignalsTo DEF AwaitQuit
<1>14. CASE ambix_read_free
  BY <1>14 DEF ambix_read_free
<1> QED
  BY <1>1, <1>2, <1>3, <1>4, <1>5, <1>6, <1>7, <1>8, <1>9, <1>10, <1>11, <1>12,
     <1>13, <1>14 DEF Messages, ambix_read_perform, Deletion

LEMMA ParentReads ==
  ASSUME TypeOK, Control, Steady, BlockFits, ReadsOn, LoadsFileAskedFor,
         Messages \/ ambix_read_perform \/ ambix_read_tick \/ Deletion
  PROVE  BlockFits' /\ ReadsOn' /\ LoadsFileAskedFor'
<1>1. BlockFits'
  BY ParentLeavesRead DEF BlockFits
<1>2. LoadsFileAskedFor'
  <2>1. CASE UNCHANGED <<loaded, filename, onsetframes>>
    BY <2>1 DEF LoadsFileAskedFor, Asked
  <2>2. CASE loaded' = <<>>
    BY <2>2 DEF LoadsFileAskedFor
  <2> QED
    BY <2>1, <2>2, ParentLeavesRead
<1>3. /\ handle'.at <= handle'.file /\ handle'.file = handle.file
      /\ handle'.at \in {handle.at} \cup Positions
  <2>1. handle \in Frame /\ handle.at <= handle.file
    BY DEF TypeOK, ReadsOn
  <2>2. ASSUME NEW p \in Positions, handle' = Sought(handle, p)
        PROVE  /\ handle'.at <= handle'.file /\ handle'.file = handle.file
               /\ handle'.at \in {handle.at, p}
    BY <2>1, <2>2, Seeks, Constants
  <2> QED
    BY <2>1, <2>2, ParentLeavesRead
<1>4. ASSUME Serves'
      PROVE  /\ Serves /\ Asked' = Asked /\ (child' = "has read" <=> child = "has read")
             /\ \A p : Follows(p)' <=> Follows(p)
             /\ UNCHANGED <<block, fifo>>
  BY <1>4, ParentLeavesRead DEF Serves, Asked, Follows
<1>5. ASSUME Serves', child' # "has read"
      PROVE  Follows(handle.at)'
  <2>1. Follows(handle.at)
    BY <1>4, <1>5 DEF ReadsOn
  <2>2. UNCHANGED <<filename, onsetframes, loaded>>
    BY <1>5, ParentLeavesRead DEF Serves
  <2> QED
    BY <1>3, <2>1, <2>2 DEF Follows, Asked
<1>6. ASSUME Serves', child' = "has read"
      PROVE  \E p \in Nat : HasRead(p)'
  <2>1. PICK p \in Nat : HasRead(p)
    BY <1>4, <1>6 DEF ReadsOn
  <2>2. HasRead(p)'
    BY <1>3, <1>4, <1>6, <2>1 DEF HasRead
  <2> QED
    BY <2>2
<1>7. Serves' => handle'.file = Asked'.file
  BY <1>3, <1>4 DEF ReadsOn
<1>8. (Serves /\ child # "has read" => Follows(handle.at))'
  BY <1>5
<1>9. ReadsOn'
  BY <1>3, <1>6, <1>7, <1>8 DEF ReadsOn
<1> QED
  BY <1>1, <1>2, <1>9

(* Steps of the child that leave the fifo and what is loaded alone.        *)
LEMMA QuietReads ==
  ASSUME BlockFits, ReadsOn, LoadsFileAskedFor,
         UNCHANGED <<filename, onsetframes, loaded>>,
         handle' = handle \/ handle'.at <= handle'.file,
         child' # "reading",
         requestcode' # "BUSY" \/ child' \notin Loop
  PROVE  BlockFits' /\ ReadsOn' /\ LoadsFileAskedFor'
<1>1. BlockFits'
  BY DEF BlockFits, Loop
<1>2. ReadsOn'
  BY DEF ReadsOn, Serves
<1>3. LoadsFileAskedFor'
  BY DEF LoadsFileAskedFor, Asked
<1> QED
  BY <1>1, <1>2, <1>3

LEMMA LostReads ==
  ASSUME BlockFits, ReadsOn, LoadsFileAskedFor, NEW h, Lost(h), h = handle \/ h.at <= h.file,
         UNCHANGED <<filename, onsetframes, loaded>>
  PROVE  BlockFits' /\ ReadsOn' /\ LoadsFileAskedFor'
<1>1. child' \in {"top", "leaving"} /\ handle' = h
  BY DEF Lost
<1>2. child' # "reading" /\ child' \notin Loop
  BY <1>1 DEF Loop
<1> QED
  BY <1>1, <1>2, QuietReads

LEMMA SizedRing ==
  ASSUME TypeOK, Sized
  PROVE  /\ fifosize \in Nat /\ fifohead \in Nat /\ fifotail \in Nat /\ vecsize \in Nat
         /\ 2 <= vecsize
         /\ fifosize <= BufFrames /\ fifohead < fifosize /\ fifotail < fifosize
<1>1. fifosize > 0 /\ fifosize \in 1 .. BufFrames /\ BufFrames \in Nat
  BY RoundedSize, Constants DEF Sized, TypeOK
<1>2. RingTypes /\ vecsize \in VecSizes
  BY TypeParts DEF TickTypes
<1> QED
  BY <1>1, <1>2, Constants DEF RingTypes

(* The child asks for frames that there is room for.                       *)
LEMMA RoomWanted ==
  ASSUME TypeOK, Sized, Room
  PROVE  /\ Wanted \in Nat /\ Wanted > 0
         /\ fifohead + Wanted <= fifosize
         /\ fifohead < fifotail => fifohead + Wanted < fifotail
         /\ fifotail = 0 => fifohead + Wanted < fifosize
BY SizedRing, Constants DEF Room, Wanted, AtMost

LEMMA BlockRead ==
  ASSUME TypeOK, Control, BlockFits, ReadsOn, LoadsFileAskedFor, ReadBlock
  PROVE  BlockFits' /\ ReadsOn' /\ LoadsFileAskedFor'
<1>0. /\ child = "reading" /\ child' = "has read"
      /\ UNCHANGED <<request, ring, loaded>>
  BY DEF ReadBlock, ring
<1>a. /\ fifosize \in Nat /\ fifosize <= BufFrames /\ BufFrames \in Nat
      /\ fifohead \in Nat /\ block.at \in Nat /\ block.n \in Nat
  <2>1. RingTypes /\ ThreadTypes
    BY TypeParts
  <2>2. block.n > 0
    BY <1>0 DEF BlockFits
  <2>3. block.at \in Nat /\ block.n \in Nat
    BY <2>1, <2>2, BlockParts
  <2> QED
    BY <2>1, <2>3, Constants DEF RingTypes
<1>b. /\ block'.n \in 0 .. block.n /\ block'.n \in Nat
      /\ block'.at = block.at /\ block'.size = block.size
      /\ handle'.file = handle.file /\ handle'.at = handle.at + block'.n
      /\ handle'.at <= handle.file
      /\ block'.n = 0 => handle.at = handle.file
      /\ handle.at \in Nat
  <2>1. handle \in Frame
    BY DEF TypeOK
  <2> QED
    BY <2>1, <1>a, Reads, FrameParts
<1>c. requestcode = "BUSY" =>
        block.at = fifohead /\ block.size = fifosize /\ fifohead + block.n <= fifosize
  BY <1>0 DEF BlockFits
<1>1. BlockFits'
  <2>1. child' # "reading" /\ UNCHANGED <<requestcode, fifohead, fifosize>>
    BY <1>0 DEF request, ring
  <2>2. fifohead + block.n <= fifosize => fifohead + block'.n <= fifosize
    BY <1>a, <1>b
  <2> QED
    BY <1>b, <1>c, <2>1, <2>2 DEF BlockFits
<1>2. LoadsFileAskedFor'
  BY <1>0 DEF LoadsFileAskedFor, Asked, request
<1>3. ASSUME Serves'
      PROVE  handle'.file = Asked'.file /\ \E p \in Nat : HasRead(p)'
  <2>1. /\ Serves /\ Asked' = Asked /\ handle.file = Asked.file /\ Follows(handle.at)
        /\ requestcode = "BUSY"
    BY <1>0, <1>3 DEF Serves, ReadsOn, Loop, Asked, request
  <2>2. /\ block.at = fifohead /\ block.at + block.n <= BufFrames
    BY <1>a, <1>c, <2>1
  <2>3. PICK p \in Nat : p = handle.at
    BY <1>b
  <2>4. Follows(p)'
    BY <1>0, <2>1, <2>3 DEF Follows, Asked, request
  <2>5. ASSUME NEW i \in 1 .. block'.n
        PROVE  fifo'[block'.at + i - 1] = [file |-> Asked'.file, at |-> p + i]
    <3>1. /\ block.at + i - 1 \in 0 .. BufFrames - 1
          /\ block.at + i - 1 \in block.at .. block.at + block'.n - 1
      BY <1>a, <1>b, <2>2
    <3>2. fifo'[block.at + i - 1]
            = [file |-> handle.file, at |-> handle.at + 1 + (block.at + i - 1) - block.at]
      BY <3>1, Reads
    <3>3. p + 1 + (block.at + i - 1) - block.at = p + i
      BY <1>a, <1>b
    <3> QED
      BY <1>b, <2>1, <2>3, <3>2, <3>3
  <2>6. (block.n = 0)' => p = Asked'.file
    BY <1>b, <2>1, <2>3
  <2>7. (block.n >= 0)' => handle'.at \in Positions \cup {Asked'.at, p + block'.n}
    BY <1>b, <2>3
  <2>8. HasRead(p)'
    BY <2>4, <2>5, <2>6, <2>7 DEF HasRead
  <2> QED
    BY <1>b, <2>1, <2>8
<1>4. ReadsOn'
  BY <1>0, <1>b, <1>3 DEF ReadsOn
<1> QED
  BY <1>1, <1>2, <1>4

(* What a block adds to the frames that are loaded.                        *)
LEMMA LoadAppends ==
  ASSUME TypeOK, BlockFits, Load
  PROVE  /\ block.n \in Nat /\ block.n > 0 /\ Len(loaded) \in Nat
         /\ fifohead + block.n <= fifosize /\ block.at = fifohead
         /\ Len(loaded') = Len(loaded) + block.n /\ loaded' \in Seq(Frame)
         /\ \A i \in 1 .. Len(loaded) : loaded'[i] = loaded[i]
         /\ \A i \in 1 .. block.n : loaded'[Len(loaded) + i] = fifo[block.at + i - 1]
<1>0. DataTypes /\ ThreadTypes /\ RingTypes /\ BufFrames \in Nat
  BY TypeParts, Constants
<1> DEFINE s == [i \in 1 .. block.n |-> fifo[block.at + i - 1]]
<1>1. block.n > 0 /\ block.n \in Nat /\ block.at \in Nat /\ loaded' = loaded \o s
  <2>1. block.n > 0 /\ loaded' = loaded \o s
    BY DEF Load, Accepted
  <2>2. block.n \in Int /\ block.at \in Nat
    BY <1>0, BlockParts
  <2> QED
    BY <2>1, <2>2
<1>2. block.at = fifohead /\ fifohead + block.n <= fifosize
  BY DEF Load, Accepted, BlockFits
<1>3. block.at + block.n <= BufFrames
  BY <1>0, <1>1, <1>2 DEF RingTypes
<1>4. s \in Seq(Frame) /\ Len(s) = block.n
  BY <1>0, <1>1, <1>3, Piece
<1>5. \A i \in 1 .. block.n : s[i] = fifo[block.at + i - 1]
  OBVIOUS
<1>6. loaded \in Seq(Frame) /\ Len(loaded) \in Nat
  BY <1>0, LenProperties DEF DataTypes
<1> HIDE DEF s
<1>7. /\ Len(loaded \o s) = Len(loaded) + block.n /\ loaded \o s \in Seq(Frame)
      /\ \A i \in 1 .. Len(loaded) : (loaded \o s)[i] = loaded[i]
      /\ \A i \in 1 .. block.n : (loaded \o s)[Len(loaded) + i] = s[i]
  <2>1. /\ loaded \o s \in Seq(Frame) /\ Len(loaded \o s) = Len(loaded) + Len(s)
        /\ \A i \in 1 .. Len(loaded) + Len(s) :
             (loaded \o s)[i] = IF i <= Len(loaded) THEN loaded[i] ELSE s[i - Len(loaded)]
    BY <1>4, <1>6, ConcatProperties
  <2>2. ASSUME NEW i \in 1 .. Len(loaded) PROVE (loaded \o s)[i] = loaded[i]
    BY <1>1, <1>4, <1>6, <2>1
  <2>3. ASSUME NEW i \in 1 .. block.n PROVE (loaded \o s)[Len(loaded) + i] = s[i]
    <3>1. /\ Len(loaded) + i \in 1 .. Len(loaded) + Len(s)
          /\ ~ (Len(loaded) + i <= Len(loaded)) /\ Len(loaded) + i - Len(loaded) = i
      BY <1>1, <1>4, <1>6
    <3> QED
      BY <2>1, <3>1
  <2> QED
    BY <1>4, <2>1, <2>2, <2>3
<1> QED
  BY <1>1, <1>2, <1>5, <1>6, <1>7

LEMMA BlockLoaded ==
  ASSUME TypeOK, Control, BlockFits, ReadsOn, LoadsFileAskedFor, Load
  PROVE  BlockFits' /\ ReadsOn' /\ LoadsFileAskedFor'
<1>0. /\ child = "has read" /\ child' = "streaming" /\ requestcode = "BUSY"
      /\ UNCHANGED <<request, fifo, handle>> /\ Asked' = Asked /\ Serves
  BY DEF Load, Accepted, Asked, request, Serves, Loop
<1>1. PICK p \in Nat : HasRead(p)
  BY <1>0 DEF ReadsOn
<1>2. /\ block.n \in Nat /\ block.n > 0 /\ Len(loaded) \in Nat
      /\ Len(loaded') = Len(loaded) + block.n
      /\ DOMAIN loaded' = 1 .. Len(loaded) + block.n /\ DOMAIN loaded = 1 .. Len(loaded)
      /\ \A i \in 1 .. Len(loaded) : loaded'[i] = loaded[i]
  BY LoadAppends, LenProperties DEF TypeOK
<1>3. ASSUME NEW i \in 1 .. block.n
      PROVE  loaded'[Len(loaded) + i] = [file |-> Asked.file, at |-> p + i]
  BY <1>1, <1>3, LoadAppends DEF HasRead
<1>4. BlockFits'
  BY <1>0 DEF BlockFits
<1>5. ReadsOn'
  <2>1. loaded'[Len(loaded')].at = p + block.n /\ loaded' # <<>>
    <3>1. block.n \in 1 .. block.n
      BY <1>2
    <3>2. loaded'[Len(loaded) + block.n] = [file |-> Asked.file, at |-> p + block.n]
      BY <1>3, <3>1
    <3>3. loaded' # <<>>
      BY <1>2
    <3> QED
      BY <1>2, <3>2, <3>3
  <2>2. handle.at \in Positions \cup {Asked.at, p + block.n}
    BY <1>1, <1>2 DEF HasRead
  <2>3. Follows(handle.at)'
    BY <1>0, <2>1, <2>2 DEF Follows
  <2> QED
    BY <1>0, <2>3 DEF ReadsOn
<1>6. LoadsFileAskedFor'
  <2> SUFFICES ASSUME NEW j \in DOMAIN loaded'
               PROVE  /\ loaded'[j].file = Asked.file
                      /\ \/ loaded'[j].at - 1 \in Positions \cup {Asked.at}
                         \/ j > 1 /\ loaded'[j].at = loaded'[j - 1].at + 1
    BY <1>0 DEF LoadsFileAskedFor
  <2>1. CASE j \in 1 .. Len(loaded)
    <3>1. loaded'[j] = loaded[j] /\ (j > 1 => loaded'[j - 1] = loaded[j - 1])
      BY <1>2, <2>1
    <3> QED
      BY <1>2, <2>1, <3>1 DEF LoadsFileAskedFor
  <2>2. CASE j = Len(loaded) + 1
    <3>1. loaded'[j] = [file |-> Asked.file, at |-> p + 1]
      BY <1>2, <1>3, <2>2
    <3>2. CASE p \in Positions \cup {Asked.at}
      BY <3>1, <3>2
    <3>3. CASE loaded # <<>> /\ p = loaded[Len(loaded)].at
      <4>1. Len(loaded) > 0 /\ j - 1 = Len(loaded) /\ j > 1
        BY <1>2, <2>2, <3>3, EmptySeq DEF TypeOK
      <4>2. loaded'[j - 1] = loaded[Len(loaded)]
        BY <1>2, <4>1
      <4> QED
        BY <3>1, <3>3, <4>1, <4>2
    <3> QED
      BY <1>1, <3>2, <3>3 DEF HasRead, Follows
  <2>3. CASE j > Len(loaded) + 1
    <3>1. PICK i \in 1 .. block.n : j = Len(loaded) + i /\ i > 1
      <4>1. /\ j - Len(loaded) \in 1 .. block.n /\ j - Len(loaded) > 1
            /\ j = Len(loaded) + (j - Len(loaded))
        BY <1>2, <2>3
      <4> QED
        BY <4>1
    <3>2. i - 1 \in 1 .. block.n /\ j - 1 = Len(loaded) + (i - 1) /\ j > 1
      BY <1>2, <3>1
    <3>3. /\ loaded'[j] = [file |-> Asked.file, at |-> p + i]
          /\ loaded'[j - 1] = [file |-> Asked.file, at |-> p + (i - 1)]
      BY <1>3, <3>1, <3>2
    <3> QED
      BY <3>2, <3>3
  <2> QED
    BY <1>2, <2>1, <2>2, <2>3
<1> QED
  BY <1>4, <1>5, <1>6

LEMMA ChildReads ==
  ASSUME TypeOK, Control, BlockFits, ReadsOn, LoadsFileAskedFor, Child
  PROVE  BlockFits' /\ ReadsOn' /\ LoadsFileAskedFor'
<1> USE DEF request, ring, ticks, info, data, thread, Loop
<1>0. NoHandle.at <= NoHandle.file /\ taken \in Frame
  BY DEF NoHandle, Silence, TypeOK
<1>1. CASE AwaitRequest
  BY <1>1, QuietReads DEF AwaitRequest
<1>2. CASE TakeOpen
  BY <1>2, QuietReads DEF TakeOpen
<1>3. CASE OpenFailed
  BY <1>0, <1>3, LostReads DEF OpenFailed
<1>4. CASE OpenOvertaken
  BY <1>0, <1>4, LostReads, Opens DEF OpenOvertaken
<1>5. CASE Opened
  <2>1. /\ child' = "streaming" /\ loaded' = <<>> /\ loaded = <<>> /\ requestcode' = "BUSY"
        /\ handle' = Asked /\ Asked' = Asked
        /\ Asked.at <= Asked.file
    <3>1. taken = [file |-> filename, at |-> onsetframes] /\ loaded = <<>>
      BY <1>5 DEF Opened, Control, Primed
    <3>2. Handle = Asked /\ Asked.at <= Asked.file
      BY <1>0, <3>1, Opens DEF Handle, Asked
    <3> QED
      BY <1>5, <3>1, <3>2 DEF Opened, Asked
  <2> QED
    BY <2>1 DEF BlockFits, ReadsOn, LoadsFileAskedFor, Follows
<1>6. CASE AwaitRoom
  <2>1. UNCHANGED <<request, loaded, handle>> /\ child = "streaming" /\ child' = "awaits room"
    BY <1>6 DEF AwaitRoom
  <2> QED
    BY <2>1 DEF BlockFits, ReadsOn, LoadsFileAskedFor, Follows, Serves, Asked
<1>7. CASE BeginRead
  <2>1. /\ UNCHANGED <<request, ring, loaded, handle>> /\ child = "streaming"
        /\ child' = "reading" /\ requestcode = "BUSY" /\ Serves
        /\ block' = [at |-> fifohead, n |-> Wanted, size |-> fifosize]
    BY <1>7 DEF BeginRead, Streams, Serves
  <2>2. Wanted > 0 /\ fifohead + Wanted <= fifosize
    BY <1>7, <2>1, RoomWanted DEF Control, BeginRead
  <2>a. /\ fifosize \in Nat /\ fifosize <= BufFrames /\ BufFrames \in Nat
        /\ fifohead \in Nat /\ Wanted \in Nat
    BY <1>7, <2>1, SizedRing, Constants DEF Control, BeginRead, Wanted, AtMost
  <2>b. fifohead + Wanted <= BufFrames
    BY <2>2, <2>a
  <2>3. BlockFits'
    BY <2>1, <2>2, <2>b DEF BlockFits
  <2> QED
    BY <2>1, <2>3 DEF ReadsOn, LoadsFileAskedFor, Follows, Serves, Asked
<1>8. CASE LeaveLoop
  BY <1>8, LostReads DEF LeaveLoop
<1>9. CASE ReadBlock
  BY <1>9, BlockRead
<1>10. CASE ReadFails
  <2>1. /\ UNCHANGED <<request, ring, loaded, fifo, handle>> /\ child = "reading"
        /\ child' = "has read" /\ block'.n = -1
        /\ block'.at = block.at /\ block'.size = block.size
    <3>1. ThreadTypes
      BY TypeParts
    <3> QED
      BY <1>10, <3>1, BlockParts DEF ReadFails
  <2>2. BlockFits'
    <3>1. RingTypes /\ BufFrames \in Nat
      BY TypeParts, Constants
    <3>2. /\ block.n \in Int /\ block.n > 0 /\ fifohead \in Nat /\ fifosize \in Nat
      <4>1. ThreadTypes
        BY TypeParts
      <4> QED
        <5>1. block.n > 0 /\ block.n \in Int
          BY <2>1, <4>1, BlockParts DEF BlockFits
        <5> QED
          BY <3>1, <5>1 DEF RingTypes
    <3>3. requestcode = "BUSY" =>
            block.at = fifohead /\ block.size = fifosize /\ fifohead + block.n <= fifosize
      BY <2>1 DEF BlockFits
    <3>4. requestcode = "BUSY" => fifohead + (-1) <= fifosize
      BY <3>2, <3>3
    <3> QED
      BY <2>1, <3>3, <3>4 DEF BlockFits
  <2>3. ASSUME Serves'
        PROVE  handle'.file = Asked'.file /\ \E p \in Nat : HasRead(p)'
    <3>1. /\ handle.file = Asked.file /\ Follows(handle.at) /\ Asked' = Asked
      BY <2>1, <2>3 DEF Serves, ReadsOn, Asked
    <3>2. PICK p \in Nat : p = handle.at
      BY FrameParts DEF TypeOK
    <3>3. HasRead(p)'
      <4>1. Follows(p)'
        BY <2>1, <3>1, <3>2 DEF Follows
      <4>2. PICK n \in Int : n = block'.n /\ n = -1
        <5>1. block'.n = -1
          BY <2>1
        <5>2. -1 \in Int
          OBVIOUS
        <5> QED
          BY <5>1, <5>2
      <4>3. 1 .. n = {} /\ ~ (n >= 0) /\ n # 0
        BY <4>2
      <4> QED
        BY <4>1, <4>2, <4>3 DEF HasRead
    <3> QED
      BY <2>1, <3>1, <3>3
  <2>4. ReadsOn'
    BY <2>1, <2>3 DEF ReadsOn
  <2> QED
    BY <2>1, <2>2, <2>4 DEF LoadsFileAskedFor, Asked
<1>11. CASE Load
  BY <1>11, BlockLoaded
<1>12. CASE StopReading
  BY <1>12, LostReads DEF StopReading
<1>13. CASE Closed
  BY <1>0, <1>13, QuietReads DEF Closed
<1>14. CASE Answer
  BY <1>14, QuietReads DEF Answer
<1> QED
  BY <1>1, <1>2, <1>3, <1>4, <1>5, <1>6, <1>7, <1>8, <1>9, <1>10, <1>11, <1>12,
     <1>13, <1>14 DEF Child

LEMMA LoadStep == ASSUME Steady, LoadInv, [Next]_vars PROVE LoadInv'
<1>1. CASE UNCHANGED vars
  <2> USE DEF vars, request, ring, ticks, info, data, thread
  <2>1. TypeOK'
    BY <1>1 DEF LoadInv, TypeOK
  <2>2. Control'
    BY <1>1, QuietControl DEF LoadInv, Deleting
  <2>3. BlockFits' /\ LoadsFileAskedFor'
    BY <1>1 DEF LoadInv, BlockFits, LoadsFileAskedFor, Asked
  <2>4. /\ Serves' <=> Serves
        /\ \A p : (Follows(p)' <=> Follows(p)) /\ (HasRead(p)' <=> HasRead(p))
    BY <1>1 DEF Serves, Follows, HasRead, Asked
  <2>5. ReadsOn'
    BY <1>1, <2>4 DEF LoadInv, ReadsOn, Asked, Follows
  <2> QED
    BY <2>1, <2>2, <2>3, <2>5 DEF LoadInv
<1>2. CASE Messages \/ ambix_read_perform \/ ambix_read_tick \/ Deletion
  BY <1>2, ParentTypes, ParentControls, ParentReads DEF LoadInv
<1>3. CASE Child
  BY <1>3, ChildTypes, ChildControls, ChildReads DEF LoadInv
<1> QED
  BY <1>1, <1>2, <1>3 DEF Next

LEMMA LoadAlways == ASSUME Steady PROVE Spec => []LoadInv
<1>1. Init => LoadInv
  BY TypeInit, ControlInit, ReadInit DEF LoadInv
<1>2. LoadInv /\ [Next]_vars => LoadInv'
  BY LoadStep
<1> QED
  BY <1>1, <1>2, PTL DEF Spec

(* Every variable stays in its type and the fifo is never written or read  *)
(* behind its end, if DSP keeps its block size during a playback           *)
(* (ambix_read~.c:340 and 670).                                            *)
THEOREM Types == ASSUME Steady PROVE Spec => []TypeOK
<1>1. LoadInv => TypeOK
  BY DEF LoadInv
<1> QED
  BY <1>1, LoadAlways, PTL

(* What is read is the file asked for last, frame by frame, however        *)
(* requests overtake each other and whatever fails (ambix_read~.c:283-395).*)
THEOREM LoadsAsked == ASSUME Steady PROVE Spec => []LoadsFileAskedFor
<1>1. LoadInv => LoadsFileAskedFor
  BY DEF LoadInv
<1> QED
  BY <1>1, LoadAlways, PTL

-----------------------------------------------------------------------------
(* The fifo is a queue                                                     *)

(* Ticks go on when one frame less than a block is left.  They never find  *)
(* it so when blocks, files and places are even.                           *)
Even(n) == n % 2 = 0
AllEven ==
  /\ Even(READFRAMES)
  /\ \A v \in VecSizes : Even(v)
  /\ \A n \in Files \cup Onsets \cup Positions : Even(n)

Parity ==
  /\ Even(fifohead) /\ Even(onsetframes) /\ Even(handle.at) /\ Even(taken.at)
  /\ child \in {"reading", "has read"} => block.n = -1 \/ Even(block.n)

(* From the tail to the head the fifo holds what is loaded and not played. *)
Content ==
  /\ fifohead >= fifotail =>
       /\ Len(loaded) = Len(played) + fifohead - fifotail
       /\ \A p \in fifotail .. fifohead - 1 :
            fifo[p] = loaded[Len(played) + 1 + p - fifotail]
  /\ fifohead < fifotail =>
       /\ Len(loaded) = Len(played) + fifosize - fifotail + fifohead
       /\ \A p \in fifotail .. fifosize - 1 :
            fifo[p] = loaded[Len(played) + 1 + p - fifotail]
       /\ \A p \in 0 .. fifohead - 1 :
            fifo[p] = loaded[Len(played) + 1 + fifosize - fifotail + p]
Playing == state # "IDLE" /\ ~ Deleting

(* The block that is read ends before the tail.                            *)
BlockApart ==
  child \in {"reading", "has read"} /\ requestcode = "BUSY" =>
    /\ fifohead < fifotail => fifohead + block.n < fifotail
    /\ fifotail = 0 => fifohead + block.n < fifosize

(* Nothing is loaded for a playback that has ended.                        *)
Ends ==
  /\ requestcode \in {"OPEN", "BUSY"} /\ ~ eof => state # "IDLE"
  /\ eof /\ Serves => child = "streaming"

QueueInv ==
  Parity /\ (Playing => Content) /\ BlockApart /\ Ends /\ PlaysInOrder

LEMMA EvenSum ==
  ASSUME NEW a \in Int, NEW b \in Int, Even(a), Even(b)
  PROVE  Even(a + b) /\ Even(a - b)
BY DEF Even

LEMMA EvenProduct ==
  ASSUME NEW a \in Nat, NEW b \in Nat, Even(a)
  PROVE  Even(a * b)
<1>1. PICK k \in Nat : a = 2 * k
  <2>1. a = 2 * (a \div 2) /\ a \div 2 \in Nat
    BY DEF Even
  <2> QED
    BY <2>1
<1>2. k * b \in Nat /\ a * b = 2 * (k * b)
  BY <1>1
<1>3. \A n \in Nat : (2 * n) % 2 = 0
  OBVIOUS
<1> QED
  BY <1>2, <1>3 DEF Even

LEMMA EvenApart ==
  ASSUME NEW a \in Int, NEW b \in Int, NEW v \in Int, Even(a), Even(b), Even(v),
         a >= b + v - 1
  PROVE  a >= b + v
BY DEF Even

LEMMA EvenRing ==
  ASSUME TypeOK, Sized, AllEven
  PROVE  Even(fifosize) /\ Even(fifotail) /\ Even(vecsize)
<1>1. vecsize \in VecSizes /\ vecsize \in Nat /\ Even(vecsize)
  BY SizedRing DEF TypeOK, AllEven
<1>2. PICK q \in Nat : fifosize = vecsize * q
  BY <1>1, RoundedSize DEF Sized
<1>3. PICK r \in Nat : fifotail = vecsize * r
  BY DEF Sized, Multiple
<1> QED
  BY <1>1, <1>2, <1>3, EvenProduct

(* Most steps of the parent leave the fifo alone.                          *)
Aside ==
  /\ UNCHANGED <<fifosize, fifohead, fifotail, eof, fifo, loaded, played, taken>>
  /\ UNCHANGED <<filename, onsetframes>>
  /\ state = "IDLE" => state' = "IDLE"
  /\ state' = "IDLE" => state = "IDLE" \/ requestcode' = "CLOSE"
  /\ requestcode' \in {requestcode, "CLOSE", "QUIT"}
  /\ Playing' => Playing
  /\ child = "streaming" => child' = "streaming"
  /\ child' = "opening" => child = "opening"

LEMMA SignalsStreaming ==
  SignalsChild => /\ child = "streaming" => child' = "streaming"
                  /\ child' = "opening" => child = "opening"
                  /\ taken' = taken
BY DEF SignalsChild, ChildSignalled

LEMMA ParentAside ==
  ASSUME TypeOK, Control, Steady,
         Messages \/ ambix_read_perform \/ ambix_read_tick \/ Deletion
  PROVE  \/ Aside \/ Play \/ EndOfFile \/ ambix_read_new
         \/ FailsInTime /\ \E f \in Files, p \in Onsets : ambix_read_open(f, p)
<1> USE DEF request, ring, ticks, info, data, thread, Playing
<1>1. CASE Skip
  BY <1>1 DEF Skip, Aside, Deleting
<1>2. CASE Starve
  BY <1>2, SignalsStreaming DEF Starve, SleepsIn, Aside, Deleting, Streaming, Resumes, Ready
<1>5. CASE ambix_read_tick
  BY <1>5 DEF ambix_read_tick, Aside, Deleting
<1>6. CASE ambix_read_start
  BY <1>6 DEF ambix_read_start, Aside, Deleting
<1>7. CASE ambix_read_stop
  BY <1>7, SignalsStreaming DEF ambix_read_stop, Aside, Deleting
<1>9. ASSUME NEW v \in VecSizes, ambix_read_dsp(v) PROVE Aside
  BY <1>9 DEF ambix_read_dsp, Aside, Deleting
<1>10. ASSUME NEW p \in Positions, ambix_seek_pos(p) PROVE Aside
  BY <1>10 DEF ambix_seek_pos, Aside, Deleting
<1>11. CASE RequestQuit
  BY <1>11, SignalsStreaming DEF RequestQuit, SleepsIn, Aside, Deleting
<1>13. CASE AwaitQuit
  <2>1. (SignalsChild \/ UNCHANGED thread) /\ Deleting
    BY <1>13 DEF AwaitQuit, SleepsIn, Deleting, Resumes
  <2>2. Deleting'
    BY <1>13 DEF AwaitQuit, SleepsIn, Deleting
  <2> QED
    BY <1>13, <2>1, <2>2, SignalsStreaming DEF AwaitQuit, Aside
<1>14. CASE ambix_read_free
  <2>1. Deleting /\ Deleting'
    BY <1>14 DEF ambix_read_free, Deleting
  <2> QED
    BY <1>14, <2>1 DEF ambix_read_free, Aside
<1> QED
  BY <1>1, <1>2, <1>5, <1>6, <1>7, <1>9, <1>10, <1>11, <1>13, <1>14
     DEF Messages, ambix_read_perform, Deletion

LEMMA ParentParity ==
  ASSUME TypeOK, Control, Steady, ReadsOn, AllEven, Parity,
         Messages \/ ambix_read_perform \/ ambix_read_tick \/ Deletion
  PROVE  Parity'
<1>1. Even(0)
  BY DEF Even
<1>2. /\ fifohead' \in {fifohead, 0} /\ taken' \in {taken, Silence}
      /\ onsetframes' \in {onsetframes, 0} \cup Onsets
  <2>1. CASE Aside
    BY <2>1 DEF Aside
  <2>2. CASE Play
    BY <2>2, SignalsStreaming DEF Play, request, thread
  <2>3. CASE EndOfFile
    BY <2>3, SignalsStreaming DEF EndOfFile, ring
  <2>4. CASE ambix_read_new
    BY <2>4 DEF ambix_read_new
  <2>5. ASSUME NEW f \in Files, NEW p \in Onsets, ambix_read_open(f, p)
        PROVE  fifohead' = 0 /\ taken' = taken /\ onsetframes' = p
    BY <2>5, SignalsStreaming DEF ambix_read_open, Restarted
  <2> QED
    BY <2>1, <2>2, <2>3, <2>4, <2>5, ParentAside
<1>3. Even(fifohead') /\ Even(onsetframes') /\ Even(taken'.at)
  <2>1. Even(fifohead')
    BY <1>1, <1>2 DEF Parity
  <2>2. Even(onsetframes')
    BY <1>1, <1>2 DEF Parity, AllEven
  <2>3. Silence.at = 0
    BY DEF Silence
  <2>4. Even(taken'.at)
    BY <1>1, <1>2, <2>3 DEF Parity
  <2> QED
    BY <2>1, <2>2, <2>4
<1>4. Even(handle'.at)
  <2>1. handle \in Frame /\ handle.at <= handle.file
    BY DEF TypeOK, ReadsOn
  <2>2. ASSUME NEW p \in Positions, handle' = Sought(handle, p)
        PROVE  Even(handle'.at)
    <3>1. handle'.at \in {handle.at, p}
      BY <2>1, <2>2, Seeks, Constants
    <3> QED
      BY <3>1 DEF Parity, AllEven
  <2> QED
    BY <2>2, ParentLeavesRead DEF Parity
<1>5. (child \in {"reading", "has read"} => block.n = -1 \/ Even(block.n))'
  BY ParentLeavesRead DEF Parity
<1> QED
  BY <1>3, <1>4, <1>5 DEF Parity

(* What a tick does to the frames that were put out.                       *)
LEMMA PutsOut ==
  ASSUME TypeOK, Len(played) <= Len(loaded), NEW n \in Nat, fifotail + n <= BufFrames,
         PutOut(n)
  PROVE  /\ UNCHANGED <<fifo, loaded>> /\ played' \in Seq(Frame)
         /\ Len(played) \in Nat /\ Len(loaded) \in Nat /\ Len(played') = Len(played) + n
         /\ \A i \in 1 .. Len(played) : played'[i] = played[i]
         /\ \A i \in 1 .. n : played'[Len(played) + i] = fifo[fifotail + i - 1]
<1>0. /\ DataTypes /\ fifotail \in Nat
      /\ played \in Seq(Frame) /\ Len(played) \in Nat /\ Len(loaded) \in Nat
  BY TypeParts, LenProperties, Constants DEF DataTypes, RingTypes
<1> DEFINE s == [i \in 1 .. n |-> fifo[fifotail + i - 1]]
<1>1. s \in Seq(Frame) /\ Len(s) = n
  BY <1>0, Piece
<1>2. \A i \in 1 .. n : s[i] = fifo[fifotail + i - 1]
  OBVIOUS
<1>3. played' = played \o s /\ UNCHANGED <<fifo, loaded>>
  BY DEF PutOut
<1> HIDE DEF s
<1>4. /\ played \o s \in Seq(Frame) /\ Len(played \o s) = Len(played) + n
      /\ \A i \in 1 .. Len(played) + n :
           (played \o s)[i] = IF i <= Len(played) THEN played[i] ELSE s[i - Len(played)]
  BY <1>0, <1>1, ConcatProperties
<1>5. ASSUME NEW i \in 1 .. Len(played) PROVE (played \o s)[i] = played[i]
  BY <1>0, <1>4
<1>6. ASSUME NEW i \in 1 .. n PROVE (played \o s)[Len(played) + i] = s[i]
  <2>1. /\ Len(played) + i \in 1 .. Len(played) + n
        /\ ~ (Len(played) + i <= Len(played)) /\ Len(played) + i - Len(played) = i
    BY <1>0
  <2> QED
    BY <1>4, <2>1
<1> QED
  BY <1>0, <1>2, <1>3, <1>4, <1>5, <1>6

(* A tick finds its block in the fifo.                                     *)
LEMMA PlayFinds ==
  ASSUME TypeOK, Control, AllEven, Parity, Playing => Content, Play
  PROVE  /\ Playing /\ Content /\ Playing' /\ state = "STREAM"
         /\ Sized /\ fifotail + vecsize <= fifosize
         /\ fifohead >= fifotail => fifohead >= fifotail + vecsize
         /\ Len(played) + vecsize <= Len(loaded)
         /\ fifotail' = IF fifotail + vecsize = fifosize THEN 0 ELSE fifotail + vecsize
<1>1. Playing /\ Content /\ Playing' /\ state = "STREAM"
  BY DEF Play, Streaming, Ready, Resumes, Playing, Deleting, request
<1>2. vecsize \in VecSizes /\ vecsize \in Nat /\ vecsize >= 2
  BY Constants DEF TypeOK
<1>3. Sized
  BY <1>1, <1>2 DEF Control, Playing, Play, Draining, Primed
<1>4. /\ fifosize \in Nat /\ fifohead \in Nat /\ fifotail \in Nat
      /\ fifohead < fifosize /\ fifotail < fifosize
      /\ fifotail + vecsize <= fifosize
  BY <1>2, <1>3, SizedRing, TailFits
<1>5. fifohead >= fifotail => fifohead >= fifotail + vecsize
  <2>1. fifohead >= fifotail => fifohead >= fifotail + vecsize - 1
    BY <1>2, <1>4 DEF Play, Draining
  <2>2. Even(fifohead) /\ Even(fifotail) /\ Even(vecsize)
    BY <1>3, EvenRing DEF Parity
  <2>3. fifohead \in Int /\ fifotail \in Int /\ vecsize \in Int
    BY <1>2, <1>4
  <2> QED
    BY <2>1, <2>2, <2>3, EvenApart
<1>6. Len(played) \in Nat /\ Len(loaded) \in Nat
  BY LenProperties DEF TypeOK
<1>7. Len(played) + vecsize <= Len(loaded)
  BY <1>1, <1>2, <1>4, <1>5, <1>6 DEF Content
<1> QED
  BY <1>1, <1>2, <1>3, <1>4, <1>5, <1>7 DEF Play

LEMMA PlayQueues ==
  ASSUME TypeOK, Control, AllEven, QueueInv, Play
  PROVE  Content' /\ BlockApart' /\ Ends' /\ PlaysInOrder'
<1>0. /\ vecsize \in Nat /\ vecsize >= 2 /\ BufFrames \in Nat
      /\ fifosize \in Nat /\ fifohead \in Nat /\ fifotail \in Nat /\ fifosize <= BufFrames
      /\ fifohead < fifosize /\ fifotail < fifosize
  BY PlayFinds, SizedRing, Constants DEF QueueInv
<1>1. /\ Content /\ state = "STREAM" /\ fifotail + vecsize <= fifosize
      /\ fifohead >= fifotail => fifohead >= fifotail + vecsize
      /\ Len(played) + vecsize <= Len(loaded)
      /\ fifotail' = IF fifotail + vecsize = fifosize THEN 0 ELSE fifotail + vecsize
  BY PlayFinds DEF QueueInv
<1>2. /\ UNCHANGED <<fifo, loaded, fifohead, fifosize, eof, state, requestcode>>
      /\ Len(played) \in Nat /\ Len(loaded) \in Nat /\ Len(played') = Len(played) + vecsize
      /\ \A i \in 1 .. Len(played) : played'[i] = played[i]
      /\ \A i \in 1 .. vecsize : played'[Len(played) + i] = fifo[fifotail + i - 1]
      /\ played' \in Seq(Frame)
  <2>1. PutOut(vecsize) /\ UNCHANGED <<fifohead, fifosize, eof, state, requestcode>>
    BY DEF Play, request
  <2>2. Len(played) <= Len(loaded) /\ fifotail + vecsize <= BufFrames
    <3>1. Len(played) \in Nat /\ Len(loaded) \in Nat
      BY LenProperties DEF TypeOK
    <3> QED
      BY <1>0, <1>1, <3>1
  <2> QED
    BY <1>0, <2>1, <2>2, PutsOut
<1>3. ASSUME NEW i \in 1 .. vecsize
      PROVE  fifo[fifotail + i - 1] = loaded[Len(played) + i]
  <2>1. /\ fifotail + i - 1 \in Int
        /\ Len(played) + 1 + (fifotail + i - 1) - fifotail = Len(played) + i
    BY <1>0, <1>2
  <2>2. CASE fifohead >= fifotail
    <3>1. fifotail + i - 1 \in fifotail .. fifohead - 1
      BY <1>0, <1>1, <2>2
    <3> QED
      BY <1>1, <2>1, <2>2, <3>1 DEF Content
  <2>3. CASE fifohead < fifotail
    <3>1. fifotail + i - 1 \in fifotail .. fifosize - 1
      BY <1>0, <1>1, <2>3
    <3> QED
      BY <1>1, <2>1, <2>3, <3>1 DEF Content
  <2> QED
    BY <1>0, <2>2, <2>3
<1>4. PlaysInOrder'
  <2>1. DOMAIN played' = 1 .. Len(played) + vecsize /\ DOMAIN played = 1 .. Len(played)
    BY <1>2, LenProperties DEF TypeOK
  <2>2. ASSUME NEW i \in DOMAIN played', i <= Len(loaded) PROVE played'[i] = loaded[i]
    <3>1. CASE i <= Len(played)
      BY <1>0, <1>2, <2>1, <2>2, <3>1 DEF QueueInv, PlaysInOrder
    <3>2. CASE i > Len(played)
      <4>1. i - Len(played) \in 1 .. vecsize /\ Len(played) + (i - Len(played)) = i
        BY <1>0, <1>2, <2>1, <3>2
      <4> QED
        BY <1>2, <1>3, <4>1
    <3> QED
      BY <1>0, <1>2, <2>1, <3>1, <3>2
  <2> QED
    BY <1>0, <1>1, <1>2, <2>2 DEF PlaysInOrder
<1>5. Content'
  <2>1. CASE fifohead >= fifotail
    <3>1. fifotail' = fifotail + vecsize /\ fifohead >= fifotail'
      BY <1>0, <1>1, <2>1
    <3>2. Len(loaded) = Len(played') + fifohead - fifotail'
      BY <1>0, <1>1, <1>2, <2>1, <3>1 DEF Content
    <3>3. ASSUME NEW p \in fifotail' .. fifohead - 1
          PROVE  fifo[p] = loaded[Len(played') + 1 + p - fifotail']
      <4>1. /\ p \in fifotail .. fifohead - 1
            /\ Len(played') + 1 + p - fifotail' = Len(played) + 1 + p - fifotail
        BY <1>0, <1>2, <3>1
      <4> QED
        BY <1>1, <2>1, <4>1 DEF Content
    <3> QED
      BY <1>0, <1>2, <3>1, <3>2, <3>3 DEF Content
  <2>2. CASE fifohead < fifotail /\ fifotail + vecsize < fifosize
    <3>1. fifotail' = fifotail + vecsize /\ fifohead < fifotail'
      BY <1>0, <1>1, <2>2
    <3>2. Len(loaded) = Len(played') + fifosize - fifotail' + fifohead
      BY <1>0, <1>1, <1>2, <2>2, <3>1 DEF Content
    <3>3. ASSUME NEW p \in fifotail' .. fifosize - 1
          PROVE  fifo[p] = loaded[Len(played') + 1 + p - fifotail']
      <4>1. /\ p \in fifotail .. fifosize - 1
            /\ Len(played') + 1 + p - fifotail' = Len(played) + 1 + p - fifotail
        BY <1>0, <1>2, <3>1
      <4> QED
        BY <1>1, <2>2, <4>1 DEF Content
    <3>4. ASSUME NEW p \in 0 .. fifohead - 1
          PROVE  fifo[p] = loaded[Len(played') + 1 + fifosize - fifotail' + p]
      <4>1. Len(played') + 1 + fifosize - fifotail' + p = Len(played) + 1 + fifosize - fifotail + p
        BY <1>0, <1>2, <3>1
      <4> QED
        BY <1>1, <2>2, <4>1 DEF Content
    <3> QED
      BY <1>0, <1>2, <3>1, <3>2, <3>3, <3>4 DEF Content
  <2>3. CASE fifohead < fifotail /\ fifotail + vecsize = fifosize
    <3>1. fifotail' = 0 /\ fifohead >= fifotail'
      BY <1>0, <1>1, <2>3
    <3>2. Len(loaded) = Len(played') + fifohead - fifotail'
      BY <1>0, <1>1, <1>2, <2>3, <3>1 DEF Content
    <3>3. ASSUME NEW p \in fifotail' .. fifohead - 1
          PROVE  fifo[p] = loaded[Len(played') + 1 + p - fifotail']
      <4>1. /\ p \in 0 .. fifohead - 1
            /\ Len(played') + 1 + p - fifotail' = Len(played) + 1 + fifosize - fifotail + p
        <5>1. fifotail' = 0 /\ fifosize - fifotail = vecsize /\ p \in 0 .. fifohead - 1
          BY <1>0, <2>3, <3>1
        <5>2. Len(played') = Len(played) + vecsize /\ Len(played) \in Nat
          BY <1>2
        <5> QED
          BY <1>0, <5>1, <5>2
      <4> QED
        BY <1>1, <2>3, <4>1 DEF Content
    <3> QED
      BY <1>0, <1>2, <3>1, <3>2, <3>3 DEF Content
  <2> QED
    BY <1>0, <1>1, <2>1, <2>2, <2>3
<1>6. /\ child = "streaming" => child' = "streaming"
      /\ child' \in Loop <=> child \in Loop
      /\ \A c \in {"reading", "has read"} : child' = c <=> child = c
      /\ block' = block
  BY SignalsTo, SignalsStreaming DEF Play, thread
<1>7. Ends'
  BY <1>2, <1>6 DEF QueueInv, Ends, Serves
<1>8. ASSUME NEW n \in Int, fifohead < fifotail => fifohead + n < fifotail,
             fifotail = 0 => fifohead + n < fifosize
      PROVE  /\ fifohead < fifotail' => fifohead + n < fifotail'
             /\ fifotail' = 0 => fifohead + n < fifosize
  <2>1. CASE fifotail + vecsize = fifosize
    <3>1. fifotail' = 0 /\ fifotail > 0 /\ fifohead < fifotail
      BY <1>0, <1>1, <2>1
    <3> QED
      BY <1>0, <1>8, <3>1
  <2>2. CASE fifotail + vecsize # fifosize
    <3>1. fifotail' = fifotail + vecsize /\ fifotail' > 0
      BY <1>0, <1>1, <2>2
    <3>2. fifohead < fifotail' => fifohead < fifotail
      BY <1>0, <1>1, <3>1
    <3> QED
      BY <1>0, <1>8, <3>1, <3>2
  <2> QED
    BY <2>1, <2>2
<1>9. BlockApart'
  <2>1. block.n \in Int
    BY TypeParts, BlockParts
  <2>2. BlockApart
    BY DEF QueueInv
  <2> QED
    BY <1>2, <1>6, <1>8, <2>1, <2>2 DEF BlockApart
<1> QED
  BY <1>4, <1>5, <1>7, <1>9

LEMMA EndFinds ==
  ASSUME TypeOK, Playing => Content, EndOfFile
  PROVE  /\ Playing /\ Content /\ fifohead >= fifotail /\ eof
         /\ fifohead \in Nat /\ fifotail \in Nat /\ fifohead < BufFrames
         /\ Len(loaded) = Len(played) + (fifohead - fifotail)
         /\ Len(played) \in Nat /\ Len(loaded) \in Nat
         /\ UNCHANGED <<fifo, loaded>>
         /\ Len(played') = Len(loaded) + 1 /\ played' \in Seq(Frame)
         /\ \A i \in 1 .. Len(loaded) :
              played'[i] = IF i <= Len(played) THEN played[i] ELSE loaded[i]
<1>1. Playing /\ Content /\ fifohead >= fifotail /\ eof
  BY DEF EndOfFile, Streaming, Ready, Resumes, Draining, Playing, Deleting
<1>2. /\ fifohead \in Nat /\ fifotail \in Nat /\ fifohead < BufFrames /\ BufFrames \in Nat
      /\ Len(played) \in Nat /\ Len(loaded) \in Nat
  BY LenProperties, Constants DEF TypeOK
<1>3. Len(loaded) = Len(played) + (fifohead - fifotail)
  BY <1>1, <1>2 DEF Content
<1> DEFINE n == fifohead - fifotail + 1
<1>4. n \in Nat /\ fifotail + n <= BufFrames /\ Len(played) <= Len(loaded)
  BY <1>1, <1>2, <1>3
<1>5. PutOut(n)
  BY DEF EndOfFile
<1>6. /\ UNCHANGED <<fifo, loaded>> /\ played' \in Seq(Frame)
      /\ Len(played') = Len(played) + n
      /\ \A i \in 1 .. Len(played) : played'[i] = played[i]
      /\ \A i \in 1 .. n : played'[Len(played) + i] = fifo[fifotail + i - 1]
  BY <1>4, <1>5, PutsOut
<1>7. ASSUME NEW i \in 1 .. Len(loaded), i > Len(played) PROVE played'[i] = loaded[i]
  <2>1. PICK j \in 1 .. n : i = Len(played) + j
    <3>1. i - Len(played) \in 1 .. n /\ i = Len(played) + (i - Len(played))
      BY <1>2, <1>3, <1>7
    <3> QED
      BY <3>1
  <2>2. /\ fifotail + j - 1 \in fifotail .. fifohead - 1
        /\ Len(played) + 1 + (fifotail + j - 1) - fifotail = i
    BY <1>2, <1>3, <1>7, <2>1
  <2>3. fifo[fifotail + j - 1] = loaded[i]
    BY <1>1, <2>2 DEF Content
  <2> QED
    BY <1>6, <2>1, <2>3
<1>8. Len(played') = Len(loaded) + 1
  BY <1>2, <1>3, <1>6
<1>9. ASSUME NEW i \in 1 .. Len(loaded)
      PROVE  played'[i] = IF i <= Len(played) THEN played[i] ELSE loaded[i]
  BY <1>2, <1>6, <1>7
<1> QED
  BY <1>1, <1>2, <1>3, <1>6, <1>8, <1>9

LEMMA EndQueues ==
  ASSUME TypeOK, QueueInv, EndOfFile
  PROVE  (Playing => Content)' /\ BlockApart' /\ Ends' /\ PlaysInOrder'
<1>1. /\ eof /\ UNCHANGED <<loaded, fifohead, fifotail, fifosize, eof, requestcode>>
      /\ state' = "IDLE" /\ ~ Playing'
  BY EndFinds DEF EndOfFile, ring, Playing, QueueInv
<1>2. /\ child = "streaming" => child' = "streaming"
      /\ child' \in Loop <=> child \in Loop
      /\ \A c \in {"reading", "has read"} : child' = c <=> child = c
      /\ block' = block
  BY SignalsTo, SignalsStreaming DEF EndOfFile
<1>3. BlockApart' /\ Ends'
  BY <1>1, <1>2 DEF QueueInv, BlockApart, Ends, Serves
<1>4. /\ Len(loaded) \in Nat /\ Len(played) \in Nat /\ played' \in Seq(Frame)
      /\ Len(played') = Len(loaded) + 1
      /\ \A i \in 1 .. Len(loaded) :
           played'[i] = IF i <= Len(played) THEN played[i] ELSE loaded[i]
  BY EndFinds DEF QueueInv
<1>5. /\ DOMAIN played' = 1 .. Len(loaded) + 1 /\ DOMAIN played = 1 .. Len(played)
      /\ \A i \in DOMAIN played : i <= Len(loaded) => played[i] = loaded[i]
  BY <1>4, LenProperties DEF TypeOK, QueueInv, PlaysInOrder
<1>6. ASSUME NEW i \in DOMAIN played', i <= Len(loaded) PROVE played'[i] = loaded[i]
  BY <1>4, <1>5, <1>6
<1>7. Len(played') <= Len(loaded') + (IF state' = "IDLE" /\ eof' THEN 1 ELSE 0)
  BY <1>1, <1>4
<1>8. PlaysInOrder'
  BY <1>1, <1>6, <1>7 DEF PlaysInOrder
<1> QED
  BY <1>1, <1>3, <1>8

LEMMA OpenQueues ==
  ASSUME NEW f \in Files, NEW p \in Onsets, ambix_read_open(f, p)
  PROVE  Content' /\ BlockApart' /\ Ends' /\ PlaysInOrder'
<1>1. /\ fifohead' = 0 /\ fifotail' = 0 /\ eof' = FALSE /\ state' = "STARTUP"
      /\ requestcode' = "OPEN" /\ loaded' = <<>> /\ played' = <<>>
  BY DEF ambix_read_open, Restarted
<1>2. Len(loaded') = 0 /\ Len(played') = 0 /\ DOMAIN played' = {}
  BY <1>1
<1>3. Content'
  BY <1>1, <1>2 DEF Content
<1>4. PlaysInOrder'
  BY <1>1, <1>2 DEF PlaysInOrder
<1> QED
  BY <1>1, <1>3, <1>4 DEF BlockApart, Ends, Serves

LEMMA NewQueues ==
  ASSUME ambix_read_new
  PROVE  (Playing => Content)' /\ BlockApart' /\ Ends' /\ PlaysInOrder'
<1>1. /\ state' = "IDLE" /\ requestcode' = "NOTHING" /\ loaded' = <<>> /\ played' = <<>>
      /\ ~ Playing' /\ eof' = FALSE
  BY DEF ambix_read_new, Playing
<1>2. Len(loaded') = 0 /\ Len(played') = 0 /\ DOMAIN played' = {}
  BY <1>1
<1>3. PlaysInOrder'
  BY <1>1, <1>2 DEF PlaysInOrder
<1> QED
  BY <1>1, <1>3 DEF BlockApart, Ends, Serves

LEMMA AsideQueues ==
  ASSUME TypeOK, Control, Steady, QueueInv, Aside,
         Messages \/ ambix_read_perform \/ ambix_read_tick \/ Deletion
  PROVE  (Playing => Content)' /\ BlockApart' /\ Ends' /\ PlaysInOrder'
<1>1. (Playing => Content)'
  BY DEF Aside, QueueInv, Content
<1>2. BlockApart'
  BY ParentLeavesRead DEF Aside, QueueInv, BlockApart
<1>3. Ends'
  BY ParentLeavesRead DEF Aside, QueueInv, Ends, Serves
<1>4. PlaysInOrder'
  <2>1. Len(played) \in Nat /\ Len(loaded) \in Nat
    BY LenProperties DEF TypeOK
  <2> QED
    BY <2>1 DEF Aside, QueueInv, PlaysInOrder
<1> QED
  BY <1>1, <1>2, <1>3, <1>4

LEMMA ParentQueues ==
  ASSUME TypeOK, Control, Steady, ReadsOn, AllEven, QueueInv,
         Messages \/ ambix_read_perform \/ ambix_read_tick \/ Deletion
  PROVE  QueueInv'
<1>1. Parity'
  BY ParentParity DEF QueueInv
<1>2. (Playing => Content)' /\ BlockApart' /\ Ends' /\ PlaysInOrder'
  BY ParentAside, AsideQueues, PlayQueues, EndQueues, NewQueues, OpenQueues
<1> QED
  BY <1>1, <1>2 DEF QueueInv

LEMMA SameOrder ==
  ASSUME TypeOK, PlaysInOrder, UNCHANGED <<loaded, played>>,
         state = "IDLE" /\ eof => state' = "IDLE" /\ eof'
  PROVE  PlaysInOrder'
<1>1. Len(played) \in Nat /\ Len(loaded) \in Nat
  BY LenProperties DEF TypeOK
<1> QED
  BY <1>1 DEF PlaysInOrder

(* Steps of the child that leave the fifo alone.                           *)
LEMMA QuietQueues ==
  ASSUME TypeOK, QueueInv, Child,
         UNCHANGED <<fifosize, fifohead, fifotail, fifo, loaded, played, onsetframes>>,
         Even(handle'.at), Even(taken'.at), eof' \in {eof, TRUE},
         requestcode' \in {"OPEN", "BUSY"} => requestcode \in {"OPEN", "BUSY"},
         Serves' /\ eof' => child' = "streaming",
         child' \notin {"reading", "has read"}
  PROVE  QueueInv'
<1>0. state' = state /\ (Playing' <=> Playing)
  BY ChildLeavesParent DEF Playing
<1>1. Parity'
  BY DEF QueueInv, Parity
<1>2. (Playing => Content)'
  BY <1>0 DEF QueueInv, Content
<1>3. BlockApart' /\ Ends'
  BY <1>0 DEF QueueInv, BlockApart, Ends
<1>4. PlaysInOrder'
  <2>1. state = "IDLE" /\ eof => state' = "IDLE" /\ eof'
    BY <1>0
  <2> QED
    BY <2>1, SameOrder DEF QueueInv
<1> QED
  BY <1>1, <1>2, <1>3, <1>4 DEF QueueInv

LEMMA LostQueues ==
  ASSUME TypeOK, QueueInv, Child, NEW h, Lost(h), h = handle \/ Even(h.at),
         UNCHANGED <<fifosize, fifohead, fifotail, fifo, loaded, played, onsetframes>>,
         taken' \in {taken, Silence}, eof' \in {eof, TRUE}
  PROVE  QueueInv'
<1>1. /\ child' \in {"top", "leaving"} /\ handle' = h
      /\ requestcode' = IF requestcode = "BUSY" THEN "NOTHING" ELSE requestcode
  BY DEF Lost
<1>2. Even(handle'.at) /\ Even(taken'.at)
  <2>1. Even(Silence.at)
    BY DEF Silence, Even
  <2> QED
    BY <1>1, <2>1 DEF QueueInv, Parity
<1>3. child' \notin Loop /\ child' \notin {"reading", "has read"}
  BY <1>1 DEF Loop
<1> QED
  BY <1>1, <1>2, <1>3, QuietQueues DEF Serves

LEMMA OpenedQueues ==
  ASSUME TypeOK, Control, AllEven, QueueInv, Opened
  PROVE  QueueInv'
<1>0. state' = state /\ (Playing' <=> Playing)
  BY ChildLeavesParent DEF Playing, Child
<1>1. /\ fifohead = 0 /\ fifotail = 0 /\ loaded = <<>>
      /\ taken = [file |-> filename, at |-> onsetframes]
      /\ fifohead' = 0 /\ fifotail' = 0 /\ requestcode = "BUSY" /\ requestcode' = "BUSY"
      /\ UNCHANGED <<onsetframes, loaded, played, eof>>
      /\ handle' = Handle /\ taken' = Silence /\ child' = "streaming"
  BY DEF Opened, Control, Primed, request
<1>2. Even(0)
  BY DEF Even
<1>3. Even(Handle.at)
  <2>1. /\ [file |-> taken.file, at |-> 0] \in Frame /\ taken.file \in Nat /\ taken.at \in Nat
    <3>1. taken \in Frame
      BY DEF TypeOK
    <3> QED
      BY <3>1, FrameParts DEF Frame
  <2>2. Handle.at \in {0, taken.at}
    BY <2>1, Seeks DEF Handle
  <2> QED
    BY <1>1, <1>2, <2>2 DEF QueueInv, Parity
<1>4. Parity'
  BY <1>1, <1>2, <1>3 DEF QueueInv, Parity, Silence
<1>5. (Playing => Content)'
  <2>1. Len(loaded) = 0 /\ Len(played) \in Nat
    BY <1>1, LenProperties DEF TypeOK
  <2>2. Playing => Len(played) = 0
    BY <1>1, <2>1 DEF QueueInv, Content
  <2> QED
    BY <1>0, <1>1, <2>1, <2>2 DEF Content
<1>6. BlockApart' /\ Ends' /\ PlaysInOrder'
  BY <1>0, <1>1 DEF QueueInv, BlockApart, Ends, PlaysInOrder
<1> QED
  BY <1>4, <1>5, <1>6 DEF QueueInv

LEMMA BeginQueues ==
  ASSUME TypeOK, Control, AllEven, QueueInv, BeginRead
  PROVE  QueueInv'
<1>0. state' = state /\ (Playing' <=> Playing)
  BY ChildLeavesParent DEF Playing, Child
<1>1. /\ UNCHANGED <<requestcode, onsetframes, ring, loaded, played, fifo, handle, taken>>
      /\ ~ eof /\ Serves /\ child' = "reading"
      /\ block'.n = Wanted
  BY DEF BeginRead, Streams, request, data, Serves, Loop
<1>2. Sized
  BY <1>1 DEF Control
<1>3. /\ Wanted \in Nat
      /\ fifohead < fifotail => fifohead + Wanted < fifotail
      /\ fifotail = 0 => fifohead + Wanted < fifosize
  BY <1>2, RoomWanted DEF BeginRead
<1>4. Even(Wanted)
  <2>1. Even(fifosize) /\ Even(fifohead) /\ fifosize \in Int /\ fifohead \in Int
    <3>1. Even(fifosize) /\ Even(fifohead)
      BY <1>2, EvenRing DEF QueueInv, Parity
    <3>2. fifosize \in Int /\ fifohead \in Int
      BY <1>2, SizedRing
    <3> QED
      BY <3>1, <3>2
  <2>2. Even(fifosize - fifohead) /\ Even(READFRAMES)
    BY <2>1, EvenSum DEF AllEven
  <2> QED
    BY <2>2 DEF Wanted, AtMost
<1>5. Parity' /\ BlockApart'
  BY <1>1, <1>3, <1>4 DEF QueueInv, Parity, BlockApart, ring
<1>6. Ends'
  BY <1>0, <1>1 DEF QueueInv, Ends, ring
<1>7. (Playing => Content)' /\ PlaysInOrder'
  BY <1>0, <1>1 DEF QueueInv, Content, PlaysInOrder, ring
<1> QED
  BY <1>5, <1>6, <1>7 DEF QueueInv

LEMMA ReadQueues ==
  ASSUME TypeOK, Control, BlockFits, ReadsOn, AllEven, QueueInv, ReadBlock
  PROVE  QueueInv'
<1>0. state' = state /\ (Playing' <=> Playing)
  BY ChildLeavesParent DEF Playing, Child
<1>1. /\ UNCHANGED <<requestcode, onsetframes, ring, loaded, played, taken>>
      /\ child = "reading" /\ child' = "has read"
  BY DEF ReadBlock, request
<1>2. /\ block.at \in Nat /\ block.n \in Nat /\ block'.n \in 0 .. block.n
      /\ handle.at \in Nat /\ handle.file \in Nat /\ handle.file \in Files \cup {0}
      /\ block'.n = AtMost(block.n, handle.file - handle.at)
      /\ handle'.at = handle.at + block'.n
      /\ \A i \in 0 .. BufFrames - 1 :
           i \notin block.at .. block.at + block'.n - 1 => fifo'[i] = fifo[i]
  <2>1. ThreadTypes /\ DataTypes
    BY TypeParts
  <2>2. /\ block.at \in Nat /\ block.n \in Nat
    <3>1. block.n > 0
      BY <1>1 DEF BlockFits
    <3> QED
      BY <2>1, <3>1, BlockParts
  <2>3. handle.at \in Nat /\ handle.file \in Nat /\ handle.file \in Files \cup {0}
    BY <2>1, FrameParts DEF DataTypes
  <2>4. block'.n \in 0 .. block.n
    BY Reads
  <2>5. handle'.at = handle.at + block'.n
    BY Reads
  <2>6. \A i \in 0 .. BufFrames - 1 :
           i \notin block.at .. block.at + block'.n - 1 => fifo'[i] = fifo[i]
    BY Reads
  <2>7. block'.n = AtMost(block.n, handle.file - handle.at)
    BY <2>1, BlockParts DEF ReadBlock
  <2> QED
    BY <2>2, <2>3, <2>4, <2>5, <2>6, <2>7
<1>3. handle.at <= handle.file /\ Even(handle.at) /\ Even(handle.file)
  <2>1. handle.file = 0 \/ handle.file \in Files
    BY <1>2
  <2>2. Even(0)
    BY DEF Even
  <2>3. Even(handle.file)
    BY <2>1, <2>2 DEF AllEven
  <2> QED
    BY <2>3 DEF ReadsOn, QueueInv, Parity
<1>4. requestcode = "BUSY" =>
        /\ block.at = fifohead /\ fifohead + block.n <= fifosize
        /\ fifohead < fifotail => fifohead + block.n < fifotail
        /\ fifotail = 0 => fifohead + block.n < fifosize
  BY <1>1 DEF QueueInv, BlockApart, BlockFits
<1>5. Parity'
  <2>1. Even(block.n)
    <3>1. block.n # -1
      BY <1>2
    <3> QED
      BY <1>1, <3>1 DEF QueueInv, Parity
  <2>2. Even(handle.file - handle.at)
    <3>1. handle.file \in Int /\ handle.at \in Int
      BY <1>2
    <3> QED
      BY <1>3, <3>1, EvenSum
  <2>3. Even(block'.n)
    BY <1>2, <2>1, <2>2 DEF AtMost
  <2>4. Even(handle'.at)
    <3>1. handle.at \in Int /\ block'.n \in Int /\ handle'.at = handle.at + block'.n
      BY <1>2
    <3> QED
      BY <1>3, <2>3, <3>1, EvenSum
  <2> QED
    BY <1>1, <2>3, <2>4 DEF QueueInv, Parity, ring
<1>6. BlockApart' /\ Ends'
  <2>1. ~ (Serves /\ eof)
    BY <1>1 DEF QueueInv, Ends
  <2>2. Serves' => Serves
    BY <1>1 DEF Serves, Loop
  <2>3. Ends'
    BY <1>0, <1>1, <2>1, <2>2 DEF QueueInv, Ends, ring
  <2>4. /\ fifohead \in Int /\ fifotail \in Int /\ fifosize \in Int
    BY DEF TypeOK
  <2>5. requestcode = "BUSY" =>
          /\ fifohead < fifotail => fifohead + block'.n < fifotail
          /\ fifotail = 0 => fifohead + block'.n < fifosize
    BY <1>2, <1>4, <2>4
  <2>6. BlockApart'
    BY <1>1, <2>5 DEF BlockApart, ring
  <2> QED
    BY <2>3, <2>6
<1>7. PlaysInOrder'
  BY <1>0, <1>1 DEF QueueInv, PlaysInOrder, ring
(* What is in the fifo is not touched.                                     *)
<1>8. (Playing => Content)'
  <2> SUFFICES ASSUME Playing PROVE Content'
    BY <1>0
  <2>0. Content /\ fifosize \in Nat /\ fifohead \in Nat /\ fifotail \in Nat
        /\ fifohead < BufFrames /\ fifosize <= BufFrames /\ BufFrames \in Nat
    BY Constants DEF QueueInv, TypeOK
  <2>1. CASE requestcode = "BUSY"
    <3>1. ASSUME NEW p \in 0 .. BufFrames - 1,
                 IF fifohead >= fifotail THEN p < fifohead
                 ELSE p < fifohead \/ p >= fifotail
          PROVE  fifo'[p] = fifo[p]
      <4>1. p \notin block.at .. block.at + block'.n - 1
        BY <1>2, <1>4, <2>0, <2>1, <3>1
      <4> QED
        BY <1>2, <4>1
    <3>2. CASE fifohead >= fifotail
      <4>1. \A p \in fifotail .. fifohead - 1 : p \in 0 .. BufFrames - 1 /\ p < fifohead
        BY <2>0
      <4>2. \A p \in fifotail .. fifohead - 1 : fifo'[p] = fifo[p]
        BY <3>1, <3>2, <4>1
      <4> QED
        <5>1. ~ (fifohead < fifotail)
          BY <2>0, <3>2
        <5> QED
          BY <1>1, <2>0, <3>2, <4>2, <5>1 DEF Content, ring
    <3>3. CASE fifohead < fifotail
      <4>1. /\ \A p \in fifotail .. fifosize - 1 : p \in 0 .. BufFrames - 1 /\ p >= fifotail
            /\ \A p \in 0 .. fifohead - 1 : p \in 0 .. BufFrames - 1 /\ p < fifohead
            /\ ~ (fifohead >= fifotail)
        BY <2>0, <3>3
      <4>2. /\ \A p \in fifotail .. fifosize - 1 : fifo'[p] = fifo[p]
            /\ \A p \in 0 .. fifohead - 1 : fifo'[p] = fifo[p]
        BY <3>1, <4>1
      <4> QED
        BY <1>1, <2>0, <3>3, <4>1, <4>2 DEF Content, ring
    <3> QED
      BY <2>0, <3>2, <3>3
  <2>2. CASE requestcode # "BUSY"
    <3>1. Primed
      BY <1>1, <2>2 DEF Control, Playing, TypeOK, Loop
    <3> QED
      <4>1. fifohead = 0 /\ fifotail = 0 /\ UNCHANGED <<fifohead, fifotail, loaded, played>>
        BY <1>1, <3>1 DEF Primed, ring
      <4>2. Len(loaded) = Len(played) + 0 - 0 /\ 0 .. 0 - 1 = {}
        BY <2>0, <4>1 DEF Content
      <4> QED
        BY <4>1, <4>2 DEF Content
  <2> QED
    BY <2>1, <2>2
<1> QED
  BY <1>5, <1>6, <1>7, <1>8 DEF QueueInv

LEMMA FailQueues ==
  ASSUME TypeOK, QueueInv, ReadFails
  PROVE  QueueInv'
<1>0. state' = state /\ (Playing' <=> Playing)
  BY ChildLeavesParent DEF Playing, Child
<1>1. /\ UNCHANGED <<requestcode, onsetframes, ring, fifo, loaded, played, taken, handle>>
      /\ child = "reading" /\ child' = "has read"
  BY DEF ReadFails, request, data
<1>2. block'.n = -1 /\ block.n \in Int /\ -1 <= block.n
  <2>1. ThreadTypes
    BY TypeParts
  <2> QED
    BY <2>1, BlockParts DEF ReadFails
<1>3. Parity'
  BY <1>1, <1>2 DEF QueueInv, Parity, ring
<1>4. BlockApart'
  <2>1. /\ fifohead \in Int /\ fifotail \in Int /\ fifosize \in Int
    BY DEF TypeOK
  <2>2. requestcode = "BUSY" =>
          /\ fifohead < fifotail => fifohead + block.n < fifotail
          /\ fifotail = 0 => fifohead + block.n < fifosize
    BY <1>1 DEF QueueInv, BlockApart
  <2>3. PICK n \in Int : n = block'.n /\ n <= block.n
    BY <1>2
  <2>4. requestcode = "BUSY" =>
          /\ fifohead < fifotail => fifohead + n < fifotail
          /\ fifotail = 0 => fifohead + n < fifosize
    BY <1>2, <2>1, <2>2, <2>3
  <2> QED
    BY <1>1, <2>3, <2>4 DEF BlockApart, ring
<1>5. Ends'
  BY <1>0, <1>1 DEF QueueInv, Ends, ring, Serves, Loop
<1>6. (Playing => Content)' /\ PlaysInOrder'
  BY <1>0, <1>1 DEF QueueInv, Content, PlaysInOrder, ring
<1> QED
  BY <1>3, <1>4, <1>5, <1>6 DEF QueueInv

(* A block that counts is put into a fifo that is playing and has room.    *)
LEMMA LoadFinds ==
  ASSUME TypeOK, Control, BlockFits, QueueInv, Load
  PROVE  /\ Playing /\ Playing' /\ Content /\ ~ eof /\ state' = state
         /\ UNCHANGED <<requestcode, onsetframes, fifosize, fifotail, eof, fifo, played,
                        handle, taken>>
         /\ child' = "streaming"
         /\ fifosize \in Nat /\ fifohead \in Nat /\ fifotail \in Nat
         /\ fifohead < fifosize /\ fifotail < fifosize /\ fifosize <= BufFrames
         /\ block.n \in Nat /\ block.n > 0 /\ block.at = fifohead /\ Even(block.n)
         /\ fifohead + block.n <= fifosize
         /\ fifohead < fifotail => fifohead + block.n < fifotail
         /\ fifotail = 0 => fifohead + block.n < fifosize
         /\ fifohead' = IF fifohead + block.n = fifosize THEN 0 ELSE fifohead + block.n
<1>1. /\ Serves /\ requestcode = "BUSY" /\ child = "has read" /\ child' = "streaming"
      /\ block.n > 0
      /\ UNCHANGED <<request, fifosize, fifotail, eof, fifo, played, handle, taken>>
  BY DEF Load, Accepted, Serves, Loop
<1>2. ~ eof /\ state # "IDLE" /\ ~ Deleting
  BY <1>1 DEF QueueInv, Ends, Control
<1>3. Playing /\ Playing' /\ state' = state
  BY <1>2, ChildLeavesParent DEF Playing, Child
<1>4. Sized
  BY <1>1 DEF Control
<1>5. Even(block.n)
  <2>1. block.n # -1
    BY LoadAppends
  <2> QED
    BY <1>1, <2>1 DEF QueueInv, Parity
<1>6. /\ fifohead < fifotail => fifohead + block.n < fifotail
      /\ fifotail = 0 => fifohead + block.n < fifosize
  BY <1>1 DEF QueueInv, BlockApart
<1>7. fifohead' = IF fifohead + block.n = fifosize THEN 0 ELSE fifohead + block.n
  <2>1. block.size = fifosize
    BY <1>1 DEF BlockFits
  <2> QED
    BY <2>1 DEF Load, HeadBehind
<1>8. UNCHANGED <<requestcode, onsetframes>> /\ Content
  BY <1>1, <1>3 DEF request, QueueInv
<1>9. /\ fifosize \in Nat /\ fifohead \in Nat /\ fifotail \in Nat
      /\ fifohead < fifosize /\ fifotail < fifosize /\ fifosize <= BufFrames
  BY <1>4, SizedRing
<1>10. /\ block.n \in Nat /\ block.n > 0 /\ block.at = fifohead
       /\ fifohead + block.n <= fifosize
  BY LoadAppends
<1> QED
  BY <1>1, <1>2, <1>3, <1>5, <1>6, <1>7, <1>8, <1>9, <1>10

LEMMA LoadContent ==
  ASSUME TypeOK, Control, BlockFits, QueueInv, Load
  PROVE  Content'
<1>0. /\ Content /\ UNCHANGED <<fifosize, fifotail, fifo, played>>
      /\ fifosize \in Nat /\ fifohead \in Nat /\ fifotail \in Nat
      /\ fifohead < fifosize /\ fifotail < fifosize
      /\ block.n \in Nat /\ block.n > 0 /\ block.at = fifohead
      /\ fifohead + block.n <= fifosize
      /\ fifohead < fifotail => fifohead + block.n < fifotail
      /\ fifotail = 0 => fifohead + block.n < fifosize
      /\ fifohead' = IF fifohead + block.n = fifosize THEN 0 ELSE fifohead + block.n
  BY LoadFinds
<1>1. /\ Len(played) \in Nat /\ Len(loaded) \in Nat /\ Len(loaded') = Len(loaded) + block.n
      /\ \A i \in 1 .. Len(loaded) : loaded'[i] = loaded[i]
      /\ \A i \in 1 .. block.n : loaded'[Len(loaded) + i] = fifo[fifohead + i - 1]
  BY <1>0, LoadAppends, LenProperties DEF TypeOK
<1>2. ASSUME NEW p \in fifohead .. fifohead + block.n - 1
      PROVE  fifo[p] = loaded'[Len(loaded) + 1 + p - fifohead]
  <2>1. PICK i \in 1 .. block.n : i = 1 + p - fifohead
    BY <1>0
  <2>2. Len(loaded) + 1 + p - fifohead = Len(loaded) + i /\ fifohead + i - 1 = p
    BY <1>0, <1>1, <2>1
  <2> QED
    BY <1>1, <2>1, <2>2
<1>3. CASE fifohead >= fifotail
  <2>1. /\ Len(loaded) = Len(played) + fifohead - fifotail
        /\ \A p \in fifotail .. fifohead - 1 :
             fifo[p] = loaded[Len(played) + 1 + p - fifotail]
    BY <1>0, <1>3 DEF Content
  <2>2. ASSUME NEW p \in fifotail .. fifohead + block.n - 1
        PROVE  fifo[p] = loaded'[Len(played) + 1 + p - fifotail]
    <3>1. CASE p < fifohead
      <4>1. /\ p \in fifotail .. fifohead - 1
            /\ Len(played) + 1 + p - fifotail \in 1 .. Len(loaded)
        BY <1>0, <1>1, <2>1, <3>1
      <4> QED
        BY <1>1, <2>1, <4>1
    <3>2. CASE p >= fifohead
      <4>1. /\ p \in fifohead .. fifohead + block.n - 1
            /\ Len(played) + 1 + p - fifotail = Len(loaded) + 1 + p - fifohead
        BY <1>0, <1>1, <2>1, <3>2
      <4> QED
        BY <1>2, <4>1
    <3> QED
      BY <1>0, <3>1, <3>2
  <2>3. CASE fifohead + block.n < fifosize
    <3>1. /\ fifohead' = fifohead + block.n /\ fifohead' >= fifotail
          /\ ~ (fifohead' < fifotail)
      BY <1>0, <1>3, <2>3
    <3>2. Len(loaded') = Len(played) + fifohead' - fifotail
      BY <1>0, <1>1, <2>1, <3>1
    <3>3. fifotail' = fifotail /\ played' = played /\ fifo' = fifo
      BY <1>0
    <3>4. \A p \in fifotail .. fifohead' - 1 :
            fifo[p] = loaded'[Len(played) + 1 + p - fifotail]
      <4>1. fifohead' - 1 = fifohead + block.n - 1
        BY <1>0, <3>1
      <4> QED
        BY <2>2, <4>1
    <3> QED
      BY <3>1, <3>2, <3>3, <3>4 DEF Content
  <2>4. CASE fifohead + block.n = fifosize
    <3>1. /\ fifohead' = 0 /\ fifohead' < fifotail /\ ~ (fifohead' >= fifotail)
          /\ 0 .. fifohead' - 1 = {}
      BY <1>0, <2>4
    <3>2. Len(loaded') = Len(played) + fifosize - fifotail + fifohead'
      <4>1. Len(loaded') = Len(played) + (fifohead + block.n) - fifotail
        BY <1>0, <1>1, <2>1
      <4>2. fifohead' = 0 /\ Len(played) + fifosize - fifotail \in Int
        BY <1>0, <1>1, <3>1
      <4> QED
        BY <2>4, <4>1, <4>2
    <3>3. fifotail' = fifotail /\ played' = played /\ fifo' = fifo /\ fifosize' = fifosize
      BY <1>0
    <3>4. \A p \in fifotail .. fifosize - 1 :
            fifo[p] = loaded'[Len(played) + 1 + p - fifotail]
      <4>1. fifosize - 1 = fifohead + block.n - 1
        BY <1>0, <2>4
      <4> QED
        BY <2>2, <4>1
    <3> QED
      BY <3>1, <3>2, <3>3, <3>4 DEF Content
  <2> QED
    BY <1>0, <2>3, <2>4
<1>4. CASE fifohead < fifotail
  <2>1. /\ Len(loaded) = Len(played) + fifosize - fifotail + fifohead
        /\ \A p \in fifotail .. fifosize - 1 :
             fifo[p] = loaded[Len(played) + 1 + p - fifotail]
        /\ \A p \in 0 .. fifohead - 1 :
             fifo[p] = loaded[Len(played) + 1 + fifosize - fifotail + p]
    BY <1>0, <1>4 DEF Content
  <2>2. /\ fifohead' = fifohead + block.n /\ fifohead' < fifotail
        /\ ~ (fifohead' >= fifotail)
    BY <1>0, <1>4
  <2>3. Len(loaded') = Len(played) + fifosize - fifotail + fifohead'
    BY <1>0, <1>1, <2>1, <2>2
  <2>4. ASSUME NEW p \in fifotail .. fifosize - 1
        PROVE  fifo[p] = loaded'[Len(played) + 1 + p - fifotail]
    <3>1. Len(played) + 1 + p - fifotail \in 1 .. Len(loaded)
      BY <1>0, <1>1, <2>1
    <3> QED
      BY <1>1, <2>1, <3>1
  <2>5. ASSUME NEW p \in 0 .. fifohead' - 1
        PROVE  fifo[p] = loaded'[Len(played) + 1 + fifosize - fifotail + p]
    <3>1. CASE p < fifohead
      <4>1. /\ p \in 0 .. fifohead - 1
            /\ Len(played) + 1 + fifosize - fifotail + p \in 1 .. Len(loaded)
        BY <1>0, <1>1, <2>1, <2>2, <3>1
      <4> QED
        BY <1>1, <2>1, <4>1
    <3>2. CASE p >= fifohead
      <4>1. /\ p \in fifohead .. fifohead + block.n - 1
            /\ Len(played) + 1 + fifosize - fifotail + p = Len(loaded) + 1 + p - fifohead
        BY <1>0, <1>1, <2>1, <2>2, <3>2
      <4> QED
        BY <1>2, <4>1
    <3> QED
      BY <1>0, <2>2, <3>1, <3>2
  <2>6. fifotail' = fifotail /\ played' = played /\ fifo' = fifo /\ fifosize' = fifosize
    BY <1>0
  <2> QED
    BY <2>2, <2>3, <2>4, <2>5, <2>6 DEF Content
<1> QED
  BY <1>0, <1>3, <1>4

LEMMA LoadQueues ==
  ASSUME TypeOK, Control, BlockFits, QueueInv, Load
  PROVE  QueueInv'
<1>1. Parity'
  <2>1. Even(fifohead) /\ Even(block.n) /\ fifohead \in Int /\ block.n \in Int /\ Even(0)
    <3>1. fifohead \in Int /\ block.n \in Int /\ Even(block.n)
      BY LoadFinds
    <3>2. Even(fifohead)
      BY DEF QueueInv, Parity
    <3>3. Even(0)
      BY DEF Even
    <3> QED
      BY <3>1, <3>2, <3>3
  <2>2. Even(fifohead')
    BY <2>1, LoadFinds, EvenSum
  <2> QED
    BY <2>2, LoadFinds DEF QueueInv, Parity
<1>2. (Playing => Content)'
  BY LoadContent
<1>3. BlockApart' /\ Ends'
  BY LoadFinds DEF BlockApart, Ends, QueueInv
<1>4. PlaysInOrder'
  <2>1. /\ played' = played /\ Len(played) \in Nat /\ Len(loaded) \in Nat /\ Content
        /\ DOMAIN played = 1 .. Len(played) /\ block.n \in Nat
        /\ Len(loaded') = Len(loaded) + block.n
        /\ \A i \in 1 .. Len(loaded) : loaded'[i] = loaded[i]
    BY LoadFinds, LoadAppends, LenProperties DEF TypeOK
  <2>2. Len(played) <= Len(loaded)
    <3>1. /\ fifosize \in Nat /\ fifohead \in Nat /\ fifotail \in Nat
          /\ fifotail < fifosize
      BY LoadFinds
    <3> QED
      BY <2>1, <3>1 DEF Content
  <2>3. \A i \in 1 .. Len(played) : loaded'[i] = loaded[i]
    BY <2>1, <2>2
  <2>4. \A i \in DOMAIN played : i <= Len(loaded) => played[i] = loaded[i]
    BY DEF QueueInv, PlaysInOrder
  <2>5. \A i \in DOMAIN played : played[i] = loaded'[i]
    BY <2>1, <2>2, <2>3, <2>4
  <2>6. Len(played) <= Len(loaded')
    BY <2>1, <2>2
  <2> QED
    BY <2>1, <2>5, <2>6 DEF PlaysInOrder
<1> QED
  BY <1>1, <1>2, <1>3, <1>4 DEF QueueInv

LEMMA ChildQueues ==
  ASSUME TypeOK, Control, BlockFits, ReadsOn, AllEven, QueueInv, Child
  PROVE  QueueInv'
<1> USE DEF request, ring, ticks, info, data
<1>a. Even(handle.at) /\ Even(taken.at) /\ Even(onsetframes) /\ Even(NoHandle.at)
      /\ (requestcode = "BUSY" => child \in Loop \cup {"opening"})
  <2>1. Even(NoHandle.at)
    BY DEF NoHandle, Silence, Even
  <2> QED
    BY <2>1 DEF QueueInv, Parity, Control
<1>1. CASE AwaitRequest
  BY <1>1, <1>a, QuietQueues DEF AwaitRequest, Serves, Loop
<1>2. CASE TakeOpen
  <2>1. taken'.at = onsetframes
    BY <1>2 DEF TakeOpen
  <2> QED
    BY <1>2, <1>a, <2>1, QuietQueues DEF TakeOpen, Serves, Loop
<1>3. CASE OpenFailed
  BY <1>3, <1>a, LostQueues DEF OpenFailed
<1>4. CASE OpenOvertaken
  <2>1. Even(Handle.at)
    <3>1. /\ [file |-> taken.file, at |-> 0] \in Frame /\ taken.at \in Nat /\ taken.file \in Nat
      BY FrameParts DEF TypeOK, Frame
    <3>2. Handle.at \in {0, taken.at}
      BY <3>1, Seeks DEF Handle
    <3>3. Even(0)
      BY DEF Even
    <3> QED
      BY <1>a, <3>2, <3>3
  <2> QED
    BY <1>4, <2>1, LostQueues DEF OpenOvertaken
<1>5. CASE Opened
  BY <1>5, OpenedQueues
<1>6. CASE AwaitRoom
  BY <1>6, <1>a, QuietQueues DEF AwaitRoom, Streams
<1>7. CASE BeginRead
  BY <1>7, BeginQueues
<1>8. CASE LeaveLoop
  BY <1>8, LostQueues DEF LeaveLoop
<1>9. CASE ReadBlock
  BY <1>9, ReadQueues
<1>10. CASE ReadFails
  BY <1>10, FailQueues
<1>11. CASE Load
  BY <1>11, LoadQueues
<1>12. CASE StopReading
  <2>1. eof' \in {eof, TRUE}
    BY <1>12 DEF StopReading, EndSeen, TypeOK
  <2> QED
    BY <1>12, <2>1, LostQueues DEF StopReading
<1>13. CASE Closed
  BY <1>13, <1>a, QuietQueues DEF Closed, Serves, Loop
<1>14. CASE Answer
  BY <1>14, <1>a, QuietQueues DEF Answer, Serves, Loop
<1> QED
  BY <1>1, <1>2, <1>3, <1>4, <1>5, <1>6, <1>7, <1>8, <1>9, <1>10, <1>11, <1>12,
     <1>13, <1>14 DEF Child

LEMMA QueueInit == Init => QueueInv
<1> SUFFICES ASSUME Init PROVE QueueInv
  OBVIOUS
<1>1. Parity
  BY DEF Init, Parity, Even, NoHandle, Silence
<1>2. loaded = <<>> /\ played = <<>> /\ Len(played) = 0 /\ Len(loaded) = 0 /\ DOMAIN played = {}
  BY DEF Init
<1>3. Content /\ PlaysInOrder
  BY <1>2 DEF Init, Content, PlaysInOrder
<1>4. BlockApart /\ Ends
  BY DEF Init, BlockApart, Ends, Serves
<1> QED
  BY <1>1, <1>3, <1>4 DEF QueueInv

LEMMA QueueStep ==
  ASSUME Steady, AllEven, LoadInv, QueueInv, [Next]_vars PROVE QueueInv'
<1>1. CASE UNCHANGED vars
  BY <1>1 DEF QueueInv, Parity, Playing, Deleting, Content, BlockApart, Ends, Serves,
     PlaysInOrder, vars, request, ring, ticks, info, data, thread
<1>2. CASE Messages \/ ambix_read_perform \/ ambix_read_tick \/ Deletion
  BY <1>2, ParentQueues DEF LoadInv
<1>3. CASE Child
  BY <1>3, ChildQueues DEF LoadInv
<1> QED
  BY <1>1, <1>2, <1>3 DEF Next

LEMMA QueueAlways ==
  ASSUME Steady, AllEven PROVE Spec => [](LoadInv /\ QueueInv)
<1>1. LoadInv /\ QueueInv /\ [Next]_vars => QueueInv'
  BY QueueStep
<1> QED
  BY <1>1, LoadAlways, QueueInit, PTL DEF Spec

(* What is put out is what was read, frame by frame, through all wrapping  *)
(* of the fifo and waiting of the threads (ambix_read~.c:604-676), if      *)
(* blocks, files and places are even: the ticks go on when one frame less  *)
(* than a block is left (see the run read_ends).                           *)
THEOREM InOrder == ASSUME Steady, AllEven PROVE Spec => []PlaysInOrder
<1>1. QueueInv => PlaysInOrder
  BY DEF QueueInv
<1> QED
  BY <1>1, QueueAlways, PTL

-----------------------------------------------------------------------------
(* Refinement                                                              *)

Upto(n) == [i \in 1 .. n |-> i]

LEMMA CountedTo ==
  ASSUME NEW n \in Nat
  PROVE  Upto(n) \in Seq(Nat) /\ Len(Upto(n)) = n /\ (n = 0 => Upto(n) = <<>>)
<1>1. Upto(n) \in [1 .. n -> Nat]
  BY DEF Upto
<1>2. Upto(n) \in Seq(Nat) /\ Len(Upto(n)) = n
  BY <1>1, IsRun
<1> QED
  BY <1>2, EmptySeq

LEMMA CountOn ==
  ASSUME NEW m \in Nat, NEW n \in Nat
  PROVE  Upto(m + n) = Upto(m) \o [i \in 1 .. n |-> m + i]
<1> DEFINE s == [i \in 1 .. n |-> m + i]
<1>1. s \in [1 .. n -> Nat]
  OBVIOUS
<1>2. s \in Seq(Nat) /\ Len(s) = n
  BY <1>1, IsRun
<1>a. \A i \in 1 .. n : s[i] = m + i
  OBVIOUS
<1> HIDE DEF s
<1>3. /\ Upto(m) \in Seq(Nat) /\ Len(Upto(m)) = m
      /\ Upto(m + n) \in Seq(Nat) /\ Len(Upto(m + n)) = m + n
  BY CountedTo
<1>4. /\ Upto(m) \o s \in Seq(Nat) /\ Len(Upto(m) \o s) = m + n
      /\ \A i \in 1 .. m + n : (Upto(m) \o s)[i] = IF i <= m THEN Upto(m)[i] ELSE s[i - m]
  <2> DEFINE u == Upto(m)
  <2>1. u \in Seq(Nat) /\ Len(u) = m
    BY <1>3
  <2> HIDE DEF u
  <2>2. /\ u \o s \in Seq(Nat) /\ Len(u \o s) = m + n
        /\ \A i \in 1 .. m + n : (u \o s)[i] = IF i <= m THEN u[i] ELSE s[i - m]
    BY <1>2, <2>1, ConcatProperties
  <2> QED
    BY <2>2 DEF u
<1>5. ASSUME NEW i \in 1 .. m + n PROVE (Upto(m) \o s)[i] = Upto(m + n)[i]
  <2>1. CASE i <= m
    BY <1>4, <2>1 DEF Upto
  <2>2. CASE i > m
    <3>1. i - m \in 1 .. n /\ ~ (i <= m) /\ m + (i - m) = i
      BY <2>2
    <3>2. s[i - m] = i
      BY <1>a, <3>1
    <3> QED
      BY <1>4, <3>1, <3>2 DEF Upto
  <2>3. i <= m \/ i > m
    OBVIOUS
  <2> QED
    BY <2>1, <2>2, <2>3
<1> QED
  BY <1>3, <1>4, <1>5, SeqEqual DEF s

(* What has come out is numbered as it went in.                            *)
LEMMA NumberedIs ==
  TypeOK /\ PlaysInOrder =>
    /\ Numbered = Upto(AtMost(Len(played), Len(loaded)))
    /\ Len(played) \in Nat /\ Len(loaded) \in Nat
    /\ AtMost(Len(played), Len(loaded)) \in Nat
<1> SUFFICES ASSUME TypeOK, PlaysInOrder
             PROVE  /\ Numbered = Upto(AtMost(Len(played), Len(loaded)))
                    /\ Len(played) \in Nat /\ Len(loaded) \in Nat
                    /\ AtMost(Len(played), Len(loaded)) \in Nat
  OBVIOUS
<1>1. Len(played) \in Nat /\ Len(loaded) \in Nat /\ DOMAIN played = 1 .. Len(played)
  BY LenProperties DEF TypeOK
<1>2. ASSUME NEW i \in 1 .. AtMost(Len(played), Len(loaded))
      PROVE  played[i] = loaded[i]
  BY <1>1 DEF AtMost, PlaysInOrder
<1>3. AtMost(Len(played), Len(loaded)) \in Nat
  BY <1>1 DEF AtMost
<1> QED
  BY <1>1, <1>2, <1>3 DEF Numbered, Upto

LEMMA FifoInit == Init => Fifo!Init
<1> SUFFICES ASSUME Init PROVE Len(loaded) = 0 /\ Numbered = <<>>
  BY DEF Fifo!Init
<1>1. Len(loaded) = 0 /\ AtMost(Len(played), Len(loaded)) = 0
  BY DEF Init, AtMost
<1>2. Numbered = Upto(0)
  BY NumberedIs, TypeInit, QueueInit, <1>1 DEF QueueInv
<1> QED
  BY <1>1, <1>2, CountedTo

(* A step that takes n frames out.                                         *)
LEMMA TakesOut ==
  ASSUME NEW n \in Nat, TypeOK, PlaysInOrder, TypeOK', PlaysInOrder',
         loaded' = loaded, Len(played) + n <= Len(loaded),
         AtMost(Len(played'), Len(loaded)) = Len(played) + n
  PROVE  [Fifo!Next]_(Fifo!vars)
<1>1. /\ Len(played) \in Nat /\ Len(loaded) \in Nat
      /\ Numbered = Upto(Len(played))
  BY NumberedIs DEF AtMost
<1>2. Numbered' = Upto(Len(played) + n)
  <2>1. (Numbered = Upto(AtMost(Len(played), Len(loaded))))'
    BY NumberedIs, PTL
  <2> QED
    BY <2>1
<1>3. Len(Numbered) = Len(played)
  BY <1>1, CountedTo
<1>4. CASE n = 0
  BY <1>1, <1>2, <1>4 DEF Fifo!vars
<1>5. CASE n > 0
  <2>1. n \in 1 .. Len(loaded) - Len(Numbered)
    BY <1>1, <1>3, <1>5
  <2>2. Numbered' = Numbered \o [i \in 1 .. n |-> Len(Numbered) + i]
    BY <1>1, <1>2, <1>3, CountOn
  <2>3. Fifo!Get
    BY <2>1, <2>2 DEF Fifo!Get
  <2> QED
    BY <2>3 DEF Fifo!Next
<1> QED
  BY <1>4, <1>5

LEMMA PlayTakes ==
  ASSUME TypeOK, Control, AllEven, QueueInv, TypeOK', QueueInv', Play
  PROVE  [Fifo!Next]_(Fifo!vars)
<1>1. /\ Len(played) + vecsize <= Len(loaded) /\ fifotail + vecsize <= fifosize /\ Sized
  BY PlayFinds DEF QueueInv
<1>2. /\ vecsize \in Nat /\ fifotail \in Nat /\ fifosize <= BufFrames /\ fifosize \in Nat
      /\ BufFrames \in Nat /\ Len(played) \in Nat /\ Len(loaded) \in Nat
  BY <1>1, SizedRing, LenProperties, Constants DEF TypeOK
<1>3. Len(played) <= Len(loaded) /\ fifotail + vecsize <= BufFrames /\ PutOut(vecsize)
  BY <1>1, <1>2 DEF Play
<1>4. loaded' = loaded /\ Len(played') = Len(played) + vecsize
  BY <1>2, <1>3, PutsOut
<1>5. AtMost(Len(played'), Len(loaded)) = Len(played) + vecsize
  BY <1>1, <1>2, <1>4 DEF AtMost
<1> QED
  BY <1>1, <1>2, <1>4, <1>5, TakesOut DEF QueueInv

LEMMA EndTakes ==
  ASSUME TypeOK, QueueInv, TypeOK', QueueInv', EndOfFile
  PROVE  [Fifo!Next]_(Fifo!vars)
<1>1. /\ Len(loaded) = Len(played) + (fifohead - fifotail) /\ fifohead - fifotail \in Nat
      /\ loaded' = loaded /\ Len(played') = Len(loaded) + 1
      /\ Len(played) \in Nat /\ Len(loaded) \in Nat
  BY EndFinds DEF QueueInv
<1>2. PICK n \in Nat : n = fifohead - fifotail
  BY <1>1
<1>3. /\ Len(played) + n <= Len(loaded)
      /\ AtMost(Len(played'), Len(loaded)) = Len(played) + n
  BY <1>1, <1>2 DEF AtMost
<1> QED
  BY <1>1, <1>3, TakesOut DEF QueueInv

LEMMA Restarts ==
  ASSUME TypeOK', QueueInv', loaded' = <<>>, played' = <<>>
  PROVE  [Fifo!Next]_(Fifo!vars)
<1>1. Len(loaded') = 0 /\ AtMost(Len(played'), Len(loaded')) = 0
  BY DEF AtMost
<1>2. (Numbered = Upto(AtMost(Len(played), Len(loaded))))'
  BY NumberedIs, PTL DEF QueueInv
<1>3. Numbered' = Upto(0)
  BY <1>1, <1>2
<1>4. Numbered' = <<>>
  BY <1>3, CountedTo
<1> QED
  BY <1>1, <1>4 DEF Fifo!Next, Fifo!Restart

LEMMA LoadPuts ==
  ASSUME TypeOK, Control, BlockFits, QueueInv, TypeOK', QueueInv', Load
  PROVE  Fifo!Next
<1>1. /\ Content /\ played' = played /\ PlaysInOrder
      /\ fifosize \in Nat /\ fifohead \in Nat /\ fifotail \in Nat
      /\ fifohead < fifosize /\ fifotail < fifosize /\ fifosize <= BufFrames
      /\ block.n \in Nat /\ block.n > 0
      /\ fifohead + block.n <= fifosize
      /\ fifohead < fifotail => fifohead + block.n < fifotail
  BY LoadFinds DEF QueueInv
<1>2. Len(loaded') = Len(loaded) + block.n /\ BufFrames \in Nat
  BY LoadAppends, Constants
<1>3. /\ Len(played) \in Nat /\ Len(loaded) \in Nat
      /\ Len(played) <= Len(loaded) /\ Len(loaded) + block.n - Len(played) <= BufFrames
  <2>1. Len(played) \in Nat /\ Len(loaded) \in Nat
    BY LenProperties DEF TypeOK
  <2>2. CASE fifohead >= fifotail
    BY <1>1, <1>2, <2>1, <2>2 DEF Content
  <2>3. CASE fifohead < fifotail
    BY <1>1, <1>2, <2>1, <2>3 DEF Content
  <2> QED
    BY <1>1, <2>1, <2>2, <2>3
<1>4. Numbered = Upto(Len(played)) /\ Len(Numbered) = Len(played)
  BY <1>1, <1>3, NumberedIs, CountedTo DEF AtMost
<1>5. Numbered' = Numbered
  <2>1. (Numbered = Upto(AtMost(Len(played), Len(loaded))))'
    BY NumberedIs, PTL DEF QueueInv
  <2>2. AtMost(Len(played'), Len(loaded')) = Len(played)
    BY <1>1, <1>2, <1>3 DEF AtMost
  <2> QED
    BY <1>4, <2>1, <2>2
<1>6. block.n \in 1 .. BufFrames
  BY <1>1, <1>2
<1>7. Fifo!Put
  <2>1. Len(loaded') - Len(Numbered) <= BufFrames
    BY <1>1, <1>2, <1>3, <1>4
  <2> QED
    BY <1>2, <1>5, <1>6, <2>1 DEF Fifo!Put
<1> QED
  BY <1>7 DEF Fifo!Next

LEMMA FifoStep ==
  ASSUME Steady, AllEven, LoadInv, QueueInv, LoadInv', QueueInv', [Next]_vars
  PROVE  [Fifo!Next]_(Fifo!vars)
<1>1. TypeOK /\ Control /\ BlockFits /\ TypeOK'
  BY DEF LoadInv
<1>2. ASSUME UNCHANGED <<loaded, played>> PROVE UNCHANGED Fifo!vars
  BY <1>2 DEF Fifo!vars, Numbered
<1>3. CASE Messages \/ ambix_read_perform \/ ambix_read_tick \/ Deletion
  <2>1. CASE Aside
    BY <1>2, <2>1 DEF Aside
  <2>2. CASE Play
    BY <1>1, <2>2, PlayTakes
  <2>3. CASE EndOfFile
    BY <1>1, <2>3, EndTakes
  <2>4. CASE ambix_read_new
    BY <1>1, <2>4, Restarts DEF ambix_read_new
  <2>5. ASSUME NEW f \in Files, NEW p \in Onsets, ambix_read_open(f, p)
        PROVE  [Fifo!Next]_(Fifo!vars)
    BY <1>1, <2>5, Restarts DEF ambix_read_open
  <2> QED
    BY <1>1, <1>3, <2>1, <2>2, <2>3, <2>4, <2>5, ParentAside
<1>4. CASE Child
  <2>1. CASE Load
    BY <1>1, <2>1, LoadPuts
  <2>2. CASE ~ Load
    <3>1. UNCHANGED <<loaded, played>>
      BY <1>4, <2>2 DEF Child, AwaitRequest, TakeOpen, OpenFailed, OpenOvertaken, Opened,
         AwaitRoom, BeginRead, LeaveLoop, ReadBlock, ReadFails, StopReading, Closed,
         Answer, data
    <3> QED
      BY <1>2, <3>1
  <2> QED
    BY <2>1, <2>2
<1>5. CASE UNCHANGED vars
  BY <1>2, <1>5 DEF vars, data
<1> QED
  BY <1>3, <1>4, <1>5 DEF Next

(* Ring, ticks and child of [ambix_read~] implement the queue SampleFifo   *)
(* that loses, repeats and reorders nothing, for all sizes that are even.  *)
THEOREM ReaderIsQueue == ASSUME Steady, AllEven PROVE Spec => ImplementsFifo
<1>1. LoadInv /\ QueueInv /\ LoadInv' /\ QueueInv' /\ [Next]_vars
        => [Fifo!Next]_(Fifo!vars)
  BY FifoStep
<1> QED
  BY <1>1, QueueAlways, FifoInit, PTL DEF Spec, ImplementsFifo, Fifo!Spec

-----------------------------------------------------------------------------
(* The end of a playback                                                   *)

(* No open fails after it was overtaken, and no place is the end of a file.*)
InTime == "fails late" \notin Trouble
Inside == \A f \in Files \ {0} : f \notin Onsets \cup Positions

(* The end is only seen when the last frame is loaded.                     *)
LastIsLoaded == loaded # <<>> /\ loaded[Len(loaded)].at = filename
EndInv ==
  /\ child = "opening" /\ taken.file = 0 => requestcode # "OPEN"
  /\ onsetframes \in Onsets \cup {0}
  /\ Playing /\ eof /\ filename # 0 => LastIsLoaded

LEMMA ParentEnds ==
  ASSUME TypeOK, Control, Steady, InTime, EndInv,
         Messages \/ ambix_read_perform \/ ambix_read_tick \/ Deletion
  PROVE  EndInv'
<1>1. CASE Aside
  BY <1>1 DEF Aside, EndInv, LastIsLoaded
<1>2. CASE Play
  <2>1. /\ UNCHANGED <<requestcode, filename, onsetframes, eof, loaded, taken>>
        /\ Playing /\ Playing'
        /\ child' = "opening" => child = "opening"
    BY <1>2, SignalsStreaming
       DEF Play, PutOut, request, thread, Streaming, Ready, Resumes, Playing, Deleting
  <2> QED
    BY <2>1 DEF EndInv, LastIsLoaded
<1>3. CASE EndOfFile
  <2>1. /\ UNCHANGED <<requestcode, onsetframes, taken>> /\ ~ Playing'
        /\ child' = "opening" => child = "opening"
    BY <1>3, SignalsStreaming DEF EndOfFile, Playing
  <2> QED
    BY <2>1 DEF EndInv
<1>4. CASE ambix_read_new
  BY <1>4 DEF ambix_read_new, EndInv, Playing
<1>5. ASSUME NEW f \in Files, NEW p \in Onsets, FailsInTime, ambix_read_open(f, p)
      PROVE  EndInv'
  <2>1. /\ ~ (child = "opening" /\ taken.file = 0) /\ eof' = FALSE /\ onsetframes' = p
        /\ taken' = taken /\ (child' = "opening" => child = "opening")
    BY <1>5, SignalsStreaming DEF ambix_read_open, FailsInTime, InTime, Restarted
  <2> QED
    BY <2>1 DEF EndInv
<1> QED
  BY <1>1, <1>2, <1>3, <1>4, <1>5, ParentAside

(* The child sees the end when a read of nothing follows the last frame.   *)
LEMMA EndIsSeen ==
  ASSUME LoadInv, Inside, EndInv, StopReading, requestcode = "BUSY", block.n = 0,
         filename # 0
  PROVE  LastIsLoaded
<1>1. /\ TypeOK /\ ReadsOn /\ Serves /\ child = "has read"
  BY DEF LoadInv, StopReading, Serves, Loop
<1>2. PICK p \in Nat : HasRead(p)
  BY <1>1 DEF ReadsOn
<1>3. filename \in Files \ {0} /\ onsetframes \in Onsets \cup {0} /\ onsetframes \in Nat
  BY <1>1 DEF TypeOK, EndInv
<1>4. Asked.file = filename /\ Asked.at \in {0, onsetframes}
  <2>1. [file |-> filename, at |-> 0] \in Frame
    BY <1>1 DEF TypeOK, Frame
  <2> QED
    BY <1>3, <2>1, Seeks, Constants DEF Asked
<1>5. p = filename /\ p \notin Positions \cup {Asked.at}
  BY <1>2, <1>3, <1>4 DEF HasRead, Inside
<1> QED
  BY <1>2, <1>5 DEF HasRead, Follows, LastIsLoaded

LEMMA ChildEnds ==
  ASSUME LoadInv, QueueInv, Inside, EndInv, Child
  PROVE  EndInv'
<1> USE DEF request, ring, ticks, info, data
<1>a. TypeOK /\ Control /\ BlockFits
  BY DEF LoadInv
<1>0. state' = state /\ (Playing' <=> Playing) /\ UNCHANGED <<filename, onsetframes>>
  <2>1. UNCHANGED <<filename, onsetframes>>
    BY DEF Child, AwaitRequest, TakeOpen, OpenFailed, OpenOvertaken, Opened, AwaitRoom,
       BeginRead, LeaveLoop, ReadBlock, ReadFails, Load, StopReading, Closed, Answer
  <2> QED
    BY <1>a, <2>1, ChildLeavesParent DEF Playing
<1>1. ASSUME UNCHANGED <<eof, loaded>>,
             child' = "opening" /\ taken'.file = 0 => requestcode' # "OPEN"
      PROVE  EndInv'
  BY <1>0, <1>1 DEF EndInv, LastIsLoaded
<1>2. CASE Load
  <2>1. ~ eof /\ eof' = eof /\ child' = "streaming"
    BY <1>a, <1>2, LoadFinds
  <2> QED
    BY <1>0, <2>1 DEF EndInv
<1>3. CASE OpenFailed
  <2>1. child' # "opening"
    BY <1>3 DEF OpenFailed, Lost
  <2>2. Playing => filename = 0
    <3>1. CASE requestcode = "BUSY"
      <4>1. taken = [file |-> filename, at |-> onsetframes] /\ taken.file = 0
        BY <1>a, <1>3, <3>1 DEF OpenFailed, Control
      <4> QED
        BY <4>1
    <3>2. CASE requestcode # "BUSY"
      BY <1>a, <1>3, <3>2 DEF OpenFailed, Control, EndInv, Playing, TypeOK
    <3> QED
      BY <3>1, <3>2
  <2> QED
    BY <1>0, <2>1, <2>2 DEF EndInv
<1>4. CASE StopReading
  <2>1. child' # "opening" /\ loaded' = loaded
    BY <1>4 DEF StopReading, Lost
  <2>2. eof' = eof \/ (requestcode = "BUSY" /\ block.n = 0)
    BY <1>a, <1>4 DEF StopReading, EndSeen, TypeOK
  <2>3. CASE eof' = eof
    BY <1>1, <2>1, <2>3
  <2>4. CASE requestcode = "BUSY" /\ block.n = 0
    <3>1. filename # 0 => LastIsLoaded
      BY <1>4, <2>4, EndIsSeen
    <3> QED
      BY <1>0, <2>1, <3>1 DEF EndInv, LastIsLoaded
  <2> QED
    BY <2>2, <2>3, <2>4
<1>5. CASE ~ (Load \/ OpenFailed \/ StopReading)
  <2>1. CASE TakeOpen
    BY <1>1, <2>1 DEF TakeOpen
  <2>2. CASE ~ TakeOpen
    BY <1>1, <1>5, <2>2 DEF Child, AwaitRequest, OpenOvertaken, Opened, AwaitRoom,
       BeginRead, LeaveLoop, ReadBlock, ReadFails, Closed, Answer, Lost
  <2> QED
    BY <2>1, <2>2
<1> QED
  BY <1>2, <1>3, <1>4, <1>5

LEMMA EndStep ==
  ASSUME Steady, AllEven, InTime, Inside, LoadInv, QueueInv, EndInv, [Next]_vars
  PROVE  EndInv'
<1>1. CASE UNCHANGED vars
  BY <1>1 DEF EndInv, LastIsLoaded, Playing, Deleting, vars, request, ring, data, thread
<1>2. CASE Messages \/ ambix_read_perform \/ ambix_read_tick \/ Deletion
  BY <1>2, ParentEnds DEF LoadInv
<1>3. CASE Child
  BY <1>3, ChildEnds
<1> QED
  BY <1>1, <1>2, <1>3 DEF Next

(* A playback that comes to its end has put out the file to its last       *)
(* frame: the end is seen only after the last frame was loaded             *)
(* (ambix_read~.c:330-336), and ticks are over only when all of it is out. *)
THEOREM ToTheEnd ==
  ASSUME Steady, AllEven, InTime, Inside PROVE Spec => PlaysToTheEnd
<1>1. Init => EndInv
  BY DEF Init, EndInv, Playing
<1>2. LoadInv /\ QueueInv /\ EndInv /\ [Next]_vars => EndInv'
  BY EndStep
<1> DEFINE Ended == EndOfFile /\ filename # 0 =>
             /\ loaded # <<>> /\ loaded[Len(loaded)].at = filename
             /\ Len(played') >= Len(loaded)
<1>3. LoadInv /\ QueueInv /\ EndInv => [Ended]_vars
  <2> SUFFICES ASSUME LoadInv, QueueInv, EndInv, EndOfFile, filename # 0
               PROVE  LastIsLoaded /\ Len(played') >= Len(loaded)
    BY DEF LastIsLoaded
  <2>1. /\ Playing /\ eof /\ Len(played') = Len(loaded) + 1 /\ Len(loaded) \in Nat
    BY EndFinds DEF LoadInv, QueueInv
  <2> QED
    BY <2>1 DEF EndInv
<1>4. Spec => [](LoadInv /\ QueueInv /\ EndInv)
  BY <1>1, <1>2, QueueAlways, PTL DEF Spec
<1> QED
  BY <1>3, <1>4, PTL DEF PlaysToTheEnd
=============================================================================
