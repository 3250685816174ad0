---------------------------- MODULE PdWriteProofs ----------------------------
(***************************************************************************)
(* Theorems about PdWrite, for all values of its constants: nothing is     *)
(* open when a file is to be opened and, as long as the disk thread never  *)
(* falls a whole buffer behind and DSP keeps its block size during a       *)
(* recording (Steady), the file is what was captured, the child's block is *)
(* left alone, every position stays in the buffer, and the whole is a      *)
(* queue.                                                                  *)
(***************************************************************************)
EXTENDS PdWrite, SequenceTheorems, TLAPS

(* What the run leaves out as well.                                        *)
Steady == "falls behind" \notin Trouble /\ "blocks change" \notin Trouble

Deleting == parent.call \in {"free", "join", "gone"}

(* Who is where: nothing is open and the child has left its loop while     *)
(* nothing, or an open, is requested.                                      *)
Control ==
  /\ parent \in [call : Calls, asleep : BOOLEAN]
  /\ requestcode \in {"NOTHING", "OPEN", "CLOSE", "QUIT", "BUSY"}
  /\ requestcode \in {"NOTHING", "OPEN"} =>
       ~ ambix /\ child \in {"top", "awaits request", "done"}
  /\ child = "done" => ~ ambix
  /\ parent.call = "gone" => child = "done"
  /\ Deleting => requestcode \in {"NOTHING", "QUIT"}
  /\ requestcode = "QUIT" => Deleting
  /\ requestcode = "OPEN" \/ child = "opening" => fifotail = 0

Sizes ==
  /\ fifosize \in Nat /\ fifohead \in Nat /\ fifotail \in Nat
  /\ vecsize \in VecSizes
  /\ captured \in Nat /\ file \in Seq(Nat)
  /\ fifo \in [0 .. BufFrames - 1 -> Nat]
  /\ block \in [at : Nat, n : Nat, size : Nat]
  /\ trouble \subseteq Trouble

(* From the moment a file is asked for until its recording has ended,      *)
(* unless the object is deleted, ...                                       *)
Recording ==
  /\ ~ Deleting
  /\ \/ state # "IDLE" \/ requestcode = "OPEN"
     \/ child \in {"opening", "streaming", "awaits frames", "writing"}

(* ... what is in the fifo from tail to head continues the file, in one    *)
(* piece or, behind the wrap, in two.                                      *)
Multiple(n) == \E q \in Nat : n = vecsize * q

Content ==
  /\ fifohead < fifosize /\ fifotail < fifosize /\ fifosize <= BufFrames
  /\ Multiple(fifosize) /\ Multiple(fifohead)
  /\ fifohead >= fifotail =>
       /\ captured = Len(file) + fifohead - fifotail
       /\ \A p \in fifotail .. fifohead - 1 : fifo[p] = Len(file) + 1 + p - fifotail
  /\ fifohead < fifotail =>
       /\ captured = Len(file) + fifosize - fifotail + fifohead
       /\ \A p \in fifotail .. fifosize - 1 : fifo[p] = Len(file) + 1 + p - fifotail
       /\ \A p \in 0 .. fifohead - 1 : fifo[p] = Len(file) + 1 + fifosize - fifotail + p

(* The block being written continues the file, and lies between tail and   *)
(* head.                                                                   *)
BlockContinues ==
  child = "writing" =>
    /\ block.at + block.n <= BufFrames
    /\ Len(file) + block.n <= captured
    /\ \A i \in 1 .. block.n : fifo[block.at + i - 1] = Len(file) + i
    /\ ~ Deleting => /\ block.at = fifotail /\ block.size = fifosize
                     /\ fifotail + block.n <= fifosize
                     /\ fifohead >= fifotail => fifotail + block.n <= fifohead

RecInv ==
  Steady /\ Control /\ Sizes /\ (Recording => Content) /\ BlockContinues /\ FileIsRecording

-----------------------------------------------------------------------------
(* Who is where                                                            *)

LEMMA ControlInit == Init => Control
BY DEF Init, Control, Ready, Calls, Deleting

(* A signal changes where the child waits, and nothing else.               *)
LEMMA Signals ==
  /\ ChildSignalled \in {"top", "awaits request", "done"}
       <=> child \in {"top", "awaits request", "done"}
  /\ ChildSignalled = "done" <=> child = "done"
  /\ ChildSignalled = "opening" <=> child = "opening"
  /\ ChildSignalled = "writing" <=> child = "writing"
  /\ ChildSignalled \in {"opening", "streaming", "awaits frames", "writing"}
       <=> child \in {"opening", "streaming", "awaits frames", "writing"}
BY DEF ChildSignalled

(* The parent takes the mutex only in a call it can be in.                 *)
LEMMA Begins == Enters => parent.call = "none"
BY DEF Enters, Ready

LEMMA GoesOn == ASSUME NEW call, Resumes(call) PROVE parent.call = call
BY DEF Resumes

LEMMA Sleeps ==
  ASSUME NEW call \in Calls, SleepsIn(call)
  PROVE  /\ parent' \in [call : Calls, asleep : BOOLEAN] /\ parent'.call = call
         /\ child' = ChildSignalled
BY DEF SleepsIn

LEMMA Returns ==
  /\ Ready \in [call : Calls, asleep : BOOLEAN] /\ Ready.call = "none"
BY DEF Ready, Calls

LEMMA ParentControls ==
  Control /\ (Messages \/ ambix_write_perform \/ Resume) => Control'
<1> SUFFICES ASSUME Control, Messages \/ ambix_write_perform \/ Resume PROVE Control'
  OBVIOUS
<1> USE DEF Control, Deleting, Ready, Calls, request, ring, ticks, data
<1>1. CASE ambix_write_perform
  <2>1. parent.call \in {"none", "perform"}
    BY <1>1, Begins, GoesOn DEF ambix_write_perform
  <2>2. UNCHANGED <<requestcode, ambix>>
    BY <1>1 DEF ambix_write_perform
  <2>3. fifotail' = fifotail /\ child' \in {child, ChildSignalled}
        /\ (SleepsIn("perform") \/ parent' = Ready)
    BY <1>1 DEF ambix_write_perform, SleepsIn
  <2>4. /\ parent' \in [call : Calls, asleep : BOOLEAN]
        /\ parent'.call \in {"none", "perform"}
    BY <2>3, Sleeps, Returns
  <2> HIDE DEF Ready
  <2> QED
    BY <2>1, <2>2, <2>3, <2>4, Signals
<1>2. CASE ambix_write_start
  BY <1>2 DEF ambix_write_start
<1>3. CASE ambix_write_stop
  BY <1>3, Signals DEF ambix_write_stop, Stop, Enters
<1>4. CASE StopForOpen
  BY <1>4, Signals DEF StopForOpen, Stop, Enters
<1>5. CASE ambix_write_open
  <2>1. parent.call \in {"none", "open"}
    BY <1>5, Begins, GoesOn DEF ambix_write_open
  <2>2. \/ UNCHANGED <<requestcode, fifotail>>
        \/ requestcode = "NOTHING" /\ requestcode' = "OPEN" /\ fifotail' = 0
    BY <1>5 DEF ambix_write_open, Idle
  <2>3. ambix' = ambix /\ child' = ChildSignalled
        /\ (SleepsIn("open") \/ parent' = Ready)
    BY <1>5 DEF ambix_write_open, SleepsIn
  <2>4. /\ parent' \in [call : Calls, asleep : BOOLEAN]
        /\ parent'.call \in {"none", "open"}
    BY <2>3, Sleeps, Returns
  <2> HIDE DEF Ready
  <2> QED
    BY <2>1, <2>2, <2>3, <2>4, Signals
<1>6. ASSUME NEW v \in VecSizes, ambix_write_dsp(v) PROVE Control'
  BY <1>6 DEF ambix_write_dsp
<1>7. CASE DestroyMatrix \/ ambix_write_matrix
  <2>1. /\ UNCHANGED <<requestcode, fifotail, ambix, child>>
        /\ parent.call \in {"none", "matrix"}
        /\ parent' \in [call : Calls, asleep : BOOLEAN]
        /\ parent'.call \in {"none", "matrix"}
    <3>1. CASE DestroyMatrix
      BY <3>1 DEF DestroyMatrix
    <3>2. CASE ambix_write_matrix
      BY <3>2 DEF ambix_write_matrix
    <3> QED
      BY <1>7, <3>1, <3>2
  <2> QED
    BY <2>1
<1>8. CASE RequestQuit
  BY <1>8, Signals DEF RequestQuit, SleepsIn, Enters
<1>9. CASE AwaitQuit
  <2>1. parent.call = "free" /\ UNCHANGED <<requestcode, fifotail, ambix>>
    BY <1>9, GoesOn DEF AwaitQuit
  <2>2. /\ parent' \in [call : Calls, asleep : BOOLEAN]
        /\ parent'.call \in {"free", "join"} /\ child' \in {child, ChildSignalled}
    <3>1. CASE requestcode # "NOTHING"
      BY <1>9, <3>1, Sleeps DEF AwaitQuit
    <3>2. CASE requestcode = "NOTHING"
      <4>1. parent' = [call |-> "join", asleep |-> FALSE] /\ child' = child
        BY <1>9, <3>2 DEF AwaitQuit
      <4> QED
        BY <4>1
    <3> QED
      BY <3>1, <3>2
  <2> QED
    BY <2>1, <2>2, Signals
<1>10. CASE ambix_write_free
  BY <1>10 DEF ambix_write_free
<1>11. CASE ambix_write_new
  BY <1>11 DEF ambix_write_new
<1> QED
  BY <1>1, <1>2, <1>3, <1>4, <1>5, <1>6, <1>7, <1>8, <1>9, <1>10, <1>11
     DEF Messages, Resume, Tick

LEMMA ChildControls == Control /\ Child => Control'
<1> SUFFICES ASSUME Control, Child PROVE Control'
  OBVIOUS
<1> USE DEF Control, Deleting, Calls, ParentSignalled, request, ring, ticks, data
<1>1. CASE AwaitRequest
  BY <1>1 DEF AwaitRequest
<1>2. CASE TakeOpen
  BY <1>2 DEF TakeOpen
<1>3. ASSUME NEW ok \in BOOLEAN, Opened(ok) PROVE Control'
  BY <1>3 DEF Opened, RequestAfterOpen
<1>4. CASE BeginWrite
  BY <1>4 DEF BeginWrite
<1>5. CASE AwaitFrames
  BY <1>5 DEF AwaitFrames
<1>6. CASE LeaveLoop
  BY <1>6 DEF LeaveLoop
<1>7. ASSUME NEW ok \in BOOLEAN, Wrote(ok) PROVE Control'
  <2>1. child = "writing" /\ child' \in {"streaming", "top"}
        /\ UNCHANGED <<requestcode, ambix>> /\ parent' \in {parent, ParentSignalled}
    BY <1>7 DEF Wrote
  <2> QED
    BY <2>1
<1>8. CASE BeginClose
  BY <1>8 DEF BeginClose
<1>9. CASE NothingToClose
  BY <1>9 DEF NothingToClose, Answered
<1>10. CASE Closed
  BY <1>10 DEF Closed, Answered
<1>11. CASE Spin
  BY <1>11 DEF Spin, vars
<1> QED
  BY <1>1, <1>2, <1>3, <1>4, <1>5, <1>6, <1>7, <1>8, <1>9, <1>10, <1>11 DEF Child

LEMMA ControlStep == Control /\ [Next]_vars => Control'
<1>1. CASE UNCHANGED vars
  BY <1>1 DEF Control, Deleting, vars, request, ring
<1> QED
  BY <1>1, ParentControls, ChildControls DEF Next, Tick

(* Nothing is open when the child is told to open a file, however stops,   *)
(* opens and deletions overtake the child.                                 *)
THEOREM OpensClosed == Spec => []OpensOnlyWhenClosed
<1>1. Control => OpensOnlyWhenClosed
  BY DEF Control, OpensOnlyWhenClosed
<1> QED
  BY <1>1, ControlInit, ControlStep, PTL DEF Spec

-----------------------------------------------------------------------------
(* Block sizes                                                             *)

LEMMA VecSize == ASSUME NEW v \in VecSizes PROVE v \in 1 .. BufFrames /\ BufFrames \in Nat
BY PdWriteAssumption DEF PdWriteAssumption

LEMMA RoundedSize ==
  ASSUME NEW v \in VecSizes
  PROVE  Rounded(v) \in 1 .. BufFrames /\ \E q \in Nat : Rounded(v) = v * q
<1>1. v \in Nat /\ v > 0 /\ v <= BufFrames /\ BufFrames \in Nat
  BY VecSize
<1>2. BufFrames \div v \in Nat /\ BufFrames % v \in 0 .. v - 1
  BY <1>1
<1>3. BufFrames = v * (BufFrames \div v) + (BufFrames % v)
  BY <1>1
<1>4. Rounded(v) = v * (BufFrames \div v)
  BY <1>1, <1>2, <1>3 DEF Rounded
<1>5. Rounded(v) \in 1 .. BufFrames
  BY <1>1, <1>2 DEF Rounded
<1> QED
  BY <1>2, <1>4, <1>5

(* A multiple of v below another one is at least v below it.               *)
LEMMA NextMultiple ==
  ASSUME NEW v \in Nat, v > 0, NEW q \in Nat, NEW r \in Nat, v * q < v * r
  PROVE  v * q + v <= v * r /\ v * q + v = v * (q + 1)
<1>1. q < r
  <2>1. q >= r => v * q >= v * r
    OBVIOUS
  <2> QED
    BY <2>1
<1>2. PICK d \in Nat : r = q + 1 + d
  <2>1. r - q - 1 \in Nat /\ r = q + 1 + (r - q - 1)
    BY <1>1
  <2> QED
    BY <2>1
<1>3. v * d \in Nat /\ v * r = v * q + v + v * d
  BY <1>2
<1> QED
  BY <1>3

LEMMA BlockFits ==
  ASSUME Sizes, Multiple(fifosize), Multiple(fifohead), fifohead < fifosize
  PROVE  fifohead + vecsize <= fifosize /\ Multiple(fifohead + vecsize)
<1>1. vecsize \in Nat /\ vecsize > 0
  BY VecSize DEF Sizes
<1>2. PICK q \in Nat : fifohead = vecsize * q
  BY DEF Multiple
<1>3. PICK r \in Nat : fifosize = vecsize * r
  BY DEF Multiple
<1>4. /\ vecsize * q + vecsize <= vecsize * r
      /\ vecsize * q + vecsize = vecsize * (q + 1)
  BY <1>1, <1>2, <1>3, NextMultiple
<1> QED
  BY <1>2, <1>3, <1>4 DEF Multiple

LEMMA ZeroIsMultiple == ASSUME Sizes PROVE Multiple(0)
<1>1. vecsize \in Nat
  BY VecSize DEF Sizes
<1>2. 0 = vecsize * 0
  BY <1>1
<1> QED
  BY <1>2 DEF Multiple

-----------------------------------------------------------------------------
(* The recording                                                           *)

LEMMA RecInit == Steady /\ Init => RecInv
<1> SUFFICES ASSUME Steady, Init PROVE RecInv
  OBVIOUS
<1>1. Control
  BY ControlInit
<1>2. Sizes
  BY DEF Init, Sizes, Empty, NoBlock
<1>3. ~ Recording /\ BlockContinues
  BY DEF Init, Recording, BlockContinues
<1>4. FileIsRecording
  BY DEF Init, FileIsRecording
<1> QED
  BY <1>1, <1>2, <1>3, <1>4 DEF RecInv

(* Most steps leave the fifo, the file and the block as they are, and      *)
(* start no recording.                                                     *)
LEMMA QuietKeeps ==
  ASSUME RecInv, Control',
         UNCHANGED <<ring, vecsize, data, block, trouble>>,
         Recording' => Recording,
         child' = "writing" => child = "writing",
         Deleting => Deleting'
  PROVE  RecInv'
<1> USE DEF ring, data
<1>1. Sizes'
  BY DEF RecInv, Sizes
<1>2. Recording' => Content'
  BY DEF RecInv, Content, Multiple
<1>3. BlockContinues'
  BY DEF RecInv, BlockContinues
<1>4. FileIsRecording'
  BY DEF RecInv, FileIsRecording
<1> QED
  BY <1>1, <1>2, <1>3, <1>4 DEF RecInv, Steady

(* The tick that finds room.                                               *)
LEMMA CaptureKeeps ==
  ASSUME RecInv, Control', Recording,
         ~ NoRoom, ~ FillsUp, Capture,
         UNCHANGED <<fifosize, fifotail, vecsize, file, block, trouble>>,
         child' = "writing" => child = "writing",
         ~ Deleting
  PROVE  RecInv'
<1> USE DEF RecInv
<1>1. /\ fifosize \in Nat /\ fifohead \in Nat /\ fifotail \in Nat
      /\ captured \in Nat /\ Len(file) \in Nat
      /\ vecsize \in Nat /\ vecsize > 0
  BY VecSize DEF Sizes
<1>2. /\ fifohead < fifosize /\ fifotail < fifosize /\ fifosize <= BufFrames
      /\ Multiple(fifosize) /\ Multiple(fifohead)
  BY DEF Content
<1>3. fifohead + vecsize <= fifosize /\ Multiple(fifohead + vecsize) /\ Multiple(0)
  BY <1>2, BlockFits, ZeroIsMultiple
<1>4. /\ captured' = captured + vecsize
      /\ fifohead' = IF fifohead + vecsize = fifosize THEN 0 ELSE fifohead + vecsize
  BY <1>1, <1>3 DEF Capture
<1>10. BufFrames \in Nat
  BY PdWriteAssumption DEF PdWriteAssumption
<1>5. /\ fifo' \in [0 .. BufFrames - 1 -> Nat]
      /\ \A p \in 0 .. BufFrames - 1 :
           /\ p \in fifohead .. fifohead + vecsize - 1
                => fifo'[p] = captured + 1 + p - fifohead
           /\ p \notin fifohead .. fifohead + vecsize - 1 => fifo'[p] = fifo[p]
  <2>1. fifo \in [0 .. BufFrames - 1 -> Nat]
    BY DEF Sizes
  <2>a. DOMAIN fifo \cup Written = 0 .. BufFrames - 1
    BY <1>1, <1>2, <1>3, <1>10, <2>1 DEF Written
  <2>2. fifo' = [p \in 0 .. BufFrames - 1 |->
                   IF p \in fifohead .. fifohead + vecsize - 1
                   THEN captured + 1 + p - fifohead ELSE fifo[p]]
    BY <2>a DEF Capture, Captured, Written
  <2>3. \A p \in fifohead .. fifohead + vecsize - 1 : captured + 1 + p - fifohead \in Nat
    BY <1>1
  <2> QED
    BY <2>1, <2>2, <2>3
<1>6. Sizes'
  <2>1. fifohead' \in Nat /\ captured' \in Nat
    BY <1>1, <1>4
  <2> QED
    BY <2>1, <1>5 DEF Sizes
<1>7. Multiple(fifosize)' /\ Multiple(fifohead)'
  BY <1>2, <1>3, <1>4 DEF Multiple
<1>8. fifotail > fifohead => fifotail >= fifohead + vecsize + 1
  BY <1>1 DEF NoRoom
<1>9. fifohead + vecsize = fifosize => fifotail # 0
  BY <1>1 DEF FillsUp
<1>11. Content'
  <2>1. CASE fifohead >= fifotail
    <3>1. /\ captured = Len(file) + fifohead - fifotail
          /\ \A p \in fifotail .. fifohead - 1 :
               fifo[p] = Len(file) + 1 + p - fifotail
      BY <2>1 DEF Content
    <3>2. ASSUME NEW p \in fifotail .. fifohead + vecsize - 1
          PROVE  fifo'[p] = Len(file) + 1 + p - fifotail
      <4>1. p \in Nat /\ p \in 0 .. BufFrames - 1
        BY <1>1, <1>2, <1>3, <1>10
      <4>2. CASE p < fifohead
        <5>1. p \notin fifohead .. fifohead + vecsize - 1
              /\ p \in fifotail .. fifohead - 1
          BY <1>1, <4>1, <4>2
        <5> QED
          BY <1>5, <3>1, <4>1, <5>1
      <4>3. CASE p >= fifohead
        <5>1. p \in fifohead .. fifohead + vecsize - 1
          BY <1>1, <4>1, <4>3
        <5>2. fifo'[p] = captured + 1 + p - fifohead
          BY <1>5, <4>1, <5>1
        <5> QED
          BY <1>1, <3>1, <4>1, <5>2
      <4> QED
        BY <1>1, <4>1, <4>2, <4>3
    <3>3. CASE fifohead + vecsize = fifosize
      BY <1>1, <1>2, <1>4, <1>7, <1>9, <2>1, <3>1, <3>2, <3>3 DEF Content
    <3>4. CASE fifohead + vecsize # fifosize
      BY <1>1, <1>2, <1>3, <1>4, <1>7, <2>1, <3>1, <3>2, <3>4 DEF Content
    <3> QED
      BY <3>3, <3>4
  <2>2. CASE fifohead < fifotail
    <3>1. /\ captured = Len(file) + fifosize - fifotail + fifohead
          /\ \A p \in fifotail .. fifosize - 1 :
               fifo[p] = Len(file) + 1 + p - fifotail
          /\ \A p \in 0 .. fifohead - 1 :
               fifo[p] = Len(file) + 1 + fifosize - fifotail + p
      BY <2>2 DEF Content
    <3>2. fifohead' = fifohead + vecsize /\ fifohead' < fifotail
      BY <1>1, <1>2, <1>4, <1>8, <2>2
    <3>3. ASSUME NEW p \in fifotail .. fifosize - 1
          PROVE  fifo'[p] = Len(file) + 1 + p - fifotail
      <4>1. p \in 0 .. BufFrames - 1 /\ p \notin fifohead .. fifohead + vecsize - 1
        BY <1>1, <1>2, <1>8, <1>10, <2>2
      <4> QED
        BY <1>5, <3>1, <4>1
    <3>4. ASSUME NEW p \in 0 .. fifohead + vecsize - 1
          PROVE  fifo'[p] = Len(file) + 1 + fifosize - fifotail + p
      <4>1. p \in Nat /\ p \in 0 .. BufFrames - 1
        BY <1>1, <1>2, <1>3, <1>10
      <4>2. CASE p < fifohead
        <5>1. p \notin fifohead .. fifohead + vecsize - 1 /\ p \in 0 .. fifohead - 1
          BY <1>1, <4>1, <4>2
        <5> QED
          BY <1>5, <3>1, <4>1, <5>1
      <4>3. CASE p >= fifohead
        <5>1. p \in fifohead .. fifohead + vecsize - 1
          BY <1>1, <4>1, <4>3
        <5>2. fifo'[p] = captured + 1 + p - fifohead
          BY <1>5, <4>1, <5>1
        <5> QED
          BY <1>1, <3>1, <4>1, <5>2
      <4> QED
        BY <1>1, <4>1, <4>2, <4>3
    <3>5. captured' = Len(file) + fifosize - fifotail + fifohead'
      BY <1>1, <1>4, <3>1, <3>2
    <3>6. /\ \A p \in fifotail .. fifosize - 1 :
               fifo'[p] = Len(file) + 1 + p - fifotail
          /\ \A p \in 0 .. fifohead' - 1 :
               fifo'[p] = Len(file) + 1 + fifosize - fifotail + p
      <4>1. \A p \in fifotail .. fifosize - 1 :
               fifo'[p] = Len(file) + 1 + p - fifotail
        BY <3>3
      <4>2. \A p \in 0 .. fifohead + vecsize - 1 :
               fifo'[p] = Len(file) + 1 + fifosize - fifotail + p
        BY <3>4
      <4> QED
        BY <1>1, <3>2, <4>1, <4>2
    <3>7. fifohead' < fifosize /\ ~ (fifohead' >= fifotail)
      BY <1>1, <1>2, <3>2
    <3> QED
      BY <1>2, <1>7, <3>2, <3>5, <3>6, <3>7 DEF Content
  <2> QED
    BY <1>1, <2>1, <2>2
<1>12. BlockContinues'
  <2> SUFFICES ASSUME child = "writing" PROVE BlockContinues'
    BY DEF BlockContinues
  <2>1. /\ block.at \in Nat /\ block.n \in Nat
        /\ block.at + block.n <= BufFrames
        /\ Len(file) + block.n <= captured
        /\ \A i \in 1 .. block.n : fifo[block.at + i - 1] = Len(file) + i
        /\ block.at = fifotail /\ block.size = fifosize
        /\ fifotail + block.n <= fifosize
        /\ fifohead >= fifotail => fifotail + block.n <= fifohead
    BY DEF BlockContinues, Sizes
  <2>2. ASSUME NEW i \in 1 .. block.n
        PROVE  fifo'[block.at + i - 1] = Len(file) + i
    <3>1. block.at + i - 1 \in 0 .. BufFrames - 1
      BY <1>10, <2>1
    <3>2. block.at + i - 1 \notin fifohead .. fifohead + vecsize - 1
      BY <1>1, <1>8, <2>1
    <3> QED
      BY <1>5, <2>1, <3>1, <3>2
  <2>3. Len(file) + block.n <= captured'
    BY <1>1, <1>4, <2>1
  <2>4. fifohead' >= fifotail => fifotail + block.n <= fifohead'
    BY <1>1, <1>4, <1>8, <1>9, <2>1
  <2> QED
    BY <2>1, <2>2, <2>3, <2>4 DEF BlockContinues
<1>13. FileIsRecording'
  BY <1>1, <1>4 DEF FileIsRecording
<1> QED
  BY <1>6, <1>11, <1>12, <1>13 DEF Steady

LEMMA PerformKeeps ==
  ASSUME RecInv, Control', Tick
  PROVE  RecInv'
<1> USE DEF Tick
<1>1. parent.call \in {"none", "perform"} /\ state = "STREAM"
  BY Begins, GoesOn DEF ambix_write_perform
<1>2. Recording /\ ~ Deleting
  BY <1>1 DEF Recording, Deleting
<1>3. child' = "writing" => child = "writing"
  BY Signals DEF ambix_write_perform, SleepsIn
<1>4. CASE NoRoom
  <2>1. /\ UNCHANGED <<ring, vecsize, data, block, trouble>>
    BY <1>4 DEF ambix_write_perform, ticks
  <2> QED
    BY <1>2, <1>3, <2>1, QuietKeeps
<1>5. CASE ~ NoRoom
  <2>1. /\ Capture
        /\ UNCHANGED <<fifosize, fifotail, vecsize, file, block, trouble>>
    BY <1>5 DEF ambix_write_perform
  <2>2. ~ FillsUp
    BY DEF KeepsUp, RecInv, Sizes, Steady
  <2> QED
    BY <1>2, <1>3, <1>5, <2>1, <2>2, CaptureKeeps
<1> QED
  BY <1>4, <1>5

(* The open that starts a recording.                                       *)
LEMMA OpenKeeps ==
  ASSUME RecInv, Control', ambix_write_open
  PROVE  RecInv'
<1>1. parent.call \in {"none", "open"} /\ ~ Deleting
  BY Begins, GoesOn DEF ambix_write_open, Deleting
<1>2. child' = ChildSignalled
  BY DEF ambix_write_open, SleepsIn
<1>3. CASE ~ Idle
  <2>1. UNCHANGED <<state, requestcode, ring, vecsize, data, block, trouble>>
    BY <1>3 DEF ambix_write_open, ticks, request
  <2> QED
    BY <1>1, <1>2, <2>1, Signals, QuietKeeps DEF Recording
<1>4. CASE Idle
  <2>1. /\ fifosize' = Rounded(vecsize) /\ fifohead' = 0 /\ fifotail' = 0
        /\ fifo' = Empty /\ captured' = 0 /\ file' = <<>>
        /\ UNCHANGED <<vecsize, block, trouble>>
    BY <1>4 DEF ambix_write_open
  <2>2. child' # "writing"
    BY <1>2, <1>4, Signals DEF Idle, RecInv, Control
  <2>3. /\ fifosize' \in 1 .. BufFrames
        /\ \E q \in Nat : fifosize' = vecsize * q
    BY <2>1, RoundedSize DEF RecInv, Sizes
  <2>4. BufFrames \in Nat /\ vecsize \in Nat
    BY VecSize DEF RecInv, Sizes
  <2>5. Sizes'
    BY <2>1, <2>3, <2>4 DEF RecInv, Sizes, Empty
  <2>6. Content'
    <3>1. Multiple(0)'
      BY <2>5, ZeroIsMultiple, <2>1 DEF RecInv, Multiple
    <3>2. Multiple(fifosize)' /\ Multiple(fifohead)'
      BY <2>1, <2>3, <3>1 DEF Multiple
    <3> QED
      BY <2>1, <2>3, <2>4, <3>2 DEF Content
  <2>7. BlockContinues' /\ FileIsRecording'
    BY <2>1, <2>2 DEF BlockContinues, FileIsRecording
  <2> QED
    BY <2>5, <2>6, <2>7 DEF RecInv, Steady
<1> QED
  BY <1>3, <1>4

LEMMA ParentKeeps ==
  ASSUME RecInv, Control', Messages \/ Tick \/ Resume
  PROVE  RecInv'
<1> USE DEF Ready
<1>1. CASE Tick
  BY <1>1, PerformKeeps
<1>2. CASE ambix_write_start
  <2>1. /\ state = "STARTUP" /\ parent = Ready
        /\ UNCHANGED <<requestcode, ring, vecsize, data, parent, child, block, trouble>>
    BY <1>2 DEF ambix_write_start, Enters, ticks
  <2> QED
    BY <2>1, QuietKeeps DEF Recording, Deleting
<1>3. CASE ambix_write_stop \/ StopForOpen
  <2>1. /\ parent = Ready /\ parent'.call \in {"none", "open"}
        /\ state' = "IDLE" /\ requestcode' = "CLOSE" /\ child' = ChildSignalled
        /\ UNCHANGED <<ring, vecsize, data, block, trouble>>
    BY <1>3 DEF ambix_write_stop, StopForOpen, Stop, Enters, ticks
  <2> QED
    BY <2>1, Signals, QuietKeeps DEF Recording, Deleting
<1>4. CASE ambix_write_open
  BY <1>4, OpenKeeps
<1>5. ASSUME NEW v \in VecSizes, KeepsBlocks, ambix_write_dsp(v) PROVE RecInv'
  <2>1. /\ state = "IDLE" /\ requestcode = "NOTHING" /\ vecsize' = v
        /\ fifosize' = Rounded(v)
        /\ UNCHANGED <<request, fifohead, fifotail, data, parent, child, block, trouble>>
    BY <1>5 DEF ambix_write_dsp, KeepsBlocks, RecInv, Sizes, Steady
  <2>2. child' \in {"top", "awaits request", "done"}
    BY <2>1 DEF RecInv, Control
  <2>3. ~ Recording' /\ BlockContinues'
    BY <2>1, <2>2 DEF Recording, BlockContinues, request
  <2>4. Sizes'
    BY <2>1, RoundedSize, VecSize DEF RecInv, Sizes, data
  <2>5. FileIsRecording'
    BY <2>1 DEF RecInv, FileIsRecording, data
  <2> QED
    BY <2>3, <2>4, <2>5 DEF RecInv, Steady
<1>6. CASE DestroyMatrix \/ ambix_write_matrix
  <2>1. /\ UNCHANGED <<request, ring, vecsize, data, child, block, trouble>>
        /\ parent.call \in {"none", "matrix"}
        /\ parent'.call \in {"none", "matrix"}
    <3>1. CASE DestroyMatrix
      BY <3>1 DEF DestroyMatrix, ticks
    <3>2. CASE ambix_write_matrix
      BY <3>2 DEF ambix_write_matrix, ticks
    <3> QED
      BY <1>6, <3>1, <3>2
  <2> QED
    BY <2>1, QuietKeeps DEF Recording, Deleting, request
<1>7. CASE RequestQuit
  <2>1. /\ parent'.call = "free" /\ child' = ChildSignalled
        /\ UNCHANGED <<ring, vecsize, data, block, trouble>>
    BY <1>7 DEF RequestQuit, SleepsIn, ticks
  <2> QED
    BY <2>1, Signals, QuietKeeps DEF Recording, Deleting
<1>8. CASE AwaitQuit
  <2>1. /\ parent'.call \in {"free", "join"} /\ child' \in {child, ChildSignalled}
        /\ UNCHANGED <<ring, vecsize, data, block, trouble>>
    <3>1. CASE requestcode # "NOTHING"
      BY <1>8, <3>1, Sleeps DEF AwaitQuit, ticks, Calls
    <3>2. CASE requestcode = "NOTHING"
      <4>1. parent' = [call |-> "join", asleep |-> FALSE] /\ child' = child
        BY <1>8, <3>2 DEF AwaitQuit
      <4> QED
        BY <1>8, <4>1 DEF AwaitQuit, ticks
    <3> QED
      BY <3>1, <3>2
  <2> QED
    BY <2>1, Signals, QuietKeeps DEF Recording, Deleting
<1>9. CASE ambix_write_free
  <2>1. /\ parent'.call = "gone" /\ child' = child
        /\ UNCHANGED <<ring, vecsize, data, block, trouble>>
    BY <1>9 DEF ambix_write_free, ticks
  <2> QED
    BY <2>1, QuietKeeps DEF Recording, Deleting
<1>10. CASE ambix_write_new
  <2>1. /\ state' = "IDLE" /\ requestcode' = "NOTHING" /\ child' = "top"
        /\ fifosize' = 0 /\ fifohead' = 0 /\ fifotail' = 0
        /\ fifo' = Empty /\ captured' = 0 /\ file' = <<>> /\ block' = NoBlock
        /\ UNCHANGED <<vecsize, trouble>>
    BY <1>10 DEF ambix_write_new
  <2>2. ~ Recording' /\ BlockContinues' /\ FileIsRecording'
    BY <2>1 DEF Recording, BlockContinues, FileIsRecording
  <2>3. Sizes'
    BY <2>1 DEF RecInv, Sizes, Empty, NoBlock
  <2> QED
    BY <2>2, <2>3 DEF RecInv, Steady
<1> QED
  BY <1>1, <1>2, <1>3, <1>4, <1>5, <1>6, <1>7, <1>8, <1>9, <1>10
     DEF Messages, Resume

(* A recording that is under way is not of an object being deleted.        *)
LEMMA Streaming ==
  ASSUME RecInv, child \in {"streaming", "writing"}, requestcode \in {"BUSY", "CLOSE"}
  PROVE  ~ Deleting /\ Recording
BY DEF RecInv, Control, Recording

LEMMA BeginWriteKeeps ==
  ASSUME RecInv, Control', BeginWrite
  PROVE  RecInv'
<1> USE DEF RecInv
<1>1. /\ ~ Deleting /\ Recording
      /\ UNCHANGED <<request, ring, vecsize, data, parent, trouble>>
  BY Streaming DEF BeginWrite, Streams, ticks
<1>2. /\ fifosize \in Nat /\ fifohead \in Nat /\ fifotail \in Nat
      /\ captured \in Nat /\ Len(file) \in Nat /\ BufFrames \in Nat
      /\ WRITFRAMES \in Nat /\ WRITFRAMES > 0
  BY PdWriteAssumption DEF PdWriteAssumption, Sizes
<1>3. /\ fifohead < fifosize /\ fifotail < fifosize /\ fifosize <= BufFrames
      /\ fifohead >= fifotail =>
           /\ captured = Len(file) + fifohead - fifotail
           /\ \A p \in fifotail .. fifohead - 1 : fifo[p] = Len(file) + 1 + p - fifotail
      /\ fifohead < fifotail =>
           /\ captured = Len(file) + fifosize - fifotail + fifohead
           /\ \A p \in fifotail .. fifosize - 1 : fifo[p] = Len(file) + 1 + p - fifotail
  BY <1>1 DEF Content
<1> DEFINE most == Upto - fifotail
<1>4. /\ Upto = (IF fifohead < fifotail THEN fifosize ELSE fifohead)
      /\ Upto \in Nat /\ fifotail <= Upto /\ Upto <= fifosize
      /\ Len(file) + most <= captured
      /\ \A p \in fifotail .. Upto - 1 : fifo[p] = Len(file) + 1 + p - fifotail
  <2>1. CASE fifohead < fifotail
    BY <1>2, <1>3, <2>1 DEF Upto
  <2>2. CASE ~ (fifohead < fifotail)
    <3>1. fifohead # fifotail
      BY <1>2, <2>2 DEF BeginWrite, Worthwhile
    <3> QED
      BY <1>2, <1>3, <2>2, <3>1 DEF Upto
  <2> QED
    BY <2>1, <2>2
<1>5. /\ block'.at = fifotail /\ block'.size = fifosize
      /\ block'.n \in Nat /\ block'.n <= most
      /\ block' \in [at : Nat, n : Nat, size : Nat]
  BY <1>2, <1>4 DEF BeginWrite
<1>6. Sizes'
  BY <1>1, <1>5 DEF Sizes, ring, data
<1>7. Content'
  BY <1>1 DEF Content, Multiple, ring, data
<1>8. BlockContinues'
  <2>1. ASSUME NEW i \in 1 .. block'.n
        PROVE  fifo[block'.at + i - 1] = Len(file) + i
    <3>1. /\ i \in Nat /\ fifotail + i - 1 \in fifotail .. Upto - 1
          /\ Len(file) + 1 + (fifotail + i - 1) - fifotail = Len(file) + i
      BY <1>2, <1>4, <1>5
    <3> QED
      BY <1>4, <1>5, <3>1
  <2>2. /\ block'.at + block'.n <= BufFrames /\ Len(file) + block'.n <= captured
        /\ fifotail + block'.n <= fifosize
        /\ fifohead >= fifotail => fifotail + block'.n <= fifohead
    BY <1>2, <1>3, <1>4, <1>5
  <2> QED
    BY <1>1, <1>5, <2>1, <2>2 DEF BlockContinues, ring, data
<1>9. FileIsRecording'
  BY <1>1 DEF FileIsRecording, data
<1> QED
  BY <1>1, <1>6, <1>7, <1>8, <1>9 DEF Steady

LEMMA IsRun ==
  ASSUME NEW n \in Nat, NEW s \in [1 .. n -> Nat]
  PROVE  s \in Seq(Nat) /\ Len(s) = n
OBVIOUS

(* The block that has been written: the file grows by what continues it,   *)
(* and the tail moves on by as much.                                       *)
LEMMA WroteKeeps ==
  ASSUME RecInv, Control', NEW ok \in BOOLEAN, Wrote(ok)
  PROVE  RecInv'
<1>0. Steady /\ Control /\ Sizes /\ (Recording => Content) /\ BlockContinues
      /\ FileIsRecording
  BY DEF RecInv
<1>1. CASE ~ ok
  <2>1. /\ block' = NoBlock /\ child = "writing" /\ child' = "top"
        /\ UNCHANGED <<request, ring, vecsize, data, parent, trouble>>
    BY <1>1 DEF Wrote, ticks, ring, data
  <2>2. Sizes'
    BY <1>0, <2>1 DEF Sizes, NoBlock, ring, data
  <2>3. Recording' => Content'
    BY <1>0, <2>1 DEF Recording, Deleting, Content, Multiple, ring, data, request
  <2>4. BlockContinues' /\ FileIsRecording'
    BY <1>0, <2>1 DEF BlockContinues, FileIsRecording, data
  <2> QED
    BY <1>0, <2>1, <2>2, <2>3, <2>4 DEF RecInv, Steady
<1>2. CASE ok
  <2>1. /\ child = "writing" /\ child' # "writing" /\ block' = NoBlock
        /\ file' = file \o Frames(block)
        /\ UNCHANGED <<request, fifosize, fifohead, vecsize, fifo, captured, trouble>>
        /\ parent'.call = parent.call
    BY <1>0, <1>2 DEF Wrote, ticks, ParentSignalled, Control
  <2>2. /\ fifosize \in Nat /\ fifohead \in Nat /\ fifotail \in Nat
        /\ captured \in Nat /\ file \in Seq(Nat) /\ Len(file) \in Nat
        /\ block.at \in Nat /\ block.n \in Nat /\ BufFrames \in Nat
        /\ fifo \in [0 .. BufFrames - 1 -> Nat]
    BY <1>0, PdWriteAssumption DEF PdWriteAssumption, Sizes
  <2>3. /\ block.at + block.n <= BufFrames
        /\ Len(file) + block.n <= captured
        /\ \A i \in 1 .. block.n : fifo[block.at + i - 1] = Len(file) + i
    BY <1>0, <2>1 DEF BlockContinues
  <2>4. /\ Frames(block) \in Seq(Nat) /\ Len(Frames(block)) = block.n
        /\ \A i \in 1 .. block.n : Frames(block)[i] = Len(file) + i
    <3>1. \A i \in 1 .. block.n : block.at + i - 1 \in 0 .. BufFrames - 1
      BY <2>2, <2>3
    <3>2. Frames(block) = [i \in 1 .. block.n |-> fifo[block.at + i - 1]]
      BY <2>2, <3>1 DEF Frames
    <3>3. Frames(block) \in [1 .. block.n -> Nat]
      BY <2>2, <3>1, <3>2
    <3>4. \A i \in 1 .. block.n : Frames(block)[i] = fifo[block.at + i - 1]
      BY <3>2
    <3> QED
      BY <2>2, <2>3, <3>3, <3>4, IsRun
  <2>5. /\ file' \in Seq(Nat) /\ Len(file') = Len(file) + block.n
        /\ \A i \in 1 .. Len(file) + block.n :
             file'[i] = IF i <= Len(file) THEN file[i]
                        ELSE Frames(block)[i - Len(file)]
    BY <2>1, <2>2, <2>4, ConcatProperties
  <2>6. FileIsRecording'
    <3>1. ASSUME NEW i \in 1 .. Len(file) + block.n PROVE file'[i] = i
      <4>1. CASE i <= Len(file)
        <5>1. file'[i] = file[i] /\ i \in DOMAIN file
          BY <2>2, <2>5, <4>1
        <5> QED
          BY <1>0, <5>1 DEF FileIsRecording
      <4>2. CASE i > Len(file)
        <5>1. i - Len(file) \in 1 .. block.n /\ Len(file) + (i - Len(file)) = i
          BY <2>2, <4>2
        <5> QED
          BY <2>2, <2>4, <2>5, <4>2, <5>1
      <4> QED
        BY <2>2, <4>1, <4>2
    <3>2. DOMAIN file' = 1 .. Len(file) + block.n
      BY <2>5, LenProperties
    <3> QED
      BY <2>1, <2>2, <2>3, <2>5, <3>1, <3>2 DEF FileIsRecording
  <2>7. fifotail' \in Nat /\ Sizes'
    <3>1. fifotail' \in Nat
      BY <1>2, <2>2 DEF Wrote
    <3> QED
      BY <1>0, <2>1, <2>5, <3>1 DEF Sizes, NoBlock
  <2>8. PICK l \in Nat, n \in Nat, t \in Nat :
          l = Len(file) /\ n = block.n /\ l + n = Len(file') /\ t = fifotail'
    BY <2>2, <2>5, <2>7
  <2>9. fifosize \in Nat /\ fifohead \in Nat /\ fifotail \in Nat /\ captured \in Nat
    BY <2>2
  <2>10. Recording' => Content'
    <3>1. CASE requestcode \in {"BUSY", "CLOSE"}
      <4>1. ~ Deleting /\ Recording
        BY <2>1, <3>1, Streaming
      <4>2. /\ fifohead < fifosize /\ fifotail < fifosize /\ fifosize <= BufFrames
            /\ Multiple(fifosize) /\ Multiple(fifohead)
        BY <1>0, <4>1 DEF Content
      <4>3. /\ block.size = fifosize
            /\ fifotail + n <= fifosize
            /\ fifohead >= fifotail => fifotail + n <= fifohead
        BY <1>0, <2>1, <2>8, <4>1 DEF BlockContinues
      <4>4. t = IF fifotail + n = fifosize THEN 0 ELSE fifotail + n
        BY <1>2, <2>8, <3>1, <4>3 DEF Wrote
      <4>5. Multiple(fifosize)' /\ Multiple(fifohead)'
        BY <2>1, <4>2 DEF Multiple
      <4> DEFINE Continued ==
            /\ t < fifosize
            /\ fifohead >= t =>
                 /\ captured = l + n + fifohead - t
                 /\ \A p \in t .. fifohead - 1 : fifo[p] = l + n + 1 + p - t
            /\ fifohead < t =>
                 /\ captured = l + n + fifosize - t + fifohead
                 /\ \A p \in t .. fifosize - 1 : fifo[p] = l + n + 1 + p - t
                 /\ \A p \in 0 .. fifohead - 1 : fifo[p] = l + n + 1 + fifosize - t + p
      <4>6. ASSUME fifohead >= fifotail PROVE Continued
        <5>1. /\ captured = l + fifohead - fifotail
              /\ \A p \in fifotail .. fifohead - 1 : fifo[p] = l + 1 + p - fifotail
          BY <1>0, <2>8, <4>1, <4>6 DEF Content
        <5>2. t = fifotail + n /\ fifohead >= t /\ t < fifosize
          BY <2>9, <4>2, <4>3, <4>4, <4>6
        <5> QED
          BY <2>9, <5>1, <5>2
      <4>7. ASSUME fifohead < fifotail PROVE Continued
        <5>1. /\ captured = l + fifosize - fifotail + fifohead
              /\ \A p \in fifotail .. fifosize - 1 : fifo[p] = l + 1 + p - fifotail
              /\ \A p \in 0 .. fifohead - 1 : fifo[p] = l + 1 + fifosize - fifotail + p
          BY <1>0, <2>8, <4>1, <4>7 DEF Content
        <5>2. CASE fifotail + n = fifosize
          BY <2>9, <4>2, <4>4, <5>1, <5>2
        <5>3. CASE fifotail + n # fifosize
          <6>1. t = fifotail + n /\ t < fifosize /\ fifohead < t
            BY <2>9, <4>3, <4>4, <4>7, <5>3
          <6> QED
            BY <2>9, <5>1, <6>1
        <5> QED
          BY <5>2, <5>3
      <4>8. Continued
        BY <2>9, <4>6, <4>7
      <4> QED
        BY <2>1, <2>8, <2>9, <4>2, <4>5, <4>8 DEF Content
    <3>2. CASE requestcode \notin {"BUSY", "CLOSE"}
      <4>1. requestcode = "QUIT" /\ Deleting
        BY <1>0, <2>1, <3>2 DEF Control
      <4> QED
        BY <2>1, <4>1 DEF Recording, Deleting
    <3> QED
      BY <3>1, <3>2
  <2> QED
    BY <1>0, <2>1, <2>6, <2>7, <2>10 DEF RecInv, Steady, BlockContinues
<1> QED
  BY <1>1, <1>2

LEMMA ChildKeeps ==
  ASSUME RecInv, Control', Child
  PROVE  RecInv'
<1> USE DEF Recording, Deleting, ParentSignalled
<1>1. /\ parent \in [call : Calls, asleep : BOOLEAN]
      /\ requestcode = "OPEN" \/ child = "opening" => fifotail = 0
  BY DEF RecInv, Control
<1>2. CASE AwaitRequest
  <2>1. /\ child' = "awaits request" /\ parent' = ParentSignalled
        /\ UNCHANGED <<request, ring, vecsize, data, block, trouble>>
    BY <1>2 DEF AwaitRequest, ticks
  <2> QED
    BY <1>1, <2>1, QuietKeeps DEF request
<1>3. CASE TakeOpen
  <2>1. /\ child' = "opening" /\ requestcode = "OPEN"
        /\ UNCHANGED <<state, parent, ring, vecsize, data, block, trouble>>
    BY <1>3 DEF TakeOpen, ticks
  <2> QED
    BY <2>1, QuietKeeps
<1>4. ASSUME NEW ok \in BOOLEAN, Opened(ok) PROVE RecInv'
  <2>1. /\ child = "opening" /\ child' \in {"streaming", "top"}
        /\ fifotail' = fifotail
        /\ UNCHANGED <<state, parent, fifosize, fifohead, vecsize, data, block, trouble>>
    BY <1>1, <1>4 DEF Opened, ticks
  <2> QED
    BY <2>1, QuietKeeps DEF ring
<1>5. CASE BeginWrite
  BY <1>5, BeginWriteKeeps
<1>6. CASE AwaitFrames
  <2>1. /\ child = "streaming" /\ child' = "awaits frames" /\ parent' = ParentSignalled
        /\ UNCHANGED <<request, ring, vecsize, data, block, trouble>>
    BY <1>6 DEF AwaitFrames, ticks
  <2> QED
    BY <1>1, <2>1, QuietKeeps
<1>7. CASE LeaveLoop
  <2>1. /\ child' = "top"
        /\ UNCHANGED <<request, parent, ring, vecsize, data, block, trouble>>
    BY <1>7 DEF LeaveLoop, ticks
  <2> QED
    BY <2>1, QuietKeeps DEF request
<1>8. ASSUME NEW ok \in BOOLEAN, Wrote(ok) PROVE RecInv'
  BY <1>8, WroteKeeps
<1>9. CASE BeginClose
  <2>1. /\ child' \in {"closing", "closing to quit"}
        /\ UNCHANGED <<request, parent, ring, vecsize, data, block, trouble>>
    BY <1>9 DEF BeginClose, ticks
  <2> QED
    BY <2>1, QuietKeeps DEF request
<1>10. CASE NothingToClose \/ Closed
  <2>1. /\ child' \in {"top", "done"} /\ requestcode' = "NOTHING"
        /\ parent' = ParentSignalled
        /\ UNCHANGED <<state, ring, vecsize, data, block, trouble>>
    BY <1>10 DEF NothingToClose, Closed, Answered, ticks
  <2> QED
    BY <1>1, <2>1, QuietKeeps
<1>11. CASE Spin
  BY <1>11, QuietKeeps DEF Spin, vars, ticks, request
<1> QED
  BY <1>2, <1>3, <1>4, <1>5, <1>6, <1>7, <1>8, <1>9, <1>10, <1>11 DEF Child

LEMMA RecStep == RecInv /\ [Next]_vars => RecInv'
<1> SUFFICES ASSUME RecInv, [Next]_vars PROVE RecInv'
  OBVIOUS
<1>1. Control'
  BY ControlStep DEF RecInv
<1>2. CASE UNCHANGED vars
  BY <1>1, <1>2, QuietKeeps DEF vars, ticks, request, Recording, Deleting
<1> QED
  BY <1>1, <1>2, ParentKeeps, ChildKeeps DEF Next

LEMMA AlwaysRecInv == ASSUME Steady PROVE Spec => []RecInv
<1>1. Init => RecInv
  BY RecInit
<1> QED
  BY <1>1, RecStep, PTL DEF Spec

(* What is in the file is what was captured, in order and without a gap,   *)
(* whatever the sizes of the fifo, of the ticks and of the writes.         *)
THEOREM FileIsWhatWasCaptured == ASSUME Steady PROVE Spec => []FileIsRecording
<1>1. RecInv => FileIsRecording
  BY DEF RecInv
<1> QED
  BY <1>1, AlwaysRecInv, PTL

-----------------------------------------------------------------------------
(* The block                                                               *)

(* While the child writes, nobody changes what it has in hand.             *)
LEMMA BlockInHand ==
  ASSUME RecInv, Next, child = "writing", child' = "writing"
  PROVE  UNCHANGED <<file, block>>
<1> USE DEF ticks, data
<1>1. CASE ambix_write_perform
  BY <1>1 DEF ambix_write_perform, Capture
<1>2. CASE ambix_write_open
  BY <1>2 DEF ambix_write_open, Idle, RecInv, Control
<1>3. CASE Messages \/ Resume
  <2>1. CASE ambix_write_new
    BY <2>1 DEF ambix_write_new
  <2>2. CASE ambix_write_start \/ ambix_write_stop \/ StopForOpen
    BY <2>2 DEF ambix_write_start, ambix_write_stop, StopForOpen, Stop
  <2>3. CASE DestroyMatrix \/ ambix_write_matrix
    BY <2>3 DEF DestroyMatrix, ambix_write_matrix
  <2>4. CASE RequestQuit \/ AwaitQuit \/ ambix_write_free
    BY <2>4 DEF RequestQuit, AwaitQuit, ambix_write_free
  <2>5. ASSUME NEW v \in VecSizes, ambix_write_dsp(v) PROVE UNCHANGED <<file, block>>
    BY <2>5 DEF ambix_write_dsp
  <2> QED
    BY <1>1, <1>2, <1>3, <2>1, <2>2, <2>3, <2>4, <2>5 DEF Messages, Resume, Tick
<1>4. CASE Child
  BY <1>4 DEF Child, AwaitRequest, TakeOpen, Opened, BeginWrite, AwaitFrames,
              LeaveLoop, Wrote, BeginClose, NothingToClose, Closed, Answered, Spin, vars
<1> QED
  BY <1>1, <1>3, <1>4 DEF Next, Tick

LEMMA BlockFrames ==
  RecInv /\ child = "writing"
    => Frames(block) = [i \in 1 .. block.n |-> Len(file) + i]
<1> SUFFICES ASSUME RecInv, child = "writing"
             PROVE  Frames(block) = [i \in 1 .. block.n |-> Len(file) + i]
  OBVIOUS
<1>1. /\ block.at \in Nat /\ block.n \in Nat /\ BufFrames \in Nat
      /\ DOMAIN fifo = 0 .. BufFrames - 1
  BY PdWriteAssumption DEF PdWriteAssumption, RecInv, Sizes
<1>2. /\ block.at + block.n <= BufFrames
      /\ \A i \in 1 .. block.n : fifo[block.at + i - 1] = Len(file) + i
  BY DEF RecInv, BlockContinues
<1>3. \A i \in 1 .. block.n : block.at + i - 1 \in 0 .. BufFrames - 1
  BY <1>1, <1>2
<1> QED
  BY <1>1, <1>2, <1>3 DEF Frames

(* What the child reads without the mutex, no tick touches.                *)
THEOREM BlocksUndisturbed == ASSUME Steady PROVE Spec => BlockUndisturbed
<1>1. RecInv /\ RecInv' /\ [Next]_vars
        => [child = "writing" /\ child' = "writing"
              => Frames(block)' = Frames(block)]_vars
  <2> SUFFICES ASSUME RecInv, RecInv', Next, child = "writing", child' = "writing"
               PROVE  Frames(block)' = Frames(block)
    OBVIOUS
  <2>1. file' = file /\ block' = block
    BY BlockInHand
  <2>2. Frames(block) = [i \in 1 .. block.n |-> Len(file) + i]
    BY BlockFrames
  <2>3. (child = "writing")'
    OBVIOUS
  <2>4. (Frames(block) = [i \in 1 .. block.n |-> Len(file) + i])'
    BY <2>3, BlockFrames, PTL
  <2> QED
    BY <2>1, <2>2, <2>4
<1> QED
  BY <1>1, AlwaysRecInv, RecStep, PTL DEF Spec, BlockUndisturbed

-----------------------------------------------------------------------------
(* The types                                                               *)

LEMMA Constants ==
  /\ BufFrames \in Nat /\ BufFrames > 0 /\ MaxFrames \in Nat
  /\ SignalsPerBuffer \in Nat /\ SignalsPerBuffer > 0
  /\ \A v \in VecSizes : v \in Nat /\ v > 0
BY PdWriteAssumption DEF PdWriteAssumption

LEMMA PeriodType ==
  ASSUME NEW s \in 0 .. BufFrames, NEW v \in VecSizes
  PROVE  Period(s, v) \in 0 .. BufFrames
<1>1. SignalsPerBuffer * v \in Nat \ {0} /\ s \in Nat /\ BufFrames \in Nat
  BY Constants
<1>2. ASSUME NEW d \in Nat \ {0} PROVE s \div d \in 0 .. s
  BY <1>1
<1> QED
  BY <1>1, <1>2 DEF Period

(* The parts of the type invariant.                                        *)
Names ==
  /\ state \in {"IDLE", "STARTUP", "STREAM"}
  /\ matrix \in {"none", "set", "freed"}
  /\ ambix \in BOOLEAN /\ child \in Places

Ticking == sigcountdown \in 0 .. BufFrames /\ sigperiod \in 0 .. BufFrames

Ring ==
  /\ fifosize \in 0 .. BufFrames
  /\ fifohead \in 0 .. BufFrames /\ fifotail \in 0 .. BufFrames

Stored ==
  /\ captured \in 0 .. MaxFrames
  /\ fifo \in [0 .. BufFrames - 1 -> 0 .. MaxFrames]

InHand ==
  /\ block \in [at : 0 .. BufFrames, n : 0 .. BufFrames, size : 0 .. BufFrames]
  /\ block.at + block.n <= BufFrames

TypeInv == RecInv /\ Names /\ Ticking /\ Ring /\ Stored /\ InHand

LEMMA TypeInit == Steady /\ Init => TypeInv
<1> SUFFICES ASSUME Steady, Init PROVE TypeInv
  OBVIOUS
<1>a. 0 \in 0 .. BufFrames
  BY Constants
<1>b. NoBlock.at + NoBlock.n <= BufFrames
  BY Constants DEF NoBlock
<1>1. Names /\ Ticking /\ Ring /\ InHand
  BY <1>a, <1>b DEF Init, Names, Places, Ticking, Ring, InHand, NoBlock
<1>2. Stored
  BY Constants DEF Init, Stored, Empty
<1> QED
  BY <1>1, <1>2, RecInit DEF TypeInv

LEMMA NamesStep == Names /\ Next => Names'
<1> SUFFICES ASSUME Names, Next PROVE Names'
  OBVIOUS
<1> USE DEF Names, Places, request
<1>1. ChildSignalled \in Places
  BY DEF ChildSignalled
<1>2. CASE ambix_write_perform
  BY <1>1, <1>2 DEF ambix_write_perform, SleepsIn
<1>3. CASE ambix_write_open
  BY <1>1, <1>3 DEF ambix_write_open, SleepsIn
<1>4. CASE ambix_write_start
  BY <1>4 DEF ambix_write_start
<1>5. CASE ambix_write_stop \/ StopForOpen
  BY <1>1, <1>5 DEF ambix_write_stop, StopForOpen, Stop
<1>6. ASSUME NEW v \in VecSizes, ambix_write_dsp(v) PROVE Names'
  BY <1>6 DEF ambix_write_dsp
<1>7. CASE DestroyMatrix \/ ambix_write_matrix
  BY <1>7 DEF DestroyMatrix, ambix_write_matrix
<1>8. CASE RequestQuit \/ AwaitQuit
  BY <1>1, <1>8 DEF RequestQuit, AwaitQuit, SleepsIn
<1>9. CASE ambix_write_free \/ ambix_write_new
  BY <1>9 DEF ambix_write_free, ambix_write_new
<1>10. CASE AwaitRequest \/ TakeOpen \/ BeginWrite \/ AwaitFrames \/ LeaveLoop
  BY <1>10 DEF AwaitRequest, TakeOpen, BeginWrite, AwaitFrames, LeaveLoop
<1>11. ASSUME NEW ok \in BOOLEAN, Opened(ok) PROVE Names'
  BY <1>11 DEF Opened
<1>12. ASSUME NEW ok \in BOOLEAN, Wrote(ok) PROVE Names'
  BY <1>12 DEF Wrote
<1>13. CASE BeginClose \/ NothingToClose \/ Closed
  BY <1>13 DEF BeginClose, NothingToClose, Closed, Answered
<1>14. CASE Spin
  BY <1>14 DEF Spin, vars
<1> QED
  BY <1>2, <1>3, <1>4, <1>5, <1>6, <1>7, <1>8, <1>9, <1>10, <1>11, <1>12, <1>13, <1>14
     DEF Next, Messages, Resume, Child, Tick

(* The tick that captures fills in one block, which ends within the fifo,  *)
(* since its size is a multiple of the block size and the head one below.  *)
LEMMA CaptureStores ==
  ASSUME RecInv, Recording, Ring, Stored, Capture,
         captured + vecsize <= MaxFrames, UNCHANGED <<fifosize, fifotail>>
  PROVE  Ring' /\ Stored'
<1>1. /\ fifohead \in Nat /\ vecsize \in Nat /\ captured \in Nat
      /\ fifosize \in Nat /\ fifosize <= BufFrames /\ BufFrames \in Nat
      /\ MaxFrames \in Nat
  BY Constants DEF RecInv, Sizes, Ring
<1>2. Ring'
  BY <1>1 DEF Capture, Ring
<1>3. captured' \in 0 .. MaxFrames
  BY <1>1 DEF Capture
<1>4. \A i \in fifohead .. fifohead + vecsize - 1 : captured + 1 + i - fifohead \in 0 .. MaxFrames
  BY <1>1
<1>5. fifohead + vecsize <= fifosize
  BY BlockFits DEF RecInv, Content
<1>6. DOMAIN fifo \cup Written = 0 .. BufFrames - 1
  BY <1>1, <1>5 DEF Stored, Written
<1>7. fifo' \in [0 .. BufFrames - 1 -> 0 .. MaxFrames]
  BY <1>4, <1>6 DEF Capture, Captured, Written, Stored
<1> QED
  BY <1>2, <1>3, <1>7 DEF Stored

LEMMA PerformTypes ==
  ASSUME TypeInv, ambix_write_perform
  PROVE  Ticking' /\ Ring' /\ Stored' /\ InHand'
<1> USE DEF ring, ticks, data
<1>1. CASE NoRoom
  BY <1>1 DEF ambix_write_perform, TypeInv, Ticking, Ring, Stored, InHand
<1>2. CASE ~ NoRoom
  <2>1. /\ Capture /\ UNCHANGED <<fifosize, fifotail, sigperiod, block>>
        /\ captured + vecsize <= MaxFrames
        /\ sigcountdown' = IF sigcountdown - 1 <= 0 THEN sigperiod ELSE sigcountdown - 1
    BY <1>2 DEF ambix_write_perform
  <2>2. Ring' /\ Stored'
    <3>1. Recording
      BY Begins, GoesOn DEF ambix_write_perform, Recording, Deleting
    <3> QED
      BY <2>1, <3>1, CaptureStores DEF TypeInv
  <2>3. Ticking'
    BY <2>1, Constants DEF TypeInv, Ticking
  <2> QED
    BY <2>1, <2>2, <2>3 DEF TypeInv, InHand
<1> QED
  BY <1>1, <1>2

LEMMA OpenTypes ==
  ASSUME TypeInv, ambix_write_open
  PROVE  Ticking' /\ Ring' /\ Stored' /\ InHand'
<1> USE DEF ring, ticks, data
<1>1. CASE ~ Idle
  BY <1>1 DEF ambix_write_open, TypeInv, Ticking, Ring, Stored, InHand
<1>2. CASE Idle
  <2>1. vecsize \in VecSizes
    BY DEF TypeInv, RecInv, Sizes
  <2>2. Rounded(vecsize) \in 0 .. BufFrames
    BY <2>1, RoundedSize, Constants
  <2>3. Period(Rounded(vecsize), vecsize) \in 0 .. BufFrames
    BY <2>1, <2>2, PeriodType
  <2>4. /\ fifosize' = Rounded(vecsize) /\ fifohead' = 0 /\ fifotail' = 0
        /\ sigperiod' = Period(Rounded(vecsize), vecsize) /\ sigcountdown' = sigperiod'
        /\ fifo' = Empty /\ captured' = 0 /\ block' = block
    BY <1>2 DEF ambix_write_open
  <2>5. Stored'
    BY <2>4, Constants DEF Stored, Empty
  <2>6. Ticking' /\ Ring' /\ InHand'
    BY <2>2, <2>3, <2>4, Constants DEF TypeInv, Ticking, Ring, InHand
  <2> QED
    BY <2>5, <2>6
<1> QED
  BY <1>1, <1>2

LEMMA ParentTypes ==
  ASSUME TypeInv, Messages \/ ambix_write_perform \/ Resume
  PROVE  Ticking' /\ Ring' /\ Stored' /\ InHand'
<1> USE DEF ring, ticks, data
<1>1. CASE UNCHANGED <<ring, ticks, data, block>>
  BY <1>1 DEF TypeInv, Ticking, Ring, Stored, InHand
<1>2. CASE ambix_write_start \/ ambix_write_stop \/ StopForOpen
  BY <1>1, <1>2 DEF ambix_write_start, ambix_write_stop, StopForOpen, Stop
<1>3. CASE DestroyMatrix \/ ambix_write_matrix
  BY <1>1, <1>3 DEF DestroyMatrix, ambix_write_matrix
<1>4. CASE RequestQuit \/ AwaitQuit \/ ambix_write_free
  BY <1>1, <1>4 DEF RequestQuit, AwaitQuit, ambix_write_free
<1>5. ASSUME NEW v \in VecSizes, ambix_write_dsp(v)
      PROVE  Ticking' /\ Ring' /\ Stored' /\ InHand'
  <2>1. Rounded(v) \in 0 .. BufFrames
    BY RoundedSize, Constants
  <2>2. Period(Rounded(v), v) \in 0 .. BufFrames
    BY <2>1, PeriodType
  <2> QED
    BY <1>5, <2>1, <2>2 DEF ambix_write_dsp, TypeInv, Ticking, Ring, Stored, InHand
<1>6. CASE ambix_write_new
  BY <1>6, Constants DEF ambix_write_new, Ticking, Ring, Stored, InHand, Empty, NoBlock
<1> QED
  BY <1>2, <1>3, <1>4, <1>5, <1>6, PerformTypes, OpenTypes
     DEF Messages, Resume, Tick

(* The block the child takes ends within the buffer.                       *)
LEMMA BlockTypes ==
  ASSUME TypeInv, RecInv', BeginWrite
  PROVE  InHand'
<1>1. /\ block'.at = fifotail /\ block'.size = fifosize
      /\ block' = [at |-> block'.at, n |-> block'.n, size |-> block'.size]
      /\ child' = "writing"
  BY DEF BeginWrite
<1>2. /\ (block.n \in Nat /\ block.at \in Nat)'
      /\ (child = "writing" => block.at + block.n <= BufFrames)'
  BY DEF RecInv, Sizes, BlockContinues
<1>3. PICK a \in Nat, n \in Nat : a = block'.at /\ n = block'.n
  BY <1>2
<1>4. a + n <= BufFrames
  BY <1>1, <1>2, <1>3
<1>5. n \in 0 .. BufFrames
  BY <1>3, <1>4, Constants
<1>6. block'.at + block'.n <= BufFrames
  BY <1>3, <1>4
<1> QED
  BY <1>1, <1>3, <1>5, <1>6 DEF TypeInv, Ring, InHand

LEMMA ChildTypes ==
  ASSUME TypeInv, RecInv', Child
  PROVE  Ticking' /\ Ring' /\ Stored' /\ InHand'
<1> USE DEF ring, ticks, data
<1>1. CASE UNCHANGED <<ring, ticks, data, block>>
  BY <1>1 DEF TypeInv, Ticking, Ring, Stored, InHand
<1>2. CASE AwaitRequest \/ TakeOpen \/ AwaitFrames \/ LeaveLoop
  BY <1>1, <1>2 DEF AwaitRequest, TakeOpen, AwaitFrames, LeaveLoop
<1>3. CASE BeginClose \/ NothingToClose \/ Closed
  BY <1>1, <1>3 DEF BeginClose, NothingToClose, Closed, Answered
<1>4. CASE Spin
  BY <1>1, <1>4 DEF Spin, vars
<1>5. ASSUME NEW ok \in BOOLEAN, Opened(ok)
      PROVE  Ticking' /\ Ring' /\ Stored' /\ InHand'
  <2>1. fifotail' \in {0, fifotail} /\ UNCHANGED <<fifosize, fifohead, ticks, data, block>>
    BY <1>5 DEF Opened
  <2>2. 0 \in 0 .. BufFrames
    BY Constants
  <2> QED
    BY <2>1, <2>2 DEF TypeInv, Ticking, Ring, Stored, InHand
<1>6. CASE BeginWrite
  BY <1>6, BlockTypes DEF BeginWrite, TypeInv, Ticking, Ring, Stored
<1>7. ASSUME NEW ok \in BOOLEAN, Wrote(ok)
      PROVE  Ticking' /\ Ring' /\ Stored' /\ InHand'
  <2>1. /\ UNCHANGED <<fifosize, fifohead, sigcountdown, sigperiod, fifo, captured>>
        /\ block' = NoBlock
    BY <1>7 DEF Wrote
  <2>2. Ticking' /\ Stored' /\ InHand'
    BY <2>1, Constants DEF TypeInv, Ticking, Stored, InHand, NoBlock
  <2>3. fifotail' \in 0 .. BufFrames
    <3>1. CASE fifotail' = fifotail
      BY <3>1 DEF TypeInv, Ring
    <3>2. CASE fifotail' # fifotail
      <4>1. child = "writing" /\ requestcode \in {"BUSY", "CLOSE"}
            /\ fifotail' \in {0, fifotail + block.n}
        BY <1>7, <3>2 DEF Wrote
      <4>2. ~ Deleting
        BY <4>1, Streaming DEF TypeInv
      <4>3. fifotail + block.n <= fifosize /\ block.n \in Nat
            /\ fifotail \in Nat /\ fifosize \in Nat /\ fifosize <= BufFrames
        BY <4>1, <4>2, Constants DEF TypeInv, RecInv, Sizes, BlockContinues, Ring
      <4>4. fifotail + block.n \in 0 .. BufFrames
        BY <4>3, Constants
      <4> QED
        BY <4>1, <4>4, Constants
    <3> QED
      BY <3>1, <3>2
  <2>4. Ring'
    BY <2>1, <2>3 DEF TypeInv, Ring
  <2> QED
    BY <2>2, <2>4
<1> QED
  BY <1>2, <1>3, <1>4, <1>5, <1>6, <1>7 DEF Child

LEMMA TypeStep == TypeInv /\ [Next]_vars => TypeInv'
<1> SUFFICES ASSUME TypeInv, [Next]_vars PROVE TypeInv'
  OBVIOUS
<1>1. RecInv'
  BY RecStep DEF TypeInv
<1>2. CASE Next
  BY <1>1, <1>2, NamesStep, ParentTypes, ChildTypes DEF Next, Tick, TypeInv
<1>3. CASE UNCHANGED vars
  BY <1>1, <1>3 DEF TypeInv, vars, ring, ticks, data, request, Names, Ticking, Ring,
                    Stored, InHand
<1> QED
  BY <1>2, <1>3

LEMMA TypesHold == TypeInv => TypeOK
<1> SUFFICES ASSUME TypeInv PROVE TypeOK
  OBVIOUS
<1> USE DEF TypeInv
<1>1. file \in Seq(0 .. MaxFrames)
  <2>1. /\ file \in Seq(Nat) /\ Len(file) <= captured
        /\ \A i \in DOMAIN file : file[i] = i
    BY DEF RecInv, Sizes, FileIsRecording
  <2>2. Len(file) \in Nat /\ DOMAIN file = 1 .. Len(file) /\ file \in [1 .. Len(file) -> Nat]
    BY <2>1, LenProperties
  <2>3. captured \in 0 .. MaxFrames
    BY DEF Stored
  <2>4. \A i \in 1 .. Len(file) : file[i] \in 0 .. MaxFrames
    BY <2>1, <2>2, <2>3, Constants
  <2>5. file \in [1 .. Len(file) -> 0 .. MaxFrames]
    BY <2>2, <2>4
  <2> QED
    BY <2>2, <2>5, SeqDef
<1>2. /\ requestcode \in {"NOTHING", "OPEN", "CLOSE", "QUIT", "BUSY"}
      /\ parent \in [call : Calls, asleep : BOOLEAN]
      /\ vecsize \in VecSizes /\ trouble \subseteq Trouble
  BY DEF RecInv, Control, Sizes
<1> QED
  BY <1>1, <1>2 DEF TypeOK, Names, Ticking, Ring, Stored, InHand

(* Every variable keeps its type, and every position, those of the block   *)
(* the child has in hand included, stays within the buffer.                *)
THEOREM Types == ASSUME Steady PROVE Spec => []TypeOK
<1>1. Init => TypeInv
  BY TypeInit
<1> QED
  BY <1>1, TypeStep, TypesHold, PTL DEF Spec

-----------------------------------------------------------------------------
(* The fifo and the child as a queue                                       *)

LEMMA FifoInit == Init => Fifo!Init
BY DEF Init, Fifo!Init

(* No more is under way than the fifo holds.                               *)
LEMMA UnderWay ==
  RecInv /\ Recording => captured - Len(file) <= BufFrames
<1> SUFFICES ASSUME RecInv, Recording PROVE captured - Len(file) <= BufFrames
  OBVIOUS
<1>1. /\ fifosize \in Nat /\ fifohead \in Nat /\ fifotail \in Nat
      /\ captured \in Nat /\ Len(file) \in Nat /\ BufFrames \in Nat
  BY Constants DEF RecInv, Sizes
<1>2. /\ fifohead < fifosize /\ fifotail < fifosize /\ fifosize <= BufFrames
      /\ fifohead >= fifotail => captured = Len(file) + fifohead - fifotail
      /\ fifohead < fifotail => captured = Len(file) + fifosize - fifotail + fifohead
  BY DEF RecInv, Content
<1> QED
  BY <1>1, <1>2

LEMMA PerformPuts ==
  ASSUME RecInv, RecInv', ambix_write_perform
  PROVE  [Fifo!Next]_(Fifo!vars)
<1>1. parent.call \in {"none", "perform"} /\ state = "STREAM" /\ state' = "STREAM"
  BY Begins, GoesOn DEF ambix_write_perform, request
<1>2. CASE NoRoom
  BY <1>2 DEF ambix_write_perform, data, Fifo!vars
<1>3. CASE ~ NoRoom
  <2>1. captured' = captured + vecsize /\ file' = file /\ parent' = Ready
    BY <1>3 DEF ambix_write_perform, Capture
  <2>2. Recording'
    BY <1>1, <2>1 DEF Recording, Deleting, Ready
  <2>3. (captured - Len(file) <= BufFrames)'
    BY <2>2, UnderWay, PTL
  <2>4. vecsize \in 1 .. BufFrames
    BY VecSize DEF RecInv, Sizes
  <2>5. Fifo!Put
    BY <2>1, <2>3, <2>4 DEF Fifo!Put
  <2> QED
    BY <2>5 DEF Fifo!Next
<1> QED
  BY <1>2, <1>3

LEMMA WroteGets ==
  ASSUME RecInv, NEW ok \in BOOLEAN, Wrote(ok)
  PROVE  [Fifo!Next]_(Fifo!vars)
<1>1. captured' = captured /\ child = "writing"
      /\ file' = IF ok THEN file \o Frames(block) ELSE file
  BY DEF Wrote
<1>2. PICK n \in Nat, l \in Nat, c \in Nat :
        n = block.n /\ l = Len(file) /\ c = captured /\ file \in Seq(Nat)
  BY DEF RecInv, Sizes
<1>3. Frames(block) = [i \in 1 .. n |-> Len(file) + i] /\ l + n <= c
  BY <1>1, <1>2, BlockFrames DEF RecInv, BlockContinues
<1>4. CASE ok /\ n > 0
  <2>1. n \in 1 .. captured - Len(file)
    BY <1>2, <1>3, <1>4
  <2>2. file' = file \o [i \in 1 .. n |-> Len(file) + i]
    BY <1>1, <1>3, <1>4
  <2>3. Fifo!Get
    BY <1>1, <2>1, <2>2 DEF Fifo!Get
  <2> QED
    BY <2>3 DEF Fifo!Next
<1>5. CASE ok /\ n = 0
  <2>1. Frames(block) = <<>>
    BY <1>3, <1>5
  <2>2. file' = file
    BY <1>1, <1>2, <1>5, <2>1
  <2> QED
    BY <1>1, <2>2 DEF Fifo!vars
<1>6. CASE ~ ok
  BY <1>1, <1>6 DEF Fifo!vars
<1> QED
  BY <1>2, <1>4, <1>5, <1>6

LEMMA QueueStep ==
  ASSUME RecInv, RecInv', [Next]_vars
  PROVE  [Fifo!Next]_(Fifo!vars)
<1> USE DEF data
<1>1. CASE UNCHANGED data
  BY <1>1 DEF Fifo!vars
<1>2. CASE ambix_write_open
  <2>1. CASE ~ Idle
    BY <1>1, <1>2, <2>1 DEF ambix_write_open
  <2>2. CASE Idle
    BY <1>2, <2>2 DEF ambix_write_open, Fifo!Next, Fifo!Restart
  <2> QED
    BY <2>1, <2>2
<1>3. CASE ambix_write_new
  BY <1>3 DEF ambix_write_new, Fifo!Next, Fifo!Restart
<1>4. CASE ambix_write_start \/ ambix_write_stop \/ StopForOpen
  BY <1>1, <1>4 DEF ambix_write_start, ambix_write_stop, StopForOpen, Stop
<1>5. CASE DestroyMatrix \/ ambix_write_matrix
  BY <1>1, <1>5 DEF DestroyMatrix, ambix_write_matrix
<1>6. CASE RequestQuit \/ AwaitQuit \/ ambix_write_free
  BY <1>1, <1>6 DEF RequestQuit, AwaitQuit, ambix_write_free
<1>7. ASSUME NEW v \in VecSizes, ambix_write_dsp(v)
      PROVE  UNCHANGED data
  BY <1>7 DEF ambix_write_dsp
<1>8. CASE AwaitRequest \/ TakeOpen \/ BeginWrite \/ AwaitFrames \/ LeaveLoop
  BY <1>1, <1>8 DEF AwaitRequest, TakeOpen, BeginWrite, AwaitFrames, LeaveLoop
<1>9. ASSUME NEW ok \in BOOLEAN, Opened(ok)
      PROVE  UNCHANGED data
  BY <1>9 DEF Opened
<1>10. CASE BeginClose \/ NothingToClose \/ Closed
  BY <1>1, <1>10 DEF BeginClose, NothingToClose, Closed, Answered
<1>11. CASE Spin \/ UNCHANGED vars
  BY <1>1, <1>11 DEF Spin, vars
<1> QED
  BY <1>1, <1>2, <1>3, <1>4, <1>5, <1>6, <1>7, <1>8, <1>9, <1>10, <1>11,
     PerformPuts, WroteGets DEF Next, Messages, Resume, Child, Tick

(* The fifo and the child together are a queue: a tick puts a block in, a  *)
(* write takes out the oldest frames, never more is under way than the     *)
(* buffer holds, and an open begins anew.                                  *)
THEOREM WriterIsQueue == ASSUME Steady PROVE Spec => ImplementsFifo
<1>1. RecInv /\ RecInv' /\ [Next]_vars => [Fifo!Next]_(Fifo!vars)
  BY QueueStep
<1> QED
  BY <1>1, FifoInit, AlwaysRecInv, PTL DEF Spec, ImplementsFifo, Fifo!Spec
=============================================================================
