------------------------------ MODULE AmbixFile ------------------------------
(***************************************************************************)
(* What an ambix file promises to those who write and read it, whatever    *)
(* chunks it is kept in: it is configured, then frames are streamed, and   *)
(* what a reader is told is what was configured when the first frame (or   *)
(* the end of the file) came, forever after.                               *)
(***************************************************************************)
EXTENDS AmbixUtil

CONSTANTS Unwritten     \* what a file tells before its headers are written

VARIABLES
  phase,      \* "closed", "setup", "streaming" or "reading"
  meta,       \* what the open handle stands for
  stored      \* what the file tells a reader

vars == <<phase, meta, stored>>

(* A file without a matrix whose channels happen to form a full set is     *)
(* taken for a BASIC one: nothing in it says otherwise.                    *)
AsRead(m) ==
  IF m.real.fileformat = "NONE" /\ is_fullset(m.real.extrachannels)
  THEN [m EXCEPT !.real = [fileformat |-> "BASIC",
                           ambichannels |-> m.real.extrachannels,
                           extrachannels |-> 0]]
  ELSE m

(* Two descriptions that differ in labels only.                            *)
SameAudio(m, n) == m.real = n.real /\ m.matrix = n.matrix

Init == phase = "closed" /\ meta = Unwritten /\ stored # Unwritten

Create ==
  /\ phase = "closed" /\ phase' = "setup"
  /\ meta' # Unwritten
  /\ stored' = Unwritten

Configure ==
  /\ phase = "setup" /\ phase' = "setup"
  /\ meta' # Unwritten
  /\ meta'.real.ambichannels + meta'.real.extrachannels
       = meta.real.ambichannels + meta.real.extrachannels
  /\ UNCHANGED stored

(* The first frame: from now on the file tells what the handle stands for. *)
Stream ==
  /\ phase = "setup" /\ phase' = "streaming"
  /\ UNCHANGED meta
  /\ stored' = AsRead(meta)

(* The labels of a handle in use may change, which its file never notices. *)
Relabel ==
  /\ phase \in {"streaming", "reading"} /\ UNCHANGED phase
  /\ SameAudio(meta', meta)
  /\ UNCHANGED stored

OpenForReading ==
  /\ phase = "closed" /\ phase' = "reading"
  /\ meta' = stored
  /\ UNCHANGED stored

CloseFile ==
  /\ phase # "closed" /\ phase' = "closed"
  /\ meta' = Unwritten
  /\ stored' = IF phase = "setup" THEN AsRead(meta) ELSE stored

Next == Create \/ Configure \/ Stream \/ Relabel \/ OpenForReading \/ CloseFile

Spec == Init /\ [][Next]_vars
=============================================================================
