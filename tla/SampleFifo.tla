----------------------------- MODULE SampleFifo -----------------------------
(***************************************************************************)
(* What the buffers of the Pd externals and of the JACK programs promise:  *)
(* the frames put in come out in order, none lost, none twice, none made   *)
(* up, and never more of them are under way than they hold.  Frames are    *)
(* numbered from 1 since the last restart.                                 *)
(***************************************************************************)
EXTENDS Integers, Sequences

CONSTANT Capacity  \* frames the buffer holds, a positive number

VARIABLES
  put,      \* how many frames have been put in
  got       \* the frames that came out

vars == <<put, got>>

Init == put = 0 /\ got = <<>>

Put ==
  \E n \in 1 .. Capacity :
    /\ put' = put + n
    /\ put' - Len(got) <= Capacity
    /\ UNCHANGED got

Get ==
  \E n \in 1 .. put - Len(got) :
    /\ got' = got \o [i \in 1 .. n |-> Len(got) + i]
    /\ UNCHANGED put

Restart == put' = 0 /\ got' = <<>>

Next == Put \/ Get \/ Restart

Spec == Init /\ [][Next]_vars
=============================================================================
