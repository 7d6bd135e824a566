-------------------------- MODULE MetadataRegister --------------------------
(***************************************************************************)
(* What a metadata log promises: a register.  A write that has begun ends  *)
(* with the new state in force, or with the one before it; a log of one    *)
(* sector may also lose everything (MayLose).                              *)
(***************************************************************************)
CONSTANTS States, NoState, NoWrite, MayLose

VARIABLES value, want
rvars == <<value, want>>

Init == value = NoState /\ want = NoWrite

Write(v) == want = NoWrite /\ want' = v /\ UNCHANGED value
Commit   == want # NoWrite /\ value' = want /\ want' = NoWrite
GiveUp   == want # NoWrite /\ want' = NoWrite /\ UNCHANGED value
Lose     == MayLose /\ want # NoWrite /\ want' = NoWrite /\ value' = NoState

\* An erase that works leaves a log of one sector empty until the record is written.
Empty    == MayLose /\ want # NoWrite /\ value' = NoState /\ UNCHANGED want

Next == (\E v \in States : Write(v)) \/ Commit \/ GiveUp \/ Lose \/ Empty
Spec == Init /\ [][Next]_rvars
=============================================================================
