------------------------------ MODULE MCUpdate ------------------------------
(***************************************************************************)
(* Updates of one board on a small flash, in parts: part is chosen at the  *)
(* start and never changes.                                                *)
(*   history  one release after another: a newer one, an older one with a  *)
(*            token, one nobody signed, and STARTs of nothing, with power  *)
(*            cuts (UpdateCore itself)                                     *)
(*   again    one session of a host that may also start over with its      *)
(*            units at any point, with a power cut                         *)
(* Flash operations that fail and the order and the log of the H745 are    *)
(* parts of MCTunnels.                                                     *)
(***************************************************************************)
EXTENDS UpdateProperties

VARIABLE part

Release(version, counter, size, signed) ==
    [hw |-> 1, version |-> version, counter |-> counter, size |-> size, signed |-> signed]

History == [factory  |-> Release(<<1, 0, 0>>, 1, 2, TRUE),
            new      |-> Release(<<1, 1, 0>>, 2, 2, TRUE),
            old      |-> Release(<<0, 9, 0>>, 1, 2, TRUE),
            unsigned |-> Release(<<2, 0, 0>>, 2, 2, FALSE)]
HistoryStarts == {<<2, 1>>, <<0, 1>>}
OldToken == {<<"old", 2>>}

Restless == INSTANCE UpdateProperties WITH Again <- {1}, MaxSessions <- 1, MaxCuts <- 1

\* What the invariants are proved from.
ASSUME CoreAssumption /\ ChunksAssumption /\ ReleaseAssumption /\ FactoryAssumption /\ Quiet

UpdateInit ==
    \/ part = "history" /\ Init
    \/ part = "again" /\ Restless!Init

UpdateNext ==
    /\ UNCHANGED part
    /\ \/ part = "history" /\ Next
       \/ part = "again" /\ Restless!Next

UpdateSpec == UpdateInit /\ [][UpdateNext]_<<part, vars>>
=============================================================================
