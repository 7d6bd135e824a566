------------------------------- MODULE MCEstop -------------------------------
(***************************************************************************)
(* EstopSystem on small stacks.  The axes are left to BoardAlone.          *)
(***************************************************************************)
EXTENDS EstopProperties, TLC
CONSTANTS n0, n1
TwoAlike == Permutations(Slots)

AllBoards == {Slots}

(***************************************************************************)
(* The sequence numbers matter only by their distance to the counter of    *)
(* the brain, as long as the brain keeps counting (no reboot) and they     *)
(* wrap: states that differ by a common rotation are one state.            *)
(***************************************************************************)
Behind(s) == (brain.seq - s) % SeqMod
FrameView(f) == <<f.kind, f.epoch, IF f.kind \in {"TRIP", "MALFORMED"} THEN 0 ELSE Behind(f.seq)>>
QueueView(q) == [i \in DOMAIN q |-> FrameView(q[i])]
NodeView(n) == [n EXCEPT !.seq = IF n.haveSeq THEN Behind(@) ELSE 0]

RotationView ==
    <<[brain EXCEPT !.seq = 0], boot, brainRx, QueueView(brainTx),
      [n \in Slots |-> [board[n] EXCEPT !.node = NodeView(@)]],
      [n \in Slots |-> QueueView(rx[n])],
      tx, busOff, stage, jammed, faults, asks, asked, history>>

=============================================================================
