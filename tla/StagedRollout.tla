---------------------------- MODULE StagedRollout ----------------------------
(***************************************************************************)
(* What the rollout controller promises, without gate, mark or verdicts: a *)
(* position on the stages, climbed one stage at a time, dropped to zero    *)
(* exposure at the first stage in one step, kept by the caller from time   *)
(* to time, and after a crash the position kept last.                      *)
(***************************************************************************)
EXTENDS Integers, Sequences

CONSTANT Ladder     \* the exposure percentages of the stages, in order

VARIABLES position, kept

Start == [level |-> 0, exposure |-> Ladder[1]]

Bottom == [level |-> 0, exposure |-> 0]

Init ==
    /\ position = Start
    /\ kept = Start

Climb ==
    /\ position.level + 1 < Len(Ladder)
    /\ position' = [level |-> position.level + 1,
                    exposure |-> Ladder[position.level + 2]]
    /\ UNCHANGED kept

Trip ==
    /\ position' = Bottom
    /\ UNCHANGED kept

Keep ==
    /\ kept' = position
    /\ UNCHANGED position

Crash ==
    /\ position' = kept
    /\ UNCHANGED kept

Next == Climb \/ Trip \/ Keep \/ Crash

Spec == Init /\ [][Next]_<<position, kept>>
=============================================================================
