---------------------------- MODULE PlanHistory ----------------------------
(***************************************************************************)
(* What the district editor promises its user, without blocks, shatter     *)
(* maps, snapshots in waiting or requests: a plan gives a zone to every    *)
(* unit; each edit is one undo step; breaking a geography into blocks and  *)
(* healing it are not edits; undo and redo walk the edits; a revert brings *)
(* back what was saved; a reload keeps the plan and forgets the edits.     *)
(***************************************************************************)
EXTENDS Integers, Sequences

CONSTANTS Units, Values, Unassigned, Limit

VARIABLES plan, saved, undoable, redoable

planVars == <<plan, saved, undoable, redoable>>

Plans == [Units -> Values]

AllButLast(s) == SubSeq(s, 1, Len(s) - 1)

(* The plan before an edit becomes the newest undo step; the oldest is     *)
(* dropped when there are too many.                                        *)
Remember ==
    /\ undoable' = Append(IF Len(undoable) >= Limit THEN Tail(undoable) ELSE undoable, plan)
    /\ redoable' = << >>

PlanInit ==
    /\ plan = [u \in Units |-> Unassigned]
    /\ saved = plan
    /\ undoable = << >> /\ redoable = << >>

Edit ==
    /\ plan' \in Plans
    /\ Remember
    /\ UNCHANGED saved

UndoEdit ==
    /\ undoable # << >>
    /\ plan' = undoable[Len(undoable)]
    /\ undoable' = AllButLast(undoable)
    /\ redoable' = Append(redoable, plan)
    /\ UNCHANGED saved

RedoEdit ==
    /\ redoable # << >>
    /\ plan' = redoable[Len(redoable)]
    /\ redoable' = AllButLast(redoable)
    /\ undoable' = Append(undoable, plan)
    /\ UNCHANGED saved

Save == saved' = plan /\ UNCHANGED <<plan, undoable, redoable>>

(* A revert may or may not leave an undo step. *)
RevertToSaved ==
    /\ plan' = saved
    /\ Remember \/ UNCHANGED <<undoable, redoable>>
    /\ UNCHANGED saved

ReloadPage ==
    /\ undoable' = << >> /\ redoable' = << >>
    /\ UNCHANGED <<plan, saved>>

PlanNext == Edit \/ UndoEdit \/ RedoEdit \/ Save \/ RevertToSaved \/ ReloadPage

PlanSpec == PlanInit /\ [][PlanNext]_planVars
=============================================================================
