------------------------------ MODULE MCSession ------------------------------
(***************************************************************************)
(* Instances of Session for TLC.  Subscriptions are interchangeable, so    *)
(* the safety runs identify states that differ only in their names; the    *)
(* liveness runs do not (symmetry is unsound for liveness in TLC).         *)
(***************************************************************************)
EXTENDS Session, TLC

SubsSymmetry == Permutations(Subs)
=============================================================================
