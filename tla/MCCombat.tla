------------------------------ MODULE MCCombat ------------------------------
(***************************************************************************)
(* Two enemies. A tick is two units of time, so that an attack takes       *)
(* effect in the middle of one.                                            *)
(***************************************************************************)
EXTENDS Combat

MCUseTime == [Attack |-> 3, Sacrifice |-> 3, Recall |-> 3]
MCCooldown == [Attack |-> 3, Sacrifice |-> 2, Recall |-> 0]
=============================================================================
