---------------------------- MODULE FusionStateMC ----------------------------
(***************************************************************************)
(* Small instances of FusionState for TLC.                                 *)
(***************************************************************************)
EXTENDS FusionState, TLC

\* The workers are interchangeable, in the invariants and in the steps.
WorkerSymmetry == Permutations(Workers)

\* The seeded settings: Warning 44..75, Critical from 76.
SeedThresholds == [tier_2_min |-> 44, tier_2_max |-> 75, tier_3_min |-> 76]
MCThresholds == {SeedThresholds}

\* An admin lowers every tier, so that the same score has another level.
LowThresholds == [tier_2_min |-> 30, tier_2_max |-> 59, tier_3_min |-> 60]
MCTwoThresholds == {SeedThresholds, LowThresholds}

\* Below half and rising slowly, above 90 % and rising, above 90 % dead flat.
MCLevels == {[pct |-> 400, rate |-> 50],
             [pct |-> 950, rate |-> 250],
             [pct |-> 950, rate |-> 0]}

MCTwoLevels == {[pct |-> 400, rate |-> 50], [pct |-> 950, rate |-> 250]}
MCHighLevel == {[pct |-> 950, rate |-> 250]}

MCRains == {[precip |-> 0], [precip |-> 900]}

MCHeavyRain == {[precip |-> 900]}

MCConfirmed == {"confirmed"}
MCFrameTiers == {"clear", "confirmed"}
MCStoredStatuses == {"blocked"}

\* One tick is the cooldown of a recommendation; those of the notices are shortened.
MCNotifyCooldown == [k \in NotifyKinds |-> IF k = "Blockage" THEN 2 ELSE 1]
MCShortCooldown == [k \in NotifyKinds |-> 1]
=============================================================================
