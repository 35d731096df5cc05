---------------------------- MODULE MCInteraction ----------------------------
(***************************************************************************)
(* An intent for two motes, 2 and 3, and, like the intent of SdnWise.java, *)
(* for the address 0, which is none's.                                     *)
(***************************************************************************)
EXTENDS Interaction

MCTargets == <<2, 3, 0>>

\* The times of the instance meet the hypotheses of the theorems.
ASSUME Times == TimeToArrive /\ TimeToAnswer

==============================================================================
