--------------------------- MODULE MCAutomatedPR ---------------------------
(* Instances of AutomatedPR for TLC. *)
EXTENDS AutomatedPR

CONSTANTS nightly1, nightly2, template
=============================================================================
