----------------------------- MODULE MCSoundness -----------------------------
(* Model-checking instance of Soundness over the field of 5 elements.      *)
EXTENDS Soundness

\* Every generic gadget with a promise of its own: and (whose row computes
\* the half-sum) and equals_old are the subject of the Driver's violation
\* runs.
MCSoundGadgets == {"constant", "scale", "assert_eq", "add", "sub", "or", "equals", "cond_select"}

=============================================================================
