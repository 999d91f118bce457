------------------------------- MODULE MCAlerts -------------------------------
(* The tests are alike.  *)
EXTENDS Alerts, TLC

Interchangeable == Permutations(Tests)
==============================================================================
