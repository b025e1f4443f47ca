---------------------------- MODULE MCAlertRace -----------------------------
\* Instances of AlertRace.tla for TLC: two handlers, which are interchangeable.
EXTENDS AlertRace, TLC

CONSTANTS h1, h2
HandlerSymmetry == Permutations({h1, h2})
=============================================================================
