----------------------------- MODULE MCDesktopVms -----------------------------
EXTENDS DesktopVms, TLC

RunSymmetry == Permutations(Runs) \cup Permutations(Ids) \cup Permutations(Names)
===============================================================================
