----------------------------- MODULE MCDashboard -----------------------------
EXTENDS Dashboard, TLC

\* Next where no call triages (Ops) and time stands still (MaxTime = 1).
ClustersNext == (\E p \in Calls : ApiStep(p) \/ ScanStep(p)) \/ Quiescent

ClustersSpec == Init /\ [][ClustersNext]_vars

Symmetry == Permutations(Calls)
=============================================================================
