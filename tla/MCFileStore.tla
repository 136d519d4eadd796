---------------------------- MODULE MCFileStore ----------------------------
(* Small instances of FileStore for TLC. *)
EXTENDS FileStore, TLC

CONSTANTS f1, f2, tenant

\* Both uploads count for the tenant.  The first one reaches two thresholds at
\* once, and only one fits.
MCSize == [f \in Files |-> 2]
MCScopes == {tenant}
MCCounted == tenant :> Files
MCQuota == tenant :> 3
MCThresholds == tenant :> {1, 2}
\* Overlapping uploads and new versions are explored apart: quotas and warnings
\* count no versions, and those of overlapping uploads have paths of their own.
MCApart == overlapped # {} => \A v \in Revisions : revision[v].pc = "idle"
MCSymmetry == Permutations(Files) \cup Permutations(Names)
=============================================================================
