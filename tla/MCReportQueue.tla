--------------------------- MODULE MCReportQueue ---------------------------
(* A small instance of the report queue for TLC: two jobs of two           *)
(* organizations, one cron invocation and one manual one.                  *)
EXTENDS ReportQueue, TLC

CONSTANTS okOrg, otherOrg

MCOrgs == {okOrg, otherOrg}
MCOrgOf == 1 :> okOrg @@ 2 :> otherOrg

\* Every fault but the lost reply to a commit.
MCFaults == FaultKinds \ {"ackLost"}
=============================================================================
