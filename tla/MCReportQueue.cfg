SPECIFICATION FairSpec
CONSTANTS
  okOrg = okOrg
  otherOrg = otherOrg
  Orgs <- MCOrgs
  OrgOf <- MCOrgOf
  Jobs = {1, 2}
  Workers = {cron, manual}
  CronWorkers = {cron}
  MaxAttempts = 2
  Faults <- MCFaults
INVARIANTS DownloadHasObject
PROPERTIES PromiseKept DebrisNeedsFailure EveryReportSettles
