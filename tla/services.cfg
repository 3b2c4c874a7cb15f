SPECIFICATION Spec
CONSTANTS
 Names <- MCNames
 Canonical <- MCCanonical
 FieldNameMap <- MCFieldNameMap
 Stripped <- MCStripped
 NoName = "none"
 Jobs <- MCJobs
 Drafts <- MCDrafts
 ChangeDrafts <- MCChangeDrafts
 InitialTable <- MCInitialTable
 Meddlings <- MCMeddlings
 MaxMeddling = 1
 MaxFaults = 1
 Callers = {t1, t2}
 RouteConfigs <- MCRouteConfigs
 Failures <- MCFailures
 ProbeTtl = 1
 UnhealthyTtl = 2
 MaxClock = 2
 MaxCalls = 2
 Refreshers = {cron, backfill}
 Documents <- MCDocuments
 Feeds <- MCFeeds
 Zones = {480}
 MorningOf = 3330
 Waits = {720}
 LastMinute = 4770
 MaxRefreshes = 2
 Persons <- MCPersons
 Starts <- MCStarts
 Tabs = {tab1, tab2}
 MaxRequests = 4
 MaxCrashes = 1
 RecordOwner <- MCRecordOwner
 Cost <- MCCost
 Today = 1
 AiScore = 100
 Scores = {0, 100}
INVARIANTS
 TypeOK WritesAsConfirmed TargetWasRead  AcceptedChangesApply
 ReportCountsApplied MockStaysMock
  BindingsAreMutual  

    
CHECK_DEADLOCK FALSE
