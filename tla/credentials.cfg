SPECIFICATION FairSpec
CONSTANTS
 Callers = {scheduler, request}
 Scheduler = scheduler
 Nobody = Nobody
 Profiles = {"codearts", "workbuddy"}
 Life = 3
 RefreshSkew = 1
 ProactiveWindow = 2
 MaxTime = 3
 MaxLogins = 2
 MaxEvents = 2
INVARIANTS TypeOK NoTokenReplayed FileFollowsMemory
PROPERTIES DeadIsExpired RenewableHeals
CHECK_DEADLOCK FALSE
