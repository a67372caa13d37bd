\* One job, two clients that come and go, timer callbacks that come late.
SPECIFICATION FairSpec
CONSTANTS
    MaxJobs = 1
    Requests <- MCOneRequest
    Claimers <- MCOneClaimer
    Reported <- MCProtocol
    HasTTL = TRUE
    MaxClients = 2
    MaxTails = 1
    MaxCallbacks = 2
    MaxTransfers = 1
INVARIANTS IdleJobIsTimed
PROPERTY AbandonedJobEnds
