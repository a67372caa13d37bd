\* Jobs that workers claim and report on in and out of turn, without client
\* timers: what the queue, the dispatch and the statistics guarantee.
SPECIFICATION Spec
CONSTANTS
    MaxJobs = 2
    Requests <- MCRequests
    Claimers <- MCClaimers
    Reported <- MCReported
    HasTTL = FALSE
    MaxClients = 0
    MaxTails = 1
    MaxCallbacks = 0
    MaxTransfers = 2
INVARIANTS NoOvertaking QueuedIffInQueue StatsCoverTerminal
PROPERTIES ImplementsDispatch DispatchedOnce
