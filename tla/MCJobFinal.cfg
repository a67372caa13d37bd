\* A transfer request that was checked before a cancel commits after it.
SPECIFICATION Spec
CONSTANTS
    MaxJobs = 1
    Requests <- MCOneRequest
    Claimers <- MCOneClaimer
    Reported <- MCProtocol
    HasTTL = FALSE
    MaxClients = 0
    MaxTails = 1
    MaxCallbacks = 0
    MaxTransfers = 1
PROPERTY TerminalIsFinal
