\* A poll and a stream of one worker compete for two jobs.
SPECIFICATION FairSpec
CONSTANTS
    MaxJobs = 2
    Requests <- MCRequests
    Claimers <- MCClaimers
    Polls = {p1}
    Streams = {s1}
    Offer <- MCOffer
    p1 = p1
    s1 = s1
INVARIANTS  OnlyTheftLosesWakeups StreamsAreCounted
PROPERTIES ImplementsDispatch StreamServesQueue PollIsAnswered
