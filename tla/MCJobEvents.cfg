\* One client with a small channel; handlers publish out of order.
SPECIFICATION FairSpec
CONSTANTS
    c1 = c1
    Clients <- MCClients
    Capacity = 1
    CloseDelay = "later"
    MaxCalls = 4
\* The job ends, the client leaves, the calls are used up.
CHECK_DEADLOCK FALSE
INVARIANTS SubscribersAreOpen HangsUpAfterEnd
 
