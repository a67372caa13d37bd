----------------------------- MODULE JobDispatch -----------------------------
(***************************************************************************)
(* What the Jobs API promises about who gets which job, with none of the   *)
(* machinery: a job is submitted once, waits, and is either assigned to    *)
(* one claimer or withdrawn; an assignment takes the oldest job that the   *)
(* claimer may have.  JobRegistry and JobClaim implement it.               *)
(***************************************************************************)
EXTENDS JobQueue

VARIABLES
    submitted,  \* the jobs created so far
    asked,      \* what each of them asks for
    waiting,    \* the jobs that can still be assigned
    owner       \* the claimer a job was assigned to

dispatchVars == <<submitted, asked, waiting, owner>>

Init ==
    /\ submitted = {}
    /\ asked = [j \in JobIds |-> NoRequest]
    /\ waiting = {}
    /\ owner = [j \in JobIds |-> NoClaimer]

Submit(j, r) ==
    /\ j \notin submitted
    /\ 1 .. j - 1 \subseteq submitted
    /\ submitted' = submitted \cup {j}
    /\ asked' = [asked EXCEPT ![j] = r]
    /\ waiting' = waiting \cup {j}
    /\ UNCHANGED owner

Assign(j, c) ==
    /\ j \in waiting
    /\ Claimable(asked[j], c)
    /\ \A i \in waiting : i < j => ~Claimable(asked[i], c)
    /\ waiting' = waiting \ {j}
    /\ owner' = [owner EXCEPT ![j] = c]
    /\ UNCHANGED <<submitted, asked>>

Withdraw(j) ==
    /\ j \in waiting
    /\ waiting' = waiting \ {j}
    /\ UNCHANGED <<submitted, asked, owner>>

Next ==
    \E j \in JobIds :
        \/ \E r \in Requests : Submit(j, r)
        \/ \E c \in Claimers : Assign(j, c)
        \/ Withdraw(j)

Spec == Init /\ [][Next]_dispatchVars
=============================================================================
