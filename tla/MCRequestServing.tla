--------------------------- MODULE MCRequestServing ---------------------------
\* Instances of RequestServing for TLC, with a budget on what disturbs the
\* requests: upstream errors and limits, failed renewals, background
\* validations and the passing of time.
EXTENDS RequestServing

CONSTANTS
    a1, a2,             \* accounts
    MaxDisturbances     \* bound

VARIABLE disturbances

mcVars == <<vars, disturbances>>

Disturbance ==
    \/ \E r \in Requests :
         \/ ValidationFailed(r) \/ BackOff(r) \/ OpenRejected(r) \/ OpenFailed(r)
         \/ AnswerDropped(r) \/ AnswerFailed(r)
    \/ \E n \in Accounts : Watchdog(n)
    \/ Tick

Smooth(r) ==
    \/ Pick(r) \/ GiveUp(r)
    \/ TakeSlot(r) \/ SlotTimeout(r)
    \/ Validate(r) \/ Validated(r)
    \/ Opened(r)
    \/ BackOffOver(r) \/ CancelledInBackOff(r)
    \/ Reacquired(r) \/ RetriesExhausted(r) \/ ReacquireTimeout(r)
    \/ Answered(r)
    \/ Settle(r)

\* The requests are interchangeable: of two initial states that differ only in
\* who of them streams, one is enough.
MCInit ==
    /\ Init
    /\ LET first == CHOOSE r \in Requests : TRUE
       IN  req[first].stream => \A r \in Requests : req[r].stream
    /\ disturbances = 0

MCNext ==
    \/ /\ disturbances < MaxDisturbances
       /\ Disturbance
       /\ disturbances' = disturbances + 1
    \/ /\ \E r \in Requests : Smooth(r)
       /\ UNCHANGED disturbances

MCSpec ==
    /\ MCInit
    /\ [][MCNext]_mcVars
    /\ \A r \in Requests : WF_mcVars(Smooth(r) /\ UNCHANGED disturbances)

TwoAccounts == <<a1, a2>>
=============================================================================
