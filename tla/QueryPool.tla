----------------------------- MODULE QueryPool -----------------------------
(***************************************************************************)
(* What AsyncConnection promises for the calls of execute() and prepare()  *)
(* (src/src_py/async_connection.py): one call at a time per connection, an *)
(* answer only when the call's work is over, and a call that is cancelled  *)
(* before it has been started never reaches its connection.                *)
(***************************************************************************)
EXTENDS Naturals

CONSTANTS Calls, Conns, NULL

VARIABLES
    on,         \* the connection a call was given
    work,       \* what became of the call's work
    withdrawn,  \* the call was cancelled and may no longer be started
    outcome     \* what the awaiting task got

vars == <<on, work, withdrawn, outcome>>

Init ==
    /\ on = [k \in Calls |-> NULL]
    /\ work = [k \in Calls |-> "none"]
    /\ withdrawn = [k \in Calls |-> FALSE]
    /\ outcome = [k \in Calls |-> "none"]

Choose(k) ==
    /\ on[k] = NULL
    /\ \E c \in Conns : on' = [on EXCEPT ![k] = c]
    /\ UNCHANGED <<work, withdrawn, outcome>>

Accept(k) ==
    /\ on[k] # NULL
    /\ work[k] = "none"
    /\ outcome[k] = "none"
    /\ work' = [work EXCEPT ![k] = "accepted"]
    /\ UNCHANGED <<on, withdrawn, outcome>>

Refuse(k) ==
    /\ on[k] # NULL
    /\ work[k] = "none"
    /\ outcome[k] = "none"
    /\ outcome' = [outcome EXCEPT ![k] = "refused"]
    /\ UNCHANGED <<on, work, withdrawn>>

Execute(k) ==
    /\ work[k] = "accepted"
    /\ ~withdrawn[k]
    /\ \A j \in Calls : on[j] = on[k] => work[j] # "executing"
    /\ work' = [work EXCEPT ![k] = "executing"]
    /\ UNCHANGED <<on, withdrawn, outcome>>

Finish(k) ==
    /\ work[k] \in {"accepted", "executing"}
    /\ work' = [work EXCEPT ![k] = "over"]
    /\ UNCHANGED <<on, withdrawn, outcome>>

Answer(k) ==
    /\ work[k] = "over"
    /\ outcome[k] = "none"
    /\ outcome' = [outcome EXCEPT ![k] = "answered"]
    /\ UNCHANGED <<on, work, withdrawn>>

\* A cancelled task gets CancelledError, or the error of the interrupt it sent.
Withdraw(k) ==
    /\ work[k] # "none"
    /\ outcome[k] = "none"
    /\ withdrawn' = [withdrawn EXCEPT ![k] = TRUE]
    /\ \E how \in {"cancelled", "failed"} : outcome' = [outcome EXCEPT ![k] = how]
    /\ UNCHANGED <<on, work>>

Next ==
    \E k \in Calls :
        \/ Choose(k)
        \/ Accept(k)
        \/ Refuse(k)
        \/ Execute(k)
        \/ Finish(k)
        \/ Answer(k)
        \/ Withdraw(k)

Spec == Init /\ [][Next]_vars
=============================================================================
