------------------------------ MODULE Pattern -------------------------------
(***************************************************************************)
(* What interfaces/PatternInterface.hpp promises of every pattern, however *)
(* it is built: Compute accepts a job (a future for its input) at any      *)
(* time, before Init and after Dispose too, since no implementation calls  *)
(* assertInit; an accepted job is answered at most once, after its input   *)
(* is there and only while the pattern is up, that is, from the beginning  *)
(* of Init to the end of Dispose; Dispose keeps what it did not answer,    *)
(* and a later Init may answer it; the destructor breaks every promise     *)
(* that is left.                                                           *)
(*                                                                         *)
(* The inputs come from elsewhere: `ready` is the set of jobs whose input  *)
(* future has its value.  It only grows, and it may grow in the step that  *)
(* answers a job, as that job's output may be another one's input.         *)
(***************************************************************************)
CONSTANT Jobs

VARIABLES
    up,         \* between the start of Init and the end of Dispose
    accepted,   \* jobs given to Compute
    ready,      \* jobs whose input future is ready
    answered,   \* jobs whose output promise has its value
    broken,     \* jobs whose output promise was destroyed without a value
    gone        \* the destructor has run

vars == <<up, accepted, ready, answered, broken, gone>>

Init ==
    /\ up = FALSE
    /\ accepted = {}
    /\ ready \in SUBSET Jobs
    /\ answered = {}
    /\ broken = {}
    /\ gone = FALSE

Accept(j) ==
    /\ ~gone
    /\ j \notin accepted
    /\ accepted' = accepted \union {j}
    /\ UNCHANGED <<up, ready, answered, broken, gone>>

Supply(j) ==
    /\ j \notin ready
    /\ ready' = ready \union {j}
    /\ UNCHANGED <<up, accepted, answered, broken, gone>>

Start ==
    /\ ~up
    /\ ~gone
    /\ up' = TRUE
    /\ UNCHANGED <<accepted, ready, answered, broken, gone>>

Stop ==
    /\ up
    /\ up' = FALSE
    /\ UNCHANGED <<accepted, ready, answered, broken, gone>>

Answer(j) ==
    /\ up
    /\ j \in accepted \ answered
    /\ j \in ready
    /\ answered' = answered \union {j}
    /\ \E others \in SUBSET Jobs : ready' = ready \union others
    /\ UNCHANGED <<up, accepted, broken, gone>>

Destroy ==
    /\ ~up
    /\ ~gone
    /\ gone' = TRUE
    /\ broken' = accepted \ answered
    /\ UNCHANGED <<up, accepted, ready, answered>>

Next ==
    \/ \E j \in Jobs : Accept(j)
    \/ \E j \in Jobs : Supply(j)
    \/ \E j \in Jobs : Answer(j)
    \/ Start
    \/ Stop
    \/ Destroy

(***************************************************************************)
(* While the pattern stays up, a job whose input is there gets its answer. *)
(***************************************************************************)
Responsive ==
    \A j \in Jobs :
        (up /\ j \in accepted /\ j \in ready) ~> (~up \/ j \in answered)

SafeSpec == Init /\ [][Next]_vars

Spec == SafeSpec /\ Responsive

=============================================================================
