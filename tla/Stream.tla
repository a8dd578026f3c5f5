------------------------------- MODULE Stream -------------------------------
(***************************************************************************)
(* What TSQueue promises for the values one thread pushes: a queue in the  *)
(* order of the pushes.  A pop takes the oldest value, and hands it over   *)
(* to the thread that called it a little later; each value is handed over  *)
(* once.  A pop may also fail at any time, which is a stuttering step.     *)
(* This is the queue the modules of the patterns are written with.         *)
(***************************************************************************)
EXTENDS Sequences

CONSTANTS Readers, Values, Nothing

VARIABLES
    stream,     \* values pushed and not popped, oldest first
    popped,     \* popped[r]: the value reader r has popped and not yet got
    handed      \* values that were handed over

vars == <<stream, popped, handed>>

Init ==
    /\ stream = <<>>
    /\ popped = [r \in Readers |-> Nothing]
    /\ handed = {}

Push(v) ==
    /\ stream' = Append(stream, v)
    /\ UNCHANGED <<popped, handed>>

Pop(r) ==
    /\ stream # <<>> /\ popped[r] = Nothing
    /\ stream' = Tail(stream)
    /\ popped' = [popped EXCEPT ![r] = Head(stream)]
    /\ UNCHANGED handed

HandOver(r) ==
    /\ popped[r] # Nothing
    /\ popped[r] \notin handed
    /\ handed' = handed \union {popped[r]}
    /\ popped' = [popped EXCEPT ![r] = Nothing]
    /\ UNCHANGED stream

Next ==
    \/ \E v \in Values : Push(v)
    \/ \E r \in Readers : Pop(r) \/ HandOver(r)

Spec == Init /\ [][Next]_vars
=============================================================================
