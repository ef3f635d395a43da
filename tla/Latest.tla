------------------------------- MODULE Latest -------------------------------
(***************************************************************************)
(* What the coordinator relies on its broadcast channels for: each reader  *)
(* sees the values in order, may miss some, but what it holds is always a  *)
(* value that was the newest when it took it, and in the end it holds the  *)
(* newest.  A restart forgets everything.                                  *)
(***************************************************************************)
CONSTANTS Values, Readers, None

VARIABLES
    value,  \* the newest value sent
    held    \* what each reader works with

vars == <<value, held>>

Init ==
    /\ value = None
    /\ held = [r \in Readers |-> None]

Publish ==
    /\ value' \in Values
    /\ UNCHANGED held

Take(r) ==
    /\ value # None
    /\ held' = [held EXCEPT ![r] = value]
    /\ UNCHANGED value

Restart ==
    /\ value' = None
    /\ held' = [r \in Readers |-> None]

Next == Publish \/ Restart \/ \E r \in Readers : Take(r)

Spec == Init /\ [][Next]_vars

FairSpec == Spec /\ \A r \in Readers : WF_vars(Take(r))

=============================================================================
