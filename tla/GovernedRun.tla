---------------------------- MODULE GovernedRun ----------------------------
(***************************************************************************)
(* What an agent run promises about the tool calls a model asks for, turn  *)
(* by turn: no call is carried out before every call of its turn was       *)
(* granted, none twice, and none in a run that completed or failed; the    *)
(* model gets the results of a turn together, before it is asked again;    *)
(* and a run completes only when every call was answered.  A cancelled run *)
(* may still start a call that was granted: the signal is its handler's.   *)
(***************************************************************************)
EXTENDS Naturals

CONSTANT Calls

VARIABLES
    announced,      \* the calls the model asked for and the run accepted
    granted,        \* those that policy and approver let through
    handled,        \* those whose handler was invoked
    answered,       \* those whose result went back to the model
    outcome         \* "open", "completed", "failed" or "cancelled"

vars == <<announced, granted, handled, answered, outcome>>

Init ==
    /\ announced = {}
    /\ granted = {}
    /\ handled = {}
    /\ answered = {}
    /\ outcome = "open"

Announce(S) ==
    /\ outcome = "open"
    /\ answered = announced
    /\ S # {} /\ S \cap announced = {}
    /\ announced' = announced \cup S
    /\ UNCHANGED <<granted, handled, answered, outcome>>

Grant(c) ==
    /\ outcome = "open"
    /\ c \in announced \ granted
    /\ granted' = granted \cup {c}
    /\ UNCHANGED <<announced, handled, answered, outcome>>

Handle(c) ==
    /\ outcome \in {"open", "cancelled"}
    /\ granted = announced
    /\ c \in announced \ (handled \cup answered)
    /\ handled' = handled \cup {c}
    /\ UNCHANGED <<announced, granted, answered, outcome>>

Answer ==
    /\ outcome = "open"
    /\ granted = announced
    /\ answered' = announced
    /\ UNCHANGED <<announced, granted, handled, outcome>>

End(o) ==
    /\ outcome = "open"
    /\ o = "completed" => answered = announced
    /\ outcome' = o
    /\ UNCHANGED <<announced, granted, handled, answered>>

Next ==
    \/ \E S \in SUBSET Calls : Announce(S)
    \/ \E c \in Calls : Grant(c) \/ Handle(c)
    \/ Answer
    \/ \E o \in {"completed", "failed", "cancelled"} : End(o)

Spec == Init /\ [][Next]_vars
=============================================================================
