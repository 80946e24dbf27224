------------------------------ MODULE Handover ------------------------------
(***************************************************************************)
(* What a Cutover promises, without saying how: the source is frozen, then *)
(* the standbys of dest are told one by one to become primaries, which     *)
(* they do in their own time, then the users go over to dest, then the     *)
(* Action is reported done.  Nobody waits for the last standby to be a     *)
(* primary.  Only when the user asked to undo it may the source be thawed, *)
(* may the users go back, and may the steps be taken out of order.         *)
(***************************************************************************)
CONSTANT Standbys  \* the databases of dest that follow one of the source

VARIABLES
    frozen,   \* nothing that writes on source is scaled up
    told,     \* the standbys that were told to become primaries
    primary,  \* those that have become one
    users,    \* the cluster the users are sent to
    undo,     \* a rollback is asked for
    done      \* the handover is reported as done

vars == <<frozen, told, primary, users, undo, done>>

Init ==
    /\ frozen \in BOOLEAN /\ undo \in BOOLEAN
    /\ told = {} /\ primary = {}
    /\ users = "source"
    /\ done = FALSE

Freeze == ~frozen /\ frozen' = TRUE /\ UNCHANGED <<told, primary, users, undo, done>>

\* A standby is told, perhaps not for the first time, and may be a primary at
\* once.  None is ever a standby again.
Tell ==
    /\ frozen \/ undo
    /\ \E s \in Standbys :
         told' = told \cup {s} /\ primary' \in {primary, primary \cup {s}}
    /\ UNCHANGED <<frozen, users, undo, done>>

Become ==
    /\ \E s \in told \ primary : primary' = primary \cup {s}
    /\ UNCHANGED <<frozen, told, users, undo, done>>

Switch ==
    /\ frozen \/ undo
    /\ told = Standbys
    /\ users = "source" /\ users' = "dest"
    /\ UNCHANGED <<frozen, told, primary, undo, done>>

Finish ==
    /\ users = "dest" \/ undo
    /\ ~done /\ done' = TRUE
    /\ UNCHANGED <<frozen, told, primary, users, undo>>

\* A pass that began before the report was seen writes over it: what was
\* reported can change again, what was handed over does not.
Reopen == done /\ done' = FALSE /\ UNCHANGED <<frozen, told, primary, users, undo>>

\* The user asks, and does not take it back.
Ask == ~undo /\ undo' = TRUE /\ UNCHANGED <<frozen, told, primary, users, done>>

Return ==
    /\ undo
    /\ users' \in {users, "source"} /\ frozen' \in BOOLEAN
    /\ UNCHANGED <<told, primary, undo, done>>

Next == Freeze \/ Tell \/ Become \/ Switch \/ Finish \/ Reopen \/ Ask \/ Return

Spec == Init /\ [][Next]_vars
=============================================================================
