----------------------------- MODULE ActionGate -----------------------------
(***************************************************************************)
(* The completion gate shared by every Action (pkg/actionphase): what one  *)
(* row of status.workloads records, and when a set of rows may be called   *)
(* Succeeded.                                                              *)
(*                                                                         *)
(* A row keeps the three facts the gate reads.  Of the row's message only  *)
(* its shape matters: "none" is the empty string, "skipped" a message with *)
(* the prefix "skipped:", "text" any other.                                *)
(***************************************************************************)
EXTENDS FiniteSets

Message == {"none", "skipped", "text"}

Row == [ready : BOOLEAN, probeOK : BOOLEAN, msg : Message]

\* The zero value of WorkloadActionStatus: what a workload seen for the
\* first time starts from.
ZeroRow == [ready |-> FALSE, probeOK |-> FALSE, msg |-> "none"]

Skipped(row) == row.msg = "skipped"

\* The rows that still count: reported as skipped means left out of the gate.
Gating(listed, rows) == {w \in listed : ~Skipped(rows[w])}

AllReady(listed, rows) == \A w \in Gating(listed, rows) : rows[w].ready

AllProbed(listed, rows, stateless) ==
    \A w \in Gating(listed, rows) \ stateless : rows[w].probeOK

\* CanSucceed: at least one row that counts, all of them Ready, and every
\* stateful one with its class probe passed.
CanSucceed(listed, rows, stateless) ==
    /\ Gating(listed, rows) # {}
    /\ AllReady(listed, rows)
    /\ AllProbed(listed, rows, stateless)
=============================================================================
