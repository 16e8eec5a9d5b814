---------------------------- MODULE JobLifecycle ----------------------------
(***************************************************************************)
(* What a SyncJob row promises to the people who publish, whatever the     *)
(* worker does to keep it: it stays open until the site has all that was   *)
(* asked of it or its attempts are used up, and a user may reopen it in    *)
(* the second case only.  There are no ticks, claims, attempts or faults   *)
(* here; Delivery is shown to implement this module.                       *)
(***************************************************************************)
EXTENDS Naturals

CONSTANTS
    Jobs,     \* the rows that may exist
    Sending   \* those whose organization has a site to send to

VARIABLES
    phase,    \* where a row is
    asked,    \* newest version somebody published into it
    got       \* newest version the site got for it

lifecycleVars == <<phase, asked, got>>

Phases == {"absent", "open", "done", "failed"}

Init ==
    /\ phase = [j \in Jobs |-> "absent"]
    /\ asked = [j \in Jobs |-> 0]
    /\ got = [j \in Jobs |-> 0]

Served(j) == j \in Sending => got[j] >= asked[j]

Move(j, from, to) ==
    /\ phase[j] = from
    /\ phase' = [phase EXCEPT ![j] = to]

\* Only the entry of j changes, and it grows.
Raises(old, new, j) == new = [old EXCEPT ![j] = new[j]] /\ new[j] >= old[j]

\* A publish makes a row, or joins one that exists: one that is done has to
\* have brought what this user saw already.
Ask(j) ==
    /\ Raises(asked, asked', j)
    /\ \/ Move(j, "absent", "open")
       \/ phase[j] \in {"open", "failed"} /\ UNCHANGED phase
       \/ phase[j] = "done" /\ UNCHANGED phase /\ Served(j)'
    /\ UNCHANGED got

Send(j) ==
    /\ phase[j] = "open"
    /\ Raises(got, got', j)
    /\ UNCHANGED <<phase, asked>>

Finish(j) == Move(j, "open", "done") /\ Served(j) /\ UNCHANGED <<asked, got>>

Fail(j) == Move(j, "open", "failed") /\ UNCHANGED <<asked, got>>

Reopen(j) == Move(j, "failed", "open") /\ UNCHANGED <<asked, got>>

Next ==
    \E j \in Jobs :
        Ask(j) \/ Send(j) \/ Finish(j) \/ Fail(j) \/ Reopen(j)

Spec == Init /\ [][Next]_lifecycleVars

=============================================================================
