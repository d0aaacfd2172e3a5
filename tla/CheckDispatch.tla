--------------------------- MODULE CheckDispatch ---------------------------
(***************************************************************************)
(* What the monitor scheduler promises to the code that runs checks,       *)
(* whatever its queue, its workers and its timing: a monitor is listed as  *)
(* due, a listed monitor is claimed at most once at a time, a claimed      *)
(* monitor is checked by one worker, and only the end of that check makes  *)
(* it claimable again.  MonitorScheduler implements this specification.    *)
(***************************************************************************)
CONSTANT Monitors        \* the rows of the monitors table

VARIABLES
  listed,                \* monitors of the due list still to be handled
  phase                  \* phase[m]: where monitor m is on its way to a check

dispatchVars == <<listed, phase>>

Phases == {"idle", "queued", "running"}

DispatchTypeOK ==
  /\ listed \subseteq Monitors
  /\ phase \in [Monitors -> Phases]

DispatchInit ==
  /\ listed = {}
  /\ phase = [m \in Monitors |-> "idle"]

\* A tick reads a new due list, only once the previous one is used up.
List ==
  /\ listed = {}
  /\ listed' \in SUBSET Monitors
  /\ UNCHANGED phase

\* A listed monitor is passed over: it is still claimed, or there is no room.
PassOver(m) ==
  /\ m \in listed
  /\ listed' = listed \ {m}
  /\ UNCHANGED phase

\* A listed monitor nobody has claimed is put in the queue.
Claim(m) ==
  /\ m \in listed
  /\ phase[m] = "idle"
  /\ listed' = listed \ {m}
  /\ phase' = [phase EXCEPT ![m] = "queued"]

Start(m) ==
  /\ phase[m] = "queued"
  /\ phase' = [phase EXCEPT ![m] = "running"]
  /\ UNCHANGED listed

Finish(m) ==
  /\ phase[m] = "running"
  /\ phase' = [phase EXCEPT ![m] = "idle"]
  /\ UNCHANGED listed

DispatchNext ==
  \/ List
  \/ \E m \in Monitors : PassOver(m) \/ Claim(m) \/ Start(m) \/ Finish(m)

DispatchSpec == DispatchInit /\ [][DispatchNext]_dispatchVars
============================================================================
