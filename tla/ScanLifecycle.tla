--------------------------- MODULE ScanLifecycle ---------------------------
(***************************************************************************)
(* What docs/discovery.md promises of a scan record: "queued -> running -> *)
(* completed, or -> failed on error".  A record begins queued, ends once,  *)
(* and a record that has ended is never opened again; it may be deleted.   *)
(***************************************************************************)
CONSTANT Scans             \* scan records

VARIABLE status            \* discovery_scans.status, "none" where no record is

InitialStatus == status = [s \in Scans |-> "none"]

\* Where a record may go from each status.
Successors == [none      |-> {"queued"},
               queued    |-> {"running", "failed"},
               running   |-> {"completed", "failed"},
               completed |-> {},
               failed    |-> {}]

Advance(s) ==
  \E next \in Successors[status[s]] : status' = [status EXCEPT ![s] = next]

\* Retention, or the prefix, takes any of the records.
Remove ==
  \E gone \in SUBSET Scans :
    status' = [s \in Scans |-> IF s \in gone THEN "none" ELSE status[s]]

StatusNext == Remove \/ \E s \in Scans : Advance(s)

StatusSpec == InitialStatus /\ [][StatusNext]_status
=============================================================================
