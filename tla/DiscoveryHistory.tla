-------------------------- MODULE DiscoveryHistory --------------------------
(***************************************************************************)
(* Discovery with history variables, which constrain nothing: what happens *)
(* between the two statements of a decision that the code takes with no    *)
(* transaction.  StartManualScan() looks for a running scan and then       *)
(* inserts one; AcceptResult() finds a row and then links it.              *)
(***************************************************************************)
EXTENDS Discovery

VARIABLES
  missed,                \* the scans inserted since each thread looked
  overlapped,            \* pairs of active scans whose starts overlapped
  moved                  \* requests whose row was moved since they found it

historyVars == <<discoveryVars, missed, overlapped, moved>>

ActiveScans == {s \in Scans : scans[s].status \in Active}
Inserted == {s \in Scans : scans[s] = NoScan /\ scans'[s] # NoScan}

\* s is inserted by a thread that looked for running scans before r was inserted.
Misses(s, r) == \E t \in Starters : InsertScan(t, s) /\ r \in missed[t]

Acting(a) == accept[a].at \in {"found", "link"}

\* The columns of the row of a that its result is about.
Place(a) == <<rows[accept[a].row].prefix, rows[accept[a].row].address>>

-----------------------------------------------------------------------------
HistoryInit ==
  /\ DiscoveryInit
  /\ missed = [t \in Starters |-> {}]
  /\ overlapped = {}
  /\ moved = {}

HistoryNext ==
  /\ DiscoveryNext
  /\ missed' = [t \in Starters |->
       IF start[t] = None \/ start'[t] = None THEN {}
       ELSE (missed[t] \cup Inserted) \cap ActiveScans']
  /\ overlapped' = {pair \in SUBSET ActiveScans' :
       \/ pair \in overlapped
       \/ \E s \in Inserted, r \in Scans : Misses(s, r) /\ pair = {s, r}}
  /\ moved' = {a \in Acceptors :
       /\ Acting(a) /\ Acting(a)'
       /\ a \in moved \/ (rows'[accept[a].row] # NoRow /\ Place(a)' # Place(a))}

HistorySpec == HistoryInit /\ [][HistoryNext]_historyVars /\ DiscoveryFairness

-----------------------------------------------------------------------------
(* Properties.                                                             *)

\* StartManualScan() "rejects if another scan is already queued or running for
\* that prefix" (docs/discovery.md): two are queued or running together only if
\* the calls that started them overlapped, however stale the ticker's due list is.
OneScanPerPrefix ==
  \A p \in Prefixes : \A s, r \in GetRunningOrQueuedScansForPrefix(p) :
    s = r \/ {s, r} \in overlapped

\* A result is linked to a row with its address, in its prefix, unless a PUT has
\* moved the row since AcceptResult() found it.
LinkMatches ==
  [][\A a \in Acceptors \ moved :
       LinkResult(a) =>
         Place(a) = <<scans[accept[a].result[1]].prefix, accept[a].result[2]>>]_historyVars
=============================================================================
