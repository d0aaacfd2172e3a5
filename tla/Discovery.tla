----------------------------- MODULE Discovery -----------------------------
(***************************************************************************)
(* Subnet discovery: internal/service/discovery.go over the tables         *)
(* prefixes, ip_addresses, discovery_scans and discovery_results, with the *)
(* IPAM requests that write those tables and the retention job.            *)
(*                                                                         *)
(* A scan is started by a request or by the minute ticker, and runs in a   *)
(* goroutine of its own under a context of 30 minutes.  Every statement    *)
(* may fail; once the context has expired all of them do; a restart ends   *)
(* all goroutines.  One action per statement, the reads of one decision    *)
(* taken together where no other step can tell.                            *)
(*                                                                         *)
(* Abstracted: a host is an address, HostsOf is what EnumerateIPv4Hosts()  *)
(* lists for a prefix, a probe answers or not, ports and names are left    *)
(* out, so "known" stands for "known" and "changed"; the status "assigned" *)
(* stands for the four that stale detection looks at and "reserved" for    *)
(* the others; the number of workers is left out (at most one holds a      *)
(* host, any of them may).                                                 *)
(***************************************************************************)
EXTENDS Naturals

CONSTANTS
  Prefixes,              \* rows of prefixes
  Hosts,                 \* IPv4 addresses
  HostsOf,               \* the hosts of each prefix's range
  Rows,                  \* bound: ids of ip_addresses rows, used again once free
  Scans,                 \* bound: ids of discovery_scans rows, used again once free
  Starters,              \* threads that start scans: the ticker and requests
  Ticker,                \* the ticker's thread
  Acceptors,             \* requests that accept results
  Scopes,                \* bounds: the scan ids and requests of a behaviour
  None                   \* no row, no prefix

Requests == {"scan", "config", "dropPrefix", "newRow", "setStatus", "editRow",
             "deleteRow", "accept", "ignore"}

ASSUME DiscoveryAssumption ==
  /\ HostsOf \in [Prefixes -> SUBSET Hosts]
  /\ Ticker \in Starters
  /\ Scopes \subseteq [ids : SUBSET Scans, requests : SUBSET Requests]
  /\ None \notin Prefixes \cup Rows

\* Each scan writes at most one result of a kind for a host.
Kinds == {"seen", "stale"}
ResultIds == Scans \X Hosts \X Kinds

VARIABLES
  scope,                 \* the bound this behaviour is under; never changes
  prefixes,              \* the prefixes table: scan_enabled, "gone" once deleted
  rows,                  \* the ip_addresses table
  scans,                 \* the discovery_scans table
  results,               \* the discovery_results table
  run,                   \* RunScan() of each scan
  silent,                \* history: hosts a scan has probed to the end in vain
  due,                   \* tickScheduled(): prefixes still to be started
  start,                 \* StartManualScan() of each thread: the prefix checked
  accept                 \* AcceptResult() of each request

discoveryVars == <<scope, prefixes, rows, scans, results, run, silent, due, start, accept>>

Classes == {"new", "known", "stale", "ignored"}
Row == [prefix : Prefixes, address : Hosts, status : {"assigned", "reserved"}]
NoRow == [prefix |-> None, address |-> None, status |-> "none"]
NoScan == [prefix |-> None, status |-> "none", age |-> "recent"]
NoResult == [class |-> "none", link |-> None]
NoRun == [at |-> "none", prefix |-> None, expired |-> FALSE, todo |-> {}, probing |-> {},
          saving |-> {}, seen |-> {}, known |-> {}, live |-> {}]
NoAccept == [at |-> "idle", result |-> None, prefix |-> None, row |-> None]

Active == {"queued", "running"}

Scan == [prefix : Prefixes, status : Active \cup {"completed", "failed"},
         age : {"recent", "elapsed", "old"}]
Result == [class : Classes, link : Rows \cup {None}]
Run == [at : {"none", "queued", "started", "running", "probing", "checking", "failing"},
        prefix : Prefixes \cup {None}, expired : BOOLEAN,
        todo : SUBSET Hosts, probing : SUBSET Hosts, saving : SUBSET Hosts,
        seen : SUBSET Hosts, known : SUBSET Hosts, live : SUBSET Hosts]
Accept == [at : {"idle", "read", "found", "create", "link"}, result : ResultIds \cup {None},
           prefix : Prefixes \cup {None}, row : Rows \cup {None}]

\* Every record is well formed, no result is without its scan, and none is
\* linked to a row that has been deleted.
DiscoveryTypeOK ==
  /\ scope \in Scopes
  /\ prefixes \in [Prefixes -> {"enabled", "disabled", "gone"}]
  /\ rows \in [Rows -> Row \cup {NoRow}]
  /\ scans \in [Scans -> Scan \cup {NoScan}]
  /\ results \in [ResultIds -> Result \cup {NoResult}]
  /\ run \in [Scans -> Run]
  /\ silent \in [Scans -> SUBSET Hosts]
  /\ due \subseteq Prefixes
  /\ start \in [Starters -> Prefixes \cup {None}]
  /\ accept \in [Acceptors -> Accept]
  /\ \A s \in Scans :
       run[s].at \in {"started", "running", "probing", "checking"} => run[s].prefix \in Prefixes
  /\ \A a \in Acceptors :
       /\ accept[a].at # "idle" =>
            accept[a].result \in ResultIds /\ accept[a].prefix \in Prefixes
       /\ accept[a].at \in {"found", "link"} => accept[a].row \in Rows
  /\ \A id \in ResultIds :
       /\ results[id] # NoResult => scans[id[1]] # NoScan
       /\ results[id].link # None => rows[results[id].link] # NoRow

DiscoveryInit ==
  /\ scope \in Scopes
  /\ prefixes = [p \in Prefixes |-> "enabled"]
  /\ rows = [i \in Rows |-> NoRow]
  /\ scans = [s \in Scans |-> NoScan]
  /\ results = [id \in ResultIds |-> NoResult]
  /\ run = [s \in Scans |-> NoRun]
  /\ silent = [s \in Scans |-> {}]
  /\ due = {}
  /\ start = [t \in Starters |-> None]
  /\ accept = [a \in Acceptors |-> NoAccept]

-----------------------------------------------------------------------------
(* Bounds.                                                                 *)

Occurs(request) == request \in scope.requests

\* A UUID is never used twice: an id is free once nothing refers to it.
FreeScan(s) ==
  /\ s \in scope.ids
  /\ scans[s] = NoScan
  /\ run[s] = NoRun
  /\ \A a \in Acceptors : accept[a] # NoAccept => accept[a].result[1] # s

FreeRow(i) ==
  /\ rows[i] = NoRow
  /\ \A a \in Acceptors : accept[a].row # i

-----------------------------------------------------------------------------
(* The statements: internal/db.                                            *)

Stored(p) == prefixes[p] # "gone"

GetRunningOrQueuedScansForPrefix(p) ==
  {s \in Scans : scans[s].prefix = p /\ scans[s].status \in Active}

\* The prefixes the ticker finds due.  EXISTS a completed scan older than the
\* interval, not the latest one.
GetPrefixesForScheduledScans ==
  LET completed(p) == {s \in Scans : scans[s].prefix = p /\ scans[s].status = "completed"}
  IN  {p \in Prefixes :
         /\ prefixes[p] = "enabled"
         /\ GetRunningOrQueuedScansForPrefix(p) = {}
         /\ \/ completed(p) = {}
            \/ \E s \in completed(p) : scans[s].age # "recent"}

\* The foreign key refuses a prefix that has been deleted.
CreateDiscoveryScan(s, p) ==
  /\ FreeScan(s)
  /\ Stored(p)
  /\ scans' = [scans EXCEPT ![s] = [prefix |-> p, status |-> "queued", age |-> "recent"]]

\* Finds no row, and fails, once the scan has been deleted.
UpdateDiscoveryScanStatus(s, status) ==
  /\ scans[s] # NoScan
  /\ scans' = [scans EXCEPT ![s].status = status]

GetIPAddressesByPrefix(p) == {i \in Rows : rows[i].prefix = p}

\* The foreign key refuses a scan that has been deleted.
CreateDiscoveryResult(s, h, kind, class) ==
  /\ scans[s] # NoScan
  /\ results' = [results EXCEPT ![<<s, h, kind>>] = [class |-> class, link |-> None]]

GetDiscoveryResult(id) == results[id] # NoResult

\* ip_addresses.ip_address is UNIQUE over all prefixes.
CreateIPAddress(i, p, h, status) ==
  /\ FreeRow(i)
  /\ Stored(p)
  /\ \A j \in Rows : rows[j].address # h
  /\ rows' = [rows EXCEPT ![i] = [prefix |-> p, address |-> h, status |-> status]]

\* PUT writes all columns, address and prefix too.
UpdateIPAddress(i, p, h, status) ==
  /\ rows[i] # NoRow
  /\ Stored(p)
  /\ \A j \in Rows \ {i} : rows[j].address # h
  /\ rows' = [rows EXCEPT ![i] = [prefix |-> p, address |-> h, status |-> status]]

UpdateIPAddressStatus(i, status) ==
  /\ rows[i] # NoRow
  /\ rows' = [rows EXCEPT ![i].status = status]

\* created_ip_address_id becomes NULL with the row.
DeleteIPAddress(i) ==
  /\ rows[i] # NoRow
  /\ rows' = [rows EXCEPT ![i] = NoRow]
  /\ results' = [id \in ResultIds |->
                   IF results[id].link = i THEN [results[id] EXCEPT !.link = None]
                   ELSE results[id]]

\* The foreign key refuses a row that has been deleted.
UpdateDiscoveryResultAccepted(id, i) ==
  /\ results[id] # NoResult
  /\ rows[i] # NoRow
  /\ results' = [results EXCEPT ![id].link = i]

UpdateDiscoveryResultIgnored(id) ==
  /\ results[id] # NoResult
  /\ results' = [results EXCEPT ![id].class = "ignored"]

\* Mutant: the results of a deleted scan stay.
DeleteScansOnly(gone) ==
  /\ scans' = [s \in Scans |-> IF s \in gone THEN NoScan ELSE scans[s]]
  /\ UNCHANGED results

\* The scans of gone and, by the foreign key, their results.
DeleteScans(gone) ==
  /\ scans' = [s \in Scans |-> IF s \in gone THEN NoScan ELSE scans[s]]
  /\ results' = [id \in ResultIds |-> IF id[1] \in gone THEN NoResult ELSE results[id]]

\* Scans, results and addresses go with the prefix.
DeletePrefix(p) ==
  /\ Stored(p)
  /\ prefixes' = [prefixes EXCEPT ![p] = "gone"]
  /\ rows' = [i \in Rows |-> IF rows[i].prefix = p THEN NoRow ELSE rows[i]]
  /\ LET gone == {s \in Scans : scans[s].prefix = p}
     IN  /\ scans' = [s \in Scans |-> IF s \in gone THEN NoScan ELSE scans[s]]
         /\ results' = [id \in ResultIds |->
              IF id[1] \in gone THEN NoResult
              ELSE IF results[id].link \in GetIPAddressesByPrefix(p)
                   THEN [results[id] EXCEPT !.link = None] ELSE results[id]]

UpdatePrefixScanConfig(p, enabled) ==
  /\ Stored(p)
  /\ prefixes' = [prefixes EXCEPT ![p] = IF enabled THEN "enabled" ELSE "disabled"]

-----------------------------------------------------------------------------
(* Starting a scan.                                                        *)

tables == <<prefixes, rows, scans, results>>
threads == <<run, silent, due, start, accept>>

\* tickScheduled(): the due query; the ticker starts them in turn.
TickScheduled ==
  /\ due = {}
  /\ start[Ticker] = None
  /\ due' = GetPrefixesForScheduledScans
  /\ UNCHANGED <<scope, tables, run, silent, start, accept>>

\* The loop of tickScheduled() comes to p.
TickTakes(t, p) ==
  /\ t = Ticker
  /\ p \in due
  /\ due' = due \ {p}

\* The handlers StartScan() and StartPrefixScan().
StartScan(t) ==
  /\ t # Ticker
  /\ Occurs("scan")
  /\ UNCHANGED due

\* Mutant: the check for a running scan is gone.
CheckScanUnguarded(t, p) ==
  /\ start[t] = None
  /\ TickTakes(t, p) \/ StartScan(t)
  /\ start' = [start EXCEPT ![t] = IF Stored(p) THEN p ELSE None]
  /\ UNCHANGED <<scope, tables, run, silent, accept>>

\* StartManualScan() up to the insert: GetPrefix and the running scans.  A
\* prefix deleted between the two reads fails the insert as well.
CheckScan(t, p) ==
  /\ start[t] = None
  /\ TickTakes(t, p) \/ StartScan(t)
  /\ start' = [start EXCEPT ![t] =
       IF Stored(p) /\ GetRunningOrQueuedScansForPrefix(p) = {} THEN p ELSE None]
  /\ UNCHANGED <<scope, tables, run, silent, accept>>

\* StartManualScan(): the record, and the goroutine.
InsertScan(t, s) ==
  /\ start[t] # None
  /\ CreateDiscoveryScan(s, start[t])
  /\ run' = [run EXCEPT ![s] = [NoRun EXCEPT !.at = "queued"]]
  /\ silent' = [silent EXCEPT ![s] = {}]
  /\ start' = [start EXCEPT ![t] = None]
  /\ UNCHANGED <<scope, prefixes, rows, results, due, accept>>

\* A statement of StartManualScan() fails: no scan is started.
StartFails(t) ==
  /\ start[t] # None
  /\ start' = [start EXCEPT ![t] = None]
  /\ UNCHANGED <<scope, tables, run, silent, due, accept>>

-----------------------------------------------------------------------------
(* RunScan(s).                                                             *)

runVars == <<scope, prefixes, rows, due, start, accept>>

Ends(s) == run' = [run EXCEPT ![s] = NoRun]

\* GetDiscoveryScan and GetPrefix.  Without the scan there is nothing to write.
BeginScan(s) ==
  /\ run[s].at = "queued"
  /\ \/ /\ scans[s] # NoScan /\ ~run[s].expired
        /\ run' = [run EXCEPT ![s].at = "started", ![s].prefix = scans[s].prefix]
     \/ run' = [run EXCEPT ![s].at = "failing"]
     \/ Ends(s)
  /\ UNCHANGED <<runVars, scans, results, silent>>

\* The status "running"; when the statement fails the record stays as it is.
MarkRunning(s) ==
  /\ run[s].at = "started"
  /\ \/ /\ ~run[s].expired
        /\ UpdateDiscoveryScanStatus(s, "running")
        /\ run' = [run EXCEPT ![s].at = "running"]
     \/ Ends(s) /\ UNCHANGED scans
  /\ UNCHANGED <<runVars, results, silent>>

\* EnumerateIPv4Hosts() and the addresses recorded so far: what is in the
\* snapshot stays as it was read for the rest of the scan.
ReadAddresses(s) ==
  /\ run[s].at = "running"
  /\ \/ /\ ~run[s].expired
        /\ LET own == GetIPAddressesByPrefix(run[s].prefix)
           IN  run' = [run EXCEPT ![s] =
                 [@ EXCEPT !.at = "probing", !.todo = HostsOf[run[s].prefix],
                           !.known = {rows[i].address : i \in own},
                           !.live = {rows[i].address : i \in
                                       {j \in own : rows[j].status = "assigned"}}]]
     \/ run' = [run EXCEPT ![s].at = "failing"]
  /\ UNCHANGED <<runVars, scans, results, silent>>

\* A worker takes a host, unless the context has expired.
TakeHost(s, h) ==
  /\ run[s].at = "probing"
  /\ h \in run[s].todo
  /\ run' = [run EXCEPT ![s].todo = @ \ {h},
                        ![s].probing = IF run[s].expired THEN @ ELSE @ \cup {h}]
  /\ UNCHANGED <<runVars, scans, results, silent>>

\* Mutant: a host counts as seen only once its result is saved.
AnswersLate(s, h) ==
  /\ h \in run[s].probing
  /\ run' = [run EXCEPT ![s].probing = @ \ {h}, ![s].saving = @ \cup {h}]
  /\ UNCHANGED <<runVars, scans, results, silent>>

\* The host answers the probe: it is seen, whatever becomes of the result.
Answers(s, h) ==
  /\ h \in run[s].probing
  /\ run' = [run EXCEPT ![s].probing = @ \ {h}, ![s].saving = @ \cup {h},
                        ![s].seen = @ \cup {h}]
  /\ UNCHANGED <<runVars, scans, results, silent>>

\* The probe ends without an answer, or is cut short by the context.
NoAnswer(s, h) ==
  /\ h \in run[s].probing
  /\ run' = [run EXCEPT ![s].probing = @ \ {h}]
  /\ silent' = [silent EXCEPT ![s] = IF run[s].expired THEN @ ELSE @ \cup {h}]
  /\ UNCHANGED <<runVars, scans, results>>

\* persistSeen(): a failure is logged and the scan goes on.
PersistSeen(s, h) ==
  /\ h \in run[s].saving
  /\ run' = [run EXCEPT ![s].saving = @ \ {h}]
  /\ \/ /\ ~run[s].expired
        /\ CreateDiscoveryResult(s, h, "seen", IF h \in run[s].known THEN "known" ELSE "new")
     \/ UNCHANGED results
  /\ UNCHANGED <<runVars, scans, silent>>

\* wg.Wait(): the stale loop has the addresses of the snapshot to go through.
ProbingEnds(s) ==
  /\ run[s].at = "probing"
  /\ run[s].todo = {} /\ run[s].probing = {} /\ run[s].saving = {}
  /\ run' = [run EXCEPT ![s].at = "checking", ![s].todo = run[s].live \ run[s].seen]
  /\ UNCHANGED <<runVars, scans, results, silent>>

\* persistStale(): a failure is logged.
PersistStale(s, h) ==
  /\ run[s].at = "checking"
  /\ h \in run[s].todo
  /\ run' = [run EXCEPT ![s].todo = @ \ {h}]
  /\ \/ ~run[s].expired /\ CreateDiscoveryResult(s, h, "stale", "stale")
     \/ UNCHANGED results
  /\ UNCHANGED <<runVars, scans, silent>>

\* The status "completed"; when the statement fails, as it does in an expired
\* context, the record stays "running".
CompleteScan(s) ==
  /\ run[s].at = "checking"
  /\ run[s].todo = {}
  /\ \/ ~run[s].expired /\ UpdateDiscoveryScanStatus(s, "completed")
     \/ UNCHANGED scans
  /\ Ends(s)
  /\ UNCHANGED <<runVars, results, silent>>

\* Mutant: a scan that failed goes on to its end.
FailAndGoOn(s) ==
  /\ run[s].at = "failing"
  /\ \/ ~run[s].expired /\ UpdateDiscoveryScanStatus(s, "failed")
     \/ UNCHANGED scans
  /\ run' = [run EXCEPT ![s].at = "checking"]
  /\ UNCHANGED <<runVars, results, silent>>

\* failScan(), in the same context as the statement that has failed.
FailScan(s) ==
  /\ run[s].at = "failing"
  /\ \/ ~run[s].expired /\ UpdateDiscoveryScanStatus(s, "failed")
     \/ UNCHANGED scans
  /\ Ends(s)
  /\ UNCHANGED <<runVars, results, silent>>

\* The 30 minutes of the goroutine's context are over.
Expire(s) ==
  /\ run[s].at # "none"
  /\ run' = [run EXCEPT ![s].expired = TRUE]
  /\ UNCHANGED <<runVars, scans, results, silent>>

-----------------------------------------------------------------------------
(* AcceptResult() and the requests on results.                             *)

acceptVars == <<scope, prefixes, scans, run, silent, due, start>>

Returns(a) == accept' = [accept EXCEPT ![a] = NoAccept]

\* GetDiscoveryResult; a result that is linked already returns its row.
AcceptResult(a, id) ==
  /\ Occurs("accept")
  /\ accept[a] = NoAccept
  /\ GetDiscoveryResult(id) /\ results[id].link = None
  /\ accept' = [accept EXCEPT ![a] = [at |-> "read", result |-> id,
                                        prefix |-> scans[id[1]].prefix, row |-> None]]
  /\ UNCHANGED <<acceptVars, rows, results>>

\* Mutant: any row of the prefix will do.
FindAnyAddress(a) ==
  /\ accept[a].at = "read"
  /\ LET match == GetIPAddressesByPrefix(accept[a].prefix)
     IN  \/ \E i \in match : accept' = [accept EXCEPT ![a] = [@ EXCEPT !.at = "found", !.row = i]]
         \/ match = {} /\ accept' = [accept EXCEPT ![a].at = "create"]
  /\ UNCHANGED <<acceptVars, rows, results>>

\* The rows of the result's prefix are searched for its address; a list that
\* cannot be read is taken for one without it.
FindAddress(a) ==
  /\ accept[a].at = "read"
  /\ LET match == {i \in GetIPAddressesByPrefix(accept[a].prefix) :
                     rows[i].address = accept[a].result[2]}
     IN  \/ \E i \in match : accept' = [accept EXCEPT ![a] = [@ EXCEPT !.at = "found", !.row = i]]
         \/ accept' = [accept EXCEPT ![a].at = "create"]
  /\ UNCHANGED <<acceptVars, rows, results>>

\* A new row in the prefix of the result.
CreateAddress(a, i) ==
  /\ accept[a].at = "create"
  /\ CreateIPAddress(i, accept[a].prefix, accept[a].result[2], "assigned")
  /\ accept' = [accept EXCEPT ![a] = [@ EXCEPT !.at = "link", !.row = i]]
  /\ UNCHANGED <<acceptVars, results>>

\* The result is linked to the row that was found or created.
LinkResult(a) ==
  /\ accept[a].at \in {"found", "link"}
  /\ UpdateDiscoveryResultAccepted(accept[a].result, accept[a].row)
  /\ Returns(a)
  /\ UNCHANGED <<acceptVars, rows>>

\* A statement fails: an error response, and a row that was created stays.
AcceptFails(a) ==
  /\ accept[a].at \in {"found", "create", "link"}
  /\ Returns(a)
  /\ UNCHANGED <<acceptVars, rows, results>>

IgnoreResult(id) ==
  /\ Occurs("ignore")
  /\ UpdateDiscoveryResultIgnored(id)
  /\ UNCHANGED <<scope, prefixes, rows, scans, threads>>

-----------------------------------------------------------------------------
(* The IPAM requests, one statement each.                                  *)

NewRow(i) ==
  /\ Occurs("newRow")
  /\ \E p \in Prefixes, h \in Hosts, status \in {"assigned", "reserved"} :
       CreateIPAddress(i, p, h, status)
  /\ UNCHANGED <<scope, prefixes, scans, results, threads>>

SetStatus(i) ==
  /\ Occurs("setStatus")
  /\ \E status \in {"assigned", "reserved"} : UpdateIPAddressStatus(i, status)
  /\ UNCHANGED <<scope, prefixes, scans, results, threads>>

EditRow(i) ==
  /\ Occurs("editRow")
  /\ \E p \in Prefixes, h \in Hosts : UpdateIPAddress(i, p, h, rows[i].status)
  /\ UNCHANGED <<scope, prefixes, scans, results, threads>>

DeleteRow(i) ==
  /\ Occurs("deleteRow")
  /\ DeleteIPAddress(i)
  /\ UNCHANGED <<scope, prefixes, scans, threads>>

SetScanConfig(p) ==
  /\ Occurs("config")
  /\ \E enabled \in BOOLEAN : UpdatePrefixScanConfig(p, enabled)
  /\ UNCHANGED <<scope, rows, scans, results, threads>>

DropPrefix(p) ==
  /\ Occurs("dropPrefix")
  /\ DeletePrefix(p)
  /\ UNCHANGED <<scope, threads>>

-----------------------------------------------------------------------------
(* Time, retention and restarts.                                           *)

\* The prefix's interval is over, and then the retention period, which is at
\* least a day: the goroutine of the scan, 30 minutes and a probe, has ended.
Age(s) ==
  /\ scans[s] # NoScan
  /\ \/ scans[s].age = "recent" /\ scans' = [scans EXCEPT ![s].age = "elapsed"]
     \/ /\ scans[s].age = "elapsed" /\ run[s] = NoRun
        /\ scans' = [scans EXCEPT ![s].age = "old"]
  /\ UNCHANGED <<scope, prefixes, rows, results, threads>>

\* Mutant: only scans that have finished are cleaned up.
CleanupFinishedScans ==
  LET gone == {s \in Scans : scans[s].age = "old" /\ scans[s].status \notin Active}
  IN  /\ gone # {}
      /\ DeleteScans(gone)
      /\ UNCHANGED <<scope, prefixes, rows, threads>>

\* Retention deletes by created_at alone, whatever the status.
CleanupDiscoveryScans ==
  LET gone == {s \in Scans : scans[s].age = "old"}
  IN  /\ gone # {}
      /\ DeleteScans(gone)
      /\ UNCHANGED <<scope, prefixes, rows, threads>>

\* The results, in a statement before that one, by seen_at.
CleanupDiscoveryResults ==
  LET old == {id \in ResultIds : results[id] # NoResult /\ scans[id[1]].age = "old"}
  IN  /\ old # {}
      /\ results' = [id \in ResultIds |-> IF id \in old THEN NoResult ELSE results[id]]
      /\ UNCHANGED <<scope, prefixes, rows, scans, threads>>

\* The server stops anywhere and starts again with the tables as they are.
ServerStops ==
  /\ run' = [s \in Scans |-> NoRun]
  /\ due' = {}
  /\ start' = [t \in Starters |-> None]
  /\ accept' = [a \in Acceptors |-> NoAccept]
  /\ UNCHANGED <<scope, tables, silent>>

-----------------------------------------------------------------------------
RunStep(s) ==
  \/ BeginScan(s) \/ MarkRunning(s) \/ ReadAddresses(s) \/ ProbingEnds(s)
  \/ \E h \in Hosts : TakeHost(s, h) \/ Answers(s, h) \/ NoAnswer(s, h) \/ PersistSeen(s, h)
  \/ \E h \in Hosts : PersistStale(s, h)
  \/ CompleteScan(s) \/ FailScan(s)

StartStep(t) ==
  \/ \E p \in Prefixes : CheckScan(t, p)
  \/ \E s \in Scans : InsertScan(t, s)
  \/ StartFails(t)

AcceptStep(a) ==
  \/ \E id \in ResultIds : AcceptResult(a, id)
  \/ FindAddress(a) \/ LinkResult(a) \/ AcceptFails(a)
  \/ \E i \in Rows : CreateAddress(a, i)

IpamStep ==
  \/ \E i \in Rows : NewRow(i) \/ SetStatus(i) \/ EditRow(i) \/ DeleteRow(i)
  \/ \E p \in Prefixes : SetScanConfig(p) \/ DropPrefix(p)

DiscoveryNext ==
  \/ TickScheduled
  \/ \E t \in Starters : StartStep(t)
  \/ \E s \in Scans : RunStep(s) \/ Expire(s) \/ Age(s)
  \/ \E a \in Acceptors : AcceptStep(a)
  \/ \E id \in ResultIds : IgnoreResult(id)
  \/ IpamStep
  \/ CleanupDiscoveryScans \/ CleanupDiscoveryResults
  \/ ServerStops

\* A goroutine goes on, time passes, and the retention job runs every day
\* (retention.go:28).  Nothing makes a request arrive, a statement succeed or
\* the server stay up.
DiscoveryFairness ==
  /\ \A s \in Scans : WF_discoveryVars(RunStep(s)) /\ WF_discoveryVars(Age(s))
  /\ WF_discoveryVars(CleanupDiscoveryScans)

DiscoverySpec == DiscoveryInit /\ [][DiscoveryNext]_discoveryVars /\ DiscoveryFairness

-----------------------------------------------------------------------------
(* Properties.                                                             *)

\* An address of the prefix's range is reported stale only by a scan that has
\* probed it to the end without an answer: not one that answered and whose
\* result was lost, and not one the scan had no time for.
StaleIsUnseen ==
  \A s \in Scans, h \in Hosts :
    /\ results[<<s, h, "stale">>] # NoResult
    /\ h \in HostsOf[scans[s].prefix]
    => h \in silent[s]

\* The records go queued -> running -> completed or failed, and end once,
\* whatever fails, expires or stops in between.
Lifecycle == INSTANCE ScanLifecycle WITH status <- [s \in Scans |-> scans[s].status]
ImplementsScanLifecycle == Lifecycle!StatusSpec

\* No record keeps its prefix from being scanned for ever: one whose goroutine
\* is gone, with the restart or the context, is at last deleted.
EveryScanEnds ==
  \A s \in Scans : scans[s].status \in Active ~> scans[s].status \notin Active

\* The scheduler picks a prefix when "the latest completed scan finished more
\* than scan_interval_seconds ago" (docs/discovery.md).
DueAfterInterval ==
  [][TickScheduled =>
       \A p \in due', s \in Scans :
         scans[s].prefix = p /\ scans[s].status = "completed" => scans[s].age # "recent"
    ]_discoveryVars
=============================================================================
