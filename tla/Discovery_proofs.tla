-------------------------- MODULE Discovery_proofs --------------------------
(***************************************************************************)
(* Theorems of Discovery, for any prefixes, hosts, rows, scans, requests   *)
(* and scopes.                                                             *)
(***************************************************************************)
EXTENDS DiscoveryHistory, TLAPS

-----------------------------------------------------------------------------
(* Facts about the data.                                                   *)

\* The records that stand for nothing are well formed where they may be, and
\* differ from those that are there.
LEMMA NothingFacts ==
  /\ NoRun \in Run /\ NoRun.at = "none"
  /\ NoAccept \in Accept /\ NoAccept.at = "idle"
  /\ NoRow \notin Row /\ NoRow.prefix = None
  /\ NoScan \notin Scan /\ NoScan.prefix = None /\ NoScan.status = "none"
  /\ NoResult \notin Result /\ NoResult.link = None
BY DiscoveryAssumption
   DEF NoRun, Run, NoAccept, Accept, NoRow, Row, NoScan, Scan, NoResult, Result, Active, Classes

-----------------------------------------------------------------------------
(* Type correctness, by what a step writes.                                *)

\* A step of the goroutine of s that writes no table but results.
LEMMA RunMoves ==
  ASSUME DiscoveryTypeOK, UNCHANGED <<scope, prefixes, rows, scans, results, due, start, accept>>,
         NEW s \in Scans, NEW r \in Run, run' = [run EXCEPT ![s] = r],
         r.at \in {"started", "running", "probing", "checking"} => r.prefix \in Prefixes,
         NEW quiet \in SUBSET Hosts, silent' = [silent EXCEPT ![s] = quiet]
  PROVE  DiscoveryTypeOK'
BY DEF DiscoveryTypeOK

\* UpdateDiscoveryScanStatus writes a status of a record that is there.
LEMMA StatusType ==
  ASSUME DiscoveryTypeOK, NEW s \in Scans, NEW status \in Active \cup {"completed", "failed"},
         UpdateDiscoveryScanStatus(s, status)
  PROVE  /\ scans' \in [Scans -> Scan \cup {NoScan}]
         /\ \A z \in Scans : scans[z] # NoScan => scans'[z] # NoScan
         /\ \A z \in Scans : scans'[z].prefix = scans[z].prefix
<1>1. scans[s] \in Scan
  BY DEF UpdateDiscoveryScanStatus, DiscoveryTypeOK
<1>2. [scans[s] EXCEPT !.status = status] \in Scan
      /\ [scans[s] EXCEPT !.status = status].prefix = scans[s].prefix
  BY <1>1 DEF Scan
<1> QED
  BY <1>1, <1>2, NothingFacts DEF UpdateDiscoveryScanStatus, DiscoveryTypeOK

\* CreateDiscoveryResult writes a result of a scan that is there.
LEMMA ResultType ==
  ASSUME DiscoveryTypeOK, NEW s \in Scans, NEW h \in Hosts, NEW kind \in Kinds,
         NEW class \in Classes, CreateDiscoveryResult(s, h, kind, class)
  PROVE  /\ results' \in [ResultIds -> Result \cup {NoResult}]
         /\ \A id \in ResultIds :
              /\ id # <<s, h, kind>> => results'[id] = results[id]
              /\ results'[id] # NoResult => scans[id[1]] # NoScan
              /\ results'[id].link # None => results'[id] = results[id]
<1>1. <<s, h, kind>> \in ResultIds /\ <<s, h, kind>>[1] = s
  BY DEF ResultIds
<1>2. [class |-> class, link |-> None] \in Result
  BY DEF Result
<1> QED
  BY <1>1, <1>2 DEF CreateDiscoveryResult, DiscoveryTypeOK

\* A step of the goroutine of s, whatever of scans and results it writes.
LEMMA RunWrites ==
  ASSUME DiscoveryTypeOK, UNCHANGED <<runVars, silent>>,
         NEW s \in Scans, NEW r \in Run, run' = [run EXCEPT ![s] = r],
         r.at \in {"started", "running", "probing", "checking"} => r.prefix \in Prefixes,
         \/ UNCHANGED scans
         \/ \E status \in {"running", "completed", "failed"} : UpdateDiscoveryScanStatus(s, status),
         \/ UNCHANGED results
         \/ /\ UNCHANGED scans
            /\ \E h \in Hosts, kind \in Kinds, class \in Classes :
                 CreateDiscoveryResult(s, h, kind, class)
  PROVE  DiscoveryTypeOK'
<1>1. /\ scans' \in [Scans -> Scan \cup {NoScan}]
      /\ \A z \in Scans : scans[z] # NoScan => scans'[z] # NoScan
  BY StatusType DEF DiscoveryTypeOK, Active
<1>2. /\ results' \in [ResultIds -> Result \cup {NoResult}]
      /\ \A id \in ResultIds :
           /\ results'[id] # NoResult => scans'[id[1]] # NoScan
           /\ results'[id].link # None => results'[id] = results[id]
  <2>1. CASE UNCHANGED results
    <3>1. \A id \in ResultIds : id[1] \in Scans
      BY DEF ResultIds
    <3> QED
      BY <1>1, <2>1, <3>1 DEF DiscoveryTypeOK
  <2>2. CASE results' # results
    BY <2>2, ResultType
  <2> QED
    BY <2>1, <2>2
<1>3. run' \in [Scans -> Run] /\ \A z \in Scans : run'[z] = IF z = s THEN r ELSE run[z]
  BY DEF DiscoveryTypeOK
<1> QED
  BY <1>1, <1>2, <1>3 DEF DiscoveryTypeOK, runVars

LEMMA RunType ==
  ASSUME DiscoveryTypeOK, NEW s \in Scans, RunStep(s) \/ Expire(s)
  PROVE  DiscoveryTypeOK'
<1>1. run[s] \in Run /\ silent \in [Scans -> SUBSET Hosts]
  BY DEF DiscoveryTypeOK
<1>2. ASSUME Ends(s), UNCHANGED <<runVars, silent>>,
             \/ UNCHANGED scans
             \/ \E status \in {"running", "completed", "failed"} : UpdateDiscoveryScanStatus(s, status),
             UNCHANGED results
      PROVE  DiscoveryTypeOK'
  BY <1>2, RunWrites, NothingFacts DEF Ends
<1>3. CASE BeginScan(s)
  <2>1. CASE Ends(s)
    BY <1>2, <1>3, <2>1 DEF BeginScan
  <2>2. CASE scans[s] # NoScan /\ run' = [run EXCEPT ![s].at = "started", ![s].prefix = scans[s].prefix]
    <3>1. scans[s].prefix \in Prefixes
      BY <2>2 DEF DiscoveryTypeOK, Scan
    <3>2. [run[s] EXCEPT !.at = "started", !.prefix = scans[s].prefix] \in Run
          /\ [run[s] EXCEPT !.at = "started", !.prefix = scans[s].prefix].prefix = scans[s].prefix
      BY <1>1, <3>1 DEF Run
    <3> QED
      BY <1>3, <2>2, <3>1, <3>2, RunWrites DEF BeginScan
  <2>3. CASE run' = [run EXCEPT ![s].at = "failing"]
    <3>1. [run[s] EXCEPT !.at = "failing"] \in Run /\ [run[s] EXCEPT !.at = "failing"].at = "failing"
      BY <1>1 DEF Run
    <3> QED
      BY <1>3, <2>3, <3>1, RunWrites DEF BeginScan
  <2> QED
    BY <1>3, <2>1, <2>2, <2>3 DEF BeginScan
<1>4. CASE MarkRunning(s)
  <2>1. CASE Ends(s)
    BY <1>2, <1>4, <2>1 DEF MarkRunning
  <2>2. CASE UpdateDiscoveryScanStatus(s, "running") /\ run' = [run EXCEPT ![s].at = "running"]
    <3>1. [run[s] EXCEPT !.at = "running"] \in Run
          /\ [run[s] EXCEPT !.at = "running"].prefix = run[s].prefix
      BY <1>1 DEF Run
    <3>2. run[s].prefix \in Prefixes
      BY <1>4 DEF MarkRunning, DiscoveryTypeOK
    <3> QED
      BY <1>4, <2>2, <3>1, <3>2, RunWrites DEF MarkRunning
  <2> QED
    BY <1>4, <2>1, <2>2 DEF MarkRunning
<1>5. CASE ReadAddresses(s)
  <2>1. run[s].prefix \in Prefixes
    BY <1>5 DEF ReadAddresses, DiscoveryTypeOK
  <2>2. CASE run' = [run EXCEPT ![s].at = "failing"]
    <3>1. [run[s] EXCEPT !.at = "failing"] \in Run /\ [run[s] EXCEPT !.at = "failing"].at = "failing"
      BY <1>1 DEF Run
    <3> QED
      BY <1>5, <2>2, <3>1, RunWrites DEF ReadAddresses
  <2>3. CASE run' # [run EXCEPT ![s].at = "failing"]
    <3> DEFINE own == GetIPAddressesByPrefix(run[s].prefix)
               known == {rows[i].address : i \in own}
               live == {rows[i].address : i \in {j \in own : rows[j].status = "assigned"}}
               r == [run[s] EXCEPT !.at = "probing", !.todo = HostsOf[run[s].prefix],
                                   !.known = known, !.live = live]
    <3>1. HostsOf[run[s].prefix] \subseteq Hosts
      BY <2>1, DiscoveryAssumption
    <3>2. \A i \in own : rows[i].address \in Hosts
      BY <2>1, NothingFacts, DiscoveryAssumption DEF GetIPAddressesByPrefix, DiscoveryTypeOK, Row
    <3>3. known \in SUBSET Hosts /\ live \in SUBSET Hosts
      BY <3>2
    <3>4. run' = [run EXCEPT ![s] = r]
      BY <1>5, <2>3 DEF ReadAddresses
    <3> HIDE DEF known, live
    <3>5. r \in Run /\ r.prefix = run[s].prefix
      BY <1>1, <3>1, <3>3 DEF Run
    <3> HIDE DEF r
    <3> QED
      BY <1>5, <2>1, <3>4, <3>5, RunWrites DEF ReadAddresses
  <2> QED
    BY <2>2, <2>3
<1>6. ASSUME NEW r \in Run, run' = [run EXCEPT ![s] = r], r.at = run[s].at, r.prefix = run[s].prefix,
             UNCHANGED <<runVars, scans, silent>>,
             \/ UNCHANGED results
             \/ \E h \in Hosts, kind \in Kinds, class \in Classes :
                  CreateDiscoveryResult(s, h, kind, class)
      PROVE  DiscoveryTypeOK'
  <2>1. r.at \in {"started", "running", "probing", "checking"} => r.prefix \in Prefixes
    BY <1>6 DEF DiscoveryTypeOK
  <2> QED
    BY <1>6, <2>1, RunWrites
<1>7. ASSUME NEW h \in Hosts, TakeHost(s, h)
      PROVE  DiscoveryTypeOK'
  <2> DEFINE r == [run[s] EXCEPT !.todo = @ \ {h},
                                 !.probing = IF run[s].expired THEN @ ELSE @ \cup {h}]
  <2>1. r \in Run /\ r.at = run[s].at /\ r.prefix = run[s].prefix
    BY <1>1 DEF Run
  <2>2. run' = [run EXCEPT ![s] = r] /\ UNCHANGED <<runVars, scans, results, silent>>
    BY <1>7 DEF TakeHost
  <2> HIDE DEF r
  <2> QED
    BY <1>6, <2>1, <2>2
<1>8. ASSUME NEW h \in Hosts, Answers(s, h)
      PROVE  DiscoveryTypeOK'
  <2> DEFINE r == [run[s] EXCEPT !.probing = @ \ {h}, !.saving = @ \cup {h}, !.seen = @ \cup {h}]
  <2>1. r \in Run /\ r.at = run[s].at /\ r.prefix = run[s].prefix
    BY <1>1 DEF Run
  <2>2. run' = [run EXCEPT ![s] = r] /\ UNCHANGED <<runVars, scans, results, silent>>
    BY <1>8 DEF Answers
  <2> HIDE DEF r
  <2> QED
    BY <1>6, <2>1, <2>2
<1>9. ASSUME NEW h \in Hosts, NoAnswer(s, h)
      PROVE  DiscoveryTypeOK'
  <2> DEFINE r == [run[s] EXCEPT !.probing = @ \ {h}]
             quiet == IF run[s].expired THEN silent[s] ELSE silent[s] \cup {h}
  <2>1. r \in Run /\ r.at = run[s].at /\ r.prefix = run[s].prefix
    BY <1>1 DEF Run
  <2>2. /\ run' = [run EXCEPT ![s] = r] /\ silent' = [silent EXCEPT ![s] = quiet]
        /\ UNCHANGED <<runVars, scans, results>>
    BY <1>9 DEF NoAnswer
  <2>3. quiet \in SUBSET Hosts
    BY <1>1
  <2>4. r.at \in {"started", "running", "probing", "checking"} => r.prefix \in Prefixes
    BY <2>1 DEF DiscoveryTypeOK
  <2> HIDE DEF r, quiet
  <2> QED
    BY <2>1, <2>2, <2>3, <2>4, RunMoves DEF runVars
<1>10. ASSUME NEW h \in Hosts, PersistSeen(s, h)
       PROVE  DiscoveryTypeOK'
  <2> DEFINE r == [run[s] EXCEPT !.saving = @ \ {h}]
             class == IF h \in run[s].known THEN "known" ELSE "new"
  <2>1. r \in Run /\ r.at = run[s].at /\ r.prefix = run[s].prefix
    BY <1>1 DEF Run
  <2>2. /\ run' = [run EXCEPT ![s] = r] /\ UNCHANGED <<runVars, scans, silent>>
        /\ CreateDiscoveryResult(s, h, "seen", class) \/ UNCHANGED results
    BY <1>10 DEF PersistSeen
  <2>3. class \in Classes /\ "seen" \in Kinds
    BY DEF Classes, Kinds
  <2> HIDE DEF r, class
  <2> QED
    BY <1>6, <2>1, <2>2, <2>3
<1>11. CASE ProbingEnds(s)
  <2> DEFINE r == [run[s] EXCEPT !.at = "checking", !.todo = run[s].live \ run[s].seen]
  <2>1. r \in Run /\ r.prefix = run[s].prefix
    BY <1>1 DEF Run
  <2>2. run' = [run EXCEPT ![s] = r] /\ UNCHANGED <<runVars, scans, results, silent>>
    BY <1>11 DEF ProbingEnds
  <2>3. run[s].prefix \in Prefixes
    BY <1>11 DEF ProbingEnds, DiscoveryTypeOK
  <2> HIDE DEF r
  <2> QED
    BY <2>1, <2>2, <2>3, RunWrites
<1>12. ASSUME NEW h \in Hosts, PersistStale(s, h)
       PROVE  DiscoveryTypeOK'
  <2> DEFINE r == [run[s] EXCEPT !.todo = @ \ {h}]
  <2>1. r \in Run /\ r.at = run[s].at /\ r.prefix = run[s].prefix
    BY <1>1 DEF Run
  <2>2. /\ run' = [run EXCEPT ![s] = r] /\ UNCHANGED <<runVars, scans, silent>>
        /\ CreateDiscoveryResult(s, h, "stale", "stale") \/ UNCHANGED results
    BY <1>12 DEF PersistStale
  <2>3. "stale" \in Classes /\ "stale" \in Kinds
    BY DEF Classes, Kinds
  <2> HIDE DEF r
  <2> QED
    BY <1>6, <2>1, <2>2, <2>3
<1>13. CASE CompleteScan(s) \/ FailScan(s)
  BY <1>2, <1>13 DEF CompleteScan, FailScan
<1>14. CASE Expire(s)
  <2> DEFINE r == [run[s] EXCEPT !.expired = TRUE]
  <2>1. r \in Run /\ r.at = run[s].at /\ r.prefix = run[s].prefix
    BY <1>1 DEF Run
  <2>2. run' = [run EXCEPT ![s] = r] /\ UNCHANGED <<runVars, scans, results, silent>>
    BY <1>14 DEF Expire
  <2> HIDE DEF r
  <2> QED
    BY <1>6, <2>1, <2>2
<1> QED
  BY <1>3, <1>4, <1>5, <1>7, <1>8, <1>9, <1>10, <1>11, <1>12, <1>13, <1>14 DEF RunStep

\* Starting a scan.
LEMMA StartType ==
  ASSUME DiscoveryTypeOK, TickScheduled \/ \E t \in Starters : StartStep(t)
  PROVE  DiscoveryTypeOK'
<1>1. CASE TickScheduled
  <2>1. GetPrefixesForScheduledScans \subseteq Prefixes
    BY DEF GetPrefixesForScheduledScans
  <2> QED
    BY <1>1, <2>1 DEF TickScheduled, DiscoveryTypeOK, tables
<1>2. ASSUME NEW t \in Starters, NEW p \in Prefixes, CheckScan(t, p)
      PROVE  DiscoveryTypeOK'
  <2>1. due' \subseteq Prefixes
    BY <1>2 DEF CheckScan, TickTakes, StartScan, DiscoveryTypeOK
  <2> QED
    BY <1>2, <2>1 DEF CheckScan, DiscoveryTypeOK, tables
<1>3. ASSUME NEW t \in Starters, NEW s \in Scans, InsertScan(t, s)
      PROVE  DiscoveryTypeOK'
  <2> DEFINE row == [prefix |-> start[t], status |-> "queued", age |-> "recent"]
             r == [NoRun EXCEPT !.at = "queued"]
  <2>1. start[t] \in Prefixes
    BY <1>3 DEF InsertScan, DiscoveryTypeOK
  <2>2. row \in Scan /\ row # NoScan
    BY <2>1, NothingFacts DEF Scan, Active
  <2>3. r \in Run /\ r.at = "queued"
    BY NothingFacts DEF Run, NoRun
  <2>4. /\ scans' = [scans EXCEPT ![s] = row] /\ run' = [run EXCEPT ![s] = r]
        /\ silent' = [silent EXCEPT ![s] = {}] /\ start' = [start EXCEPT ![t] = None]
        /\ UNCHANGED <<scope, prefixes, rows, results, due, accept>>
    BY <1>3 DEF InsertScan, CreateDiscoveryScan
  <2> HIDE DEF row, r
  <2>5. /\ scans' \in [Scans -> Scan \cup {NoScan}] /\ run' \in [Scans -> Run]
        /\ \A z \in Scans : scans[z] # NoScan => scans'[z] # NoScan
        /\ \A z \in Scans : run'[z].at \in {"started", "running", "probing", "checking"} =>
             run'[z].prefix \in Prefixes
    BY <2>2, <2>3, <2>4 DEF DiscoveryTypeOK
  <2>6. \A id \in ResultIds : id[1] \in Scans
    BY DEF ResultIds
  <2> QED
    BY <2>4, <2>5, <2>6 DEF DiscoveryTypeOK
<1>4. ASSUME NEW t \in Starters, StartFails(t)
      PROVE  DiscoveryTypeOK'
  BY <1>4 DEF StartFails, DiscoveryTypeOK, tables
<1> QED
  BY <1>1, <1>2, <1>3, <1>4 DEF StartStep

\* CreateIPAddress and UpdateIPAddress write a row that is there, or is now.
LEMMA AddressType ==
  ASSUME DiscoveryTypeOK, NEW i \in Rows, NEW p \in Prefixes, NEW h \in Hosts,
         NEW status \in {"assigned", "reserved"},
         rows' = [rows EXCEPT ![i] = [prefix |-> p, address |-> h, status |-> status]]
  PROVE  /\ rows' \in [Rows -> Row \cup {NoRow}]
         /\ \A j \in Rows : rows[j] # NoRow => rows'[j] # NoRow
<1>1. [prefix |-> p, address |-> h, status |-> status] \in Row
  BY DEF Row
<1> QED
  BY <1>1, NothingFacts DEF DiscoveryTypeOK

\* Accepting a result.
LEMMA AcceptType ==
  ASSUME DiscoveryTypeOK, NEW a \in Acceptors, AcceptStep(a)
  PROVE  DiscoveryTypeOK'
<1>1. accept[a] \in Accept
  BY DEF DiscoveryTypeOK
<1>2. ASSUME UNCHANGED <<acceptVars, rows, results>>, NEW x \in Accept,
             accept' = [accept EXCEPT ![a] = x],
             x.at # "idle" => x.result \in ResultIds /\ x.prefix \in Prefixes,
             x.at \in {"found", "link"} => x.row \in Rows
      PROVE  DiscoveryTypeOK'
  BY <1>2 DEF DiscoveryTypeOK, acceptVars
<1>3. ASSUME NEW id \in ResultIds, AcceptResult(a, id)
      PROVE  DiscoveryTypeOK'
  <2> DEFINE x == [at |-> "read", result |-> id, prefix |-> scans[id[1]].prefix, row |-> None]
  <2>1. id[1] \in Scans /\ scans[id[1]] # NoScan
    BY <1>3 DEF AcceptResult, GetDiscoveryResult, DiscoveryTypeOK, ResultIds
  <2>2. scans[id[1]].prefix \in Prefixes
    BY <2>1 DEF DiscoveryTypeOK, Scan
  <2>3. x \in Accept
    BY <2>2 DEF Accept
  <2> QED
    BY <1>2, <1>3, <2>2, <2>3 DEF AcceptResult
<1>4. CASE FindAddress(a)
  <2>1. accept[a].result \in ResultIds /\ accept[a].prefix \in Prefixes
    BY <1>4 DEF FindAddress, DiscoveryTypeOK
  <2>2. CASE accept' = [accept EXCEPT ![a].at = "create"]
    <3> DEFINE x == [accept[a] EXCEPT !.at = "create"]
    <3>1. x \in Accept /\ x.at = "create" /\ x.result = accept[a].result /\ x.prefix = accept[a].prefix
      BY <1>1 DEF Accept
    <3> HIDE DEF x
    <3>2. accept' = [accept EXCEPT ![a] = x]
      BY <2>2 DEF x
    <3> QED
      BY <1>2, <1>4, <2>1, <3>1, <3>2 DEF FindAddress
  <2>3. CASE \E i \in Rows : accept' = [accept EXCEPT ![a] = [@ EXCEPT !.at = "found", !.row = i]]
    <3>1. PICK i \in Rows : accept' = [accept EXCEPT ![a] = [@ EXCEPT !.at = "found", !.row = i]]
      BY <2>3
    <3> DEFINE x == [accept[a] EXCEPT !.at = "found", !.row = i]
    <3>2. /\ x \in Accept /\ x.row = i
          /\ x.result = accept[a].result /\ x.prefix = accept[a].prefix
      BY <1>1 DEF Accept
    <3>3. accept' = [accept EXCEPT ![a] = x]
      BY <3>1
    <3> HIDE DEF x
    <3> QED
      BY <1>2, <1>4, <2>1, <3>2, <3>3 DEF FindAddress
  <2> QED
    BY <1>4, <2>2, <2>3 DEF FindAddress, GetIPAddressesByPrefix
<1>5. ASSUME NEW i \in Rows, CreateAddress(a, i)
      PROVE  DiscoveryTypeOK'
  <2> DEFINE x == [accept[a] EXCEPT !.at = "link", !.row = i]
  <2>1. accept[a].result \in ResultIds /\ accept[a].prefix \in Prefixes
    BY <1>5 DEF CreateAddress, DiscoveryTypeOK
  <2>2. accept[a].result[2] \in Hosts
    BY <2>1 DEF ResultIds
  <2>3. /\ rows' \in [Rows -> Row \cup {NoRow}]
        /\ \A j \in Rows : rows[j] # NoRow => rows'[j] # NoRow
    BY <1>5, <2>1, <2>2, AddressType DEF CreateAddress, CreateIPAddress
  <2>4. x \in Accept /\ x.row = i /\ x.result = accept[a].result /\ x.prefix = accept[a].prefix
    BY <1>1 DEF Accept
  <2>5. accept' = [accept EXCEPT ![a] = x] /\ UNCHANGED <<acceptVars, results>>
    BY <1>5 DEF CreateAddress
  <2> HIDE DEF x
  <2>6. \A id \in ResultIds : results[id].link # None => rows'[results[id].link] # NoRow
    <3>1. \A id \in ResultIds : results[id].link \in Rows \cup {None}
      BY NothingFacts DEF DiscoveryTypeOK, Result
    <3> QED
      BY <2>3, <3>1 DEF DiscoveryTypeOK
  <2> QED
    BY <2>1, <2>3, <2>4, <2>5, <2>6 DEF DiscoveryTypeOK, acceptVars
<1>6. CASE LinkResult(a)
  <2>1. accept[a].result \in ResultIds /\ accept[a].row \in Rows
    BY <1>6 DEF LinkResult, DiscoveryTypeOK
  <2> DEFINE id == accept[a].result
             e == [results[id] EXCEPT !.link = accept[a].row]
  <2>2. results[id] \in Result /\ rows[accept[a].row] # NoRow
        /\ results' = [results EXCEPT ![id] = e]
    BY <1>6, <2>1 DEF LinkResult, UpdateDiscoveryResultAccepted, DiscoveryTypeOK
  <2>3. e \in Result /\ e.link = accept[a].row
    BY <2>1, <2>2 DEF Result
  <2>4. accept' = [accept EXCEPT ![a] = NoAccept] /\ UNCHANGED <<acceptVars, rows>>
    BY <1>6 DEF LinkResult, Returns
  <2>5. results[id] # NoResult
    BY <2>2, NothingFacts
  <2> HIDE DEF e, id
  <2> QED
    BY <2>1, <2>2, <2>3, <2>4, <2>5, NothingFacts DEF DiscoveryTypeOK, acceptVars, id
<1>7. CASE AcceptFails(a)
  BY <1>2, <1>7, NothingFacts DEF AcceptFails, Returns
<1> QED
  BY <1>3, <1>4, <1>5, <1>6, <1>7 DEF AcceptStep

\* A statement that deletes rows, or edits what is there, and the results with
\* what they are linked to.
LEMMA TablesType ==
  ASSUME DiscoveryTypeOK, UNCHANGED <<scope, threads>>,
         prefixes' \in [Prefixes -> {"enabled", "disabled", "gone"}],
         rows' \in [Rows -> Row \cup {NoRow}],
         scans' \in [Scans -> Scan \cup {NoScan}],
         results' \in [ResultIds -> Result \cup {NoResult}],
         \A id \in ResultIds :
           /\ results'[id] # NoResult => scans'[id[1]] # NoScan
           /\ results'[id].link # None => rows'[results'[id].link] # NoRow
  PROVE  DiscoveryTypeOK'
BY DEF DiscoveryTypeOK, threads

LEMMA ResultFacts ==
  ASSUME DiscoveryTypeOK
  PROVE  \A id \in ResultIds :
           /\ id[1] \in Scans
           /\ results[id] \in Result \cup {NoResult}
           /\ results[id].link \in Rows \cup {None}
           /\ [results[id] EXCEPT !.link = None].link = None
           /\ results[id].link # None =>
                results[id] \in Result /\ [results[id] EXCEPT !.link = None] \in Result
<1>1. \A id \in ResultIds : id[1] \in Scans
  BY DEF ResultIds
<1>2. ASSUME NEW e \in Result
      PROVE  /\ e.link \in Rows \cup {None}
             /\ [e EXCEPT !.link = None] \in Result
             /\ [e EXCEPT !.link = None].link = None
  BY DEF Result
<1>3. [NoResult EXCEPT !.link = None].link = None /\ NoResult.link = None
  BY DEF NoResult
<1> QED
  BY <1>1, <1>2, <1>3 DEF DiscoveryTypeOK

\* The requests on results and addresses.
LEMMA IpamType ==
  ASSUME DiscoveryTypeOK, IpamStep \/ \E id \in ResultIds : IgnoreResult(id)
  PROVE  DiscoveryTypeOK'
<1> DEFINE Unlinked(gone) ==
             [id \in ResultIds |-> IF results[id].link \in gone
                                   THEN [results[id] EXCEPT !.link = None] ELSE results[id]]
<1>1. ASSUME NEW id \in ResultIds, IgnoreResult(id)
      PROVE  DiscoveryTypeOK'
  <2> DEFINE e == [results[id] EXCEPT !.class = "ignored"]
  <2>1. results[id] \in Result /\ results[id] # NoResult /\ results' = [results EXCEPT ![id] = e]
    BY <1>1 DEF IgnoreResult, UpdateDiscoveryResultIgnored, DiscoveryTypeOK
  <2>2. e \in Result /\ e.link = results[id].link
    BY <2>1 DEF Result, Classes
  <2>3. UNCHANGED <<scope, prefixes, rows, scans, threads>>
    BY <1>1 DEF IgnoreResult
  <2> HIDE DEF e
  <2> QED
    BY <2>1, <2>2, <2>3, TablesType DEF DiscoveryTypeOK
<1>2. ASSUME UNCHANGED <<scope, prefixes, scans, results, threads>>,
             rows' \in [Rows -> Row \cup {NoRow}],
             \A j \in Rows : rows[j] # NoRow => rows'[j] # NoRow
      PROVE  DiscoveryTypeOK'
  BY <1>2, ResultFacts, TablesType DEF DiscoveryTypeOK
<1>3. ASSUME NEW i \in Rows, NewRow(i)
      PROVE  DiscoveryTypeOK'
  <2>1. PICK p \in Prefixes, h \in Hosts, status \in {"assigned", "reserved"} :
          rows' = [rows EXCEPT ![i] = [prefix |-> p, address |-> h, status |-> status]]
    BY <1>3 DEF NewRow, CreateIPAddress
  <2> QED
    BY <1>2, <1>3, <2>1, AddressType DEF NewRow
<1>4. ASSUME NEW i \in Rows, SetStatus(i)
      PROVE  DiscoveryTypeOK'
  <2>1. PICK status \in {"assigned", "reserved"} :
          rows[i] # NoRow /\ rows' = [rows EXCEPT ![i].status = status]
    BY <1>4 DEF SetStatus, UpdateIPAddressStatus
  <2>2. rows[i] \in Row
    BY <2>1 DEF DiscoveryTypeOK
  <2>3. [rows[i] EXCEPT !.status = status] \in Row
    BY <2>2 DEF Row
  <2> QED
    BY <1>2, <1>4, <2>1, <2>3, NothingFacts DEF SetStatus, DiscoveryTypeOK
<1>5. ASSUME NEW i \in Rows, EditRow(i)
      PROVE  DiscoveryTypeOK'
  <2>1. PICK p \in Prefixes, h \in Hosts : UpdateIPAddress(i, p, h, rows[i].status)
    BY <1>5 DEF EditRow
  <2>2. rows[i].status \in {"assigned", "reserved"}
    BY <2>1 DEF UpdateIPAddress, DiscoveryTypeOK, Row
  <2> QED
    BY <1>2, <1>5, <2>1, <2>2, AddressType DEF EditRow, UpdateIPAddress
<1>6. ASSUME NEW i \in Rows, DeleteRow(i)
      PROVE  DiscoveryTypeOK'
  <2>1. /\ rows' = [rows EXCEPT ![i] = NoRow]
        /\ results' = [id \in ResultIds |->
             IF results[id].link = i THEN [results[id] EXCEPT !.link = None] ELSE results[id]]
        /\ UNCHANGED <<scope, prefixes, scans, threads>>
    BY <1>6 DEF DeleteRow, DeleteIPAddress
  <2>2. rows' \in [Rows -> Row \cup {NoRow}]
    BY <2>1 DEF DiscoveryTypeOK
  <2>3. results' \in [ResultIds -> Result \cup {NoResult}]
    BY <2>1, ResultFacts, NothingFacts, DiscoveryAssumption
  <2>4. ASSUME NEW id \in ResultIds
        PROVE  /\ results'[id] # NoResult => scans'[id[1]] # NoScan
               /\ results'[id].link # None => rows'[results'[id].link] # NoRow
    <3>1. CASE results[id].link = i
      BY <2>1, <3>1, ResultFacts, NothingFacts, DiscoveryAssumption DEF DiscoveryTypeOK
    <3>2. CASE results[id].link # i
      BY <2>1, <3>2, ResultFacts DEF DiscoveryTypeOK
    <3> QED
      BY <3>1, <3>2
  <2> QED
    BY <2>1, <2>2, <2>3, <2>4, TablesType DEF DiscoveryTypeOK
<1>7. ASSUME NEW p \in Prefixes, SetScanConfig(p)
      PROVE  DiscoveryTypeOK'
  <2>1. prefixes' \in [Prefixes -> {"enabled", "disabled", "gone"}]
    BY <1>7 DEF SetScanConfig, UpdatePrefixScanConfig, DiscoveryTypeOK
  <2> QED
    BY <1>7, <2>1, TablesType DEF SetScanConfig, DiscoveryTypeOK
<1>8. ASSUME NEW p \in Prefixes, DropPrefix(p)
      PROVE  DiscoveryTypeOK'
  <2> DEFINE own == GetIPAddressesByPrefix(p)
             gone == {s \in Scans : scans[s].prefix = p}
  <2>1. /\ prefixes' = [prefixes EXCEPT ![p] = "gone"]
        /\ rows' = [i \in Rows |-> IF rows[i].prefix = p THEN NoRow ELSE rows[i]]
        /\ scans' = [s \in Scans |-> IF s \in gone THEN NoScan ELSE scans[s]]
        /\ results' = [id \in ResultIds |->
             IF id[1] \in gone THEN NoResult
             ELSE IF results[id].link \in own
                  THEN [results[id] EXCEPT !.link = None] ELSE results[id]]
        /\ UNCHANGED <<scope, threads>>
    BY <1>8 DEF DropPrefix, DeletePrefix
  <2>2. own \subseteq Rows /\ \A i \in Rows : rows[i].prefix = p <=> i \in own
    BY DEF GetIPAddressesByPrefix
  <2> HIDE DEF own, gone
  <2>3. /\ prefixes' \in [Prefixes -> {"enabled", "disabled", "gone"}]
        /\ rows' \in [Rows -> Row \cup {NoRow}]
        /\ scans' \in [Scans -> Scan \cup {NoScan}]
    BY <2>1 DEF DiscoveryTypeOK
  <2>4. results' \in [ResultIds -> Result \cup {NoResult}]
    BY <2>1, <2>2, ResultFacts, DiscoveryAssumption
  <2>5. ASSUME NEW id \in ResultIds
        PROVE  /\ results'[id] # NoResult => scans'[id[1]] # NoScan
               /\ results'[id].link # None => rows'[results'[id].link] # NoRow
    <3>1. CASE id[1] \in gone
      BY <2>1, <3>1, NothingFacts
    <3>2. CASE id[1] \notin gone /\ results[id].link \in own
      BY <2>1, <2>2, <3>2, ResultFacts, NothingFacts, DiscoveryAssumption DEF DiscoveryTypeOK
    <3>3. CASE id[1] \notin gone /\ results[id].link \notin own
      BY <2>1, <2>2, <3>3, ResultFacts DEF DiscoveryTypeOK
    <3> QED
      BY <3>1, <3>2, <3>3
  <2> QED
    BY <2>1, <2>3, <2>4, <2>5, TablesType
<1> QED
  BY <1>1, <1>3, <1>4, <1>5, <1>6, <1>7, <1>8 DEF IpamStep

\* Time, retention and restarts.
LEMMA TimeType ==
  ASSUME DiscoveryTypeOK,
         (\E s \in Scans : Age(s)) \/ CleanupDiscoveryScans \/ CleanupDiscoveryResults \/ ServerStops
  PROVE  DiscoveryTypeOK'
<1>1. ASSUME NEW s \in Scans, Age(s)
      PROVE  DiscoveryTypeOK'
  <2>1. PICK age \in {"elapsed", "old"} : scans' = [scans EXCEPT ![s].age = age]
    BY <1>1 DEF Age
  <2>2. scans[s] \in Scan
    BY <1>1 DEF Age, DiscoveryTypeOK
  <2>3. [scans[s] EXCEPT !.age = age] \in Scan
    BY <2>2 DEF Scan
  <2>4. /\ scans' \in [Scans -> Scan \cup {NoScan}]
        /\ \A z \in Scans : scans[z] # NoScan => scans'[z] # NoScan
    BY <2>1, <2>3, NothingFacts DEF DiscoveryTypeOK
  <2> QED
    BY <1>1, <2>4, ResultFacts, TablesType DEF Age, DiscoveryTypeOK
<1>2. CASE CleanupDiscoveryScans
  <2> DEFINE gone == {s \in Scans : scans[s].age = "old"}
  <2>1. /\ scans' = [s \in Scans |-> IF s \in gone THEN NoScan ELSE scans[s]]
        /\ results' = [id \in ResultIds |-> IF id[1] \in gone THEN NoResult ELSE results[id]]
        /\ UNCHANGED <<scope, prefixes, rows, threads>>
    BY <1>2 DEF CleanupDiscoveryScans, DeleteScans
  <2> HIDE DEF gone
  <2>2. /\ scans' \in [Scans -> Scan \cup {NoScan}]
        /\ results' \in [ResultIds -> Result \cup {NoResult}]
    BY <2>1 DEF DiscoveryTypeOK
  <2> QED
    BY <2>1, <2>2, ResultFacts, NothingFacts, TablesType DEF DiscoveryTypeOK
<1>3. CASE CleanupDiscoveryResults
  <2>1. PICK old : results' = [id \in ResultIds |-> IF id \in old THEN NoResult ELSE results[id]]
    BY <1>3 DEF CleanupDiscoveryResults
  <2>2. results' \in [ResultIds -> Result \cup {NoResult}]
    BY <2>1 DEF DiscoveryTypeOK
  <2>3. UNCHANGED <<scope, prefixes, rows, scans, threads>>
    BY <1>3 DEF CleanupDiscoveryResults
  <2> QED
    BY <2>1, <2>2, <2>3, NothingFacts, TablesType DEF DiscoveryTypeOK
<1>4. CASE ServerStops
  BY <1>4, NothingFacts DEF ServerStops, DiscoveryTypeOK, tables
<1> QED
  BY <1>1, <1>2, <1>3, <1>4

\* Tables and goroutines stay well formed: no result outlives its scan, and
\* none stays linked to an address that has been deleted.
THEOREM DiscoveryTypeCorrect == DiscoverySpec => []DiscoveryTypeOK
<1>1. DiscoveryInit => DiscoveryTypeOK
  BY NothingFacts DEF DiscoveryInit, DiscoveryTypeOK
<1>2. DiscoveryTypeOK /\ [DiscoveryNext]_discoveryVars => DiscoveryTypeOK'
  <2> SUFFICES ASSUME DiscoveryTypeOK, DiscoveryNext \/ UNCHANGED discoveryVars
               PROVE  DiscoveryTypeOK'
    OBVIOUS
  <2>1. CASE UNCHANGED discoveryVars
    BY <2>1 DEF discoveryVars, DiscoveryTypeOK
  <2>2. CASE DiscoveryNext
    BY <2>2, RunType, StartType, AcceptType, IpamType, TimeType DEF DiscoveryNext
  <2> QED
    BY <2>1, <2>2
<1> QED
  BY <1>1, <1>2, PTL DEF DiscoverySpec

-----------------------------------------------------------------------------
(* Stale results.                                                          *)

\* What the goroutine of s has done with the hosts of its prefix's range, as
\* long as its context has not expired: none is forgotten.
StaleOf(s) ==
  /\ \A h \in Hosts :
       results[<<s, h, "stale">>] # NoResult /\ h \in HostsOf[scans[s].prefix] => h \in silent[s]
  /\ run[s].at \in {"started", "running", "probing", "checking"} /\ scans[s] # NoScan
       => run[s].prefix = scans[s].prefix
  /\ run[s].at = "probing" /\ ~run[s].expired =>
       HostsOf[run[s].prefix] \subseteq run[s].todo \cup run[s].probing \cup run[s].seen \cup silent[s]
  /\ run[s].at = "checking" /\ ~run[s].expired =>
       run[s].todo \cap HostsOf[run[s].prefix] \subseteq silent[s]

StaleInv == DiscoveryTypeOK /\ \A s \in Scans : StaleOf(s)

\* What other steps leave of it: s may lose its goroutine, its record and its
\* results, and nothing else.
LEMMA StaleKept ==
  ASSUME StaleInv, NEW s \in Scans,
         silent'[s] = silent[s],
         run'[s] \in {run[s], NoRun},
         scans'[s] = NoScan \/ (scans[s] # NoScan /\ scans'[s].prefix = scans[s].prefix),
         \A h \in Hosts :
           results'[<<s, h, "stale">>] # NoResult =>
             results[<<s, h, "stale">>] # NoResult /\ scans'[s] # NoScan
  PROVE  StaleOf(s)'
BY NothingFacts DEF StaleInv, StaleOf

\* A step of the goroutine of s that writes no stale result.
LEMMA StaleRun ==
  ASSUME StaleInv, NEW s \in Scans, NEW r \in Run, run' = [run EXCEPT ![s] = r],
         silent[s] \subseteq silent'[s],
         scans' = scans \/ \E status \in {"running", "completed", "failed"} :
                              UpdateDiscoveryScanStatus(s, status),
         results' = results \/ \E h \in Hosts, class \in Classes : CreateDiscoveryResult(s, h, "seen", class),
         r.at \in {"started", "running", "probing", "checking"} /\ scans[s] # NoScan
           => r.prefix = scans[s].prefix,
         r.at = "probing" /\ ~r.expired =>
           HostsOf[r.prefix] \subseteq r.todo \cup r.probing \cup r.seen \cup silent'[s],
         r.at = "checking" /\ ~r.expired => r.todo \cap HostsOf[r.prefix] \subseteq silent'[s]
  PROVE  StaleOf(s)'
<1>1. run'[s] = r
  BY DEF StaleInv, DiscoveryTypeOK
<1>2. scans'[s].prefix = scans[s].prefix /\ (scans'[s] # NoScan => scans[s] # NoScan)
  BY StatusType DEF StaleInv, Active, UpdateDiscoveryScanStatus
<1>3. \A h \in Hosts : results'[<<s, h, "stale">>] = results[<<s, h, "stale">>]
  <2>1. ASSUME NEW h \in Hosts, NEW g \in Hosts, NEW class \in Classes,
               CreateDiscoveryResult(s, g, "seen", class)
        PROVE  results'[<<s, h, "stale">>] = results[<<s, h, "stale">>]
    <3>1. <<s, h, "stale">> \in ResultIds /\ "seen" \in Kinds /\ <<s, h, "stale">> # <<s, g, "seen">>
      BY DEF ResultIds, Kinds
    <3> QED
      BY <2>1, <3>1, ResultType DEF StaleInv
  <2> QED
    BY <2>1
<1> QED
  BY <1>1, <1>2, <1>3 DEF StaleInv, StaleOf

LEMMA StaleStep ==
  ASSUME StaleInv, NEW s \in Scans, RunStep(s) \/ Expire(s)
  PROVE  StaleOf(s)'
<1>1. run[s] \in Run /\ StaleOf(s) /\ silent \in [Scans -> SUBSET Hosts]
  BY DEF StaleInv, DiscoveryTypeOK
<1>2. ASSUME Ends(s), UNCHANGED <<runVars, results, silent>>,
             scans' = scans \/ \E status \in {"running", "completed", "failed"} :
                                 UpdateDiscoveryScanStatus(s, status)
      PROVE  StaleOf(s)'
  BY <1>2, StaleRun, NothingFacts DEF Ends
<1>3. CASE BeginScan(s)
  <2>1. CASE Ends(s)
    BY <1>2, <1>3, <2>1 DEF BeginScan
  <2>2. CASE run' = [run EXCEPT ![s].at = "started", ![s].prefix = scans[s].prefix]
    <3> DEFINE r == [run[s] EXCEPT !.at = "started", !.prefix = scans[s].prefix]
    <3>1. scans[s].prefix \in Prefixes \cup {None}
      BY NothingFacts DEF StaleInv, DiscoveryTypeOK, Scan
    <3>2. r \in Run /\ r.at = "started" /\ r.prefix = scans[s].prefix
      BY <1>1, <3>1 DEF Run
    <3>3. run' = [run EXCEPT ![s] = r]
      BY <2>2
    <3> HIDE DEF r
    <3> QED
      BY <1>3, <3>2, <3>3, StaleRun DEF BeginScan
  <2>3. CASE run' = [run EXCEPT ![s].at = "failing"]
    <3>1. [run[s] EXCEPT !.at = "failing"] \in Run /\ [run[s] EXCEPT !.at = "failing"].at = "failing"
      BY <1>1 DEF Run
    <3> QED
      BY <1>3, <2>3, <3>1, StaleRun DEF BeginScan
  <2> QED
    BY <1>3, <2>1, <2>2, <2>3 DEF BeginScan
<1>4. CASE MarkRunning(s)
  <2>1. CASE Ends(s)
    BY <1>2, <1>4, <2>1 DEF MarkRunning
  <2>2. CASE UpdateDiscoveryScanStatus(s, "running") /\ run' = [run EXCEPT ![s].at = "running"]
    <3>1. [run[s] EXCEPT !.at = "running"] \in Run
          /\ [run[s] EXCEPT !.at = "running"].prefix = run[s].prefix
          /\ [run[s] EXCEPT !.at = "running"].at = "running"
      BY <1>1 DEF Run
    <3> QED
      BY <1>1, <1>4, <2>2, <3>1, StaleRun DEF MarkRunning, StaleOf
  <2> QED
    BY <1>4, <2>1, <2>2 DEF MarkRunning
<1>5. CASE ReadAddresses(s)
  <2>1. CASE run' = [run EXCEPT ![s].at = "failing"]
    <3>1. [run[s] EXCEPT !.at = "failing"] \in Run /\ [run[s] EXCEPT !.at = "failing"].at = "failing"
      BY <1>1 DEF Run
    <3> QED
      BY <1>5, <2>1, <3>1, StaleRun DEF ReadAddresses
  <2>2. CASE run' # [run EXCEPT ![s].at = "failing"]
    <3> DEFINE own == GetIPAddressesByPrefix(run[s].prefix)
               known == {rows[i].address : i \in own}
               live == {rows[i].address : i \in {j \in own : rows[j].status = "assigned"}}
               r == [run[s] EXCEPT !.at = "probing", !.todo = HostsOf[run[s].prefix],
                                   !.known = known, !.live = live]
    <3>1. run' = [run EXCEPT ![s] = r]
      BY <1>5, <2>2 DEF ReadAddresses
    <3>2. r = run'[s]
      BY <3>1 DEF StaleInv, DiscoveryTypeOK
    <3>3. r \in Run
      BY <1>5, <3>2, RunType DEF StaleInv, DiscoveryTypeOK, RunStep
    <3> HIDE DEF known, live
    <3>4. r.at = "probing" /\ r.prefix = run[s].prefix /\ r.todo = HostsOf[run[s].prefix]
      BY <1>1 DEF Run
    <3> HIDE DEF r
    <3> QED
      BY <1>1, <1>5, <3>1, <3>3, <3>4, StaleRun DEF ReadAddresses, StaleOf
  <2> QED
    BY <2>1, <2>2
<1>6. ASSUME NEW h \in Hosts, TakeHost(s, h)
      PROVE  StaleOf(s)'
  <2> DEFINE r == [run[s] EXCEPT !.todo = @ \ {h},
                                 !.probing = IF run[s].expired THEN @ ELSE @ \cup {h}]
  <2>1. /\ r \in Run /\ r.at = run[s].at /\ r.prefix = run[s].prefix /\ r.expired = run[s].expired
        /\ r.todo = run[s].todo \ {h} /\ r.seen = run[s].seen
        /\ ~run[s].expired => r.probing = run[s].probing \cup {h}
    BY <1>1 DEF Run
  <2>2. run' = [run EXCEPT ![s] = r] /\ run[s].at = "probing" /\ UNCHANGED <<scans, results, silent>>
    BY <1>6 DEF TakeHost
  <2> HIDE DEF r
  <2> QED
    BY <1>1, <2>1, <2>2, StaleRun DEF StaleOf
<1>7. ASSUME NEW h \in Hosts, Answers(s, h)
      PROVE  StaleOf(s)'
  <2> DEFINE r == [run[s] EXCEPT !.probing = @ \ {h}, !.saving = @ \cup {h}, !.seen = @ \cup {h}]
  <2>1. /\ r \in Run /\ r.at = run[s].at /\ r.prefix = run[s].prefix /\ r.expired = run[s].expired
        /\ r.todo = run[s].todo /\ r.seen = run[s].seen \cup {h} /\ r.probing = run[s].probing \ {h}
    BY <1>1 DEF Run
  <2>2. run' = [run EXCEPT ![s] = r] /\ UNCHANGED <<scans, results, silent>>
    BY <1>7 DEF Answers
  <2> HIDE DEF r
  <2> QED
    BY <1>1, <2>1, <2>2, StaleRun DEF StaleOf
<1>8. ASSUME NEW h \in Hosts, NoAnswer(s, h)
      PROVE  StaleOf(s)'
  <2> DEFINE r == [run[s] EXCEPT !.probing = @ \ {h}]
  <2>1. /\ r \in Run /\ r.at = run[s].at /\ r.prefix = run[s].prefix /\ r.expired = run[s].expired
        /\ r.todo = run[s].todo /\ r.seen = run[s].seen /\ r.probing = run[s].probing \ {h}
    BY <1>1 DEF Run
  <2>2. /\ run' = [run EXCEPT ![s] = r] /\ UNCHANGED <<scans, results>>
        /\ silent' = [silent EXCEPT ![s] = IF run[s].expired THEN @ ELSE @ \cup {h}]
    BY <1>8 DEF NoAnswer
  <2>3. silent[s] \subseteq silent'[s] /\ (~run[s].expired => silent'[s] = silent[s] \cup {h})
    BY <1>1, <2>2
  <2> HIDE DEF r
  <2> QED
    BY <1>1, <2>1, <2>2, <2>3, StaleRun DEF StaleOf
<1>9. ASSUME NEW h \in Hosts, PersistSeen(s, h)
      PROVE  StaleOf(s)'
  <2> DEFINE r == [run[s] EXCEPT !.saving = @ \ {h}]
             class == IF h \in run[s].known THEN "known" ELSE "new"
  <2>1. /\ r \in Run /\ r.at = run[s].at /\ r.prefix = run[s].prefix /\ r.expired = run[s].expired
        /\ r.todo = run[s].todo /\ r.seen = run[s].seen /\ r.probing = run[s].probing
    BY <1>1 DEF Run
  <2>2. /\ run' = [run EXCEPT ![s] = r] /\ UNCHANGED <<scans, silent>>
        /\ CreateDiscoveryResult(s, h, "seen", class) \/ UNCHANGED results
    BY <1>9 DEF PersistSeen, runVars
  <2>3. class \in Classes
    BY DEF Classes
  <2> HIDE DEF r, class
  <2> QED
    BY <1>1, <2>1, <2>2, <2>3, StaleRun DEF StaleOf
<1>10. CASE ProbingEnds(s)
  <2> DEFINE r == [run[s] EXCEPT !.at = "checking", !.todo = run[s].live \ run[s].seen]
  <2>1. /\ r \in Run /\ r.at = "checking" /\ r.prefix = run[s].prefix /\ r.expired = run[s].expired
        /\ r.todo = run[s].live \ run[s].seen
    BY <1>1 DEF Run
  <2>2. /\ run' = [run EXCEPT ![s] = r] /\ UNCHANGED <<scans, results, silent>>
        /\ run[s].at = "probing" /\ run[s].todo = {} /\ run[s].probing = {}
    BY <1>10 DEF ProbingEnds
  <2> HIDE DEF r
  <2> QED
    BY <1>1, <2>1, <2>2, StaleRun DEF StaleOf
<1>11. ASSUME NEW h \in Hosts, PersistStale(s, h)
       PROVE  StaleOf(s)'
  <2> DEFINE r == [run[s] EXCEPT !.todo = @ \ {h}]
  <2>1. /\ r \in Run /\ r.at = run[s].at /\ r.prefix = run[s].prefix /\ r.expired = run[s].expired
        /\ r.todo = run[s].todo \ {h}
    BY <1>1 DEF Run
  <2>2. /\ run' = [run EXCEPT ![s] = r] /\ UNCHANGED <<scans, silent>>
        /\ run[s].at = "checking" /\ h \in run[s].todo
        /\ \/ ~run[s].expired /\ CreateDiscoveryResult(s, h, "stale", "stale")
           \/ UNCHANGED results
    BY <1>11 DEF PersistStale
  <2> HIDE DEF r
  <2>3. CASE UNCHANGED results
    BY <1>1, <2>1, <2>2, <2>3, StaleRun DEF StaleOf
  <2>4. CASE ~run[s].expired /\ CreateDiscoveryResult(s, h, "stale", "stale")
    <3>1. run'[s] = r /\ scans[s] # NoScan
      BY <2>2, <2>4 DEF StaleInv, DiscoveryTypeOK, CreateDiscoveryResult
    <3>2. h \in HostsOf[scans[s].prefix] => h \in silent[s]
      BY <1>1, <2>2, <2>4, <3>1 DEF StaleOf
    <3>3. \A g \in Hosts \ {h} : results'[<<s, g, "stale">>] = results[<<s, g, "stale">>]
      <4>1. "stale" \in Kinds /\ "stale" \in Classes
            /\ \A g \in Hosts : <<s, g, "stale">> \in ResultIds /\ (g # h => <<s, g, "stale">> # <<s, h, "stale">>)
        BY DEF Kinds, ResultIds, Classes
      <4> QED
        BY <2>4, <4>1, ResultType DEF StaleInv
    <3> QED
      BY <1>1, <2>1, <2>2, <2>4, <3>1, <3>2, <3>3 DEF StaleOf
  <2> QED
    BY <2>2, <2>3, <2>4
<1>12. CASE CompleteScan(s) \/ FailScan(s)
  BY <1>2, <1>12 DEF CompleteScan, FailScan
<1>13. CASE Expire(s)
  <2> DEFINE r == [run[s] EXCEPT !.expired = TRUE]
  <2>1. r \in Run /\ r.at = run[s].at /\ r.prefix = run[s].prefix /\ r.expired
    BY <1>1 DEF Run
  <2>2. run' = [run EXCEPT ![s] = r] /\ UNCHANGED <<scans, results, silent>>
    BY <1>13 DEF Expire
  <2> HIDE DEF r
  <2> QED
    BY <1>1, <2>1, <2>2, StaleRun DEF StaleOf
<1> QED
  BY <1>3, <1>4, <1>5, <1>6, <1>7, <1>8, <1>9, <1>10, <1>11, <1>12, <1>13 DEF RunStep

\* The goroutine of s leaves the other scans alone.
LEMMA StaleOther ==
  ASSUME StaleInv, NEW s \in Scans, NEW z \in Scans \ {s}, RunStep(s) \/ Expire(s)
  PROVE  StaleOf(z)'
<1> USE DEF StaleInv
<1>1. /\ \A f : run' = [run EXCEPT ![s] = f] => run'[z] = run[z]
      /\ \A f : silent' = [silent EXCEPT ![s] = f] => silent'[z] = silent[z]
      /\ \A f : scans' = [scans EXCEPT ![s] = f] => scans'[z] = scans[z]
  BY DEF DiscoveryTypeOK
<1>2. /\ run'[z] = run[z] /\ silent'[z] = silent[z] /\ scans'[z] = scans[z]
      /\ \A h \in Hosts : results'[<<z, h, "stale">>] = results[<<z, h, "stale">>]
  <2>1. CASE BeginScan(s) \/ MarkRunning(s) \/ ReadAddresses(s) \/ ProbingEnds(s) \/ Expire(s)
    BY <1>1, <2>1 DEF BeginScan, MarkRunning, ReadAddresses, ProbingEnds, Expire, Ends,
                      UpdateDiscoveryScanStatus
  <2>2. CASE CompleteScan(s) \/ FailScan(s)
    BY <1>1, <2>2 DEF CompleteScan, FailScan, Ends, UpdateDiscoveryScanStatus
  <2>3. CASE \E h \in Hosts : TakeHost(s, h) \/ Answers(s, h) \/ NoAnswer(s, h)
    BY <1>1, <2>3 DEF TakeHost, Answers, NoAnswer
  <2>4. CASE \E h \in Hosts : PersistSeen(s, h) \/ PersistStale(s, h)
    <3>1. PICK g \in Hosts : PersistSeen(s, g) \/ PersistStale(s, g)
      BY <2>4
    <3>2. run'[z] = run[z] /\ UNCHANGED <<scans, silent>>
      BY <1>1, <3>1 DEF PersistSeen, PersistStale
    <3>3. \/ UNCHANGED results
          \/ \E kind \in Kinds, class \in Classes : CreateDiscoveryResult(s, g, kind, class)
      BY <3>1 DEF PersistSeen, PersistStale, Kinds, Classes
    <3>4. ASSUME NEW h \in Hosts, NEW kind \in Kinds, NEW class \in Classes,
                 CreateDiscoveryResult(s, g, kind, class)
          PROVE  results'[<<z, h, "stale">>] = results[<<z, h, "stale">>]
      <4>1. <<z, h, "stale">> \in ResultIds /\ <<z, h, "stale">> # <<s, g, kind>>
        BY DEF ResultIds, Kinds
      <4> QED
        BY <3>4, <4>1, ResultType
    <3> QED
      BY <3>2, <3>3, <3>4
  <2> QED
    BY <2>1, <2>2, <2>3, <2>4 DEF RunStep
<1>3. \A h \in Hosts : <<z, h, "stale">> \in ResultIds /\ <<z, h, "stale">>[1] = z
  BY DEF ResultIds, Kinds
<1> QED
  BY <1>2, <1>3, StaleKept DEF DiscoveryTypeOK

\* A step that leaves the goroutines alone, or ends them, and adds neither a
\* scan nor a result.
LEMMA StaleRest ==
  ASSUME StaleInv, UNCHANGED silent,
         \A z \in Scans : run'[z] \in {run[z], NoRun},
         \A z \in Scans : scans'[z] = NoScan \/ (scans[z] # NoScan /\ scans'[z].prefix = scans[z].prefix),
         \A id \in ResultIds :
           results'[id] # NoResult => results[id] # NoResult /\ scans'[id[1]] # NoScan,
         NEW z \in Scans
  PROVE  StaleOf(z)'
<1>1. \A h \in Hosts : <<z, h, "stale">> \in ResultIds /\ <<z, h, "stale">>[1] = z
  BY DEF ResultIds, Kinds
<1> QED
  BY <1>1, StaleKept

\* Starting a scan: the new record has no results yet.
LEMMA StaleStart ==
  ASSUME StaleInv, NEW t \in Starters, NEW s \in Scans, InsertScan(t, s), NEW z \in Scans
  PROVE  StaleOf(z)'
<1> USE DEF StaleInv
<1>1. \A h \in Hosts : <<z, h, "stale">> \in ResultIds /\ <<z, h, "stale">>[1] = z
  BY DEF ResultIds, Kinds
<1>2. /\ scans[s] = NoScan /\ UNCHANGED results
      /\ scans' = [scans EXCEPT ![s] = [prefix |-> start[t], status |-> "queued", age |-> "recent"]]
      /\ run' = [run EXCEPT ![s] = [NoRun EXCEPT !.at = "queued"]]
      /\ silent' = [silent EXCEPT ![s] = {}]
  BY DEF InsertScan, CreateDiscoveryScan, FreeScan
<1>3. CASE z = s
  <2>1. run'[z].at = "queued"
    BY <1>2, <1>3 DEF DiscoveryTypeOK, NoRun
  <2>2. \A h \in Hosts : results'[<<z, h, "stale">>] = NoResult
    BY <1>1, <1>2, <1>3 DEF DiscoveryTypeOK
  <2> QED
    BY <2>1, <2>2 DEF StaleOf
<1>4. CASE z # s
  <2>1. run'[z] = run[z] /\ silent'[z] = silent[z] /\ scans'[z] = scans[z]
    BY <1>2, <1>4 DEF DiscoveryTypeOK
  <2> QED
    BY <1>1, <1>2, <2>1, StaleKept DEF DiscoveryTypeOK
<1> QED
  BY <1>3, <1>4

\* Every other step.
LEMMA StaleElse ==
  ASSUME StaleInv, DiscoveryNext, ~ \E s \in Scans : RunStep(s) \/ Expire(s), NEW z \in Scans
  PROVE  StaleOf(z)'
<1> USE DEF StaleInv
<1>1. \A id \in ResultIds : id[1] \in Scans
  BY DEF ResultIds
<1>2. \A id \in ResultIds : results[id] # NoResult => scans[id[1]] # NoScan
  BY DEF DiscoveryTypeOK
<1>3. ASSUME UNCHANGED <<run, scans, silent>>,
             \A id \in ResultIds : results'[id] # NoResult => results[id] # NoResult
      PROVE  StaleOf(z)'
  BY <1>2, <1>3, StaleRest
<1>4. CASE TickScheduled
  BY <1>3, <1>4 DEF TickScheduled, tables
<1>5. ASSUME NEW t \in Starters, StartStep(t)
      PROVE  StaleOf(z)'
  <2>1. CASE \E p \in Prefixes : CheckScan(t, p)
    BY <1>3, <2>1 DEF CheckScan, tables
  <2>2. CASE \E s \in Scans : InsertScan(t, s)
    BY <2>2, StaleStart
  <2>3. CASE StartFails(t)
    BY <1>3, <2>3 DEF StartFails, tables
  <2> QED
    BY <1>5, <2>1, <2>2, <2>3 DEF StartStep
<1>6. ASSUME NEW s \in Scans, Age(s)
      PROVE  StaleOf(z)'
  <2>1. \A y \in Scans : scans'[y].prefix = scans[y].prefix /\ (scans[y] # NoScan => scans'[y] # NoScan)
                         /\ (scans[y] = NoScan => scans'[y] = NoScan)
    <3>1. scans[s] \in Scan
      BY <1>6 DEF Age, DiscoveryTypeOK
    <3>2. \A age \in {"elapsed", "old"} : [scans[s] EXCEPT !.age = age] \in Scan
                                        /\ [scans[s] EXCEPT !.age = age].prefix = scans[s].prefix
      BY <3>1 DEF Scan
    <3> QED
      BY <1>6, <3>1, <3>2, NothingFacts DEF Age, DiscoveryTypeOK
  <2>2. UNCHANGED <<run, silent, results>>
    BY <1>6 DEF Age, threads
  <2> QED
    BY <1>1, <1>2, <2>1, <2>2, StaleRest
<1>7. ASSUME NEW id \in ResultIds, NEW r, r # NoResult => results[id] # NoResult,
             results' = [results EXCEPT ![id] = r], UNCHANGED <<run, scans, silent>>
      PROVE  StaleOf(z)'
  BY <1>3, <1>7 DEF DiscoveryTypeOK
<1>8. ASSUME NEW a \in Acceptors, AcceptStep(a)
      PROVE  StaleOf(z)'
  <2>1. CASE \E id \in ResultIds : AcceptResult(a, id)
    BY <1>3, <2>1 DEF AcceptResult, acceptVars
  <2>2. CASE FindAddress(a) \/ AcceptFails(a) \/ \E i \in Rows : CreateAddress(a, i)
    BY <1>3, <2>2 DEF FindAddress, AcceptFails, CreateAddress, acceptVars
  <2>3. CASE LinkResult(a)
    <3>1. accept[a].result \in ResultIds
      BY <2>3 DEF LinkResult, DiscoveryTypeOK
    <3> QED
      BY <1>7, <2>3, <3>1 DEF LinkResult, UpdateDiscoveryResultAccepted, acceptVars
  <2> QED
    BY <1>8, <2>1, <2>2, <2>3 DEF AcceptStep
<1>9. ASSUME NEW id \in ResultIds, IgnoreResult(id)
      PROVE  StaleOf(z)'
  BY <1>7, <1>9 DEF IgnoreResult, UpdateDiscoveryResultIgnored, threads
<1>10. ASSUME NEW i \in Rows, NewRow(i) \/ SetStatus(i) \/ EditRow(i)
       PROVE  StaleOf(z)'
  BY <1>3, <1>10 DEF NewRow, SetStatus, EditRow, threads
<1>11. ASSUME NEW i \in Rows, DeleteRow(i)
       PROVE  StaleOf(z)'
  <2>1. \A id \in ResultIds : results'[id] = IF results[id].link = i
                                             THEN [results[id] EXCEPT !.link = None] ELSE results[id]
    BY <1>11 DEF DeleteRow, DeleteIPAddress
  <2>2. \A id \in ResultIds : results'[id] # NoResult => results[id] # NoResult
    BY <2>1, NothingFacts DEF DiscoveryTypeOK, NoResult
  <2> QED
    BY <1>3, <1>11, <2>2 DEF DeleteRow, threads
<1>12. ASSUME NEW p \in Prefixes, SetScanConfig(p)
       PROVE  StaleOf(z)'
  BY <1>3, <1>12 DEF SetScanConfig, threads
<1>13. ASSUME NEW gone \in SUBSET Scans,
              scans' = [s \in Scans |-> IF s \in gone THEN NoScan ELSE scans[s]],
              \A id \in ResultIds :
                results'[id] # NoResult => results[id] # NoResult /\ id[1] \notin gone,
              UNCHANGED <<run, silent>>
       PROVE  StaleOf(z)'
  BY <1>1, <1>2, <1>13, StaleRest
<1>14. ASSUME NEW p \in Prefixes, DropPrefix(p)
       PROVE  StaleOf(z)'
  <2> DEFINE gone == {s \in Scans : scans[s].prefix = p}
  <2>1. /\ scans' = [s \in Scans |-> IF s \in gone THEN NoScan ELSE scans[s]]
        /\ \A id \in ResultIds : results'[id] =
              IF id[1] \in gone THEN NoResult
              ELSE IF results[id].link \in GetIPAddressesByPrefix(p)
                   THEN [results[id] EXCEPT !.link = None] ELSE results[id]
    BY <1>14 DEF DropPrefix, DeletePrefix
  <2>2. None \notin Rows
    BY DiscoveryAssumption
  <2>3. \A id \in ResultIds :
          results'[id] # NoResult => results[id] # NoResult /\ id[1] \notin gone
    <3> SUFFICES ASSUME NEW id \in ResultIds, results'[id] # NoResult
                 PROVE  results[id] # NoResult /\ id[1] \notin gone
      OBVIOUS
    <3>1. id[1] \notin gone
      BY <2>1
    <3>2. NoResult.link = None
      BY DEF NoResult
    <3>3. NoResult.link \notin GetIPAddressesByPrefix(p)
      BY <2>2, <3>2 DEF GetIPAddressesByPrefix
    <3> QED
      BY <2>1, <3>1, <3>3
  <2>4. UNCHANGED <<run, silent>>
    BY <1>14 DEF DropPrefix, threads
  <2> HIDE DEF gone
  <2>5. gone \in SUBSET Scans
    BY DEF gone
  <2> QED
    BY <1>13, <2>1, <2>3, <2>4, <2>5
<1>15. CASE CleanupDiscoveryScans
  <2> DEFINE gone == {s \in Scans : scans[s].age = "old"}
  <2>1. gone \in SUBSET Scans
    OBVIOUS
  <2>2. DeleteScans(gone) /\ UNCHANGED threads
    BY <1>15 DEF CleanupDiscoveryScans
  <2> HIDE DEF gone
  <2> QED
    BY <1>13, <2>1, <2>2 DEF DeleteScans, threads
<1>16. CASE CleanupDiscoveryResults
  <2>1. PICK old : results' = [id \in ResultIds |-> IF id \in old THEN NoResult ELSE results[id]]
    BY <1>16 DEF CleanupDiscoveryResults
  <2> QED
    BY <1>3, <1>16, <2>1 DEF CleanupDiscoveryResults, threads
<1>17. CASE ServerStops
  <2>1. \A y \in Scans : run'[y] = NoRun
    BY <1>17 DEF ServerStops
  <2> QED
    BY <1>1, <1>2, <1>17, <2>1, StaleRest DEF ServerStops, tables, DiscoveryTypeOK
<1> QED
  BY <1>4, <1>5, <1>6, <1>8, <1>9, <1>10, <1>11, <1>12, <1>14, <1>15, <1>16, <1>17
     DEF DiscoveryNext, IpamStep

\* An address of the range is reported stale only by a scan that has probed it
\* to the end in vain.
THEOREM StaleUnseen == DiscoverySpec => []StaleIsUnseen
<1>1. DiscoveryInit => StaleInv
  <2>1. DiscoveryInit => DiscoveryTypeOK
    BY NothingFacts DEF DiscoveryInit, DiscoveryTypeOK
  <2>2. ASSUME DiscoveryInit, NEW s \in Scans PROVE StaleOf(s)
    <3>1. run[s].at = "none" /\ \A h \in Hosts : results[<<s, h, "stale">>] = NoResult
      BY <2>2, NothingFacts DEF DiscoveryInit, ResultIds, Kinds
    <3> QED
      BY <3>1 DEF StaleOf
  <2> QED
    BY <2>1, <2>2 DEF StaleInv
<1>2. DiscoveryTypeOK' /\ StaleInv /\ [DiscoveryNext]_discoveryVars => StaleInv'
  <2> SUFFICES ASSUME StaleInv, DiscoveryNext \/ UNCHANGED discoveryVars, NEW z \in Scans
               PROVE  StaleOf(z)'
    BY DEF StaleInv
  <2>1. CASE UNCHANGED discoveryVars
    BY <2>1 DEF discoveryVars, StaleInv, StaleOf
  <2>2. CASE \E s \in Scans : RunStep(s) \/ Expire(s)
    <3>1. PICK s \in Scans : RunStep(s) \/ Expire(s)
      BY <2>2
    <3>2. CASE z = s
      BY <3>1, <3>2, StaleStep
    <3>3. CASE z # s
      BY <3>1, <3>3, StaleOther
    <3> QED
      BY <3>2, <3>3
  <2>3. CASE ~(\E s \in Scans : RunStep(s) \/ Expire(s)) /\ DiscoveryNext
    BY <2>3, StaleElse
  <2> QED
    BY <2>1, <2>2, <2>3
<1>3. StaleInv => StaleIsUnseen
  BY DEF StaleInv, StaleOf, StaleIsUnseen
<1> QED
  BY <1>1, <1>2, <1>3, DiscoveryTypeCorrect, PTL DEF DiscoverySpec

-----------------------------------------------------------------------------
(* The life of a scan record, one scan of a prefix at a time, and what an  *)
(* accepted result is linked to.                                           *)

(* Records and goroutines.                                                 *)

\* As long as the record of s is there, its status says where its goroutine is.
StatusOf(s) ==
  scans[s] # NoScan =>
    /\ run[s].at \in {"queued", "started"} => scans[s].status = "queued"
    /\ run[s].at \in {"running", "probing", "checking"} => scans[s].status = "running"
    /\ run[s].at = "failing" => scans[s].status \in Active

StatusInv == DiscoveryTypeOK /\ \A s \in Scans : StatusOf(s)

\* The four things a step does to the records: it deletes some of them, moves
\* one to a status that follows its own, ages one, or adds one.
Deletes ==
  \E gone \in SUBSET Scans : scans' = [s \in Scans |-> IF s \in gone THEN NoScan ELSE scans[s]]

Moves(s) ==
  \E status \in Lifecycle!Successors[scans[s].status] : UpdateDiscoveryScanStatus(s, status)

LEMMA SuccessorFacts ==
  /\ \A status \in Active : "failed" \in Lifecycle!Successors[status]
  /\ "running" \in Lifecycle!Successors["queued"]
  /\ "completed" \in Lifecycle!Successors["running"]
  /\ "queued" \in Lifecycle!Successors["none"]
  /\ \A status \in Active : Lifecycle!Successors[status] \subseteq {"running", "completed", "failed"}
  /\ Lifecycle!Successors["completed"] = {} /\ Lifecycle!Successors["failed"] = {}
BY DEF Lifecycle!Successors, Active

\* No step is as good as deleting nothing.
LEMMA NothingDeleted ==
  ASSUME DiscoveryTypeOK, UNCHANGED scans
  PROVE  Deletes
<1> DEFINE gone == {}
<1>1. scans' = [s \in Scans |-> IF s \in gone THEN NoScan ELSE scans[s]]
  BY DEF DiscoveryTypeOK
<1>2. gone \in SUBSET Scans
  OBVIOUS
<1> HIDE DEF gone
<1> QED
  BY <1>1, <1>2 DEF Deletes

\* A step of the goroutine of s.
LEMMA RunStatus ==
  ASSUME StatusInv, NEW s \in Scans, RunStep(s) \/ Expire(s)
  PROVE  /\ UNCHANGED <<scope, start>>
         /\ UNCHANGED scans \/ Moves(s)
         /\ StatusOf(s)'
         /\ \A z \in Scans \ {s} : scans'[z] = scans[z] /\ run'[z] = run[z]
<1>1. /\ run[s] \in Run /\ run \in [Scans -> Run] /\ StatusOf(s)
      /\ scans \in [Scans -> Scan \cup {NoScan}]
  BY DEF StatusInv, DiscoveryTypeOK
<1>2. ASSUME NEW r, run' = [run EXCEPT ![s] = r], UNCHANGED scans, UNCHANGED <<scope, start>>,
             scans[s] # NoScan =>
               /\ r.at \in {"queued", "started"} => scans[s].status = "queued"
               /\ r.at \in {"running", "probing", "checking"} => scans[s].status = "running"
               /\ r.at = "failing" => scans[s].status \in Active
      PROVE  /\ UNCHANGED <<scope, start>>
             /\ UNCHANGED scans \/ Moves(s)
             /\ StatusOf(s)'
             /\ \A z \in Scans \ {s} : scans'[z] = scans[z] /\ run'[z] = run[z]
  BY <1>1, <1>2 DEF StatusOf
<1>3. ASSUME NEW r, run' = [run EXCEPT ![s] = r], UNCHANGED <<scope, start>>,
             NEW status \in Lifecycle!Successors[scans[s].status], UpdateDiscoveryScanStatus(s, status),
             /\ r.at \in {"queued", "started"} => status = "queued"
             /\ r.at \in {"running", "probing", "checking"} => status = "running"
             /\ r.at = "failing" => status \in Active
      PROVE  /\ UNCHANGED <<scope, start>>
             /\ UNCHANGED scans \/ Moves(s)
             /\ StatusOf(s)'
             /\ \A z \in Scans \ {s} : scans'[z] = scans[z] /\ run'[z] = run[z]
  <2>1. scans[s] \in Scan
    BY <1>1, <1>3 DEF UpdateDiscoveryScanStatus
  <2>2. [scans[s] EXCEPT !.status = status].status = status
    BY <2>1 DEF Scan
  <2>3. scans'[s].status = status
    BY <1>1, <1>3, <2>2 DEF UpdateDiscoveryScanStatus
  <2>4. run'[s] = r
    BY <1>1, <1>3
  <2> QED
    BY <1>1, <1>3, <2>3, <2>4 DEF StatusOf, Moves, UpdateDiscoveryScanStatus
<1>4. NoRun.at = "none"
  BY NothingFacts
<1>5. CASE BeginScan(s)
  <2>1. CASE Ends(s)
    BY <1>2, <1>4, <1>5, <2>1 DEF BeginScan, Ends, runVars
  <2>2. CASE run' = [run EXCEPT ![s].at = "started", ![s].prefix = scans[s].prefix]
    <3>1. [run[s] EXCEPT !.at = "started", !.prefix = scans[s].prefix].at = "started"
      BY <1>1 DEF Run
    <3> QED
      BY <1>1, <1>2, <1>5, <2>2, <3>1 DEF BeginScan, runVars, StatusOf
  <2>3. CASE run' = [run EXCEPT ![s].at = "failing"]
    <3>1. [run[s] EXCEPT !.at = "failing"].at = "failing"
      BY <1>1 DEF Run
    <3> QED
      BY <1>1, <1>2, <1>5, <2>3, <3>1 DEF BeginScan, runVars, StatusOf, Active
  <2> QED
    BY <1>5, <2>1, <2>2, <2>3 DEF BeginScan
<1>6. CASE MarkRunning(s)
  <2>1. CASE Ends(s) /\ UNCHANGED scans
    BY <1>2, <1>4, <1>6, <2>1 DEF MarkRunning, Ends, runVars
  <2>2. CASE UpdateDiscoveryScanStatus(s, "running") /\ run' = [run EXCEPT ![s].at = "running"]
    <3>1. [run[s] EXCEPT !.at = "running"].at = "running"
      BY <1>1 DEF Run
    <3>2. scans[s].status = "queued"
      BY <1>1, <1>6, <2>2 DEF MarkRunning, UpdateDiscoveryScanStatus, StatusOf
    <3> QED
      BY <1>3, <1>6, <2>2, <3>1, <3>2, SuccessorFacts DEF MarkRunning, runVars
  <2> QED
    BY <1>6, <2>1, <2>2 DEF MarkRunning
<1>7. ASSUME NEW r, run' = [run EXCEPT ![s] = r], r.at = run[s].at, UNCHANGED <<scope, start, scans>>
      PROVE  /\ UNCHANGED <<scope, start>>
             /\ UNCHANGED scans \/ Moves(s)
             /\ StatusOf(s)'
             /\ \A z \in Scans \ {s} : scans'[z] = scans[z] /\ run'[z] = run[z]
  BY <1>1, <1>2, <1>7 DEF StatusOf
<1>8. CASE ReadAddresses(s)
  <2>1. CASE run' = [run EXCEPT ![s].at = "failing"]
    <3>1. [run[s] EXCEPT !.at = "failing"].at = "failing"
      BY <1>1 DEF Run
    <3> QED
      BY <1>1, <1>2, <1>8, <2>1, <3>1 DEF ReadAddresses, runVars, StatusOf, Active
  <2>2. CASE run' # [run EXCEPT ![s].at = "failing"]
    <3> DEFINE own == GetIPAddressesByPrefix(run[s].prefix)
               known == {rows[i].address : i \in own}
               live == {rows[i].address : i \in {j \in own : rows[j].status = "assigned"}}
               r == [run[s] EXCEPT !.at = "probing", !.todo = HostsOf[run[s].prefix],
                                   !.known = known, !.live = live]
    <3>1. run' = [run EXCEPT ![s] = r]
      BY <1>8, <2>2 DEF ReadAddresses
    <3> HIDE DEF known, live
    <3>2. r.at = "probing"
      BY <1>1 DEF Run
    <3> HIDE DEF r
    <3> QED
      BY <1>1, <1>2, <1>8, <3>1, <3>2 DEF ReadAddresses, runVars, StatusOf
  <2> QED
    BY <2>1, <2>2
<1>9. CASE \E h \in Hosts : TakeHost(s, h) \/ Answers(s, h) \/ NoAnswer(s, h) \/ PersistSeen(s, h)
                            \/ PersistStale(s, h)
  <2>1. UNCHANGED <<scope, start, scans>>
    BY <1>9 DEF TakeHost, Answers, NoAnswer, PersistSeen, PersistStale, runVars
  <2>2. run'[s].at = run[s].at /\ run' = [run EXCEPT ![s] = run'[s]]
    <3>1. PICK h \in Hosts : TakeHost(s, h) \/ Answers(s, h) \/ NoAnswer(s, h) \/ PersistSeen(s, h)
                             \/ PersistStale(s, h)
      BY <1>9
    <3>2. CASE TakeHost(s, h)
      BY <1>1, <3>2 DEF TakeHost, Run
    <3>3. CASE Answers(s, h)
      BY <1>1, <3>3 DEF Answers, Run
    <3>4. CASE NoAnswer(s, h)
      BY <1>1, <3>4 DEF NoAnswer, Run
    <3>5. CASE PersistSeen(s, h) \/ PersistStale(s, h)
      BY <1>1, <3>5 DEF PersistSeen, PersistStale, Run
    <3> QED
      BY <3>1, <3>2, <3>3, <3>4, <3>5
  <2> QED
    BY <1>7, <2>1, <2>2
<1>10. CASE ProbingEnds(s)
  <2>1. \A todo : [run[s] EXCEPT !.at = "checking", !.todo = todo].at = "checking"
    BY <1>1 DEF Run
  <2>2. run' = [run EXCEPT ![s] = [run[s] EXCEPT !.at = "checking", !.todo = run[s].live \ run[s].seen]]
    BY <1>1, <1>10 DEF ProbingEnds
  <2> QED
    BY <1>1, <1>2, <1>10, <2>1, <2>2 DEF ProbingEnds, runVars, StatusOf
<1>11. CASE CompleteScan(s)
  <2>1. CASE UNCHANGED scans
    BY <1>2, <1>4, <1>11, <2>1 DEF CompleteScan, Ends, runVars
  <2>2. CASE UpdateDiscoveryScanStatus(s, "completed")
    <3>1. scans[s].status = "running"
      BY <1>1, <1>11, <2>2 DEF CompleteScan, UpdateDiscoveryScanStatus, StatusOf
    <3> QED
      BY <1>3, <1>4, <1>11, <2>2, <3>1, SuccessorFacts DEF CompleteScan, Ends, runVars
  <2> QED
    BY <1>11, <2>1, <2>2 DEF CompleteScan
<1>12. CASE FailScan(s)
  <2>1. CASE UNCHANGED scans
    BY <1>2, <1>4, <1>12, <2>1 DEF FailScan, Ends, runVars
  <2>2. CASE UpdateDiscoveryScanStatus(s, "failed")
    <3>1. scans[s].status \in Active
      BY <1>1, <1>12, <2>2 DEF FailScan, UpdateDiscoveryScanStatus, StatusOf
    <3> QED
      BY <1>3, <1>4, <1>12, <2>2, <3>1, SuccessorFacts DEF FailScan, Ends, runVars
  <2> QED
    BY <1>12, <2>1, <2>2 DEF FailScan
<1>13. CASE Expire(s)
  <2>1. [run[s] EXCEPT !.expired = TRUE].at = run[s].at
    BY <1>1 DEF Run
  <2> QED
    BY <1>7, <1>13, <2>1 DEF Expire, runVars
<1> QED
  BY <1>5, <1>6, <1>8, <1>9, <1>10, <1>11, <1>12, <1>13 DEF RunStep

\* What every step leaves that is not of a goroutine of a scan and starts none.
Rest ==
  /\ Deletes \/ \E s \in Scans : Age(s)
  /\ UNCHANGED scope
  /\ \A t \in Starters : start'[t] \in {start[t], None}
  /\ \A s \in Scans : run'[s] \in {run[s], NoRun}

LEMMA RestStep ==
  ASSUME DiscoveryTypeOK, DiscoveryNext,
         ~ \E s \in Scans : RunStep(s) \/ Expire(s),
         ~ \E t \in Starters : \/ \E p \in Prefixes : CheckScan(t, p)
                               \/ \E s \in Scans : InsertScan(t, s)
  PROVE  Rest
<1>1. /\ start \in [Starters -> Prefixes \cup {None}]
      /\ run \in [Scans -> Run]
  BY DEF DiscoveryTypeOK
<1>2. ASSUME UNCHANGED <<scope, scans, start, run>>
      PROVE  Rest
  BY <1>2, NothingDeleted DEF Rest
<1>3. CASE TickScheduled
  BY <1>2, <1>3 DEF TickScheduled, tables
<1>4. ASSUME NEW t \in Starters, StartFails(t)
      PROVE  Rest
  <2>1. Deletes
    BY <1>4, NothingDeleted DEF StartFails, tables
  <2> QED
    BY <1>1, <1>4, <2>1 DEF StartFails, Rest
<1>5. CASE \E s \in Scans : Age(s)
  BY <1>5 DEF Age, threads, Rest
<1>6. ASSUME NEW a \in Acceptors, AcceptStep(a)
      PROVE  Rest
  <2>1. UNCHANGED acceptVars
    BY <1>6 DEF AcceptStep, AcceptResult, FindAddress, LinkResult, AcceptFails, CreateAddress
  <2> QED
    BY <1>2, <2>1 DEF acceptVars
<1>7. CASE \E id \in ResultIds : IgnoreResult(id)
  BY <1>2, <1>7 DEF IgnoreResult, threads
<1>8. CASE \E i \in Rows : NewRow(i) \/ SetStatus(i) \/ EditRow(i) \/ DeleteRow(i)
  BY <1>2, <1>8 DEF NewRow, SetStatus, EditRow, DeleteRow, threads
<1>9. CASE \E p \in Prefixes : SetScanConfig(p)
  BY <1>2, <1>9 DEF SetScanConfig, threads
<1>10. ASSUME NEW p \in Prefixes, DropPrefix(p)
       PROVE  Rest
  <2> DEFINE gone == {s \in Scans : scans[s].prefix = p}
  <2>1. scans' = [s \in Scans |-> IF s \in gone THEN NoScan ELSE scans[s]]
        /\ UNCHANGED <<scope, threads>>
    BY <1>10 DEF DropPrefix, DeletePrefix
  <2>2. gone \in SUBSET Scans
    OBVIOUS
  <2> HIDE DEF gone
  <2> QED
    BY <2>1, <2>2 DEF Rest, Deletes, threads
<1>11. CASE CleanupDiscoveryScans
  <2> DEFINE gone == {s \in Scans : scans[s].age = "old"}
  <2>1. scans' = [s \in Scans |-> IF s \in gone THEN NoScan ELSE scans[s]]
        /\ UNCHANGED <<scope, threads>>
    BY <1>11 DEF CleanupDiscoveryScans, DeleteScans
  <2>2. gone \in SUBSET Scans
    OBVIOUS
  <2> HIDE DEF gone
  <2> QED
    BY <2>1, <2>2 DEF Rest, Deletes, threads
<1>12. CASE CleanupDiscoveryResults
  BY <1>2, <1>12 DEF CleanupDiscoveryResults, threads
<1>13. CASE ServerStops
  <2>1. Deletes
    BY <1>13, NothingDeleted DEF ServerStops, tables
  <2> QED
    BY <1>1, <1>13, <2>1 DEF ServerStops, Rest
<1> QED
  BY <1>3, <1>4, <1>5, <1>6, <1>7, <1>8, <1>9, <1>10, <1>11, <1>12, <1>13
     DEF DiscoveryNext, IpamStep, StartStep

\* What InsertScan(t, s) writes.
LEMMA InsertFacts ==
  ASSUME DiscoveryTypeOK, NEW t \in Starters, NEW s \in Scans, InsertScan(t, s)
  PROVE  /\ UNCHANGED scope
         /\ start[t] \in Prefixes /\ start' = [start EXCEPT ![t] = None]
         /\ scans[s] = NoScan /\ scans'[s] # NoScan
         /\ scans'[s].prefix = start[t] /\ scans'[s].status = "queued"
         /\ run'[s].at = "queued"
         /\ scans' \in [Scans -> Scan \cup {NoScan}]
         /\ \A z \in Scans \ {s} : scans'[z] = scans[z] /\ run'[z] = run[z]
<1> DEFINE row == [prefix |-> start[t], status |-> "queued", age |-> "recent"]
           r == [NoRun EXCEPT !.at = "queued"]
<1>1. start[t] \in Prefixes
  BY DEF InsertScan, DiscoveryTypeOK
<1>2. row \in Scan /\ row # NoScan /\ row.prefix = start[t] /\ row.status = "queued"
  BY <1>1, NothingFacts DEF Scan, Active
<1>3. r.at = "queued"
  BY DEF NoRun
<1>4. /\ scans' = [scans EXCEPT ![s] = row] /\ run' = [run EXCEPT ![s] = r]
      /\ start' = [start EXCEPT ![t] = None] /\ UNCHANGED scope /\ scans[s] = NoScan
  BY DEF InsertScan, CreateDiscoveryScan, FreeScan
<1> HIDE DEF row, r
<1> QED
  BY <1>1, <1>2, <1>3, <1>4 DEF DiscoveryTypeOK

\* Time changes the age of a record and nothing else.
LEMMA AgeFacts ==
  ASSUME DiscoveryTypeOK, NEW s \in Scans, Age(s)
  PROVE  \A z \in Scans : /\ scans'[z] # NoScan => scans[z] # NoScan
                          /\ scans'[z].status = scans[z].status
                          /\ scans'[z].prefix = scans[z].prefix
<1>1. PICK age : scans' = [scans EXCEPT ![s].age = age]
  BY DEF Age
<1>2. scans[s] \in Scan /\ scans[s] # NoScan
  BY DEF Age, DiscoveryTypeOK
<1> DEFINE row == [scans[s] EXCEPT !.age = age]
<1>3. row.status = scans[s].status /\ row.prefix = scans[s].prefix
  BY <1>2 DEF Scan
<1>4. scans' = [scans EXCEPT ![s] = row]
  BY <1>1
<1> HIDE DEF row
<1> QED
  BY <1>2, <1>3, <1>4 DEF DiscoveryTypeOK

LEMMA StatusHolds == DiscoverySpec => []StatusInv
<1>1. DiscoveryInit => StatusInv
  <2>1. DiscoveryInit => DiscoveryTypeOK
    BY NothingFacts DEF DiscoveryInit, DiscoveryTypeOK
  <2> QED
    BY <2>1 DEF StatusInv, StatusOf, DiscoveryInit
<1>2. DiscoveryTypeOK' /\ StatusInv /\ [DiscoveryNext]_discoveryVars => StatusInv'
  <2> SUFFICES ASSUME StatusInv, DiscoveryNext \/ UNCHANGED discoveryVars, NEW z \in Scans
               PROVE  StatusOf(z)'
    BY DEF StatusInv
  <2>1. DiscoveryTypeOK /\ StatusOf(z)
    BY DEF StatusInv
  <2>2. CASE UNCHANGED discoveryVars
    BY <2>1, <2>2 DEF discoveryVars, StatusOf
  <2>3. ASSUME NEW s \in Scans, RunStep(s) \/ Expire(s)
        PROVE  StatusOf(z)'
    BY <2>1, <2>3, RunStatus DEF StatusOf
  <2>4. ASSUME NEW t \in Starters, NEW p \in Prefixes, CheckScan(t, p)
        PROVE  StatusOf(z)'
    BY <2>1, <2>4 DEF CheckScan, tables, StatusOf
  <2>5. ASSUME NEW t \in Starters, NEW s \in Scans, InsertScan(t, s)
        PROVE  StatusOf(z)'
    BY <2>1, <2>5, InsertFacts DEF StatusOf, Active
  <2>6. CASE Rest
    <3>1. run'[z] = run[z] \/ run'[z].at = "none"
      BY <2>6, NothingFacts DEF Rest
    <3>2. CASE Deletes
      BY <2>1, <3>1, <3>2 DEF Deletes, StatusOf
    <3>3. ASSUME NEW s \in Scans, Age(s)
          PROVE  StatusOf(z)'
      BY <2>1, <3>1, <3>3, AgeFacts DEF StatusOf
    <3> QED
      BY <2>6, <3>2, <3>3 DEF Rest
  <2> QED
    BY <2>1, <2>2, <2>3, <2>4, <2>5, <2>6, RestStep
<1> QED
  BY <1>1, <1>2, DiscoveryTypeCorrect, PTL DEF DiscoverySpec

-----------------------------------------------------------------------------
(* The refinement.                                                         *)

LifeStatus == [s \in Scans |-> scans[s].status]

LEMMA LifecycleStep ==
  ASSUME StatusInv, DiscoveryNext \/ UNCHANGED discoveryVars
  PROVE  Lifecycle!StatusNext \/ UNCHANGED LifeStatus
<1>1. DiscoveryTypeOK /\ scans \in [Scans -> Scan \cup {NoScan}]
  BY DEF StatusInv, DiscoveryTypeOK
<1>2. CASE UNCHANGED scans
  BY <1>2 DEF LifeStatus
<1>3. CASE Deletes
  <2>1. PICK gone \in SUBSET Scans :
          scans' = [s \in Scans |-> IF s \in gone THEN NoScan ELSE scans[s]]
    BY <1>3 DEF Deletes
  <2>2. LifeStatus' = [s \in Scans |-> IF s \in gone THEN "none" ELSE LifeStatus[s]]
    BY <2>1, NothingFacts DEF LifeStatus
  <2>3. Lifecycle!Remove
    BY <2>2 DEF Lifecycle!Remove, LifeStatus
  <2> QED
    BY <2>3 DEF Lifecycle!StatusNext
<1>4. ASSUME NEW s \in Scans, NEW next \in Lifecycle!Successors[LifeStatus[s]],
             LifeStatus' = [LifeStatus EXCEPT ![s] = next]
      PROVE  Lifecycle!StatusNext
  <2>1. Lifecycle!Advance(s)
    BY <1>4 DEF Lifecycle!Advance, LifeStatus
  <2> QED
    BY <2>1 DEF Lifecycle!StatusNext
<1>5. ASSUME NEW s \in Scans, Moves(s)
      PROVE  Lifecycle!StatusNext
  <2>1. PICK next \in Lifecycle!Successors[scans[s].status] : UpdateDiscoveryScanStatus(s, next)
    BY <1>5 DEF Moves
  <2>2. scans[s] \in Scan
    BY <1>1, <2>1 DEF UpdateDiscoveryScanStatus
  <2>3. [scans[s] EXCEPT !.status = next].status = next
    BY <2>2 DEF Scan
  <2>4. LifeStatus' = [LifeStatus EXCEPT ![s] = next]
    BY <1>1, <2>1, <2>3 DEF UpdateDiscoveryScanStatus, LifeStatus
  <2>5. next \in Lifecycle!Successors[LifeStatus[s]]
    BY <2>1 DEF LifeStatus
  <2> QED
    BY <1>4, <2>4, <2>5
<1>6. ASSUME NEW t \in Starters, NEW s \in Scans, InsertScan(t, s)
      PROVE  Lifecycle!StatusNext
  <2>1. LifeStatus[s] = "none"
    BY <1>1, <1>6, InsertFacts, NothingFacts DEF LifeStatus
  <2>2. LifeStatus' = [LifeStatus EXCEPT ![s] = "queued"]
    <3>1. \A z \in Scans : scans'[z].status = IF z = s THEN "queued" ELSE scans[z].status
      BY <1>1, <1>6, InsertFacts
    <3> QED
      BY <3>1 DEF LifeStatus
  <2> QED
    BY <1>4, <2>1, <2>2, SuccessorFacts
<1>7. ASSUME NEW s \in Scans, Age(s)
      PROVE  UNCHANGED LifeStatus
  BY <1>1, <1>7, AgeFacts DEF LifeStatus
<1>8. CASE \E s \in Scans : RunStep(s) \/ Expire(s)
  BY <1>2, <1>5, <1>8, RunStatus
<1>9. CASE \E t \in Starters, p \in Prefixes : CheckScan(t, p)
  BY <1>2, <1>9 DEF CheckScan, tables
<1>10. CASE Rest
  BY <1>3, <1>7, <1>10 DEF Rest
<1>11. CASE UNCHANGED discoveryVars
  BY <1>2, <1>11 DEF discoveryVars
<1> QED
  BY <1>1, <1>6, <1>8, <1>9, <1>10, <1>11, RestStep

\* A scan record goes from queued over running to completed or failed, ends
\* once, and is opened by no failure, timeout or restart.
THEOREM DiscoveryImplementsLifecycle == DiscoverySpec => ImplementsScanLifecycle
<1>1. DiscoveryInit => Lifecycle!InitialStatus
  BY NothingFacts DEF DiscoveryInit, Lifecycle!InitialStatus
<1>2. StatusInv /\ [DiscoveryNext]_discoveryVars
        => [Lifecycle!StatusNext]_([s \in Scans |-> scans[s].status])
  BY LifecycleStep DEF LifeStatus
<1> QED
  BY <1>1, <1>2, StatusHolds, PTL
     DEF DiscoverySpec, ImplementsScanLifecycle, Lifecycle!StatusSpec

-----------------------------------------------------------------------------
(* One scan of a prefix at a time.                                         *)

ActiveOf(p) == {s \in Scans : scans[s].prefix = p /\ scans[s].status \in Active}

\* A record that is queued or running was so before, for the same prefix, or has
\* just been inserted.
LEMMA ActiveBefore ==
  ASSUME StatusInv, DiscoveryNext, NEW s \in Scans, scans'[s].status \in Active
  PROVE  \/ scans[s].status \in Active /\ scans'[s].prefix = scans[s].prefix
         \/ \E t \in Starters : InsertScan(t, s)
<1>1. DiscoveryTypeOK /\ scans \in [Scans -> Scan \cup {NoScan}]
  BY DEF StatusInv, DiscoveryTypeOK
<1>2. CASE UNCHANGED scans
  BY <1>2
<1>3. ASSUME NEW z \in Scans, RunStep(z) \/ Expire(z), ~UNCHANGED scans
      PROVE  scans[s].status \in Active /\ scans'[s].prefix = scans[s].prefix
  <2>1. PICK next \in Lifecycle!Successors[scans[z].status] : UpdateDiscoveryScanStatus(z, next)
    BY <1>3, RunStatus DEF Moves
  <2>2. scans[z] \in Scan
    BY <1>1, <2>1 DEF UpdateDiscoveryScanStatus
  <2>3. scans[z].status \in Active \cup {"completed", "failed"}
    BY <2>2 DEF Scan
  <2>4. scans[z].status \in Active
    BY <2>1, <2>3, SuccessorFacts
  <2>5. [scans[z] EXCEPT !.status = next].prefix = scans[z].prefix
    BY <2>2 DEF Scan
  <2> QED
    BY <1>1, <2>1, <2>4, <2>5 DEF UpdateDiscoveryScanStatus
<1>4. ASSUME NEW t \in Starters, NEW p \in Prefixes, CheckScan(t, p)
      PROVE  UNCHANGED scans
  BY <1>4 DEF CheckScan, tables
<1>5. ASSUME NEW t \in Starters, NEW z \in Scans, InsertScan(t, z)
      PROVE  z = s \/ scans'[s] = scans[s]
  BY <1>1, <1>5, InsertFacts
<1>6. CASE Rest
  <2>1. CASE Deletes
    BY <2>1, NothingFacts DEF Deletes, Active
  <2>2. CASE \E z \in Scans : Age(z)
    BY <1>1, <2>2, AgeFacts
  <2> QED
    BY <1>6, <2>1, <2>2 DEF Rest
<1> QED
  BY <1>1, <1>2, <1>3, <1>4, <1>5, <1>6, RestStep

\* A thread starts for a prefix only where it finds no scan queued or running.
LEMMA StartAfter ==
  ASSUME StatusInv, DiscoveryNext, NEW t \in Starters
  PROVE  \/ start'[t] \in {start[t], None}
         \/ UNCHANGED scans /\ GetRunningOrQueuedScansForPrefix(start'[t]) = {}
<1>1. DiscoveryTypeOK /\ start \in [Starters -> Prefixes \cup {None}]
  BY DEF StatusInv, DiscoveryTypeOK
<1>2. ASSUME NEW s \in Scans, RunStep(s) \/ Expire(s)
      PROVE  UNCHANGED start
  BY <1>2, RunStatus
<1>3. ASSUME NEW u \in Starters, NEW p \in Prefixes, CheckScan(u, p)
      PROVE  \/ start'[t] \in {start[t], None}
             \/ UNCHANGED scans /\ GetRunningOrQueuedScansForPrefix(start'[t]) = {}
  BY <1>1, <1>3 DEF CheckScan, tables
<1>4. ASSUME NEW u \in Starters, NEW s \in Scans, InsertScan(u, s)
      PROVE  start'[t] \in {start[t], None}
  BY <1>1, <1>4, InsertFacts
<1> QED
  BY <1>1, <1>2, <1>3, <1>4, RestStep DEF Rest

\* A thread that is starting a scan has missed all that are active by now, and
\* the starts of any two active ones overlapped.
OneScanInv ==
  /\ \A t \in Starters : start[t] # None => ActiveOf(start[t]) \subseteq missed[t]
  /\ \A p \in Prefixes : \A s, r \in ActiveOf(p) : s = r \/ {s, r} \in overlapped

\* What HistoryNext says of the two scans of one prefix that are active after it.
LEMMA OneScanStep ==
  ASSUME StatusInv, OneScanInv, HistoryNext
  PROVE  OneScanInv'
<1>1. DiscoveryNext /\ DiscoveryTypeOK /\ start \in [Starters -> Prefixes \cup {None}]
  BY DEF HistoryNext, StatusInv, DiscoveryTypeOK
<1>2. ASSUME NEW s \in Scans, scans'[s].status \in Active,
             NEW t \in Starters, InsertScan(t, s)
      PROVE  /\ s \in Inserted /\ start[t] = scans'[s].prefix /\ start[t] # None
             /\ \A r \in Scans \ {s} : scans'[r] = scans[r]
  BY <1>1, <1>2, InsertFacts, DiscoveryAssumption DEF Inserted
<1>3. ASSUME NEW t \in Starters, start'[t] # None, NEW s \in ActiveOf(start[t])'
      PROVE  s \in missed'[t]
  <2>1. s \in ActiveScans' /\ s \in Scans /\ scans'[s].status \in Active
        /\ scans'[s].prefix = start'[t]
    BY <1>3 DEF ActiveOf, ActiveScans
  <2>2. CASE start'[t] = start[t]
    <3>1. missed'[t] = (missed[t] \cup Inserted) \cap ActiveScans'
      BY <1>3, <2>2 DEF HistoryNext
    <3>2. CASE scans[s].status \in Active /\ scans'[s].prefix = scans[s].prefix
      <4>1. s \in ActiveOf(start[t])
        BY <2>1, <2>2, <3>2 DEF ActiveOf
      <4> QED
        BY <1>3, <2>1, <2>2, <3>1, <4>1 DEF OneScanInv
    <3>3. CASE s \in Inserted
      BY <2>1, <3>1, <3>3
    <3> QED
      BY <1>1, <1>2, <2>1, <3>2, <3>3, ActiveBefore
  <2>3. CASE start'[t] # start[t]
    <3>1. UNCHANGED scans /\ GetRunningOrQueuedScansForPrefix(start'[t]) = {}
      BY <1>1, <1>3, <2>3, StartAfter
    <3> QED
      BY <2>1, <3>1 DEF GetRunningOrQueuedScansForPrefix
  <2> QED
    BY <2>2, <2>3
<1>4. ASSUME NEW s \in Scans, NEW r \in Scans, s # r,
             scans'[s].status \in Active, scans'[r].status \in Active,
             scans'[s].prefix = scans'[r].prefix, NEW t \in Starters, InsertScan(t, s)
      PROVE  {s, r} \in overlapped'
  <2>1. scans'[r] = scans[r] /\ start[t] = scans'[s].prefix /\ start[t] # None /\ s \in Inserted
    BY <1>2, <1>4
  <2>2. r \in missed[t]
    BY <1>4, <2>1 DEF OneScanInv, ActiveOf
  <2>3. Misses(s, r) /\ {s, r} \in SUBSET ActiveScans'
    BY <1>4, <2>2 DEF Misses, ActiveScans
  <2> QED
    BY <2>1, <2>3 DEF HistoryNext
<1>5. ASSUME NEW p \in Prefixes, NEW s \in ActiveOf(p)', NEW r \in ActiveOf(p)', s # r
      PROVE  {s, r} \in overlapped'
  <2>1. /\ s \in Scans /\ scans'[s].status \in Active /\ scans'[s].prefix = p
        /\ r \in Scans /\ scans'[r].status \in Active /\ scans'[r].prefix = p
    BY <1>5 DEF ActiveOf
  <2>2. CASE \E t \in Starters : InsertScan(t, s)
    BY <1>4, <1>5, <2>1, <2>2
  <2>3. CASE \E t \in Starters : InsertScan(t, r)
    <3>1. {r, s} = {s, r}
      OBVIOUS
    <3> QED
      BY <1>4, <1>5, <2>1, <2>3, <3>1
  <2>4. CASE scans[s].status \in Active /\ scans[s].prefix = p
             /\ scans[r].status \in Active /\ scans[r].prefix = p
    <3>1. {s, r} \in overlapped
      BY <1>5, <2>1, <2>4 DEF OneScanInv, ActiveOf
    <3>2. {s, r} \in SUBSET ActiveScans'
      BY <2>1 DEF ActiveScans
    <3> QED
      BY <3>1, <3>2 DEF HistoryNext
  <2> QED
    BY <1>1, <2>1, <2>2, <2>3, <2>4, ActiveBefore
<1>6. \A t \in Starters : start'[t] # None => ActiveOf(start[t])' \subseteq missed'[t]
  BY <1>3
<1>7. \A p \in Prefixes : \A s, r \in ActiveOf(p)' : s = r \/ {s, r} \in overlapped'
  BY <1>5
<1> QED
  BY <1>6, <1>7 DEF OneScanInv

\* The history constrains nothing: a behaviour with it is one of Discovery.
LEMMA HistoryRefines == HistorySpec => DiscoverySpec
<1>1. HistoryInit => DiscoveryInit
  BY DEF HistoryInit
<1>2. [HistoryNext]_historyVars => [DiscoveryNext]_discoveryVars
  BY DEF HistoryNext, historyVars
<1> QED
  BY <1>1, <1>2, PTL DEF HistorySpec, DiscoverySpec

\* At most one record of a prefix is queued or running, whatever fails, expires
\* or stops, but for those whose starts overlapped.
THEOREM OneScan == HistorySpec => []OneScanPerPrefix
<1>1. HistoryInit => OneScanInv
  BY NothingFacts DEF HistoryInit, DiscoveryInit, OneScanInv, ActiveOf, Active
<1>2. StatusInv /\ OneScanInv /\ [HistoryNext]_historyVars => OneScanInv'
  <2> SUFFICES ASSUME StatusInv, OneScanInv, UNCHANGED historyVars PROVE OneScanInv'
    BY OneScanStep
  <2> QED
    BY DEF historyVars, discoveryVars, OneScanInv, ActiveOf
<1>3. OneScanInv => OneScanPerPrefix
  BY DEF OneScanInv, OneScanPerPrefix, ActiveOf, GetRunningOrQueuedScansForPrefix
<1>4. HistorySpec => []StatusInv
  BY HistoryRefines, StatusHolds, PTL
<1> QED
  BY <1>1, <1>2, <1>3, <1>4, PTL DEF HistorySpec

-----------------------------------------------------------------------------
(* What an accepted result is linked to.                                   *)

\* While its scan is there, a is about its prefix, and while the row that a has
\* found or created is there and not moved, it has the prefix and the address of
\* the result.
AcceptOf(a) ==
  /\ accept[a].at # "idle" /\ scans[accept[a].result[1]] # NoScan =>
       scans[accept[a].result[1]].prefix = accept[a].prefix
  /\ a \in moved => Acting(a)
  /\ Acting(a) /\ a \notin moved /\ rows[accept[a].row] # NoRow =>
       Place(a) = <<accept[a].prefix, accept[a].result[2]>>

AcceptInv == StatusInv /\ \A a \in Acceptors : AcceptOf(a)

\* It holds as long as the tables keep what a refers to, move it, or lose it.
LEMMA AcceptKept ==
  ASSUME HistoryNext,
         NEW a \in Acceptors, AcceptOf(a), accept'[a] \in {accept[a], NoAccept},
         \A s \in Scans : accept[a].at # "idle" /\ accept[a].result[1] = s =>
           scans'[s] = NoScan \/ (scans[s] # NoScan /\ scans'[s].prefix = scans[s].prefix),
         \A i \in Rows : accept[a].at # "idle" /\ accept[a].row = i =>
           rows'[i] = NoRow \/ rows[i] # NoRow,
         DiscoveryTypeOK
  PROVE  AcceptOf(a)'
<1>1. a \in moved' <=> /\ Acting(a) /\ Acting(a)'
                       /\ a \in moved \/ (rows'[accept[a].row] # NoRow /\ Place(a)' # Place(a))
  BY DEF HistoryNext
<1>2. CASE accept'[a] = NoAccept
  BY <1>1, <1>2, NothingFacts DEF AcceptOf, Acting
<1>3. CASE accept'[a] = accept[a]
  <2>1. accept[a].at # "idle" => accept[a].result[1] \in Scans
    BY DEF DiscoveryTypeOK, ResultIds
  <2>2. Acting(a) => accept[a].row \in Rows
    BY DEF DiscoveryTypeOK, Acting
  <2>3. Acting(a)' = Acting(a)
    BY <1>3 DEF Acting
  <2>4. accept[a].at # "idle" /\ scans'[accept[a].result[1]] # NoScan =>
          scans'[accept[a].result[1]].prefix = accept[a].prefix
    BY <2>1 DEF AcceptOf
  <2>5. ASSUME Acting(a), a \notin moved', rows'[accept[a].row] # NoRow
        PROVE  Place(a)' = <<accept[a].prefix, accept[a].result[2]>>
    <3>1. a \notin moved /\ Place(a)' = Place(a)
      BY <1>1, <2>3, <2>5
    <3>2. rows[accept[a].row] # NoRow
      BY <2>2, <2>5 DEF Acting
    <3> QED
      BY <2>5, <3>1, <3>2 DEF AcceptOf
  <2> QED
    BY <1>1, <1>3, <2>3, <2>4, <2>5 DEF AcceptOf
<1> QED
  BY <1>2, <1>3

\* The records keep their prefix, but for the one that InsertScan adds, whose id
\* nobody refers to.
LEMMA PrefixKept ==
  ASSUME StatusInv, DiscoveryNext, NEW s \in Scans
  PROVE  \/ scans'[s] = NoScan
         \/ scans[s] # NoScan /\ scans'[s].prefix = scans[s].prefix
         \/ \A a \in Acceptors : accept[a].at # "idle" => accept[a].result[1] # s
<1>1. DiscoveryTypeOK /\ scans \in [Scans -> Scan \cup {NoScan}]
  BY DEF StatusInv, DiscoveryTypeOK
<1>2. CASE UNCHANGED scans
  BY <1>2
<1>3. ASSUME NEW z \in Scans, RunStep(z) \/ Expire(z), ~UNCHANGED scans
      PROVE  scans'[s] = NoScan \/ (scans[s] # NoScan /\ scans'[s].prefix = scans[s].prefix)
  <2>1. PICK next \in Lifecycle!Successors[scans[z].status] : UpdateDiscoveryScanStatus(z, next)
    BY <1>3, RunStatus DEF Moves
  <2>2. scans[z] \in Scan
    BY <1>1, <2>1 DEF UpdateDiscoveryScanStatus
  <2>3. [scans[z] EXCEPT !.status = next].prefix = scans[z].prefix
    BY <2>2 DEF Scan
  <2> QED
    BY <1>1, <2>1, <2>2, <2>3 DEF UpdateDiscoveryScanStatus
<1>4. ASSUME NEW t \in Starters, NEW p \in Prefixes, CheckScan(t, p)
      PROVE  UNCHANGED scans
  BY <1>4 DEF CheckScan, tables
<1>5. ASSUME NEW t \in Starters, NEW z \in Scans, InsertScan(t, z)
      PROVE  \/ scans'[s] = scans[s]
             \/ \A a \in Acceptors : accept[a].at # "idle" => accept[a].result[1] # s
  <2>1. CASE s = z
    BY <1>5, <2>1, NothingFacts DEF InsertScan, CreateDiscoveryScan, FreeScan
  <2>2. CASE s # z
    BY <1>1, <1>5, <2>2, InsertFacts
  <2> QED
    BY <2>1, <2>2
<1>6. CASE Rest
  <2>1. CASE Deletes
    BY <2>1 DEF Deletes
  <2>2. CASE \E z \in Scans : Age(z)
    BY <1>1, <2>2, AgeFacts
  <2> QED
    BY <1>6, <2>1, <2>2 DEF Rest
<1> QED
  BY <1>1, <1>2, <1>3, <1>4, <1>5, <1>6, RestStep

\* The goroutines of scans write no address, no accept and no scope.
LEMMA RunLeaves ==
  ASSUME \E s \in Scans : RunStep(s) \/ Expire(s) \/ Age(s)
  PROVE  UNCHANGED <<rows, accept, scope>>
<1>1. PICK s \in Scans : RunStep(s) \/ Expire(s) \/ Age(s)
  OBVIOUS
<1>2. CASE Expire(s) \/ Age(s)
  BY <1>2 DEF Expire, Age, runVars, threads
<1>3. CASE BeginScan(s) \/ MarkRunning(s) \/ ReadAddresses(s) \/ ProbingEnds(s)
  BY <1>3 DEF BeginScan, MarkRunning, ReadAddresses, ProbingEnds, runVars, threads
<1>4. ASSUME NEW h \in Hosts, TakeHost(s, h) \/ Answers(s, h) \/ NoAnswer(s, h)
      PROVE  UNCHANGED <<rows, accept, scope>>
  BY <1>4 DEF TakeHost, Answers, NoAnswer, runVars, threads
<1>5. ASSUME NEW h \in Hosts, PersistSeen(s, h) \/ PersistStale(s, h)
      PROVE  UNCHANGED <<rows, accept, scope>>
  BY <1>5 DEF PersistSeen, PersistStale, runVars, threads
<1>6. CASE CompleteScan(s) \/ FailScan(s)
  BY <1>6 DEF CompleteScan, FailScan, runVars, threads
<1> QED
  BY <1>1, <1>2, <1>3, <1>4, <1>5, <1>6 DEF RunStep

\* The id of a row that a refers to is not used again once the row is deleted.
LEMMA RowKept ==
  ASSUME DiscoveryTypeOK, DiscoveryNext,
         NEW a \in Acceptors, NEW i \in Rows, accept[a].at # "idle", accept[a].row = i
  PROVE  rows'[i] = NoRow \/ rows[i] # NoRow
<1>1. rows \in [Rows -> Row \cup {NoRow}] /\ accept[a] # NoAccept
  BY NothingFacts DEF DiscoveryTypeOK
<1>2. CASE UNCHANGED rows
  BY <1>1, <1>2
<1>3. ASSUME NEW j \in Rows, NEW p, NEW h, NEW status, CreateIPAddress(j, p, h, status)
      PROVE  rows'[i] = rows[i]
  BY <1>1, <1>3 DEF CreateIPAddress, FreeRow
<1>4. CASE TickScheduled \/ \E t \in Starters : StartStep(t)
  BY <1>2, <1>4 DEF TickScheduled, StartStep, CheckScan, InsertScan, StartFails, tables
<1>5. CASE \E s \in Scans : RunStep(s) \/ Expire(s) \/ Age(s)
  BY <1>2, <1>5, RunLeaves
<1>6. CASE \E b \in Acceptors : AcceptStep(b)
  <2>1. PICK b \in Acceptors : AcceptStep(b)
    BY <1>6
  <2>2. CASE \E j \in Rows : CreateAddress(b, j)
    BY <1>1, <1>3, <2>2 DEF CreateAddress
  <2>3. CASE UNCHANGED rows
    BY <1>2, <2>3
  <2> QED
    BY <2>1, <2>2, <2>3 DEF AcceptStep, AcceptResult, FindAddress, LinkResult, AcceptFails
<1>7. CASE \E id \in ResultIds : IgnoreResult(id)
  BY <1>2, <1>7 DEF IgnoreResult
<1>8. ASSUME NEW j \in Rows, NewRow(j)
      PROVE  rows'[i] = rows[i]
  BY <1>3, <1>8 DEF NewRow
<1>9. ASSUME NEW j \in Rows, SetStatus(j) \/ EditRow(j)
      PROVE  rows[j] # NoRow /\ (i = j \/ rows'[i] = rows[i])
  BY <1>1, <1>9 DEF SetStatus, EditRow, UpdateIPAddressStatus, UpdateIPAddress
<1>10. ASSUME NEW j \in Rows, DeleteRow(j)
       PROVE  rows'[i] \in {rows[i], NoRow}
  BY <1>1, <1>10 DEF DeleteRow, DeleteIPAddress
<1>11. ASSUME NEW p \in Prefixes, DropPrefix(p)
       PROVE  rows'[i] \in {rows[i], NoRow}
  BY <1>1, <1>11 DEF DropPrefix, DeletePrefix
<1>12. CASE \E p \in Prefixes : SetScanConfig(p)
  BY <1>2, <1>12 DEF SetScanConfig
<1>13. CASE CleanupDiscoveryScans \/ CleanupDiscoveryResults \/ ServerStops
  BY <1>2, <1>13 DEF CleanupDiscoveryScans, CleanupDiscoveryResults, ServerStops, tables
<1>14. CASE IpamStep
  BY <1>1, <1>8, <1>9, <1>10, <1>11, <1>12, <1>14 DEF IpamStep
<1> QED
  BY <1>4, <1>5, <1>6, <1>7, <1>13, <1>14 DEF DiscoveryNext

\* An acceptor goes on, ends, or stays where it is.
LEMMA AcceptorMoves ==
  ASSUME DiscoveryTypeOK, DiscoveryNext, NEW a \in Acceptors
  PROVE  \/ accept'[a] \in {accept[a], NoAccept}
         \/ \E id \in ResultIds : AcceptResult(a, id)
         \/ FindAddress(a)
         \/ \E i \in Rows : CreateAddress(a, i)
<1>1. accept \in [Acceptors -> Accept]
  BY DEF DiscoveryTypeOK
<1>2. CASE TickScheduled \/ \E t \in Starters : StartStep(t)
  BY <1>2 DEF TickScheduled, StartStep, CheckScan, InsertScan, StartFails
<1>3. CASE \E s \in Scans : RunStep(s) \/ Expire(s) \/ Age(s)
  BY <1>3, RunLeaves
<1>4. CASE \E b \in Acceptors : AcceptStep(b)
  <2>1. PICK b \in Acceptors : AcceptStep(b)
    BY <1>4
  <2>2. CASE b = a
    BY <1>1, <2>1, <2>2 DEF AcceptStep, LinkResult, AcceptFails, Returns
  <2>3. CASE b # a
    BY <1>1, <2>1, <2>3 DEF AcceptStep, AcceptResult, FindAddress, CreateAddress, LinkResult,
                            AcceptFails, Returns
  <2> QED
    BY <2>2, <2>3
<1>5. CASE IpamStep \/ \E id \in ResultIds : IgnoreResult(id)
  BY <1>5 DEF IpamStep, NewRow, SetStatus, EditRow, DeleteRow, SetScanConfig, DropPrefix, IgnoreResult,
              threads
<1>6. CASE CleanupDiscoveryScans \/ CleanupDiscoveryResults
  BY <1>6 DEF CleanupDiscoveryScans, CleanupDiscoveryResults, threads
<1>7. CASE ServerStops
  BY <1>7 DEF ServerStops
<1> QED
  BY <1>2, <1>3, <1>4, <1>5, <1>6, <1>7 DEF DiscoveryNext

LEMMA AcceptHolds == HistorySpec => []AcceptInv
<1>1. HistoryInit => \A a \in Acceptors : AcceptOf(a)
  BY NothingFacts DEF HistoryInit, DiscoveryInit, AcceptOf, Acting
<1>2. StatusInv' /\ AcceptInv /\ [HistoryNext]_historyVars => AcceptInv'
  <2> SUFFICES ASSUME StatusInv', AcceptInv, HistoryNext \/ UNCHANGED historyVars,
                      NEW a \in Acceptors
               PROVE  AcceptOf(a)'
    BY DEF AcceptInv
  <2>1. StatusInv /\ DiscoveryTypeOK
    BY DEF AcceptInv, StatusInv
  <2>2. CASE UNCHANGED historyVars
    BY <2>2 DEF historyVars, discoveryVars, AcceptInv, AcceptOf, Acting, Place
  <2> SUFFICES ASSUME HistoryNext PROVE AcceptOf(a)'
    BY <2>2
  <2>3. DiscoveryNext /\ AcceptOf(a)
    BY DEF AcceptInv, HistoryNext
  <2>4. accept \in [Acceptors -> Accept] /\ accept[a] \in Accept
    BY <2>1 DEF DiscoveryTypeOK
  <2>5. CASE accept'[a] \in {accept[a], NoAccept}
    BY <2>1, <2>3, <2>5, PrefixKept, RowKept, AcceptKept
  <2>9. a \in moved' => Acting(a) /\ Acting(a)'
    BY DEF HistoryNext
  <2>6. ASSUME NEW id \in ResultIds, AcceptResult(a, id)
        PROVE  AcceptOf(a)'
    <3>1. /\ accept'[a].at = "read" /\ accept'[a].result = id
          /\ accept'[a].prefix = scans[id[1]].prefix /\ UNCHANGED scans
      BY <2>4, <2>6 DEF AcceptResult, acceptVars
    <3>2. accept[a].at = "idle"
      BY <2>6 DEF AcceptResult, NoAccept
    <3> QED
      BY <2>9, <3>1, <3>2 DEF AcceptOf, Acting
  <2>7. CASE FindAddress(a)
    <3>1. accept[a].at = "read" /\ UNCHANGED <<scans, rows>>
      BY <2>7 DEF FindAddress, acceptVars
    <3>2. ASSUME NEW i \in Rows, rows[i].prefix = accept[a].prefix,
                 rows[i].address = accept[a].result[2],
                 accept' = [accept EXCEPT ![a] = [@ EXCEPT !.at = "found", !.row = i]]
          PROVE  AcceptOf(a)'
      <4> DEFINE x == [accept[a] EXCEPT !.at = "found", !.row = i]
      <4>1. /\ x.at = "found" /\ x.row = i /\ x.result = accept[a].result
            /\ x.prefix = accept[a].prefix
        BY <2>4 DEF Accept
      <4>2. accept'[a] = x
        BY <2>4, <3>2
      <4> HIDE DEF x
      <4> QED
        BY <2>3, <2>9, <3>1, <3>2, <4>1, <4>2 DEF AcceptOf, Acting, Place
    <3>3. CASE accept' = [accept EXCEPT ![a].at = "create"]
      <4> DEFINE x == [accept[a] EXCEPT !.at = "create"]
      <4>1. x.at = "create" /\ x.result = accept[a].result /\ x.prefix = accept[a].prefix
        BY <2>4 DEF Accept
      <4>2. accept'[a] = x
        BY <2>4, <3>3
      <4> HIDE DEF x
      <4> QED
        BY <2>3, <2>9, <3>1, <4>1, <4>2 DEF AcceptOf, Acting
    <3> QED
      BY <2>7, <3>2, <3>3 DEF FindAddress, GetIPAddressesByPrefix
  <2>8. ASSUME NEW i \in Rows, CreateAddress(a, i)
        PROVE  AcceptOf(a)'
    <3> DEFINE x == [accept[a] EXCEPT !.at = "link", !.row = i]
               row == [prefix |-> accept[a].prefix, address |-> accept[a].result[2],
                       status |-> "assigned"]
    <3>1. x.at = "link" /\ x.row = i /\ x.result = accept[a].result /\ x.prefix = accept[a].prefix
      BY <2>4 DEF Accept
    <3>2. row.prefix = accept[a].prefix /\ row.address = accept[a].result[2]
      OBVIOUS
    <3>3. accept' = [accept EXCEPT ![a] = x] /\ rows' = [rows EXCEPT ![i] = row]
          /\ UNCHANGED scans /\ accept[a].at = "create"
      BY <2>8 DEF CreateAddress, CreateIPAddress, acceptVars
    <3> HIDE DEF x, row
    <3>4. accept'[a] = x /\ rows'[i] = row
      BY <2>1, <2>4, <3>3 DEF DiscoveryTypeOK
    <3> QED
      BY <2>3, <2>9, <3>1, <3>2, <3>3, <3>4 DEF AcceptOf, Acting, Place
  <2> QED
    BY <2>1, <2>3, <2>5, <2>6, <2>7, <2>8, AcceptorMoves
<1>3. HistoryInit /\ StatusInv => AcceptInv
  BY <1>1 DEF AcceptInv
<1>4. HistorySpec => []StatusInv
  BY HistoryRefines, StatusHolds, PTL
<1> QED
  BY <1>2, <1>3, <1>4, PTL DEF HistorySpec

\* A result is linked to a row with its address, in its prefix, unless the row
\* has been moved since it was found.
THEOREM LinksMatch == HistorySpec => LinkMatches
<1>1. AcceptInv /\ [HistoryNext]_historyVars =>
        [\A a \in Acceptors \ moved :
           LinkResult(a) =>
             Place(a) = <<scans[accept[a].result[1]].prefix, accept[a].result[2]>>]_historyVars
  <2> SUFFICES ASSUME AcceptInv, NEW a \in Acceptors, a \notin moved, LinkResult(a)
               PROVE  Place(a) = <<scans[accept[a].result[1]].prefix, accept[a].result[2]>>
    OBVIOUS
  <2>1. DiscoveryTypeOK /\ AcceptOf(a)
    BY DEF AcceptInv, StatusInv
  <2>2. /\ Acting(a) /\ rows[accept[a].row] # NoRow /\ results[accept[a].result] # NoResult
        /\ accept[a].at # "idle"
    BY DEF LinkResult, Acting, UpdateDiscoveryResultAccepted
  <2>3. accept[a].result \in ResultIds
    BY <2>1, <2>2 DEF DiscoveryTypeOK
  <2>4. scans[accept[a].result[1]] # NoScan
    BY <2>1, <2>2, <2>3 DEF DiscoveryTypeOK
  <2> QED
    BY <2>1, <2>2, <2>4 DEF AcceptOf
<1> QED
  BY <1>1, AcceptHolds, PTL DEF HistorySpec, LinkMatches
=============================================================================
