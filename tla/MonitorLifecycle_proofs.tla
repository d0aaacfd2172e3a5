---------------------- MODULE MonitorLifecycle_proofs ----------------------
(***************************************************************************)
(* Theorems of IncidentService and MonitorLifecycle, for any monitors,     *)
(* threads, requests, bounds and faults: their types, that the life cycle  *)
(* implements the incident service, and what the enabled flag says of the  *)
(* status; and of MonitorHistory: when incidents and the retry threshold   *)
(* agree with the status.                                                  *)
(***************************************************************************)
EXTENDS MonitorHistory, SequenceTheorems, WellFoundedInduction, TLAPS

-----------------------------------------------------------------------------
(* The incident service, whoever calls it: theorems of IncidentSpec.       *)

\* NewestOf(ids), the row of ORDER BY started_at DESC LIMIT 1: it is one of the
\* rows that match, and no other one is newer.
LEMMA NewestOfProperty ==
  ASSUME NEW n \in Nat, NEW ids \in SUBSET (1..n), ids # {}
  PROVE  /\ NewestOf(ids) \in ids
         /\ \A j \in ids : j <= NewestOf(ids)
<1> DEFINE R == OpToRel(<, Nat)
           T == {n - i : i \in ids}
<1>1. T \subseteq Nat /\ T # {}
  <2>1. \A i \in ids : i \in 1..n /\ n - i \in Nat
    OBVIOUS
  <2>2. PICK i \in ids : TRUE
    OBVIOUS
  <2>3. n - i \in T
    BY <2>2
  <2> QED
    BY <2>1, <2>3
<1>2. IsWellFoundedOn(R, Nat)
  BY NatLessThanWellFounded
<1>3. PICK x \in T : \A y \in T : ~ (<<y, x>> \in R)
  <2> HIDE DEF R, T
  <2> QED BY <1>1, <1>2, WFMin
<1>4. \A y \in T : ~ (y < x)
  BY <1>1, <1>3 DEF OpToRel
<1>5. PICK i \in ids : x = n - i
  OBVIOUS
<1>6. \A j \in ids : j <= i
  BY <1>4, <1>5
<1> QED
  BY <1>6 DEF NewestOf
-----------------------------------------------------------------------------
(* The inductive invariant.                                                *)

\* The hooks of a scheduled monitor come one at a time.
OneHook ==
  \A t, u \in Threads :
    /\ call[t].monitor \in Monitors \ PushMonitors
    /\ call[u].monitor = call[t].monitor
    => t = u

\* While a hook is about to insert, no incident of its monitor is open.
InsertKnows ==
  \A t \in Threads : \A i \in DOMAIN incidents :
    /\ call[t].step = "insert"
    /\ call[t].monitor \notin PushMonitors
    /\ incidents[i].monitor = call[t].monitor
    => incidents[i].status # "open"

\* While a hook is about to resolve, no incident is open but the one it found.
ResolveKnows ==
  \A t \in Threads : \A i \in DOMAIN incidents :
    /\ call[t].step = "resolve"
    /\ call[t].monitor \in Monitors \ PushMonitors
    /\ incidents[i].monitor = call[t].monitor
    /\ incidents[i].status = "open"
    => i = call[t].id

IncidentInv ==
  IncidentTypeOK /\ OpenIsNewest /\ OneHook /\ InsertKnows /\ ResolveKnows

-----------------------------------------------------------------------------
(* Lemmas about the steps.                                                 *)

\* What the type invariant says of one row and of one call.
LEMMA TypeFacts ==
  ASSUME IncidentTypeOK
  PROVE  /\ DOMAIN incidents = 1..Len(incidents)
         /\ Len(incidents) \in Nat
         /\ \A i \in DOMAIN incidents : incidents[i] \in Incident
         /\ \A t \in Threads : call[t] \in Call
BY LenProperties, ElementOfSeq DEF IncidentTypeOK

\* An UPDATE by id writes the status of one row, unless the row is gone.
LEMMA UpdateProperty ==
  ASSUME incidents \in Seq(Incident),
         NEW i \in DOMAIN incidents,
         NEW status \in {"acknowledged", "resolved"},
         NEW recovered \in BOOLEAN,
         Update(i, status, recovered)
  PROVE  /\ incidents' \in Seq(Incident)
         /\ DOMAIN incidents' = DOMAIN incidents
         /\ \A j \in DOMAIN incidents :
              /\ incidents'[j].monitor = incidents[j].monitor
              /\ incidents'[j].status =
                   IF j = i /\ incidents[i].status # "deleted" THEN status
                   ELSE incidents[j].status
              /\ incidents'[j].recovered =
                   IF j = i /\ incidents[i].status # "deleted" THEN recovered
                   ELSE incidents[j].recovered
<1>1. CASE incidents[i].status = "deleted"
  BY <1>1 DEF Update
<1>2. CASE incidents[i].status # "deleted"
  <2> DEFINE e == [incidents[i] EXCEPT !.status = status, !.recovered = recovered]
  <2>1. i \in 1..Len(incidents) /\ incidents[i] \in Incident
    BY LenProperties, ElementOfSeq
  <2>2. /\ e \in Incident /\ e.status = status /\ e.recovered = recovered
        /\ e.monitor = incidents[i].monitor
    BY <2>1 DEF Incident
  <2>3. incidents' = [incidents EXCEPT ![i] = e]
    BY <1>2 DEF Update
  <2> HIDE DEF e
  <2>4. /\ incidents' \in Seq(Incident)
        /\ Len(incidents') = Len(incidents)
        /\ \A j \in 1..Len(incidents) : incidents'[j] = IF j = i THEN e ELSE incidents[j]
    BY <2>1, <2>2, <2>3, ExceptSeq
  <2>5. DOMAIN incidents = 1..Len(incidents) /\ DOMAIN incidents' = 1..Len(incidents')
    BY <2>4, LenProperties
  <2> QED
    BY <1>2, <2>2, <2>4, <2>5
<1> QED
  BY <1>1, <1>2

\* A step that inserts no row, opens none and begins no call keeps the four
\* facts about open incidents.
LEMMA NothingOpened ==
  ASSUME IncidentInv,
         DOMAIN incidents' = DOMAIN incidents,
         \A i \in DOMAIN incidents :
           /\ incidents'[i].monitor = incidents[i].monitor
           /\ incidents'[i].status = "open" => incidents[i].status = "open",
         \A t \in Threads : call'[t] = call[t] \/ call'[t] = Idle
  PROVE  OpenIsNewest' /\ OneHook' /\ InsertKnows' /\ ResolveKnows'
<1>1. None \notin Monitors
  BY IncidentAssumption
<1>2. Idle.monitor = None /\ Idle.step = "idle"
  BY DEF Idle
<1>3. OpenIsNewest'
  BY DEF IncidentInv, OpenIsNewest
<1>4. OneHook'
  <2> SUFFICES ASSUME NEW t \in Threads, NEW u \in Threads,
                      call'[t].monitor \in Monitors \ PushMonitors,
                      call'[u].monitor = call'[t].monitor
               PROVE  t = u
    BY DEF OneHook
  <2>1. call'[t] = call[t] /\ call'[u] = call[u]
    BY <1>1, <1>2
  <2> QED
    BY <2>1 DEF IncidentInv, OneHook
<1>5. InsertKnows'
  <2> SUFFICES ASSUME NEW t \in Threads, NEW i \in DOMAIN incidents,
                      call'[t].step = "insert",
                      call'[t].monitor \notin PushMonitors,
                      incidents'[i].monitor = call'[t].monitor
               PROVE  incidents'[i].status # "open"
    BY DEF InsertKnows
  <2>1. call'[t] = call[t]
    BY <1>2
  <2> QED
    BY <2>1 DEF IncidentInv, InsertKnows
<1>6. ResolveKnows'
  <2> SUFFICES ASSUME NEW t \in Threads, NEW i \in DOMAIN incidents,
                      call'[t].step = "resolve",
                      call'[t].monitor \in Monitors \ PushMonitors,
                      incidents'[i].monitor = call'[t].monitor,
                      incidents'[i].status = "open"
               PROVE  i = call'[t].id
    BY DEF ResolveKnows
  <2>1. call'[t] = call[t]
    BY <1>2
  <2> QED
    BY <2>1 DEF IncidentInv, ResolveKnows
<1> QED
  BY <1>3, <1>4, <1>5, <1>6
-----------------------------------------------------------------------------
(* Type correctness, one lemma per kind of step.                           *)

\* A call begins.
LEMMA BeginType ==
  ASSUME IncidentTypeOK, NEW t \in Threads, NEW c \in Call, Begin(t, c),
         c.step # "idle",
         c.step = "insert" => c.monitor # None,
         c.step \in {"acknowledge", "resolve"} => c.id \in DOMAIN incidents
  PROVE  IncidentTypeOK'
<1>1. call' = [call EXCEPT ![t] = c] /\ incidents' = incidents /\ deleted' = deleted
  BY DEF Begin
<1>2. c # Idle
  BY DEF Idle
<1> QED
  BY <1>1, <1>2 DEF IncidentTypeOK

\* Calls end, and no row of the table goes.
LEMMA EndType ==
  ASSUME IncidentTypeOK,
         incidents' \in Seq(Incident),
         DOMAIN incidents \subseteq DOMAIN incidents',
         call' \in [Threads -> Call],
         \A t \in Threads : call'[t] = call[t] \/ call'[t] = Idle,
         deleted' \subseteq Monitors,
         \A i \in DOMAIN incidents' :
           incidents'[i].status = "deleted" <=> incidents'[i].monitor \in deleted'
  PROVE  IncidentTypeOK'
<1>1. Idle.step = "idle"
  BY DEF Idle
<1>2. ASSUME NEW t \in Threads
      PROVE  /\ call'[t].step = "idle" <=> call'[t] = Idle
             /\ call'[t].step = "insert" => call'[t].monitor # None
             /\ call'[t].step \in {"acknowledge", "resolve"} =>
                  call'[t].id \in DOMAIN incidents'
  <2>1. CASE call'[t] = Idle
    BY <2>1, <1>1
  <2>2. CASE call'[t] = call[t]
    BY <2>2 DEF IncidentTypeOK
  <2> QED
    BY <2>1, <2>2
<1> QED
  BY <1>2 DEF IncidentTypeOK

LEMMA EndFacts ==
  ASSUME IncidentTypeOK, NEW t \in Threads, End(t)
  PROVE  /\ call' \in [Threads -> Call]
         /\ \A u \in Threads : call'[u] = IF u = t THEN Idle ELSE call[u]
<1>1. Idle \in Call
  BY DEF Idle, Call
<1> QED
  BY <1>1 DEF IncidentTypeOK, End

-----------------------------------------------------------------------------
(* The invariant, one lemma per action.                                    *)

LEMMA OpenForMonitorStep ==
  ASSUME IncidentInv, NEW t \in Threads, NEW m \in Monitors,
         m \in PushMonitors \/ HookFree(m), OpenForMonitor(t, m)
  PROVE  IncidentInv'
<1> DEFINE c == [step |-> "insert", monitor |-> m, id |-> 0]
<1>1. /\ ActiveOf(m) = {}
      /\ Begin(t, c)
      /\ call \in [Threads -> Call]
  BY DEF OpenForMonitor, IncidentInv, IncidentTypeOK
<1>2. /\ incidents' = incidents
      /\ \A u \in Threads : call'[u] = IF u = t THEN c ELSE call[u]
  BY <1>1 DEF Begin
<1>3. c \in Call /\ m # None
  BY IncidentAssumption DEF Call
<1>4. IncidentTypeOK'
  BY <1>1, <1>3, BeginType DEF IncidentInv
<1>5. OpenIsNewest'
  BY <1>2 DEF IncidentInv, OpenIsNewest
<1>6. OneHook'
  BY <1>2 DEF IncidentInv, OneHook, HookFree
<1>7. InsertKnows'
  <2>1. \A i \in DOMAIN incidents : incidents[i].monitor = m => incidents[i].status # "open"
    BY <1>1 DEF ActiveOf
  <2> QED
    BY <1>2, <2>1 DEF IncidentInv, InsertKnows
<1>8. ResolveKnows'
  BY <1>2 DEF IncidentInv, ResolveKnows
<1> QED
  BY <1>4, <1>5, <1>6, <1>7, <1>8 DEF IncidentInv

LEMMA ResolveForMonitorStep ==
  ASSUME IncidentInv, NEW t \in Threads, NEW m \in Monitors,
         m \in PushMonitors \/ HookFree(m), ResolveForMonitor(t, m)
  PROVE  IncidentInv'
<1> DEFINE n == NewestOf(ActiveOf(m))
           c == [step |-> "resolve", monitor |-> m, id |-> n]
<1>1. /\ ActiveOf(m) # {}
      /\ Begin(t, c)
      /\ call \in [Threads -> Call]
  BY DEF ResolveForMonitor, IncidentInv, IncidentTypeOK
<1>2. /\ DOMAIN incidents = 1..Len(incidents)
      /\ Len(incidents) \in Nat
  BY TypeFacts DEF IncidentInv
<1>3. ActiveOf(m) \in SUBSET (1..Len(incidents))
  BY <1>2 DEF ActiveOf
<1>4. n \in ActiveOf(m) /\ \A j \in ActiveOf(m) : j <= n
  BY <1>1, <1>2, <1>3, NewestOfProperty
<1> HIDE DEF n
<1>5. n \in DOMAIN incidents /\ n \in Nat /\ incidents[n].monitor = m
  BY <1>2, <1>4 DEF ActiveOf
<1>6. /\ incidents' = incidents
      /\ \A u \in Threads : call'[u] = IF u = t THEN c ELSE call[u]
  BY <1>1 DEF Begin
<1>7. IncidentTypeOK'
  <2>1. c \in Call
    BY <1>5 DEF Call
  <2> QED
    BY <1>1, <1>5, <2>1, BeginType DEF IncidentInv
<1>8. OpenIsNewest'
  BY <1>6 DEF IncidentInv, OpenIsNewest
<1>9. OneHook'
  BY <1>6 DEF IncidentInv, OneHook, HookFree
<1>10. InsertKnows'
  BY <1>6 DEF IncidentInv, InsertKnows
<1>11. ResolveKnows'
  <2>1. ASSUME NEW i \in DOMAIN incidents, m \notin PushMonitors,
               incidents[i].monitor = m, incidents[i].status = "open"
        PROVE  i = n
    <3>1. i \in ActiveOf(m) /\ i <= n
      BY <1>4, <2>1 DEF ActiveOf
    <3>2. ~ (i < n)
      BY <1>5, <2>1 DEF IncidentInv, OpenIsNewest
    <3> QED
      BY <1>2, <1>5, <3>1, <3>2
  <2> QED
    BY <1>6, <2>1 DEF IncidentInv, ResolveKnows
<1> QED
  BY <1>7, <1>8, <1>9, <1>10, <1>11 DEF IncidentInv

\* The call of an operator, which knows no monitor.
LEMMA OperatorStep ==
  ASSUME IncidentInv, NEW t \in Threads, NEW i \in DOMAIN incidents,
         Acknowledge(t, i) \/ Resolve(t, i)
  PROVE  IncidentInv'
<1>1. PICK c \in Call :
        /\ Begin(t, c)
        /\ c.step \in {"acknowledge", "resolve"}
        /\ c.monitor = None
        /\ c.id = i
  <2>1. i \in Nat
    BY TypeFacts DEF IncidentInv
  <2>2. CASE Acknowledge(t, i)
    BY <2>1, <2>2 DEF Acknowledge, Call
  <2>3. CASE Resolve(t, i)
    BY <2>1, <2>3 DEF Resolve, Call
  <2> QED
    BY <2>2, <2>3
<1>2. /\ incidents' = incidents
      /\ \A u \in Threads : call'[u] = IF u = t THEN c ELSE call[u]
  BY <1>1 DEF Begin, IncidentInv, IncidentTypeOK
<1>3. None \notin Monitors
  BY IncidentAssumption
<1>4. IncidentTypeOK'
  BY <1>1, BeginType DEF IncidentInv
<1>5. OpenIsNewest'
  BY <1>2 DEF IncidentInv, OpenIsNewest
<1>6. OneHook'
  BY <1>1, <1>2, <1>3 DEF IncidentInv, OneHook
<1>7. InsertKnows'
  BY <1>1, <1>2 DEF IncidentInv, InsertKnows
<1>8. ResolveKnows'
  BY <1>1, <1>2, <1>3 DEF IncidentInv, ResolveKnows
<1> QED
  BY <1>4, <1>5, <1>6, <1>7, <1>8 DEF IncidentInv
LEMMA InsertStep ==
  ASSUME IncidentInv, NEW t \in Threads, Insert(t)
  PROVE  IncidentInv'
<1> DEFINE m == call[t].monitor
           e == [monitor |-> m, status |-> "open", recovered |-> FALSE]
           n == Len(incidents)
<1>1. /\ call[t].step = "insert" /\ m \in Monitors /\ m # None
      /\ End(t) /\ deleted' = deleted
  BY TypeFacts DEF Insert, IncidentInv, IncidentTypeOK, Call
<1>2. /\ call' \in [Threads -> Call]
      /\ \A u \in Threads : call'[u] = IF u = t THEN Idle ELSE call[u]
  BY <1>1, EndFacts DEF IncidentInv
<1>3. CASE m \in deleted
  <2>1. incidents' = incidents
    BY <1>3 DEF Insert
  <2>2. IncidentTypeOK'
    BY <1>1, <1>2, <2>1, EndType DEF IncidentInv, IncidentTypeOK
  <2> QED
    BY <1>2, <2>1, <2>2, NothingOpened DEF IncidentInv
<1>4. CASE m \notin deleted
  <2>1. /\ DOMAIN incidents = 1..n /\ n \in Nat
        /\ incidents \in Seq(Incident)
    BY TypeFacts DEF IncidentInv, IncidentTypeOK
  <2>2. e \in Incident
    BY <1>1 DEF Incident
  <2>3. /\ incidents' = Append(incidents, e)
        /\ incidents' \in Seq(Incident)
        /\ DOMAIN incidents' = 1..(n + 1)
        /\ \A i \in 1..n : incidents'[i] = incidents[i]
        /\ incidents'[n + 1] = e
    BY <1>4, <2>1, <2>2 DEF Insert
  <2>4. \A i \in 1..(n + 1) : i \in 1..n \/ i = n + 1
    BY <2>1
  <2>5. IncidentTypeOK'
    <3>1. DOMAIN incidents \subseteq DOMAIN incidents'
      BY <2>1, <2>3
    <3>2. \A i \in DOMAIN incidents' :
            incidents'[i].status = "deleted" <=> incidents'[i].monitor \in deleted'
      BY <1>1, <1>4, <2>1, <2>3, <2>4 DEF IncidentInv, IncidentTypeOK
    <3> QED
      BY <1>1, <1>2, <2>3, <3>1, <3>2, EndType DEF IncidentInv, IncidentTypeOK
  <2>6. m \in PushMonitors \/ \A u \in Threads \ {t} : call[u].monitor # m
    BY <1>1 DEF IncidentInv, OneHook
  <2>7. OpenIsNewest'
    <3> SUFFICES ASSUME NEW i \in 1..(n + 1), NEW j \in 1..(n + 1),
                        incidents'[i].status = "open",
                        incidents'[j].monitor = incidents'[i].monitor,
                        i < j
                 PROVE  incidents'[i].monitor \in PushMonitors
      BY <2>3 DEF OpenIsNewest
    <3>1. i \in 1..n
      BY <2>1
    <3>2. CASE j \in 1..n
      BY <2>1, <2>3, <3>1, <3>2 DEF IncidentInv, OpenIsNewest
    <3>3. CASE j = n + 1
      BY <1>1, <2>1, <2>3, <3>1, <3>3 DEF IncidentInv, InsertKnows
    <3> QED
      BY <2>4, <3>2, <3>3
  <2>8. OneHook'
    BY <1>2, IncidentAssumption DEF IncidentInv, OneHook, Idle
  <2>9. InsertKnows'
    <3> SUFFICES ASSUME NEW u \in Threads, NEW i \in 1..(n + 1),
                        call'[u].step = "insert",
                        call'[u].monitor \notin PushMonitors,
                        incidents'[i].monitor = call'[u].monitor
                 PROVE  incidents'[i].status # "open"
      BY <2>3 DEF InsertKnows
    <3>1. u # t /\ call'[u] = call[u]
      BY <1>2 DEF Idle
    <3>2. i \in 1..n
      BY <2>3, <2>4, <2>6, <3>1
    <3> QED
      BY <2>1, <2>3, <3>1, <3>2 DEF IncidentInv, InsertKnows
  <2>10. ResolveKnows'
    <3> SUFFICES ASSUME NEW u \in Threads, NEW i \in 1..(n + 1),
                        call'[u].step = "resolve",
                        call'[u].monitor \in Monitors \ PushMonitors,
                        incidents'[i].monitor = call'[u].monitor,
                        incidents'[i].status = "open"
                 PROVE  i = call'[u].id
      BY <2>3 DEF ResolveKnows
    <3>1. u # t /\ call'[u] = call[u]
      BY <1>2 DEF Idle
    <3>2. i \in 1..n
      BY <2>3, <2>4, <2>6, <3>1
    <3> QED
      BY <2>1, <2>3, <3>1, <3>2 DEF IncidentInv, ResolveKnows
  <2> QED
    BY <2>5, <2>7, <2>8, <2>9, <2>10 DEF IncidentInv
<1> QED
  BY <1>3, <1>4

\* WriteAcknowledged() and WriteResolved().
LEMMA UpdateStep ==
  ASSUME IncidentInv, NEW t \in Threads, WriteAcknowledged(t) \/ WriteResolved(t)
  PROVE  IncidentInv'
<1>1. /\ call[t].step \in {"acknowledge", "resolve"}
      /\ End(t) /\ deleted' = deleted
  BY DEF WriteAcknowledged, WriteResolved
<1>2. call[t].id \in DOMAIN incidents
  BY <1>1 DEF IncidentInv, IncidentTypeOK
<1>3. incidents[call[t].id] \in Incident /\ incidents \in Seq(Incident)
  BY <1>2, TypeFacts DEF IncidentInv, IncidentTypeOK
<1>4. \E status \in {"acknowledged", "resolved"}, recovered \in BOOLEAN :
        Update(call[t].id, status, recovered)
  BY <1>3 DEF WriteAcknowledged, WriteResolved, Incident
<1>5. PICK status \in {"acknowledged", "resolved"} :
        /\ incidents' \in Seq(Incident)
        /\ DOMAIN incidents' = DOMAIN incidents
        /\ \A j \in DOMAIN incidents :
             /\ incidents'[j].monitor = incidents[j].monitor
             /\ incidents'[j].status =
                  IF j = call[t].id /\ incidents[call[t].id].status # "deleted" THEN status
                  ELSE incidents[j].status
  BY <1>2, <1>3, <1>4, UpdateProperty
<1>6. /\ call' \in [Threads -> Call]
      /\ \A u \in Threads : call'[u] = IF u = t THEN Idle ELSE call[u]
  BY <1>1, EndFacts DEF IncidentInv
<1>7. \A i \in DOMAIN incidents' :
        incidents'[i].status = "deleted" <=> incidents'[i].monitor \in deleted'
  BY <1>1, <1>5 DEF IncidentInv, IncidentTypeOK
<1>8. IncidentTypeOK'
  BY <1>1, <1>5, <1>6, <1>7, EndType DEF IncidentInv, IncidentTypeOK
<1>9. OpenIsNewest' /\ OneHook' /\ InsertKnows' /\ ResolveKnows'
  BY <1>5, <1>6, NothingOpened
<1> QED
  BY <1>8, <1>9 DEF IncidentInv

\* A statement fails, or the server stops with its calls.
LEMMA LostStep ==
  ASSUME IncidentInv, (\E t \in Threads : CallFails(t)) \/ Restart
  PROVE  IncidentInv'
<1>1. incidents' = incidents /\ deleted' = deleted
  BY DEF CallFails, Restart
<1>2. /\ call' \in [Threads -> Call]
      /\ \A u \in Threads : call'[u] = call[u] \/ call'[u] = Idle
  <2>1. CASE \E t \in Threads : CallFails(t)
    BY <2>1, EndFacts DEF CallFails, IncidentInv
  <2>2. CASE Restart
    BY <2>2 DEF Restart, Idle, Call
  <2> QED
    BY <2>1, <2>2
<1>3. IncidentTypeOK'
  BY <1>1, <1>2, EndType DEF IncidentInv, IncidentTypeOK
<1>4. OpenIsNewest' /\ OneHook' /\ InsertKnows' /\ ResolveKnows'
  BY <1>1, <1>2, NothingOpened
<1> QED
  BY <1>3, <1>4 DEF IncidentInv

LEMMA DeleteMonitorStep ==
  ASSUME IncidentInv, NEW m \in Monitors, DeleteMonitor(m)
  PROVE  IncidentInv'
<1> DEFINE Gone(i) == [incidents[i] EXCEPT !.status = "deleted"]
           left(i) == IF incidents[i].monitor = m THEN Gone(i) ELSE incidents[i]
<1>1. /\ deleted' = deleted \cup {m} /\ call' = call
      /\ incidents' = [i \in DOMAIN incidents |-> left(i)]
  BY DEF DeleteMonitor
<1>2. /\ DOMAIN incidents = 1..Len(incidents)
      /\ Len(incidents) \in Nat
      /\ \A i \in DOMAIN incidents : incidents[i] \in Incident
  BY TypeFacts DEF IncidentInv
<1>3. \A i \in DOMAIN incidents :
        Gone(i) \in Incident /\ Gone(i).monitor = incidents[i].monitor /\ Gone(i).status = "deleted"
  BY <1>2 DEF Incident
<1>4. \A i \in DOMAIN incidents :
        /\ left(i) \in Incident
        /\ left(i).monitor = incidents[i].monitor
        /\ left(i).status = IF incidents[i].monitor = m THEN "deleted" ELSE incidents[i].status
  <2> HIDE DEF Gone
  <2> QED BY <1>2, <1>3
<1> HIDE DEF left
<1>5. /\ DOMAIN incidents' = DOMAIN incidents
      /\ \A i \in DOMAIN incidents : incidents'[i] = left(i)
  BY <1>1
<1>6. incidents' \in Seq(Incident)
  BY <1>1, <1>2, <1>4
<1>7. IncidentTypeOK'
  BY <1>1, <1>4, <1>5, <1>6, EndType DEF IncidentInv, IncidentTypeOK
<1>8. OpenIsNewest' /\ OneHook' /\ InsertKnows' /\ ResolveKnows'
  BY <1>1, <1>4, <1>5, NothingOpened
<1> QED
  BY <1>7, <1>8 DEF IncidentInv
-----------------------------------------------------------------------------
(* What a hook resolves.                                                   *)

\* The call of a hook resolves an incident of the hook's monitor.
ResolvesOwn ==
  \A t \in Threads : call[t].step = "resolve" /\ call[t].monitor # None =>
    incidents[call[t].id].monitor = call[t].monitor

\* No step takes an incident away or gives it to another monitor.
LEMMA MonitorsKept ==
  ASSUME IncidentTypeOK, [IncidentNext]_incidentVars
  PROVE  \A i \in DOMAIN incidents :
           i \in DOMAIN incidents' /\ incidents'[i].monitor = incidents[i].monitor
<1>1. /\ DOMAIN incidents = 1..Len(incidents) /\ Len(incidents) \in Nat
      /\ incidents \in Seq(Incident)
  BY TypeFacts DEF IncidentTypeOK
<1>2. CASE UNCHANGED incidents
  BY <1>2
<1>3. ASSUME NEW t \in Threads, Insert(t)
      PROVE  \A i \in DOMAIN incidents :
               i \in DOMAIN incidents' /\ incidents'[i].monitor = incidents[i].monitor
  <2> DEFINE e == [monitor |-> call[t].monitor, status |-> "open", recovered |-> FALSE]
  <2>1. e \in Incident
    BY <1>3, TypeFacts DEF Insert, Call, IncidentTypeOK, Incident
  <2>2. incidents' = incidents \/ incidents' = Append(incidents, e)
    BY <1>3 DEF Insert
  <2> HIDE DEF e
  <2>3. CASE incidents' = Append(incidents, e)
    <3>1. /\ Len(incidents') = Len(incidents) + 1 /\ incidents' \in Seq(Incident)
          /\ \A i \in 1..Len(incidents) : incidents'[i] = incidents[i]
      BY <1>1, <2>1, <2>3, AppendProperties
    <3> QED
      BY <1>1, <3>1, LenProperties
  <2> QED
    BY <1>2, <2>2, <2>3
<1>4. ASSUME NEW t \in Threads, WriteAcknowledged(t) \/ WriteResolved(t)
      PROVE  \A i \in DOMAIN incidents :
               i \in DOMAIN incidents' /\ incidents'[i].monitor = incidents[i].monitor
  <2>1. call[t].id \in DOMAIN incidents
    BY <1>4 DEF WriteAcknowledged, WriteResolved, IncidentTypeOK
  <2>2. PICK status \in {"acknowledged", "resolved"}, recovered \in BOOLEAN :
          Update(call[t].id, status, recovered)
    BY <1>4, <2>1, TypeFacts DEF WriteAcknowledged, WriteResolved, Incident
  <2> QED
    BY <1>1, <2>1, <2>2, UpdateProperty
<1>5. ASSUME NEW m \in Monitors, DeleteMonitor(m)
      PROVE  \A i \in DOMAIN incidents :
               i \in DOMAIN incidents' /\ incidents'[i].monitor = incidents[i].monitor
  BY <1>5, TypeFacts DEF DeleteMonitor, Incident
<1> QED
  BY <1>2, <1>3, <1>4, <1>5
     DEF IncidentNext, incidentVars, HookStep, OpenForMonitor, ResolveForMonitor, Acknowledge,
         Resolve, Begin, CallFails, Restart

LEMMA ResolvesOwnStep ==
  ASSUME IncidentTypeOK, ResolvesOwn, [IncidentNext]_incidentVars
  PROVE  ResolvesOwn'
<1> SUFFICES ASSUME NEW t \in Threads, call'[t].step = "resolve", call'[t].monitor # None
             PROVE  incidents'[call'[t].id].monitor = call'[t].monitor
  BY DEF ResolvesOwn
<1>1. CASE call'[t] = call[t]
  BY <1>1, MonitorsKept DEF ResolvesOwn, IncidentTypeOK
<1>2. CASE call'[t] = Idle
  BY <1>2 DEF Idle
<1>3. ASSUME NEW u \in Threads, NEW m \in Monitors, ResolveForMonitor(u, m)
      PROVE  call'[t] = call[t] \/ incidents'[call'[t].id].monitor = call'[t].monitor
  <2> DEFINE c == [step |-> "resolve", monitor |-> m, id |-> NewestOf(ActiveOf(m))]
  <2>1. Begin(u, c) /\ ActiveOf(m) # {}
    BY <1>3 DEF ResolveForMonitor
  <2>2. ActiveOf(m) \in SUBSET (1..Len(incidents)) /\ Len(incidents) \in Nat
    BY TypeFacts DEF ActiveOf
  <2>3. NewestOf(ActiveOf(m)) \in ActiveOf(m)
    BY <2>1, <2>2, NewestOfProperty
  <2>4. c.id \in ActiveOf(m) /\ c.monitor = m
    BY <2>3
  <2> HIDE DEF c
  <2>5. incidents' = incidents /\ call'[t] \in {call[t], c}
    BY <2>1 DEF Begin, IncidentTypeOK
  <2> QED
    BY <2>4, <2>5 DEF ActiveOf
<1>4. ASSUME NEW u \in Threads,
             \/ \E m \in Monitors : OpenForMonitor(u, m)
             \/ \E i \in DOMAIN incidents : Acknowledge(u, i) \/ Resolve(u, i)
      PROVE  call'[t] = call[t] \/ call'[t].step # "resolve" \/ call'[t].monitor = None
  BY <1>4 DEF OpenForMonitor, Acknowledge, Resolve, Begin, IncidentTypeOK
<1>5. ASSUME NEW u \in Threads,
             Insert(u) \/ WriteAcknowledged(u) \/ WriteResolved(u) \/ CallFails(u)
      PROVE  call'[t] \in {call[t], Idle}
  BY <1>5, EndFacts DEF Insert, WriteAcknowledged, WriteResolved, CallFails
<1>6. CASE Restart \/ (\E m \in Monitors : DeleteMonitor(m)) \/ UNCHANGED incidentVars
  BY <1>1, <1>2, <1>6 DEF Restart, DeleteMonitor, incidentVars
<1> QED
  BY <1>1, <1>2, <1>3, <1>4, <1>5, <1>6 DEF IncidentNext, HookStep

-----------------------------------------------------------------------------
(* The theorems.                                                           *)

LEMMA IncidentInvInit == IncidentInit => IncidentInv
<1> SUFFICES ASSUME IncidentInit PROVE IncidentInv
  OBVIOUS
<1>1. incidents = <<>> /\ DOMAIN incidents = {}
  BY DEF IncidentInit
<1>2. IncidentTypeOK
  BY <1>1 DEF IncidentInit, IncidentTypeOK, Idle, Call
<1>3. OneHook
  BY IncidentAssumption DEF IncidentInit, OneHook, Idle
<1> QED
  BY <1>1, <1>2, <1>3 DEF IncidentInv, OpenIsNewest, InsertKnows, ResolveKnows

LEMMA IncidentInvStep ==
  ASSUME IncidentInv, [IncidentNext]_incidentVars
  PROVE  IncidentInv'
<1>1. ASSUME NEW t \in Threads, NEW m \in Monitors, HookStep(t, m)
      PROVE  IncidentInv'
  BY <1>1, OpenForMonitorStep, ResolveForMonitorStep DEF HookStep
<1>2. ASSUME NEW t \in Threads, NEW i \in DOMAIN incidents, Acknowledge(t, i) \/ Resolve(t, i)
      PROVE  IncidentInv'
  BY <1>2, OperatorStep
<1>3. ASSUME NEW t \in Threads, Insert(t)
      PROVE  IncidentInv'
  BY <1>3, InsertStep
<1>4. ASSUME NEW t \in Threads, WriteAcknowledged(t) \/ WriteResolved(t)
      PROVE  IncidentInv'
  BY <1>4, UpdateStep
<1>5. CASE (\E t \in Threads : CallFails(t)) \/ Restart
  BY <1>5, LostStep
<1>6. ASSUME NEW m \in Monitors, DeleteMonitor(m)
      PROVE  IncidentInv'
  BY <1>6, DeleteMonitorStep
<1>7. CASE UNCHANGED incidentVars
  BY <1>7 DEF incidentVars, IncidentInv, IncidentTypeOK, OpenIsNewest, OneHook,
              InsertKnows, ResolveKnows
<1> QED
  BY <1>1, <1>2, <1>3, <1>4, <1>5, <1>6, <1>7 DEF IncidentNext

THEOREM IncidentInvariant == IncidentSpec => []IncidentInv
BY IncidentInvInit, IncidentInvStep, PTL DEF IncidentSpec

\* The incidents table, the calls and the deleted monitors have their types:
\* a call writes a row it has read, and a row goes with its monitor.
THEOREM IncidentTypeCorrect == IncidentSpec => []IncidentTypeOK
BY IncidentInvariant, PTL DEF IncidentInv

\* However calls, failures, restarts and deletions interleave, OpenForMonitor()
\* never puts an incident of a scheduled monitor over one that is open.
THEOREM OpenIncidentIsNewest == IncidentSpec => []OpenIsNewest
BY IncidentInvariant, PTL DEF IncidentInv

\* ResolveForMonitor() leaves no incident of a scheduled monitor open, though it
\* resolves one row only and that row was chosen before.
THEOREM RecoveryLeavesNoneOpen == IncidentSpec => RecoveryCloses
<1> DEFINE Closes(t) ==
      /\ WriteResolved(t)
      /\ call[t].monitor \in Monitors \ PushMonitors
      => \A i \in DOMAIN incidents' :
           incidents'[i].monitor = call[t].monitor => incidents'[i].status # "open"
<1>1. ASSUME IncidentInv, NEW t \in Threads
      PROVE  Closes(t)
  <2> SUFFICES ASSUME WriteResolved(t),
                      call[t].monitor \in Monitors \ PushMonitors,
                      NEW i \in DOMAIN incidents',
                      incidents'[i].monitor = call[t].monitor
               PROVE  incidents'[i].status # "open"
    OBVIOUS
  <2>1. call[t].step = "resolve" /\ call[t].id \in DOMAIN incidents
    BY <1>1 DEF WriteResolved, IncidentInv, IncidentTypeOK
  <2>2. call[t].monitor # None
    BY IncidentAssumption
  <2>3. Update(call[t].id, "resolved", TRUE)
    BY <2>2 DEF WriteResolved
  <2>4. /\ DOMAIN incidents' = DOMAIN incidents
        /\ \A j \in DOMAIN incidents :
             /\ incidents'[j].monitor = incidents[j].monitor
             /\ incidents'[j].status =
                  IF j = call[t].id /\ incidents[call[t].id].status # "deleted" THEN "resolved"
                  ELSE incidents[j].status
    BY <1>1, <2>1, <2>3, UpdateProperty DEF IncidentInv, IncidentTypeOK
  <2>5. incidents[i].status = "open" => i = call[t].id
    BY <1>1, <2>1, <2>4 DEF IncidentInv, ResolveKnows
  <2> QED
    BY <2>4, <2>5
<1>2. ASSUME IncidentInv
      PROVE  [\A t \in Threads : Closes(t)]_incidentVars
  BY <1>1, <1>2
<1> QED
  BY <1>2, IncidentInvariant, PTL DEF RecoveryCloses

-----------------------------------------------------------------------------
(* The data.                                                               *)

CheckRecord ==
  [at : {"none", "waiting", "ran", "decided", "written", "done"}, copy : Row,
   status : Results \cup {"unknown"}]

RequestRecord ==
  [op : RowWrites \cup {"none"}, at : {"idle", "read", "stored", "recorded"},
   monitor : Monitors \cup {None}, copy : Row,
   status : Results \cup {"unknown", "paused"}]

\* A row whose flag and status agree, and one that the due query selects.
Agrees(r) == r.enabled <=> r.status # "paused"
IsDue(r) == r.enabled /\ r.status # "paused"

LEMMA DataFacts ==
  /\ NoRow \in Row
  /\ NoCheck \in CheckRecord /\ NoCheck.at = "none" /\ NoCheck.copy = NoRow
  /\ NoCheck.status = "unknown"
  /\ NoRequest \in RequestRecord /\ NoRequest.at = "idle" /\ NoRequest.op = "none"
  /\ NoRequest.monitor = None
  /\ Idle.monitor = None /\ Idle.step = "idle"
  /\ Returning \in CheckRecord /\ Returning.at = "done"
  /\ None \notin Monitors /\ Requests \subseteq Threads /\ Monitors \subseteq Threads
  /\ Results \subseteq {"up", "degraded", "down"} /\ {"up", "degraded", "down"} \subseteq Results
<1>1. 1 \in 1..MaxRetry
  BY LifecycleAssumption
<1> QED
  BY <1>1, IncidentAssumption, LifecycleAssumption
     DEF NoRow, Row, NoCheck, Returning, CheckRecord, NoRequest, RequestRecord, Results, Idle,
         Requests

\* A check that has written a status.
LEMMA WrittenFacts ==
  ASSUME NEW status \in Results
  PROVE  /\ [NoCheck EXCEPT !.at = "written", !.status = status] \in CheckRecord
         /\ [NoCheck EXCEPT !.at = "written", !.status = status].at = "written"
         /\ [NoCheck EXCEPT !.at = "written", !.status = status].status = status
BY DataFacts DEF NoCheck, CheckRecord

\* A row with another status.
LEMMA RowFacts ==
  ASSUME NEW r \in Row, NEW status \in Results \cup {"unknown", "paused"}
  PROVE  /\ [r EXCEPT !.status = status] \in Row
         /\ [r EXCEPT !.status = status].status = status
         /\ [r EXCEPT !.status = status].enabled = r.enabled
         /\ [r EXCEPT !.status = status].retry = r.retry
BY DEF Row

-----------------------------------------------------------------------------
(* The inductive invariant.                                                *)

\* The check of m: where it is, and what its copy is.
CheckOf(m) ==
  /\ (check[m].at = "none") = (phase[m] = "idle")
  /\ (check[m].at = "waiting") = (phase[m] = "queued")
  /\ check[m].at \in {"ran", "decided", "written"} => check[m].status \in Results
  /\ check[m].at \in {"waiting", "ran", "decided"} => IsDue(check[m].copy)

\* The request of r: what it is about, and when it stores and writes results.
RequestOf(r) ==
  /\ request[r].at = "idle" <=> request[r] = NoRequest
  /\ request[r].at # "idle" => request[r].monitor \in Monitors /\ request[r].op # "none"
  /\ request[r].op = "heartbeat" => request[r].monitor \in PushMonitors
  /\ request[r].at = "recorded" => request[r].op = "heartbeat"
  /\ request[r].at = "stored" => request[r].op \in {"heartbeat", "test"}
  /\ request[r].at \in {"stored", "recorded"} => request[r].status \in Results
  /\ request[r].at # "idle" /\ request[r].monitor \notin PushMonitors => Agrees(request[r].copy)

\* Only the check of a scheduled monitor that has come to its end calls its hook.
HookOf(t) ==
  call[t].monitor \in Monitors \ PushMonitors =>
    t = call[t].monitor /\ check[t].at = "done"

TablesInv ==
  /\ row \in [Monitors -> Row]
  /\ failures \in [Monitors -> 0..MaxRetry]
  /\ fetched \in [Monitors -> Row]
  /\ \A m \in listed : IsDue(fetched[m])
  /\ \A m \in Monitors \ (PushMonitors \cup deleted) : Agrees(row[m])

LifecycleInv ==
  /\ IncidentInv
  /\ DispatchTypeOK
  /\ TablesInv
  /\ check \in [Monitors -> CheckRecord]
  /\ request \in [Requests -> RequestRecord]
  /\ \A m \in Monitors : CheckOf(m)
  /\ \A r \in Requests : RequestOf(r)
  /\ \A t \in Threads : HookOf(t)

LEMMA LifecycleType == LifecycleInv => LifecycleTypeOK
<1> SUFFICES ASSUME LifecycleInv PROVE LifecycleTypeOK
  OBVIOUS
<1>1. \A m \in Monitors : check[m] \in CheckRecord /\ CheckOf(m)
  BY DEF LifecycleInv
<1>2. \A r \in Requests : request[r] \in RequestRecord /\ RequestOf(r)
  BY DEF LifecycleInv
<1>3. \A m \in Monitors :
       /\ check[m].at \in {"none", "waiting", "ran", "decided", "written", "done"}
       /\ check[m].copy \in Row
       /\ check[m].status \in Results \cup {"unknown"}
       /\ (check[m].at = "none") = (phase[m] = "idle")
       /\ (check[m].at = "waiting") = (phase[m] = "queued")
  BY <1>1 DEF CheckRecord, CheckOf
<1>4. \A r \in Requests :
       /\ request[r].op \in RowWrites \cup {"none"}
       /\ request[r].at \in {"idle", "read", "stored", "recorded"}
       /\ request[r].copy \in Row
       /\ request[r].status \in Results \cup {"unknown", "paused"}
       /\ (request[r].at = "idle") = (request[r] = NoRequest)
  BY <1>2 DEF RequestRecord, RequestOf
<1> QED
  BY <1>3, <1>4 DEF LifecycleInv, LifecycleTypeOK, IncidentInv, TablesInv

-----------------------------------------------------------------------------
(* Every step is one of the incident service's, or none.                   *)

\* OnScheduledStatusChange() by a thread that calls no other hook of m.
LEMMA HookIsAllowed ==
  ASSUME NEW t \in Threads, NEW m \in Monitors, NEW status \in Results,
         m \in PushMonitors \/ HookFree(m), OnScheduledStatusChange(t, m, status)
  PROVE  [IncidentNext]_incidentVars
BY DEF OnScheduledStatusChange, HookStep, IncidentNext, Results

LEMMA StepImplements ==
  ASSUME LifecycleInv, [LifecycleNext]_lifecycleVars
  PROVE  [IncidentNext]_incidentVars
<1>1. CASE UNCHANGED incidentVars
  BY <1>1
<1>2. CASE UNCHANGED lifecycleVars
  BY <1>1, <1>2 DEF lifecycleVars
<1>3. CASE Fetch
  BY <1>1, <1>3 DEF Fetch
<1>4. ASSUME NEW m \in Monitors, CheckStep(m)
      PROVE  [IncidentNext]_incidentVars
  <2>1. CASE CheckHook(m)
    <3>1. check[m].at = "written" /\ OnScheduledStatusChange(m, m, check[m].status)
      BY <2>1 DEF CheckHook
    <3>2. check[m].status \in Results
      BY <3>1 DEF LifecycleInv, CheckOf
    <3>3. m \in PushMonitors \/ HookFree(m)
      BY <3>1 DEF LifecycleInv, HookOf, HookFree
    <3> QED
      BY <3>1, <3>2, <3>3, HookIsAllowed, DataFacts
  <2> QED
    BY <1>1, <1>4, <2>1
       DEF CheckStep, Skip, Enqueue, Run, RunFails, Decide, WriteRow, WriteRowFails, CheckReturns
<1>5. ASSUME NEW r \in Requests, RequestStep(r)
      PROVE  [IncidentNext]_incidentVars
  <2>1. CASE HeartbeatHook(r)
    <3>1. request[r].at = "recorded"
          /\ OnScheduledStatusChange(r, request[r].monitor, request[r].status)
      BY <2>1 DEF HeartbeatHook
    <3>2. /\ request[r].status \in Results /\ request[r].monitor \in Monitors
          /\ request[r].monitor \in PushMonitors
      BY <3>1 DEF LifecycleInv, RequestOf
    <3> QED
      BY <3>1, <3>2, HookIsAllowed, DataFacts
  <2>2. CASE \E i \in DOMAIN incidents : IncidentRequest(r, i)
    BY <2>2, DataFacts DEF IncidentRequest, IncidentNext
  <2> QED
    BY <1>1, <1>5, <2>1, <2>2
       DEF RequestStep, ReadRow, StoreResult, WriteBack, RecordHeartbeat, RequestFails
<1>6. ASSUME NEW t \in Threads, CallStep(t)
      PROVE  [IncidentNext]_incidentVars
  BY <1>6 DEF CallStep, IncidentNext
<1>7. ASSUME NEW m \in Monitors, DeleteRow(m)
      PROVE  [IncidentNext]_incidentVars
  BY <1>7 DEF DeleteRow, IncidentNext
<1>8. CASE ServerRestart
  BY <1>8 DEF ServerRestart, IncidentNext
<1> QED
  BY <1>2, <1>3, <1>4, <1>5, <1>6, <1>7, <1>8 DEF LifecycleNext

-----------------------------------------------------------------------------
(* The rest of the invariant, one lemma per kind of step.                  *)

\* What the steps about one check or request keep of the invariant.
RestInv ==
  /\ DispatchTypeOK
  /\ TablesInv
  /\ check \in [Monitors -> CheckRecord]
  /\ request \in [Requests -> RequestRecord]
  /\ \A m \in Monitors : CheckOf(m)
  /\ \A r \in Requests : RequestOf(r)
  /\ \A t \in Threads : HookOf(t)

\* A row is written, or none.
LEMMA RowWritten ==
  ASSUME TablesInv, UNCHANGED <<fetched, listed, deleted>>,
         failures' \in [Monitors -> 0..MaxRetry],
         NEW m \in Monitors, NEW r \in Row, Agrees(r) \/ m \in PushMonitors,
         row' \in {row, [row EXCEPT ![m] = r]}
  PROVE  TablesInv'
BY DEF TablesInv

\* A result is stored.
LEMMA FailuresType ==
  ASSUME TablesInv, NEW m \in Monitors, NEW result \in Results, failures' = StoredResult(m, result)
  PROVE  failures' \in [Monitors -> 0..MaxRetry]
<1>1. MaxRetry \in Nat \ {0} /\ failures[m] \in 0..MaxRetry
  BY LifecycleAssumption DEF TablesInv
<1>2. (IF result # "down" THEN 0 ELSE IF failures[m] < MaxRetry THEN failures[m] + 1 ELSE failures[m])
        \in 0..MaxRetry
  BY <1>1
<1> QED
  BY <1>2 DEF TablesInv, StoredResult

\* The check of m goes on, and calls the hook only as it ends.
LEMMA CheckMoves ==
  ASSUME LifecycleInv, NEW m \in Monitors, NEW c \in CheckRecord, NEW p \in Phases,
         check' = [check EXCEPT ![m] = c], phase' = [phase EXCEPT ![m] = p],
         UNCHANGED request, listed' \subseteq Monitors, TablesInv',
         (c.at = "none") = (p = "idle"), (c.at = "waiting") = (p = "queued"),
         c.at \in {"ran", "decided", "written"} => c.status \in Results,
         c.at \in {"waiting", "ran", "decided"} => IsDue(c.copy),
         check[m].at = "done" => call[m] = Idle,
         \A t \in Threads :
           call'[t] = call[t] \/ (t = m /\ call'[t].monitor \in {m, None} /\ c.at = "done")
  PROVE  RestInv'
<1>1. /\ check \in [Monitors -> CheckRecord] /\ phase \in [Monitors -> Phases]
      /\ request \in [Requests -> RequestRecord]
  BY DEF LifecycleInv, DispatchTypeOK
<1>2. DispatchTypeOK' /\ check' \in [Monitors -> CheckRecord]
  BY <1>1 DEF DispatchTypeOK
<1>3. \A z \in Monitors : CheckOf(z)'
  <2> SUFFICES ASSUME NEW z \in Monitors PROVE CheckOf(z)'
    OBVIOUS
  <2>1. CASE z = m
    BY <1>1, <2>1 DEF CheckOf
  <2>2. CASE z # m
    BY <1>1, <2>2 DEF LifecycleInv, CheckOf
  <2> QED
    BY <2>1, <2>2
<1>4. \A r \in Requests : RequestOf(r)'
  BY DEF LifecycleInv, RequestOf
<1>5. ASSUME NEW t \in Threads, call'[t].monitor \in Monitors \ PushMonitors
      PROVE  t = call'[t].monitor /\ check'[t].at = "done"
  <2>1. CASE t = m /\ call'[t].monitor \in {m, None} /\ c.at = "done"
    BY <1>1, <1>5, <2>1, DataFacts
  <2>2. CASE call'[t] = call[t]
    <3>1. t = call[t].monitor /\ check[t].at = "done"
      BY <1>5, <2>2 DEF LifecycleInv, HookOf
    <3>2. t # m
      BY <1>5, <2>2, <3>1, DataFacts
    <3> QED
      BY <1>1, <1>5, <2>2, <3>1, <3>2
  <2> QED
    BY <1>5, <2>1, <2>2
<1> QED
  BY <1>1, <1>2, <1>3, <1>4, <1>5 DEF RestInv, HookOf

\* What OnScheduledStatusChange() makes of the calls.
LEMMA HookCalls ==
  ASSUME LifecycleInv, NEW t \in Threads, NEW m \in Monitors, NEW status,
         OnScheduledStatusChange(t, m, status)
  PROVE  /\ UNCHANGED <<incidents, deleted>>
         /\ \A u \in Threads : call'[u] = call[u] \/ (u = t /\ call'[u].monitor = m)
BY DEF OnScheduledStatusChange, OpenForMonitor, ResolveForMonitor, Begin, incidentVars,
       LifecycleInv, IncidentInv, IncidentTypeOK

LEMMA CheckStepKeeps ==
  ASSUME LifecycleInv, NEW m \in Monitors, CheckStep(m)
  PROVE  RestInv'
<1>1. /\ check \in [Monitors -> CheckRecord] /\ check[m] \in CheckRecord /\ CheckOf(m)
      /\ phase \in [Monitors -> Phases] /\ listed \subseteq Monitors
      /\ row \in [Monitors -> Row] /\ fetched \in [Monitors -> Row]
      /\ TablesInv
  BY DEF LifecycleInv, DispatchTypeOK, TablesInv
<1>2. \A at \in {"none", "waiting", "ran", "decided", "written", "done"} :
        /\ [check[m] EXCEPT !.at = at] \in CheckRecord
        /\ [check[m] EXCEPT !.at = at].at = at
        /\ [check[m] EXCEPT !.at = at].copy = check[m].copy
        /\ [check[m] EXCEPT !.at = at].status = check[m].status
  BY <1>1 DEF CheckRecord
<1>3. \A at \in {"ran", "decided"}, status \in Results :
        /\ [check[m] EXCEPT !.at = at, !.status = status] \in CheckRecord
        /\ [check[m] EXCEPT !.at = at, !.status = status].at = at
        /\ [check[m] EXCEPT !.at = at, !.status = status].copy = check[m].copy
        /\ [check[m] EXCEPT !.at = at, !.status = status].status = status
  BY <1>1 DEF CheckRecord
<1>4. phase[m] \in Phases /\ phase = [phase EXCEPT ![m] = phase[m]]
      /\ {"idle", "queued", "running"} = Phases
  BY <1>1 DEF Phases
<1>5. CASE Skip(m)
  <2>1. /\ listed' = listed \ {m} /\ fetched' = [fetched EXCEPT ![m] = NoRow]
        /\ UNCHANGED <<incidentVars, row, failures, check, request, phase>>
    BY <1>5 DEF Skip, PassOver
  <2>2. TablesInv'
    BY <1>1, <2>1, DataFacts DEF TablesInv, incidentVars
  <2> QED
    BY <1>1, <2>1, <2>2 DEF RestInv, LifecycleInv, DispatchTypeOK, CheckOf, RequestOf, HookOf, incidentVars
<1>6. CASE Enqueue(m)
  <2> DEFINE c == [NoCheck EXCEPT !.at = "waiting", !.copy = fetched[m]]
  <2>1. /\ m \in listed /\ phase[m] = "idle" /\ listed' = listed \ {m}
        /\ phase' = [phase EXCEPT ![m] = "queued"] /\ check' = [check EXCEPT ![m] = c]
        /\ fetched' = [fetched EXCEPT ![m] = NoRow]
        /\ UNCHANGED <<incidentVars, row, failures, request>>
    BY <1>6 DEF Enqueue, Claim
  <2>2. c \in CheckRecord /\ c.at = "waiting" /\ c.copy = fetched[m] /\ IsDue(fetched[m])
    BY <1>1, <2>1 DEF NoCheck, CheckRecord, TablesInv
  <2>3. TablesInv'
    BY <1>1, <2>1, DataFacts DEF TablesInv, incidentVars
  <2>4. check[m].at # "done"
    BY <1>1, <2>1 DEF CheckOf
  <2> HIDE DEF c
  <2> QED
    BY <1>1, <1>4, <2>1, <2>2, <2>3, <2>4, CheckMoves DEF incidentVars
<1>7. CASE Run(m)
  <2>1. PICK result \in Results :
          failures' = StoredResult(m, result)
          /\ check' = [check EXCEPT ![m].at = "ran", ![m].status = result]
    BY <1>7 DEF Run
  <2> DEFINE c == [check[m] EXCEPT !.at = "ran", !.status = result]
  <2>2. /\ phase[m] = "queued" /\ phase' = [phase EXCEPT ![m] = "running"]
        /\ check' = [check EXCEPT ![m] = c]
        /\ UNCHANGED <<incidentVars, row, fetched, request, listed>>
    BY <1>7, <2>1 DEF Run, Start
  <2>3. TablesInv'
    BY <1>1, <2>1, <2>2, FailuresType DEF TablesInv, incidentVars
  <2>4. check[m].at = "waiting"
    BY <1>1, <2>2 DEF CheckOf
  <2>5. c \in CheckRecord /\ c.at = "ran" /\ c.copy = check[m].copy /\ c.status = result
    BY <1>3
  <2> HIDE DEF c
  <2> QED
    BY <1>1, <1>4, <2>2, <2>3, <2>4, <2>5, CheckMoves DEF incidentVars, CheckOf
<1>8. CASE RunFails(m)
  <2> DEFINE c == Returning
  <2>1. /\ phase[m] = "queued" /\ phase' = [phase EXCEPT ![m] = "running"]
        /\ check' = [check EXCEPT ![m] = c]
        /\ UNCHANGED <<incidentVars, row, failures, fetched, request, listed>>
    BY <1>8 DEF RunFails, Start
  <2>2. TablesInv'
    BY <1>1, <2>1 DEF TablesInv, incidentVars
  <2>3. check[m].at = "waiting"
    BY <1>1, <2>1 DEF CheckOf
  <2>4. c \in CheckRecord /\ c.at = "done"
    BY DataFacts
  <2> HIDE DEF c
  <2> QED
    BY <1>1, <1>4, <2>1, <2>2, <2>3, <2>4, CheckMoves DEF incidentVars, CheckOf
\* From now on the check is running, and stays so until it returns.
<1>9. ASSUME NEW c \in CheckRecord, check' = [check EXCEPT ![m] = c],
             check[m].at \in {"ran", "decided", "written"}, c.at \in {"decided", "written", "done"},
             c.at = "decided" => c.copy = check[m].copy /\ check[m].at = "ran",
             c.at # "done" => c.status \in Results,
             UNCHANGED <<listed, phase, request>>, TablesInv',
             \A t \in Threads :
               call'[t] = call[t] \/ (t = m /\ call'[t].monitor = m /\ c.at = "done")
      PROVE  RestInv'
  <2>1. phase[m] = "running"
    BY <1>1, <1>4, <1>9 DEF CheckOf, Phases
  <2>2. /\ (c.at = "none") = (phase[m] = "idle") /\ (c.at = "waiting") = (phase[m] = "queued")
        /\ c.at = "decided" => IsDue(c.copy)
        /\ check[m].at # "done"
    BY <1>1, <1>9, <2>1 DEF CheckOf
  <2>3. phase' = [phase EXCEPT ![m] = phase[m]] /\ listed' \subseteq Monitors /\ UNCHANGED request
    BY <1>1, <1>4, <1>9
  <2>4. \A t \in Threads :
          call'[t] = call[t] \/ (t = m /\ call'[t].monitor \in {m, None} /\ c.at = "done")
    BY <1>9
  <2>5. /\ check' = [check EXCEPT ![m] = c] /\ (c.at # "done" => c.status \in Results)
        /\ TablesInv' /\ phase[m] \in Phases
    BY <1>4, <1>9
  <2> QED
    BY <1>9, <2>2, <2>3, <2>4, <2>5, CheckMoves
<1>10. CASE Decide(m)
  <2>1. PICK n : check' = [check EXCEPT ![m].at = "decided",
                             ![m].status = NewStatus(check[m].copy, @, n)]
    BY <1>10 DEF Decide
  <2> DEFINE status == NewStatus(check[m].copy, check[m].status, n)
             c == [check[m] EXCEPT !.at = "decided", !.status = status]
  <2>2. /\ check[m].at = "ran" /\ check' = [check EXCEPT ![m] = c]
        /\ UNCHANGED <<incidentVars, row, failures, listed, phase, fetched, request>>
    BY <1>10, <2>1 DEF Decide
  <2>3. status \in Results
    BY <1>1, <2>2, DataFacts DEF CheckOf, NewStatus, Results
  <2>4. c \in CheckRecord /\ c.at = "decided" /\ c.copy = check[m].copy /\ c.status = status
    BY <1>3, <2>3
  <2>5. TablesInv'
    BY <1>1, <2>2 DEF TablesInv, incidentVars
  <2> HIDE DEF c, status
  <2> QED
    BY <1>9, <2>2, <2>3, <2>4, <2>5 DEF incidentVars
<1>11. CASE WriteRow(m)
  <2> DEFINE c == IF check[m].status = check[m].copy.status THEN Returning
                  ELSE [NoCheck EXCEPT !.at = "written", !.status = check[m].status]
             r == [check[m].copy EXCEPT !.status = check[m].status]
  <2>1. /\ check[m].at = "decided" /\ check' = [check EXCEPT ![m] = c]
        /\ row' = [row EXCEPT ![m] = r]
        /\ UNCHANGED <<incidentVars, failures, listed, phase, fetched, request>>
    BY <1>11 DEF WriteRow
  <2>2. check[m].status \in Results
    BY <1>1, <2>1 DEF CheckOf
  <2>3. /\ c \in CheckRecord /\ c.at \in {"written", "done"}
        /\ c.at # "done" => c.status \in Results
    BY <2>2, WrittenFacts, DataFacts
  <2>4. check[m].status \in Results /\ check[m].copy \in Row /\ IsDue(check[m].copy)
    BY <1>1, <2>1 DEF CheckOf, CheckRecord
  <2>5. r \in Row /\ Agrees(r)
    BY <2>4, RowFacts DEF IsDue, Agrees, Results
  <2> HIDE DEF c, r
  <2>6. TablesInv'
    BY <1>1, <2>1, <2>5, RowWritten DEF TablesInv, incidentVars
  <2> QED
    BY <1>9, <2>1, <2>3, <2>6 DEF incidentVars
<1>12. CASE WriteRowFails(m)
  <2> DEFINE c == Returning
  <2>1. /\ check[m].at = "decided" /\ check' = [check EXCEPT ![m] = c]
        /\ UNCHANGED <<incidentVars, row, failures, listed, phase, fetched, request>>
    BY <1>12 DEF WriteRowFails
  <2>2. c \in CheckRecord /\ c.at = "done"
    BY DataFacts
  <2>3. TablesInv' /\ check[m].status \in Results
    BY <1>1, <2>1 DEF TablesInv, incidentVars, CheckOf
  <2> HIDE DEF c
  <2> QED
    BY <1>9, <2>1, <2>2, <2>3 DEF incidentVars
<1>13. CASE CheckHook(m)
  <2> DEFINE c == Returning
  <2>1. /\ check[m].at = "written" /\ check' = [check EXCEPT ![m] = c]
        /\ OnScheduledStatusChange(m, m, check[m].status)
        /\ UNCHANGED <<row, failures, listed, phase, fetched, request>>
    BY <1>13 DEF CheckHook
  <2>2. c \in CheckRecord /\ c.at = "done"
    BY DataFacts
  <2>3. /\ deleted' = deleted
        /\ \A u \in Threads : call'[u] = call[u] \/ (u = m /\ call'[u].monitor = m)
    BY <2>1, HookCalls, DataFacts
  <2>4. TablesInv' /\ check[m].status \in Results
    BY <1>1, <2>1, <2>3 DEF TablesInv, CheckOf
  <2> HIDE DEF c
  <2> QED
    BY <1>9, <2>1, <2>2, <2>3, <2>4
<1>14. CASE CheckReturns(m)
  <2>1. /\ call[m] = Idle /\ check' = [check EXCEPT ![m] = NoCheck]
        /\ phase' = [phase EXCEPT ![m] = "idle"]
        /\ UNCHANGED <<incidentVars, row, failures, fetched, request, listed>>
    BY <1>14 DEF CheckReturns, Finish
  <2>2. TablesInv'
    BY <1>1, <2>1 DEF TablesInv, incidentVars
  <2> QED
    BY <1>1, <1>4, <2>1, <2>2, DataFacts, CheckMoves DEF incidentVars
<1> QED
  BY <1>5, <1>6, <1>7, <1>8, <1>10, <1>11, <1>12, <1>13, <1>14 DEF CheckStep

\* A request that has read a row keeps it, as the lemma RequestMoves says: a
\* request changes its own entry, and calls the hook only of a push monitor.
LEMMA RequestMoves ==
  ASSUME LifecycleInv, NEW r \in Requests, NEW q \in RequestRecord,
         request' = [request EXCEPT ![r] = q], UNCHANGED checkVars, TablesInv',
         q.at = "idle" <=> q = NoRequest,
         q.at # "idle" => q.monitor \in Monitors /\ q.op # "none",
         q.op = "heartbeat" => q.monitor \in PushMonitors,
         q.at = "recorded" => q.op = "heartbeat",
         q.at = "stored" => q.op \in {"heartbeat", "test"},
         q.at \in {"stored", "recorded"} => q.status \in Results,
         q.at # "idle" /\ q.monitor \notin PushMonitors => Agrees(q.copy),
         \A t \in Threads :
           call'[t] = call[t] \/ call'[t].monitor \in PushMonitors \cup {None}
  PROVE  RestInv'
<1>1. request \in [Requests -> RequestRecord] /\ UNCHANGED <<listed, phase, fetched, check>>
  BY DEF LifecycleInv, checkVars
<1>2. request' \in [Requests -> RequestRecord] /\ DispatchTypeOK'
      /\ check' \in [Monitors -> CheckRecord] /\ \A m \in Monitors : CheckOf(m)'
  BY <1>1 DEF LifecycleInv, DispatchTypeOK, CheckOf
<1>3. ASSUME NEW z \in Requests PROVE RequestOf(z)'
  <2>1. CASE z = r
    BY <1>1, <2>1 DEF RequestOf
  <2>2. CASE z # r
    BY <1>1, <2>2 DEF LifecycleInv, RequestOf
  <2> QED
    BY <2>1, <2>2
<1>4. ASSUME NEW t \in Threads PROVE HookOf(t)'
  BY <1>1, DataFacts DEF LifecycleInv, HookOf
<1> QED
  BY <1>2, <1>3, <1>4 DEF RestInv

\* A request returns.
LEMMA RequestReturns ==
  ASSUME LifecycleInv, NEW r \in Requests, Return(r), UNCHANGED checkVars, TablesInv',
         \A t \in Threads :
           call'[t] = call[t] \/ call'[t].monitor \in PushMonitors \cup {None}
  PROVE  RestInv'
BY RequestMoves, DataFacts DEF Return

\* What a handler writes is a row; its flag and status agree if the copy's do,
\* and its status is the copy's unless it pauses or resumes the monitor.
LEMMA EditedFacts ==
  ASSUME NEW copy \in Row, NEW op \in {"pause", "resume", "patch", "test"},
         NEW r \in Edited(op, copy)
  PROVE  /\ r \in Row
         /\ Agrees(copy) => Agrees(r)
         /\ r.status \in {copy.status, "paused", "unknown"}
         /\ op # "patch" => r.retry = copy.retry
<1> DEFINE off == Off(copy)
           on == On(copy, "unknown")
           kept == On(copy, IF copy.status = "paused" THEN "unknown" ELSE copy.status)
<1>1. off \in Row /\ off.enabled = FALSE /\ off.status = "paused" /\ off.retry = copy.retry
  BY DEF Row, Off
<1>2. on \in Row /\ on.enabled = TRUE /\ on.status = "unknown" /\ on.retry = copy.retry
  BY DEF Row, On
<1>3. /\ kept \in Row /\ kept.enabled = TRUE /\ kept.status # "paused"
      /\ kept.status \in {copy.status, "unknown"}
  BY DEF Row, On
<1>4. \A c \in Row, n \in 1..MaxRetry :
        /\ [c EXCEPT !.retry = n] \in Row
        /\ [c EXCEPT !.retry = n].status = c.status /\ [c EXCEPT !.retry = n].enabled = c.enabled
  BY DEF Row
<1>5. CASE op = "patch"
  <2>1. PICK c \in {copy, off, kept}, n \in 1..MaxRetry : r = [c EXCEPT !.retry = n]
    <3>1. r \in Patched(copy)
      BY <1>5 DEF Edited
    <3> QED
      BY <3>1 DEF Patched
  <2> HIDE DEF off, on, kept
  <2>2. c \in Row /\ c.status \in {copy.status, "paused", "unknown"}
    BY <1>1, <1>3, <2>1
  <2>3. Agrees(copy) => Agrees(c)
    BY <1>1, <1>3, <2>1 DEF Agrees
  <2>4. r \in Row /\ r.status = c.status /\ r.enabled = c.enabled
    BY <1>4, <2>1, <2>2
  <2> QED
    BY <1>5, <2>2, <2>3, <2>4 DEF Agrees
<1>6. CASE op # "patch"
  <2>1. r \in {copy, off, on}
    BY <1>6 DEF Edited
  <2> HIDE DEF off, on, kept
  <2> QED
    BY <1>1, <1>2, <2>1 DEF Agrees
<1> QED
  BY <1>5, <1>6

LEMMA RequestStepKeeps ==
  ASSUME LifecycleInv, NEW r \in Requests, RequestStep(r)
  PROVE  RestInv'
<1>1. /\ request \in [Requests -> RequestRecord] /\ request[r] \in RequestRecord /\ RequestOf(r)
      /\ row \in [Monitors -> Row] /\ TablesInv
  BY DEF LifecycleInv, TablesInv
<1>2. \A at \in {"read", "stored", "recorded"}, status \in Results :
        /\ [request[r] EXCEPT !.at = at, !.status = status] \in RequestRecord
        /\ [request[r] EXCEPT !.at = at, !.status = status].at = at
        /\ [request[r] EXCEPT !.at = at, !.status = status].op = request[r].op
        /\ [request[r] EXCEPT !.at = at, !.status = status].monitor = request[r].monitor
        /\ [request[r] EXCEPT !.at = at, !.status = status].copy = request[r].copy
        /\ [request[r] EXCEPT !.at = at, !.status = status].status = status
  BY <1>1 DEF RequestRecord
<1>3. LET recorded == [request[r] EXCEPT !.at = "recorded", !.copy = NoRow]
      IN  /\ recorded \in RequestRecord
          /\ recorded.at = "recorded"
          /\ recorded.op = request[r].op
          /\ recorded.monitor = request[r].monitor
          /\ recorded.status = request[r].status
  BY <1>1, DataFacts DEF RequestRecord
<1>4. ASSUME NEW op \in RowWrites, NEW m \in Monitors, ReadRow(r, op, m)
      PROVE  RestInv'
  <2> DEFINE q == [op |-> op, at |-> "read", monitor |-> m, copy |-> row[m],
                   status |-> row[m].status]
  <2>1. /\ m \notin deleted /\ (op = "heartbeat" => m \in PushMonitors)
        /\ request' = [request EXCEPT ![r] = q]
        /\ UNCHANGED <<incidentVars, row, failures, checkVars>>
    BY <1>4 DEF ReadRow
  <2>2. row[m] \in Row /\ row[m].status \in Results \cup {"unknown", "paused"} /\ op # "none"
    BY <1>1 DEF Row, RowWrites
  <2>3. q \in RequestRecord /\ q.at = "read" /\ q.op = op /\ q.monitor = m /\ q.copy = row[m]
    BY <2>2 DEF RequestRecord
  <2>4. TablesInv' /\ (m \notin PushMonitors => Agrees(row[m]))
    BY <1>1, <2>1 DEF TablesInv, incidentVars, checkVars
  <2>5. q # NoRequest
    BY <2>3, DataFacts
  <2> HIDE DEF q
  <2> QED
    BY <2>1, <2>2, <2>3, <2>4, <2>5, RequestMoves DEF incidentVars
<1>5. CASE StoreResult(r)
  <2>1. PICK result \in Results :
          /\ \/ failures' = StoredResult(request[r].monitor, result)
             \/ UNCHANGED failures
          /\ request' = [request EXCEPT ![r].at = "stored", ![r].status = result]
    BY <1>5 DEF StoreResult
  <2> DEFINE q == [request[r] EXCEPT !.at = "stored", !.status = result]
  <2>2. /\ request[r].at = "read" /\ request[r].op \in {"test", "heartbeat"}
        /\ request' = [request EXCEPT ![r] = q]
        /\ UNCHANGED <<incidentVars, row, checkVars>>
    BY <1>5, <2>1 DEF StoreResult
  <2>3. request[r].monitor \in Monitors
    BY <1>1, <2>2 DEF RequestOf
  <2>4. failures' \in [Monitors -> 0..MaxRetry]
    BY <1>1, <2>1, <2>3, FailuresType DEF TablesInv
  <2>5. TablesInv'
    BY <1>1, <2>2, <2>4 DEF TablesInv, incidentVars, checkVars
  <2>6. /\ q \in RequestRecord /\ q.at = "stored" /\ q.op = request[r].op
        /\ q.monitor = request[r].monitor /\ q.copy = request[r].copy /\ q.status = result
    BY <1>2
  <2>7. q # NoRequest
    BY <2>6, DataFacts
  <2> HIDE DEF q
  <2> QED
    BY <1>1, <2>2, <2>3, <2>5, <2>6, <2>7, RequestMoves DEF RequestOf, incidentVars
<1>6. CASE WriteBack(r)
  <2>1. /\ request[r].at # "idle" /\ request[r].op \in {"pause", "resume", "patch", "test"}
        /\ Return(r) /\ UNCHANGED <<incidentVars, failures, checkVars>>
    BY <1>6 DEF WriteBack
  <2>2. request[r].monitor \in Monitors /\ request[r].copy \in Row
        /\ (request[r].monitor \notin PushMonitors => Agrees(request[r].copy))
    BY <1>1, <2>1 DEF RequestOf, RequestRecord
  <2>3. PICK new \in Edited(request[r].op, request[r].copy) :
          row' = [row EXCEPT ![request[r].monitor] = new]
    BY <1>6 DEF WriteBack
  <2>4. new \in Row /\ (Agrees(new) \/ request[r].monitor \in PushMonitors)
    BY <2>1, <2>2, EditedFacts
  <2>5. TablesInv'
    BY <1>1, <2>1, <2>2, <2>3, <2>4, RowWritten DEF TablesInv, incidentVars, checkVars
  <2> QED
    BY <2>1, <2>5, RequestReturns DEF incidentVars
<1>7. CASE RecordHeartbeat(r)
  <2> DEFINE new == [row[request[r].monitor] EXCEPT !.status = request[r].status]
             q == [request[r] EXCEPT !.at = "recorded", !.copy = NoRow]
  <2>1. /\ request[r].at = "stored" /\ request[r].op = "heartbeat"
        /\ row' = [row EXCEPT ![request[r].monitor] = new]
        /\ Return(r) \/ request' = [request EXCEPT ![r] = q]
        /\ UNCHANGED <<incidentVars, failures, checkVars>>
    BY <1>7 DEF RecordHeartbeat
  <2>2. request[r].monitor \in Monitors /\ request[r].monitor \in PushMonitors
        /\ request[r].status \in Results
    BY <1>1, <2>1 DEF RequestOf
  <2>3. new \in Row
    BY <1>1, <2>2, RowFacts
  <2>4. /\ q \in RequestRecord /\ q.at = "recorded" /\ q.op = request[r].op
        /\ q.monitor = request[r].monitor /\ q.status = request[r].status
    BY <1>3
  <2>5. q # NoRequest
    BY <2>4, DataFacts
  <2> HIDE DEF new, q
  <2>6. TablesInv'
    BY <1>1, <2>1, <2>2, <2>3, RowWritten DEF TablesInv, incidentVars, checkVars
  <2>7. CASE Return(r)
    BY <2>1, <2>6, <2>7, RequestReturns DEF incidentVars
  <2>8. CASE request' = [request EXCEPT ![r] = q]
    BY <2>1, <2>2, <2>4, <2>5, <2>6, <2>8, RequestMoves DEF incidentVars
  <2> QED
    BY <2>1, <2>7, <2>8
<1>8. CASE HeartbeatHook(r)
  <2>1. /\ request[r].at = "recorded" /\ Return(r)
        /\ OnScheduledStatusChange(r, request[r].monitor, request[r].status)
        /\ UNCHANGED <<row, failures, checkVars>>
    BY <1>8 DEF HeartbeatHook
  <2>2. request[r].monitor \in Monitors /\ request[r].monitor \in PushMonitors
    BY <1>1, <2>1 DEF RequestOf
  <2>3. /\ deleted' = deleted
        /\ \A u \in Threads : call'[u] = call[u] \/ call'[u].monitor = request[r].monitor
    BY <2>1, <2>2, HookCalls, DataFacts
  <2>4. TablesInv'
    BY <1>1, <2>1, <2>3 DEF TablesInv, checkVars
  <2> QED
    BY <2>1, <2>2, <2>3, <2>4, RequestReturns
<1>9. CASE RequestFails(r)
  <2>1. Return(r) /\ UNCHANGED <<incidentVars, row, failures, checkVars>>
    BY <1>9 DEF RequestFails
  <2>2. TablesInv'
    BY <1>1, <2>1 DEF TablesInv, incidentVars, checkVars
  <2> QED
    BY <2>1, <2>2, RequestReturns DEF incidentVars
<1>10. ASSUME NEW i \in DOMAIN incidents, IncidentRequest(r, i)
       PROVE  RestInv'
  <2>1. /\ request[r] = NoRequest
        /\ Acknowledge(r, i) \/ Resolve(r, i)
        /\ UNCHANGED <<row, failures, checkVars, request>>
    BY <1>10 DEF IncidentRequest
  <2>2. /\ deleted' = deleted
        /\ \A u \in Threads : call'[u] = call[u] \/ call'[u].monitor = None
    BY <2>1 DEF Acknowledge, Resolve, Begin, LifecycleInv, IncidentInv, IncidentTypeOK
  <2>3. TablesInv'
    BY <1>1, <2>1, <2>2 DEF TablesInv, checkVars
  <2>4. Return(r)
    BY <1>1, <2>1 DEF Return
  <2> QED
    BY <2>1, <2>2, <2>3, <2>4, RequestReturns
<1> QED
  BY <1>4, <1>5, <1>6, <1>7, <1>8, <1>9, <1>10 DEF RequestStep

\* The steps that are no check's and no request's.
LEMMA FetchKeeps ==
  ASSUME LifecycleInv, Fetch
  PROVE  RestInv'
<1>1. /\ UNCHANGED <<incidentVars, row, failures, check, request, phase>>
      /\ fetched' = [m \in Monitors |-> IF m \in listed' THEN row[m] ELSE NoRow]
      /\ listed' \in SUBSET Monitors
      /\ \A m \in listed' : row[m].enabled /\ row[m].status # "paused"
  BY DEF Fetch, List
<1>2. TablesInv'
  BY <1>1, DataFacts DEF LifecycleInv, TablesInv, IsDue, incidentVars
<1> QED
  BY <1>1, <1>2 DEF LifecycleInv, RestInv, DispatchTypeOK, CheckOf, RequestOf, HookOf, incidentVars

LEMMA CallStepKeeps ==
  ASSUME LifecycleInv, NEW t \in Threads, CallStep(t)
  PROVE  RestInv'
<1>1. /\ UNCHANGED <<row, failures, listed, phase, fetched, check, request, deleted>>
      /\ End(t)
  BY DEF CallStep, checkVars, Insert, WriteAcknowledged, WriteResolved, CallFails
<1>2. TablesInv'
  BY <1>1 DEF LifecycleInv, TablesInv
<1>3. \A u \in Threads : call'[u] = call[u] \/ call'[u].monitor = None
  BY <1>1, DataFacts DEF End, LifecycleInv, IncidentInv, IncidentTypeOK
<1>4. \A u \in Threads : HookOf(u)'
  BY <1>1, <1>3, DataFacts DEF LifecycleInv, HookOf
<1> QED
  BY <1>1, <1>2, <1>4 DEF LifecycleInv, RestInv, DispatchTypeOK, CheckOf, RequestOf

LEMMA DeleteRowKeeps ==
  ASSUME LifecycleInv, NEW m \in Monitors, DeleteRow(m)
  PROVE  RestInv'
<1>1. /\ UNCHANGED <<listed, phase, fetched, check, request, call>>
      /\ deleted' = deleted \cup {m} /\ row' = [row EXCEPT ![m] = NoRow]
      /\ failures' = [failures EXCEPT ![m] = 0]
  BY DEF DeleteRow, checkVars, DeleteMonitor
<1>2. 0 \in 0..MaxRetry
  BY LifecycleAssumption
<1>3. TablesInv'
  BY <1>1, <1>2, DataFacts DEF LifecycleInv, TablesInv
<1> QED
  BY <1>1, <1>3 DEF LifecycleInv, RestInv, DispatchTypeOK, CheckOf, RequestOf, HookOf

LEMMA ServerRestartKeeps ==
  ASSUME LifecycleInv, ServerRestart
  PROVE  RestInv'
<1>1. /\ listed' = {} /\ phase' = [m \in Monitors |-> "idle"]
      /\ fetched' = [m \in Monitors |-> NoRow]
      /\ check' = [m \in Monitors |-> NoCheck]
      /\ request' = [r \in Requests |-> NoRequest]
      /\ call' = [t \in Threads |-> Idle]
      /\ UNCHANGED <<row, failures, deleted>>
  BY DEF ServerRestart, Restart
<1>2. TablesInv' /\ DispatchTypeOK'
  BY <1>1, DataFacts DEF LifecycleInv, TablesInv, DispatchTypeOK, Phases
<1>3. check' \in [Monitors -> CheckRecord] /\ request' \in [Requests -> RequestRecord]
  BY <1>1, DataFacts
<1>4. \A m \in Monitors : CheckOf(m)'
  BY <1>1, DataFacts DEF CheckOf
<1>5. \A r \in Requests : RequestOf(r)'
  BY <1>1, DataFacts DEF RequestOf
<1>6. \A t \in Threads : HookOf(t)'
  BY <1>1, DataFacts DEF HookOf
<1> QED
  BY <1>2, <1>3, <1>4, <1>5, <1>6 DEF RestInv

LEMMA LifecycleInvStep ==
  ASSUME LifecycleInv, [LifecycleNext]_lifecycleVars
  PROVE  LifecycleInv'
<1>1. IncidentInv'
  BY StepImplements, IncidentInvStep DEF LifecycleInv
<1>2. RestInv'
  <2>1. CASE UNCHANGED lifecycleVars
    <3>1. UNCHANGED <<call, deleted, row, failures, listed, phase, fetched, check, request>>
      BY <2>1 DEF lifecycleVars, incidentVars, checkVars
    <3> QED
      BY <3>1 DEF LifecycleInv, RestInv, TablesInv, DispatchTypeOK, CheckOf, RequestOf, HookOf
  <2> QED
    BY <2>1, FetchKeeps, CheckStepKeeps, RequestStepKeeps, CallStepKeeps, DeleteRowKeeps,
       ServerRestartKeeps DEF LifecycleNext
<1> QED
  BY <1>1, <1>2 DEF LifecycleInv, RestInv

LEMMA LifecycleInvInit == LifecycleInit => LifecycleInv
<1> SUFFICES ASSUME LifecycleInit PROVE LifecycleInv
  OBVIOUS
<1>1. IncidentInv
  BY IncidentInvInit DEF LifecycleInit
<1>2. /\ listed = {} /\ phase = [m \in Monitors |-> "idle"]
      /\ fetched = [m \in Monitors |-> NoRow]
      /\ check = [m \in Monitors |-> NoCheck]
      /\ request = [r \in Requests |-> NoRequest]
      /\ call = [t \in Threads |-> Idle]
      /\ failures = [m \in Monitors |-> 0]
      /\ row \in [Monitors -> Row]
      /\ \A m \in Monitors : row[m].status = IF row[m].enabled THEN "unknown" ELSE "paused"
  BY DEF LifecycleInit, DispatchInit, IncidentInit
<1>3. \A m \in Monitors : Agrees(row[m])
  <2>1. \A m \in Monitors : row[m].enabled \in BOOLEAN
    BY <1>2 DEF Row
  <2> QED
    BY <1>2, <2>1 DEF Agrees
<1>4. 0 \in 0..MaxRetry
  BY LifecycleAssumption
<1>5. TablesInv /\ DispatchTypeOK
  BY <1>2, <1>3, <1>4, DataFacts DEF TablesInv, DispatchTypeOK, Phases
<1>6. check \in [Monitors -> CheckRecord] /\ request \in [Requests -> RequestRecord]
  BY <1>2, DataFacts
<1>7. \A m \in Monitors : CheckOf(m)
  BY <1>2, DataFacts DEF CheckOf
<1>8. \A r \in Requests : RequestOf(r)
  BY <1>2, DataFacts DEF RequestOf
<1>9. \A t \in Threads : HookOf(t)
  BY <1>2, DataFacts DEF HookOf
<1> QED
  BY <1>1, <1>5, <1>6, <1>7, <1>8, <1>9 DEF LifecycleInv

-----------------------------------------------------------------------------
(* The theorems.                                                           *)

LEMMA LifecycleInvariant == LifecycleSpec => []LifecycleInv
BY LifecycleInvInit, LifecycleInvStep, PTL DEF LifecycleSpec

\* Rows, copies, checks and requests stay of their types, and a check is under
\* way exactly when the scheduler has its monitor in progress.
THEOREM LifecycleTypeCorrect == LifecycleSpec => []LifecycleTypeOK
BY LifecycleInvariant, LifecycleType, PTL

\* The server with its scheduler, handlers, faults and restarts calls the
\* incident service as the service's own specification lets its callers do:
\* OnScheduledStatusChange() of a scheduled monitor never runs twice at a time.
THEOREM ServerImplementsIncidents == LifecycleSpec => ImplementsIncidents
<1>1. LifecycleInit => IncidentInit
  BY DEF LifecycleInit
<1>2. LifecycleInv /\ [LifecycleNext]_lifecycleVars => [IncidentNext]_incidentVars
  BY StepImplements
<1> QED
  BY <1>1, <1>2, LifecycleInvariant, PTL DEF LifecycleSpec, ImplementsIncidents, IncidentSpec

\* Whole rows written from stale copies never make a scheduled monitor that
\* looks active and is never due, or one that is paused and still enabled.
THEOREM EnabledAgrees == LifecycleSpec => []EnabledMatchesStatus
<1>1. LifecycleInv => EnabledMatchesStatus
  BY DEF LifecycleInv, TablesInv, Agrees, EnabledMatchesStatus
<1> QED
  BY <1>1, LifecycleInvariant, PTL

-----------------------------------------------------------------------------
(* The status and the incidents, while no hook is interfered with.         *)

\* A monitor that is gone does not come back.
LEMMA DeletedStays ==
  ASSUME [LifecycleNext]_lifecycleVars
  PROVE  deleted \subseteq deleted'
BY DEF LifecycleNext, lifecycleVars, incidentVars, CheckStep, RequestStep, CallStep, Fetch, Skip,
       Enqueue, Run, RunFails, Decide, WriteRow, WriteRowFails, CheckHook, CheckReturns, ReadRow,
       StoreResult, WriteBack, RecordHeartbeat, HeartbeatHook, RequestFails, IncidentRequest,
       OnScheduledStatusChange, OpenForMonitor, ResolveForMonitor, Acknowledge, Resolve, Begin,
       Insert, WriteAcknowledged, WriteResolved, CallFails, DeleteRow, DeleteMonitor,
       ServerRestart, Restart

\* Thread t is on its way from a written status of m to the end of the hook.
Hooker(t, m) ==
  \/ t = m /\ check[m].at = "written"
  \/ t \in Requests /\ request[t].at = "recorded" /\ request[t].monitor = m
  \/ call[t].monitor = m

\* A thread is in a call only where its check or request has nothing to do.
ThreadInv ==
  /\ \A m \in Monitors : call[m] # Idle => check[m].at = "done" /\ call[m].monitor = m
  /\ \A r \in Requests : call[r] # Idle => request[r] = NoRequest

IsLast(i, m) ==
  /\ i \in DOMAIN incidents
  /\ incidents[i].monitor = m
  /\ \A j \in DOMAIN incidents : incidents[j].monitor = m => j <= i

\* What the hook of m found still holds, unless the monitor has been paused.
CallKnows(c, m) ==
  \/ /\ c.step = "insert"
     /\ row[m].status # "up"
     /\ ActiveOf(m) = {}
  \/ /\ c.step = "resolve"
     /\ row[m].status \in {"up", "paused", "unknown"}
     /\ ActiveOf(m) \subseteq {c.id}

\* One hook of m at a time, for a status that has only been paused since.
HookInv(m) ==
  /\ \A t, u \in Threads : Hooker(t, m) /\ Hooker(u, m) => t = u
  /\ check[m].at = "written" => row[m].status \in {check[m].status, "paused", "unknown"}
  /\ \A r \in Requests : request[r].at = "recorded" /\ request[r].monitor = m =>
       row[m].status \in {request[r].status, "paused", "unknown"}
  /\ \A t \in Threads : call[t].monitor = m => CallKnows(call[t], m)

\* Only the newest incident of m is active, and with no hook it fits the status.
TableInv(m) ==
  /\ \A i \in ActiveOf(m) : IsLast(i, m)
  /\ row[m].status = "up" /\ ~Hooking(m) => ActiveOf(m) = {}
  /\ row[m].status \in {"down", "degraded"} /\ ~Hooking(m) =>
       \E i \in DOMAIN incidents :
         /\ IsLast(i, m)
         /\ incidents[i].status = "resolved" => ~incidents[i].recovered

\* What holds of a monitor that is not crossed.
Settled(m) == HookInv(m) /\ TableInv(m)

SettledInv ==
  /\ ThreadInv
  /\ ResolvesOwn
  /\ \A m \in Monitors \ (deleted \cup crossed) : Settled(m)

LEMMA HookingHasHooker ==
  ASSUME NEW m \in Monitors
  PROVE  Hooking(m) <=> \E t \in Threads : Hooker(t, m)
BY DataFacts DEF Hooking, Hooker

\* What a step does to m that begins and ends no hook of m.
SameHooks(m) ==
  /\ \A t \in Threads : call[t].monitor = m \/ call'[t].monitor = m => call'[t] = call[t]
  /\ check'[m].at = "written" <=> check[m].at = "written"
  /\ check[m].at = "written" => check'[m].status = check[m].status
  /\ \A r \in Requests :
       \/ request[r].at = "recorded" /\ request[r].monitor = m
       \/ request'[r].at = "recorded" /\ request'[r].monitor = m
       => request'[r] = request[r]

\* What it does to the incidents of m if it opens none.
OpensNone(m) ==
  /\ DOMAIN incidents \subseteq DOMAIN incidents'
  /\ \A i \in DOMAIN incidents : incidents'[i].monitor = incidents[i].monitor
  /\ \A i \in DOMAIN incidents' : incidents'[i].monitor = m => i \in DOMAIN incidents
  /\ \A i \in DOMAIN incidents : incidents[i].monitor = m =>
       /\ incidents'[i].status \in {"open", "acknowledged"} =>
            incidents[i].status \in {"open", "acknowledged"}
       /\ incidents'[i].status = "resolved" =>
            \/ ~incidents'[i].recovered
            \/ incidents[i].status = "resolved" /\ incidents'[i].recovered = incidents[i].recovered

LEMMA OpensNoneFacts ==
  ASSUME NEW m \in Monitors, OpensNone(m)
  PROVE  /\ ActiveOf(m)' \subseteq ActiveOf(m)
         /\ \A i : IsLast(i, m) => IsLast(i, m)'
         /\ \A i \in DOMAIN incidents :
              IsLast(i, m) /\ (incidents[i].status = "resolved" => ~incidents[i].recovered) =>
                (incidents'[i].status = "resolved" => ~incidents'[i].recovered)
<1>1. ActiveOf(m)' \subseteq ActiveOf(m)
  BY DEF OpensNone, ActiveOf
<1>2. \A i : IsLast(i, m) => IsLast(i, m)'
  BY DEF OpensNone, IsLast
<1>3. \A i \in DOMAIN incidents :
              IsLast(i, m) /\ (incidents[i].status = "resolved" => ~incidents[i].recovered) =>
                (incidents'[i].status = "resolved" => ~incidents'[i].recovered)
  BY DEF OpensNone, IsLast
<1> QED
  BY <1>1, <1>2, <1>3

\* Such a step, if it leaves the status of m or takes m out of the checks.
LEMMA Untouched ==
  ASSUME IncidentTypeOK, NEW m \in Monitors, HookInv(m), TableInv(m),
         SameHooks(m), OpensNone(m),
         row'[m].status \in {row[m].status, "paused", "unknown"}
  PROVE  HookInv(m)' /\ TableInv(m)'
<1>1. \A t \in Threads : Hooker(t, m)' <=> Hooker(t, m)
  BY DEF Hooker, SameHooks
<1>2. Hooking(m)' <=> Hooking(m)
  BY <1>1, HookingHasHooker DEF Hooking, Hooker, SameHooks
<1>3. ASSUME NEW t \in Threads, call'[t].monitor = m
      PROVE  CallKnows(call[t], m)'
  <2>1. call'[t] = call[t] /\ CallKnows(call[t], m)
    BY <1>3 DEF SameHooks, HookInv
  <2>2. ActiveOf(m)' \subseteq ActiveOf(m)
    BY OpensNoneFacts
  <2> QED
    BY <2>1, <2>2 DEF CallKnows
<1>4. HookInv(m)'
  <2>1. \A t, u \in Threads : Hooker(t, m)' /\ Hooker(u, m)' => t = u
    BY <1>1 DEF HookInv
  <2>2. check'[m].at = "written" => row'[m].status \in {check'[m].status, "paused", "unknown"}
    BY DEF HookInv, SameHooks
  <2>3. \A r \in Requests : request'[r].at = "recorded" /\ request'[r].monitor = m =>
          row'[m].status \in {request'[r].status, "paused", "unknown"}
    BY DEF HookInv, SameHooks
  <2> QED
    BY <1>3, <2>1, <2>2, <2>3 DEF HookInv
<1>5. TableInv(m)'
  <2>1. \A i \in ActiveOf(m)' : IsLast(i, m)'
    BY OpensNoneFacts DEF TableInv
  <2>2. row'[m].status = "up" /\ ~Hooking(m)' => ActiveOf(m)' = {}
    BY <1>2, OpensNoneFacts DEF TableInv
  <2>3. ASSUME row'[m].status \in {"down", "degraded"}, ~Hooking(m)'
        PROVE  \E i \in DOMAIN incidents' :
                 /\ IsLast(i, m)'
                 /\ incidents'[i].status = "resolved" => ~incidents'[i].recovered
    <3>1. PICK i \in DOMAIN incidents :
            /\ IsLast(i, m)
            /\ incidents[i].status = "resolved" => ~incidents[i].recovered
      BY <1>2, <2>3 DEF TableInv
    <3>2. IsLast(i, m)' /\ (incidents'[i].status = "resolved" => ~incidents'[i].recovered)
      BY <3>1, OpensNoneFacts
    <3> QED
      BY <3>2 DEF OpensNone
  <2> QED
    BY <2>1, <2>2, <2>3 DEF TableInv
<1> QED
  BY <1>4, <1>5

\* A status of m is written with no hook of m under way.
LEMMA StatusWritten ==
  ASSUME NEW m \in Monitors, HookInv(m), TableInv(m), ~Hooking(m),
         UNCHANGED <<incidents, call>>, NEW t \in Threads, Hooker(t, m)',
         \A u \in Threads : Hooker(u, m)' => u = t,
         check'[m].at = "written" => row'[m].status = check'[m].status,
         \A r \in Requests : request'[r].at = "recorded" /\ request'[r].monitor = m =>
           row'[m].status = request'[r].status
  PROVE  HookInv(m)' /\ TableInv(m)'
<1>1. Hooking(m)'
  BY HookingHasHooker DEF Hooking, Hooker
<1>2. \A u \in Threads : call'[u].monitor # m
  BY DEF Hooking
<1>3. HookInv(m)'
  BY <1>2 DEF HookInv
<1>4. \A i \in ActiveOf(m)' : IsLast(i, m)'
  BY DEF ActiveOf, IsLast, TableInv
<1> QED
  BY <1>1, <1>3, <1>4 DEF TableInv

\* OnScheduledStatusChange() begins: it makes a call, or has nothing to do.
LEMMA HookRuns ==
  ASSUME IncidentTypeOK, NEW t \in Threads, NEW m \in Monitors, HookInv(m), TableInv(m),
         Hooker(t, m), call[t] = Idle, NEW status \in Results,
         row[m].status \in {status, "paused", "unknown"}, UNCHANGED row,
         OnScheduledStatusChange(t, m, status),
         check'[m].at # "written",
         \A r \in Requests : ~(request'[r].at = "recorded" /\ request'[r].monitor = m)
  PROVE  HookInv(m)' /\ TableInv(m)'
<1>1. \A u \in Threads : call[u].monitor # m
  BY DataFacts DEF HookInv, Hooker
<1>2. /\ UNCHANGED <<incidents, deleted>>
      /\ ActiveOf(m)' = ActiveOf(m)
      /\ \A i : IsLast(i, m) <=> IsLast(i, m)'
  <2>1. UNCHANGED <<incidents, deleted>>
    BY DEF OnScheduledStatusChange, OpenForMonitor, ResolveForMonitor, Begin, incidentVars
  <2> QED
    BY <2>1 DEF ActiveOf, IsLast
<1>3. \A u \in Threads : Hooker(u, m)' <=> call'[u].monitor = m
  BY DEF Hooker
<1>4. Hooking(m)' <=> \E u \in Threads : call'[u].monitor = m
  BY <1>3 DEF Hooking, Hooker
<1>5. ASSUME NEW c, Begin(t, c), c.monitor = m, CallKnows(c, m)'
      PROVE  HookInv(m)' /\ TableInv(m)'
  <2>1. \A u \in Threads : call'[u] = IF u = t THEN c ELSE call[u]
    BY <1>5 DEF Begin, IncidentTypeOK
  <2>2. ASSUME NEW u \in Threads, call'[u].monitor = m
        PROVE  u = t /\ CallKnows(call[u], m)'
    <3>1. u = t
      BY <1>1, <2>1, <2>2
    <3>2. call'[u] = c
      BY <2>1, <3>1
    <3> QED
      BY <1>5, <3>1, <3>2 DEF CallKnows
  <2>3. HookInv(m)'
    BY <1>3, <2>2 DEF HookInv
  <2>4. Hooking(m)'
    BY <1>4, <1>5, <2>1
  <2> QED
    BY <1>2, <2>3, <2>4 DEF TableInv
<1>6. CASE status \in {"down", "degraded"} /\ OpenForMonitor(t, m)
  <2> DEFINE c == [step |-> "insert", monitor |-> m, id |-> 0]
  <2>1. Begin(t, c) /\ ActiveOf(m) = {}
    BY <1>6 DEF OpenForMonitor
  <2>2. CallKnows(c, m)'
    BY <1>2, <1>6, <2>1 DEF CallKnows
  <2> QED
    BY <1>5, <2>1, <2>2
<1>7. CASE status = "up" /\ ResolveForMonitor(t, m)
  <2>1. PICK n : n = NewestOf(ActiveOf(m))
    OBVIOUS
  <2> DEFINE c == [step |-> "resolve", monitor |-> m, id |-> n]
  <2>2. Begin(t, c) /\ ActiveOf(m) # {}
    BY <1>7, <2>1 DEF ResolveForMonitor
  <2>3. ActiveOf(m) \in SUBSET (1..Len(incidents)) /\ Len(incidents) \in Nat
    BY TypeFacts DEF ActiveOf
  <2>4. n \in ActiveOf(m)
    BY <2>1, <2>2, <2>3, NewestOfProperty
  <2>5. \A i \in ActiveOf(m) : i = n
    <3>1. \A i \in ActiveOf(m) : i <= n /\ n <= i /\ i \in Nat /\ n \in Nat
      BY <2>3, <2>4 DEF TableInv, IsLast, ActiveOf
    <3> QED
      BY <3>1
  <2>6. CallKnows(c, m)'
    BY <1>2, <1>7, <2>5 DEF CallKnows
  <2> QED
    BY <1>5, <2>2, <2>6
<1>8. CASE (status = "up") = (ActiveOf(m) = {}) /\ UNCHANGED incidentVars
  <2>1. UNCHANGED call
    BY <1>8 DEF incidentVars
  <2>2. HookInv(m)'
    BY <1>1, <1>3, <2>1 DEF HookInv
  <2>3. row'[m].status \in {"down", "degraded"} =>
          \E i \in DOMAIN incidents' :
            /\ IsLast(i, m)'
            /\ incidents'[i].status = "resolved" => ~incidents'[i].recovered
    <3>1. row'[m].status \in {"down", "degraded"} => ActiveOf(m) # {}
      BY <1>8
    <3> QED
      BY <1>2, <3>1 DEF TableInv, ActiveOf
  <2>4. row'[m].status = "up" => ActiveOf(m)' = {}
    BY <1>2, <1>8
  <2> QED
    BY <1>2, <2>2, <2>3, <2>4 DEF TableInv
<1> QED
  BY <1>6, <1>7, <1>8 DEF OnScheduledStatusChange

\* The write of a hook's call: the hook of m is over, and its incidents fit.
LEMMA CallEnds ==
  ASSUME IncidentTypeOK, NEW t \in Threads, NEW m \in Monitors \ deleted,
         HookInv(m), TableInv(m), call[t].monitor = m,
         Insert(t) \/ WriteResolved(t), UNCHANGED <<row, check, request>>
  PROVE  HookInv(m)' /\ TableInv(m)'
<1>1. /\ CallKnows(call[t], m) /\ m # None
      /\ \A u \in Threads : Hooker(u, m) => u = t
  BY DataFacts DEF HookInv, Hooker
<1>2. End(t) /\ \A u \in Threads : call'[u] = IF u = t THEN Idle ELSE call[u]
  BY EndFacts DEF Insert, WriteResolved
<1>3. \A u \in Threads : Hooker(u, m)' => Hooker(u, m)
  BY <1>1, <1>2, DataFacts DEF Hooker
<1>4. call'[t].monitor # m
  BY <1>1, <1>2, DataFacts
<1>5. HookInv(m)'
  <2>1. \A u \in Threads : call'[u].monitor # m
    BY <1>1, <1>2, <1>4 DEF Hooker
  <2> QED
    BY <1>3, <2>1 DEF HookInv
<1>6. DOMAIN incidents = 1..Len(incidents) /\ Len(incidents) \in Nat
      /\ incidents \in Seq(Incident)
  BY TypeFacts DEF IncidentTypeOK
<1>7. CASE Insert(t)
  <2>0. PICK n \in Nat : n = Len(incidents)
    BY <1>6
  <2> DEFINE e == [monitor |-> m, status |-> "open", recovered |-> FALSE]
  <2>1. incidents' = Append(incidents, e) /\ row[m].status # "up" /\ ActiveOf(m) = {}
    BY <1>1, <1>7 DEF Insert, CallKnows
  <2>2. e \in Incident
    BY DEF Incident
  <2>3. /\ DOMAIN incidents' = 1..(n + 1)
        /\ incidents'[n + 1] = e
        /\ \A i \in 1..n : incidents'[i] = incidents[i]
    BY <1>6, <2>0, <2>1, <2>2, AppendProperties
  <2>4. IsLast(n + 1, m)'
    <3>1. n + 1 \in DOMAIN incidents' /\ \A j \in DOMAIN incidents' : j <= n + 1
      BY <1>6, <2>3
    <3>2. incidents'[n + 1].monitor = m
      BY <2>3
    <3> QED
      BY <3>1, <3>2 DEF IsLast
  <2>5. ActiveOf(m)' \subseteq {n + 1}
    BY <1>6, <2>0, <2>1, <2>3 DEF ActiveOf
  <2>6. incidents'[n + 1].status # "resolved"
    BY <2>3
  <2> QED
    BY <1>5, <2>1, <2>4, <2>5, <2>6 DEF TableInv, IsLast
<1>8. CASE WriteResolved(t)
  <2>0. PICK i, known : i = call[t].id /\ known = (call[t].monitor # None)
    OBVIOUS
  <2>1. /\ row[m].status \in {"up", "paused", "unknown"} /\ ActiveOf(m) \subseteq {i}
        /\ i \in DOMAIN incidents /\ Update(i, "resolved", known) /\ known \in BOOLEAN
    BY <1>1, <2>0, <1>8 DEF WriteResolved, CallKnows, IncidentTypeOK
  <2>2. /\ DOMAIN incidents' = DOMAIN incidents
        /\ \A j \in DOMAIN incidents :
             /\ incidents'[j].monitor = incidents[j].monitor
             /\ incidents'[j].status = IF j = i /\ incidents[i].status # "deleted"
                                       THEN "resolved" ELSE incidents[j].status
    BY <1>6, <2>1, UpdateProperty
  <2>3. ActiveOf(m)' = {}
    BY <2>1, <2>2 DEF ActiveOf
  <2> QED
    BY <1>5, <2>1, <2>3 DEF TableInv
<1> QED
  BY <1>7, <1>8

\* The write or failure of any other call opens no incident of m, if it is not
\* an acknowledgement over a resolution.
LEMMA OtherCallEnds ==
  ASSUME LifecycleInv, ResolvesOwn, NEW t \in Threads, CallStep(t),
         NEW m \in Monitors \ deleted, call[t].monitor # m, ~Reopens(m)
  PROVE  SameHooks(m) /\ OpensNone(m)
<1>1. /\ IncidentTypeOK
      /\ DOMAIN incidents = 1..Len(incidents) /\ Len(incidents) \in Nat
      /\ incidents \in Seq(Incident) /\ call[t] \in Call
  BY TypeFacts DEF LifecycleInv, IncidentInv, IncidentTypeOK
<1>2. /\ UNCHANGED <<row, check, request>>
      /\ Insert(t) \/ WriteAcknowledged(t) \/ WriteResolved(t) \/ CallFails(t)
  BY DEF CallStep, checkVars
<1>3. End(t) /\ \A u \in Threads : call'[u] = IF u = t THEN Idle ELSE call[u]
  BY <1>1, <1>2, EndFacts DEF Insert, WriteAcknowledged, WriteResolved, CallFails
<1>4. SameHooks(m)
  BY <1>2, <1>3, DataFacts DEF SameHooks
<1>5. ASSUME NEW i \in DOMAIN incidents, NEW status \in {"acknowledged", "resolved"},
             NEW recovered \in BOOLEAN, Update(i, status, recovered),
             incidents[i].monitor = m =>
               \/ status = "acknowledged" /\ incidents[i].status # "resolved"
               \/ status = "resolved" /\ ~recovered
      PROVE  OpensNone(m)
  <2>1. /\ DOMAIN incidents' = DOMAIN incidents
        /\ \A j \in DOMAIN incidents :
             /\ incidents'[j].monitor = incidents[j].monitor
             /\ incidents'[j].status = IF j = i /\ incidents[i].status # "deleted"
                                       THEN status ELSE incidents[j].status
             /\ incidents'[j].recovered = IF j = i /\ incidents[i].status # "deleted"
                                          THEN recovered ELSE incidents[j].recovered
    BY <1>1, <1>5, UpdateProperty
  <2>2. incidents[i] \in Incident
    BY <1>1, ElementOfSeq
  <2>3. ASSUME NEW j \in DOMAIN incidents, incidents[j].monitor = m, j = i,
               incidents[i].status # "deleted"
        PROVE  /\ incidents'[j].status \in {"open", "acknowledged"} =>
                    incidents[j].status \in {"open", "acknowledged"}
               /\ incidents'[j].status = "resolved" => ~incidents'[j].recovered
    BY <1>5, <2>1, <2>2, <2>3 DEF Incident
  <2>4. ASSUME NEW j \in DOMAIN incidents, ~(j = i /\ incidents[i].status # "deleted")
        PROVE  /\ incidents'[j].status = incidents[j].status
               /\ incidents'[j].recovered = incidents[j].recovered
    BY <2>1, <2>4
  <2> QED
    BY <2>1, <2>3, <2>4 DEF OpensNone
<1>6. CASE Insert(t)
  <2>1. call[t].monitor \in Monitors
    BY <1>1, <1>6 DEF Insert, Call, IncidentTypeOK
  <2>2. CASE incidents' = incidents
    BY <1>4, <2>2 DEF OpensNone
  <2>3. CASE incidents' = Append(incidents, [monitor |-> call[t].monitor, status |-> "open",
                                             recovered |-> FALSE])
    <3> DEFINE e == [monitor |-> call[t].monitor, status |-> "open", recovered |-> FALSE]
               n == Len(incidents)
    <3>1. e \in Incident /\ e.monitor # m
      BY <2>1 DEF Incident
    <3> HIDE DEF e
    <3>2. /\ DOMAIN incidents' = 1..(n + 1) /\ incidents'[n + 1].monitor # m
          /\ \A i \in 1..n : incidents'[i] = incidents[i]
      BY <1>1, <2>3, <3>1, AppendProperties DEF e
    <3>3. DOMAIN incidents \subseteq DOMAIN incidents'
          /\ \A i \in DOMAIN incidents' : i = n + 1 \/ i \in DOMAIN incidents
      BY <1>1, <3>2
    <3> HIDE DEF n
    <3> QED
      BY <1>1, <1>4, <3>2, <3>3 DEF OpensNone, n
  <2> QED
    BY <1>6, <2>2, <2>3 DEF Insert
<1>7. CASE WriteAcknowledged(t)
  <2>1. /\ call[t].step = "acknowledge" /\ call[t].id \in DOMAIN incidents
        /\ Update(call[t].id, "acknowledged", incidents[call[t].id].recovered)
    BY <1>1, <1>7 DEF WriteAcknowledged, IncidentTypeOK
  <2>2. incidents[call[t].id].recovered \in BOOLEAN
    BY <1>1, <2>1, TypeFacts DEF Incident
  <2>3. incidents[call[t].id].monitor = m => incidents[call[t].id].status # "resolved"
    BY <1>7 DEF Reopens
  <2> QED
    BY <1>4, <1>5, <2>1, <2>2, <2>3
<1>8. CASE WriteResolved(t)
  <2>1. /\ call[t].step = "resolve" /\ call[t].id \in DOMAIN incidents
        /\ Update(call[t].id, "resolved", call[t].monitor # None)
    BY <1>1, <1>8 DEF WriteResolved, IncidentTypeOK
  <2>2. CASE call[t].monitor = None
    BY <1>4, <1>5, <2>1, <2>2
  <2>3. CASE call[t].monitor # None
    <3>1. incidents[call[t].id].monitor # m
      BY <1>1, <2>1, <2>3 DEF ResolvesOwn
    <3> QED
      BY <1>4, <1>5, <2>1, <3>1
  <2> QED
    BY <2>2, <2>3
<1>9. CASE CallFails(t)
  BY <1>4, <1>9 DEF CallFails, OpensNone
<1> QED
  BY <1>2, <1>4, <1>6, <1>7, <1>8, <1>9

-----------------------------------------------------------------------------
(* Every step keeps it for the monitors it does not interfere with.        *)

Settles == \A m \in Monitors \ deleted' : Settled(m) /\ ~Crosses(m) => Settled(m)'

\* What the conditions of crossed say of the writes of statuses.
LEMMA UncrossedFacts ==
  ASSUME NEW m \in Monitors, ~Crosses(m)
  PROVE  /\ ~LosesHook(m) /\ ~Reopens(m)
         /\ check[m].copy \in Row /\ WriteRow(m) =>
              check[m].copy.status = row[m].status /\ ~Hooking(m)
         /\ \A r \in Requests :
              request[r].copy \in Row /\ request[r].monitor = m /\ RecordHeartbeat(r) =>
                request[r].copy.status = row[m].status /\ ~Hooking(m)
         /\ \A r \in Requests :
              request[r].monitor = m /\ WriteBack(r) =>
                \/ request[r].copy.status = row[m].status
                \/ row'[m].status # request[r].copy.status
<1>1. ~LosesHook(m) /\ ~Reopens(m) /\ ~HooksOverlap(m) /\ ~RestoresStatus(m)
  BY DEF Crosses
<1>2. ASSUME NEW copy \in Row, WritesStatus(m, copy)
      PROVE  copy.status = row[m].status /\ ~Hooking(m)
  BY <1>1, <1>2 DEF HooksOverlap
<1>3. check[m].copy \in Row /\ WriteRow(m) =>
        check[m].copy.status = row[m].status /\ ~Hooking(m)
  BY <1>2 DEF WritesStatus
<1>4. \A r \in Requests :
        request[r].copy \in Row /\ request[r].monitor = m /\ RecordHeartbeat(r) =>
          request[r].copy.status = row[m].status /\ ~Hooking(m)
  BY <1>2 DEF WritesStatus
<1>5. \A r \in Requests :
        request[r].monitor = m /\ WriteBack(r) =>
          \/ request[r].copy.status = row[m].status
          \/ row'[m].status # request[r].copy.status
  BY <1>1 DEF RestoresStatus
<1> QED
  BY <1>1, <1>3, <1>4, <1>5

LEMMA CheckStepSettles ==
  ASSUME LifecycleInv, ThreadInv, NEW z \in Monitors, CheckStep(z)
  PROVE  ThreadInv' /\ Settles
<1>1. /\ check \in [Monitors -> CheckRecord] /\ check[z] \in CheckRecord
      /\ CheckOf(z) /\ IncidentTypeOK
      /\ row \in [Monitors -> Row]
  BY DEF LifecycleInv, IncidentInv, TablesInv
<1>2. Returning.at = "done"
  BY DataFacts
\* No hook begins, ends or writes.
<1>3. ASSUME UNCHANGED <<incidentVars, row, request>>, NEW c, check' = [check EXCEPT ![z] = c],
             check[z].at # "written", c.at # "written", check[z].at = "done" => call[z] = Idle \/ c.at = "done"
      PROVE  ThreadInv' /\ Settles
  <2>1. \A m \in Monitors : SameHooks(m) /\ OpensNone(m)
    BY <1>1, <1>3 DEF SameHooks, OpensNone, incidentVars
  <2>2. ThreadInv'
    BY <1>1, <1>3 DEF ThreadInv, incidentVars
  <2>3. \A m \in Monitors \ deleted' : Settled(m) => Settled(m)'
    BY <1>1, <1>3, <2>1, Untouched DEF incidentVars, Settled
  <2> QED
    BY <2>2, <2>3 DEF Settles
<1>4. CASE Skip(z)
  <2>1. /\ UNCHANGED <<incidentVars, row, request, check>>
        /\ \A m \in Monitors : SameHooks(m) /\ OpensNone(m)
    BY <1>4 DEF Skip, SameHooks, OpensNone, incidentVars
  <2>2. ThreadInv'
    BY <2>1 DEF ThreadInv, incidentVars
  <2>3. \A m \in Monitors \ deleted' : Settled(m) => Settled(m)'
    BY <1>1, <2>1, Untouched DEF incidentVars, Settled
  <2> QED
    BY <2>2, <2>3 DEF Settles
<1>5. CASE Enqueue(z)
  <2> DEFINE c == [NoCheck EXCEPT !.at = "waiting", !.copy = fetched[z]]
  <2>1. /\ UNCHANGED <<incidentVars, row, request>> /\ check' = [check EXCEPT ![z] = c]
        /\ phase[z] = "idle"
    BY <1>5 DEF Enqueue, Claim
  <2>2. c.at = "waiting" /\ check[z].at = "none"
    BY <1>1, <2>1 DEF NoCheck, CheckOf
  <2> HIDE DEF c
  <2> QED
    BY <1>3, <2>1, <2>2
<1>6. CASE Run(z) \/ RunFails(z) \/ Decide(z) \/ WriteRowFails(z)
  <2>1. UNCHANGED <<incidentVars, row, request>> /\ check[z].at \in {"waiting", "ran", "decided"}
    BY <1>1, <1>6 DEF Run, RunFails, Decide, WriteRowFails, Start, CheckOf
  <2>2. PICK c : check' = [check EXCEPT ![z] = c] /\ c.at \in {"ran", "decided", "done"}
    <3>1. \A status : \A at \in {"ran", "decided"} :
            [check[z] EXCEPT !.at = at, !.status = status].at = at
      BY <1>1 DEF CheckRecord
    <3>2. CASE Run(z)
      <4>1. PICK status : check' = [check EXCEPT ![z].at = "ran", ![z].status = status]
        BY <3>2 DEF Run
      <4> QED
        BY <3>1, <4>1
    <3>3. CASE Decide(z)
      <4>1. PICK n : check' = [check EXCEPT ![z].at = "decided",
                                ![z].status = NewStatus(check[z].copy, @, n)]
        BY <3>3 DEF Decide
      <4> QED
        BY <3>1, <4>1
    <3>4. CASE RunFails(z) \/ WriteRowFails(z)
      <4>1. check' = [check EXCEPT ![z] = Returning]
        BY <3>4 DEF RunFails, WriteRowFails
      <4> QED
        BY <1>2, <4>1
    <3> QED
      BY <1>6, <3>2, <3>3, <3>4
  <2> QED
    BY <1>3, <2>1, <2>2
<1>7. CASE CheckReturns(z)
  <2>1. /\ UNCHANGED <<incidentVars, row, request>> /\ check' = [check EXCEPT ![z] = NoCheck]
        /\ check[z].at = "done" /\ call[z] = Idle
    BY <1>7 DEF CheckReturns
  <2> QED
    BY <1>3, <2>1, DataFacts
<1>8. CASE WriteRow(z)
  <2>1. PICK c : c = IF check[z].status = check[z].copy.status THEN Returning
                     ELSE [NoCheck EXCEPT !.at = "written", !.status = check[z].status]
    OBVIOUS
  <2>2. /\ check[z].at = "decided" /\ check' = [check EXCEPT ![z] = c]
        /\ UNCHANGED <<incidentVars, request>>
        /\ z \notin deleted /\ check[z].copy \in Row /\ check[z].status \in Results
        /\ row' = [row EXCEPT ![z] = [check[z].copy EXCEPT !.status = check[z].status]]
    BY <1>1, <1>8, <2>1 DEF WriteRow, CheckRecord, CheckOf
  <2>3. /\ c.at = IF check[z].status = check[z].copy.status THEN "done" ELSE "written"
        /\ c.at = "written" => c.status = check[z].status
    BY <1>2, <2>1, <2>2, WrittenFacts
  <2>4. row'[z].status = check[z].status /\ \A m \in Monitors \ {z} : row'[m] = row[m]
    BY <1>1, <2>2, RowFacts
  <2>5. ThreadInv'
    BY <1>1, <2>2, <2>3 DEF ThreadInv, incidentVars
  <2>6. ASSUME NEW m \in Monitors \ deleted', HookInv(m), TableInv(m), ~Crosses(m)
        PROVE  HookInv(m)' /\ TableInv(m)'
    <3>1. m = z => check[z].copy.status = row[z].status /\ ~Hooking(z)
      BY <1>8, <2>2, <2>6, UncrossedFacts
    <3>2. CASE m # z \/ check[z].status = row[z].status
      <4>1. SameHooks(m) /\ OpensNone(m)
        BY <1>1, <2>2, <2>3, <3>1, <3>2 DEF SameHooks, OpensNone, incidentVars
      <4>2. row'[m].status = row[m].status
        BY <2>4, <3>2
      <4> QED
        BY <1>1, <2>6, <4>1, <4>2, Untouched
    <3>3. CASE m = z /\ check[z].status # row[z].status
      <4>1. check'[z] = c /\ c.at = "written" /\ c.status = row'[z].status
        BY <1>1, <2>2, <2>3, <2>4, <3>1, <3>3
      <4>2. Hooker(z, m)' /\ z \in Threads
        BY <3>3, <4>1, DataFacts DEF Hooker
      <4>3. \A u \in Threads : Hooker(u, m)' => u = z
        BY <2>2, <3>1, <3>3 DEF Hooker, Hooking, incidentVars
      <4>4. \A r \in Requests : ~(request'[r].at = "recorded" /\ request'[r].monitor = m)
        BY <2>2, <3>1, <3>3 DEF Hooking
      <4> QED
        BY <2>2, <2>6, <3>1, <3>3, <4>1, <4>2, <4>3, <4>4, StatusWritten DEF incidentVars
    <3> QED
      BY <3>2, <3>3
  <2> QED
    BY <2>5, <2>6 DEF Settles, Settled
<1>9. CASE CheckHook(z)
  <2>2. /\ check[z].at = "written" /\ check' = [check EXCEPT ![z] = Returning]
        /\ OnScheduledStatusChange(z, z, check[z].status)
        /\ UNCHANGED <<row, request>>
    BY <1>9 DEF CheckHook
  <2>3. /\ UNCHANGED <<incidents, deleted>> /\ z \in Threads /\ call[z] = Idle
        /\ \A u \in Threads : call'[u] = call[u] \/ (u = z /\ call'[u].monitor = z)
    BY <1>1, <2>2, HookCalls, DataFacts DEF ThreadInv
  <2>4. check[z].status \in Results
    BY <1>1, <2>2 DEF CheckOf
  <2>5. ThreadInv'
    <3>1. ASSUME NEW m \in Monitors, call'[m] # Idle
          PROVE  check'[m].at = "done" /\ call'[m].monitor = m
      <4>1. CASE m = z
        BY <1>1, <1>2, <2>2, <2>3, <3>1, <4>1
      <4>2. CASE m # z
        BY <1>1, <2>2, <2>3, <3>1, <4>2, DataFacts DEF ThreadInv
      <4> QED
        BY <4>1, <4>2
    <3>2. \A r \in Requests : r \in Threads /\ r # z
      BY DEF Requests
    <3> QED
      BY <1>1, <2>2, <2>3, <3>1, <3>2 DEF ThreadInv
  <2>6. ASSUME NEW m \in Monitors \ deleted', HookInv(m), TableInv(m)
        PROVE  HookInv(m)' /\ TableInv(m)'
    <3>2. CASE m # z
      <4>1. SameHooks(m)
        <5>1. \A u \in Threads : call[u].monitor = m \/ call'[u].monitor = m => call'[u] = call[u]
          BY <2>3, <3>2, DataFacts
        <5> QED
          BY <1>1, <2>2, <3>2, <5>1 DEF SameHooks
      <4>2. OpensNone(m)
        BY <2>3 DEF OpensNone
      <4> QED
        BY <1>1, <2>2, <2>6, <4>1, <4>2, Untouched
    <3>3. CASE m = z
      <4>1. Hooker(z, m)
        BY <2>2, <3>3 DEF Hooker
      <4>2. check'[m].at # "written"
        BY <1>1, <1>2, <2>2, <3>3
      <4>3. \A r \in Requests : ~(request'[r].at = "recorded" /\ request'[r].monitor = m)
        <5>1. \A r \in Requests : r \in Threads /\ r # z
          BY DEF Requests
        <5> QED
          BY <2>2, <2>3, <2>6, <4>1, <5>1 DEF HookInv, Hooker
      <4>4. row[m].status \in {check[z].status, "paused", "unknown"}
        BY <2>2, <2>6, <3>3 DEF HookInv
      <4> QED
        BY <1>1, <2>2, <2>3, <2>4, <2>6, <3>3, <4>1, <4>2, <4>3, <4>4, HookRuns
    <3> QED
      BY <3>2, <3>3
  <2> QED
    BY <2>5, <2>6 DEF Settles, Settled
<1> QED
  BY <1>4, <1>5, <1>6, <1>7, <1>8, <1>9 DEF CheckStep

LEMMA RequestStepSettles ==
  ASSUME LifecycleInv, ThreadInv, NEW z \in Requests, RequestStep(z)
  PROVE  ThreadInv' /\ Settles
<1>1. /\ request \in [Requests -> RequestRecord] /\ request[z] \in RequestRecord
      /\ RequestOf(z) /\ IncidentTypeOK
      /\ row \in [Monitors -> Row] /\ z \in Threads /\ z \notin Monitors
  BY DEF LifecycleInv, IncidentInv, TablesInv, Requests
<1>2. \A status :
        /\ [request[z] EXCEPT !.at = "stored", !.status = status].at = "stored"
        /\ [request[z] EXCEPT !.at = "recorded", !.copy = NoRow].at = "recorded"
        /\ [request[z] EXCEPT !.at = "recorded", !.copy = NoRow].monitor = request[z].monitor
        /\ [request[z] EXCEPT !.at = "recorded", !.copy = NoRow].status = request[z].status
  BY <1>1 DEF RequestRecord
\* No hook begins, ends or writes, and a row is at most paused or resumed.
<1>3. ASSUME UNCHANGED <<incidents, deleted, checkVars>>,
             NEW q, request' = [request EXCEPT ![z] = q],
             request[z].at # "recorded", q.at # "recorded",
             \A t \in Threads : call'[t] = call[t] \/ (t = z /\ call[t] = Idle /\ call'[t].monitor = None),
             call'[z] # Idle => q = NoRequest,
             \A m \in Monitors : ~Crosses(m) => row'[m].status \in {row[m].status, "paused", "unknown"}
      PROVE  ThreadInv' /\ Settles
  <2>1. ASSUME NEW m \in Monitors PROVE SameHooks(m) /\ OpensNone(m)
    <3>1. \A t \in Threads : call[t].monitor = m \/ call'[t].monitor = m => call'[t] = call[t]
      BY <1>3, DataFacts
    <3>2. \A r \in Requests :
            \/ request[r].at = "recorded" /\ request[r].monitor = m
            \/ request'[r].at = "recorded" /\ request'[r].monitor = m
            => request'[r] = request[r]
      BY <1>1, <1>3
    <3> QED
      BY <1>3, <3>1, <3>2 DEF SameHooks, OpensNone, checkVars
  <2>2. ThreadInv'
    <3>1. \A m \in Monitors : call'[m] = call[m] /\ check'[m] = check[m]
      BY <1>1, <1>3, DataFacts DEF checkVars
    <3>2. ASSUME NEW r \in Requests, call'[r] # Idle PROVE request'[r] = NoRequest
      BY <1>1, <1>3, <3>2, DataFacts DEF ThreadInv
    <3> QED
      BY <1>1, <3>1, <3>2 DEF ThreadInv
  <2>3. ASSUME NEW m \in Monitors \ deleted', HookInv(m), TableInv(m), ~Crosses(m)
        PROVE  HookInv(m)' /\ TableInv(m)'
    BY <1>1, <1>3, <2>1, <2>3, Untouched
  <2> QED
    BY <2>2, <2>3 DEF Settles, Settled
<1>4. ASSUME NEW op \in RowWrites, NEW m \in Monitors, ReadRow(z, op, m)
      PROVE  ThreadInv' /\ Settles
  <2> DEFINE q == [op |-> op, at |-> "read", monitor |-> m, copy |-> row[m],
                   status |-> row[m].status]
  <2>1. /\ request' = [request EXCEPT ![z] = q] /\ request[z] = NoRequest /\ call[z] = Idle
        /\ UNCHANGED <<incidentVars, row, failures, checkVars>>
    BY <1>4 DEF ReadRow, Free
  <2>2. q.at = "read"
    OBVIOUS
  <2> HIDE DEF q
  <2> QED
    BY <1>3, <2>1, <2>2, DataFacts DEF incidentVars
<1>5. CASE StoreResult(z)
  <2>1. PICK status : request' = [request EXCEPT ![z].at = "stored", ![z].status = status]
    BY <1>5 DEF StoreResult
  <2>2. PICK q : q = [request[z] EXCEPT !.at = "stored", !.status = status]
    OBVIOUS
  <2>3. /\ request' = [request EXCEPT ![z] = q] /\ q.at = "stored" /\ request[z].at = "read"
        /\ UNCHANGED <<incidentVars, row, checkVars>>
    BY <1>2, <1>5, <2>1, <2>2 DEF StoreResult
  <2>4. call[z] = Idle
    BY <1>1, <2>3, DataFacts DEF ThreadInv
  <2> QED
    BY <1>3, <2>3, <2>4 DEF incidentVars
<1>6. CASE WriteBack(z)
  <2>0. PICK y : y = request[z].monitor
    OBVIOUS
  <2>1. PICK new \in Edited(request[z].op, request[z].copy) : row' = [row EXCEPT ![y] = new]
    BY <1>6, <2>0 DEF WriteBack
  <2>2. /\ request' = [request EXCEPT ![z] = NoRequest]
        /\ request[z].at \in {"read", "stored"}
        /\ request[z].op \in {"pause", "resume", "patch", "test"}
        /\ UNCHANGED <<incidentVars, checkVars>>
    BY <1>6 DEF WriteBack, Return
  <2>3. /\ y \in Monitors /\ call[z] = Idle
        /\ request[z].copy \in Row
    BY <1>1, <2>0, <2>2, DataFacts DEF RequestOf, ThreadInv, RequestRecord
  <2>4. new.status \in {request[z].copy.status, "paused", "unknown"}
    BY <2>2, <2>3, EditedFacts
  <2>5. ASSUME NEW m \in Monitors, ~Crosses(m)
        PROVE  row'[m].status \in {row[m].status, "paused", "unknown"}
    <3>1. CASE m = y
      <4>1. \/ request[z].copy.status = row[m].status
            \/ row'[m].status # request[z].copy.status
        BY <1>6, <2>0, <2>5, <3>1, UncrossedFacts
      <4> QED
        BY <1>1, <2>1, <2>3, <2>4, <3>1, <4>1
    <3>2. CASE m # y
      BY <1>1, <2>1, <3>2
    <3> QED
      BY <3>1, <3>2
  <2> QED
    BY <1>3, <2>2, <2>3, <2>5, DataFacts DEF incidentVars
<1>7. CASE RequestFails(z)
  <2>1. /\ request' = [request EXCEPT ![z] = NoRequest]
        /\ request[z].at \in {"read", "stored"}
        /\ UNCHANGED <<incidentVars, row, checkVars>>
    BY <1>7 DEF RequestFails, Return
  <2>2. call[z] = Idle
    BY <1>1, <2>1, DataFacts DEF ThreadInv
  <2> QED
    BY <1>3, <2>1, <2>2, DataFacts DEF incidentVars
<1>8. ASSUME NEW i \in DOMAIN incidents, IncidentRequest(z, i)
      PROVE  ThreadInv' /\ Settles
  <2>1. /\ request[z] = NoRequest /\ call[z] = Idle
        /\ UNCHANGED <<incidents, deleted, row, checkVars, request>>
        /\ \A t \in Threads : call'[t] = call[t] \/ (t = z /\ call'[t].monitor = None)
    BY <1>1, <1>8 DEF IncidentRequest, Acknowledge, Resolve, Begin, IncidentTypeOK
  <2>2. request' = [request EXCEPT ![z] = NoRequest]
    BY <1>1, <2>1
  <2> QED
    BY <1>3, <2>1, <2>2, DataFacts
<1>9. CASE RecordHeartbeat(z)
  <2>1. PICK y : y = request[z].monitor
    OBVIOUS
  <2>2. PICK q : q = IF request[z].status = request[z].copy.status THEN NoRequest
                     ELSE [request[z] EXCEPT !.at = "recorded", !.copy = NoRow]
    OBVIOUS
  <2>3. /\ request[z].at = "stored" /\ request' = [request EXCEPT ![z] = q]
        /\ UNCHANGED <<incidentVars, checkVars>>
        /\ y \notin deleted /\ request[z].copy \in Row
        /\ row' = [row EXCEPT ![y].status = request[z].status]
    BY <1>1, <1>9, <2>1, <2>2 DEF RecordHeartbeat, Return, RequestRecord
  <2>4. y \in Monitors /\ call[z] = Idle /\ request[z].status \in Results
    BY <1>1, <2>1, <2>3, DataFacts DEF RequestOf, ThreadInv
  <2>5. row'[y].status = request[z].status /\ \A m \in Monitors \ {y} : row'[m] = row[m]
    BY <1>1, <2>3, <2>4, RowFacts
  <2>6. \A m \in Monitors :
          m = y /\ ~Crosses(m) => request[z].copy.status = row[m].status /\ ~Hooking(m)
    BY <1>9, <2>1, <2>3, UncrossedFacts
  <2>7. CASE request[z].status = request[z].copy.status
    <3>1. q.at = "idle" /\ q = NoRequest
      BY <2>2, <2>7, DataFacts
    <3>2. \A m \in Monitors : ~Crosses(m) => row'[m].status = row[m].status
      BY <2>5, <2>7, <2>6
    <3> QED
      BY <1>3, <2>3, <2>4, <3>1, <3>2 DEF incidentVars
  <2>8. CASE request[z].status # request[z].copy.status
    <3>1. q.at = "recorded" /\ q.monitor = y /\ q.status = row'[y].status
      BY <1>2, <2>1, <2>2, <2>5, <2>8
    <3>2. ThreadInv'
      BY <1>1, <2>3, <2>4 DEF ThreadInv, incidentVars, checkVars
    <3>3. ASSUME NEW m \in Monitors \ deleted', HookInv(m), TableInv(m), ~Crosses(m)
          PROVE  HookInv(m)' /\ TableInv(m)'
      <4>1. m = y => ~Hooking(m)
        BY <2>6, <3>3
      <4>2. CASE m # y
        <5>1. SameHooks(m) /\ OpensNone(m)
          BY <1>1, <2>3, <3>1, <4>2, <2>1 DEF SameHooks, OpensNone, incidentVars, checkVars
        <5> QED
          BY <1>1, <2>5, <3>3, <4>2, <5>1, Untouched
      <4>3. CASE m = y
        <5>1. request'[z] = q
          BY <1>1, <2>3
        <5>2. Hooker(z, m)'
          BY <3>1, <4>3, <5>1 DEF Hooker
        <5>3. \A r \in Requests : request'[r].at = "recorded" /\ request'[r].monitor = m => r = z
          BY <1>1, <2>3, <4>1, <4>3 DEF Hooking
        <5>4. \A u \in Threads : Hooker(u, m)' => u = z
          BY <2>3, <4>1, <4>3, <5>3 DEF Hooker, Hooking, incidentVars, checkVars
        <5>5. check'[m].at # "written"
          BY <2>3, <4>1, <4>3 DEF Hooking, checkVars
        <5>6. \A r \in Requests : request'[r].at = "recorded" /\ request'[r].monitor = m =>
                row'[m].status = request'[r].status
          BY <3>1, <4>3, <5>1, <5>3
        <5> QED
          BY <1>1, <2>3, <3>3, <4>1, <4>3, <5>2, <5>4, <5>5, <5>6, StatusWritten DEF incidentVars
      <4> QED
        BY <4>2, <4>3
    <3> QED
      BY <3>2, <3>3 DEF Settles, Settled
  <2> QED
    BY <2>7, <2>8
<1>10. CASE HeartbeatHook(z)
  <2>1. PICK y : y = request[z].monitor
    OBVIOUS
  <2>2. /\ request[z].at = "recorded" /\ request' = [request EXCEPT ![z] = NoRequest]
        /\ OnScheduledStatusChange(z, y, request[z].status)
        /\ UNCHANGED <<row, failures, checkVars>>
    BY <1>10, <2>1 DEF HeartbeatHook, Return
  <2>3. y \in Monitors /\ call[z] = Idle /\ request[z].status \in Results
    BY <1>1, <2>1, <2>2, DataFacts DEF RequestOf, ThreadInv
  <2>4. /\ UNCHANGED <<incidents, deleted>>
        /\ \A u \in Threads : call'[u] = call[u] \/ (u = z /\ call'[u].monitor = y)
    BY <1>1, <2>2, <2>3, HookCalls
  <2>5. ThreadInv'
    <3>1. \A m \in Monitors : call'[m] = call[m] /\ check'[m] = check[m]
      BY <1>1, <2>2, <2>4, DataFacts DEF checkVars
    <3>2. ASSUME NEW r \in Requests, call'[r] # Idle PROVE request'[r] = NoRequest
      BY <1>1, <2>2, <2>4, <3>2, DataFacts DEF ThreadInv
    <3> QED
      BY <1>1, <3>1, <3>2 DEF ThreadInv
  <2>6. ASSUME NEW m \in Monitors \ deleted', HookInv(m), TableInv(m)
        PROVE  HookInv(m)' /\ TableInv(m)'
    <3>2. CASE m # y
      <4>1. \A u \in Threads : call[u].monitor = m \/ call'[u].monitor = m => call'[u] = call[u]
        BY <2>3, <2>4, <3>2, DataFacts
      <4>2. SameHooks(m) /\ OpensNone(m)
        BY <1>1, <2>1, <2>2, <2>4, <3>2, <4>1, DataFacts DEF SameHooks, OpensNone, checkVars
      <4> QED
        BY <1>1, <2>2, <2>6, <4>2, Untouched
    <3>3. CASE m = y
      <4>1. Hooker(z, m)
        BY <2>1, <2>2, <3>3 DEF Hooker
      <4>2. check'[m].at # "written"
        <5>1. m # z /\ m \in Threads
          BY <1>1, DataFacts
        <5>2. ~Hooker(m, m)
          BY <1>1, <2>6, <4>1, <5>1 DEF HookInv
        <5> QED
          BY <2>2, <5>2 DEF Hooker, checkVars
      <4>3. \A r \in Requests : ~(request'[r].at = "recorded" /\ request'[r].monitor = m)
        <5>1. ASSUME NEW r \in Requests, r # z
              PROVE  ~(request[r].at = "recorded" /\ request[r].monitor = m)
          BY <1>1, <2>6, <4>1, <5>1, DataFacts DEF HookInv, Hooker
        <5> QED
          BY <1>1, <2>2, <5>1, DataFacts
      <4>4. row[m].status \in {request[z].status, "paused", "unknown"}
        BY <2>1, <2>2, <2>6, <3>3 DEF HookInv
      <4> QED
        BY <1>1, <2>2, <2>3, <2>6, <3>3, <4>1, <4>2, <4>3, <4>4, HookRuns
    <3> QED
      BY <3>2, <3>3
  <2> QED
    BY <2>5, <2>6 DEF Settles, Settled
<1> QED
  BY <1>4, <1>5, <1>6, <1>7, <1>8, <1>9, <1>10 DEF RequestStep

LEMMA OtherStepSettles ==
  ASSUME LifecycleInv, ThreadInv, ResolvesOwn,
         \/ Fetch \/ UNCHANGED lifecycleVars
         \/ \E t \in Threads : CallStep(t)
         \/ \E z \in Monitors : DeleteRow(z)
         \/ ServerRestart
  PROVE  ThreadInv' /\ Settles
<1>2. IncidentTypeOK /\ row \in [Monitors -> Row]
  BY DEF LifecycleInv, IncidentInv, TablesInv
<1>3. CASE Fetch \/ UNCHANGED lifecycleVars
  <2>1. UNCHANGED <<incidents, call, deleted, row, check, request>>
    BY <1>3 DEF Fetch, lifecycleVars, incidentVars, checkVars
  <2>2. \A m \in Monitors : SameHooks(m) /\ OpensNone(m)
    BY <2>1 DEF SameHooks, OpensNone
  <2>3. ThreadInv'
    BY <2>1 DEF ThreadInv
  <2>4. \A m \in Monitors \ deleted' : Settled(m) => Settled(m)'
    BY <1>2, <2>1, <2>2, Untouched DEF Settled
  <2> QED
    BY <2>3, <2>4 DEF Settles
<1>4. ASSUME NEW t \in Threads, CallStep(t)
      PROVE  ThreadInv' /\ Settles
  <2>1. /\ UNCHANGED <<row, check, request, deleted>>
        /\ \A u \in Threads : call'[u] = IF u = t THEN Idle ELSE call[u]
    BY <1>2, <1>4, EndFacts
       DEF CallStep, checkVars, Insert, WriteAcknowledged, WriteResolved, CallFails
  <2>2. ThreadInv'
    BY <2>1, DataFacts DEF ThreadInv
  <2>3. ASSUME NEW m \in Monitors \ deleted', HookInv(m), TableInv(m), ~Crosses(m)
        PROVE  HookInv(m)' /\ TableInv(m)'
    <3>1. m \in Monitors \ deleted /\ ~LosesHook(m) /\ ~Reopens(m)
      BY <2>1, <2>3, UncrossedFacts
    <3>2. CASE call[t].monitor = m
      <4>1. call[t].step # "acknowledge"
        BY <2>3, <3>2 DEF HookInv, CallKnows
      <4>2. ~CallFails(t)
        BY <3>1, <3>2 DEF LosesHook, Hooking
      <4>3. Insert(t) \/ WriteResolved(t)
        BY <1>4, <4>1, <4>2 DEF CallStep, WriteAcknowledged
      <4> QED
        BY <1>2, <2>1, <2>3, <3>1, <3>2, <4>3, CallEnds
    <3>3. CASE call[t].monitor # m
      <4>1. SameHooks(m) /\ OpensNone(m)
        BY <1>4, <3>1, <3>3, OtherCallEnds
      <4> QED
        BY <1>2, <2>1, <2>3, <4>1, Untouched
    <3> QED
      BY <3>2, <3>3
  <2> QED
    BY <2>2, <2>3 DEF Settles, Settled
<1>5. ASSUME NEW z \in Monitors, DeleteRow(z)
      PROVE  ThreadInv' /\ Settles
  <2>1. /\ UNCHANGED <<check, request, call>> /\ deleted' = deleted \cup {z}
        /\ row' = [row EXCEPT ![z] = NoRow]
        /\ incidents' = [i \in DOMAIN incidents |->
                           IF incidents[i].monitor = z
                           THEN [incidents[i] EXCEPT !.status = "deleted"] ELSE incidents[i]]
    BY <1>5 DEF DeleteRow, checkVars, DeleteMonitor
  <2>2. ThreadInv'
    BY <2>1 DEF ThreadInv
  <2>3. ASSUME NEW m \in Monitors \ deleted', HookInv(m), TableInv(m)
        PROVE  HookInv(m)' /\ TableInv(m)'
    <3>1. m # z
      BY <2>1, <2>3
    <3>2. SameHooks(m)
      BY <2>1 DEF SameHooks
    <3>3. \A i \in DOMAIN incidents :
            /\ incidents'[i].monitor = incidents[i].monitor
            /\ incidents[i].monitor = m => incidents'[i] = incidents[i]
      BY <1>2, <2>1, <3>1, TypeFacts DEF Incident
    <3>4. OpensNone(m)
      BY <2>1, <3>3 DEF OpensNone
    <3>5. row'[m] = row[m]
      BY <1>2, <2>1, <3>1
    <3> QED
      BY <1>2, <2>3, <3>2, <3>4, <3>5, Untouched
  <2> QED
    BY <2>2, <2>3 DEF Settles, Settled
<1>6. CASE ServerRestart
  <2>1. /\ UNCHANGED <<incidents, deleted, row>>
        /\ call' = [t \in Threads |-> Idle]
        /\ check' = [m \in Monitors |-> NoCheck]
        /\ request' = [r \in Requests |-> NoRequest]
    BY <1>6 DEF ServerRestart, Restart
  <2>2. ThreadInv'
    BY <2>1, DataFacts DEF ThreadInv
  <2>3. ASSUME NEW m \in Monitors \ deleted', HookInv(m), TableInv(m), ~Crosses(m)
        PROVE  HookInv(m)' /\ TableInv(m)'
    <3>1. ~Hooking(m)
      BY <1>6, <2>3, UncrossedFacts DEF LosesHook
    <3>2. SameHooks(m)
      BY <2>1, <3>1, DataFacts DEF SameHooks, Hooking
    <3>3. OpensNone(m)
      BY <2>1 DEF OpensNone
    <3> QED
      BY <1>2, <2>1, <2>3, <3>2, <3>3, Untouched
  <2> QED
    BY <2>2, <2>3 DEF Settles, Settled
<1> QED
  BY <1>3, <1>4, <1>5, <1>6

\* A monitor that is in order, with nothing under way about it.
LEMMA OrderRestored ==
  ASSUME IncidentTypeOK', NEW m \in Monitors, ~Hooking(m)', StatusFits(m)'
  PROVE  Settled(m)'
<1>1. /\ \A t \in Threads : call'[t].monitor # m /\ ~Hooker(t, m)'
      /\ check'[m].at # "written"
      /\ \A r \in Requests : ~(request'[r].at = "recorded" /\ request'[r].monitor = m)
  BY DEF Hooking, Hooker
<1>2. HookInv(m)'
  BY <1>1 DEF HookInv
<1>3. \A i \in ActiveOf(m)' : IsLast(i, m)'
  BY DEF StatusFits, IsLast, ActiveOf, Own
<1>4. row'[m].status = "up" => ActiveOf(m)' = {}
  BY DEF StatusFits
<1>5. ASSUME row'[m].status \in {"down", "degraded"}
      PROVE  \E i \in DOMAIN incidents' :
               /\ IsLast(i, m)'
               /\ incidents'[i].status = "resolved" => ~incidents'[i].recovered
  <2> DEFINE own == {i \in DOMAIN incidents' : incidents'[i].monitor = m}
  <2>1. PICK i : i = NewestOf(own)
    OBVIOUS
  <2>2. /\ own # {}
        /\ incidents'[i].status = "resolved" => ~incidents'[i].recovered
    BY <1>5, <2>1 DEF StatusFits, Own
  <2>3. own \in SUBSET (1..Len(incidents')) /\ Len(incidents') \in Nat
    BY DEF IncidentTypeOK
  <2>4. i \in own /\ \A j \in own : j <= i
    BY <2>1, <2>2, <2>3, NewestOfProperty
  <2> QED
    BY <2>2, <2>4 DEF IsLast
<1> QED
  BY <1>2, <1>3, <1>4, <1>5 DEF Settled, TableInv

\* The invariant is inductive.
LEMMA SettledStep ==
  ASSUME LifecycleInv, LifecycleInv', SettledInv, [HistoryNext]_historyVars
  PROVE  SettledInv'
<1>1. ThreadInv /\ ResolvesOwn /\ \A m \in Monitors \ (deleted \cup crossed) : Settled(m)
  BY DEF SettledInv
<1>2. [LifecycleNext]_lifecycleVars
  BY DEF HistoryNext, historyVars
<1>3. ResolvesOwn'
  BY <1>1, <1>2, StepImplements, ResolvesOwnStep DEF LifecycleInv, IncidentInv
<1>4. ThreadInv' /\ Settles
  <2>1. CASE \E z \in Monitors : CheckStep(z)
    BY <1>1, <2>1, CheckStepSettles
  <2>2. CASE \E z \in Requests : RequestStep(z)
    BY <1>1, <2>2, RequestStepSettles
  <2>3. CASE \/ Fetch \/ UNCHANGED lifecycleVars
             \/ \E t \in Threads : CallStep(t)
             \/ \E z \in Monitors : DeleteRow(z)
             \/ ServerRestart
    BY <1>1, <2>3, OtherStepSettles
  <2> QED
    BY <1>2, <2>1, <2>2, <2>3 DEF LifecycleNext
<1>5. ASSUME NEW m \in Monitors, m \notin deleted', m \notin crossed'
      PROVE  Settled(m)'
  <2>1. CASE UNCHANGED historyVars
    <3>1. /\ UNCHANGED <<incidents, call, deleted, row, check, request>>
          /\ m \notin deleted \cup crossed
      BY <1>5, <2>1 DEF historyVars, lifecycleVars, incidentVars, checkVars
    <3>2. SameHooks(m) /\ OpensNone(m) /\ Settled(m)
      BY <1>1, <3>1 DEF SameHooks, OpensNone
    <3> QED
      BY <3>1, <3>2, Untouched DEF LifecycleInv, IncidentInv, Settled
  <2>2. CASE HistoryNext /\ ~Hooking(m)' /\ StatusFits(m)'
    BY <2>2, OrderRestored DEF LifecycleInv, IncidentInv
  <2>3. CASE HistoryNext /\ (Hooking(m)' \/ ~StatusFits(m)')
    <3>1. m \notin crossed /\ ~Crosses(m)
      BY <1>5, <2>3 DEF HistoryNext
    <3>2. m \notin deleted
      <4>1. deleted \subseteq deleted'
        BY <1>2, DeletedStays
      <4> QED
        BY <1>5, <4>1
    <3> QED
      BY <1>1, <1>4, <1>5, <3>1, <3>2 DEF Settles
  <2> QED
    BY <2>1, <2>2, <2>3
<1> QED
  BY <1>3, <1>4, <1>5 DEF SettledInv

LEMMA SettledInit == HistoryInit => SettledInv
<1> SUFFICES ASSUME HistoryInit PROVE SettledInv
  OBVIOUS
<1>1. /\ incidents = <<>> /\ call = [t \in Threads |-> Idle]
      /\ check = [m \in Monitors |-> NoCheck] /\ request = [r \in Requests |-> NoRequest]
      /\ \A m \in Monitors : row[m].status \in {"unknown", "paused"}
  BY DEF HistoryInit, LifecycleInit, IncidentInit
<1>2. \A t \in Threads, m \in Monitors : ~Hooker(t, m) /\ call[t].monitor # m
  BY <1>1, DataFacts DEF Hooker
<1>4. \A m \in Monitors : ActiveOf(m) = {}
  BY <1>1 DEF ActiveOf
<1>5. \A m \in Monitors : HookInv(m) /\ TableInv(m)
  BY <1>1, <1>2, <1>4, DataFacts DEF HookInv, TableInv
<1>6. ThreadInv /\ ResolvesOwn
  BY <1>1, DataFacts DEF ThreadInv, ResolvesOwn
<1> QED
  BY <1>5, <1>6 DEF SettledInv, Settled

\* With the newest incident IsLast() names, it says what the property says.
LEMMA SettledFollows ==
  ASSUME SettledInv, IncidentTypeOK
  PROVE  IncidentsFollowStatus
<1> SUFFICES ASSUME NEW m \in Monitors \ (deleted \cup crossed), ~Hooking(m)
             PROVE  StatusFits(m)
  BY DEF IncidentsFollowStatus
<1>1. TableInv(m)
  BY DEF SettledInv, Settled
<1>2. \A i \in ActiveOf(m), j \in Own(m) : j <= i
  BY <1>1 DEF TableInv, IsLast, Own
<1>3. row[m].status = "up" => ActiveOf(m) = {}
  BY <1>1 DEF TableInv
<1>4. ASSUME row[m].status \in {"down", "degraded"}
      PROVE  /\ Own(m) # {}
             /\ incidents[NewestOf(Own(m))].status = "resolved" =>
                  ~incidents[NewestOf(Own(m))].recovered
  <2>1. PICK i \in DOMAIN incidents :
          /\ IsLast(i, m)
          /\ incidents[i].status = "resolved" => ~incidents[i].recovered
    BY <1>1, <1>4 DEF TableInv
  <2>2. Own(m) \in SUBSET (1..Len(incidents)) /\ Len(incidents) \in Nat /\ i \in Own(m)
    BY <2>1, TypeFacts DEF IsLast, Own
  <2>3. NewestOf(Own(m)) \in Own(m) /\ i <= NewestOf(Own(m))
    BY <2>2, NewestOfProperty
  <2>4. NewestOf(Own(m)) <= i
    BY <2>1, <2>3 DEF IsLast, Own
  <2>5. NewestOf(Own(m)) = i
    BY <2>2, <2>3, <2>4
  <2> QED
    BY <2>1, <2>2, <2>5
<1> QED
  BY <1>2, <1>3, <1>4 DEF StatusFits

LEMMA HistoryKeepsLifecycle == HistorySpec => LifecycleSpec
<1>1. HistoryInit => LifecycleInit
  BY DEF HistoryInit
<1>2. [HistoryNext]_historyVars => [LifecycleNext]_lifecycleVars
  BY DEF HistoryNext, historyVars
<1> QED
  BY <1>1, <1>2, PTL DEF HistorySpec, LifecycleSpec

\* The rules of docs/incidents.md hold for any number of monitors, checks,
\* heartbeats and operators, with failing statements and restarts: whenever no
\* hook of a monitor is under way, one that is up has no active incident, and one
\* that is down or degraded has an incident, the newest of which nobody but an
\* operator has closed, unless one of the four events of Crosses has happened to
\* that monitor since it was last in order.
THEOREM IncidentsMatchStatus == HistorySpec => []IncidentsFollowStatus
<1>1. HistoryInit => SettledInv
  BY SettledInit
<1>2. LifecycleInv /\ LifecycleInv' /\ SettledInv /\ [HistoryNext]_historyVars => SettledInv'
  BY SettledStep
<1>3. LifecycleInv /\ SettledInv => IncidentsFollowStatus
  BY SettledFollows DEF LifecycleInv, IncidentInv
<1> QED
  BY <1>1, <1>2, <1>3, HistoryKeepsLifecycle, LifecycleInvariant, PTL DEF HistorySpec

-----------------------------------------------------------------------------
(* The status and the retry threshold.                                     *)

\* Request r has stored a result of m and not yet written the status.
Stored(r, m) == request[r].at = "stored" /\ request[r].monitor = m

\* The check of m has stored a result and not yet written the status.
Judging(m) == check[m].at \in {"ran", "decided"}

\* What the failures of m say of the result being handled, and of the status.
CountInv(m) ==
  /\ \A r, q \in Requests : Stored(r, m) /\ Stored(q, m) => r = q
  /\ Judging(m) => \A r \in Requests : ~Stored(r, m)
  /\ check[m].at = "ran" => check[m].status = "down" \/ failures[m] = 0
  /\ check[m].at = "decided" /\ check[m].status \in {"up", "degraded"} =>
       failures[m] < check[m].copy.retry
  /\ \A r \in Requests : Stored(r, m) =>
       request[r].op = "heartbeat" /\ (request[r].status = "down" \/ failures[m] = 0)
  /\ row[m].status \in {"up", "degraded"} /\ ~BeingJudged(m) => failures[m] < row[m].retry

ThresholdInv == \A m \in Monitors \ (deleted \cup unjudged) : CountInv(m)

Judges == \A m \in Monitors \ deleted' : CountInv(m) /\ ~Misjudges(m) => CountInv(m)'

LEMMA BeingJudgedFacts ==
  ASSUME NEW m \in Monitors
  PROVE  BeingJudged(m) <=> Judging(m) \/ \E r \in Requests : Stored(r, m)
BY DEF BeingJudged, Judging, Stored

\* A step that handles no result of m and at most pauses or resumes it, or
\* raises its threshold.
LEMMA CountKept ==
  ASSUME TablesInv, TablesInv', NEW m \in Monitors, CountInv(m), failures'[m] = failures[m],
         row'[m].status \in {row[m].status, "paused", "unknown"},
         row[m].retry <= row'[m].retry,
         check'[m] = check[m] \/ (~Judging(m) /\ ~Judging(m)'),
         \A r \in Requests : Stored(r, m)' \/ Stored(r, m) => request'[r] = request[r]
  PROVE  CountInv(m)'
<1>1. Judging(m)' <=> Judging(m)
  BY DEF Judging
<1>2. \A r \in Requests : Stored(r, m)' <=> Stored(r, m)
  BY DEF Stored
<1>3. \A r, q \in Requests : Stored(r, m)' /\ Stored(q, m)' => r = q
  BY <1>2 DEF CountInv
<1>4. Judging(m)' => \A r \in Requests : ~Stored(r, m)'
  BY <1>1, <1>2 DEF CountInv
<1>5. /\ check'[m].at = "ran" => check'[m].status = "down" \/ failures'[m] = 0
      /\ check'[m].at = "decided" /\ check'[m].status \in {"up", "degraded"}
         => failures'[m] < check'[m].copy.retry
  BY DEF CountInv, Judging
<1>6. \A r \in Requests : Stored(r, m)' =>
        request'[r].op = "heartbeat" /\ (request'[r].status = "down" \/ failures'[m] = 0)
  BY <1>2 DEF CountInv
<1>7. row'[m].status \in {"up", "degraded"} /\ ~BeingJudged(m)' => failures'[m] < row'[m].retry
  <2>1. BeingJudged(m)' <=> BeingJudged(m)
    BY <1>1, <1>2, BeingJudgedFacts DEF BeingJudged, Judging, Stored
  <2>2. /\ row[m].retry \in 1..MaxRetry /\ row'[m].retry \in 1..MaxRetry
        /\ failures[m] \in 0..MaxRetry /\ MaxRetry \in Nat
    BY LifecycleAssumption DEF TablesInv, Row
  <2>3. row[m].status \in {"up", "degraded"} /\ ~BeingJudged(m) => failures[m] < row[m].retry
    BY DEF CountInv
  <2> QED
    BY <2>1, <2>2, <2>3
<1> QED
  BY <1>3, <1>4, <1>5, <1>6, <1>7 DEF CountInv

\* What is stored is counted: no failures but after a result that was down.
LEMMA StoredFacts ==
  ASSUME LifecycleInv, NEW m \in Monitors, NEW result, failures' = StoredResult(m, result)
  PROVE  /\ result = "down" \/ failures'[m] = 0
         /\ \A z \in Monitors \ {m} : failures'[z] = failures[z]
BY DEF LifecycleInv, TablesInv, StoredResult

LEMMA CheckStepJudges ==
  ASSUME LifecycleInv, TablesInv', NEW z \in Monitors, CheckStep(z),
         NEW m \in Monitors \ deleted, CountInv(m), ~Misjudges(m)
  PROVE  CountInv(m)'
<1>1. /\ check \in [Monitors -> CheckRecord] /\ check[z] \in CheckRecord /\ CheckOf(z)
      /\ row \in [Monitors -> Row] /\ failures \in [Monitors -> 0..MaxRetry]
      /\ TablesInv /\ ~ResultIgnored(m) /\ ~JudgementLost(m)
  BY DEF LifecycleInv, TablesInv, Misjudges
<1>2. UNCHANGED request /\ \A r \in Requests : Stored(r, m)' <=> Stored(r, m)
  BY DEF CheckStep, Skip, Enqueue, Run, RunFails, Decide, WriteRow, WriteRowFails, CheckHook,
         CheckReturns, Stored
<1>3. \A at \in {"ran", "decided"}, status \in Results :
        /\ [check[z] EXCEPT !.at = at, !.status = status].at = at
        /\ [check[z] EXCEPT !.at = at, !.status = status].status = status
        /\ [check[z] EXCEPT !.at = at, !.status = status].copy = check[z].copy
  BY <1>1 DEF CheckRecord
<1>4. CASE z # m
  <2>1. /\ failures'[m] = failures[m] /\ row'[m] = row[m]
        /\ check'[m] = check[m]
    BY <1>1, <1>4, StoredFacts
       DEF CheckStep, Skip, Enqueue, Run, RunFails, Decide, WriteRow, WriteRowFails, CheckHook,
           CheckReturns
  <2>2. row[m].retry <= row'[m].retry
    BY <1>1, <2>1, LifecycleAssumption DEF Row
  <2> QED
    BY <1>1, <1>2, <2>1, <2>2, CountKept
<1>5. CASE z = m /\ Run(m)
  <2>1. PICK result \in Results :
          /\ failures' = StoredResult(m, result)
          /\ check' = [check EXCEPT ![m].at = "ran", ![m].status = result]
    BY <1>5 DEF Run
  <2>2. check'[m].at = "ran" /\ check'[m].status = result
    BY <1>1, <1>3, <1>5, <2>1
  <2>3. \A r \in Requests : ~Stored(r, m)'
    BY <1>1, <1>2, <1>5, BeingJudgedFacts DEF ResultIgnored
  <2>4. result = "down" \/ failures'[m] = 0
    BY <2>1, StoredFacts
  <2>5. BeingJudged(m)'
    BY <2>2 DEF BeingJudged
  <2> QED
    BY <2>2, <2>3, <2>4, <2>5 DEF CountInv, Judging
<1>6. CASE z = m /\ Decide(m)
  <2>1. PICK status : status = NewStatus(check[m].copy, check[m].status, failures[m])
    OBVIOUS
  <2>2. /\ check'[m].status = status /\ check[m].at = "ran" /\ UNCHANGED <<row, failures>>
    BY <1>1, <1>6, <2>1 DEF Decide, JudgementLost
  <2>3. PICK s : check' = [check EXCEPT ![m].at = "decided", ![m].status = s]
    <3>1. PICK n : check' = [check EXCEPT ![m].at = "decided",
                                          ![m].status = NewStatus(check[m].copy, @, n)]
      BY <1>6 DEF Decide
    <3> QED
      BY <3>1
  <2>4. check'[m].at = "decided" /\ check'[m].copy = check[m].copy
    <3>1. /\ [check[m] EXCEPT !.at = "decided", !.status = s].at = "decided"
          /\ [check[m] EXCEPT !.at = "decided", !.status = s].copy = check[m].copy
      BY <1>1, <1>6 DEF CheckRecord
    <3> QED
      BY <1>1, <2>3, <3>1
  <2>5. status \in {"up", "degraded"} => failures[m] < check[m].copy.retry
    <3>1. check[m].status = "down" \/ failures[m] = 0
      BY <2>2 DEF CountInv
    <3>2. check[m].copy.retry \in 1..MaxRetry /\ MaxRetry \in Nat /\ 0 < check[m].copy.retry
      BY <1>1, <1>6, LifecycleAssumption DEF CheckRecord, Row
    <3>3. CASE check[m].status = "down"
      BY <2>1, <3>3 DEF NewStatus
    <3>4. CASE failures[m] = 0
      BY <3>2, <3>4
    <3> QED
      BY <3>1, <3>3, <3>4
  <2>6. \A r \in Requests : ~Stored(r, m)'
    BY <1>2, <2>2 DEF CountInv, Judging
  <2>7. BeingJudged(m)'
    BY <2>4 DEF BeingJudged
  <2> QED
    BY <2>2, <2>4, <2>5, <2>6, <2>7 DEF CountInv, Judging
<1>7. CASE z = m /\ WriteRow(m)
  <2>1. /\ check[m].at = "decided" /\ UNCHANGED failures
        /\ check' = [check EXCEPT ![m] =
                       IF check[m].status = check[m].copy.status THEN Returning
                       ELSE [NoCheck EXCEPT !.at = "written", !.status = check[m].status]]
        /\ row' = [row EXCEPT ![m] = [check[m].copy EXCEPT !.status = check[m].status]]
    BY <1>7 DEF WriteRow
  <2>2. check[m].copy \in Row /\ check[m].status \in Results
    BY <1>1, <1>7, <2>1 DEF CheckRecord, CheckOf
  <2>3. row'[m].status = check[m].status /\ row'[m].retry = check[m].copy.retry
    BY <1>1, <2>1, <2>2, RowFacts
  <2>4. check'[m].at \in {"done", "written"}
    BY <1>1, <2>1, <2>2, WrittenFacts, DataFacts
  <2>5. \A r \in Requests : ~Stored(r, m)'
    BY <1>2, <2>1 DEF CountInv, Judging
  <2>6. row'[m].status \in {"up", "degraded"} => failures'[m] < row'[m].retry
    BY <2>1, <2>3 DEF CountInv
  <2> QED
    BY <2>4, <2>5, <2>6 DEF CountInv, Judging
<1>8. CASE z = m /\ (Skip(m) \/ Enqueue(m) \/ RunFails(m) \/ CheckHook(m) \/ CheckReturns(m))
  <2>1. UNCHANGED <<row, failures>>
    BY <1>8 DEF Skip, Enqueue, RunFails, CheckHook, CheckReturns
  <2>2. check'[m] = check[m] \/ (~Judging(m) /\ ~Judging(m)')
    <3>1. CASE Skip(m)
      BY <3>1 DEF Skip
    <3>2. CASE Enqueue(m)
      <4> DEFINE c == [NoCheck EXCEPT !.at = "waiting", !.copy = fetched[m]]
      <4>1. check' = [check EXCEPT ![m] = c] /\ phase[m] = "idle"
        BY <3>2 DEF Enqueue, Claim
      <4>2. c.at = "waiting" /\ check[m].at = "none"
        BY <1>1, <1>8, <4>1 DEF NoCheck, CheckOf
      <4> HIDE DEF c
      <4> QED
        BY <1>1, <4>1, <4>2 DEF Judging
    <3>3. CASE CheckHook(m)
      BY <1>1, <3>3, DataFacts DEF CheckHook, Judging
    <3>4. CASE CheckReturns(m)
      BY <1>1, <3>4, DataFacts DEF CheckReturns, Judging
    <3>5. CASE RunFails(m)
      BY <1>1, <1>8, <3>5, DataFacts DEF RunFails, Start, CheckOf, Judging
    <3> QED
      BY <1>8, <3>1, <3>2, <3>3, <3>4, <3>5
  <2>3. row[m].retry <= row'[m].retry
    BY <1>1, <2>1, LifecycleAssumption DEF Row
  <2> QED
    BY <1>1, <1>2, <2>1, <2>2, <2>3, CountKept
<1>9. ~(z = m /\ WriteRowFails(m))
  <2>1. WriteRowFails(m) => check[m].at = "decided"
    BY DEF WriteRowFails
  <2> QED
    BY <1>1, <2>1 DEF JudgementLost, BeingJudged
<1> QED
  BY <1>4, <1>5, <1>6, <1>7, <1>8, <1>9 DEF CheckStep

LEMMA RequestStepJudges ==
  ASSUME LifecycleInv, TablesInv', NEW z \in Requests, RequestStep(z),
         NEW m \in Monitors \ deleted, CountInv(m), ~Misjudges(m)
  PROVE  CountInv(m)'
<1>1. /\ request \in [Requests -> RequestRecord] /\ request[z] \in RequestRecord
      /\ RequestOf(z) /\ row \in [Monitors -> Row]
      /\ failures \in [Monitors -> 0..MaxRetry]
      /\ TablesInv /\ ~ResultIgnored(m) /\ ~JudgementLost(m) /\ ~LowersRetry(m)
      /\ ~RestoresStatus(m)
  BY DEF LifecycleInv, TablesInv, Misjudges
<1>2. check'[m] = check[m] /\ (Judging(m)' <=> Judging(m))
  BY DEF RequestStep, ReadRow, StoreResult, WriteBack, RecordHeartbeat, HeartbeatHook, RequestFails,
         IncidentRequest, checkVars, Judging
<1>3. \A status :
        /\ [request[z] EXCEPT !.at = "stored", !.status = status].at = "stored"
        /\ [request[z] EXCEPT !.at = "stored", !.status = status].op = request[z].op
        /\ [request[z] EXCEPT !.at = "stored", !.status = status].monitor = request[z].monitor
        /\ [request[z] EXCEPT !.at = "stored", !.status = status].status = status
        /\ [request[z] EXCEPT !.at = "recorded", !.copy = NoRow].at = "recorded"
  BY <1>1 DEF RequestRecord
\* No result of m is stored, and none that was stored is dealt with.
<1>4. ASSUME NEW q, request' = [request EXCEPT ![z] = q], failures'[m] = failures[m],
             q.at = "stored" => q.monitor # m, ~Stored(z, m),
             row'[m].status \in {row[m].status, "paused", "unknown"},
             row[m].retry <= row'[m].retry
      PROVE  CountInv(m)'
  <2>1. \A r \in Requests : Stored(r, m)' \/ Stored(r, m) => request'[r] = request[r]
    BY <1>1, <1>4 DEF Stored
  <2> QED
    BY <1>1, <1>2, <1>4, <2>1, CountKept
<1>5. row[m].retry <= row[m].retry
  BY <1>1, LifecycleAssumption DEF Row
<1>6. ASSUME NEW op \in RowWrites, NEW y \in Monitors, ReadRow(z, op, y)
      PROVE  CountInv(m)'
  <2> DEFINE q == [op |-> op, at |-> "read", monitor |-> y, copy |-> row[y],
                   status |-> row[y].status]
  <2>1. /\ request' = [request EXCEPT ![z] = q] /\ request[z] = NoRequest
        /\ UNCHANGED <<row, failures>>
    BY <1>6 DEF ReadRow, Free
  <2>2. q.at = "read"
    OBVIOUS
  <2> HIDE DEF q
  <2> QED
    BY <1>4, <1>5, <2>1, <2>2, DataFacts DEF Stored
<1>7. CASE StoreResult(z)
  <2>1. PICK y : y = request[z].monitor
    OBVIOUS
  <2>2. PICK status \in Results :
          /\ request' = [request EXCEPT ![z].at = "stored", ![z].status = status]
          /\ \/ failures' = StoredResult(y, status)
             \/ UNCHANGED failures
    BY <1>7, <2>1 DEF StoreResult
  <2>3. PICK q : q = [request[z] EXCEPT !.at = "stored", !.status = status]
    OBVIOUS
  <2>4. /\ request' = [request EXCEPT ![z] = q] /\ q.at = "stored" /\ request[z].at = "read"
        /\ q.monitor = y /\ q.op = request[z].op /\ q.status = status
        /\ UNCHANGED row /\ request[z].op \in {"test", "heartbeat"}
    BY <1>3, <1>7, <2>1, <2>2, <2>3 DEF StoreResult
  <2>5. y \in Monitors /\ request'[z] = q
    BY <1>1, <2>1, <2>4 DEF RequestOf
  <2>6. CASE m # y
    <3>1. failures'[m] = failures[m]
      BY <2>2, <2>5, <2>6, StoredFacts
    <3> QED
      BY <1>4, <1>5, <2>4, <2>6, <3>1 DEF Stored
  <2>7. CASE m = y
    <3>1. ~BeingJudged(m) /\ request[z].op # "test" /\ failures' = StoredResult(m, status)
      BY <1>1, <1>7, <2>1, <2>4, <2>5, <2>7 DEF ResultIgnored
    <3>2. ~Judging(m) /\ \A r \in Requests : ~Stored(r, m)
      BY <3>1, BeingJudgedFacts
    <3>3. \A r \in Requests : Stored(r, m)' <=> r = z
      BY <1>1, <2>4, <2>5, <2>7, <3>2 DEF Stored
    <3>4. ~Judging(m)' /\ check'[m].at \notin {"ran", "decided"}
      BY <1>2, <3>2 DEF Judging
    <3>5. status = "down" \/ failures'[m] = 0
      BY <3>1, StoredFacts
    <3>6. BeingJudged(m)'
      BY <2>4, <2>5, <2>7 DEF BeingJudged
    <3>7. \A r \in Requests : Stored(r, m)' =>
            request'[r].op = "heartbeat" /\ (request'[r].status = "down" \/ failures'[m] = 0)
      BY <2>4, <2>5, <3>1, <3>3, <3>5
    <3> QED
      BY <3>3, <3>4, <3>6, <3>7 DEF CountInv
  <2> QED
    BY <2>6, <2>7
<1>8. CASE WriteBack(z)
  <2>1. PICK y : y = request[z].monitor
    OBVIOUS
  <2>2. PICK new \in Edited(request[z].op, request[z].copy) : row' = [row EXCEPT ![y] = new]
    BY <1>8, <2>1 DEF WriteBack
  <2>3. /\ request' = [request EXCEPT ![z] = NoRequest]
        /\ request[z].at \in {"read", "stored"}
        /\ request[z].op \in {"pause", "resume", "patch", "test"}
        /\ UNCHANGED failures
    BY <1>8 DEF WriteBack, Return
  <2>4. y \in Monitors /\ request[z].copy \in Row
    BY <1>1, <2>1, <2>3 DEF RequestOf, RequestRecord
  <2>5. new.status \in {request[z].copy.status, "paused", "unknown"}
    BY <2>3, <2>4, EditedFacts
  <2>6. ~Stored(z, m)
    BY <2>3 DEF CountInv
  <2>7. /\ row'[m].status \in {row[m].status, "paused", "unknown"}
        /\ row[m].retry <= row'[m].retry
    <3>1. CASE m = y
      <4>1. \/ request[z].copy.status = row[m].status
            \/ row'[m].status # request[z].copy.status
        BY <1>1, <1>8, <2>1, <3>1 DEF RestoresStatus
      <4>2. ~(row'[m].retry < row[m].retry)
        BY <1>1, <1>8, <2>1, <3>1 DEF LowersRetry
      <4>3. /\ row[m].retry \in 1..MaxRetry /\ row'[m].retry \in 1..MaxRetry /\ MaxRetry \in Nat
        BY LifecycleAssumption, <1>1 DEF TablesInv, Row
      <4>4. row'[m] = new
        BY <1>1, <2>2, <3>1
      <4> QED
        BY <2>5, <4>1, <4>2, <4>3, <4>4
    <3>2. CASE m # y
      BY <1>1, <1>5, <2>2, <3>2
    <3> QED
      BY <3>1, <3>2
  <2> QED
    BY <1>4, <2>3, <2>6, <2>7, DataFacts
<1>9. CASE RequestFails(z)
  <2>1. /\ request' = [request EXCEPT ![z] = NoRequest]
        /\ UNCHANGED <<row, failures>>
    BY <1>9 DEF RequestFails, Return
  <2>2. ~Stored(z, m)
    BY <1>1, <1>9 DEF JudgementLost, Stored
  <2> QED
    BY <1>4, <1>5, <2>1, <2>2, DataFacts
<1>10. CASE HeartbeatHook(z) \/ \E i \in DOMAIN incidents : IncidentRequest(z, i)
  <2>1. /\ request' = [request EXCEPT ![z] = NoRequest]
        /\ request[z].at # "stored" /\ UNCHANGED <<row, failures>>
    BY <1>1, <1>10, DataFacts DEF HeartbeatHook, Return, IncidentRequest
  <2> QED
    BY <1>4, <1>5, <2>1, DataFacts DEF Stored
<1>11. CASE RecordHeartbeat(z)
  <2>1. PICK y : y = request[z].monitor
    OBVIOUS
  <2>2. PICK q : q = IF request[z].status = request[z].copy.status THEN NoRequest
                     ELSE [request[z] EXCEPT !.at = "recorded", !.copy = NoRow]
    OBVIOUS
  <2>3. /\ request[z].at = "stored" /\ request' = [request EXCEPT ![z] = q]
        /\ UNCHANGED failures
        /\ row' = [row EXCEPT ![y].status = request[z].status]
    BY <1>11, <2>1, <2>2 DEF RecordHeartbeat, Return
  <2>4. y \in Monitors /\ request[z].status \in Results /\ Stored(z, y)
    BY <1>1, <2>1, <2>3 DEF RequestOf, Stored
  <2>5. /\ row'[y].status = request[z].status /\ row'[y].retry = row[y].retry
        /\ \A x \in Monitors \ {y} : row'[x] = row[x]
    BY <1>1, <2>3, <2>4, RowFacts
  <2>6. q.at # "stored"
    BY <1>3, <2>2, DataFacts
  <2>7. CASE m # y
    BY <1>4, <1>5, <2>1, <2>3, <2>5, <2>6, <2>7 DEF Stored
  <2>8. CASE m = y
    <3>1. \A r \in Requests : ~Stored(r, m)'
      BY <1>1, <2>3, <2>4, <2>6, <2>8 DEF CountInv, Stored
    <3>2. ~Judging(m)' /\ check'[m].at \notin {"ran", "decided"}
      BY <1>2, <2>4, <2>8 DEF CountInv, Judging
    <3>3. request[z].status = "down" \/ failures[m] = 0
      BY <2>4, <2>8 DEF CountInv
    <3>4. row[m].retry \in 1..MaxRetry /\ MaxRetry \in Nat
      BY <1>1, LifecycleAssumption DEF Row
    <3>5. row'[m].status \in {"up", "degraded"} => failures'[m] < row'[m].retry
      BY <2>3, <2>5, <2>8, <3>3, <3>4
    <3> QED
      BY <3>1, <3>2, <3>5 DEF CountInv
  <2> QED
    BY <2>7, <2>8
<1> QED
  BY <1>6, <1>7, <1>8, <1>9, <1>10, <1>11 DEF RequestStep

LEMMA OtherStepJudges ==
  ASSUME LifecycleInv, TablesInv', NEW m \in Monitors \ deleted', CountInv(m), ~Misjudges(m),
         \/ Fetch \/ UNCHANGED lifecycleVars
         \/ \E t \in Threads : CallStep(t)
         \/ \E z \in Monitors : DeleteRow(z)
         \/ ServerRestart
  PROVE  CountInv(m)'
<1>1. /\ row \in [Monitors -> Row] /\ failures \in [Monitors -> 0..MaxRetry] /\ TablesInv
      /\ ~JudgementLost(m)
  BY DEF LifecycleInv, TablesInv, Misjudges
<1>2. row[m].retry <= row[m].retry
  BY <1>1, LifecycleAssumption DEF Row
<1>3. CASE \/ Fetch \/ UNCHANGED lifecycleVars \/ \E t \in Threads : CallStep(t)
  <2>1. UNCHANGED <<row, failures, check, request>>
    BY <1>3 DEF Fetch, lifecycleVars, incidentVars, checkVars, CallStep
  <2> QED
    BY <1>1, <1>2, <2>1, CountKept
<1>4. ASSUME NEW z \in Monitors, DeleteRow(z)
      PROVE  CountInv(m)'
  <2>1. /\ UNCHANGED <<check, request>> /\ z # m
        /\ row' = [row EXCEPT ![z] = NoRow] /\ failures' = [failures EXCEPT ![z] = 0]
    BY <1>4 DEF DeleteRow, checkVars, DeleteMonitor
  <2>2. row'[m] = row[m] /\ failures'[m] = failures[m]
    BY <1>1, <2>1
  <2> QED
    BY <1>1, <1>2, <2>1, <2>2, CountKept
<1>5. CASE ServerRestart
  <2>1. /\ UNCHANGED <<row, failures>>
        /\ check' = [x \in Monitors |-> NoCheck] /\ request' = [r \in Requests |-> NoRequest]
    BY <1>5 DEF ServerRestart
  <2>2. ~BeingJudged(m)
    BY <1>1, <1>5 DEF JudgementLost
  <2>3. ~Judging(m) /\ \A r \in Requests : ~Stored(r, m)
    BY <2>2, BeingJudgedFacts
  <2>4. ~Judging(m)' /\ \A r \in Requests : ~Stored(r, m)'
    BY <2>1, DataFacts DEF Judging, Stored
  <2> QED
    BY <1>1, <1>2, <2>1, <2>3, <2>4, CountKept
<1> QED
  BY <1>3, <1>4, <1>5

\* A monitor whose status fits its failures, with no result being handled.
LEMMA JudgementRestored ==
  ASSUME NEW m \in Monitors, ~BeingJudged(m)', ThresholdFits(m)'
  PROVE  CountInv(m)'
<1>1. check'[m].at \notin {"ran", "decided"} /\ \A r \in Requests : ~Stored(r, m)'
  BY DEF BeingJudged, Stored
<1> QED
  BY <1>1 DEF CountInv, Judging, ThresholdFits

LEMMA ThresholdStep ==
  ASSUME LifecycleInv, LifecycleInv', ThresholdInv, [HistoryNext]_historyVars
  PROVE  ThresholdInv'
<1>1. [LifecycleNext]_lifecycleVars /\ TablesInv /\ TablesInv'
  BY DEF HistoryNext, historyVars, LifecycleInv
<1> SUFFICES ASSUME NEW m \in Monitors, m \notin deleted', m \notin unjudged'
             PROVE  CountInv(m)'
  BY DEF ThresholdInv
<1>2. CASE UNCHANGED historyVars
  <2>1. UNCHANGED <<deleted, unjudged, row, failures, check, request>>
    BY <1>2 DEF historyVars, lifecycleVars, incidentVars, checkVars
  <2>2. CountInv(m) /\ row[m].retry <= row[m].retry
    BY <1>1, <2>1, LifecycleAssumption DEF ThresholdInv, TablesInv, Row
  <2> QED
    BY <1>1, <2>1, <2>2, CountKept
<1>3. CASE HistoryNext /\ ~BeingJudged(m)' /\ ThresholdFits(m)'
  BY <1>3, JudgementRestored
<1>4. CASE HistoryNext /\ (BeingJudged(m)' \/ ~ThresholdFits(m)')
  <2>1. m \notin unjudged /\ ~Misjudges(m)
    BY <1>4 DEF HistoryNext
  <2>2. m \in Monitors \ deleted /\ CountInv(m)
    BY <1>1, <2>1, DeletedStays DEF ThresholdInv
  <2>3. CASE \E z \in Monitors : CheckStep(z)
    BY <1>1, <2>1, <2>2, <2>3, CheckStepJudges
  <2>4. CASE \E z \in Requests : RequestStep(z)
    BY <1>1, <2>1, <2>2, <2>4, RequestStepJudges
  <2>5. CASE \/ Fetch \/ UNCHANGED lifecycleVars
             \/ \E t \in Threads : CallStep(t)
             \/ \E z \in Monitors : DeleteRow(z)
             \/ ServerRestart
    BY <1>1, <2>1, <2>2, <2>5, OtherStepJudges
  <2> QED
    BY <1>1, <2>3, <2>4, <2>5 DEF LifecycleNext
<1> QED
  BY <1>2, <1>3, <1>4

LEMMA ThresholdInit == HistoryInit => ThresholdInv
<1> SUFFICES ASSUME HistoryInit, NEW m \in Monitors PROVE CountInv(m)
  BY DEF ThresholdInv
<1>1. /\ check = [x \in Monitors |-> NoCheck] /\ request = [r \in Requests |-> NoRequest]
      /\ row[m].status \in {"unknown", "paused"}
  BY DEF HistoryInit, LifecycleInit
<1>2. check[m].at \notin {"ran", "decided"} /\ \A r \in Requests : ~Stored(r, m)
  BY <1>1, DataFacts DEF Stored
<1> QED
  BY <1>1, <1>2 DEF CountInv, Judging

\* Whatever checks, heartbeats, operators, failing statements and restarts do: a
\* monitor shown as up or degraded while no result of it is being handled has
\* failed fewer than retry_count times in a row, unless one of the four events of
\* Misjudges has happened to it since that last held.
THEOREM ThresholdIsDown == HistorySpec => []ThresholdMeansDown
<1>1. HistoryInit => ThresholdInv
  BY ThresholdInit
<1>2. LifecycleInv /\ LifecycleInv' /\ ThresholdInv /\ [HistoryNext]_historyVars => ThresholdInv'
  BY ThresholdStep
<1>3. ThresholdInv => ThresholdMeansDown
  BY DEF ThresholdInv, CountInv, ThresholdMeansDown, ThresholdFits
<1> QED
  BY <1>1, <1>2, <1>3, HistoryKeepsLifecycle, LifecycleInvariant, PTL DEF HistorySpec
=============================================================================
