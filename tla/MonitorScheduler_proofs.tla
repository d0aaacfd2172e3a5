----------------------- MODULE MonitorScheduler_proofs -----------------------
(***************************************************************************)
(* Proofs about MonitorScheduler for any finite set of monitors and any    *)
(* number of workers: type correctness, the three safety invariants, and   *)
(* that the scheduler implements CheckDispatch.                            *)
(***************************************************************************)
EXTENDS MonitorScheduler, FiniteSetTheorems, SequenceTheorems, TLAPS

Elements(s) == {s[i] : i \in DOMAIN s}

Injective(s) == \A i, j \in DOMAIN s : s[i] = s[j] => i = j

-----------------------------------------------------------------------------
(* Facts about the job channel seen as a sequence.                         *)

\* Sending adds exactly the sent monitor to what is queued, and keeps the
\* queue free of duplicates when that monitor is not queued yet.
LEMMA AppendElements ==
  ASSUME NEW S, NEW s \in Seq(S), NEW e \in S
  PROVE  /\ Append(s, e) \in Seq(S)
         /\ Len(Append(s, e)) = Len(s) + 1
         /\ Elements(Append(s, e)) = Elements(s) \cup {e}
         /\ Injective(s) /\ e \notin Elements(s) => Injective(Append(s, e))
<1>1. /\ Append(s, e) \in Seq(S)
      /\ Len(Append(s, e)) = Len(s) + 1
      /\ \A i \in 1..Len(s) : Append(s, e)[i] = s[i]
      /\ Append(s, e)[Len(s) + 1] = e
  OBVIOUS
<1>2. DOMAIN s = 1..Len(s) /\ DOMAIN Append(s, e) = 1..(Len(s) + 1) /\ Len(s) \in Nat
  BY <1>1
<1>3. Elements(Append(s, e)) = Elements(s) \cup {e}
  <2>1. ASSUME NEW x \in Elements(Append(s, e)) PROVE x \in Elements(s) \cup {e}
    <3>1. PICK i \in 1..(Len(s) + 1) : x = Append(s, e)[i]
      BY <2>1, <1>2 DEF Elements
    <3>2. i \in 1..Len(s) \/ i = Len(s) + 1
      BY <1>2
    <3>3. QED
      BY <3>1, <3>2, <1>1, <1>2 DEF Elements
  <2>2. ASSUME NEW x \in Elements(s) PROVE x \in Elements(Append(s, e))
    <3>1. PICK i \in 1..Len(s) : x = s[i]
      BY <2>2, <1>2 DEF Elements
    <3>2. i \in 1..(Len(s) + 1) /\ x = Append(s, e)[i]
      BY <3>1, <1>1, <1>2
    <3>3. QED
      BY <3>2, <1>2 DEF Elements
  <2>3. e \in Elements(Append(s, e))
    <3>1. Len(s) + 1 \in 1..(Len(s) + 1)
      BY <1>2
    <3>2. QED
      BY <3>1, <1>1, <1>2 DEF Elements
  <2>4. QED
    BY <2>1, <2>2, <2>3
<1>4. ASSUME Injective(s), e \notin Elements(s),
             NEW i \in DOMAIN Append(s, e), NEW j \in DOMAIN Append(s, e),
             Append(s, e)[i] = Append(s, e)[j]
      PROVE  i = j
  <2>1. ASSUME NEW k \in 1..Len(s) PROVE s[k] # e
    BY <2>1, <1>4, <1>2 DEF Elements
  <2>2. i \in 1..Len(s) \/ i = Len(s) + 1
    BY <1>2
  <2>3. j \in 1..Len(s) \/ j = Len(s) + 1
    BY <1>2
  <2>4. CASE i \in 1..Len(s) /\ j \in 1..Len(s)
    BY <2>4, <1>1, <1>2, <1>4 DEF Injective
  <2>5. CASE i \in 1..Len(s) /\ j = Len(s) + 1
    BY <2>5, <2>1, <1>1, <1>4
  <2>6. CASE i = Len(s) + 1 /\ j \in 1..Len(s)
    BY <2>6, <2>1, <1>1, <1>4
  <2>7. QED
    BY <2>2, <2>3, <2>4, <2>5, <2>6
<1>5. QED
  BY <1>1, <1>3, <1>4 DEF Injective

\* Receiving takes exactly the received monitor out of a queue without
\* duplicates.
LEMMA TailElements ==
  ASSUME NEW S, NEW s \in Seq(S), s # <<>>, Injective(s)
  PROVE  /\ Head(s) \in S
         /\ Head(s) \in Elements(s)
         /\ Tail(s) \in Seq(S)
         /\ Len(Tail(s)) = Len(s) - 1
         /\ Elements(Tail(s)) = Elements(s) \ {Head(s)}
         /\ Injective(Tail(s))
<1>1. /\ Len(s) \in Nat /\ Len(s) >= 1
      /\ DOMAIN s = 1..Len(s)
      /\ Head(s) = s[1]
      /\ Tail(s) \in Seq(S)
      /\ Len(Tail(s)) = Len(s) - 1
      /\ DOMAIN Tail(s) = 1..(Len(s) - 1)
  OBVIOUS
<1>2. \A i \in 1..(Len(s) - 1) : Tail(s)[i] = s[i + 1]
  OBVIOUS
<1>3. Head(s) \in S /\ Head(s) \in Elements(s)
  <2>1. 1 \in DOMAIN s
    BY <1>1
  <2>2. QED
    BY <2>1, <1>1 DEF Elements
<1>4. ASSUME NEW x \in Elements(Tail(s)) PROVE x \in Elements(s) \ {Head(s)}
  <2>1. PICK i \in 1..(Len(s) - 1) : x = Tail(s)[i]
    BY <1>4, <1>1 DEF Elements
  <2>2. i + 1 \in DOMAIN s /\ x = s[i + 1] /\ i + 1 # 1 /\ 1 \in DOMAIN s
    BY <2>1, <1>1, <1>2
  <2>3. x # s[1]
    BY <2>2 DEF Injective
  <2>4. QED
    BY <2>2, <2>3, <1>1 DEF Elements
<1>5. ASSUME NEW x \in Elements(s) \ {Head(s)} PROVE x \in Elements(Tail(s))
  <2>1. PICK i \in 1..Len(s) : x = s[i]
    BY <1>5, <1>1 DEF Elements
  <2>2. i # 1
    BY <2>1, <1>5, <1>1
  <2>3. i - 1 \in 1..(Len(s) - 1) /\ (i - 1) + 1 = i
    BY <2>2, <1>1
  <2>4. Tail(s)[i - 1] = x
    BY <2>1, <2>3, <1>2
  <2>5. QED
    BY <2>3, <2>4, <1>1 DEF Elements
<1>6. ASSUME NEW i \in DOMAIN Tail(s), NEW j \in DOMAIN Tail(s), Tail(s)[i] = Tail(s)[j]
      PROVE  i = j
  <2>1. i + 1 \in DOMAIN s /\ j + 1 \in DOMAIN s /\ s[i + 1] = s[j + 1]
    BY <1>6, <1>1, <1>2
  <2>2. i + 1 = j + 1
    BY <2>1 DEF Injective
  <2>3. QED
    BY <2>2, <1>1
<1>7. QED
  BY <1>1, <1>3, <1>4, <1>5, <1>6 DEF Injective

-----------------------------------------------------------------------------
(* Type correctness.                                                       *)

\* The ranks stay within the number of rows when a row moves to another place.
LEMMA MoveToType ==
  ASSUME TypeOK, NEW m \in Monitors, NEW place \in 1..Cardinality(Monitors)
  PROVE  MoveTo(m, place) \in [Monitors -> 1..Cardinality(Monitors)]
<1>1. Cardinality(Monitors) \in Nat
  BY SchedulerAssumption, FS_CardinalityType
<1>2. \A x \in Monitors : rank[x] \in 1..Cardinality(Monitors)
  BY DEF TypeOK
<1>3. \A x \in Monitors : rank[m] < rank[x] => rank[x] - 1 \in 1..Cardinality(Monitors)
  BY <1>1, <1>2
<1>4. \A x \in Monitors : rank[x] < rank[m] => rank[x] + 1 \in 1..Cardinality(Monitors)
  BY <1>1, <1>2
<1>5. QED
  BY <1>2, <1>3, <1>4 DEF MoveTo

LEMMA MoveToNewestType ==
  ASSUME TypeOK, NEW m \in Monitors
  PROVE  MoveToNewest(m) \in [Monitors -> 1..Cardinality(Monitors)]
<1>1. Cardinality(Monitors) \in Nat
  BY SchedulerAssumption, FS_CardinalityType
<1>2. rank[m] \in 1..Cardinality(Monitors)
  BY DEF TypeOK
<1>3. Cardinality(Monitors) \in 1..Cardinality(Monitors)
  BY <1>1, <1>2
<1>4. QED
  BY <1>3, MoveToType DEF MoveToNewest

\* Every variable keeps its range, the channel its capacity, and a worker
\* holds a job exactly while it runs a check.
THEOREM TypeCorrect == Spec => []TypeOK
<1> USE SchedulerAssumption
<1>1. Cardinality(Monitors) \in Nat /\ QueueCap \in Nat
  BY FS_CardinalityType DEF QueueCap
<1>2. Init => TypeOK
  <2>1. SUFFICES ASSUME Init PROVE TypeOK
    OBVIOUS
  <2>2. jobs \in Seq(Monitors) /\ Len(jobs) <= QueueCap
    BY <2>1, <1>1 DEF Init
  <2>3. batch \in [Monitors -> 0..Cardinality(Monitors)]
    BY <2>1, <1>1 DEF Init
  <2>4. /\ wpc \in [Workers -> WorkerStates]
        /\ job \in [Workers -> Monitors \cup {None}]
        /\ \A w \in Workers : job[w] # None <=> wpc[w] \in {"checking", "checked"}
    BY <2>1 DEF Init, WorkerStates
  <2>5. QED
    BY <2>1, <2>2, <2>3, <2>4 DEF Init, TypeOK
<1>3. ASSUME TypeOK, [Next]_vars PROVE TypeOK'
  <2> USE <1>3 DEF TypeOK
  <2>1. ASSUME NEW m \in Monitors, Advance(m)
        PROVE  /\ batch' \in [Monitors -> 0..Cardinality(Monitors)]
               /\ loop' \in {"select", "range", "closed"}
    BY <2>1, <1>1 DEF Advance
  <2>2. CASE Tick
    <3>1. batch' \in [Monitors -> 0..Cardinality(Monitors)]
      BY <2>2, <1>1 DEF Tick, DueList
    <3>2. QED
      BY <2>2, <3>1 DEF Tick, rowVars, workerVars, WorkerStates
  <2>3. ASSUME NEW m \in Monitors, Mark(m) PROVE TypeOK'
    BY <2>3 DEF Mark, rowVars, workerVars, WorkerStates
  <2>4. ASSUME NEW m \in Monitors, Skip(m) PROVE TypeOK'
    BY <2>4, <2>1 DEF Skip, rowVars, workerVars, WorkerStates
  <2>5. CASE Send
    <3>1. held \in Monitors
      BY <2>5 DEF Send
    <3>2. jobs' \in Seq(Monitors) /\ Len(jobs') = Len(jobs) + 1
      BY <2>5, <3>1, AppendElements DEF Send
    <3>3. Len(jobs') <= QueueCap
      BY <2>5, <3>2, <1>1 DEF Send
    <3>4. /\ batch' \in [Monitors -> 0..Cardinality(Monitors)]
          /\ loop' \in {"select", "range", "closed"}
      BY <2>5, <3>1, <2>1 DEF Send
    <3>5. QED
      BY <2>5, <3>2, <3>3, <3>4 DEF Send, rowVars, workerVars, WorkerStates
  <2>6. CASE Drop
    <3>1. held \in Monitors
      BY <2>6 DEF Drop
    <3>2. /\ batch' \in [Monitors -> 0..Cardinality(Monitors)]
          /\ loop' \in {"select", "range", "closed"}
      BY <2>6, <3>1, <2>1 DEF Drop
    <3>3. QED
      BY <2>6, <3>2 DEF Drop, rowVars, workerVars, WorkerStates
  <2>7. CASE CloseJobs
    BY <2>7 DEF CloseJobs, rowVars, workerVars, WorkerStates
  <2>8. ASSUME NEW w \in Workers, Take(w) PROVE TypeOK'
    <3>1. /\ Head(jobs) \in Monitors
          /\ jobs' \in Seq(Monitors)
          /\ Len(jobs') <= QueueCap
      BY <2>8, <1>1 DEF Take
    <3>2. /\ wpc' \in [Workers -> WorkerStates]
          /\ job' \in [Workers -> Monitors \cup {None}]
          /\ \A v \in Workers : job'[v] # None <=> wpc'[v] \in {"checking", "checked"}
      BY <2>8, <3>1 DEF Take, WorkerStates
    <3>3. QED
      BY <2>8, <3>1, <3>2 DEF Take, rowVars, loopVars
  <2>9. ASSUME NEW w \in Workers, WriteRow(w) PROVE TypeOK'
    <3>1. job[w] \in Monitors
      BY <2>9 DEF WriteRow
    <3>2. rank' \in [Monitors -> 1..Cardinality(Monitors)]
      BY <2>9, <3>1, MoveToNewestType DEF WriteRow
    <3>3. QED
      BY <2>9, <3>1, <3>2 DEF WriteRow, loopVars, WorkerStates
  <2>10. ASSUME NEW w \in Workers, CheckFails(w) PROVE TypeOK'
    BY <2>10 DEF CheckFails, rowVars, loopVars, WorkerStates
  <2>11. ASSUME NEW w \in Workers, Release(w) PROVE TypeOK'
    BY <2>11 DEF Release, rowVars, loopVars, WorkerStates
  <2>12. ASSUME NEW w \in Workers, Exit(w) PROVE TypeOK'
    BY <2>12 DEF Exit, rowVars, loopVars, WorkerStates
  <2>13. CASE StopCall
    BY <2>13 DEF StopCall, rowVars, loopVars, workerVars, WorkerStates
  <2>14. CASE StopReturn
    BY <2>14 DEF StopReturn, rowVars, loopVars, workerVars, WorkerStates
  <2>15. ASSUME NEW m \in Monitors, IntervalElapses(m) PROVE TypeOK'
    BY <2>15 DEF IntervalElapses, loopVars, workerVars, WorkerStates
  <2>16. ASSUME NEW m \in Monitors, NEW on \in BOOLEAN,
                \/ Test(m, on)
                \/ \E place \in 1..Cardinality(Monitors) : WriteBack(m, on, place)
         PROVE  TypeOK'
    <3>1. rank' \in [Monitors -> 1..Cardinality(Monitors)]
      BY <2>16, MoveToType, MoveToNewestType DEF WriteBack, Test
    <3>2. enabled' \subseteq Monitors /\ elapsed' \subseteq Monitors
      BY <2>16 DEF WriteBack, Test, Switch, TypeOK
    <3>3. UNCHANGED <<loop, batch, held, inProgress, jobs, wpc, job, main>>
      BY <2>16 DEF WriteBack, Test, loopVars, workerVars
    <3>4. QED
      BY <3>1, <3>2, <3>3 DEF WorkerStates
  <2>17. ASSUME NEW m \in Monitors, Heartbeat(m) PROVE TypeOK'
    <3>1. rank' \in [Monitors -> 1..Cardinality(Monitors)]
      BY <2>17, MoveToNewestType DEF Heartbeat
    <3>2. QED
      BY <2>17, <3>1 DEF Heartbeat, loopVars, workerVars, WorkerStates
  <2>18. CASE UNCHANGED vars
    BY <2>18 DEF vars, rowVars, loopVars, workerVars, WorkerStates
  <2>19. QED
    BY <2>2, <2>3, <2>4, <2>5, <2>6, <2>7, <2>8, <2>9, <2>10, <2>11, <2>12, <2>13,
       <2>14, <2>15, <2>16, <2>17, <2>18
       DEF Next, LoopStep, WorkerStep, RowStep
<1>4. QED
  BY <1>2, <1>3, PTL DEF Spec

-----------------------------------------------------------------------------
(* The inductive invariant behind the safety properties.                   *)

\* The monitor between its mark and its send is in the due list, and neither
\* queued nor being checked: so a send adds no duplicate.
HeldInv ==
  held # None =>
    /\ loop = "range"
    /\ held \in Listed
    /\ held \notin Queued
    /\ \A w \in Busy : job[w] # held

\* A new due list is read only when the last one is used up.
LoopInv == loop # "range" => Listed = {}

\* A worker leaves only after the channel is closed and drained, and Stop()
\* returns only after every worker has left.
StopInv ==
  /\ \A w \in Workers : wpc[w] = "exited" => loop = "closed" /\ jobs = <<>>
  /\ main = "stopped" => loop = "closed" /\ \A w \in Workers : wpc[w] = "exited"

SchedulerInv == OneCheckAtATime /\ MarksAreExact /\ HeldInv /\ LoopInv /\ StopInv

\* Moving the range past m takes exactly m off the due list.
LEMMA AdvanceListed ==
  ASSUME TypeOK, NEW m \in Listed, Advance(m)
  PROVE  /\ Listed' = Listed \ {m}
         /\ loop' # "range" => Listed' = {}
         /\ loop' \in {"select", "range"}
BY DEF TypeOK, Listed, Advance

\* What is queued is what the channel holds.
LEMMA QueuedElements == Queued = Elements(jobs) /\ Queued' = Elements(jobs')
BY DEF Queued, Elements

\* One step of the server preserves SchedulerInv.
LEMMA SchedulerInvStep ==
  ASSUME TypeOK, TypeOK', SchedulerInv, [Next]_vars
  PROVE  SchedulerInv'
<1> USE SchedulerAssumption DEF SchedulerInv
<1> DEFINE Same == UNCHANGED <<loopVars, inProgress, jobs, workerVars>>
<1>1. ASSUME Same, StopInv' PROVE SchedulerInv'
  <2>1. UNCHANGED <<Queued, Listed, Busy, held, loop, inProgress, jobs, job>>
    BY <1>1 DEF Queued, Listed, Busy, loopVars, workerVars
  <2>2. OneCheckAtATime'
    BY <2>1 DEF OneCheckAtATime
  <2>3. MarksAreExact'
    BY <2>1 DEF MarksAreExact
  <2>4. HeldInv' /\ LoopInv'
    BY <2>1 DEF HeldInv, LoopInv
  <2>5. QED
    BY <1>1, <2>2, <2>3, <2>4
<1>2. CASE Tick
  <2>1. /\ loop = "select" /\ loop' = "range"
        /\ UNCHANGED <<Queued, Busy, held, inProgress, jobs, job, wpc, main>>
    BY <1>2 DEF Tick, Queued, Busy, workerVars
  <2>2. held = None
    BY <2>1 DEF HeldInv
  <2>3. OneCheckAtATime' /\ MarksAreExact'
    BY <2>1 DEF OneCheckAtATime, MarksAreExact
  <2>4. HeldInv' /\ LoopInv' /\ StopInv'
    BY <2>1, <2>2 DEF HeldInv, LoopInv, StopInv
  <2>5. QED
    BY <2>3, <2>4
<1>3. ASSUME NEW m \in Monitors, Mark(m) PROVE SchedulerInv'
  <2>1. /\ held = None /\ held' = m /\ loop = "range" /\ m \in Listed
        /\ m \notin inProgress /\ inProgress' = inProgress \cup {m}
        /\ UNCHANGED <<Queued, Busy, Listed, loop, jobs, job, wpc, main>>
    BY <1>3 DEF Mark, IsNext, Queued, Busy, Listed, workerVars
  <2>2. m # None /\ m \notin Queued /\ \A w \in Busy : job[w] # m
    BY <2>1 DEF MarksAreExact
  <2>3. OneCheckAtATime'
    BY <2>1 DEF OneCheckAtATime
  <2>4. MarksAreExact'
    BY <2>1, <2>2 DEF MarksAreExact
  <2>5. HeldInv' /\ LoopInv' /\ StopInv'
    BY <2>1, <2>2 DEF HeldInv, LoopInv, StopInv
  <2>6. QED
    BY <2>3, <2>4, <2>5
<1>4. ASSUME NEW m \in Monitors, Skip(m) PROVE SchedulerInv'
  <2>1. /\ held = None /\ loop = "range" /\ m \in Listed /\ Advance(m)
        /\ UNCHANGED <<Queued, Busy, held, inProgress, jobs, job, wpc, main>>
    BY <1>4 DEF Skip, IsNext, Queued, Busy, workerVars
  <2>2. OneCheckAtATime' /\ MarksAreExact'
    BY <2>1 DEF OneCheckAtATime, MarksAreExact
  <2>3. HeldInv' /\ LoopInv' /\ StopInv'
    BY <2>1, AdvanceListed DEF HeldInv, LoopInv, StopInv
  <2>4. QED
    BY <2>2, <2>3
<1>5. CASE Send
  <2>1. /\ held \in Monitors /\ held' = None /\ Advance(held)
        /\ jobs' = Append(jobs, held)
        /\ UNCHANGED <<Busy, inProgress, job, wpc, main>>
    BY <1>5 DEF Send, TypeOK, Busy, workerVars
  <2>2. held # None /\ held \in Listed /\ held \notin Queued
        /\ (\A w \in Busy : job[w] # held) /\ loop = "range"
    BY <2>1 DEF HeldInv
  <2>3. Queued' = Queued \cup {held}
    BY <2>1, QueuedElements, AppendElements DEF TypeOK
  <2>4. Injective(jobs) /\ held \notin Elements(jobs) => Injective(jobs')
    BY <2>1, AppendElements DEF TypeOK
  <2>5. OneCheckAtATime'
    BY <2>1, <2>2, <2>3, <2>4, QueuedElements DEF OneCheckAtATime, Injective
  <2>6. MarksAreExact'
    BY <2>1, <2>2, <2>3 DEF MarksAreExact
  <2>7. HeldInv' /\ LoopInv' /\ StopInv'
    BY <2>1, <2>2, AdvanceListed DEF HeldInv, LoopInv, StopInv
  <2>8. QED
    BY <2>5, <2>6, <2>7
<1>6. CASE Drop
  <2>1. /\ held \in Monitors /\ held' = None /\ Advance(held)
        /\ inProgress' = inProgress \ {held}
        /\ UNCHANGED <<Queued, Busy, jobs, job, wpc, main>>
    BY <1>6 DEF Drop, TypeOK, Queued, Busy, workerVars
  <2>2. held # None /\ held \in Listed /\ held \notin Queued
        /\ (\A w \in Busy : job[w] # held) /\ loop = "range"
    BY <2>1 DEF HeldInv
  <2>3. OneCheckAtATime'
    BY <2>1 DEF OneCheckAtATime
  <2>4. MarksAreExact'
    BY <2>1, <2>2 DEF MarksAreExact
  <2>5. HeldInv' /\ LoopInv' /\ StopInv'
    BY <2>1, <2>2, AdvanceListed DEF HeldInv, LoopInv, StopInv
  <2>6. QED
    BY <2>3, <2>4, <2>5
<1>7. CASE CloseJobs
  <2>1. /\ loop = "select" /\ loop' = "closed" /\ main = "stopping"
        /\ UNCHANGED <<Queued, Listed, Busy, held, inProgress, jobs, job, wpc, main>>
    BY <1>7 DEF CloseJobs, Queued, Listed, Busy, workerVars
  <2>2. OneCheckAtATime' /\ MarksAreExact'
    BY <2>1 DEF OneCheckAtATime, MarksAreExact
  <2>3. HeldInv' /\ LoopInv' /\ StopInv'
    BY <2>1 DEF HeldInv, LoopInv, StopInv
  <2>4. QED
    BY <2>2, <2>3
<1>8. ASSUME NEW w \in Workers, Take(w) PROVE SchedulerInv'
  <2>1. /\ wpc[w] = "idle" /\ jobs # <<>>
        /\ job' = [job EXCEPT ![w] = Head(jobs)] /\ jobs' = Tail(jobs)
        /\ wpc' = [wpc EXCEPT ![w] = "checking"]
        /\ UNCHANGED <<Listed, loop, held, inProgress, main>>
    BY <1>8 DEF Take, Listed, loopVars
  <2>2. w \notin Busy /\ Busy' = Busy \cup {w}
        /\ job'[w] = Head(jobs) /\ \A v \in Busy : job'[v] = job[v]
    BY <2>1 DEF Busy, TypeOK
  <2>3. /\ Head(jobs) \in Queued /\ Queued' = Queued \ {Head(jobs)}
        /\ Injective(jobs')
    BY <2>1, QueuedElements, TailElements DEF TypeOK, OneCheckAtATime, Injective
  <2>4. OneCheckAtATime'
    <3>1. \A i, j \in DOMAIN jobs' : jobs'[i] = jobs'[j] => i = j
      BY <2>3 DEF Injective
    <3>2. \A u, v \in Busy' : job'[u] = job'[v] => u = v
      BY <2>2, <2>3 DEF OneCheckAtATime
    <3>3. \A v \in Busy' : job'[v] \notin Queued'
      BY <2>2, <2>3 DEF OneCheckAtATime
    <3>4. QED
      BY <3>1, <3>2, <3>3 DEF OneCheckAtATime
  <2>5. MarksAreExact'
    <3>1. {job'[v] : v \in Busy'} = {job[v] : v \in Busy} \cup {Head(jobs)}
      BY <2>2
    <3>2. QED
      BY <2>1, <2>3, <3>1 DEF MarksAreExact
  <2>6. HeldInv' /\ LoopInv' /\ StopInv'
    BY <2>1, <2>2, <2>3 DEF HeldInv, LoopInv, StopInv, TypeOK
  <2>7. QED
    BY <2>4, <2>5, <2>6
<1>9. ASSUME NEW w \in Workers, WriteRow(w) \/ CheckFails(w) PROVE SchedulerInv'
  <2>1. /\ wpc[w] = "checking" /\ wpc' = [wpc EXCEPT ![w] = "checked"]
        /\ UNCHANGED <<Queued, Listed, loop, held, inProgress, jobs, job, main>>
    BY <1>9 DEF WriteRow, CheckFails, Queued, Listed, loopVars
  <2>2. Busy' = Busy
    BY <2>1 DEF Busy, TypeOK
  <2>3. OneCheckAtATime' /\ MarksAreExact'
    BY <2>1, <2>2 DEF OneCheckAtATime, MarksAreExact
  <2>4. HeldInv' /\ LoopInv' /\ StopInv'
    BY <2>1, <2>2 DEF HeldInv, LoopInv, StopInv, TypeOK
  <2>5. QED
    BY <2>3, <2>4
<1>10. ASSUME NEW w \in Workers, Release(w) PROVE SchedulerInv'
  <2>1. /\ wpc[w] = "checked" /\ wpc' = [wpc EXCEPT ![w] = "idle"]
        /\ job' = [job EXCEPT ![w] = None]
        /\ inProgress' = inProgress \ {job[w]}
        /\ UNCHANGED <<Queued, Listed, loop, held, jobs, main>>
    BY <1>10 DEF Release, Queued, Listed, loopVars
  <2>2. w \in Busy /\ Busy' = Busy \ {w} /\ \A v \in Busy' : job'[v] = job[v]
    BY <2>1 DEF Busy, TypeOK
  <2>3. OneCheckAtATime'
    BY <2>1, <2>2 DEF OneCheckAtATime
  <2>4. {job'[v] : v \in Busy'} = {job[v] : v \in Busy} \ {job[w]}
    BY <2>2 DEF OneCheckAtATime
  <2>5. job[w] \notin Queued /\ job[w] \notin {held} \ {None}
    BY <2>2 DEF OneCheckAtATime, HeldInv
  <2>6. MarksAreExact'
    BY <2>1, <2>4, <2>5 DEF MarksAreExact
  <2>7. HeldInv' /\ LoopInv' /\ StopInv'
    BY <2>1, <2>2 DEF HeldInv, LoopInv, StopInv, TypeOK
  <2>8. QED
    BY <2>3, <2>6, <2>7
<1>11. ASSUME NEW w \in Workers, Exit(w) PROVE SchedulerInv'
  <2>1. /\ wpc[w] = "idle" /\ wpc' = [wpc EXCEPT ![w] = "exited"]
        /\ loop = "closed" /\ jobs = <<>>
        /\ UNCHANGED <<Queued, Listed, loop, held, inProgress, jobs, job, main>>
    BY <1>11 DEF Exit, Queued, Listed, loopVars
  <2>2. Busy' = Busy
    BY <2>1 DEF Busy, TypeOK
  <2>3. OneCheckAtATime' /\ MarksAreExact'
    BY <2>1, <2>2 DEF OneCheckAtATime, MarksAreExact
  <2>4. HeldInv' /\ LoopInv' /\ StopInv'
    BY <2>1, <2>2 DEF HeldInv, LoopInv, StopInv, TypeOK
  <2>5. QED
    BY <2>3, <2>4
<1>12. CASE StopCall
  <2>1. Same /\ StopInv'
    BY <1>12 DEF StopCall, StopInv, loopVars, workerVars
  <2>2. QED
    BY <2>1, <1>1
<1>13. CASE StopReturn
  <2>1. Same /\ StopInv'
    BY <1>13 DEF StopReturn, StopInv, loopVars, workerVars
  <2>2. QED
    BY <2>1, <1>1
<1>14. ASSUME NEW m \in Monitors, RowStep(m) PROVE SchedulerInv'
  <2>1. Same /\ StopInv'
    BY <1>14 DEF RowStep, IntervalElapses, WriteBack, Test, Heartbeat, StopInv,
                 loopVars, workerVars
  <2>2. QED
    BY <2>1, <1>1
<1>15. CASE UNCHANGED vars
  <2>1. Same /\ StopInv'
    BY <1>15 DEF vars, StopInv, loopVars, workerVars
  <2>2. QED
    BY <2>1, <1>1
<1>16. QED
  BY <1>2, <1>3, <1>4, <1>5, <1>6, <1>7, <1>8, <1>9, <1>10, <1>11, <1>12, <1>13,
     <1>14, <1>15 DEF Next, LoopStep, WorkerStep

LEMMA SchedulerInvHolds == Spec => []SchedulerInv
<1>1. Init => SchedulerInv
  <2>1. SUFFICES ASSUME Init PROVE SchedulerInv
    OBVIOUS
  <2>2. Queued = {} /\ Busy = {} /\ Listed = {} /\ inProgress = {} /\ held = None
    BY <2>1 DEF Init, Queued, Busy, Listed
  <2>3. OneCheckAtATime /\ MarksAreExact
    BY <2>1, <2>2 DEF Init, OneCheckAtATime, MarksAreExact
  <2>4. HeldInv /\ LoopInv /\ StopInv
    BY <2>1, <2>2 DEF Init, HeldInv, LoopInv, StopInv
  <2>5. QED
    BY <2>3, <2>4 DEF SchedulerInv
<1>2. TypeOK /\ TypeOK' /\ SchedulerInv /\ [Next]_vars => SchedulerInv'
  BY SchedulerInvStep
<1>3. QED
  BY <1>1, <1>2, TypeCorrect, PTL DEF Spec

-----------------------------------------------------------------------------
(* The safety theorems.                                                    *)

\* For any number of monitors and workers, no monitor is ever queued or
\* checked twice at once: the in-progress map of scheduler.go does its job.
THEOREM NoDuplicateChecks == Spec => []OneCheckAtATime
<1>1. SchedulerInv => OneCheckAtATime
  BY DEF SchedulerInv
<1>2. QED
  BY <1>1, SchedulerInvHolds, PTL

\* No path of loop() or worker() leaves a monitor marked for good.
THEOREM NoLeakedMark == Spec => []MarksAreExact
<1>1. SchedulerInv => MarksAreExact
  BY DEF SchedulerInv
<1>2. QED
  BY <1>1, SchedulerInvHolds, PTL

\* When Stop() has returned no check is queued, marked or running.
THEOREM StopIsQuiet == Spec => []StoppedMeansQuiet
<1>1. TypeOK /\ SchedulerInv => StoppedMeansQuiet
  <2>1. SUFFICES ASSUME TypeOK, SchedulerInv, main = "stopped"
                 PROVE  jobs = <<>> /\ inProgress = {} /\ Busy = {} /\ loop = "closed"
    BY DEF StoppedMeansQuiet
  <2>2. loop = "closed" /\ \A w \in Workers : wpc[w] = "exited"
    BY <2>1 DEF SchedulerInv, StopInv
  <2>3. jobs = <<>>
    BY <2>1, <2>2, SchedulerAssumption DEF SchedulerInv, StopInv
  <2>4. Busy = {} /\ held = None /\ Queued = {}
    BY <2>1, <2>2, <2>3 DEF Busy, SchedulerInv, HeldInv, Queued
  <2>5. inProgress = {}
    BY <2>1, <2>4 DEF SchedulerInv, MarksAreExact
  <2>6. QED
    BY <2>2, <2>3, <2>4, <2>5
<1>2. QED
  BY <1>1, TypeCorrect, SchedulerInvHolds, PTL

-----------------------------------------------------------------------------
(* Refinement of CheckDispatch.                                            *)

\* The abstract phase of a monitor, as the substitution of Dispatch has it.
Phase == [m \in Monitors |->
            IF m \in Queued THEN "queued"
            ELSE IF \E w \in Busy : job[w] = m THEN "running"
            ELSE "idle"]

\* Every step of the scheduler is a step of CheckDispatch or leaves its
\* variables alone.
LEMMA DispatchStep ==
  ASSUME TypeOK, TypeOK', SchedulerInv, SchedulerInv', [Next]_vars
  PROVE  [Dispatch!DispatchNext]_Dispatch!dispatchVars
<1> USE SchedulerAssumption
<1> DEFINE Moves ==
      \/ Dispatch!List
      \/ \E m \in Monitors : \/ Dispatch!PassOver(m) \/ Dispatch!Claim(m)
                             \/ Dispatch!Start(m) \/ Dispatch!Finish(m)
      \/ UNCHANGED <<Listed, Phase>>
<1>1. SUFFICES Moves
  BY DEF Dispatch!DispatchNext, Dispatch!dispatchVars, Phase
<1>2. ASSUME UNCHANGED <<Listed, Queued, Busy, job>> PROVE Moves
  BY <1>2 DEF Phase
<1>3. CASE Tick
  <2>1. Listed = {} /\ Listed' \in SUBSET Monitors
    BY <1>3 DEF Tick, SchedulerInv, LoopInv, Listed
  <2>2. UNCHANGED Phase
    BY <1>3 DEF Tick, Phase, Queued, Busy, workerVars
  <2>3. QED
    BY <2>1, <2>2 DEF Dispatch!List, Phase
<1>4. ASSUME NEW m \in Monitors, Skip(m) PROVE Moves
  <2>1. m \in Listed /\ Listed' = Listed \ {m}
    BY <1>4, AdvanceListed DEF Skip, IsNext
  <2>2. UNCHANGED Phase
    BY <1>4 DEF Skip, Phase, Queued, Busy, workerVars
  <2>3. QED
    BY <2>1, <2>2 DEF Dispatch!PassOver, Phase
<1>5. CASE Send
  <2>1. /\ held \in Monitors /\ held \in Listed /\ held \notin Queued
        /\ \A w \in Busy : job[w] # held
    BY <1>5 DEF Send, TypeOK, SchedulerInv, HeldInv
  <2>2. Listed' = Listed \ {held}
    BY <1>5, <2>1, AdvanceListed DEF Send
  <2>3. Queued' = Queued \cup {held} /\ UNCHANGED <<Busy, job>>
    BY <1>5, <2>1, QueuedElements, AppendElements DEF Send, TypeOK, Busy, workerVars
  <2>4. Phase[held] = "idle" /\ Phase' = [Phase EXCEPT ![held] = "queued"]
    BY <2>1, <2>3 DEF Phase
  <2>5. QED
    BY <2>1, <2>2, <2>4 DEF Dispatch!Claim, Phase
<1>6. CASE Drop
  <2>1. held \in Monitors /\ held \in Listed
    BY <1>6 DEF Drop, TypeOK, SchedulerInv, HeldInv
  <2>2. Listed' = Listed \ {held}
    BY <1>6, <2>1, AdvanceListed DEF Drop
  <2>3. UNCHANGED Phase
    BY <1>6 DEF Drop, Phase, Queued, Busy, workerVars
  <2>4. QED
    BY <2>1, <2>2, <2>3 DEF Dispatch!PassOver, Phase
<1>7. ASSUME NEW w \in Workers, Take(w) PROVE Moves
  <2>1. /\ wpc[w] = "idle" /\ jobs # <<>>
        /\ job' = [job EXCEPT ![w] = Head(jobs)] /\ jobs' = Tail(jobs)
        /\ wpc' = [wpc EXCEPT ![w] = "checking"]
        /\ UNCHANGED Listed
    BY <1>7 DEF Take, Listed, loopVars
  <2>2. w \notin Busy /\ Busy' = Busy \cup {w}
        /\ job'[w] = Head(jobs) /\ \A v \in Busy : job'[v] = job[v]
    BY <2>1 DEF Busy, TypeOK
  <2>3. /\ Head(jobs) \in Monitors
        /\ Head(jobs) \in Queued /\ Queued' = Queued \ {Head(jobs)}
    BY <2>1, QueuedElements, TailElements DEF TypeOK, SchedulerInv, OneCheckAtATime, Injective
  <2>4. \A m \in Monitors \ {Head(jobs)} :
          (\E v \in Busy' : job'[v] = m) <=> (\E v \in Busy : job[v] = m)
    BY <2>2
  <2>5. Phase[Head(jobs)] = "queued" /\ Phase' = [Phase EXCEPT ![Head(jobs)] = "running"]
    BY <2>2, <2>3, <2>4 DEF Phase
  <2>6. QED
    BY <2>1, <2>3, <2>5 DEF Dispatch!Start, Phase
<1>8. ASSUME NEW w \in Workers, Release(w) PROVE Moves
  <2>1. /\ wpc[w] = "checked" /\ wpc' = [wpc EXCEPT ![w] = "idle"]
        /\ job' = [job EXCEPT ![w] = None]
        /\ UNCHANGED <<Queued, Listed>>
    BY <1>8 DEF Release, Queued, Listed, loopVars
  <2>2. /\ job[w] \in Monitors /\ w \in Busy
        /\ Busy' = Busy \ {w} /\ \A v \in Busy' : job'[v] = job[v]
    BY <2>1 DEF Busy, TypeOK
  <2>3. /\ job[w] \notin Queued
        /\ \A v \in Busy' : job'[v] # job[w]
    BY <2>2 DEF SchedulerInv, OneCheckAtATime
  <2>4. \A m \in Monitors \ {job[w]} :
          (\E v \in Busy' : job'[v] = m) <=> (\E v \in Busy : job[v] = m)
    BY <2>2
  <2>5. Phase[job[w]] = "running" /\ Phase' = [Phase EXCEPT ![job[w]] = "idle"]
    BY <2>1, <2>2, <2>3, <2>4 DEF Phase
  <2>6. QED
    BY <2>1, <2>2, <2>5 DEF Dispatch!Finish, Phase
<1>9. ASSUME \/ \E m \in Monitors : Mark(m)
             \/ CloseJobs
             \/ \E w \in Workers : WriteRow(w) \/ CheckFails(w) \/ Exit(w)
             \/ StopCall
             \/ StopReturn
             \/ \E m \in Monitors : RowStep(m)
             \/ UNCHANGED vars
      PROVE  Moves
  <2>1. UNCHANGED <<Listed, Queued, job>>
    BY <1>9 DEF Mark, CloseJobs, WriteRow, CheckFails, Exit, StopCall, StopReturn, RowStep,
                IntervalElapses, WriteBack, Test, Heartbeat, vars, loopVars, workerVars,
                Listed, Queued
  <2>2. Busy' = Busy
    BY <1>9 DEF Mark, CloseJobs, WriteRow, CheckFails, Exit, StopCall, StopReturn, RowStep,
                IntervalElapses, WriteBack, Test, Heartbeat, vars, workerVars, Busy, TypeOK
  <2>3. QED
    BY <2>1, <2>2, <1>2
<1>10. QED
  BY <1>3, <1>4, <1>5, <1>6, <1>7, <1>8, <1>9 DEF Next, LoopStep, WorkerStep

\* Whatever the sizes of the pool and of the table, the scheduler does to a
\* monitor only what CheckDispatch allows.
THEOREM SchedulerImplementsDispatch == Spec => ImplementsDispatch
<1>1. Init => Dispatch!DispatchInit
  <2>1. SUFFICES ASSUME Init PROVE Dispatch!DispatchInit
    OBVIOUS
  <2>2. Queued = {} /\ Busy = {} /\ Listed = {}
    BY <2>1 DEF Init, Queued, Busy, Listed
  <2>3. QED
    BY <2>2 DEF Dispatch!DispatchInit
<1>2. /\ TypeOK /\ TypeOK' /\ SchedulerInv /\ SchedulerInv' /\ [Next]_vars
      => [Dispatch!DispatchNext]_Dispatch!dispatchVars
  BY DispatchStep
<1>3. QED
  BY <1>1, <1>2, TypeCorrect, SchedulerInvHolds, PTL
     DEF Spec, ImplementsDispatch, Dispatch!DispatchSpec
=============================================================================
