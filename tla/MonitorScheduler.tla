-------------------------- MODULE MonitorScheduler --------------------------
(***************************************************************************)
(* internal/monitor/scheduler.go: the ticker loop, the bounded job channel *)
(* and the worker pool that decide which monitor is checked when.          *)
(*                                                                         *)
(* Kept: every lock region, channel operation and early return of          *)
(* loop(), worker() and Stop(), and what a check writes that decides when  *)
(* the monitor is due again.  Abstracted: what a check observes and the    *)
(* status it writes (MonitorLifecycle), and clock values.  last_checked_at *)
(* is only ever compared, so it is kept as the set of monitors whose       *)
(* interval has elapsed and as their rank from oldest to newest.  A tick   *)
(* whose query fails changes nothing and is a stuttering step.             *)
(***************************************************************************)
EXTENDS Integers, Sequences, FiniteSets

CONSTANTS
  Monitors,              \* the rows of the monitors table
  Workers,               \* the goroutines running worker()
  None                   \* no monitor

ASSUME SchedulerAssumption ==
  /\ IsFiniteSet(Monitors)
  /\ IsFiniteSet(Workers)
  /\ Workers # {}
  /\ None \notin Monitors

\* NewScheduler() and loop(): make(chan db.Monitor, s.workerCount*2).
QueueCap == 2 * Cardinality(Workers)

VARIABLES
  enabled,               \* rows with enabled and a status other than paused
  elapsed,               \* rows never checked or checked an interval ago
  rank,                  \* position of a row by last_checked_at, oldest first
  loop,                  \* where the loop goroutine is
  batch,                 \* batch[m]: place of m in the due list, 0 if absent
  held,                  \* the monitor marked and not yet sent, or None
  inProgress,            \* the inProgress map
  jobs,                  \* contents of jobsChan
  wpc,                   \* where each worker is
  job,                   \* the job each worker holds, or None
  main                   \* the goroutine that calls Stop()

rowVars    == <<enabled, elapsed, rank>>
loopVars   == <<loop, batch, held>>
workerVars == <<wpc, job>>
vars == <<rowVars, loopVars, inProgress, jobs, workerVars, main>>

WorkerStates == {"idle", "checking", "checked", "exited"}

TypeOK ==
  /\ enabled \subseteq Monitors
  /\ elapsed \subseteq Monitors
  /\ rank \in [Monitors -> 1..Cardinality(Monitors)]
  /\ loop \in {"select", "range", "closed"}
  /\ batch \in [Monitors -> 0..Cardinality(Monitors)]
  /\ held \in Monitors \cup {None}
  /\ inProgress \subseteq Monitors
  /\ jobs \in Seq(Monitors)
  /\ Len(jobs) <= QueueCap
  /\ wpc \in [Workers -> WorkerStates]
  /\ job \in [Workers -> Monitors \cup {None}]
  /\ \A w \in Workers : job[w] # None <=> wpc[w] \in {"checking", "checked"}
  /\ main \in {"running", "stopping", "stopped"}

Due    == enabled \cap elapsed
Listed == {m \in Monitors : batch[m] # 0}
Queued == {jobs[i] : i \in DOMAIN jobs}
Busy   == {w \in Workers : wpc[w] \in {"checking", "checked"}}

\* last_checked_at of m is written, and m takes the given place among the rows.
MoveTo(m, place) ==
  [x \in Monitors |-> IF x = m THEN place
                      ELSE IF rank[m] < rank[x] /\ rank[x] <= place THEN rank[x] - 1
                      ELSE IF place <= rank[x] /\ rank[x] < rank[m] THEN rank[x] + 1
                      ELSE rank[x]]

\* last_checked_at = now(): m becomes the newest of the rows.
MoveToNewest(m) == MoveTo(m, Cardinality(Monitors))

Init ==
  /\ enabled = Monitors
  /\ elapsed = Monitors
  /\ rank \in {r \in [Monitors -> 1..Cardinality(Monitors)] :
                 \A x, y \in Monitors : r[x] = r[y] => x = y}
  /\ loop = "select"
  /\ batch = [m \in Monitors |-> 0]
  /\ held = None
  /\ inProgress = {}
  /\ jobs = <<>>
  /\ wpc = [w \in Workers |-> "idle"]
  /\ job = [w \in Workers |-> None]
  /\ main = "running"

-----------------------------------------------------------------------------
(* The loop goroutine.                                                     *)

\* Mutant: the due query has no ORDER BY.
DueListUnordered ==
  LET byId == CHOOSE r \in [Monitors -> 1..Cardinality(Monitors)] :
                \A x, y \in Monitors : r[x] = r[y] => x = y
  IN  [m \in Monitors |-> IF m \in Due THEN byId[m] ELSE 0]

\* The due query: ORDER BY last_checked_at ASC NULLS FIRST.
DueList == [m \in Monitors |-> IF m \in Due THEN rank[m] ELSE 0]

\* case <-ticker.C: fetch the due monitors and start to range over them.
Tick ==
  /\ loop = "select"
  /\ Due # {}
  /\ batch' = DueList
  /\ loop' = "range"
  /\ UNCHANGED <<rowVars, held, inProgress, jobs, workerVars, main>>

\* m is the element the range statement yields next.
IsNext(m) == m \in Listed /\ \A x \in Listed : batch[m] <= batch[x]

\* The range moves past m, and back to the select after the last element.
Advance(m) ==
  /\ batch' = [batch EXCEPT ![m] = 0]
  /\ loop' = IF Listed = {m} THEN "select" ELSE "range"

\* Mutant: the mark is set without looking whether it is set already.
MarkAnyway(m) ==
  /\ loop = "range"
  /\ held = None
  /\ IsNext(m)
  /\ inProgress' = inProgress \cup {m}
  /\ held' = m
  /\ UNCHANGED <<rowVars, loop, batch, jobs, workerVars, main>>

\* if !inProgress[m.ID] { inProgress[m.ID] = true ... } under the mutex.
Mark(m) ==
  /\ loop = "range"
  /\ held = None
  /\ IsNext(m)
  /\ m \notin inProgress
  /\ inProgress' = inProgress \cup {m}
  /\ held' = m
  /\ UNCHANGED <<rowVars, loop, batch, jobs, workerVars, main>>

\* else { mu.Unlock() }: a check of m is still queued or running.
Skip(m) ==
  /\ loop = "range"
  /\ held = None
  /\ IsNext(m)
  /\ m \in inProgress
  /\ Advance(m)
  /\ UNCHANGED <<rowVars, held, inProgress, jobs, workerVars, main>>

\* case jobsChan <- m.
Send ==
  /\ held # None
  /\ Len(jobs) < QueueCap
  /\ jobs' = Append(jobs, held)
  /\ held' = None
  /\ Advance(held)
  /\ UNCHANGED <<rowVars, inProgress, workerVars, main>>

\* Mutant: a full channel drops the monitor and keeps its mark.
DropKeepMark ==
  /\ held # None
  /\ Len(jobs) >= QueueCap
  /\ held' = None
  /\ Advance(held)
  /\ UNCHANGED <<rowVars, inProgress, jobs, workerVars, main>>

\* default: the channel is full, the mark is taken back.
Drop ==
  /\ held # None
  /\ Len(jobs) >= QueueCap
  /\ inProgress' = inProgress \ {held}
  /\ held' = None
  /\ Advance(held)
  /\ UNCHANGED <<rowVars, jobs, workerVars, main>>

\* case <-s.stopChan: close(jobsChan) and return.
CloseJobs ==
  /\ loop = "select"
  /\ main = "stopping"
  /\ loop' = "closed"
  /\ UNCHANGED <<rowVars, batch, held, inProgress, jobs, workerVars, main>>

-----------------------------------------------------------------------------
(* The workers.                                                            *)

\* Mutant: m := <-jobsChan in a loop, which yields zero values once closed.
TakeZeroValue(w) ==
  /\ wpc[w] = "idle"
  /\ jobs # <<>> \/ loop = "closed"
  /\ job' = [job EXCEPT ![w] = IF jobs = <<>> THEN None ELSE Head(jobs)]
  /\ jobs' = IF jobs = <<>> THEN jobs ELSE Tail(jobs)
  /\ wpc' = [wpc EXCEPT ![w] = "checking"]
  /\ UNCHANGED <<rowVars, loopVars, inProgress, main>>

\* Mutant: a worker that has seen the stop takes no further job.
TakeUnlessClosed(w) ==
  /\ wpc[w] = "idle"
  /\ loop # "closed"
  /\ jobs # <<>>
  /\ job' = [job EXCEPT ![w] = Head(jobs)]
  /\ jobs' = Tail(jobs)
  /\ wpc' = [wpc EXCEPT ![w] = "checking"]
  /\ UNCHANGED <<rowVars, loopVars, inProgress, main>>

\* for m := range jobsChan: a closed channel still hands out what it holds.
Take(w) ==
  /\ wpc[w] = "idle"
  /\ jobs # <<>>
  /\ job' = [job EXCEPT ![w] = Head(jobs)]
  /\ jobs' = Tail(jobs)
  /\ wpc' = [wpc EXCEPT ![w] = "checking"]
  /\ UNCHANGED <<rowVars, loopVars, inProgress, main>>

\* executeCheck() up to UpdateMonitor, which writes last_checked_at and, from
\* the job's copy of the row, enabled and a status other than paused.
WriteRow(w) ==
  /\ wpc[w] = "checking"
  /\ enabled' = enabled \cup {job[w]}
  /\ elapsed' = elapsed \ {job[w]}
  /\ rank' = MoveToNewest(job[w])
  /\ wpc' = [wpc EXCEPT ![w] = "checked"]
  /\ UNCHANGED <<loopVars, inProgress, jobs, job, main>>

\* executeCheck() returns before UpdateMonitor, or UpdateMonitor fails.
CheckFails(w) ==
  /\ wpc[w] = "checking"
  /\ wpc' = [wpc EXCEPT ![w] = "checked"]
  /\ UNCHANGED <<rowVars, loopVars, inProgress, jobs, job, main>>

\* Mutant: the worker queues its monitor again instead of giving it back.
ReleaseAndRequeue(w) ==
  /\ wpc[w] = "checked"
  /\ jobs' = Append(jobs, job[w])
  /\ job' = [job EXCEPT ![w] = None]
  /\ wpc' = [wpc EXCEPT ![w] = "idle"]
  /\ UNCHANGED <<rowVars, loopVars, inProgress, main>>

\* delete(inProgress, m.ID) after executeCheck() has returned.
Release(w) ==
  /\ wpc[w] = "checked"
  /\ inProgress' = inProgress \ {job[w]}
  /\ job' = [job EXCEPT ![w] = None]
  /\ wpc' = [wpc EXCEPT ![w] = "idle"]
  /\ UNCHANGED <<rowVars, loopVars, jobs, main>>

\* The range over the closed and drained channel ends; defer s.wg.Done().
Exit(w) ==
  /\ wpc[w] = "idle"
  /\ loop = "closed"
  /\ jobs = <<>>
  /\ wpc' = [wpc EXCEPT ![w] = "exited"]
  /\ UNCHANGED <<rowVars, loopVars, inProgress, jobs, job, main>>

-----------------------------------------------------------------------------
(* Stop(), called once by main().                                          *)

\* close(s.stopChan).
StopCall ==
  /\ main = "running"
  /\ main' = "stopping"
  /\ UNCHANGED <<rowVars, loopVars, inProgress, jobs, workerVars>>

\* Mutant: the workers are not part of the WaitGroup.
StopReturnEarly ==
  /\ main = "stopping"
  /\ loop = "closed"
  /\ main' = "stopped"
  /\ UNCHANGED <<rowVars, loopVars, inProgress, jobs, workerVars>>

\* s.wg.Wait() returns.
StopReturn ==
  /\ main = "stopping"
  /\ loop = "closed"
  /\ \A w \in Workers : wpc[w] = "exited"
  /\ main' = "stopped"
  /\ UNCHANGED <<rowVars, loopVars, inProgress, jobs, workerVars>>

-----------------------------------------------------------------------------
(* What the rest of the server and the clock do to the rows.               *)

\* The interval of m has passed since last_checked_at.
IntervalElapses(m) ==
  /\ elapsed' = elapsed \cup {m}
  /\ UNCHANGED <<enabled, rank, loopVars, inProgress, jobs, workerVars, main>>

Switch(m, on) == enabled' = IF on THEN enabled \cup {m} ELSE enabled \ {m}

\* setStatus(), UpdateMonitor() and RotatePushToken() read the row and write it
\* back: last_checked_at as it was read, older than the row's if the row has been
\* checked in between.  A PATCH also changes the interval.
WriteBack(m, on, place) ==
  /\ place \in 1..rank[m]
  /\ Switch(m, on)
  /\ elapsed' \in {elapsed \cup {m}, elapsed \ {m}}
  /\ rank' = MoveTo(m, place)
  /\ UNCHANGED <<loopVars, inProgress, jobs, workerVars, main>>

\* TestMonitor(): the row it read, with last_checked_at = now().
Test(m, on) ==
  /\ Switch(m, on)
  /\ elapsed' = elapsed \ {m}
  /\ rank' = MoveToNewest(m)
  /\ UNCHANGED <<loopVars, inProgress, jobs, workerVars, main>>

\* ReceivePushHeartbeat(): RecordPushHeartbeat moves last_checked_at forward.
Heartbeat(m) ==
  /\ m \in enabled
  /\ elapsed' = elapsed \ {m}
  /\ rank' = MoveToNewest(m)
  /\ UNCHANGED <<enabled, loopVars, inProgress, jobs, workerVars, main>>

-----------------------------------------------------------------------------
LoopStep == Tick \/ (\E m \in Monitors : Mark(m) \/ Skip(m)) \/ Send \/ Drop \/ CloseJobs

WorkerStep(w) == Take(w) \/ WriteRow(w) \/ CheckFails(w) \/ Release(w) \/ Exit(w)

RowStep(m) ==
  \/ IntervalElapses(m)
  \/ \E on \in BOOLEAN :
       (\E place \in 1..Cardinality(Monitors) : WriteBack(m, on, place)) \/ Test(m, on)
  \/ Heartbeat(m)

Next ==
  \/ LoopStep
  \/ \E w \in Workers : WorkerStep(w)
  \/ StopCall
  \/ StopReturn
  \/ \E m \in Monitors : RowStep(m)

\* The ticker fires and goroutines are scheduled; a check ends because its
\* context carries a deadline; a select with two ready cases picks at random,
\* so a stop that stays ready is picked.  Nothing forces an operator, a
\* heartbeat or the passing of an interval, and Stop() need not be called.
Fairness ==
  /\ WF_vars(LoopStep)
  /\ SF_vars(CloseJobs)
  /\ \A w \in Workers : WF_vars(WorkerStep(w))
  /\ WF_vars(StopReturn)

Spec == Init /\ [][Next]_vars /\ Fairness

\* The setting of NoStarvation: nobody pauses a monitor or stops the server,
\* and a timing assumption.  The loop ranges over a due list with map lookups
\* and non-blocking sends only, so no worker gets on with its check (network
\* and database calls) before the range is over.
PromptNext ==
  \/ LoopStep
  \/ loop # "range" /\ \E w \in Workers : WorkerStep(w)
  \/ \E m \in Monitors :
       \/ IntervalElapses(m)
       \/ Heartbeat(m)
       \/ \E place \in 1..Cardinality(Monitors) : WriteBack(m, TRUE, place)

PromptSpec == Init /\ [][PromptNext]_vars /\ Fairness

-----------------------------------------------------------------------------
(* Properties.                                                             *)

\* At no time are two checks of one monitor queued or running: the promise of
\* the comment "In-progress map to avoid duplicate checks" in loop().
OneCheckAtATime ==
  /\ \A i, j \in DOMAIN jobs : jobs[i] = jobs[j] => i = j
  /\ \A v, w \in Busy : job[v] = job[w] => v = w
  /\ \A w \in Busy : job[w] \notin Queued

\* A monitor is marked exactly while the loop holds it, the channel does or a
\* worker does: no path of loop() or worker() leaves a mark behind, which
\* would end the checks of that monitor for good.
MarksAreExact ==
  inProgress = Queued \cup {job[w] : w \in Busy} \cup ({held} \ {None})

\* Once Stop() has returned nothing is queued, marked or running: main() may
\* shut the event bus and the database pool.
StoppedMeansQuiet ==
  main = "stopped" => jobs = <<>> /\ inProgress = {} /\ Busy = {} /\ loop = "closed"

\* Stop() returns: the loop sees the closed channel and the workers drain
\* what is queued.
StopTerminates == main = "stopping" ~> main = "stopped"

\* A check that leaves last_checked_at as it was, or a request that puts an
\* older one back.
HoldsItsPlace ==
  \/ \E w \in Workers : CheckFails(w)
  \/ \E m \in Monitors, on \in BOOLEAN, place \in 1..Cardinality(Monitors) :
       place < rank[m] /\ WriteBack(m, on, place)

\* "It will be picked up next time" (the comment on a full channel in loop()),
\* as far as it is true: a due monitor is eventually taken by a worker, unless
\* it stops being due or the scheduler is stopped, PROVIDED checks fail and
\* requests restore an old last_checked_at only finitely often.  Without that
\* premise it is false: a monitor whose checks keep failing keeps its place at
\* the head of the due list, and as many of them as the channel and the workers
\* hold starve the rest.  It leans on the due list being ordered by
\* last_checked_at, since a full channel drops the end of the list, and holds of
\* PromptSpec only: under Spec, a worker that ends a check between two elements
\* of the range, at every tick, can hand the freed place in the channel to a
\* younger monitor for ever.
NoStarvation ==
  <>[][~HoldsItsPlace]_vars =>
    \A m \in Monitors :
      m \in Due ~> \/ m \notin Due
                   \/ \E w \in Busy : job[w] = m
                   \/ main # "running"

-----------------------------------------------------------------------------
\* Refinement: the scheduler implements CheckDispatch.
Dispatch ==
  INSTANCE CheckDispatch WITH
    listed <- Listed,
    phase  <- [m \in Monitors |->
                 IF m \in Queued THEN "queued"
                 ELSE IF \E w \in Busy : job[w] = m THEN "running"
                 ELSE "idle"]

ImplementsDispatch == Dispatch!DispatchSpec
=============================================================================
