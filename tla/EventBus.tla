------------------------------ MODULE EventBus ------------------------------
(***************************************************************************)
(* internal/events/bus.go, the SSE handler StreamEvents() of               *)
(* internal/api/handlers/event.go that drains it, and the end of main() in *)
(* cmd/server/main.go that shuts both down.                                *)
(*                                                                         *)
(* The bus guards its map by a sync.RWMutex: publishers hold it for        *)
(* reading while they send, Subscribe(), unsubscribe() and Shutdown() for  *)
(* writing.  A writer that has called Lock() keeps new readers out; the    *)
(* readers it kept out enter when it unlocks.                              *)
(* Abstracted: an event is its publisher and a number; the filters let any *)
(* subset of the subscribers match an event.                               *)
(***************************************************************************)
EXTENDS Integers, Sequences

CONSTANTS
  Clients,               \* connections to the SSE endpoint
  Publishers,            \* goroutines that publish
  Main, None,            \* the main goroutine; no goroutine
  Capacity,              \* of a subscriber's channel, 100 in the code
  MaxEvents              \* bound: calls of Publish() by one publisher

ASSUME BusAssumption ==
  /\ Main \notin Clients /\ None \notin Clients \cup {Main}
  /\ Capacity \in Nat \ {0}
  /\ MaxEvents \in Nat

VARIABLES
  subscribers,           \* b.subscribers: the clients whose channel is in the map
  closed,                \* clients whose channel has been closed
  chan,                  \* the channel of each client
  busClosed,             \* b.closed
  panicked,              \* a send on, or a close of, a closed channel
  writer,                \* the goroutine that has called b.mu.Lock()
  pub,                   \* what each publisher is doing
  todo,                  \* the subscribers it has still to send to
  count,                 \* the number of its latest event
  stream,                \* where each SSE handler is
  connected,             \* clients that have not gone away
  last,                  \* auxiliary: the latest number each handler got of each publisher
  main                   \* where main() is

busVars == <<subscribers, closed, busClosed>>
pubVars == <<pub, todo, count>>
streamVars == <<stream, connected, last>>
vars == <<busVars, chan, panicked, writer, pubVars, streamVars, main>>

Event == [by : Publishers, n : 1..MaxEvents]

TypeOK ==
  /\ subscribers \subseteq Clients
  /\ closed \subseteq Clients
  /\ chan \in [Clients -> Seq(Event)]
  /\ \A c \in Clients : Len(chan[c]) <= Capacity
  /\ busClosed \in BOOLEAN
  /\ panicked \in BOOLEAN
  /\ writer \in Clients \cup {Main, None}
  /\ pub \in [Publishers -> {"idle", "blocked", "reading", "sending"}]
  /\ todo \in [Publishers -> SUBSET Clients]
  /\ count \in [Publishers -> 0..MaxEvents]
  /\ stream \in [Clients -> {"none", "accepted", "select", "writing", "leaving", "done"}]
  /\ connected \subseteq Clients
  /\ last \in [Clients -> [Publishers -> 0..MaxEvents]]
  /\ main \in {"serving", "draining", "drained", "closed", "exited", "fatal"}

Init ==
  /\ subscribers = {}
  /\ closed = {}
  /\ chan = [c \in Clients |-> <<>>]
  /\ busClosed = FALSE
  /\ panicked = FALSE
  /\ writer = None
  /\ pub = [p \in Publishers |-> "idle"]
  /\ todo = [p \in Publishers |-> {}]
  /\ count = [p \in Publishers |-> 0]
  /\ stream = [c \in Clients |-> "none"]
  /\ connected = {}
  /\ last = [c \in Clients |-> [p \in Publishers |-> 0]]
  /\ main = "serving"

\* The process has not ended.
Alive == main \notin {"exited", "fatal"}

-----------------------------------------------------------------------------
(* The lock.                                                               *)

\* RLock() at the start of Publish(): granted unless a writer has come first.
RLock(p) ==
  /\ Alive
  /\ pub[p] = "idle"
  /\ count[p] < MaxEvents
  /\ pub' = [pub EXCEPT ![p] = IF writer = None THEN "reading" ELSE "blocked"]
  /\ UNCHANGED <<busVars, chan, panicked, writer, todo, count, streamVars, main>>

\* Lock() in Subscribe(), in unsubscribe() and in Shutdown().
Lock(w) ==
  /\ Alive
  /\ writer = None
  /\ IF w = Main THEN main = "drained" ELSE stream[w] \in {"accepted", "leaving"}
  /\ writer' = w
  /\ UNCHANGED <<busVars, chan, panicked, pubVars, streamVars, main>>

\* Lock() has returned to w: the readers before it have left.
Holds(w) ==
  /\ Alive
  /\ writer = w
  /\ \A p \in Publishers : pub[p] \notin {"reading", "sending"}

\* The deferred Unlock() lets the readers in that have come since.
Unlock ==
  /\ writer' = None
  /\ pub' = [p \in Publishers |-> IF pub[p] = "blocked" THEN "reading" ELSE pub[p]]

-----------------------------------------------------------------------------
(* Publish().                                                              *)

\* The check of b.closed, and the filters.
Match(p) ==
  /\ Alive
  /\ pub[p] = "reading"
  /\ IF busClosed
     THEN /\ pub' = [pub EXCEPT ![p] = "idle"]
          /\ UNCHANGED <<todo, count>>
     ELSE \E matching \in SUBSET subscribers :
            /\ pub' = [pub EXCEPT ![p] = "sending"]
            /\ todo' = [todo EXCEPT ![p] = matching]
            /\ count' = [count EXCEPT ![p] = @ + 1]
  /\ UNCHANGED <<busVars, chan, panicked, writer, streamVars, main>>

\* Mutant: the send waits for room in the channel.
SendBlocking(p, c) ==
  /\ Alive
  /\ c \in todo[p]
  /\ c \in closed \/ Len(chan[c]) < Capacity
  /\ todo' = [todo EXCEPT ![p] = @ \ {c}]
  /\ panicked' = (panicked \/ c \in closed)
  /\ chan' = IF c \in closed THEN chan
             ELSE [chan EXCEPT ![c] = Append(@, [by |-> p, n |-> count[p]])]
  /\ UNCHANGED <<busVars, writer, pub, count, streamVars, main>>

\* Mutant: the queue of a subscriber has no bound.
SendUnbounded(p, c) ==
  /\ Alive
  /\ c \in todo[p]
  /\ todo' = [todo EXCEPT ![p] = @ \ {c}]
  /\ panicked' = (panicked \/ c \in closed)
  /\ chan' = IF c \in closed THEN chan
             ELSE [chan EXCEPT ![c] = Append(@, [by |-> p, n |-> count[p]])]
  /\ UNCHANGED <<busVars, writer, pub, count, streamVars, main>>

\* The select of one iteration: the event is dropped if the channel is full.
Send(p, c) ==
  /\ Alive
  /\ c \in todo[p]
  /\ todo' = [todo EXCEPT ![p] = @ \ {c}]
  /\ panicked' = (panicked \/ c \in closed)
  /\ chan' = IF c \in closed \/ Len(chan[c]) >= Capacity THEN chan
             ELSE [chan EXCEPT ![c] = Append(@, [by |-> p, n |-> count[p]])]
  /\ UNCHANGED <<busVars, writer, pub, count, streamVars, main>>

\* The range is over, the deferred RUnlock().
RUnlock(p) ==
  /\ Alive
  /\ pub[p] = "sending"
  /\ todo[p] = {}
  /\ pub' = [pub EXCEPT ![p] = "idle"]
  /\ UNCHANGED <<busVars, chan, panicked, writer, todo, count, streamVars, main>>

-----------------------------------------------------------------------------
(* StreamEvents().                                                         *)

\* A request reaches the handler.
Accept(c) ==
  /\ main = "serving"
  /\ stream[c] = "none"
  /\ stream' = [stream EXCEPT ![c] = "accepted"]
  /\ connected' = connected \cup {c}
  /\ UNCHANGED <<busVars, chan, panicked, writer, pubVars, last, main>>

\* The client goes away, which cancels the request's context.
Disconnect(c) ==
  /\ Alive
  /\ c \in connected
  /\ connected' = connected \ {c}
  /\ UNCHANGED <<busVars, chan, panicked, writer, pubVars, stream, last, main>>

Subscribe(c) ==
  /\ Holds(c)
  /\ stream[c] = "accepted"
  /\ subscribers' = subscribers \cup {c}
  /\ stream' = [stream EXCEPT ![c] = "select"]
  /\ Unlock
  /\ UNCHANGED <<closed, chan, busClosed, panicked, todo, count, connected, last, main>>

\* Mutant: the newest event of the channel comes first.
ReceiveNewest(c) ==
  /\ Alive
  /\ stream[c] = "select"
  /\ chan[c] # <<>>
  /\ LET event == chan[c][Len(chan[c])]
     IN  last' = [last EXCEPT ![c][event.by] = event.n]
  /\ chan' = [chan EXCEPT ![c] = SubSeq(@, 1, Len(@) - 1)]
  /\ stream' = [stream EXCEPT ![c] = "writing"]
  /\ UNCHANGED <<busVars, panicked, writer, pubVars, connected, main>>

\* case event, ok := <-ch, with an event.
Receive(c) ==
  /\ Alive
  /\ stream[c] = "select"
  /\ chan[c] # <<>>
  /\ LET event == Head(chan[c])
     IN  last' = [last EXCEPT ![c][event.by] = event.n]
  /\ chan' = [chan EXCEPT ![c] = Tail(@)]
  /\ stream' = [stream EXCEPT ![c] = "writing"]
  /\ UNCHANGED <<busVars, panicked, writer, pubVars, connected, main>>

\* case <-ticker.C: the keepalive is about to be written.
Keepalive(c) ==
  /\ Alive
  /\ stream[c] = "select"
  /\ stream' = [stream EXCEPT ![c] = "writing"]
  /\ UNCHANGED <<busVars, chan, panicked, writer, pubVars, connected, last, main>>

\* The write and its flush succeed; how long they take is up to the client.
Written(c) ==
  /\ Alive
  /\ stream[c] = "writing"
  /\ stream' = [stream EXCEPT ![c] = "select"]
  /\ UNCHANGED <<busVars, chan, panicked, writer, pubVars, connected, last, main>>

\* The write fails, as it may once the client is gone.
WriteFails(c) ==
  /\ Alive
  /\ stream[c] = "writing"
  /\ c \notin connected
  /\ stream' = [stream EXCEPT ![c] = "leaving"]
  /\ UNCHANGED <<busVars, chan, panicked, writer, pubVars, connected, last, main>>

\* Mutant: the request's context is not looked at.
LeaveOnClose(c) ==
  /\ Alive
  /\ stream[c] = "select"
  /\ c \in closed /\ chan[c] = <<>>
  /\ stream' = [stream EXCEPT ![c] = "leaving"]
  /\ UNCHANGED <<busVars, chan, panicked, writer, pubVars, connected, last, main>>

\* case <-c.Request().Context().Done(), or the channel is drained and closed.
Leave(c) ==
  /\ Alive
  /\ stream[c] = "select"
  /\ c \notin connected \/ (c \in closed /\ chan[c] = <<>>)
  /\ stream' = [stream EXCEPT ![c] = "leaving"]
  /\ UNCHANGED <<busVars, chan, panicked, writer, pubVars, connected, last, main>>

\* Mutant: the channel stays in the map once it is closed.
UnsubscribeKeeps(c) ==
  /\ Holds(c)
  /\ stream[c] = "leaving"
  /\ closed' = IF c \in subscribers THEN closed \cup {c} ELSE closed
  /\ panicked' = (panicked \/ c \in subscribers \cap closed)
  /\ stream' = [stream EXCEPT ![c] = "done"]
  /\ Unlock
  /\ UNCHANGED <<subscribers, chan, busClosed, todo, count, connected, last, main>>

\* The deferred unsubscribe().
Unsubscribe(c) ==
  /\ Holds(c)
  /\ stream[c] = "leaving"
  /\ subscribers' = subscribers \ {c}
  /\ closed' = IF c \in subscribers THEN closed \cup {c} ELSE closed
  /\ panicked' = (panicked \/ c \in subscribers \cap closed)
  /\ stream' = [stream EXCEPT ![c] = "done"]
  /\ Unlock
  /\ UNCHANGED <<chan, busClosed, todo, count, connected, last, main>>

-----------------------------------------------------------------------------
(* The end of main().                                                      *)

\* The signal; e.Shutdown() closes the listener.
StopServing ==
  /\ main = "serving"
  /\ main' = "draining"
  /\ UNCHANGED <<busVars, chan, panicked, writer, pubVars, streamVars>>

\* Mutant: e.Shutdown() returns while handlers run.
DrainedEarly ==
  /\ main = "draining"
  /\ main' = "drained"
  /\ UNCHANGED <<busVars, chan, panicked, writer, pubVars, streamVars>>

\* e.Shutdown() returns once every handler has.
Drained ==
  /\ main = "draining"
  /\ \A c \in Clients : stream[c] \in {"none", "done"}
  /\ main' = "drained"
  /\ UNCHANGED <<busVars, chan, panicked, writer, pubVars, streamVars>>

\* The context of e.Shutdown() expires first: e.Logger.Fatal(err).
DrainTimesOut ==
  /\ main = "draining"
  /\ \E c \in Clients : stream[c] \notin {"none", "done"}
  /\ main' = "fatal"
  /\ UNCHANGED <<busVars, chan, panicked, writer, pubVars, streamVars>>

\* bus.Shutdown().
Shutdown ==
  /\ Holds(Main)
  /\ busClosed' = TRUE
  /\ panicked' = (panicked \/ subscribers \cap closed # {})
  /\ closed' = closed \cup subscribers
  /\ subscribers' = {}
  /\ main' = "closed"
  /\ Unlock
  /\ UNCHANGED <<chan, todo, count, streamVars>>

\* main() returns.
Exit ==
  /\ main = "closed"
  /\ main' = "exited"
  /\ UNCHANGED <<busVars, chan, panicked, writer, pubVars, streamVars>>

-----------------------------------------------------------------------------
PublishStep(p) == Match(p) \/ (\E c \in Clients : Send(p, c)) \/ RUnlock(p)

HandlerStep(c) == Receive(c) \/ Leave(c) \/ Subscribe(c) \/ Unsubscribe(c)

Next ==
  \/ \E p \in Publishers : RLock(p) \/ PublishStep(p)
  \/ \E w \in Clients \cup {Main} : Lock(w)
  \/ \E c \in Clients :
       \/ Accept(c) \/ Disconnect(c) \/ HandlerStep(c)
       \/ Keepalive(c) \/ Written(c) \/ WriteFails(c)
  \/ StopServing \/ Drained \/ DrainTimesOut \/ Shutdown \/ Exit

\* Goroutines run (weak fairness), a mutex is handed over in the order of the
\* calls and a select picks at random among what is ready (strong fairness).
\* Written(c) has none: a client that stays may read as slowly as it likes.
Fairness ==
  /\ \A p \in Publishers : WF_vars(PublishStep(p))
  /\ \A c \in Clients :
       /\ SF_vars(Lock(c))
       /\ WF_vars(HandlerStep(c))
       /\ SF_vars(Leave(c))
       /\ WF_vars(WriteFails(c))
  /\ WF_vars(Shutdown)

BusSpec == Init /\ [][Next]_vars

FairBusSpec == BusSpec /\ Fairness

-----------------------------------------------------------------------------
(* Properties.                                                             *)

\* No send on a closed channel and no channel closed twice, which would be a
\* panic: channels are closed and taken out of the map in one write section, and
\* publishers send to what they found in the map in one read section.
NoPanic == ~panicked

\* A stream carries the events of one publisher in the order of its calls,
\* with gaps where the channel was full and no repetition.
InOrder ==
  \A c \in Clients : \A i \in DOMAIN chan[c] :
    /\ last[c][chan[c][i].by] < chan[c][i].n
    /\ \A j \in DOMAIN chan[c] :
         i < j /\ chan[c][i].by = chan[c][j].by => chan[c][i].n < chan[c][j].n

\* Once bus.Shutdown() has run no channel is in the map, to which nobody would
\* ever send and which nobody would close.  Subscribe() does not look at
\* b.closed; that no handler is left to call it is due to e.Shutdown().
NothingAfterShutdown == busClosed => subscribers = {}

\* Publish() returns, however slow the clients are and whoever wants the lock.
PublishReturns ==
  \A p \in Publishers : pub[p] # "idle" ~> pub[p] = "idle" \/ ~Alive

\* The stream of a client that has gone away ends, and its channel leaves the
\* map, even if events and keepalives never cease.
GoneIsUnsubscribed ==
  \A c \in Clients :
    stream[c] # "none" /\ c \notin connected ~>
      (stream[c] = "done" /\ c \notin subscribers) \/ ~Alive

\* "It closes every subscriber channel so the SSE handler returns cleanly"
\* (docs/realtime.md, Graceful shutdown): when the process ends no SSE handler
\* is still streaming.
ShutdownEndsStreams ==
  ~Alive => \A c \in Clients : stream[c] \in {"none", "done"}
=============================================================================
