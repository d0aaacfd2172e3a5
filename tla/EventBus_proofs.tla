--------------------------- MODULE EventBus_proofs ---------------------------
(***************************************************************************)
(* Theorems of EventBus, for any number of clients and publishers, any     *)
(* capacity and any number of events.                                      *)
(***************************************************************************)
EXTENDS EventBus, SequenceTheorems, TLAPS

-----------------------------------------------------------------------------
(* The inductive invariant.                                                *)

\* A publisher that is about to publish may do so, one that sends has begun to.
CountInv ==
  \A p \in Publishers :
    /\ pub[p] \in {"blocked", "reading"} => count[p] < MaxEvents
    /\ todo[p] # {} => pub[p] = "sending" /\ count[p] > 0

\* A channel in the map is open, and publishers send to what is in the map.
MapInv ==
  /\ subscribers \cap closed = {}
  /\ \A p \in Publishers : todo[p] \subseteq subscribers

\* A channel is made by Subscribe() and leaves the map before its handler returns.
HandlerInv ==
  \A c \in Clients :
    /\ c \in subscribers \cup closed => stream[c] \notin {"none", "accepted"}
    /\ c \in subscribers => stream[c] # "done"

\* The bus is closed after e.Shutdown() has waited for the handlers.
DrainInv ==
  /\ main \in {"drained", "closed", "exited"} =>
       \A c \in Clients : stream[c] \in {"none", "done"}
  /\ busClosed => main \in {"closed", "exited"}
  /\ writer = Main => main = "drained"

BusInv == TypeOK /\ CountInv /\ MapInv /\ HandlerInv /\ DrainInv /\ NoPanic

-----------------------------------------------------------------------------
(* Types.                                                                  *)

LEMMA TypeInit == Init => TypeOK
<1> SUFFICES ASSUME Init PROVE TypeOK
  OBVIOUS
<1>1. <<>> \in Seq(Event) /\ Len(<<>>) = 0 /\ 0 \in 0..MaxEvents
  BY EmptySeq, BusAssumption
<1>2. chan \in [Clients -> Seq(Event)] /\ \A c \in Clients : Len(chan[c]) <= Capacity
  BY <1>1, BusAssumption DEF Init
<1>3. last \in [Clients -> [Publishers -> 0..MaxEvents]]
  BY <1>1 DEF Init
<1>4. /\ pub \in [Publishers -> {"idle", "blocked", "reading", "sending"}]
      /\ todo \in [Publishers -> SUBSET Clients]
      /\ count \in [Publishers -> 0..MaxEvents]
  BY <1>1 DEF Init
<1>5. stream \in [Clients -> {"none", "accepted", "select", "writing", "leaving", "done"}]
  BY DEF Init
<1> QED
  BY <1>2, <1>3, <1>4, <1>5 DEF Init, TypeOK

\* One event goes into the channel of c, if there is room.
LEMMA SendType ==
  ASSUME TypeOK, CountInv, NEW p \in Publishers, NEW c \in Clients, Send(p, c)
  PROVE  TypeOK'
<1> DEFINE e == [by |-> p, n |-> count[p]]
<1>1. e \in Event
  <2>1. count[p] \in 0..MaxEvents /\ count[p] > 0
    BY DEF TypeOK, CountInv, Send
  <2>2. count[p] \in 1..MaxEvents
    BY <2>1, BusAssumption
  <2> QED
    BY <2>2 DEF Event
<1>2. chan' \in [Clients -> Seq(Event)] /\ \A d \in Clients : Len(chan'[d]) <= Capacity
  <2>1. CASE c \in closed \/ Len(chan[c]) >= Capacity
    BY <2>1 DEF Send, TypeOK
  <2>2. CASE ~ (c \in closed \/ Len(chan[c]) >= Capacity)
    <3>1. /\ chan \in [Clients -> Seq(Event)]
          /\ chan' = [chan EXCEPT ![c] = Append(chan[c], e)]
      BY <2>2 DEF Send, TypeOK
    <3>2. /\ chan[c] \in Seq(Event) /\ Len(chan[c]) \in Nat
          /\ Append(chan[c], e) \in Seq(Event)
          /\ Len(Append(chan[c], e)) = Len(chan[c]) + 1
      BY <1>1, <3>1
    <3>3. Len(chan[c]) + 1 <= Capacity
      BY <2>2, <3>2, BusAssumption
    <3> QED
      BY <3>1, <3>2, <3>3 DEF TypeOK
  <2> QED
    BY <2>1, <2>2
<1> QED
  BY <1>2 DEF Send, TypeOK, busVars, streamVars

\* The oldest event of the channel of c is taken out.
LEMMA ReceiveType ==
  ASSUME TypeOK, NEW c \in Clients, Receive(c)
  PROVE  TypeOK'
<1>1. /\ chan[c] \in Seq(Event) /\ chan[c] # <<>>
      /\ Head(chan[c]) \in Event
      /\ Tail(chan[c]) \in Seq(Event)
      /\ Len(Tail(chan[c])) = Len(chan[c]) - 1
      /\ Len(chan[c]) \in Nat
  BY HeadTailProperties DEF Receive, TypeOK
<1>2. /\ Head(chan[c]).by \in Publishers
      /\ Head(chan[c]).n \in 0..MaxEvents
  BY <1>1, BusAssumption DEF Event
<1>3. chan' \in [Clients -> Seq(Event)] /\ \A d \in Clients : Len(chan'[d]) <= Capacity
  BY <1>1, BusAssumption DEF Receive, TypeOK
<1>4. last' \in [Clients -> [Publishers -> 0..MaxEvents]]
  BY <1>2 DEF Receive, TypeOK
<1> QED
  BY <1>3, <1>4 DEF Receive, TypeOK, busVars, pubVars

\* The other steps write no channel.
LEMMA OtherType ==
  ASSUME TypeOK, CountInv,
         \/ \E p \in Publishers : RLock(p) \/ Match(p) \/ RUnlock(p)
         \/ \E w \in Clients \cup {Main} : Lock(w)
         \/ \E c \in Clients :
              \/ Accept(c) \/ Disconnect(c) \/ Leave(c) \/ Subscribe(c) \/ Unsubscribe(c)
              \/ Keepalive(c) \/ Written(c) \/ WriteFails(c)
         \/ StopServing \/ Drained \/ DrainTimesOut \/ Shutdown \/ Exit
         \/ UNCHANGED vars
  PROVE  TypeOK'
<1>1. ASSUME NEW p \in Publishers, RLock(p) PROVE TypeOK'
  BY <1>1 DEF RLock, TypeOK, busVars, streamVars
<1>2. ASSUME NEW p \in Publishers, Match(p) PROVE TypeOK'
  <2>1. CASE busClosed
    BY <1>2, <2>1 DEF Match, TypeOK, busVars, streamVars
  <2>2. CASE ~busClosed
    <3>1. count[p] + 1 \in 0..MaxEvents
      BY <1>2, BusAssumption DEF Match, TypeOK, CountInv
    <3>2. PICK matching \in SUBSET subscribers :
            /\ pub' = [pub EXCEPT ![p] = "sending"]
            /\ todo' = [todo EXCEPT ![p] = matching]
            /\ count' = [count EXCEPT ![p] = count[p] + 1]
      BY <1>2, <2>2 DEF Match
    <3> QED
      BY <1>2, <3>1, <3>2 DEF Match, TypeOK, busVars, streamVars
  <2> QED BY <2>1, <2>2
<1>3. ASSUME NEW p \in Publishers, RUnlock(p) PROVE TypeOK'
  BY <1>3 DEF RUnlock, TypeOK, busVars, streamVars
<1>4. ASSUME NEW w \in Clients \cup {Main}, Lock(w) PROVE TypeOK'
  BY <1>4 DEF Lock, TypeOK, busVars, pubVars, streamVars
<1>5. ASSUME NEW c \in Clients,
             \/ Accept(c) \/ Disconnect(c) \/ Leave(c)
             \/ Keepalive(c) \/ Written(c) \/ WriteFails(c)
      PROVE  TypeOK'
  BY <1>5 DEF Accept, Disconnect, Leave, Keepalive, Written, WriteFails, TypeOK,
              busVars, pubVars
<1>6. ASSUME NEW c \in Clients, Subscribe(c) PROVE TypeOK'
  BY <1>6 DEF Subscribe, Unlock, TypeOK
<1>7. ASSUME NEW c \in Clients, Unsubscribe(c) PROVE TypeOK'
  BY <1>7 DEF Unsubscribe, Unlock, TypeOK
<1>8. CASE StopServing \/ Drained \/ DrainTimesOut \/ Exit
  BY <1>8 DEF StopServing, Drained, DrainTimesOut, Exit, TypeOK, busVars, pubVars, streamVars
<1>9. CASE Shutdown
  BY <1>9 DEF Shutdown, Unlock, TypeOK, streamVars
<1>10. CASE UNCHANGED vars
  BY <1>10 DEF vars, TypeOK, busVars, pubVars, streamVars
<1> QED
  BY <1>1, <1>2, <1>3, <1>4, <1>5, <1>6, <1>7, <1>8, <1>9, <1>10
-----------------------------------------------------------------------------
(* The other conjuncts, by groups of steps.                                *)

\* Publishers come, send and go; the map and the handlers stay as they are.
LEMMA PublisherStep ==
  ASSUME BusInv, NEW p \in Publishers,
         RLock(p) \/ Match(p) \/ (\E c \in Clients : Send(p, c)) \/ RUnlock(p)
  PROVE  CountInv' /\ MapInv' /\ HandlerInv' /\ DrainInv' /\ NoPanic'
<1> USE DEF BusInv
<1>1. UNCHANGED <<busVars, writer, streamVars, main>>
  BY DEF RLock, Match, Send, RUnlock
<1>2. HandlerInv' /\ DrainInv'
  BY <1>1 DEF HandlerInv, DrainInv, busVars, streamVars
<1>3. CASE RLock(p)
  <2>1. CountInv'
    BY <1>3 DEF RLock, TypeOK, CountInv
  <2>2. MapInv' /\ NoPanic'
    BY <1>3 DEF RLock, MapInv, NoPanic, busVars
  <2> QED
    BY <1>2, <2>1, <2>2
<1>4. CASE Match(p)
  <2>1. CASE busClosed
    <3>1. CountInv'
      BY <1>4, <2>1 DEF Match, TypeOK, CountInv
    <3>2. MapInv' /\ NoPanic'
      BY <1>4, <2>1 DEF Match, MapInv, NoPanic, busVars
    <3> QED
      BY <1>2, <3>1, <3>2
  <2>2. CASE ~busClosed
    <3>1. PICK matching \in SUBSET subscribers :
            /\ pub' = [pub EXCEPT ![p] = "sending"]
            /\ todo' = [todo EXCEPT ![p] = matching]
            /\ count' = [count EXCEPT ![p] = count[p] + 1]
      BY <1>4, <2>2 DEF Match
    <3>2. CountInv'
      BY <3>1, BusAssumption DEF TypeOK, CountInv
    <3>3. MapInv' /\ NoPanic'
      BY <1>4, <3>1 DEF Match, TypeOK, MapInv, NoPanic, busVars
    <3> QED
      BY <3>2, <3>3, <1>2
  <2> QED
    BY <1>2, <2>1, <2>2
<1>5. ASSUME NEW c \in Clients, Send(p, c)
      PROVE  CountInv' /\ MapInv' /\ NoPanic'
  <2>1. c \notin closed
    BY <1>5 DEF Send, MapInv
  <2> QED
    BY <1>5, <2>1 DEF Send, TypeOK, CountInv, MapInv, NoPanic, busVars
<1>6. CASE RUnlock(p)
  <2>1. CountInv'
    BY <1>6 DEF RUnlock, TypeOK, CountInv
  <2>2. MapInv' /\ NoPanic'
    BY <1>6 DEF RUnlock, MapInv, NoPanic, busVars
  <2> QED
    BY <1>2, <2>1, <2>2
<1> QED
  BY <1>2, <1>3, <1>4, <1>5, <1>6

\* A handler or main() moves on; the map, the channels' ends and the publishers stay.
LEMMA MoveStep ==
  ASSUME BusInv,
         \/ \E w \in Clients \cup {Main} : Lock(w)
         \/ \E c \in Clients :
              \/ Accept(c) \/ Disconnect(c) \/ Receive(c) \/ Leave(c)
              \/ Keepalive(c) \/ Written(c) \/ WriteFails(c)
         \/ StopServing \/ Drained \/ DrainTimesOut \/ Exit
  PROVE  CountInv' /\ MapInv' /\ HandlerInv' /\ DrainInv' /\ NoPanic'
<1> USE DEF BusInv
<1>1. UNCHANGED <<busVars, panicked, pubVars>>
  BY DEF Lock, Accept, Disconnect, Receive, Leave, Keepalive, Written, WriteFails,
         StopServing, Drained, DrainTimesOut, Exit
<1>2. CountInv' /\ MapInv' /\ NoPanic'
  BY <1>1 DEF CountInv, MapInv, NoPanic, busVars, pubVars
<1>3. ASSUME NEW w \in Clients \cup {Main}, Lock(w)
      PROVE  HandlerInv' /\ DrainInv'
  BY <1>3, BusAssumption DEF Lock, HandlerInv, DrainInv, busVars, streamVars
<1>4. ASSUME NEW c \in Clients,
             \/ Accept(c) \/ Disconnect(c) \/ Receive(c) \/ Leave(c)
             \/ Keepalive(c) \/ Written(c) \/ WriteFails(c)
      PROVE  HandlerInv' /\ DrainInv'
  <2>1. CASE Accept(c)
    BY <2>1 DEF Accept, TypeOK, HandlerInv, DrainInv, busVars
  <2>2. CASE Disconnect(c)
    BY <2>2 DEF Disconnect, HandlerInv, DrainInv, busVars
  <2>3. CASE Receive(c)
    BY <2>3 DEF Receive, TypeOK, HandlerInv, DrainInv, busVars
  <2>4. CASE Leave(c)
    BY <2>4 DEF Leave, TypeOK, HandlerInv, DrainInv, busVars
  <2>5. CASE Keepalive(c) \/ Written(c)
    BY <2>5 DEF Keepalive, Written, TypeOK, HandlerInv, DrainInv, busVars
  <2>6. CASE WriteFails(c)
    BY <2>6 DEF WriteFails, TypeOK, HandlerInv, DrainInv, busVars
  <2> QED
    BY <1>4, <2>1, <2>2, <2>3, <2>4, <2>5, <2>6
<1>5. CASE StopServing \/ Drained \/ DrainTimesOut \/ Exit
  <2>1. HandlerInv'
    BY <1>5 DEF StopServing, Drained, DrainTimesOut, Exit, HandlerInv, busVars, streamVars
  <2>2. DrainInv'
    <3>1. ASSUME StopServing \/ DrainTimesOut PROVE DrainInv'
      BY <3>1 DEF StopServing, DrainTimesOut, DrainInv, busVars, streamVars
    <3>2. ASSUME Drained PROVE DrainInv'
      BY <3>2 DEF Drained, DrainInv, busVars, streamVars
    <3>3. ASSUME Exit PROVE DrainInv'
      BY <3>3 DEF Exit, DrainInv, busVars, streamVars
    <3> QED
      BY <1>5, <3>1, <3>2, <3>3
  <2> QED
    BY <1>2, <2>1, <2>2
<1> QED
  BY <1>2, <1>3, <1>4, <1>5

\* With the lock held for writing no publisher has anything left to send.
LEMMA WriterAlone ==
  ASSUME BusInv, NEW w, Holds(w)
  PROVE  \A p \in Publishers : todo[p] = {}
BY DEF BusInv, CountInv, Holds

LEMMA SubscribeStep ==
  ASSUME BusInv, NEW c \in Clients, Subscribe(c)
  PROVE  CountInv' /\ MapInv' /\ HandlerInv' /\ DrainInv' /\ NoPanic'
<1>1. \A p \in Publishers : todo[p] = {}
  BY WriterAlone DEF Subscribe
<1>2. CountInv'
  BY <1>1 DEF Subscribe, Unlock, BusInv, TypeOK, CountInv
<1>3. MapInv'
  BY <1>1 DEF Subscribe, BusInv, MapInv, HandlerInv
<1>4. HandlerInv' /\ DrainInv' /\ NoPanic'
  BY BusAssumption DEF Subscribe, Unlock, Holds, BusInv, TypeOK, HandlerInv, DrainInv, NoPanic
<1> QED
  BY <1>2, <1>3, <1>4

LEMMA UnsubscribeStep ==
  ASSUME BusInv, NEW c \in Clients, Unsubscribe(c)
  PROVE  CountInv' /\ MapInv' /\ HandlerInv' /\ DrainInv' /\ NoPanic'
<1>1. \A p \in Publishers : todo[p] = {}
  BY WriterAlone DEF Unsubscribe
<1>2. CountInv'
  BY <1>1 DEF Unsubscribe, Unlock, BusInv, TypeOK, CountInv
<1>3. MapInv' /\ NoPanic'
  BY <1>1 DEF Unsubscribe, BusInv, MapInv, NoPanic
<1>4. HandlerInv' /\ DrainInv'
  BY BusAssumption DEF Unsubscribe, Unlock, BusInv, TypeOK, HandlerInv, DrainInv
<1> QED
  BY <1>2, <1>3, <1>4

LEMMA ShutdownStep ==
  ASSUME BusInv, Shutdown
  PROVE  CountInv' /\ MapInv' /\ HandlerInv' /\ DrainInv' /\ NoPanic'
<1>1. \A p \in Publishers : todo[p] = {}
  BY WriterAlone DEF Shutdown
<1>2. CountInv'
  BY <1>1 DEF Shutdown, Unlock, BusInv, TypeOK, CountInv
<1>3. MapInv' /\ NoPanic'
  BY <1>1 DEF Shutdown, BusInv, MapInv, NoPanic
<1>4. HandlerInv' /\ DrainInv'
  BY BusAssumption DEF Shutdown, Holds, Unlock, BusInv, HandlerInv, DrainInv, streamVars
<1> QED
  BY <1>2, <1>3, <1>4
-----------------------------------------------------------------------------
(* The theorems about the map and the shutdown.                            *)

LEMMA BusInvInit == Init => BusInv
<1> SUFFICES ASSUME Init PROVE BusInv
  OBVIOUS
<1>1. TypeOK
  BY TypeInit
<1>2. CountInv /\ MapInv /\ HandlerInv /\ NoPanic
  BY DEF Init, CountInv, MapInv, HandlerInv, NoPanic
<1>3. DrainInv
  BY BusAssumption DEF Init, DrainInv
<1> QED
  BY <1>1, <1>2, <1>3 DEF BusInv

LEMMA BusInvStep ==
  ASSUME BusInv, [Next]_vars
  PROVE  BusInv'
<1>1. TypeOK'
  BY SendType, ReceiveType, OtherType DEF BusInv, Next, PublishStep, HandlerStep
<1>2. ASSUME NEW p \in Publishers, RLock(p) \/ PublishStep(p)
      PROVE  BusInv'
  BY <1>1, <1>2, PublisherStep DEF PublishStep, BusInv
<1>3. CASE \/ \E w \in Clients \cup {Main} : Lock(w)
           \/ \E c \in Clients :
                \/ Accept(c) \/ Disconnect(c) \/ Receive(c) \/ Leave(c)
                \/ Keepalive(c) \/ Written(c) \/ WriteFails(c)
           \/ StopServing \/ Drained \/ DrainTimesOut \/ Exit
  BY <1>1, <1>3, MoveStep DEF BusInv
<1>4. ASSUME NEW c \in Clients, Subscribe(c) \/ Unsubscribe(c)
      PROVE  BusInv'
  BY <1>1, <1>4, SubscribeStep, UnsubscribeStep DEF BusInv
<1>5. CASE Shutdown
  BY <1>1, <1>5, ShutdownStep DEF BusInv
<1>6. CASE UNCHANGED vars
  <2>1. CountInv' /\ MapInv' /\ HandlerInv' /\ DrainInv' /\ NoPanic'
    BY <1>6 DEF vars, busVars, pubVars, streamVars, BusInv, CountInv, MapInv, HandlerInv,
                DrainInv, NoPanic
  <2> QED
    BY <1>1, <2>1 DEF BusInv
<1> QED
  BY <1>2, <1>3, <1>4, <1>5, <1>6 DEF Next, HandlerStep

THEOREM BusInvariant == BusSpec => []BusInv
BY BusInvInit, BusInvStep, PTL DEF BusSpec

\* Every variable has its type: no channel holds more than its capacity.
THEOREM BusTypeCorrect == BusSpec => []TypeOK
BY BusInvariant, PTL DEF BusInv

\* Publish(), unsubscribe() and Shutdown() never send on a closed channel nor
\* close one twice, for any number of publishers and clients.
THEOREM BusNeverPanics == BusSpec => []NoPanic
BY BusInvariant, PTL DEF BusInv

\* No handler subscribes to a bus that has been shut down: main() closes the bus
\* after e.Shutdown() has returned, which it does after the last handler.
THEOREM NoLateSubscriber == BusSpec => []NothingAfterShutdown
<1>1. BusInv => NothingAfterShutdown
  BY DEF BusInv, TypeOK, HandlerInv, DrainInv, NothingAfterShutdown
<1> QED
  BY <1>1, BusInvariant, PTL
-----------------------------------------------------------------------------
(* Order.                                                                  *)

\* What has been sent to a client is no newer than the publisher's latest event.
SentInv ==
  \A c \in Clients :
    /\ \A p \in Publishers : last[c][p] <= count[p]
    /\ \A i \in DOMAIN chan[c] : chan[c][i].n <= count[chan[c][i].by]

\* An event that is still to be sent to a client is newer than what it has.
UnsentInv ==
  \A p \in Publishers : \A c \in todo[p] :
    /\ last[c][p] < count[p]
    /\ \A i \in DOMAIN chan[c] : chan[c][i].by = p => chan[c][i].n < count[p]

OrderInv == SentInv /\ UnsentInv /\ InOrder

LEMMA ChannelFacts ==
  ASSUME TypeOK, NEW c \in Clients
  PROVE  /\ chan[c] \in Seq(Event)
         /\ Len(chan[c]) \in Nat
         /\ DOMAIN chan[c] = 1..Len(chan[c])
         /\ \A i \in DOMAIN chan[c] : chan[c][i].by \in Publishers /\ chan[c][i].n \in Nat
         /\ \A p \in Publishers : last[c][p] \in Nat
<1>1. chan[c] \in Seq(Event)
  BY DEF TypeOK
<1>2. \A i \in 1..Len(chan[c]) : chan[c][i] \in Event
  BY <1>1, ElementOfSeq
<1>3. Len(chan[c]) \in Nat /\ DOMAIN chan[c] = 1..Len(chan[c])
  BY <1>1, LenProperties
<1>4. \A e \in Event : e.by \in Publishers /\ e.n \in Nat
  BY BusAssumption DEF Event
<1>5. \A p \in Publishers : last[c][p] \in Nat
  BY BusAssumption DEF TypeOK
<1> QED
  BY <1>1, <1>2, <1>3, <1>4, <1>5

\* A step that leaves the channels alone and sends nothing new.
LEMMA OrderUnchanged ==
  ASSUME OrderInv, UNCHANGED <<chan, last, count>>,
         \A p \in Publishers : todo'[p] \subseteq todo[p]
  PROVE  OrderInv'
BY DEF OrderInv, SentInv, UnsentInv, InOrder

LEMMA OrderMatch ==
  ASSUME TypeOK, OrderInv, NEW p \in Publishers, Match(p), ~busClosed
  PROVE  OrderInv'
<1>1. PICK matching \in SUBSET subscribers :
        /\ todo' = [todo EXCEPT ![p] = matching]
        /\ count' = [count EXCEPT ![p] = count[p] + 1]
  BY DEF Match
<1>2. chan' = chan /\ last' = last
  BY DEF Match, streamVars
<1>3. matching \subseteq Clients
  BY DEF TypeOK
<1>4. \A q \in Publishers :
        /\ count[q] \in Nat
        /\ count'[q] = IF q = p THEN count[p] + 1 ELSE count[q]
        /\ todo'[q] = IF q = p THEN matching ELSE todo[q]
        /\ todo[q] \subseteq Clients
  BY <1>1, BusAssumption DEF TypeOK
<1>5. ASSUME NEW c \in Clients
      PROVE  /\ \A q \in Publishers : last[c][q] <= count[q] /\ last[c][q] \in Nat
             /\ \A i \in DOMAIN chan[c] :
                  /\ chan[c][i].by \in Publishers /\ chan[c][i].n \in Nat
                  /\ chan[c][i].n <= count[chan[c][i].by]
  BY <1>5, ChannelFacts DEF OrderInv, SentInv
<1>6. SentInv'
  BY <1>2, <1>4, <1>5 DEF SentInv
<1>7. UnsentInv'
  <2> SUFFICES ASSUME NEW q \in Publishers, NEW c \in todo'[q]
               PROVE  /\ last[c][q] < count'[q]
                      /\ \A i \in DOMAIN chan[c] : chan[c][i].by = q => chan[c][i].n < count'[q]
    BY <1>2 DEF UnsentInv
  <2>1. CASE q = p
    BY <1>3, <1>4, <1>5, <2>1
  <2>2. CASE q # p
    BY <1>4, <2>2 DEF OrderInv, UnsentInv
  <2> QED
    BY <2>1, <2>2
<1>8. InOrder'
  BY <1>2 DEF OrderInv, InOrder
<1> QED
  BY <1>6, <1>7, <1>8 DEF OrderInv

LEMMA OrderSend ==
  ASSUME BusInv, OrderInv, NEW p \in Publishers, NEW c \in Clients, Send(p, c)
  PROVE  OrderInv'
<1> DEFINE e == [by |-> p, n |-> count[p]]
<1>1. /\ TypeOK /\ last' = last /\ count' = count
      /\ c \in todo[p]
      /\ todo' = [todo EXCEPT ![p] = todo[p] \ {c}]
  BY DEF BusInv, Send, streamVars
<1>2. \A q \in Publishers : todo'[q] = IF q = p THEN todo[p] \ {c} ELSE todo[q]
  BY <1>1 DEF TypeOK
<1>3. CASE c \in closed \/ Len(chan[c]) >= Capacity
  <2>1. chan' = chan
    BY <1>3 DEF Send
  <2> QED
    BY <1>1, <1>2, <2>1, OrderUnchanged
<1>4. CASE ~ (c \in closed \/ Len(chan[c]) >= Capacity)
  <2>1. chan' = [chan EXCEPT ![c] = Append(chan[c], e)]
    BY <1>4 DEF Send
  <2>2. count[p] \in 1..MaxEvents
    <3>1. count[p] \in 0..MaxEvents /\ count[p] > 0
      BY <1>1 DEF BusInv, CountInv, TypeOK
    <3> QED
      BY <3>1, BusAssumption
  <2>3. e \in Event
    BY <2>2 DEF Event
  <2>4. /\ Len(chan[c]) \in Nat /\ DOMAIN chan[c] = 1..Len(chan[c])
        /\ chan[c] \in Seq(Event)
    BY <1>1, ChannelFacts
  <2>5. /\ \A d \in Clients : d # c => chan'[d] = chan[d]
        /\ DOMAIN chan'[c] = 1..(Len(chan[c]) + 1)
        /\ \A i \in DOMAIN chan[c] : chan'[c][i] = chan[c][i]
        /\ chan'[c][Len(chan[c]) + 1] = e
    <3>1. chan'[c] = Append(chan[c], e) /\ \A d \in Clients : d # c => chan'[d] = chan[d]
      BY <1>1, <2>1 DEF TypeOK
    <3> HIDE DEF e
    <3> QED
      BY <2>3, <2>4, <3>1
  <2>6. \A i \in DOMAIN chan'[c] : i \in DOMAIN chan[c] \/ i = Len(chan[c]) + 1
    BY <2>4, <2>5
  <2>7. e.by = p /\ e.n = count[p]
    OBVIOUS
  <2> HIDE DEF e
  <2>8. SentInv'
    <3> SUFFICES ASSUME NEW d \in Clients, NEW i \in DOMAIN chan'[d]
                 PROVE  chan'[d][i].n <= count[chan'[d][i].by]
      BY <1>1 DEF SentInv, OrderInv
    <3>1. CASE d # c
      BY <2>5, <3>1 DEF OrderInv, SentInv
    <3>2. CASE d = c /\ i \in DOMAIN chan[c]
      BY <2>5, <3>2 DEF OrderInv, SentInv
    <3>3. CASE d = c /\ i = Len(chan[c]) + 1
      BY <2>2, <2>5, <2>7, <3>3
    <3> QED
      BY <2>6, <3>1, <3>2, <3>3
  <2>9. UnsentInv'
    <3> SUFFICES ASSUME NEW q \in Publishers, NEW d \in todo'[q]
                 PROVE  /\ last[d][q] < count[q]
                        /\ \A i \in DOMAIN chan'[d] :
                             chan'[d][i].by = q => chan'[d][i].n < count[q]
      BY <1>1 DEF UnsentInv
    <3>1. d \in todo[q] /\ d \in Clients /\ (d = c => q # p)
      BY <1>1, <1>2 DEF TypeOK
    <3>2. /\ last[d][q] < count[q]
          /\ \A i \in DOMAIN chan[d] : chan[d][i].by = q => chan[d][i].n < count[q]
      BY <3>1 DEF OrderInv, UnsentInv
    <3>3. CASE d # c
      BY <2>5, <3>1, <3>2, <3>3
    <3>4. CASE d = c
      BY <2>5, <2>6, <2>7, <3>1, <3>2, <3>4
    <3> QED
      BY <3>3, <3>4
  <2>10. InOrder'
    <3>1. ASSUME NEW i \in DOMAIN chan'[c]
          PROVE  last[c][chan'[c][i].by] < chan'[c][i].n
      BY <1>1, <2>5, <2>6, <2>7, <3>1 DEF OrderInv, UnsentInv, InOrder
    <3>2. ASSUME NEW i \in DOMAIN chan'[c], NEW j \in DOMAIN chan'[c],
                 i < j, chan'[c][i].by = chan'[c][j].by
          PROVE  chan'[c][i].n < chan'[c][j].n
      <4>1. i \in DOMAIN chan[c]
        BY <2>4, <2>5, <2>6, <3>2
      <4>2. CASE j \in DOMAIN chan[c]
        BY <2>5, <3>2, <4>1, <4>2 DEF OrderInv, InOrder
      <4>3. CASE j = Len(chan[c]) + 1
        BY <1>1, <2>5, <2>7, <3>2, <4>1, <4>3 DEF OrderInv, UnsentInv
      <4> QED
        BY <2>6, <3>2, <4>2, <4>3
    <3>3. ASSUME NEW d \in Clients, d # c, NEW i \in DOMAIN chan'[d]
          PROVE  /\ last[d][chan'[d][i].by] < chan'[d][i].n
                 /\ \A j \in DOMAIN chan'[d] :
                      i < j /\ chan'[d][i].by = chan'[d][j].by => chan'[d][i].n < chan'[d][j].n
      BY <2>5, <3>3 DEF OrderInv, InOrder
    <3> QED
      BY <1>1, <3>1, <3>2, <3>3 DEF InOrder
  <2> QED
    BY <2>8, <2>9, <2>10 DEF OrderInv
<1> QED
  BY <1>3, <1>4
LEMMA OrderReceive ==
  ASSUME TypeOK, OrderInv, NEW c \in Clients, Receive(c)
  PROVE  OrderInv'
<1> DEFINE e == Head(chan[c])
<1>1. /\ chan[c] \in Seq(Event) /\ chan[c] # <<>>
      /\ chan' = [chan EXCEPT ![c] = Tail(chan[c])]
      /\ last' = [last EXCEPT ![c][e.by] = e.n]
      /\ count' = count /\ todo' = todo
  BY DEF Receive, TypeOK, pubVars
<1>2. /\ Len(chan[c]) \in Nat \ {0} /\ DOMAIN chan[c] = 1..Len(chan[c])
      /\ 1 \in DOMAIN chan[c] /\ e = chan[c][1]
      /\ e.by \in Publishers /\ e.n \in Nat
  BY <1>1, ChannelFacts, EmptySeq
<1>3. /\ \A d \in Clients : d # c => chan'[d] = chan[d] /\ last'[d] = last[d]
      /\ chan'[c] = Tail(chan[c])
      /\ \A p \in Publishers : last'[c][p] = IF p = e.by THEN e.n ELSE last[c][p]
  BY <1>1, <1>2 DEF TypeOK
<1>4. /\ DOMAIN chan'[c] = 1..(Len(chan[c]) - 1)
      /\ \A i \in DOMAIN chan'[c] : i + 1 \in DOMAIN chan[c] /\ chan'[c][i] = chan[c][i + 1]
  <2> HIDE DEF e
  <2>1. /\ Tail(chan[c]) \in Seq(Event) /\ Len(Tail(chan[c])) = Len(chan[c]) - 1
        /\ \A i \in 1..Len(Tail(chan[c])) : Tail(chan[c])[i] = chan[c][i + 1]
    BY <1>1, HeadTailProperties
  <2>2. DOMAIN Tail(chan[c]) = 1..Len(Tail(chan[c]))
    BY <2>1, LenProperties
  <2> QED
    BY <1>2, <1>3, <2>1, <2>2
<1> HIDE DEF e
<1>5. SentInv'
  <2>1. ASSUME NEW d \in Clients
        PROVE  /\ \A p \in Publishers : last'[d][p] <= count[p]
               /\ \A i \in DOMAIN chan'[d] : chan'[d][i].n <= count[chan'[d][i].by]
    <3>1. CASE d # c
      BY <1>3, <3>1 DEF OrderInv, SentInv
    <3>2. CASE d = c
      <4>1. /\ \A p \in Publishers : last[c][p] <= count[p]
            /\ \A i \in DOMAIN chan[c] : chan[c][i].n <= count[chan[c][i].by]
        BY DEF OrderInv, SentInv
      <4>2. \A p \in Publishers : last'[c][p] <= count[p]
        BY <1>2, <1>3, <4>1
      <4>3. \A i \in DOMAIN chan'[c] : chan'[c][i].n <= count[chan'[c][i].by]
        BY <1>4, <4>1
      <4> QED
        BY <3>2, <4>2, <4>3
    <3> QED
      BY <3>1, <3>2
  <2> QED
    BY <1>1, <2>1 DEF SentInv
<1>6. UnsentInv'
  <2> SUFFICES ASSUME NEW p \in Publishers, NEW d \in todo[p]
               PROVE  /\ last'[d][p] < count[p]
                      /\ \A i \in DOMAIN chan'[d] :
                           chan'[d][i].by = p => chan'[d][i].n < count[p]
    BY <1>1 DEF UnsentInv
  <2>1. d \in Clients
    BY DEF TypeOK
  <2>2. /\ last[d][p] < count[p]
        /\ \A i \in DOMAIN chan[d] : chan[d][i].by = p => chan[d][i].n < count[p]
    BY DEF OrderInv, UnsentInv
  <2>3. CASE d # c
    BY <1>3, <2>1, <2>2, <2>3
  <2>4. CASE d = c
    <3>1. \A i \in DOMAIN chan[c] : chan[c][i].by = p => chan[c][i].n < count[p]
      BY <2>2, <2>4
    <3>2. last'[c][p] < count[p]
      BY <1>2, <1>3, <2>2, <2>4, <3>1
    <3>3. \A i \in DOMAIN chan'[c] : chan'[c][i].by = p => chan'[c][i].n < count[p]
      BY <1>4, <3>1
    <3> QED
      BY <2>4, <3>2, <3>3
  <2> QED
    BY <2>3, <2>4
<1>7. InOrder'
  <2>1. \A i \in DOMAIN chan[c] :
          /\ last[c][chan[c][i].by] < chan[c][i].n
          /\ chan[c][i].by \in Publishers
          /\ \A j \in DOMAIN chan[c] :
               i < j /\ chan[c][i].by = chan[c][j].by => chan[c][i].n < chan[c][j].n
    BY <1>1, ChannelFacts DEF OrderInv, InOrder
  <2>2. ASSUME NEW i \in DOMAIN chan'[c]
        PROVE  last'[c][chan'[c][i].by] < chan'[c][i].n
    <3>1. i + 1 \in DOMAIN chan[c] /\ chan'[c][i] = chan[c][i + 1] /\ 1 < i + 1
      BY <1>2, <1>4
    <3>2. CASE chan[c][i + 1].by = e.by
      BY <1>2, <1>3, <2>1, <3>1, <3>2
    <3>3. CASE chan[c][i + 1].by # e.by
      BY <1>3, <2>1, <3>1, <3>3
    <3> QED
      BY <3>2, <3>3
  <2>3. ASSUME NEW i \in DOMAIN chan'[c], NEW j \in DOMAIN chan'[c],
               i < j, chan'[c][i].by = chan'[c][j].by
        PROVE  chan'[c][i].n < chan'[c][j].n
    <3>1. i + 1 < j + 1
      BY <1>2, <1>4, <2>3
    <3> QED
      BY <1>4, <2>1, <2>3, <3>1
  <2>4. ASSUME NEW d \in Clients, d # c, NEW i \in DOMAIN chan'[d]
        PROVE  /\ last'[d][chan'[d][i].by] < chan'[d][i].n
               /\ \A j \in DOMAIN chan'[d] :
                    i < j /\ chan'[d][i].by = chan'[d][j].by => chan'[d][i].n < chan'[d][j].n
    BY <1>3, <2>4 DEF OrderInv, InOrder
  <2> QED
    BY <2>2, <2>3, <2>4 DEF InOrder
<1> QED
  BY <1>5, <1>6, <1>7 DEF OrderInv

LEMMA OrderInit == Init => OrderInv
<1> SUFFICES ASSUME Init PROVE OrderInv
  OBVIOUS
<1>1. \A c \in Clients : DOMAIN chan[c] = {}
  <2>1. DOMAIN <<>> = {}
    OBVIOUS
  <2>2. \A c \in Clients : chan[c] = <<>>
    BY DEF Init
  <2> QED
    BY <2>1, <2>2
<1>2. \A c \in Clients : \A p \in Publishers : last[c][p] = 0
  BY DEF Init
<1>3. \A p \in Publishers : count[p] = 0 /\ todo[p] = {}
  BY DEF Init
<1> QED
  BY <1>1, <1>2, <1>3 DEF OrderInv, SentInv, UnsentInv, InOrder

LEMMA OrderStep ==
  ASSUME BusInv, OrderInv, [Next]_vars
  PROVE  OrderInv'
<1>1. TypeOK
  BY DEF BusInv
<1>2. ASSUME NEW p \in Publishers, RLock(p) \/ PublishStep(p)
      PROVE  OrderInv'
  <2>1. CASE RLock(p) \/ RUnlock(p)
    <3>1. UNCHANGED <<chan, last, count, todo>>
      BY <2>1 DEF RLock, RUnlock, streamVars
    <3> QED
      BY <3>1, OrderUnchanged
  <2>2. CASE Match(p) /\ busClosed
    <3>1. UNCHANGED <<chan, last, count, todo>>
      BY <2>2 DEF Match, streamVars
    <3> QED
      BY <3>1, OrderUnchanged
  <2>3. CASE Match(p) /\ ~busClosed
    BY <1>1, <2>3, OrderMatch
  <2>4. CASE \E c \in Clients : Send(p, c)
    BY <2>4, OrderSend
  <2> QED
    BY <1>2, <2>1, <2>2, <2>3, <2>4 DEF PublishStep
<1>3. ASSUME NEW c \in Clients, Receive(c)
      PROVE  OrderInv'
  BY <1>1, <1>3, OrderReceive
<1>4. CASE \/ \E w \in Clients \cup {Main} : Lock(w)
           \/ \E c \in Clients :
                \/ Accept(c) \/ Disconnect(c) \/ Leave(c) \/ Subscribe(c) \/ Unsubscribe(c)
                \/ Keepalive(c) \/ Written(c) \/ WriteFails(c)
           \/ StopServing \/ Drained \/ DrainTimesOut \/ Shutdown \/ Exit
           \/ UNCHANGED vars
  <2>1. UNCHANGED <<chan, last, count, todo>>
    BY <1>4 DEF Lock, Accept, Disconnect, Leave, Subscribe, Unsubscribe, Keepalive, Written,
                WriteFails, StopServing, Drained, DrainTimesOut, Shutdown, Exit, vars,
                pubVars, streamVars
  <2> QED
    BY <2>1, OrderUnchanged
<1> QED
  BY <1>2, <1>3, <1>4 DEF Next, HandlerStep

\* A stream carries the events of one publisher in the order of its calls and
\* without repetition, whatever is dropped and however publishers interleave.
THEOREM StreamsInOrder == BusSpec => []InOrder
<1>1. BusSpec => []OrderInv
  BY BusInvariant, OrderInit, OrderStep, PTL DEF BusSpec
<1> QED
  BY <1>1, PTL DEF OrderInv
=============================================================================
