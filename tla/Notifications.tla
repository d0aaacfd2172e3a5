--------------------------- MODULE Notifications ---------------------------
(***************************************************************************)
(* Notices of incidents: internal/service/notification.go over the tables  *)
(* notification_channels and notification_deliveries, with the calls of    *)
(* internal/service/incident.go that start a notice or count the gauge     *)
(* blackgrid_incidents_open, and what else writes the table incidents.     *)
(*                                                                         *)
(* Every notice is a goroutine of its own: it lists the enabled channels   *)
(* and tries one after the other, once each.  A webhook has a timeout; a   *)
(* mail server's answer is waited for without one.  A restart ends all     *)
(* goroutines.                                                             *)
(*                                                                         *)
(* Abstracted: a channel has a type, the enabled flag and one secret; an   *)
(* incident is its status (IncidentService models the rest); texts and     *)
(* payloads are left out, and sends succeed or fail.                       *)
(***************************************************************************)
EXTENDS Integers, FiniteSets

CONSTANTS
  Channels,              \* ids of notification_channels rows
  Incidents,             \* ids of incidents rows
  Resolvers,             \* threads that resolve or acknowledge incidents
  ChannelCalls,          \* requests that change a channel
  NoticeScopes,          \* bounds: the operations, inputs and races of a behaviour
  Unset                  \* no channel, no incident

Types == {"webhook", "smtp"}
NoticeOperations == {"channel", "patch", "delete", "incident", "acknowledge", "monitor", "test",
                     "restart", "cleanup"}

\* A secret is stored, sent by a client, or the mask that responses show.
Secrets == {"empty", "mask", "old", "new"}

\* A mail channel's secret is its password, a webhook's a header.
Channel == [type : Types, enabled : BOOLEAN, secret : Secrets]

\* A body names any of the fields; the others are "keep".
ChannelBody == [type : Types \cup {"keep"}, enabled : {"keep", "yes", "no"},
                secret : {"keep", "empty", "mask", "new"}]

\* Who starts a notice: the opening, a thread that resolves, or the test button.
Opening == "opening"
Test == "test"

ASSUME NotificationsAssumption ==
  /\ IsFiniteSet(Incidents)
  /\ Opening \notin Resolvers
  /\ Unset \notin Channels \cup Incidents
  /\ NoticeScopes \subseteq [operations : SUBSET NoticeOperations, kinds : SUBSET Channel,
                             channelBodies : SUBSET ChannelBody, lone : BOOLEAN]

VARIABLES
  noticeScope,           \* the bound this behaviour is under; never changes
  channels,              \* the notification_channels table
  incident,              \* the incidents table
  gauge,                 \* blackgrid_incidents_open
  resolver,              \* the incident that each thread has read as unresolved
  acking,                \* the incident that each thread has read as open
  channelCall,           \* what each request has read
  notice,                \* the goroutine of each notice
  attempts,              \* history: how often a notice was tried on a channel
  deliveries             \* the notification_deliveries table

noticeVars == <<noticeScope, channels, incident, gauge, resolver, acking, channelCall, notice,
                attempts, deliveries>>

IncidentStatuses == {"none", "open", "acknowledged", "resolved", "gone"}
Unresolved == {i \in Incidents : incident[i] \in {"open", "acknowledged"}}

NoChannel == [type |-> "none", enabled |-> FALSE, secret |-> "empty"]

\* A notice is known by its incident and who starts it.
NoticeIds == Incidents \X ({Opening} \cup Resolvers) \cup {<<Unset, Test>>}

\* A channel is used as it was when it was listed.
Copy == [id : Channels, type : Types]
NoCopy == [id |-> Unset, type |-> "none"]
\* listed is a history: what todo was at first.
NoNotice == [at |-> "none", listed |-> {}, todo |-> {}, current |-> NoCopy, result |-> "none"]
NoChannelCall == [at |-> "idle", channel |-> Unset, copy |-> NoChannel, body |-> Unset]

NotificationsTypeOK ==
  /\ noticeScope \in NoticeScopes
  /\ channels \in [Channels -> Channel \cup {NoChannel}]
  /\ incident \in [Incidents -> IncidentStatuses]
  /\ gauge \in Int
  /\ resolver \in [Resolvers -> Incidents \cup {Unset}]
  /\ acking \in [Resolvers -> Incidents \cup {Unset}]
  /\ channelCall \in [ChannelCalls ->
       [at : {"idle", "read", "merged"}, channel : Channels \cup {Unset},
        copy : Channel \cup {NoChannel}, body : ChannelBody \cup {Unset}]]
  /\ notice \in [NoticeIds ->
       [at : {"none", "spawned", "listed", "sending", "storing", "done", "lost"},
        listed : SUBSET Copy, todo : SUBSET Copy, current : Copy \cup {NoCopy}, result : {"none", "sent", "failed"}]]
  /\ attempts \in [NoticeIds \X Channels -> Nat]
  /\ deliveries \in [NoticeIds \X Channels -> {"none", "sent", "failed"}]
  \* A delivery is recorded of a channel that is there and was tried.
  /\ \A n \in NoticeIds, ch \in Channels :
       deliveries[<<n, ch>>] # "none" => channels[ch] # NoChannel /\ attempts[<<n, ch>>] > 0

NotificationsInit ==
  /\ noticeScope \in NoticeScopes
  /\ channels = [ch \in Channels |-> NoChannel]
  /\ incident = [i \in Incidents |-> "none"]
  /\ gauge = 0
  /\ resolver = [t \in Resolvers |-> Unset]
  /\ acking = [t \in Resolvers |-> Unset]
  /\ channelCall = [c \in ChannelCalls |-> NoChannelCall]
  /\ notice = [n \in NoticeIds |-> NoNotice]
  /\ attempts = [x \in NoticeIds \X Channels |-> 0]
  /\ deliveries = [x \in NoticeIds \X Channels |-> "none"]

-----------------------------------------------------------------------------
(* Bounds.                                                                 *)

Permits(operation) == operation \in noticeScope.operations

\* No two threads call on incidents, and no two requests change channels, at a time.
IdleThread(t) == resolver[t] = Unset /\ acking[t] = Unset
LoneResolver == noticeScope.lone => \A t \in Resolvers : IdleThread(t)
LoneRequest == noticeScope.lone => \A c \in ChannelCalls : channelCall[c] = NoChannelCall

\* A UUID is never used twice.
FreeChannel(ch) ==
  /\ channels[ch] = NoChannel
  /\ \A c \in ChannelCalls : channelCall[c].channel # ch
  /\ \A n \in NoticeIds :
       attempts[<<n, ch>>] = 0 /\ \A copy \in notice[n].todo : copy.id # ch

channelVars == <<channels, channelCall>>
incidentVars == <<incident, gauge, resolver, acking>>
sendVars == <<notice, attempts, deliveries>>

-----------------------------------------------------------------------------
(* Channels.                                                               *)

CreateChannel(ch, kind) ==
  /\ Permits("channel")
  /\ LoneRequest
  /\ FreeChannel(ch)
  /\ channels' = [channels EXCEPT ![ch] = kind]
  /\ UNCHANGED <<noticeScope, channelCall, incidentVars, sendVars>>

\* The handler reads the channel for what the body leaves out.
ReadChannel(c, ch, body) ==
  /\ Permits("patch")
  /\ channelCall[c] = NoChannelCall
  /\ LoneRequest
  /\ channels[ch] # NoChannel
  /\ channelCall' = [channelCall EXCEPT ![c] = [at |-> "read", channel |-> ch,
                                                copy |-> channels[ch], body |-> body]]
  /\ UNCHANGED <<noticeScope, channels, incidentVars, sendVars>>

\* Mutant: the mask is stored as a password.
Merged(type, sent, existing) ==
  IF type = "smtp" /\ sent = "empty" /\ existing.type = "smtp" THEN existing.secret ELSE sent

\* mergeSMTPPassword(): no password, or the mask, stands for the stored one.  A
\* stored configuration of a webhook has none.
MergeSMTPPassword(type, sent, existing) ==
  IF type = "smtp" /\ sent \in {"empty", "mask"} /\ existing.type = "smtp"
  THEN existing.secret ELSE sent

\* UpdateChannel() reads it again and merges the password; a configuration of
\* the other type is not valid.
MergeChannel(c) ==
  LET call == channelCall[c]
      existing == channels[call.channel]
      type == IF call.body.type = "keep" THEN call.copy.type ELSE call.body.type
      enabled == IF call.body.enabled = "keep" THEN call.copy.enabled
                 ELSE call.body.enabled = "yes"
      sent == IF call.body.secret = "keep" THEN call.copy.secret ELSE call.body.secret
  IN
  /\ call.at = "read"
  /\ existing # NoChannel
  /\ call.body.secret = "keep" => type = call.copy.type
  /\ channelCall' = [channelCall EXCEPT
       ![c].at = "merged",
       ![c].copy = [type |-> type, enabled |-> enabled,
                    secret |-> MergeSMTPPassword(type, sent, existing)]]
  /\ UNCHANGED <<noticeScope, channels, incidentVars, sendVars>>

UpdateChannel(c) ==
  LET call == channelCall[c] IN
  /\ call.at = "merged"
  /\ channels[call.channel] # NoChannel
  /\ channels' = [channels EXCEPT ![call.channel] = call.copy]
  /\ channelCall' = [channelCall EXCEPT ![c] = NoChannelCall]
  /\ UNCHANGED <<noticeScope, incidentVars, sendVars>>

\* A statement fails, or the body is refused.
ChannelCallEnds(c) ==
  /\ channelCall[c] # NoChannelCall
  /\ channelCall' = [channelCall EXCEPT ![c] = NoChannelCall]
  /\ UNCHANGED <<noticeScope, channels, incidentVars, sendVars>>

\* Mutant: the deliveries of a deleted channel stay.
DeleteChannelOnly(ch) ==
  /\ Permits("delete")
  /\ channels[ch] # NoChannel
  /\ LoneRequest
  /\ channels' = [channels EXCEPT ![ch] = NoChannel]
  /\ UNCHANGED <<noticeScope, channelCall, incidentVars, sendVars>>

\* The deliveries are deleted with the channel.
DeleteChannel(ch) ==
  /\ Permits("delete")
  /\ channels[ch] # NoChannel
  /\ LoneRequest
  /\ channels' = [channels EXCEPT ![ch] = NoChannel]
  /\ deliveries' = [x \in NoticeIds \X Channels |-> IF x[2] = ch THEN "none" ELSE deliveries[x]]
  /\ UNCHANGED <<noticeScope, channelCall, incidentVars, notice, attempts>>

-----------------------------------------------------------------------------
(* Incidents: the gauge and the goroutines they start.                     *)

Spawned == [NoNotice EXCEPT !.at = "spawned"]

OpenIncident(i) ==
  /\ Permits("incident")
  /\ incident[i] = "none"
  /\ incident' = [incident EXCEPT ![i] = "open"]
  /\ gauge' = gauge + 1
  /\ notice' = [notice EXCEPT ![<<i, Opening>>] = Spawned]
  /\ UNCHANGED <<noticeScope, channelVars, resolver, acking, attempts, deliveries>>

\* Mutant: an incident that is resolved already is resolved again.
ReadAny(t, i) ==
  /\ Permits("incident")
  /\ LoneResolver /\ IdleThread(t)
  /\ notice[<<i, t>>] = NoNotice
  /\ incident[i] \notin {"none", "gone"}
  /\ resolver' = [resolver EXCEPT ![t] = i]
  /\ UNCHANGED <<noticeScope, channelVars, incident, gauge, acking, sendVars>>

\* Resolve() or ResolveForMonitor() has read an incident that is not resolved.
ReadUnresolved(t, i) ==
  /\ Permits("incident")
  /\ LoneResolver /\ IdleThread(t)
  /\ notice[<<i, t>>] = NoNotice
  /\ i \in Unresolved
  /\ resolver' = [resolver EXCEPT ![t] = i]
  /\ UNCHANGED <<noticeScope, channelVars, incident, gauge, acking, sendVars>>

\* The UPDATE has no condition but the id; an operator's call starts no notice
\* if it cannot read the monitor.
ResolveIncident(t) ==
  LET i == resolver[t] IN
  /\ i # Unset
  /\ incident[i] # "gone"
  /\ incident' = [incident EXCEPT ![i] = "resolved"]
  /\ gauge' = gauge - 1
  /\ resolver' = [resolver EXCEPT ![t] = Unset]
  /\ notice' \in {notice, [notice EXCEPT ![<<i, t>>] = Spawned]}
  /\ UNCHANGED <<noticeScope, channelVars, acking, attempts, deliveries>>

\* Acknowledge() has read an incident that is open.
ReadOpen(t, i) ==
  /\ Permits("acknowledge")
  /\ LoneResolver /\ IdleThread(t)
  /\ incident[i] = "open"
  /\ acking' = [acking EXCEPT ![t] = i]
  /\ UNCHANGED <<noticeScope, channelVars, incident, gauge, resolver, sendVars>>

\* Nor has this UPDATE: it may overwrite a resolution.
AcknowledgeIncident(t) ==
  LET i == acking[t] IN
  /\ i # Unset
  /\ incident[i] # "gone"
  /\ incident' = [incident EXCEPT ![i] = "acknowledged"]
  /\ acking' = [acking EXCEPT ![t] = Unset]
  /\ UNCHANGED <<noticeScope, channelVars, gauge, resolver, sendVars>>

\* Mutant: the gauge is counted down before the statement, which fails.
CountedDownFirst(t) ==
  /\ ~IdleThread(t)
  /\ gauge' = IF resolver[t] # Unset THEN gauge - 1 ELSE gauge
  /\ resolver' = [resolver EXCEPT ![t] = Unset]
  /\ acking' = [acking EXCEPT ![t] = Unset]
  /\ UNCHANGED <<noticeScope, channelVars, incident, sendVars>>

\* The statement fails, as it does once the incident is gone.
IncidentCallFails(t) ==
  /\ ~IdleThread(t)
  /\ resolver' = [resolver EXCEPT ![t] = Unset]
  /\ acking' = [acking EXCEPT ![t] = Unset]
  /\ UNCHANGED <<noticeScope, channelVars, incident, gauge, sendVars>>

\* A monitor is deleted and its incidents with it; the gauge is left as it is.
DeleteMonitor(gone) ==
  /\ Permits("monitor")
  /\ gone # {} /\ \A i \in gone : incident[i] \notin {"none", "gone"}
  /\ incident' = [i \in Incidents |-> IF i \in gone THEN "gone" ELSE incident[i]]
  /\ UNCHANGED <<noticeScope, channelVars, gauge, resolver, acking, sendVars>>

-----------------------------------------------------------------------------
(* Notices.                                                                *)

CopyOf(ch) == [id |-> ch, type |-> channels[ch].type]
Listing(chs) ==
  LET copies == {CopyOf(ch) : ch \in chs}
  IN  [NoNotice EXCEPT !.at = "listed", !.listed = copies, !.todo = copies]

\* dispatch() lists the enabled channels.
ListChannels(n) ==
  /\ notice[n].at = "spawned"
  /\ notice' = [notice EXCEPT ![n] = Listing({ch \in Channels : channels[ch].enabled})]
  /\ UNCHANGED <<noticeScope, channelVars, incidentVars, attempts, deliveries>>

\* The statement fails: no channel is tried.
ListFails(n) ==
  /\ Permits("restart")
  /\ notice[n].at = "spawned"
  /\ notice' = [notice EXCEPT ![n].at = "lost"]
  /\ UNCHANGED <<noticeScope, channelVars, incidentVars, attempts, deliveries>>

\* TestChannel() tries one channel, enabled or not.
TestChannel(ch) ==
  /\ Permits("test")
  /\ channels[ch] # NoChannel
  /\ notice[<<Unset, Test>>] = NoNotice
  /\ notice' = [notice EXCEPT ![<<Unset, Test>>] = Listing({ch})]
  /\ UNCHANGED <<noticeScope, channelVars, incidentVars, attempts, deliveries>>

\* deliver() tries the next channel.
Deliver(n) ==
  /\ notice[n].at = "listed"
  /\ \E copy \in notice[n].todo :
       /\ notice' = [notice EXCEPT ![n].at = "sending", ![n].current = copy,
                                   ![n].todo = @ \ {copy}]
       /\ attempts' = [attempts EXCEPT ![<<n, copy.id>>] = @ + 1]
  /\ UNCHANGED <<noticeScope, channelVars, incidentVars, deliveries>>

SendEnds(n, type) ==
  /\ notice[n].at = "sending"
  /\ notice[n].current.type = type
  /\ \E result \in {"sent", "failed"} :
       notice' = [notice EXCEPT ![n].at = "storing", ![n].result = result]
  /\ UNCHANGED <<noticeScope, channelVars, incidentVars, attempts, deliveries>>

\* The HTTP client gives up after its timeout.
SendWebhook(n) == SendEnds(n, "webhook")

\* The mail server answers, some day.
SendSMTP(n) == SendEnds(n, "smtp")

\* Mutant: the first failure ends the notice.
AgainUnlessFailed(n) ==
  [notice[n] EXCEPT !.at = "listed", !.current = NoCopy, !.result = "none",
                    !.todo = IF notice[n].result = "failed" THEN {} ELSE @]

\* dispatch() goes on with the next channel, whatever became of this one.
Again(n) == [notice[n] EXCEPT !.at = "listed", !.current = NoCopy, !.result = "none"]

\* Mutant: a channel that failed is tried once more.
StoreAndRetry(n) ==
  LET ch == notice[n].current.id IN
  /\ notice[n].at = "storing"
  /\ deliveries' = [deliveries EXCEPT ![<<n, ch>>] =
       IF channels[ch] = NoChannel THEN @ ELSE notice[n].result]
  /\ notice' = [notice EXCEPT ![n] =
       [Again(n) EXCEPT !.todo = IF notice[n].result = "failed" /\ attempts[<<n, ch>>] < 2
                                 THEN @ \cup {notice[n].current} ELSE @]]
  /\ UNCHANGED <<noticeScope, channelVars, incidentVars, attempts>>

\* The delivery is recorded, if its channel is still there; then the next one.
StoreDelivery(n) ==
  LET ch == notice[n].current.id IN
  /\ notice[n].at = "storing"
  /\ \/ /\ channels[ch] # NoChannel
        /\ deliveries' = [deliveries EXCEPT ![<<n, ch>>] = notice[n].result]
     \/ /\ channels[ch] = NoChannel \/ Permits("restart")
        /\ UNCHANGED deliveries
  /\ notice' = [notice EXCEPT ![n] = Again(n)]
  /\ UNCHANGED <<noticeScope, channelVars, incidentVars, attempts>>

NoticeDone(n) ==
  /\ notice[n].at = "listed"
  /\ notice[n].todo = {}
  /\ notice' = [notice EXCEPT ![n].at = "done"]
  /\ UNCHANGED <<noticeScope, channelVars, incidentVars, attempts, deliveries>>

\* Retention deletes deliveries by their age.
CleanupNotificationDeliveries ==
  /\ Permits("cleanup")
  /\ \E old \in SUBSET {x \in NoticeIds \X Channels : deliveries[x] # "none"} :
       /\ old # {}
       /\ deliveries' = [x \in NoticeIds \X Channels |->
                           IF x \in old THEN "none" ELSE deliveries[x]]
  /\ UNCHANGED <<noticeScope, channelVars, incidentVars, notice, attempts>>

\* A restart ends every goroutine and request, and the gauge starts at zero.
NoticeServerStops ==
  /\ Permits("restart")
  /\ gauge' = 0
  /\ resolver' = [t \in Resolvers |-> Unset]
  /\ acking' = [t \in Resolvers |-> Unset]
  /\ channelCall' = [c \in ChannelCalls |-> NoChannelCall]
  /\ notice' = [n \in NoticeIds |->
                  IF notice[n].at \in {"none", "done"} THEN notice[n]
                  ELSE [NoNotice EXCEPT !.at = "lost"]]
  /\ UNCHANGED <<noticeScope, channels, incident, attempts, deliveries>>

-----------------------------------------------------------------------------
(* The system.                                                             *)

ChannelStep ==
  \/ \E ch \in Channels, kind \in noticeScope.kinds : CreateChannel(ch, kind)
  \/ \E ch \in Channels, c \in ChannelCalls, body \in noticeScope.channelBodies :
       ReadChannel(c, ch, body)
  \/ \E c \in ChannelCalls : MergeChannel(c) \/ UpdateChannel(c) \/ ChannelCallEnds(c)
  \/ \E ch \in Channels : DeleteChannel(ch)

IncidentStep ==
  \/ \E i \in Incidents : OpenIncident(i)
  \/ \E t \in Resolvers :
       \/ \E i \in Incidents : ReadUnresolved(t, i) \/ ReadOpen(t, i)
       \/ ResolveIncident(t)
       \/ AcknowledgeIncident(t)
       \/ IncidentCallFails(t)
  \/ \E gone \in SUBSET Incidents : DeleteMonitor(gone)

NoticeStep(n) ==
  \/ ListChannels(n)
  \/ Deliver(n)
  \/ SendWebhook(n)
  \/ StoreDelivery(n)
  \/ NoticeDone(n)

NotificationsNext ==
  \/ ChannelStep
  \/ IncidentStep
  \/ \E n \in NoticeIds : NoticeStep(n) \/ SendSMTP(n) \/ ListFails(n)
  \/ \E ch \in Channels : TestChannel(ch)
  \/ CleanupNotificationDeliveries
  \/ NoticeServerStops

\* A goroutine that can go on does, and webhooks time out: without a word on how
\* long a mail server takes.
NoticeFairness == \A n \in NoticeIds : WF_noticeVars(NoticeStep(n))

NotificationsSpec ==
  NotificationsInit /\ [][NotificationsNext]_noticeVars /\ NoticeFairness

-----------------------------------------------------------------------------
(* Properties.                                                             *)

\* One attempt per channel and event, whatever fails, is changed or restarted:
\* docs/notifications.md.
TriedOnce == \A x \in NoticeIds \X Channels : attempts[x] <= 1

\* A PATCH of a channel changes what it names, and one with no password or with
\* the mask leaves a mail channel its stored password: docs/notifications.md.
PatchKeepsPassword ==
  [][noticeScope.lone =>
       \A c \in ChannelCalls :
         LET call == channelCall[c]
             before == channels[call.channel]
             after == channels'[call.channel]
         IN
         call.at = "merged" /\ channels' # channels =>
           /\ \A ch \in Channels \ {call.channel} : channels'[ch] = channels[ch]
           /\ call.body.type = "keep" => after.type = before.type
           /\ call.body.enabled = "keep" => after.enabled = before.enabled
           /\ call.body.secret = "keep" => after.secret = before.secret
           /\ call.body.secret \in {"empty", "mask"} /\ before.type = "smtp" /\ after.type = "smtp"
                => after.secret = before.secret]_noticeVars

\* A failure on one channel never keeps a notice from the others: again and
\* again each notice has tried every channel that it listed, or else it is
\* waiting for a mail server, which has no time limit.
EveryChannelIsTried ==
  []<>(\A n \in NoticeIds :
         \/ \A copy \in notice[n].listed : attempts[<<n, copy.id>>] > 0
         \/ notice[n].at = "sending" /\ notice[n].current.type = "smtp")
=============================================================================
