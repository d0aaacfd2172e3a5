------------------------ MODULE Notifications_proofs ------------------------
(***************************************************************************)
(* Theorems of Notifications and NoticeHistory, for any channels,          *)
(* incidents, resolving threads, requests and scopes.                      *)
(***************************************************************************)
EXTENDS NoticeHistory, FiniteSetTheorems, TLAPS

-----------------------------------------------------------------------------
(* The data.                                                               *)

\* What is known of a request and of a notice, as the type invariant has it.
CallRecord ==
  [at : {"idle", "read", "merged"}, channel : Channels \cup {Unset},
   copy : Channel \cup {NoChannel}, body : ChannelBody \cup {Unset}]

NoticeRecord ==
  [at : {"none", "spawned", "listed", "sending", "storing", "done", "lost"},
   listed : SUBSET Copy, todo : SUBSET Copy, current : Copy \cup {NoCopy},
   result : {"none", "sent", "failed"}]

LEMMA NothingFacts ==
  /\ NoChannel \notin Channel /\ NoChannel.enabled = FALSE /\ NoChannel.secret = "empty"
  /\ NoChannelCall \in CallRecord /\ NoChannelCall.at = "idle"
  /\ NoNotice \in NoticeRecord /\ NoNotice.at = "none" /\ NoNotice.todo = {}
  /\ Spawned \in NoticeRecord /\ Spawned.at = "spawned" /\ Spawned.todo = {}
BY DEF NoChannel, Channel, Types, Secrets, NoChannelCall, CallRecord, NoNotice, NoticeRecord, Spawned,
       NoCopy, Copy

\* A request that has read a channel has a body; what it will write is a channel.
CallOf(c) ==
  channelCall[c].at # "idle" =>
    /\ channelCall[c].channel \in Channels
    /\ channelCall[c].copy \in Channel
    /\ channelCall[c].body \in ChannelBody

\* A notice has tried nothing before it lists, and nothing that is left to try,
\* and has no channel on its list twice.
NoticeOf(n) ==
  /\ notice[n].at \in {"sending", "storing"} =>
       notice[n].current \in Copy /\ attempts[<<n, notice[n].current.id>>] > 0
  /\ notice[n].at = "storing" => notice[n].result \in {"sent", "failed"}
  /\ notice[n].at \in {"none", "spawned"} => \A ch \in Channels : attempts[<<n, ch>>] = 0
  /\ \A copy \in notice[n].todo : attempts[<<n, copy.id>>] = 0
  /\ \A x, y \in notice[n].todo : x.id = y.id => x = y
  /\ \A ch \in Channels : attempts[<<n, ch>>] <= 1

\* Whoever is about to start a notice has not started it before.
NotYetTold ==
  /\ \A t \in Resolvers : resolver[t] # Unset => notice[<<resolver[t], t>>] = NoNotice
  /\ \A i \in Incidents : incident[i] = "none" => notice[<<i, Opening>>] = NoNotice

NoticeInv ==
  /\ NotificationsTypeOK
  /\ \A c \in ChannelCalls : CallOf(c)
  /\ \A n \in NoticeIds : NoticeOf(n)
  /\ NotYetTold

\* The parts of the type invariant, by name.
LEMMA TypeFacts ==
  ASSUME NotificationsTypeOK
  PROVE  /\ noticeScope.kinds \subseteq Channel /\ noticeScope.channelBodies \subseteq ChannelBody
         /\ noticeScope \in NoticeScopes
         /\ channels \in [Channels -> Channel \cup {NoChannel}]
         /\ incident \in [Incidents -> IncidentStatuses]
         /\ channelCall \in [ChannelCalls -> CallRecord]
         /\ notice \in [NoticeIds -> NoticeRecord]
         /\ attempts \in [NoticeIds \X Channels -> Nat]
         /\ deliveries \in [NoticeIds \X Channels -> {"none", "sent", "failed"}]
BY NotificationsAssumption DEF NotificationsTypeOK, CallRecord, NoticeRecord

-----------------------------------------------------------------------------
(* Requests on channels.                                                   *)

\* A channel is created, changed or deleted with its deliveries.
LEMMA ChannelWritten ==
  ASSUME NoticeInv, UNCHANGED <<noticeScope, incidentVars, notice, attempts>>,
         channelCall' \in [ChannelCalls -> CallRecord],
         NEW ch \in Channels, NEW row \in Channel \cup {NoChannel},
         channels' = [channels EXCEPT ![ch] = row],
         deliveries' \in [NoticeIds \X Channels -> {"none", "sent", "failed"}],
         \A x \in NoticeIds \X Channels : deliveries'[x] \in {"none", deliveries[x]},
         row = NoChannel => \A n \in NoticeIds : deliveries'[<<n, ch>>] = "none"
  PROVE  NotificationsTypeOK'
<1>1. channels' \in [Channels -> Channel \cup {NoChannel}]
  BY DEF NoticeInv, NotificationsTypeOK
<1>2. \A n \in NoticeIds, d \in Channels :
        deliveries'[<<n, d>>] # "none" => channels'[d] # NoChannel /\ attempts[<<n, d>>] > 0
  <2> SUFFICES ASSUME NEW n \in NoticeIds, NEW d \in Channels, deliveries'[<<n, d>>] # "none"
               PROVE  channels'[d] # NoChannel /\ attempts[<<n, d>>] > 0
    OBVIOUS
  <2>1. deliveries[<<n, d>>] # "none"
    OBVIOUS
  <2> QED
    BY <2>1 DEF NoticeInv, NotificationsTypeOK
<1> QED
  BY <1>1, <1>2 DEF NoticeInv, NotificationsTypeOK, CallRecord, incidentVars

\* A request goes on.
LEMMA CallMoves ==
  ASSUME NoticeInv, UNCHANGED <<noticeScope, channels, incidentVars, sendVars>>,
         NEW c \in ChannelCalls, NEW r \in CallRecord, channelCall' = [channelCall EXCEPT ![c] = r]
  PROVE  NotificationsTypeOK'
<1>1. channelCall' \in [ChannelCalls -> CallRecord]
  BY TypeFacts DEF NoticeInv
<1> QED
  BY <1>1 DEF NoticeInv, NotificationsTypeOK, CallRecord, incidentVars, sendVars

\* What MergeChannel(c) makes of the request.
LEMMA MergeFacts ==
  ASSUME NoticeInv, NEW c \in ChannelCalls, MergeChannel(c)
  PROVE  \E r \in CallRecord :
           /\ channelCall' = [channelCall EXCEPT ![c] = r]
           /\ r.at = "merged" /\ r.channel = channelCall[c].channel /\ r.body = channelCall[c].body
           /\ r.copy \in Channel
           /\ r.copy.type = IF r.body.type = "keep" THEN channelCall[c].copy.type ELSE r.body.type
           /\ r.copy.enabled = IF r.body.enabled = "keep" THEN channelCall[c].copy.enabled
                               ELSE r.body.enabled = "yes"
           /\ r.copy.secret =
                MergeSMTPPassword(r.copy.type,
                                  IF r.body.secret = "keep" THEN channelCall[c].copy.secret
                                  ELSE r.body.secret,
                                  channels[r.channel])
<1> DEFINE old == channelCall[c]
           existing == channels[old.channel]
           type == IF old.body.type = "keep" THEN old.copy.type ELSE old.body.type
           enabled == IF old.body.enabled = "keep" THEN old.copy.enabled ELSE old.body.enabled = "yes"
           sent == IF old.body.secret = "keep" THEN old.copy.secret ELSE old.body.secret
           secret == MergeSMTPPassword(type, sent, existing)
           copy == [type |-> type, enabled |-> enabled, secret |-> secret]
           r == [old EXCEPT !.at = "merged", !.copy = copy]
<1>1. /\ old \in CallRecord /\ old.copy \in Channel /\ old.body \in ChannelBody
      /\ existing \in Channel
  BY TypeFacts DEF NoticeInv, MergeChannel, CallOf
<1>2. type \in Types /\ sent \in Secrets /\ existing.secret \in Secrets
  BY <1>1 DEF Channel, ChannelBody, Types, Secrets
<1>3. enabled \in BOOLEAN
  BY <1>1 DEF Channel, ChannelBody
<1>4. secret \in Secrets
  BY <1>2 DEF MergeSMTPPassword
<1>5. copy \in Channel /\ copy.type = type /\ copy.enabled = enabled /\ copy.secret = secret
  BY <1>2, <1>3, <1>4 DEF Channel
<1>6. channelCall' = [channelCall EXCEPT ![c] = [channelCall[c] EXCEPT !.at = "merged", !.copy = copy]]
  BY DEF MergeChannel
<1> HIDE DEF copy
<1>7. /\ r \in CallRecord /\ r.at = "merged" /\ r.channel = old.channel /\ r.body = old.body
      /\ r.copy = copy
  BY <1>1, <1>5 DEF CallRecord
<1> HIDE DEF r
<1>8. channelCall' = [channelCall EXCEPT ![c] = r]
  BY <1>6 DEF r
<1> QED
  BY <1>5, <1>7, <1>8

\* The requests leave the notices alone.
LEMMA ChannelStepKeeps ==
  ASSUME NoticeInv, ChannelStep
  PROVE  /\ UNCHANGED <<noticeScope, incidentVars, notice, attempts>>
         /\ NotificationsTypeOK'
         /\ \A c \in ChannelCalls : CallOf(c)'
<1>1. /\ noticeScope.kinds \subseteq Channel /\ noticeScope.channelBodies \subseteq ChannelBody
      /\ channels \in [Channels -> Channel \cup {NoChannel}]
      /\ channelCall \in [ChannelCalls -> CallRecord]
      /\ deliveries \in [NoticeIds \X Channels -> {"none", "sent", "failed"}]
      /\ \A c \in ChannelCalls : CallOf(c)
  BY TypeFacts DEF NoticeInv
<1>2. ASSUME NEW ch \in Channels, NEW kind \in noticeScope.kinds, CreateChannel(ch, kind)
      PROVE  /\ UNCHANGED <<noticeScope, incidentVars, notice, attempts>>
             /\ NotificationsTypeOK'
             /\ \A c \in ChannelCalls : CallOf(c)'
  <2>1. /\ channels' = [channels EXCEPT ![ch] = kind] /\ kind \in Channel
        /\ UNCHANGED <<noticeScope, channelCall, incidentVars, notice, attempts, deliveries>>
    BY <1>1, <1>2 DEF CreateChannel, sendVars
  <2> QED
    BY <1>1, <2>1, ChannelWritten, NothingFacts DEF CallOf
<1>3. ASSUME NEW c \in ChannelCalls, NEW r \in CallRecord,
             channelCall' = [channelCall EXCEPT ![c] = r],
             r.at # "idle" => r.channel \in Channels /\ r.copy \in Channel /\ r.body \in ChannelBody
      PROVE  \A d \in ChannelCalls : CallOf(d)'
  BY <1>1, <1>3 DEF CallOf
<1>4. ASSUME NEW c \in ChannelCalls, NEW ch \in Channels, NEW body \in noticeScope.channelBodies,
             ReadChannel(c, ch, body)
      PROVE  /\ UNCHANGED <<noticeScope, incidentVars, notice, attempts>>
             /\ NotificationsTypeOK'
             /\ \A d \in ChannelCalls : CallOf(d)'
  <2> DEFINE r == [at |-> "read", channel |-> ch, copy |-> channels[ch], body |-> body]
  <2>1. /\ channelCall' = [channelCall EXCEPT ![c] = r] /\ channels[ch] # NoChannel
        /\ UNCHANGED <<noticeScope, channels, incidentVars, sendVars>>
    BY <1>4 DEF ReadChannel
  <2>2. /\ r \in CallRecord /\ r.channel = ch /\ r.copy \in Channel /\ r.body \in ChannelBody
    BY <1>1, <2>1 DEF CallRecord
  <2> HIDE DEF r
  <2> QED
    BY <1>3, <2>1, <2>2, CallMoves DEF sendVars
<1>5. ASSUME NEW c \in ChannelCalls, MergeChannel(c)
      PROVE  /\ UNCHANGED <<noticeScope, incidentVars, notice, attempts>>
             /\ NotificationsTypeOK'
             /\ \A d \in ChannelCalls : CallOf(d)'
  <2>1. PICK r \in CallRecord :
          /\ channelCall' = [channelCall EXCEPT ![c] = r]
          /\ r.channel = channelCall[c].channel /\ r.body = channelCall[c].body /\ r.copy \in Channel
    BY <1>5, MergeFacts
  <2>2. channelCall[c].at = "read" /\ UNCHANGED <<noticeScope, channels, incidentVars, sendVars>>
    BY <1>5 DEF MergeChannel
  <2>3. r.channel \in Channels /\ r.body \in ChannelBody
    BY <1>1, <2>1, <2>2 DEF CallOf
  <2> QED
    BY <1>3, <2>1, <2>2, <2>3, CallMoves DEF sendVars
<1>6. ASSUME NEW c \in ChannelCalls, UpdateChannel(c)
      PROVE  /\ UNCHANGED <<noticeScope, incidentVars, notice, attempts>>
             /\ NotificationsTypeOK'
             /\ \A d \in ChannelCalls : CallOf(d)'
  <2>1. /\ channelCall[c].at = "merged"
        /\ channels' = [channels EXCEPT ![channelCall[c].channel] = channelCall[c].copy]
        /\ channelCall' = [channelCall EXCEPT ![c] = NoChannelCall]
        /\ UNCHANGED <<noticeScope, incidentVars, notice, attempts, deliveries>>
    BY <1>6 DEF UpdateChannel, sendVars
  <2>2. channelCall[c].channel \in Channels /\ channelCall[c].copy \in Channel
    BY <1>1, <2>1 DEF CallOf
  <2>3. channelCall' \in [ChannelCalls -> CallRecord] /\ \A d \in ChannelCalls : CallOf(d)'
    BY <1>1, <1>3, <2>1, NothingFacts
  <2> QED
    BY <1>1, <2>1, <2>2, <2>3, ChannelWritten, NothingFacts
<1>7. ASSUME NEW c \in ChannelCalls, ChannelCallEnds(c)
      PROVE  /\ UNCHANGED <<noticeScope, incidentVars, notice, attempts>>
             /\ NotificationsTypeOK'
             /\ \A d \in ChannelCalls : CallOf(d)'
  BY <1>3, <1>7, CallMoves, NothingFacts DEF ChannelCallEnds, sendVars
<1>8. ASSUME NEW ch \in Channels, DeleteChannel(ch)
      PROVE  /\ UNCHANGED <<noticeScope, incidentVars, notice, attempts>>
             /\ NotificationsTypeOK'
             /\ \A c \in ChannelCalls : CallOf(c)'
  <2>1. /\ channels' = [channels EXCEPT ![ch] = NoChannel]
        /\ deliveries' = [x \in NoticeIds \X Channels |-> IF x[2] = ch THEN "none" ELSE deliveries[x]]
        /\ UNCHANGED <<noticeScope, channelCall, incidentVars, notice, attempts>>
    BY <1>8 DEF DeleteChannel
  <2>2. /\ deliveries' \in [NoticeIds \X Channels -> {"none", "sent", "failed"}]
        /\ \A x \in NoticeIds \X Channels : deliveries'[x] \in {"none", deliveries[x]}
        /\ \A n \in NoticeIds : deliveries'[<<n, ch>>] = "none"
    BY <1>1, <2>1
  <2> QED
    BY <1>1, <2>1, <2>2, ChannelWritten DEF CallOf
<1> QED
  BY <1>2, <1>4, <1>5, <1>6, <1>7, <1>8 DEF ChannelStep

-----------------------------------------------------------------------------
(* Notices and the incidents that start them.                              *)

\* A step that changes the notice of n only.
LEMMA NoticeMoves ==
  ASSUME NoticeInv, UNCHANGED <<noticeScope, channelVars>>,
         incident' \in [Incidents -> IncidentStatuses], gauge' \in Int,
         resolver' \in [Resolvers -> Incidents \cup {Unset}],
         acking' \in [Resolvers -> Incidents \cup {Unset}],
         NEW n \in NoticeIds, NEW r \in NoticeRecord, notice' = [notice EXCEPT ![n] = r],
         attempts' \in [NoticeIds \X Channels -> Nat],
         \A x \in NoticeIds \X Channels : attempts'[x] >= attempts[x],
         \A m \in NoticeIds \ {n}, ch \in Channels : attempts'[<<m, ch>>] = attempts[<<m, ch>>],
         deliveries' \in [NoticeIds \X Channels -> {"none", "sent", "failed"}],
         \A m \in NoticeIds, ch \in Channels :
           \/ deliveries'[<<m, ch>>] \in {"none", deliveries[<<m, ch>>]}
           \/ channels[ch] # NoChannel /\ attempts[<<m, ch>>] > 0,
         NoticeOf(n)'
  PROVE  /\ NotificationsTypeOK'
         /\ \A c \in ChannelCalls : CallOf(c)'
         /\ \A m \in NoticeIds : NoticeOf(m)'
<1>1. /\ notice \in [NoticeIds -> NoticeRecord] /\ attempts \in [NoticeIds \X Channels -> Nat]
      /\ \A c \in ChannelCalls : CallOf(c)
      /\ \A m \in NoticeIds : NoticeOf(m)
  BY TypeFacts DEF NoticeInv
<1>2. notice' \in [NoticeIds -> NoticeRecord] /\ \A m \in NoticeIds \ {n} : notice'[m] = notice[m]
  BY <1>1
<1>3. ASSUME NEW m \in NoticeIds \ {n}
      PROVE  NoticeOf(m)'
  <2>1. notice[m] \in NoticeRecord /\ \A copy \in Copy : copy.id \in Channels
    BY <1>1 DEF Copy
  <2>2. \A copy \in notice[m].todo : copy.id \in Channels
    BY <2>1 DEF NoticeRecord
  <2> QED
    BY <1>1, <1>2, <1>3, <2>1, <2>2 DEF NoticeOf
<1>4. \A m \in NoticeIds, ch \in Channels :
        deliveries'[<<m, ch>>] # "none" => channels'[ch] # NoChannel /\ attempts'[<<m, ch>>] > 0
  <2> SUFFICES ASSUME NEW m \in NoticeIds, NEW ch \in Channels, deliveries'[<<m, ch>>] # "none"
               PROVE  channels'[ch] # NoChannel /\ attempts'[<<m, ch>>] > 0
    OBVIOUS
  <2>1. channels[ch] # NoChannel /\ attempts[<<m, ch>>] > 0
    BY DEF NoticeInv, NotificationsTypeOK
  <2>2. <<m, ch>> \in NoticeIds \X Channels
    OBVIOUS
  <2>3. attempts'[<<m, ch>>] >= attempts[<<m, ch>>]
    BY <2>2
  <2> QED
    BY <1>1, <2>1, <2>2, <2>3 DEF channelVars
<1> QED
  BY <1>2, <1>3, <1>4, <1>1 DEF NoticeInv, NotificationsTypeOK, NoticeRecord, channelVars, CallOf

\* A list of channels has each of them once.
LEMMA ListingFacts ==
  ASSUME NoticeInv, NEW chs \in SUBSET {ch \in Channels : channels[ch] # NoChannel}
  PROVE  /\ Listing(chs) \in NoticeRecord /\ Listing(chs).at = "listed"
         /\ \A copy \in Listing(chs).todo : copy.id \in Channels
         /\ \A x, y \in Listing(chs).todo : x.id = y.id => x = y
<1> DEFINE copies == {CopyOf(ch) : ch \in chs}
           r == [NoNotice EXCEPT !.at = "listed", !.listed = copies, !.todo = copies]
<1>1. \A ch \in chs : CopyOf(ch) \in Copy /\ CopyOf(ch).id = ch
  BY TypeFacts DEF NoticeInv, CopyOf, Copy, Channel
<1>2. copies \in SUBSET Copy /\ \A x, y \in copies : x.id = y.id => x = y
  BY <1>1
<1>3. \A copy \in copies : copy.id \in Channels
  BY <1>1
<1>4. Listing(chs) = r
  BY DEF Listing
<1> HIDE DEF copies
<1>5. r \in NoticeRecord /\ r.at = "listed" /\ r.todo = copies
  BY <1>2 DEF NoNotice, NoticeRecord, NoCopy
<1> QED
  BY <1>2, <1>3, <1>4, <1>5

\* A notice that has tried nothing gets a list.
LEMMA ListType ==
  ASSUME NoticeInv, NEW n \in NoticeIds, notice[n].at \in {"none", "spawned"},
         NEW chs \in SUBSET {ch \in Channels : channels[ch] # NoChannel},
         notice' = [notice EXCEPT ![n] = Listing(chs)],
         UNCHANGED <<noticeScope, channelVars, incidentVars, attempts, deliveries>>
  PROVE  /\ NotificationsTypeOK'
         /\ \A c \in ChannelCalls : CallOf(c)'
         /\ \A m \in NoticeIds : NoticeOf(m)'
<1>1. notice'[n] = Listing(chs)
  BY TypeFacts DEF NoticeInv
<1>2. \A ch \in Channels : attempts[<<n, ch>>] = 0
  BY DEF NoticeInv, NoticeOf
<1>3. NoticeOf(n)'
  BY <1>1, <1>2, ListingFacts DEF NoticeOf
<1>4. /\ attempts' \in [NoticeIds \X Channels -> Nat]
      /\ \A x \in NoticeIds \X Channels : attempts'[x] >= attempts[x]
      /\ \A m \in NoticeIds \ {n}, ch \in Channels : attempts'[<<m, ch>>] = attempts[<<m, ch>>]
  BY TypeFacts DEF NoticeInv
<1>5. /\ incident' \in [Incidents -> IncidentStatuses] /\ gauge' \in Int
      /\ resolver' \in [Resolvers -> Incidents \cup {Unset}]
      /\ acking' \in [Resolvers -> Incidents \cup {Unset}]
      /\ deliveries' \in [NoticeIds \X Channels -> {"none", "sent", "failed"}]
      /\ \A m \in NoticeIds, ch \in Channels : deliveries'[<<m, ch>>] = deliveries[<<m, ch>>]
  BY DEF NoticeInv, NotificationsTypeOK, incidentVars
<1>6. Listing(chs) \in NoticeRecord
  BY ListingFacts
<1> QED
  BY <1>3, <1>4, <1>5, <1>6, NoticeMoves

\* A step of a notice.
LEMMA NoticeStepKeeps ==
  ASSUME NoticeInv, NEW n \in NoticeIds, NoticeStep(n) \/ SendSMTP(n) \/ ListFails(n)
  PROVE  /\ UNCHANGED <<noticeScope, channelVars, incidentVars>>
         /\ NotificationsTypeOK'
         /\ \A c \in ChannelCalls : CallOf(c)'
         /\ \A m \in NoticeIds : NoticeOf(m)'
         /\ notice[n] # NoNotice /\ notice'[n] # NoNotice
         /\ \A m \in NoticeIds \ {n} : notice'[m] = notice[m]
<1> DEFINE Kept == /\ UNCHANGED <<noticeScope, channelVars, incidentVars>>
                   /\ NotificationsTypeOK'
                   /\ \A c \in ChannelCalls : CallOf(c)'
                   /\ \A m \in NoticeIds : NoticeOf(m)'
                   /\ notice[n] # NoNotice /\ notice'[n] # NoNotice
                   /\ \A m \in NoticeIds \ {n} : notice'[m] = notice[m]
<1>1. /\ notice \in [NoticeIds -> NoticeRecord] /\ notice[n] \in NoticeRecord
      /\ attempts \in [NoticeIds \X Channels -> Nat] /\ NoticeOf(n)
      /\ deliveries \in [NoticeIds \X Channels -> {"none", "sent", "failed"}]
      /\ incident \in [Incidents -> IncidentStatuses] /\ gauge \in Int
      /\ resolver \in [Resolvers -> Incidents \cup {Unset}]
      /\ acking \in [Resolvers -> Incidents \cup {Unset}]
  BY TypeFacts DEF NoticeInv, NotificationsTypeOK
<1>2. \A copy \in Copy : copy.id \in Channels
  BY DEF Copy
<1>3. CASE ListChannels(n)
  <2> DEFINE chs == {ch \in Channels : channels[ch].enabled}
  <2>1. chs \in SUBSET {ch \in Channels : channels[ch] # NoChannel}
    BY NothingFacts
  <2>2. /\ notice[n].at = "spawned" /\ notice' = [notice EXCEPT ![n] = Listing(chs)]
        /\ UNCHANGED <<noticeScope, channelVars, incidentVars, attempts, deliveries>>
    BY <1>3 DEF ListChannels
  <2> HIDE DEF chs
  <2>3. notice'[n] = Listing(chs) /\ Listing(chs).at = "listed"
    BY <1>1, <2>1, <2>2, ListingFacts
  <2> QED
    BY <1>1, <2>1, <2>2, <2>3, ListType, NothingFacts
<1>4. ASSUME NEW r \in NoticeRecord, notice' = [notice EXCEPT ![n] = r],
             notice[n].at # "none", r.at \notin {"none", "spawned"},
             UNCHANGED <<noticeScope, channelVars, incidentVars, attempts>>,
             deliveries' \in [NoticeIds \X Channels -> {"none", "sent", "failed"}],
             \A m \in NoticeIds, ch \in Channels :
               \/ deliveries'[<<m, ch>>] = deliveries[<<m, ch>>]
               \/ channels[ch] # NoChannel /\ attempts[<<m, ch>>] > 0,
             r.todo \subseteq notice[n].todo,
             r.at \in {"sending", "storing"} =>
               r.current \in Copy /\ attempts[<<n, r.current.id>>] > 0,
             r.at = "storing" => r.result \in {"sent", "failed"}
      PROVE  Kept
  <2>1. notice'[n] = r /\ \A m \in NoticeIds \ {n} : notice'[m] = notice[m]
    BY <1>1, <1>4
  <2>2. NoticeOf(n)'
    BY <1>1, <1>4, <2>1 DEF NoticeOf
  <2>3. \A x \in NoticeIds \X Channels : attempts[x] >= attempts[x]
    BY <1>1
  <2>4. /\ NotificationsTypeOK' /\ \A c \in ChannelCalls : CallOf(c)'
        /\ \A m \in NoticeIds : NoticeOf(m)'
    BY <1>1, <1>4, <2>2, <2>3, NoticeMoves DEF incidentVars
  <2> QED
    BY <1>4, <2>1, <2>4, NothingFacts
<1>5. CASE ListFails(n)
  <2> DEFINE r == [notice[n] EXCEPT !.at = "lost"]
  <2>1. r \in NoticeRecord /\ r.at = "lost" /\ r.todo = notice[n].todo
    BY <1>1 DEF NoticeRecord
  <2>2. /\ notice[n].at = "spawned" /\ notice' = [notice EXCEPT ![n] = r]
        /\ UNCHANGED <<noticeScope, channelVars, incidentVars, attempts, deliveries>>
    BY <1>5 DEF ListFails
  <2> HIDE DEF r
  <2> QED
    BY <1>1, <1>4, <2>1, <2>2
<1>6. CASE Deliver(n)
  <2>1. PICK copy \in notice[n].todo :
          /\ notice' = [notice EXCEPT ![n].at = "sending", ![n].current = copy, ![n].todo = @ \ {copy}]
          /\ attempts' = [attempts EXCEPT ![<<n, copy.id>>] = @ + 1]
    BY <1>6 DEF Deliver
  <2>2. copy \in Copy /\ copy.id \in Channels /\ <<n, copy.id>> \in NoticeIds \X Channels
    BY <1>1, <1>2 DEF NoticeRecord
  <2> DEFINE r == [notice[n] EXCEPT !.at = "sending", !.current = copy, !.todo = @ \ {copy}]
  <2>3. /\ r \in NoticeRecord /\ r.at = "sending" /\ r.current = copy
        /\ r.todo = notice[n].todo \ {copy}
    BY <1>1, <2>2 DEF NoticeRecord
  <2>4. /\ notice[n].at = "listed" /\ notice' = [notice EXCEPT ![n] = r]
        /\ UNCHANGED <<noticeScope, channelVars, incidentVars, deliveries>>
    BY <1>6, <2>1 DEF Deliver
  <2> HIDE DEF r
  <2>5. notice'[n] = r /\ \A m \in NoticeIds \ {n} : notice'[m] = notice[m]
    BY <1>1, <2>4
  <2>6. /\ attempts' \in [NoticeIds \X Channels -> Nat]
        /\ attempts[<<n, copy.id>>] = 0 /\ attempts'[<<n, copy.id>>] = 1
        /\ \A x \in NoticeIds \X Channels : attempts'[x] >= attempts[x]
    BY <1>1, <2>1, <2>2 DEF NoticeOf
  <2>7. \A m \in NoticeIds, ch \in Channels :
          <<m, ch>> # <<n, copy.id>> => attempts'[<<m, ch>>] = attempts[<<m, ch>>]
    BY <1>1, <2>1
  <2>8. \A other \in r.todo : other.id # copy.id /\ other.id \in Channels /\ other \in notice[n].todo
    BY <1>1, <1>2, <2>3 DEF NoticeOf, NoticeRecord
  <2>9. NoticeOf(n)'
    <3>1. \A ch \in Channels : attempts'[<<n, ch>>] <= 1
      <4> SUFFICES ASSUME NEW ch \in Channels PROVE attempts'[<<n, ch>>] <= 1
        OBVIOUS
      <4>1. CASE ch = copy.id
        BY <2>6, <4>1
      <4>2. CASE ch # copy.id
        BY <1>1, <2>7, <4>2 DEF NoticeOf
      <4> QED
        BY <4>1, <4>2
    <3>2. \A other \in r.todo : attempts'[<<n, other.id>>] = 0
      <4> SUFFICES ASSUME NEW other \in r.todo PROVE attempts'[<<n, other.id>>] = 0
        OBVIOUS
      <4> QED
        BY <1>1, <2>7, <2>8 DEF NoticeOf
    <3>3. \A x, y \in r.todo : x.id = y.id => x = y
      BY <1>1, <2>3 DEF NoticeOf
    <3>4. r.at = "sending" /\ r.current \in Copy /\ attempts'[<<n, r.current.id>>] > 0
      BY <2>2, <2>3, <2>6
    <3> QED
      BY <2>5, <3>1, <3>2, <3>3, <3>4 DEF NoticeOf
  <2>10. \A m \in NoticeIds \ {n}, ch \in Channels : attempts'[<<m, ch>>] = attempts[<<m, ch>>]
    BY <2>7
  <2>11. /\ NotificationsTypeOK' /\ \A c \in ChannelCalls : CallOf(c)'
         /\ \A m \in NoticeIds : NoticeOf(m)'
    BY <1>1, <2>3, <2>4, <2>6, <2>9, <2>10, NoticeMoves DEF incidentVars
  <2> QED
    BY <2>3, <2>4, <2>5, <2>11, NothingFacts
<1>7. CASE SendWebhook(n) \/ SendSMTP(n)
  <2>1. PICK result \in {"sent", "failed"} :
          notice' = [notice EXCEPT ![n].at = "storing", ![n].result = result]
    BY <1>7 DEF SendWebhook, SendSMTP, SendEnds
  <2> DEFINE r == [notice[n] EXCEPT !.at = "storing", !.result = result]
  <2>2. /\ r \in NoticeRecord /\ r.at = "storing" /\ r.todo = notice[n].todo
        /\ r.current = notice[n].current /\ r.result = result
    BY <1>1 DEF NoticeRecord
  <2>3. /\ notice[n].at = "sending" /\ notice' = [notice EXCEPT ![n] = r]
        /\ UNCHANGED <<noticeScope, channelVars, incidentVars, attempts, deliveries>>
    BY <1>7, <2>1 DEF SendWebhook, SendSMTP, SendEnds
  <2> HIDE DEF r
  <2> QED
    BY <1>1, <1>4, <2>2, <2>3 DEF NoticeOf
<1>8. CASE StoreDelivery(n)
  <2> DEFINE r == [notice[n] EXCEPT !.at = "listed", !.current = NoCopy, !.result = "none"]
             ch == notice[n].current.id
  <2>1. r \in NoticeRecord /\ r.at = "listed" /\ r.todo = notice[n].todo
    BY <1>1 DEF NoticeRecord
  <2>2. /\ notice[n].at = "storing" /\ notice' = [notice EXCEPT ![n] = r]
        /\ UNCHANGED <<noticeScope, channelVars, incidentVars, attempts>>
    BY <1>8 DEF StoreDelivery, Again
  <2>3. ch \in Channels /\ attempts[<<n, ch>>] > 0 /\ notice[n].result \in {"sent", "failed"}
    BY <1>1, <1>2, <2>2 DEF NoticeOf
  <2>4. \/ channels[ch] # NoChannel /\ deliveries' = [deliveries EXCEPT ![<<n, ch>>] = notice[n].result]
        \/ UNCHANGED deliveries
    BY <1>8 DEF StoreDelivery
  <2> HIDE DEF r, ch
  <2>5. /\ deliveries' \in [NoticeIds \X Channels -> {"none", "sent", "failed"}]
        /\ \A m \in NoticeIds, d \in Channels :
             \/ deliveries'[<<m, d>>] = deliveries[<<m, d>>]
             \/ channels[d] # NoChannel /\ attempts[<<m, d>>] > 0
    BY <1>1, <2>3, <2>4
  <2> QED
    BY <1>1, <1>4, <2>1, <2>2, <2>5
<1>9. CASE NoticeDone(n)
  <2> DEFINE r == [notice[n] EXCEPT !.at = "done"]
  <2>1. r \in NoticeRecord /\ r.at = "done" /\ r.todo = notice[n].todo
    BY <1>1 DEF NoticeRecord
  <2>2. /\ notice[n].at = "listed" /\ notice' = [notice EXCEPT ![n] = r]
        /\ UNCHANGED <<noticeScope, channelVars, incidentVars, attempts, deliveries>>
    BY <1>9 DEF NoticeDone
  <2> HIDE DEF r
  <2> QED
    BY <1>1, <1>4, <2>1, <2>2
<1> QED
  BY <1>3, <1>5, <1>6, <1>7, <1>8, <1>9 DEF NoticeStep

\* A step of the incidents that starts no notice, or the one of n.
LEMMA IncidentWrites ==
  ASSUME NoticeInv, UNCHANGED <<noticeScope, channelVars, attempts, deliveries>>,
         incident' \in [Incidents -> IncidentStatuses], gauge' \in Int,
         resolver' \in [Resolvers -> Incidents \cup {Unset}],
         acking' \in [Resolvers -> Incidents \cup {Unset}],
         NEW n \in NoticeIds, notice[n] = NoNotice,
         notice' \in {notice, [notice EXCEPT ![n] = Spawned]}
  PROVE  /\ NotificationsTypeOK'
         /\ \A c \in ChannelCalls : CallOf(c)'
         /\ \A m \in NoticeIds : NoticeOf(m)'
<1>1. /\ notice \in [NoticeIds -> NoticeRecord] /\ attempts \in [NoticeIds \X Channels -> Nat]
      /\ deliveries \in [NoticeIds \X Channels -> {"none", "sent", "failed"}]
  BY TypeFacts DEF NoticeInv
<1>2. PICK r \in {NoNotice, Spawned} : notice' = [notice EXCEPT ![n] = r]
  <2>1. notice = [notice EXCEPT ![n] = NoNotice]
    BY <1>1
  <2> QED
    BY <2>1
<1>3. r \in NoticeRecord /\ r.at \in {"none", "spawned"} /\ r.todo = {}
  BY <1>2, NothingFacts
<1>4. \A ch \in Channels : attempts[<<n, ch>>] = 0
  BY NothingFacts DEF NoticeInv, NoticeOf
<1>5. NoticeOf(n)'
  <2>1. notice'[n] = r
    BY <1>1, <1>2
  <2> QED
    BY <1>3, <1>4, <2>1 DEF NoticeOf
<1>6. /\ attempts' \in [NoticeIds \X Channels -> Nat]
      /\ \A x \in NoticeIds \X Channels : attempts'[x] >= attempts[x]
      /\ \A m \in NoticeIds \ {n}, ch \in Channels : attempts'[<<m, ch>>] = attempts[<<m, ch>>]
      /\ deliveries' \in [NoticeIds \X Channels -> {"none", "sent", "failed"}]
      /\ \A m \in NoticeIds, ch \in Channels : deliveries'[<<m, ch>>] = deliveries[<<m, ch>>]
  BY <1>1
<1> QED
  BY <1>2, <1>3, <1>5, <1>6, NoticeMoves

\* The notices that a step on incidents may start.
LEMMA IncidentIds ==
  /\ \A i \in Incidents : <<i, Opening>> \in NoticeIds
  /\ \A i \in Incidents, t \in Resolvers :
       <<i, t>> \in NoticeIds /\ <<i, t>> # <<Unset, Test>> /\ t # Opening
  /\ \A i \in Incidents : <<i, Opening>> # <<Unset, Test>>
BY NotificationsAssumption DEF NoticeIds

LEMMA IncidentStepKeeps ==
  ASSUME NoticeInv, IncidentStep
  PROVE  UNCHANGED noticeScope /\ NoticeInv'
<1>1. /\ notice \in [NoticeIds -> NoticeRecord]
      /\ incident \in [Incidents -> IncidentStatuses] /\ gauge \in Int
      /\ resolver \in [Resolvers -> Incidents \cup {Unset}]
      /\ acking \in [Resolvers -> Incidents \cup {Unset}]
      /\ NotYetTold
  BY TypeFacts DEF NoticeInv, NotificationsTypeOK
<1>2. ASSUME NEW i \in Incidents, OpenIncident(i)
      PROVE  UNCHANGED noticeScope /\ NoticeInv'
  <2>1. /\ incident[i] = "none" /\ incident' = [incident EXCEPT ![i] = "open"] /\ gauge' = gauge + 1
        /\ notice' = [notice EXCEPT ![<<i, Opening>>] = Spawned]
        /\ UNCHANGED <<noticeScope, channelVars, resolver, acking, attempts, deliveries>>
    BY <1>2 DEF OpenIncident
  <2>2. <<i, Opening>> \in NoticeIds /\ notice[<<i, Opening>>] = NoNotice
    BY <1>1, <2>1, IncidentIds DEF NotYetTold
  <2>3. /\ incident' \in [Incidents -> IncidentStatuses] /\ gauge' \in Int
        /\ resolver' \in [Resolvers -> Incidents \cup {Unset}]
        /\ acking' \in [Resolvers -> Incidents \cup {Unset}]
    BY <1>1, <2>1 DEF IncidentStatuses
  <2>4. /\ NotificationsTypeOK' /\ \A c \in ChannelCalls : CallOf(c)'
        /\ \A m \in NoticeIds : NoticeOf(m)'
    BY <2>1, <2>2, <2>3, IncidentWrites
  <2>5. \A t \in Resolvers : resolver[t] # Unset => resolver[t] \in Incidents
    BY <1>1
  <2>6. \A j \in Incidents, t \in Resolvers : notice'[<<j, t>>] = notice[<<j, t>>]
    BY <1>1, <2>1, IncidentIds
  <2>7. \A j \in Incidents : incident'[j] = "none" => notice'[<<j, Opening>>] = NoNotice
    <3> SUFFICES ASSUME NEW j \in Incidents, incident'[j] = "none"
                 PROVE  notice'[<<j, Opening>>] = NoNotice
      OBVIOUS
    <3>1. j # i /\ incident[j] = "none"
      BY <1>1, <2>1
    <3> QED
      BY <1>1, <2>1, <3>1, IncidentIds DEF NotYetTold
  <2> QED
    BY <1>1, <2>1, <2>4, <2>5, <2>6, <2>7 DEF NoticeInv, NotYetTold
\* A step that starts no notice and leaves each call where it may start one.
<1>3. ASSUME UNCHANGED <<noticeScope, channelVars, sendVars>>,
             incident' \in [Incidents -> IncidentStatuses], gauge' \in Int,
             resolver' \in [Resolvers -> Incidents \cup {Unset}],
             acking' \in [Resolvers -> Incidents \cup {Unset}],
             \A j \in Incidents : incident'[j] = "none" => incident[j] = "none",
             \A t \in Resolvers : resolver'[t] \notin {Unset, resolver[t]} =>
               notice[<<resolver'[t], t>>] = NoNotice
      PROVE  UNCHANGED noticeScope /\ NoticeInv'
  <2>1. NotificationsTypeOK'
    BY <1>3 DEF NoticeInv, NotificationsTypeOK, channelVars, sendVars
  <2>2. /\ \A c \in ChannelCalls : CallOf(c)'
        /\ \A m \in NoticeIds : NoticeOf(m)'
    BY <1>3 DEF NoticeInv, CallOf, NoticeOf, channelVars, sendVars
  <2>3. NotYetTold'
    BY <1>1, <1>3 DEF NotYetTold, sendVars
  <2> QED
    BY <1>3, <2>1, <2>2, <2>3 DEF NoticeInv
<1>4. ASSUME NEW t \in Resolvers, NEW i \in Incidents, ReadUnresolved(t, i) \/ ReadOpen(t, i)
      PROVE  UNCHANGED noticeScope /\ NoticeInv'
  <2>1. CASE ReadUnresolved(t, i)
    <3>1. /\ resolver' = [resolver EXCEPT ![t] = i] /\ notice[<<i, t>>] = NoNotice
          /\ UNCHANGED <<noticeScope, channelVars, incident, gauge, acking, sendVars>>
      BY <2>1 DEF ReadUnresolved
    <3> QED
      BY <1>1, <1>3, <3>1
  <2>2. CASE ReadOpen(t, i)
    <3>1. /\ acking' = [acking EXCEPT ![t] = i]
          /\ UNCHANGED <<noticeScope, channelVars, incident, gauge, resolver, sendVars>>
      BY <2>2 DEF ReadOpen
    <3> QED
      BY <1>1, <1>3, <3>1
  <2> QED
    BY <1>4, <2>1, <2>2
<1>5. ASSUME NEW t \in Resolvers, IncidentCallFails(t)
      PROVE  UNCHANGED noticeScope /\ NoticeInv'
  <2>1. /\ resolver' = [resolver EXCEPT ![t] = Unset] /\ acking' = [acking EXCEPT ![t] = Unset]
        /\ UNCHANGED <<noticeScope, channelVars, incident, gauge, sendVars>>
    BY <1>5 DEF IncidentCallFails
  <2> QED
    BY <1>1, <1>3, <2>1
<1>7. ASSUME NEW t \in Resolvers, AcknowledgeIncident(t)
      PROVE  UNCHANGED noticeScope /\ NoticeInv'
  <2>1. /\ incident' = [incident EXCEPT ![acking[t]] = "acknowledged"]
        /\ acking' = [acking EXCEPT ![t] = Unset]
        /\ UNCHANGED <<noticeScope, channelVars, gauge, resolver, sendVars>>
    BY <1>7 DEF AcknowledgeIncident
  <2>2. "acknowledged" \in IncidentStatuses
    BY DEF IncidentStatuses
  <2> QED
    BY <1>1, <1>3, <2>1, <2>2
<1>8. ASSUME NEW gone \in SUBSET Incidents, DeleteMonitor(gone)
      PROVE  UNCHANGED noticeScope /\ NoticeInv'
  <2>1. /\ incident' = [i \in Incidents |-> IF i \in gone THEN "gone" ELSE incident[i]]
        /\ UNCHANGED <<noticeScope, channelVars, gauge, resolver, acking, sendVars>>
    BY <1>8 DEF DeleteMonitor
  <2>2. "gone" \in IncidentStatuses
    BY DEF IncidentStatuses
  <2> QED
    BY <1>1, <1>3, <2>1, <2>2
<1>6. ASSUME NEW t \in Resolvers, ResolveIncident(t)
      PROVE  UNCHANGED noticeScope /\ NoticeInv'
  <2> DEFINE i == resolver[t]
  <2>1. /\ i # Unset /\ incident' = [incident EXCEPT ![i] = "resolved"] /\ gauge' = gauge - 1
        /\ resolver' = [resolver EXCEPT ![t] = Unset]
        /\ notice' \in {notice, [notice EXCEPT ![<<i, t>>] = Spawned]}
        /\ UNCHANGED <<noticeScope, channelVars, acking, attempts, deliveries>>
    BY <1>6 DEF ResolveIncident
  <2>2. i \in Incidents /\ <<i, t>> \in NoticeIds /\ notice[<<i, t>>] = NoNotice
    BY <1>1, <2>1, IncidentIds DEF NotYetTold
  <2>3. /\ incident' \in [Incidents -> IncidentStatuses] /\ gauge' \in Int
        /\ resolver' \in [Resolvers -> Incidents \cup {Unset}]
        /\ acking' \in [Resolvers -> Incidents \cup {Unset}]
    BY <1>1, <2>1, <2>2 DEF IncidentStatuses
  <2> HIDE DEF i
  <2>4. /\ NotificationsTypeOK' /\ \A c \in ChannelCalls : CallOf(c)'
        /\ \A m \in NoticeIds : NoticeOf(m)'
    BY <2>1, <2>2, <2>3, IncidentWrites
  <2>5. \A m \in NoticeIds \ {<<i, t>>} : notice'[m] = notice[m]
    BY <1>1, <2>1, <2>2
  <2>6. ASSUME NEW u \in Resolvers, resolver'[u] # Unset
        PROVE  notice'[<<resolver'[u], u>>] = NoNotice
    <3>1. u # t /\ resolver'[u] = resolver[u] /\ resolver[u] \in Incidents
      BY <1>1, <2>1, <2>6
    <3>2. <<resolver[u], u>> \in NoticeIds \ {<<i, t>>}
      BY <3>1, IncidentIds
    <3> QED
      BY <1>1, <2>5, <2>6, <3>1, <3>2 DEF NotYetTold
  <2>7. ASSUME NEW j \in Incidents, incident'[j] = "none"
        PROVE  notice'[<<j, Opening>>] = NoNotice
    <3>1. incident[j] = "none"
      BY <1>1, <2>1, <2>2, <2>7
    <3>2. <<j, Opening>> \in NoticeIds \ {<<i, t>>}
      BY <2>2, IncidentIds
    <3> QED
      BY <1>1, <2>5, <3>1, <3>2 DEF NotYetTold
  <2> QED
    BY <2>1, <2>4, <2>6, <2>7 DEF NoticeInv, NotYetTold
<1> QED
  BY <1>2, <1>4, <1>5, <1>6, <1>7, <1>8 DEF IncidentStep

-----------------------------------------------------------------------------
(* The whole.                                                              *)

\* Retention and restarts.
LEMMA StopKeeps ==
  ASSUME NoticeInv, CleanupNotificationDeliveries \/ NoticeServerStops
  PROVE  UNCHANGED noticeScope /\ NoticeInv'
<1>1. /\ notice \in [NoticeIds -> NoticeRecord] /\ attempts \in [NoticeIds \X Channels -> Nat]
      /\ deliveries \in [NoticeIds \X Channels -> {"none", "sent", "failed"}]
      /\ NotYetTold
  BY TypeFacts DEF NoticeInv
<1>2. CASE CleanupNotificationDeliveries
  <2>1. PICK old : deliveries' = [x \in NoticeIds \X Channels |->
                                    IF x \in old THEN "none" ELSE deliveries[x]]
    BY <1>2 DEF CleanupNotificationDeliveries
  <2>2. UNCHANGED <<noticeScope, channelVars, incidentVars, notice, attempts>>
    BY <1>2 DEF CleanupNotificationDeliveries
  <2>3. /\ deliveries' \in [NoticeIds \X Channels -> {"none", "sent", "failed"}]
        /\ \A m \in NoticeIds, ch \in Channels : deliveries'[<<m, ch>>] \in {"none", deliveries[<<m, ch>>]}
    BY <1>1, <2>1
  <2>4. \A m \in NoticeIds, ch \in Channels :
          deliveries'[<<m, ch>>] # "none" => channels[ch] # NoChannel /\ attempts[<<m, ch>>] > 0
    <3> SUFFICES ASSUME NEW m \in NoticeIds, NEW ch \in Channels, deliveries'[<<m, ch>>] # "none"
                 PROVE  channels[ch] # NoChannel /\ attempts[<<m, ch>>] > 0
      OBVIOUS
    <3>1. deliveries[<<m, ch>>] # "none"
      BY <2>3
    <3> QED
      BY <3>1 DEF NoticeInv, NotificationsTypeOK
  <2>5. NotificationsTypeOK'
    BY <2>2, <2>3, <2>4 DEF NoticeInv, NotificationsTypeOK, channelVars, incidentVars
  <2> QED
    BY <1>1, <2>2, <2>5 DEF NoticeInv, NotYetTold, CallOf, NoticeOf, channelVars, incidentVars
<1>3. CASE NoticeServerStops
  <2> DEFINE r == [NoNotice EXCEPT !.at = "lost"]
  <2>1. /\ gauge' = 0 /\ resolver' = [t \in Resolvers |-> Unset]
        /\ acking' = [t \in Resolvers |-> Unset]
        /\ channelCall' = [c \in ChannelCalls |-> NoChannelCall]
        /\ notice' = [n \in NoticeIds |-> IF notice[n].at \in {"none", "done"} THEN notice[n] ELSE r]
        /\ UNCHANGED <<noticeScope, channels, incident, attempts, deliveries>>
    BY <1>3 DEF NoticeServerStops
  <2>2. r \in NoticeRecord /\ r.at = "lost" /\ r.todo = {}
    BY DEF NoNotice, NoticeRecord, NoCopy
  <2> HIDE DEF r
  <2>3. notice' \in [NoticeIds -> NoticeRecord] /\ channelCall' \in [ChannelCalls -> CallRecord]
    BY <1>1, <2>1, <2>2, NothingFacts
  <2>4. NotificationsTypeOK'
    BY <2>1, <2>3 DEF NoticeInv, NotificationsTypeOK, CallRecord, NoticeRecord
  <2>5. \A c \in ChannelCalls : CallOf(c)'
    BY <2>1, NothingFacts DEF CallOf
  <2>6. ASSUME NEW n \in NoticeIds
        PROVE  NoticeOf(n)'
    <3>1. CASE notice'[n] = notice[n]
      BY <2>1, <3>1 DEF NoticeInv, NoticeOf
    <3>2. CASE notice'[n] = r
      BY <2>1, <2>2, <3>2 DEF NoticeInv, NoticeOf
    <3> QED
      BY <2>1, <3>1, <3>2
  <2>7. NotYetTold'
    <3>1. \A i \in Incidents : notice[<<i, Opening>>] = NoNotice => notice'[<<i, Opening>>] = NoNotice
      BY <2>1, NothingFacts, IncidentIds
    <3> QED
      BY <1>1, <2>1, <3>1 DEF NotYetTold
  <2> QED
    BY <2>1, <2>4, <2>5, <2>6, <2>7 DEF NoticeInv
<1> QED
  BY <1>2, <1>3

LEMMA NoticeInvStep ==
  ASSUME NoticeInv, [NotificationsNext]_noticeVars
  PROVE  UNCHANGED noticeScope /\ NoticeInv'
<1>1. CASE UNCHANGED noticeVars
  BY <1>1 DEF noticeVars, NoticeInv, NotificationsTypeOK, CallOf, NoticeOf, NotYetTold
<1>2. ASSUME UNCHANGED <<incidentVars, notice>>
      PROVE  NotYetTold'
  BY <1>2 DEF NoticeInv, NotYetTold, incidentVars
<1>3. CASE ChannelStep
  BY <1>2, <1>3, ChannelStepKeeps DEF NoticeInv, NoticeOf
<1>4. CASE IncidentStep
  BY <1>4, IncidentStepKeeps
\* A notice that has been started does not count as one that has not.
<1>5. ASSUME NEW n \in NoticeIds, UNCHANGED incidentVars,
             notice[n] # NoNotice \/ n = <<Unset, Test>>,
             \A m \in NoticeIds \ {n} : notice'[m] = notice[m]
      PROVE  NotYetTold'
  <2>1. \A t \in Resolvers : resolver[t] # Unset =>
          <<resolver[t], t>> \in NoticeIds \ {<<Unset, Test>>}
    BY IncidentIds DEF NoticeInv, NotificationsTypeOK
  <2>2. \A i \in Incidents : <<i, Opening>> \in NoticeIds \ {<<Unset, Test>>}
    BY IncidentIds
  <2> QED
    BY <1>5, <2>1, <2>2 DEF NoticeInv, NotYetTold, incidentVars
<1>6. ASSUME NEW n \in NoticeIds, NoticeStep(n) \/ SendSMTP(n) \/ ListFails(n)
      PROVE  UNCHANGED noticeScope /\ NoticeInv'
  BY <1>5, <1>6, NoticeStepKeeps DEF NoticeInv
<1>7. ASSUME NEW ch \in Channels, TestChannel(ch)
      PROVE  UNCHANGED noticeScope /\ NoticeInv'
  <2> DEFINE n == <<Unset, Test>>
             chs == {ch}
  <2>1. n \in NoticeIds /\ chs \in SUBSET {d \in Channels : channels[d] # NoChannel}
    BY <1>7 DEF NoticeIds, TestChannel
  <2>2. /\ notice[n] = NoNotice /\ notice' = [notice EXCEPT ![n] = Listing(chs)]
        /\ UNCHANGED <<noticeScope, channelVars, incidentVars, attempts, deliveries>>
    BY <1>7 DEF TestChannel
  <2>3. notice[n].at \in {"none", "spawned"}
    BY <2>2, NothingFacts
  <2>4. \A m \in NoticeIds \ {n} : notice'[m] = notice[m]
    BY <2>2, TypeFacts DEF NoticeInv
  <2>5. NotYetTold'
    BY <1>5, <2>1, <2>2, <2>4
  <2> HIDE DEF n, chs
  <2>6. /\ NotificationsTypeOK' /\ \A c \in ChannelCalls : CallOf(c)'
        /\ \A m \in NoticeIds : NoticeOf(m)'
    BY <2>1, <2>2, <2>3, ListType
  <2> QED
    BY <2>2, <2>5, <2>6 DEF NoticeInv
<1>8. CASE CleanupNotificationDeliveries \/ NoticeServerStops
  BY <1>8, StopKeeps
<1> QED
  BY <1>1, <1>3, <1>4, <1>6, <1>7, <1>8 DEF NotificationsNext

LEMMA NoticeInvHolds == NotificationsSpec => []NoticeInv
<1>1. NotificationsInit => NoticeInv
  <2> SUFFICES ASSUME NotificationsInit PROVE NoticeInv
    OBVIOUS
  <2>1. NotificationsTypeOK
    BY NothingFacts DEF NotificationsInit, NotificationsTypeOK, CallRecord, NoticeRecord,
       IncidentStatuses
  <2>2. /\ \A c \in ChannelCalls : CallOf(c)
        /\ \A n \in NoticeIds : NoticeOf(n)
        /\ NotYetTold
    BY NothingFacts, IncidentIds DEF NotificationsInit, CallOf, NoticeOf, NotYetTold
  <2> QED
    BY <2>1, <2>2 DEF NoticeInv
<1> QED
  BY <1>1, NoticeInvStep, PTL DEF NotificationsSpec

\* Every table, request and notice is well formed, and a delivery is recorded of
\* a channel that is there and was tried.
THEOREM NotificationsTypeCorrect == NotificationsSpec => []NotificationsTypeOK
BY NoticeInvHolds, PTL DEF NoticeInv

\* No event is tried twice on a channel: not by two notices of it, nor after a
\* failure, a change of the channel or a restart.
THEOREM NoSecondAttempt == NotificationsSpec => []TriedOnce
<1>1. NoticeInv => TriedOnce
  <2> SUFFICES ASSUME NoticeInv, NEW n \in NoticeIds, NEW ch \in Channels
               PROVE  attempts[<<n, ch>>] <= 1
    BY DEF TriedOnce
  <2> QED
    BY DEF NoticeInv, NoticeOf
<1> QED
  BY <1>1, NoticeInvHolds, PTL

-----------------------------------------------------------------------------
(* The gauge, and the notices of a resolution.                             *)

\* t has started a notice of the resolution of i.
Told(i, t) == notice[<<i, t>>] # NoNotice

\* A call is on one incident that was opened, and is late once that is resolved;
\* where no late call has written, one thread at most has told of the resolution.
HistoryInv ==
  /\ drift \in Int
  /\ GaugeAgrees
  /\ \A t \in Resolvers : resolver[t] = Unset \/ acking[t] = Unset
  /\ \A t \in Resolvers, i \in Incidents : CallsOn(t, i) => incident[i] # "none"
  /\ \A t \in Resolvers, i \in Incidents :
       CallsOn(t, i) /\ incident[i] = "resolved" => t \in late
  /\ \A i \in Incidents \ overwritten :
       /\ \A t, u \in Resolvers : Told(i, t) /\ Told(i, u) => t = u
       /\ \A t \in Resolvers : Told(i, t) => incident[i] \in {"resolved", "gone"}

\* What a step does to the history.
HistoryStep ==
  /\ late' = {t \in Resolvers :
       \E i \in Incidents :
         /\ CallsOn(t, i) /\ CallsOn(t, i)'
         /\ t \in late \/ (incident[i] # "resolved" /\ incident'[i] = "resolved")}
  /\ overwritten' = overwritten \cup {i \in Incidents : \E t \in Resolvers : Overwrites(t, i)}
  /\ drift' = IF NoticeServerStops THEN 0 - Cardinality(Unresolved')
              ELSE drift + Cardinality(Abandoned)
                   - IF \E t \in Resolvers, i \in Incidents : Overwrites(t, i) THEN 1 ELSE 0

\* The history constrains nothing.
LEMMA HistoryRefines == NoticeHistorySpec => NotificationsSpec
<1>1. NoticeHistoryInit => NotificationsInit
  BY DEF NoticeHistoryInit
<1>2. [NoticeHistoryNext]_noticeHistoryVars => [NotificationsNext]_noticeVars
  BY DEF NoticeHistoryNext, noticeHistoryVars
<1> QED
  BY <1>1, <1>2, PTL DEF NoticeHistorySpec, NotificationsSpec

\* The unresolved incidents are finitely many, and so are those of them that go.
LEMMA UnresolvedFinite ==
  /\ IsFiniteSet(Unresolved) /\ Cardinality(Unresolved) \in Nat
  /\ IsFiniteSet(Abandoned) /\ Cardinality(Abandoned) \in Nat
<1>1. IsFiniteSet(Unresolved) /\ IsFiniteSet(Abandoned)
  BY NotificationsAssumption, FS_Subset DEF Unresolved, Abandoned
<1> QED
  BY <1>1, FS_CardinalityType

\* Only a call that writes overwrites a resolution.
LEMMA NoOverwrite ==
  ASSUME NoticeInv, HistoryInv, UNCHANGED <<incident, gauge>> \/ UNCHANGED <<resolver, acking>>,
         NEW t \in Resolvers, NEW i \in Incidents
  PROVE  ~Overwrites(t, i)
<1> SUFFICES ASSUME Overwrites(t, i)
             PROVE  FALSE
  OBVIOUS
<1>1. /\ incident \in [Incidents -> IncidentStatuses] /\ gauge \in Int
      /\ resolver \in [Resolvers -> Incidents \cup {Unset}]
      /\ acking \in [Resolvers -> Incidents \cup {Unset}]
  BY TypeFacts DEF NoticeInv, NotificationsTypeOK
<1>2. CASE ResolveIncident(t)
  BY <1>1, <1>2 DEF ResolveIncident
<1>3. CASE AcknowledgeIncident(t)
  <2>1. /\ acking[t] # Unset /\ acking' = [acking EXCEPT ![t] = Unset]
        /\ incident' = [incident EXCEPT ![acking[t]] = "acknowledged"]
    BY <1>3 DEF AcknowledgeIncident
  <2>2. acking[t] = i /\ incident[i] = "resolved"
    BY <2>1, NotificationsAssumption DEF Overwrites, CallsOn, HistoryInv
  <2> QED
    BY <1>1, <2>1, <2>2
<1> QED
  BY <1>2, <1>3 DEF Overwrites

\* A step that leaves the incidents as they are, resolves nothing and tells nothing.
LEMMA HistoryKept ==
  ASSUME NoticeInv, HistoryInv, HistoryStep, UNCHANGED <<incident, gauge>>, ~NoticeServerStops,
         \A t \in Resolvers : resolver'[t] = Unset \/ acking'[t] = Unset,
         \A t \in Resolvers, i \in Incidents :
           CallsOn(t, i)' => CallsOn(t, i) \/ i \in Unresolved,
         \A t \in Resolvers, i \in Incidents : Told(i, t)' => Told(i, t)
  PROVE  HistoryInv'
<1>1. Unresolved' = Unresolved /\ Abandoned = {} /\ Cardinality({}) = 0
  BY FS_EmptySet DEF Unresolved, Abandoned
<1>2. overwritten' = overwritten /\ drift' = drift
  BY <1>1, NoOverwrite DEF HistoryStep, HistoryInv
<1>3. GaugeAgrees'
  BY <1>1, <1>2 DEF HistoryInv, GaugeAgrees
<1>4. ASSUME NEW t \in Resolvers, NEW i \in Incidents, CallsOn(t, i)'
      PROVE  incident[i] # "none" /\ (incident[i] = "resolved" => t \in late')
  <2>1. CASE CallsOn(t, i)
    BY <1>4, <2>1 DEF HistoryInv, HistoryStep
  <2>2. CASE i \in Unresolved
    BY <2>2 DEF Unresolved
  <2> QED
    BY <1>4, <2>1, <2>2
<1> QED
  BY <1>2, <1>3, <1>4 DEF HistoryInv

\* The steps on incidents, one by one.
LEMMA OpenHistory ==
  ASSUME NoticeInv, HistoryInv, HistoryStep, NEW i \in Incidents, OpenIncident(i)
  PROVE  HistoryInv'
<1>1. /\ notice \in [NoticeIds -> NoticeRecord] /\ incident \in [Incidents -> IncidentStatuses]
      /\ gauge \in Int
  BY TypeFacts DEF NoticeInv, NotificationsTypeOK
<1>2. /\ incident[i] = "none" /\ incident' = [incident EXCEPT ![i] = "open"] /\ gauge' = gauge + 1
      /\ notice' = [notice EXCEPT ![<<i, Opening>>] = Spawned]
      /\ UNCHANGED <<resolver, acking>>
  BY DEF OpenIncident
<1>3. Unresolved' = Unresolved \cup {i} /\ i \notin Unresolved /\ Abandoned = {}
  BY <1>1, <1>2 DEF Unresolved, Abandoned
<1>4. ~NoticeServerStops
  BY <1>1, <1>2 DEF NoticeServerStops
<1>5. overwritten' = overwritten /\ drift' = drift
  BY <1>2, <1>3, <1>4, NoOverwrite, FS_EmptySet DEF HistoryStep, HistoryInv
<1>6. GaugeAgrees'
  <2>1. Cardinality(Unresolved') = Cardinality(Unresolved) + 1
    BY <1>3, UnresolvedFinite, FS_AddElement
  <2> QED
    BY <1>2, <1>5, <2>1, UnresolvedFinite DEF HistoryInv, GaugeAgrees
<1>7. \A j \in Incidents, t \in Resolvers : Told(j, t)' = Told(j, t)
  BY <1>1, <1>2, IncidentIds DEF Told
<1>8. ASSUME NEW t \in Resolvers, NEW j \in Incidents, CallsOn(t, j)'
      PROVE  incident'[j] # "none" /\ (incident'[j] = "resolved" => t \in late')
  <2>1. CallsOn(t, j) /\ j # i
    BY <1>2, <1>8 DEF CallsOn, HistoryInv
  <2> QED
    BY <1>1, <1>2, <1>8, <2>1 DEF HistoryInv, HistoryStep
<1>9. \A j \in Incidents \ overwritten, t \in Resolvers :
        Told(j, t) => incident'[j] \in {"resolved", "gone"}
  BY <1>1, <1>2 DEF HistoryInv
<1> QED
  BY <1>2, <1>5, <1>6, <1>7, <1>8, <1>9 DEF HistoryInv

LEMMA DeleteHistory ==
  ASSUME NoticeInv, HistoryInv, HistoryStep, ~NoticeServerStops,
         NEW gone \in SUBSET Incidents, DeleteMonitor(gone)
  PROVE  HistoryInv'
<1>1. incident \in [Incidents -> IncidentStatuses] /\ gauge \in Int
  BY TypeFacts DEF NoticeInv, NotificationsTypeOK
<1>2. /\ \A i \in gone : incident[i] # "none"
      /\ incident' = [i \in Incidents |-> IF i \in gone THEN "gone" ELSE incident[i]]
      /\ UNCHANGED <<gauge, resolver, acking, notice>>
  BY DEF DeleteMonitor, sendVars
<1>3. /\ Unresolved' = Unresolved \ Abandoned /\ Abandoned \subseteq Unresolved
  BY <1>1, <1>2 DEF Unresolved, Abandoned
<1>4. Cardinality(Unresolved') = Cardinality(Unresolved) - Cardinality(Abandoned)
  <2>1. Unresolved' \cap Abandoned = {} /\ Unresolved' \cup Abandoned = Unresolved
    BY <1>3
  <2>2. IsFiniteSet(Unresolved')
    BY <1>3, UnresolvedFinite, FS_Subset
  <2>3. Cardinality(Unresolved' \cup Abandoned)
          = Cardinality(Unresolved') + Cardinality(Abandoned) - Cardinality({})
    BY <2>1, <2>2, UnresolvedFinite, FS_Union
  <2>4. Cardinality(Unresolved') \in Nat /\ Cardinality({}) = 0
    BY <2>2, FS_CardinalityType, FS_EmptySet
  <2>5. Cardinality(Unresolved) = Cardinality(Unresolved') + Cardinality(Abandoned) - 0
    BY <2>1, <2>3, <2>4
  <2> QED
    BY <2>4, <2>5, UnresolvedFinite
<1>5. overwritten' = overwritten /\ drift' = drift + Cardinality(Abandoned)
  BY <1>2, NoOverwrite, UnresolvedFinite DEF HistoryStep, HistoryInv
<1>6. GaugeAgrees' /\ drift' \in Int
  BY <1>2, <1>4, <1>5, UnresolvedFinite DEF HistoryInv, GaugeAgrees
<1>7. ASSUME NEW t \in Resolvers, NEW i \in Incidents, CallsOn(t, i)'
      PROVE  incident'[i] # "none" /\ (incident'[i] = "resolved" => t \in late')
  <2>1. CallsOn(t, i)
    BY <1>2, <1>7 DEF CallsOn
  <2> QED
    BY <1>2, <1>7, <2>1 DEF HistoryInv, HistoryStep
<1>8. \A i \in Incidents \ overwritten, t \in Resolvers :
        Told(i, t) => incident'[i] \in {"resolved", "gone"}
  BY <1>2 DEF HistoryInv
<1> QED
  BY <1>2, <1>5, <1>6, <1>7, <1>8 DEF HistoryInv, Told

\* A call of t writes on i: no other overwrites, and it does if i was resolved.
LEMMA WriterOverwrites ==
  ASSUME NoticeInv, HistoryInv, NEW t \in Resolvers, NEW i \in Incidents,
         \/ resolver[t] = i /\ ResolveIncident(t)
         \/ acking[t] = i /\ AcknowledgeIncident(t)
  PROVE  /\ incident[i] = "resolved" => Overwrites(t, i)
         /\ \A u \in Resolvers, j \in Incidents :
              Overwrites(u, j) => j = i /\ incident[i] = "resolved"
<1>1. /\ incident \in [Incidents -> IncidentStatuses] /\ gauge \in Int
      /\ resolver \in [Resolvers -> Incidents \cup {Unset}]
      /\ acking \in [Resolvers -> Incidents \cup {Unset}]
  BY TypeFacts DEF NoticeInv, NotificationsTypeOK
<1>2. incident[i] = "resolved" => Overwrites(t, i)
  BY DEF Overwrites, CallsOn, HistoryInv
<1>3. ASSUME NEW u \in Resolvers, NEW j \in Incidents, Overwrites(u, j)
      PROVE  j = i /\ incident[i] = "resolved"
  <2>1. u = t
    <3>1. CASE ResolveIncident(t)
      <4>1. /\ resolver' = [resolver EXCEPT ![t] = Unset] /\ acking' = acking
            /\ gauge' = gauge - 1
        BY <3>1 DEF ResolveIncident
      <4>2. ResolveIncident(u)
        BY <1>1, <1>3, <4>1 DEF Overwrites, AcknowledgeIncident
      <4>3. resolver[u] # Unset /\ resolver' = [resolver EXCEPT ![u] = Unset]
        BY <4>2 DEF ResolveIncident
      <4> QED
        BY <1>1, <4>1, <4>3
    <3>2. CASE AcknowledgeIncident(t)
      <4>1. /\ acking' = [acking EXCEPT ![t] = Unset] /\ UNCHANGED <<resolver, gauge>>
        BY <3>2 DEF AcknowledgeIncident
      <4>2. AcknowledgeIncident(u)
        BY <1>1, <1>3, <4>1 DEF Overwrites, ResolveIncident
      <4>3. acking[u] # Unset /\ acking' = [acking EXCEPT ![u] = Unset]
        BY <4>2 DEF AcknowledgeIncident
      <4> QED
        BY <1>1, <4>1, <4>3
    <3> QED
      BY <3>1, <3>2
  <2>2. i # Unset /\ j # Unset
    BY NotificationsAssumption
  <2>3. CallsOn(t, j) /\ incident[j] = "resolved"
    BY <1>3, <2>1 DEF Overwrites
  <2> QED
    BY <2>2, <2>3 DEF CallsOn, HistoryInv
<1> QED
  BY <1>2, <1>3

LEMMA ResolveHistory ==
  ASSUME NoticeInv, HistoryInv, HistoryStep, ~NoticeServerStops,
         NEW t \in Resolvers, ResolveIncident(t)
  PROVE  HistoryInv'
<1> DEFINE i == resolver[t]
<1>1. /\ notice \in [NoticeIds -> NoticeRecord] /\ incident \in [Incidents -> IncidentStatuses]
      /\ gauge \in Int
      /\ resolver \in [Resolvers -> Incidents \cup {Unset}]
      /\ acking \in [Resolvers -> Incidents \cup {Unset}]
  BY TypeFacts DEF NoticeInv, NotificationsTypeOK
<1>2. /\ i # Unset /\ incident[i] # "gone"
      /\ incident' = [incident EXCEPT ![i] = "resolved"] /\ gauge' = gauge - 1
      /\ resolver' = [resolver EXCEPT ![t] = Unset] /\ acking' = acking
      /\ notice' \in {notice, [notice EXCEPT ![<<i, t>>] = Spawned]}
  BY DEF ResolveIncident
<1>3. i \in Incidents /\ <<i, t>> \in NoticeIds
  BY <1>1, <1>2, IncidentIds
<1>4. /\ incident[i] = "resolved" => Overwrites(t, i)
      /\ \A u \in Resolvers, j \in Incidents :
           Overwrites(u, j) => j = i /\ incident[i] = "resolved"
  BY <1>3, WriterOverwrites
<1>5. incident[i] = "resolved" \/ i \in Unresolved
  BY <1>1, <1>2, <1>3 DEF HistoryInv, CallsOn, Unresolved, IncidentStatuses
<1> HIDE DEF i
<1>6. Unresolved' = Unresolved \ {i} /\ Abandoned = {}
  BY <1>1, <1>2, <1>3 DEF Unresolved, Abandoned
<1>7. GaugeAgrees' /\ drift' \in Int
  <2>1. CASE incident[i] = "resolved"
    <3>1. Unresolved' = Unresolved
      BY <1>6, <2>1 DEF Unresolved
    <3>2. drift' = drift + 0 - 1
      BY <1>3, <1>4, <1>6, <2>1, FS_EmptySet DEF HistoryStep
    <3> QED
      BY <1>2, <3>1, <3>2, UnresolvedFinite DEF HistoryInv, GaugeAgrees
  <2>2. CASE i \in Unresolved
    <3>1. incident[i] # "resolved"
      BY <2>2 DEF Unresolved
    <3>2. drift' = drift + 0 - 0
      BY <1>4, <1>6, <3>1, FS_EmptySet DEF HistoryStep
    <3>3. Cardinality(Unresolved') = Cardinality(Unresolved) - 1
      BY <1>6, <2>2, UnresolvedFinite, FS_RemoveElement
    <3> QED
      BY <1>2, <3>2, <3>3, UnresolvedFinite DEF HistoryInv, GaugeAgrees
  <2> QED
    BY <1>5, <2>1, <2>2
<1>8. \A u \in Resolvers, j \in Incidents : CallsOn(u, j)' => CallsOn(u, j)
  BY <1>1, <1>2, NotificationsAssumption DEF CallsOn
<1>9. ASSUME NEW u \in Resolvers, NEW j \in Incidents, CallsOn(u, j)'
      PROVE  incident'[j] # "none" /\ (incident'[j] = "resolved" => u \in late')
  <2>1. CallsOn(u, j)
    BY <1>8, <1>9
  <2>2. incident'[j] # "none"
    BY <1>1, <1>2, <1>3, <2>1 DEF HistoryInv
  <2>3. CASE incident[j] = "resolved"
    BY <1>9, <2>1, <2>2, <2>3 DEF HistoryInv, HistoryStep
  <2>4. CASE incident[j] # "resolved"
    BY <1>9, <2>1, <2>2, <2>4 DEF HistoryStep
  <2> QED
    BY <2>3, <2>4
<1>10. \A u \in Resolvers : resolver'[u] = Unset \/ acking'[u] = Unset
  BY <1>1, <1>2 DEF HistoryInv
<1>11. \A j \in Incidents, u \in Resolvers : <<j, u>> # <<i, t>> => Told(j, u)' = Told(j, u)
  BY <1>1, <1>2, <1>3, IncidentIds DEF Told
<1>12. ASSUME NEW j \in Incidents \ overwritten'
       PROVE  /\ \A u, v \in Resolvers : Told(j, u)' /\ Told(j, v)' => u = v
              /\ \A u \in Resolvers : Told(j, u)' => incident'[j] \in {"resolved", "gone"}
  <2>1. j \notin overwritten
    BY DEF HistoryStep
  <2>2. CASE j # i
    BY <1>1, <1>2, <1>11, <2>1, <2>2 DEF HistoryInv
  <2>3. CASE j = i
    <3>1. i \in Unresolved
      BY <1>3, <1>4, <1>5, <2>3 DEF HistoryStep
    <3>2. \A u \in Resolvers : ~Told(i, u)
      BY <2>1, <2>3, <3>1 DEF HistoryInv, Unresolved
    <3>3. incident'[i] = "resolved"
      BY <1>1, <1>2, <1>3
    <3> QED
      BY <1>11, <2>3, <3>2, <3>3
  <2> QED
    BY <2>2, <2>3
<1> QED
  BY <1>7, <1>9, <1>10, <1>12 DEF HistoryInv

LEMMA AcknowledgeHistory ==
  ASSUME NoticeInv, HistoryInv, HistoryStep, ~NoticeServerStops,
         NEW t \in Resolvers, AcknowledgeIncident(t)
  PROVE  HistoryInv'
<1> DEFINE i == acking[t]
<1>1. /\ incident \in [Incidents -> IncidentStatuses] /\ gauge \in Int
      /\ resolver \in [Resolvers -> Incidents \cup {Unset}]
      /\ acking \in [Resolvers -> Incidents \cup {Unset}]
  BY TypeFacts DEF NoticeInv, NotificationsTypeOK
<1>2. /\ i # Unset /\ incident[i] # "gone"
      /\ incident' = [incident EXCEPT ![i] = "acknowledged"]
      /\ acking' = [acking EXCEPT ![t] = Unset]
      /\ UNCHANGED <<gauge, resolver, notice>>
  BY DEF AcknowledgeIncident, sendVars
<1>3. i \in Incidents
  BY <1>1, <1>2
<1>4. /\ incident[i] = "resolved" => Overwrites(t, i)
      /\ \A u \in Resolvers, j \in Incidents :
           Overwrites(u, j) => j = i /\ incident[i] = "resolved"
  BY <1>3, WriterOverwrites
<1>5. incident[i] = "resolved" \/ i \in Unresolved
  BY <1>1, <1>2, <1>3 DEF HistoryInv, CallsOn, Unresolved, IncidentStatuses
<1> HIDE DEF i
<1>6. Unresolved' = Unresolved \cup {i} /\ Abandoned = {}
  BY <1>1, <1>2, <1>3 DEF Unresolved, Abandoned
<1>7. GaugeAgrees' /\ drift' \in Int
  <2>1. CASE incident[i] = "resolved"
    <3>1. i \notin Unresolved
      BY <2>1 DEF Unresolved
    <3>2. Cardinality(Unresolved') = Cardinality(Unresolved) + 1
      BY <1>6, <3>1, UnresolvedFinite, FS_AddElement
    <3>3. drift' = drift + 0 - 1
      BY <1>3, <1>4, <1>6, <2>1, FS_EmptySet DEF HistoryStep
    <3> QED
      BY <1>2, <3>2, <3>3, UnresolvedFinite DEF HistoryInv, GaugeAgrees
  <2>2. CASE i \in Unresolved
    <3>1. incident[i] # "resolved" /\ Unresolved' = Unresolved
      BY <1>6, <2>2 DEF Unresolved
    <3>2. drift' = drift + 0 - 0
      BY <1>4, <1>6, <3>1, FS_EmptySet DEF HistoryStep
    <3> QED
      BY <1>2, <3>1, <3>2, UnresolvedFinite DEF HistoryInv, GaugeAgrees
  <2> QED
    BY <1>5, <2>1, <2>2
<1>8. \A u \in Resolvers, j \in Incidents : CallsOn(u, j)' => CallsOn(u, j)
  BY <1>1, <1>2, NotificationsAssumption DEF CallsOn
<1>9. ASSUME NEW u \in Resolvers, NEW j \in Incidents, CallsOn(u, j)'
      PROVE  incident'[j] # "none" /\ (incident'[j] = "resolved" => u \in late')
  <2>1. CallsOn(u, j)
    BY <1>8, <1>9
  <2>2. incident'[j] # "none" /\ (incident'[j] = "resolved" => incident[j] = "resolved")
    BY <1>1, <1>2, <1>3, <2>1 DEF HistoryInv
  <2> QED
    BY <1>9, <2>1, <2>2 DEF HistoryInv, HistoryStep
<1>10. \A u \in Resolvers : resolver'[u] = Unset \/ acking'[u] = Unset
  BY <1>1, <1>2 DEF HistoryInv
<1>11. ASSUME NEW j \in Incidents \ overwritten'
       PROVE  /\ \A u, v \in Resolvers : Told(j, u) /\ Told(j, v) => u = v
              /\ \A u \in Resolvers : Told(j, u) => incident'[j] \in {"resolved", "gone"}
  <2>1. j \notin overwritten
    BY DEF HistoryStep
  <2>2. CASE j # i
    BY <1>1, <1>2, <2>1, <2>2 DEF HistoryInv
  <2>3. CASE j = i
    <3>1. i \in Unresolved
      BY <1>3, <1>4, <1>5, <2>3 DEF HistoryStep
    <3> QED
      BY <2>1, <2>3, <3>1 DEF HistoryInv, Unresolved
  <2> QED
    BY <2>2, <2>3
<1> QED
  BY <1>2, <1>7, <1>9, <1>10, <1>11 DEF HistoryInv, Told

\* A restart: the gauge is zero, no call is left, and no notice is new.
LEMMA StopHistory ==
  ASSUME NoticeInv, HistoryInv, HistoryStep, NoticeServerStops
  PROVE  HistoryInv'
<1>1. /\ gauge' = 0 /\ incident' = incident
      /\ resolver' = [t \in Resolvers |-> Unset] /\ acking' = [t \in Resolvers |-> Unset]
      /\ notice' = [n \in NoticeIds |->
                      IF notice[n].at \in {"none", "done"} THEN notice[n]
                      ELSE [NoNotice EXCEPT !.at = "lost"]]
  BY DEF NoticeServerStops
<1>2. Unresolved' = Unresolved /\ drift' = 0 - Cardinality(Unresolved)
  BY <1>1 DEF Unresolved, HistoryStep
<1>3. GaugeAgrees' /\ drift' \in Int
  BY <1>1, <1>2, UnresolvedFinite DEF GaugeAgrees
<1>4. \A t \in Resolvers, i \in Incidents : ~CallsOn(t, i)'
  BY <1>1, NotificationsAssumption DEF CallsOn
<1>5. \A t \in Resolvers, i \in Incidents : Told(i, t)' => Told(i, t)
  BY <1>1, IncidentIds, NothingFacts DEF Told
<1>6. \A i \in Incidents : i \notin overwritten' => i \notin overwritten
  BY DEF HistoryStep
<1> QED
  BY <1>1, <1>3, <1>4, <1>5, <1>6 DEF HistoryInv

LEMMA IncidentHistory ==
  ASSUME NoticeInv, HistoryInv, HistoryStep, ~NoticeServerStops, IncidentStep
  PROVE  HistoryInv'
<1>1. /\ resolver \in [Resolvers -> Incidents \cup {Unset}]
      /\ acking \in [Resolvers -> Incidents \cup {Unset}]
  BY DEF NoticeInv, NotificationsTypeOK
<1>2. ASSUME NEW t \in Resolvers, NEW i \in Incidents, ReadUnresolved(t, i) \/ ReadOpen(t, i)
      PROVE  HistoryInv'
  <2>1. /\ resolver[t] = Unset /\ acking[t] = Unset /\ i \in Unresolved
        /\ UNCHANGED <<incident, gauge, notice>>
        /\ \/ resolver' = [resolver EXCEPT ![t] = i] /\ acking' = acking
           \/ acking' = [acking EXCEPT ![t] = i] /\ resolver' = resolver
    BY <1>2 DEF ReadUnresolved, ReadOpen, IdleThread, Unresolved, sendVars
  <2>2. \A u \in Resolvers : resolver'[u] = Unset \/ acking'[u] = Unset
    BY <1>1, <2>1 DEF HistoryInv
  <2>3. \A u \in Resolvers, j \in Incidents : CallsOn(u, j)' => CallsOn(u, j) \/ j \in Unresolved
    BY <1>1, <2>1 DEF CallsOn
  <2> QED
    BY <2>1, <2>2, <2>3, HistoryKept DEF Told
<1>3. ASSUME NEW t \in Resolvers, IncidentCallFails(t)
      PROVE  HistoryInv'
  <2>1. /\ resolver' = [resolver EXCEPT ![t] = Unset] /\ acking' = [acking EXCEPT ![t] = Unset]
        /\ UNCHANGED <<incident, gauge, notice>>
    BY <1>3 DEF IncidentCallFails, sendVars
  <2>2. \A u \in Resolvers : resolver'[u] = Unset \/ acking'[u] = Unset
    BY <1>1, <2>1 DEF HistoryInv
  <2>3. \A u \in Resolvers, j \in Incidents : CallsOn(u, j)' => CallsOn(u, j)
    BY <1>1, <2>1, NotificationsAssumption DEF CallsOn
  <2> QED
    BY <2>1, <2>2, <2>3, HistoryKept DEF Told
<1> QED
  BY <1>2, <1>3, OpenHistory, ResolveHistory, AcknowledgeHistory, DeleteHistory DEF IncidentStep

LEMMA HistoryHolds == NoticeHistorySpec => []HistoryInv
<1>1. NoticeHistoryInit => HistoryInv
  <2> SUFFICES ASSUME NoticeHistoryInit PROVE HistoryInv
    OBVIOUS
  <2>1. Unresolved = {} /\ Cardinality({}) = 0
    BY FS_EmptySet DEF NoticeHistoryInit, NotificationsInit, Unresolved
  <2>2. \A t \in Resolvers, i \in Incidents : ~CallsOn(t, i) /\ ~Told(i, t)
    BY IncidentIds, NotificationsAssumption
       DEF NoticeHistoryInit, NotificationsInit, CallsOn, Told
  <2> QED
    BY <2>1, <2>2 DEF NoticeHistoryInit, NotificationsInit, HistoryInv, GaugeAgrees
<1>2. NoticeInv /\ HistoryInv /\ [NoticeHistoryNext]_noticeHistoryVars => HistoryInv'
  <2> SUFFICES ASSUME NoticeInv, HistoryInv, [NoticeHistoryNext]_noticeHistoryVars
               PROVE  HistoryInv'
    OBVIOUS
  <2>1. CASE UNCHANGED noticeHistoryVars
    BY <2>1 DEF noticeHistoryVars, noticeVars, HistoryInv, GaugeAgrees, Unresolved, CallsOn, Told
  <2>2. CASE NoticeHistoryNext
    <3>1. NotificationsNext /\ HistoryStep
      BY <2>2 DEF NoticeHistoryNext, HistoryStep
    <3>2. CASE NoticeServerStops
      BY <3>1, <3>2, StopHistory
    <3> SUFFICES ASSUME ~NoticeServerStops PROVE HistoryInv'
      BY <3>2
    <3>3. \A i \in Incidents, t \in Resolvers : <<i, t>> \in NoticeIds \ {<<Unset, Test>>}
      BY IncidentIds
    \* A notice that has been started tells nothing new.
    <3>4. ASSUME UNCHANGED incidentVars, NEW n,
                 notice[n] # NoNotice \/ n = <<Unset, Test>>,
                 \A m \in NoticeIds \ {n} : notice'[m] = notice[m]
          PROVE  HistoryInv'
      <4>1. \A t \in Resolvers, i \in Incidents :
              (Told(i, t)' => Told(i, t)) /\ CallsOn(t, i)' = CallsOn(t, i)
        BY <3>3, <3>4 DEF Told, CallsOn, incidentVars
      <4>2. \A t \in Resolvers : resolver'[t] = Unset \/ acking'[t] = Unset
        BY <3>4 DEF HistoryInv, incidentVars
      <4> QED
        BY <3>1, <3>4, <4>1, <4>2, HistoryKept DEF incidentVars
    <3>5. CASE ChannelStep \/ CleanupNotificationDeliveries
      <4>1. UNCHANGED <<incidentVars, notice>>
        BY <3>5, ChannelStepKeeps DEF CleanupNotificationDeliveries
      <4> QED
        BY <3>4, <4>1
    <3>6. CASE IncidentStep
      BY <3>1, <3>6, IncidentHistory
    <3>7. ASSUME NEW n \in NoticeIds, NoticeStep(n) \/ SendSMTP(n) \/ ListFails(n)
          PROVE  HistoryInv'
      BY <3>4, <3>7, NoticeStepKeeps
    <3>8. ASSUME NEW ch \in Channels, TestChannel(ch)
          PROVE  HistoryInv'
      <4>1. UNCHANGED incidentVars /\ notice' = [notice EXCEPT ![<<Unset, Test>>] = Listing({ch})]
        BY <3>8 DEF TestChannel
      <4>2. \A m \in NoticeIds \ {<<Unset, Test>>} : notice'[m] = notice[m]
        BY <4>1, TypeFacts DEF NoticeInv
      <4> QED
        BY <3>4, <4>1, <4>2
    <3> QED
      BY <3>1, <3>5, <3>6, <3>7, <3>8 DEF NotificationsNext
  <2> QED
    BY <2>1, <2>2
<1>3. NoticeHistorySpec => []NoticeInv
  BY HistoryRefines, NoticeInvHolds
<1> QED
  BY <1>1, <1>2, <1>3, PTL DEF NoticeHistorySpec

\* The gauge is the number of unresolved incidents but for the restarts, the
\* deleted monitors and the overwritten resolutions that drift counts.
THEOREM GaugeDrifts == NoticeHistorySpec => []GaugeAgrees
BY HistoryHolds, PTL DEF HistoryInv

\* However calls overlap and goroutines are lost, an incident has a second notice
\* of its resolution, or is active after one, only where a late call has
\* overwritten the resolution.
THEOREM ToldOnce == NoticeHistorySpec => []ResolvedIsToldOnce
<1>1. HistoryInv => ResolvedIsToldOnce
  BY DEF HistoryInv, ResolvedIsToldOnce, Told
<1> QED
  BY <1>1, HistoryHolds, PTL

-----------------------------------------------------------------------------
(* What a request leaves of a channel.                                     *)

\* What the request of c has read is still so, and what it will write differs
\* from it only where its body says so.
PatchOf(c) ==
  LET r == channelCall[c]
      before == channels[r.channel]
  IN
  /\ r.at = "read" => r.copy = before
  /\ r.at = "merged" =>
       /\ r.body.type = "keep" => r.copy.type = before.type
       /\ r.body.enabled = "keep" => r.copy.enabled = before.enabled
       /\ r.body.secret = "keep" => r.copy.secret = before.secret
       /\ r.body.secret \in {"empty", "mask"} /\ before.type = "smtp" /\ r.copy.type = "smtp"
            => r.copy.secret = before.secret

\* Requests come one at a time.
LoneFacts ==
  /\ \A c, d \in ChannelCalls :
       channelCall[c] # NoChannelCall /\ channelCall[d] # NoChannelCall => c = d
  /\ \A c \in ChannelCalls : PatchOf(c)

PatchInv == NoticeInv /\ (noticeScope.lone => LoneFacts)

\* A request goes on, and the channels stay.
LEMMA LoneMoves ==
  ASSUME NoticeInv, LoneFacts, UNCHANGED channels, NEW c \in ChannelCalls, NEW r,
         channelCall' = [channelCall EXCEPT ![c] = r],
         \A d \in ChannelCalls \ {c} : channelCall[d] = NoChannelCall,
         PatchOf(c)'
  PROVE  LoneFacts'
<1>1. \A d \in ChannelCalls \ {c} : channelCall'[d] = channelCall[d]
  BY TypeFacts DEF NoticeInv
<1> QED
  BY <1>1, NothingFacts DEF LoneFacts, PatchOf

\* The steps of the requests.
LEMMA LoneStep ==
  ASSUME NoticeInv, LoneFacts, noticeScope.lone, ChannelStep
  PROVE  LoneFacts'
<1>1. /\ channels \in [Channels -> Channel \cup {NoChannel}]
      /\ channelCall \in [ChannelCalls -> CallRecord]
      /\ \A c \in ChannelCalls : CallOf(c)
  BY TypeFacts DEF NoticeInv
<1>2. ASSUME NEW c \in ChannelCalls, channelCall[c].at # "idle"
      PROVE  \A d \in ChannelCalls \ {c} : channelCall[d] = NoChannelCall
  BY <1>2, NothingFacts DEF LoneFacts
<1>3. ASSUME LoneRequest, UNCHANGED channelCall
      PROVE  LoneFacts'
  BY <1>3, NothingFacts DEF LoneRequest, LoneFacts, PatchOf
<1>4. CASE \E ch \in Channels : DeleteChannel(ch) \/ \E kind \in noticeScope.kinds : CreateChannel(ch, kind)
  BY <1>3, <1>4 DEF DeleteChannel, CreateChannel
<1>5. ASSUME NEW c \in ChannelCalls, NEW ch \in Channels, NEW body \in noticeScope.channelBodies,
             ReadChannel(c, ch, body)
      PROVE  LoneFacts'
  <2>1. /\ channelCall' = [channelCall EXCEPT ![c] = [at |-> "read", channel |-> ch,
                                                        copy |-> channels[ch], body |-> body]]
        /\ UNCHANGED channels /\ \A d \in ChannelCalls : channelCall[d] = NoChannelCall
    BY <1>5 DEF ReadChannel, LoneRequest
  <2>2. PatchOf(c)'
    BY <1>1, <2>1 DEF PatchOf
  <2> QED
    BY <2>1, <2>2, LoneMoves
<1>6. ASSUME NEW c \in ChannelCalls, MergeChannel(c)
      PROVE  LoneFacts'
  <2> DEFINE old == channelCall[c]
             before == channels[old.channel]
  <2>1. PICK r \in CallRecord :
           /\ channelCall' = [channelCall EXCEPT ![c] = r]
           /\ r.at = "merged" /\ r.channel = old.channel
           /\ r.copy.type = IF r.body.type = "keep" THEN old.copy.type ELSE r.body.type
           /\ r.copy.enabled = IF r.body.enabled = "keep" THEN old.copy.enabled
                               ELSE r.body.enabled = "yes"
           /\ r.copy.secret =
                MergeSMTPPassword(r.copy.type,
                                  IF r.body.secret = "keep" THEN old.copy.secret ELSE r.body.secret,
                                  before)
    BY <1>6, MergeFacts
  <2>2. old.at = "read" /\ UNCHANGED channels /\ old.copy = before
    BY <1>6 DEF MergeChannel, LoneFacts, PatchOf
  <2>3. /\ r.body.secret = "keep" => r.copy.secret = before.secret
        /\ r.body.secret \in {"empty", "mask"} /\ before.type = "smtp" /\ r.copy.type = "smtp"
             => r.copy.secret = before.secret
    BY <2>1, <2>2 DEF MergeSMTPPassword
  <2>4. channelCall'[c] = r /\ channels'[r.channel] = before
    BY <1>1, <2>1, <2>2
  <2>5. PatchOf(c)'
    BY <2>1, <2>2, <2>3, <2>4 DEF PatchOf
  <2> QED
    BY <1>2, <2>1, <2>2, <2>5, LoneMoves
<1>7. ASSUME NEW c \in ChannelCalls, UpdateChannel(c)
      PROVE  LoneFacts'
  <2>1. channelCall' = [channelCall EXCEPT ![c] = NoChannelCall] /\ channelCall[c].at = "merged"
    BY <1>7 DEF UpdateChannel
  <2>2. \A d \in ChannelCalls : channelCall'[d] = NoChannelCall
    BY <1>1, <1>2, <2>1
  <2> QED
    BY <2>2, NothingFacts DEF LoneFacts, PatchOf
<1>8. ASSUME NEW c \in ChannelCalls, ChannelCallEnds(c)
      PROVE  LoneFacts'
  <2>1. /\ channelCall' = [channelCall EXCEPT ![c] = NoChannelCall] /\ channelCall[c] # NoChannelCall
    BY <1>8 DEF ChannelCallEnds
  <2>2. \A d \in ChannelCalls : channelCall'[d] = NoChannelCall
    BY <1>1, <2>1 DEF LoneFacts
  <2> QED
    BY <2>2, NothingFacts DEF LoneFacts, PatchOf
<1> QED
  BY <1>4, <1>5, <1>6, <1>7, <1>8 DEF ChannelStep

LEMMA PatchHolds == NotificationsSpec => []PatchInv
<1>1. NotificationsInit /\ NoticeInv => PatchInv
  BY NothingFacts DEF NotificationsInit, PatchInv, LoneFacts, PatchOf
<1>2. NoticeInv' /\ PatchInv /\ [NotificationsNext]_noticeVars => PatchInv'
  <2> SUFFICES ASSUME PatchInv, [NotificationsNext]_noticeVars, noticeScope'.lone
               PROVE  LoneFacts'
    BY DEF PatchInv
  <2>1. NoticeInv /\ LoneFacts /\ noticeScope.lone
    BY NoticeInvStep DEF PatchInv
  <2>2. CASE UNCHANGED channelVars
    BY <2>1, <2>2 DEF channelVars, LoneFacts, PatchOf
  <2>3. CASE UNCHANGED noticeVars
    BY <2>2, <2>3 DEF noticeVars, channelVars
  <2>4. CASE ChannelStep
    BY <2>1, <2>4, LoneStep
  <2>5. CASE IncidentStep
    BY <2>2, <2>5 DEF IncidentStep, OpenIncident, ReadUnresolved, ResolveIncident,
      ReadOpen, AcknowledgeIncident, IncidentCallFails, DeleteMonitor
  <2>6. CASE \E n \in NoticeIds : NoticeStep(n) \/ SendSMTP(n) \/ ListFails(n)
    BY <2>1, <2>2, <2>6, NoticeStepKeeps
  <2>7. CASE \E ch \in Channels : TestChannel(ch)
    BY <2>2, <2>7 DEF TestChannel
  <2>8. CASE CleanupNotificationDeliveries
    BY <2>2, <2>8 DEF CleanupNotificationDeliveries
  <2>9. CASE NoticeServerStops
    BY <2>9, NothingFacts DEF NoticeServerStops, LoneFacts, PatchOf
  <2> QED
    BY <2>3, <2>4, <2>5, <2>6, <2>7, <2>8, <2>9 DEF NotificationsNext
<1> QED
  BY <1>1, <1>2, NoticeInvHolds, PTL DEF NotificationsSpec

\* Only UpdateChannel() changes a channel while a request is about to write.
LEMMA PatchWrites ==
  ASSUME PatchInv, NotificationsNext, noticeScope.lone, NEW c \in ChannelCalls,
         channelCall[c].at = "merged", channels' # channels
  PROVE  UpdateChannel(c)
<1>1. ~LoneRequest
  BY NothingFacts DEF LoneRequest
<1>2. ASSUME NEW d \in ChannelCalls, UpdateChannel(d)
      PROVE  d = c
  BY <1>2, NothingFacts DEF PatchInv, LoneFacts, UpdateChannel
<1>3. ChannelStep
  <2>1. ~IncidentStep
    BY DEF IncidentStep, OpenIncident, ReadUnresolved, ResolveIncident,
      ReadOpen, AcknowledgeIncident, IncidentCallFails, DeleteMonitor, channelVars
  <2>2. ~ \E n \in NoticeIds : NoticeStep(n) \/ SendSMTP(n) \/ ListFails(n)
    BY NoticeStepKeeps DEF channelVars, PatchInv
  <2> QED
    BY <2>1, <2>2 DEF NotificationsNext, TestChannel, CleanupNotificationDeliveries, NoticeServerStops,
                      channelVars
<1> QED
  BY <1>1, <1>2, <1>3 DEF ChannelStep, CreateChannel, ReadChannel, MergeChannel, ChannelCallEnds,
                          DeleteChannel

\* A PATCH of a channel changes what it names, and one with no password or with
\* the mask leaves a mail channel its stored password.
THEOREM PasswordKept == NotificationsSpec => PatchKeepsPassword
<1> DEFINE Kept(c) ==
      LET r == channelCall[c]
          before == channels[r.channel]
          after == channels'[r.channel]
      IN
      r.at = "merged" /\ channels' # channels =>
        /\ \A ch \in Channels \ {r.channel} : channels'[ch] = channels[ch]
        /\ r.body.type = "keep" => after.type = before.type
        /\ r.body.enabled = "keep" => after.enabled = before.enabled
        /\ r.body.secret = "keep" => after.secret = before.secret
        /\ r.body.secret \in {"empty", "mask"} /\ before.type = "smtp" /\ after.type = "smtp"
             => after.secret = before.secret
<1>1. PatchInv /\ [NotificationsNext]_noticeVars =>
        [noticeScope.lone => \A c \in ChannelCalls : Kept(c)]_noticeVars
  <2> SUFFICES ASSUME PatchInv, NotificationsNext, noticeScope.lone, NEW c \in ChannelCalls,
                      channelCall[c].at = "merged", channels' # channels
               PROVE  Kept(c)
    BY DEF noticeVars
  <2>1. /\ channels' = [channels EXCEPT ![channelCall[c].channel] = channelCall[c].copy]
    BY PatchWrites DEF UpdateChannel
  <2>2. /\ channels \in [Channels -> Channel \cup {NoChannel}]
        /\ channelCall[c].channel \in Channels
    BY TypeFacts DEF PatchInv, NoticeInv, CallOf
  <2>3. channels'[channelCall[c].channel] = channelCall[c].copy
    BY <2>1, <2>2
  <2> QED
    BY <2>1, <2>2, <2>3 DEF PatchInv, LoneFacts, PatchOf
<1> QED
  BY <1>1, PatchHolds, PTL DEF NotificationsSpec, PatchKeepsPassword
=============================================================================
