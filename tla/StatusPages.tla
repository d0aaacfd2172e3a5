---------------------------- MODULE StatusPages ----------------------------
(***************************************************************************)
(* Status pages: internal/service/status_page.go over the tables           *)
(* status_pages and status_page_monitors, and the public view of a page,   *)
(* which also reads the tables monitors and incidents.                     *)
(*                                                                         *)
(* Every request is a series of statements without a transaction.  One     *)
(* action per statement; the reads of one decision are taken together      *)
(* where no other step can tell, and any statement may fail, which ends    *)
(* the request.                                                            *)
(*                                                                         *)
(* Abstracted: a page has a slug and the flags public and show_incidents;  *)
(* a link has an order and a label, the monitor's own or a given one.      *)
(* The width of the order is a parameter, names and uptimes are left out,  *)
(* and the incidents do not change: the scope says what they are.          *)
(***************************************************************************)
EXTENDS Integers, FiniteSets, Sequences, SequencesExt

CONSTANTS
  Pages,                 \* ids of status_pages rows
  Slugs,                 \* slugs
  Monitors,              \* ids of monitors rows
  PageCalls,             \* requests in progress
  Views,                 \* public requests in progress
  MaxOrder,              \* the largest display_order: 2^31 - 1 in the code
  IncidentLimit,         \* incidents shown: 50 in the code
  PageScopes,            \* bounds: the operations, inputs and races of a behaviour
  Nothing                \* no page, no monitor

Statuses == {"up", "down", "degraded", "unknown", "paused"}
PageOperations == {"create", "update", "delete", "attach", "edit", "remove", "reorder",
                   "monitor", "view"}

\* A body names any of the fields; the others are "keep", or {} for an order.
PageBody == [slug : Slugs \cup {"keep"}, public : {"keep", "yes", "no"},
             incidents : {"keep", "yes", "no"}]
Orders == -(MaxOrder + 1)..MaxOrder
LinkBody == [order : {{}} \cup {{o} : o \in Orders}, label : {"keep", "own", "given"}]
Incident == [monitor : Monitors, open : BOOLEAN, recent : BOOLEAN]

ASSUME StatusPagesAssumption ==
  /\ MaxOrder \in Nat
  /\ IncidentLimit \in Nat
  /\ Nothing \notin Pages \cup Monitors
  /\ "none" \notin Slugs
  /\ PageScopes \subseteq
       [operations : SUBSET PageOperations, ids : SUBSET Pages, bodies : SUBSET PageBody,
        linkBodies : SUBSET LinkBody, lists : SUBSET Seq(Monitors), statuses : SUBSET Statuses,
        incidents : Seq(Incident), serial : BOOLEAN]

VARIABLES
  pageScope,             \* the bound this behaviour is under; never changes
  pages,                 \* the status_pages table
  links,                 \* the status_page_monitors rows of each page, oldest first
  status,                \* the monitors table: "gone" once deleted
  pageCall,              \* what each request has read
  view                   \* what each public request has read

pageVars == <<pageScope, pages, links, status, pageCall, view>>

Page == [slug : Slugs, public : BOOLEAN, incidents : BOOLEAN]
NoPage == [slug |-> "none", public |-> FALSE, incidents |-> FALSE]
Link == [monitor : Monitors, order : Orders, label : {"own", "given"}]

NoPageCall == [at |-> "idle", page |-> Nothing, monitor |-> Nothing, copy |-> Nothing,
               body |-> Nothing, list |-> <<>>, next |-> 0, before |-> <<>>]
NoView == [at |-> "idle", page |-> Nothing, incidents |-> FALSE, todo |-> <<>>, shown |-> <<>>,
           aggregate |-> "none", listed |-> <<>>]

Linked(p) == {links[p][i].monitor : i \in DOMAIN links[p]}
LinkOf(p, m) == CHOOSE i \in DOMAIN links[p] : links[p][i].monitor = m

\* Every record is well formed; slugs are unique; a monitor is on a page once,
\* and only while both are there.
StatusPagesTypeOK ==
  /\ pageScope \in PageScopes
  /\ pages \in [Pages -> Page \cup {NoPage}]
  /\ links \in [Pages -> Seq(Link)]
  /\ status \in [Monitors -> Statuses \cup {"gone"}]
  /\ \A c \in PageCalls :
       /\ pageCall[c].at \in {"idle", "update", "attach", "edit", "check", "write", "reordered",
                              "rejected"}
       /\ pageCall[c].page \in Pages \cup {Nothing}
       /\ pageCall[c].monitor \in Monitors \cup {Nothing}
       /\ pageCall[c].list \in Seq(Monitors)
       /\ pageCall[c].next \in 0..Len(pageCall[c].list) + 1
  /\ \A v \in Views :
       /\ view[v].at \in {"idle", "page", "links", "answered"}
       /\ view[v].shown \in Seq(Monitors \X Statuses)
  /\ \A p, q \in Pages : pages[p].slug = pages[q].slug /\ pages[p] # NoPage => p = q
  /\ \A p \in Pages :
       /\ Cardinality(Linked(p)) = Len(links[p])
       /\ pages[p] = NoPage => links[p] = <<>>
       /\ \A m \in Linked(p) : status[m] # "gone"

StatusPagesInit ==
  /\ pageScope \in PageScopes
  /\ pages = [p \in Pages |-> NoPage]
  /\ links = [p \in Pages |-> <<>>]
  /\ status = [m \in Monitors |-> "unknown"]
  /\ pageCall = [c \in PageCalls |-> NoPageCall]
  /\ view = [v \in Views |-> NoView]

-----------------------------------------------------------------------------
(* Bounds.                                                                 *)

Offered(operation) == operation \in pageScope.operations

\* A request begins, and no other one is under way.
Begins(c) ==
  /\ pageCall[c] = NoPageCall
  /\ pageScope.serial => \A d \in PageCalls : pageCall[d] = NoPageCall

\* A UUID is never used twice.
FreePage(p) ==
  /\ p \in pageScope.ids
  /\ pages[p] = NoPage
  /\ \A c \in PageCalls : pageCall[c].page # p
  /\ \A v \in Views : view[v].page # p

-----------------------------------------------------------------------------
(* The statements: internal/db/status_pages.sql.go.                        *)

SlugTaken(slug, p) == \E q \in Pages \ {p} : pages[q].slug = slug

InsertPage(p, row) ==
  /\ FreePage(p)
  /\ ~SlugTaken(row.slug, p)
  /\ pages' = [pages EXCEPT ![p] = row]
  /\ UNCHANGED links

UpdatePageRow(p, row) ==
  /\ pages[p] # NoPage
  /\ ~SlugTaken(row.slug, p)
  /\ pages' = [pages EXCEPT ![p] = row]
  /\ UNCHANGED links

\* The links are deleted with the row.
DeletePageRow(p) ==
  /\ pages' = [pages EXCEPT ![p] = NoPage]
  /\ links' = [links EXCEPT ![p] = <<>>]

\* Mutant: the pair of page and monitor is not unique.
InsertLinkAnyway(p, link) ==
  /\ pages[p] # NoPage
  /\ status[link.monitor] # "gone"
  /\ links' = [links EXCEPT ![p] = Append(@, link)]
  /\ UNCHANGED pages

\* The page and the monitor must be there, and not linked yet.
InsertLink(p, link) ==
  /\ pages[p] # NoPage
  /\ status[link.monitor] # "gone"
  /\ link.monitor \notin Linked(p)
  /\ links' = [links EXCEPT ![p] = Append(@, link)]
  /\ UNCHANGED pages

UpdateLinkRow(p, link) ==
  /\ link.monitor \in Linked(p)
  /\ links' = [links EXCEPT ![p][LinkOf(p, link.monitor)] = link]
  /\ UNCHANGED pages

\* The pair of page and monitor is unique: there is one row at most.
Without(rows, m) ==
  LET found == {i \in DOMAIN rows : rows[i].monitor = m}
  IN  IF found = {} THEN rows ELSE RemoveAt(rows, CHOOSE i \in found : TRUE)

DeleteLinkRow(p, m) ==
  /\ links' = [links EXCEPT ![p] = Without(@, m)]
  /\ UNCHANGED pages

\* Mutant: the number of links stands for the largest order.
MaxOrderCount(p) == 10 * Len(links[p])

MaxStatusPageMonitorOrder(p) ==
  IF links[p] = <<>> THEN 0
  ELSE CHOOSE max \in {links[p][i].order : i \in DOMAIN links[p]} :
         \A i \in DOMAIN links[p] : links[p][i].order <= max

\* ORDER BY display_order, created_at.
Earlier(rows, i, j) ==
  \/ rows[i].order < rows[j].order
  \/ rows[i].order = rows[j].order /\ i < j

Place(rows, i) == Cardinality({j \in DOMAIN rows : Earlier(rows, j, i)}) + 1

ListStatusPageMonitors(p) ==
  [k \in DOMAIN links[p] |->
     links[p][CHOOSE i \in DOMAIN links[p] : Place(links[p], i) = k].monitor]

Listed(monitors, incident) ==
  incident.monitor \in monitors /\ (incident.recent \/ incident.open)

\* The newest ones, up to the limit.
ListIncidentsForMonitorsSince(monitors) ==
  LET Kept(incident) == Listed(monitors, incident)
      all == SelectSeq(pageScope.incidents, Kept)
  IN  SubSeq(all, 1, IF Len(all) < IncidentLimit THEN Len(all) ELSE IncidentLimit)

\* An order is an int32: sums and products wrap.
Wrap(order) == ((order + MaxOrder + 1) % (2 * (MaxOrder + 1))) - (MaxOrder + 1)

-----------------------------------------------------------------------------
(* Pages.                                                                  *)

Flag(field, default) == IF field = "keep" THEN default ELSE field = "yes"

\* Private, with incidents, unless the body says otherwise.
CreateStatusPage(c, p, body) ==
  /\ Offered("create")
  /\ Begins(c)
  /\ body.slug # "keep"
  /\ InsertPage(p, [slug |-> body.slug, public |-> Flag(body.public, FALSE),
                    incidents |-> Flag(body.incidents, TRUE)])
  /\ UNCHANGED <<pageScope, status, pageCall, view>>

UpdateReads(c, p, body) ==
  /\ Offered("update")
  /\ Begins(c)
  /\ pages[p] # NoPage
  /\ pageCall' = [pageCall EXCEPT ![c] = [NoPageCall EXCEPT !.at = "update", !.page = p,
                                           !.copy = pages[p], !.body = body]]
  /\ UNCHANGED <<pageScope, pages, links, status, view>>

WantedPage(copy, body) ==
  [slug |-> IF body.slug = "keep" THEN copy.slug ELSE body.slug,
   public |-> Flag(body.public, copy.public),
   incidents |-> Flag(body.incidents, copy.incidents)]

UpdateStatusPage(c) ==
  LET pc == pageCall[c] IN
  /\ pc.at = "update"
  /\ UpdatePageRow(pc.page, WantedPage(pc.copy, pc.body))
  /\ pageCall' = [pageCall EXCEPT ![c] = NoPageCall]
  /\ UNCHANGED <<pageScope, status, view>>

DeleteStatusPage(c, p) ==
  /\ Offered("delete")
  /\ Begins(c)
  /\ pages[p] # NoPage
  /\ DeletePageRow(p)
  /\ UNCHANGED <<pageScope, status, pageCall, view>>

-----------------------------------------------------------------------------
(* Links.                                                                  *)

\* AttachMonitor() has found the page, and the monitor not on it.
AttachReads(c, p, m, body) ==
  LET order == IF body.order = {} THEN Wrap(MaxStatusPageMonitorOrder(p) + 10)
               ELSE CHOOSE o \in body.order : TRUE
  IN
  /\ Offered("attach")
  /\ Begins(c)
  /\ pages[p] # NoPage
  /\ m \notin Linked(p)
  /\ pageCall' = [pageCall EXCEPT ![c] =
       [NoPageCall EXCEPT !.at = "attach", !.page = p, !.monitor = m, !.body = body,
                          !.copy = [monitor |-> m, order |-> order,
                                    label |-> IF body.label = "given" THEN "given" ELSE "own"]]]
  /\ UNCHANGED <<pageScope, pages, links, status, view>>

AttachMonitor(c) ==
  /\ pageCall[c].at = "attach"
  /\ InsertLink(pageCall[c].page, pageCall[c].copy)
  /\ pageCall' = [pageCall EXCEPT ![c] = NoPageCall]
  /\ UNCHANGED <<pageScope, status, view>>

EditReads(c, p, m, body) ==
  /\ Offered("edit")
  /\ Begins(c)
  /\ m \in Linked(p)
  /\ pageCall' = [pageCall EXCEPT ![c] =
       [NoPageCall EXCEPT !.at = "edit", !.page = p, !.monitor = m, !.body = body,
                          !.copy = links[p][LinkOf(p, m)]]]
  /\ UNCHANGED <<pageScope, pages, links, status, view>>

WantedLink(copy, body) ==
  [copy EXCEPT !.order = IF body.order = {} THEN @ ELSE CHOOSE o \in body.order : TRUE,
               !.label = IF body.label = "keep" THEN @ ELSE body.label]

UpdateAttachedMonitor(c) ==
  LET pc == pageCall[c] IN
  /\ pc.at = "edit"
  /\ UpdateLinkRow(pc.page, WantedLink(pc.copy, pc.body))
  /\ pageCall' = [pageCall EXCEPT ![c] = NoPageCall]
  /\ UNCHANGED <<pageScope, status, view>>

RemoveMonitor(c, p, m) ==
  /\ Offered("remove")
  /\ Begins(c)
  /\ m \in Linked(p)
  /\ DeleteLinkRow(p, m)
  /\ UNCHANGED <<pageScope, status, pageCall, view>>

-----------------------------------------------------------------------------
(* Reordering: every monitor is looked up before the first one is written. *)

StartReorder(c, p, list) ==
  /\ Offered("reorder")
  /\ Begins(c)
  /\ pages[p] # NoPage
  /\ pageCall' = [pageCall EXCEPT ![c] = [NoPageCall EXCEPT !.at = "check", !.page = p,
                                           !.list = list, !.next = 1, !.before = links[p]]]
  /\ UNCHANGED <<pageScope, pages, links, status, view>>

\* Mutant: only the first monitor of the list is looked up before the writes.
CheckOneThenWrite(c) ==
  LET pc == pageCall[c] IN
  /\ pc.at = "check"
  /\ pc.next <= Len(pc.list)
  /\ pageCall' = [pageCall EXCEPT ![c].at =
       IF pc.list[pc.next] \in Linked(pc.page) THEN "write" ELSE "rejected"]
  /\ UNCHANGED <<pageScope, pages, links, status, view>>

CheckListed(c) ==
  LET pc == pageCall[c] IN
  /\ pc.at = "check"
  /\ pc.next <= Len(pc.list)
  /\ pageCall' = [pageCall EXCEPT
       ![c].at = IF pc.list[pc.next] \in Linked(pc.page) THEN "check" ELSE "rejected",
       ![c].next = pc.next + 1]
  /\ UNCHANGED <<pageScope, pages, links, status, view>>

ChecksPass(c) ==
  LET pc == pageCall[c] IN
  /\ pc.at = "check"
  /\ pc.next > Len(pc.list)
  /\ pageCall' = [pageCall EXCEPT ![c].at = "write", ![c].next = 1]
  /\ UNCHANGED <<pageScope, pages, links, status, view>>

\* The link is read for its label, which is written back with the new order.
ReadListed(c) ==
  LET pc == pageCall[c]
      m == pc.list[pc.next] IN
  /\ pc.at = "write"
  /\ pc.copy = Nothing
  /\ pc.next <= Len(pc.list)
  /\ m \in Linked(pc.page)
  /\ pageCall' = [pageCall EXCEPT ![c].copy = links[pc.page][LinkOf(pc.page, m)]]
  /\ UNCHANGED <<pageScope, pages, links, status, view>>

\* One that was removed meanwhile: the rest stays as it was.
ListedIsGone(c) ==
  LET pc == pageCall[c] IN
  /\ pc.at = "write"
  /\ pc.copy = Nothing
  /\ pc.next <= Len(pc.list)
  /\ pc.list[pc.next] \notin Linked(pc.page)
  /\ pageCall' = [pageCall EXCEPT ![c].at = "rejected"]
  /\ UNCHANGED <<pageScope, pages, links, status, view>>

NewPlace(i) == Wrap(10 * i)

WriteListed(c) ==
  LET pc == pageCall[c] IN
  /\ pc.at = "write"
  /\ pc.copy # Nothing
  /\ UpdateLinkRow(pc.page, [pc.copy EXCEPT !.order = NewPlace(pc.next)])
  /\ pageCall' = [pageCall EXCEPT ![c].copy = Nothing, ![c].next = pc.next + 1]
  /\ UNCHANGED <<pageScope, status, view>>

ReorderDone(c) ==
  LET pc == pageCall[c] IN
  /\ pc.at = "write"
  /\ pc.next > Len(pc.list)
  /\ pageCall' = [pageCall EXCEPT ![c].at = "reordered"]
  /\ UNCHANGED <<pageScope, pages, links, status, view>>

\* A statement fails, the row is gone, or the answer is sent.
PageCallEnds(c) ==
  /\ pageCall[c] # NoPageCall
  /\ pageCall' = [pageCall EXCEPT ![c] = NoPageCall]
  /\ UNCHANGED <<pageScope, pages, links, status, view>>

-----------------------------------------------------------------------------
(* The monitors, whose rows other components write.                        *)

MonitorChanges(m, s) ==
  /\ Offered("monitor")
  /\ s \in pageScope.statuses
  /\ status[m] \notin {"gone", s}
  /\ status' = [status EXCEPT ![m] = s]
  /\ UNCHANGED <<pageScope, pages, links, pageCall, view>>

\* Deleting a monitor deletes its links.
MonitorDeleted(m) ==
  /\ Offered("monitor")
  /\ pageScope.serial => \A c \in PageCalls : pageCall[c] = NoPageCall
  /\ status[m] # "gone"
  /\ status' = [status EXCEPT ![m] = "gone"]
  /\ links' = [p \in Pages |-> Without(links[p], m)]
  /\ UNCHANGED <<pageScope, pages, pageCall, view>>

-----------------------------------------------------------------------------
(* The public view.                                                        *)

\* Mutant: paused monitors do not count.
AggregateUnlessDown(statuses) ==
  LET has(s) == \E i \in DOMAIN statuses : statuses[i] = s IN
  IF statuses = <<>> THEN "empty"
  ELSE IF has("down") THEN "down"
  ELSE IF has("degraded") \/ has("unknown") THEN "degraded" ELSE "up"

Flags(flags, s) ==
  CASE s = "down" -> [flags EXCEPT !.down = TRUE, !.allUp = FALSE]
    [] s \in {"degraded", "unknown"} -> [flags EXCEPT !.degraded = TRUE, !.allUp = FALSE]
    [] s = "up" -> flags
    [] OTHER -> [flags EXCEPT !.allUp = FALSE]

\* One pass over the statuses sets three flags.
FlagsAfter(statuses) ==
  LET after[n \in 0..Len(statuses)] ==
        IF n = 0 THEN [down |-> FALSE, degraded |-> FALSE, allUp |-> TRUE]
        ELSE Flags(after[n - 1], statuses[n])
  IN  after

ComputeAggregateStatus(statuses) ==
  LET end == FlagsAfter(statuses)[Len(statuses)]
  IN  IF statuses = <<>> THEN "empty"
      ELSE IF end.down THEN "down"
      ELSE IF end.degraded THEN "degraded"
      ELSE IF end.allUp THEN "up" ELSE "degraded"

\* A page that is private is as good as absent.
ViewPage(v, p) ==
  /\ Offered("view")
  /\ view[v] = NoView
  /\ pages[p].public
  /\ view' = [view EXCEPT ![v].at = "page", ![v].page = p, ![v].incidents = pages[p].incidents]
  /\ UNCHANGED <<pageScope, pages, links, status, pageCall>>

ViewLinks(v) ==
  /\ view[v].at = "page"
  /\ view' = [view EXCEPT ![v].at = "links", ![v].todo = ListStatusPageMonitors(view[v].page)]
  /\ UNCHANGED <<pageScope, pages, links, status, pageCall>>

\* A monitor deleted meanwhile is left out.
ViewMonitor(v) ==
  LET m == Head(view[v].todo) IN
  /\ view[v].at = "links"
  /\ view[v].todo # <<>>
  /\ view' = [view EXCEPT ![v].todo = Tail(@),
                          ![v].shown = IF status[m] = "gone" THEN @
                                       ELSE Append(@, <<m, status[m]>>)]
  /\ UNCHANGED <<pageScope, pages, links, status, pageCall>>

ViewAnswers(v) ==
  LET shown == view[v].shown
      monitors == {shown[i][1] : i \in DOMAIN shown}
  IN
  /\ view[v].at = "links"
  /\ view[v].todo = <<>>
  /\ view' = [view EXCEPT
       ![v].at = "answered",
       ![v].aggregate = ComputeAggregateStatus([i \in DOMAIN shown |-> shown[i][2]]),
       ![v].listed = IF view[v].incidents THEN ListIncidentsForMonitorsSince(monitors)
                     ELSE <<>>]
  /\ UNCHANGED <<pageScope, pages, links, status, pageCall>>

\* The answer is sent, or a statement fails.
ViewEnds(v) ==
  /\ view[v] # NoView
  /\ view' = [view EXCEPT ![v] = NoView]
  /\ UNCHANGED <<pageScope, pages, links, status, pageCall>>

-----------------------------------------------------------------------------
(* The system.                                                             *)

PageStep(c) ==
  \E p \in Pages :
    \/ \E body \in pageScope.bodies : CreateStatusPage(c, p, body) \/ UpdateReads(c, p, body)
    \/ DeleteStatusPage(c, p)

LinkStep(c) ==
  \E p \in Pages :
    \/ \E m \in Monitors :
         \/ \E body \in pageScope.linkBodies :
              AttachReads(c, p, m, body) \/ EditReads(c, p, m, body)
         \/ RemoveMonitor(c, p, m)
    \/ \E list \in pageScope.lists : StartReorder(c, p, list)

CallStep(c) ==
  \/ UpdateStatusPage(c)
  \/ AttachMonitor(c)
  \/ UpdateAttachedMonitor(c)
  \/ CheckListed(c)
  \/ ChecksPass(c)
  \/ ReadListed(c)
  \/ ListedIsGone(c)
  \/ WriteListed(c)
  \/ ReorderDone(c)
  \/ PageCallEnds(c)

ViewStep(v) ==
  \/ \E p \in Pages : ViewPage(v, p)
  \/ ViewLinks(v)
  \/ ViewMonitor(v)
  \/ ViewAnswers(v)
  \/ ViewEnds(v)

StatusPagesNext ==
  \/ \E c \in PageCalls : PageStep(c) \/ LinkStep(c) \/ CallStep(c)
  \/ \E m \in Monitors, s \in Statuses : MonitorChanges(m, s)
  \/ \E m \in Monitors : MonitorDeleted(m)
  \/ \E v \in Views : ViewStep(v)

StatusPagesSpec == StatusPagesInit /\ [][StatusPagesNext]_pageVars

-----------------------------------------------------------------------------
(* Properties.                                                             *)

Distinct(list) == \A i, j \in DOMAIN list : list[i] = list[j] => i = j

\* A reordering that is refused has changed nothing, and one that is done has
\* put the monitors of the list at 10, 20, 30...: docs/status-pages.md, unless
\* the last of these does not fit.
ReorderIsWhole ==
  pageScope.serial =>
    \A c \in PageCalls :
      LET pc == pageCall[c]
          p == pc.page
      IN  /\ pc.at = "rejected" => links[p] = pc.before
          /\ pc.at = "reordered" /\ Distinct(pc.list) /\ 10 * Len(pc.list) <= MaxOrder =>
               /\ Len(links[p]) = Len(pc.before)
               /\ \A i \in DOMAIN pc.list :
                    links[p][LinkOf(p, pc.list[i])].order = 10 * i

\* A monitor attached without an order is shown last, whatever was removed,
\* moved or reordered before, unless max + 10 does not fit.
AttachGoesLast ==
  [][pageScope.serial =>
       \A c \in PageCalls, p \in Pages :
         LET pc == pageCall[c] IN
         pc.at = "attach" /\ pc.page = p /\ links' # links /\ pc.body.order = {}
           /\ MaxStatusPageMonitorOrder(p) + 10 <= MaxOrder =>
         ListStatusPageMonitors(p)' = Append(ListStatusPageMonitors(p), pc.monitor)]_pageVars

\* The documented aggregate: down if one is down, up if all are up, empty if
\* there is none, and otherwise degraded, paused monitors included.
DocumentedAggregate(statuses) ==
  IF statuses = {} THEN "empty"
  ELSE IF "down" \in statuses THEN "down"
  ELSE IF statuses = {"up"} THEN "up" ELSE "degraded"

\* The aggregate of an answer is the documented one of the monitors that it
\* shows, although they are read one by one while they change and go.
AggregateIsDocumented ==
  \A v \in Views :
    view[v].at = "answered" =>
      view[v].aggregate =
        DocumentedAggregate({view[v].shown[i][2] : i \in DOMAIN view[v].shown})

=============================================================================
