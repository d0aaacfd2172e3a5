----------------------------- MODULE MCServices -----------------------------
(***************************************************************************)
(* An instance of AuthService, StatusPages, Notifications and Ipam.  They  *)
(* share no table and do not call each other, so a behaviour is about one  *)
(* of them: the others stay as they are at the start.                      *)
(***************************************************************************)
EXTENDS AuthHistory, StatusPages, NoticeHistory, Ipam

CONSTANTS p1, p2, s1, s2, m1, m2

VARIABLE
  part                   \* what this behaviour is about; never changes

servicesVars == <<part, authHistoryVars, pageVars, noticeHistoryVars, ipamVars>>

-----------------------------------------------------------------------------
(* Scopes of AuthService: what takes admins away; all operations.          *)

PatchOf(role, enabled, password) == [role |-> role, enabled |-> enabled, password |-> password]

MCAuthScopes ==
  {[operations |-> {"setup", "login", "create", "patch", "delete"}, roles |-> {"admin"},
    patches |-> {PatchOf("viewer", "keep", "none"), PatchOf("keep", "no", "none"),
                 PatchOf("admin", "yes", "short")}],
   [operations |-> Operations, roles |-> {"viewer", "admin"},
    patches |-> {PatchOf("viewer", "keep", "none")}]}

-----------------------------------------------------------------------------
(* Scopes of StatusPages: two pages, links and reorderings without and     *)
(* with races, and a public view while monitors change.                    *)

PageBodyOf(slug, public, incidents) ==
  [slug |-> slug, public |-> public, incidents |-> incidents]
LinkBodyOf(order, label) == [order |-> order, label |-> label]
IncidentOf(m, open, recent) == [monitor |-> m, open |-> open, recent |-> recent]

NoOperation ==
  [operations |-> {}, ids |-> {p1}, bodies |-> {PageBodyOf(s1, "yes", "keep")},
   linkBodies |-> {LinkBodyOf({}, "keep")}, lists |-> {}, statuses |-> {},
   incidents |-> <<>>, serial |-> TRUE]

MCPageScopes ==
  {[NoOperation EXCEPT !.operations = {"create", "update", "delete"}, !.ids = Pages,
                       !.bodies = {PageBodyOf(s1, "yes", "keep"), PageBodyOf(s2, "keep", "no")},
                       !.serial = FALSE],
   [NoOperation EXCEPT !.operations = {"create", "attach", "edit", "remove", "reorder"},
                       !.linkBodies = {LinkBodyOf({}, "keep"), LinkBodyOf({30}, "keep"),
                                       LinkBodyOf({}, "given")},
                       !.lists = {<<m2, m1>>, <<m2, m1, m2>>}],
   [NoOperation EXCEPT !.operations = {"create", "delete", "attach", "remove", "reorder", "monitor"},
                       !.linkBodies = {LinkBodyOf({10}, "keep")},
                       !.lists = {<<m2, m1>>}, !.serial = FALSE],
   [NoOperation EXCEPT !.operations = {"create", "attach", "monitor", "view"},
                       !.statuses = {"up", "down", "paused"},
                       !.incidents = <<IncidentOf(m1, TRUE, TRUE), IncidentOf(m2, FALSE, TRUE),
                                       IncidentOf(m2, FALSE, FALSE), IncidentOf(m2, TRUE, FALSE)>>]}

-----------------------------------------------------------------------------
(* Scopes of Notifications: requests that change channels; notices while   *)
(* channels come and go; calls on incidents that race, with deletions and  *)
(* restarts; resolutions that race and restarts, with a channel; tests.    *)

KindOf(type, enabled, secret) == [type |-> type, enabled |-> enabled, secret |-> secret]
MailAndWebhook == {KindOf("smtp", TRUE, "old"), KindOf("webhook", TRUE, "empty")}
NoNoticeOperation ==
  [operations |-> {}, kinds |-> MailAndWebhook, channelBodies |-> {}, lone |-> TRUE]

MCNoticeScopes ==
  {[NoNoticeOperation EXCEPT
      !.operations = {"channel", "patch", "delete"},
      !.kinds = MailAndWebhook \cup {KindOf("smtp", FALSE, "empty"), KindOf("webhook", FALSE, "old")},
      !.channelBodies = {KindOf("keep", "no", "keep"), KindOf("keep", "keep", "mask"),
                         KindOf("keep", "yes", "empty"), KindOf("smtp", "keep", "mask"),
                         KindOf("webhook", "keep", "new"), KindOf("smtp", "keep", "keep")}],
   [NoNoticeOperation EXCEPT !.operations = {"channel", "delete", "incident"}],
   [NoNoticeOperation EXCEPT !.operations = {"incident", "acknowledge", "monitor", "restart"},
                             !.lone = FALSE],
   [NoNoticeOperation EXCEPT !.operations = {"channel", "incident"},
                             !.kinds = {KindOf("smtp", TRUE, "old")}, !.lone = FALSE],
   [NoNoticeOperation EXCEPT !.operations = {"channel", "incident", "restart"},
                             !.kinds = {KindOf("smtp", TRUE, "old")}],
   [NoNoticeOperation EXCEPT !.operations = {"channel", "patch", "test", "delete", "cleanup"},
                             !.channelBodies = {KindOf("keep", "no", "mask")}, !.lone = FALSE]}

-----------------------------------------------------------------------------
(* Ipam: addresses of four bits, of seven and an int of six keep the order *)
(* of 32, 128 and 64.  Blocks of 8, 4, 2 and 1 at the end of the family,   *)
(* one not written with its first address; of IPv6 a block of 2 and one    *)
(* with as many addresses as int has values.                               *)

V4(addr, bits) == [family |-> "v4", addr |-> addr, bits |-> bits]
V6(addr, bits) == [family |-> "v6", addr |-> addr, bits |-> bits]

MCAddressBits == [v4 |-> 4, v6 |-> 7]
MCCIDRs == {V4(8, 1), V4(12, 2), V4(13, 2), V4(14, 3), V4(15, 4), V6(126, 6), V6(0, 1)}
MCAddresses == {<<"v4", 13>>, <<"v4", 14>>, <<"v4", 15>>}

-----------------------------------------------------------------------------
Only(scopes, name) == IF part = name THEN scopes ELSE {CHOOSE s \in scopes : TRUE}

ServicesInit ==
  /\ part \in {"auth", "pages", "notices", "ipam"}
  /\ AuthHistoryInit /\ StatusPagesInit /\ NoticeHistoryInit /\ IpamInit
  /\ authScope \in Only(AuthScopes, "auth")
  /\ pageScope \in Only(PageScopes, "pages")
  /\ noticeScope \in Only(NoticeScopes, "notices")

InAuth(A) == part = "auth" /\ A /\ UNCHANGED <<part, pageVars, noticeHistoryVars, ipamVars>>
InPages(A) == part = "pages" /\ A /\ UNCHANGED <<part, authHistoryVars, noticeHistoryVars, ipamVars>>
InNotices(A) == part = "notices" /\ A /\ UNCHANGED <<part, authHistoryVars, pageVars, ipamVars>>
InIpam(A) == part = "ipam" /\ A /\ UNCHANGED <<part, authHistoryVars, pageVars, noticeHistoryVars>>

ServicesNext ==
  \/ InAuth(AuthHistoryNext)
  \/ InPages(StatusPagesNext)
  \/ InNotices(NoticeHistoryNext)
  \/ InIpam(IpamNext)

\* NoticeFairness, as a step of the whole.
ServicesFairness == \A n \in NoticeIds :
  WF_servicesVars(InNotices(NoticeStep(n) /\ UNCHANGED <<late, overwritten, drift>>))

ServicesSpec == ServicesInit /\ [][ServicesNext]_servicesVars /\ ServicesFairness
=============================================================================
