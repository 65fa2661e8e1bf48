---------------------------- MODULE DigestDelivery ----------------------------
(***************************************************************************)
(* The digest stage of a run (_send_digest and _send_digest_for_period in  *)
(* src/orchestrator.py): one digest per release week and recipient.  Each  *)
(* week asks for the list of subscribers anew, has every update analysed   *)
(* again for each bounded scope among them, and mails all recipients at    *)
(* once, while administrators edit the list in AdminConfiguration.         *)
(***************************************************************************)
EXTENDS AdminConfiguration, FiniteSets

CONSTANTS
    Weeks,          \* release weeks the run's items fall into
    Tenant,         \* the scope of a profile that names no boundary
    Malformed,      \* scopes the console accepts and AnalysisScope does not
    NoReport        \* an item without a result

ASSUME DeliveryAssumption ==
    /\ Weeks \in Nat
    /\ Tenant \in Scopes /\ Malformed \subseteq Scopes \ {Tenant} /\ NoReport \notin Scopes

Kinds == {"list", "loading", "default", "analysing", "sending", "counting", "ended", "raised"}

VARIABLES
    dispatches,     \* the email service mails: its transport is set up, and
                    \* sending does not wait for an approval
    stage,          \* where the digest stage is
    week,           \* the release week being served
    listed,         \* the version the week's list was taken from
    reports,        \* per bounded scope: the week's report for it, if it has one
    sent,           \* recipients whose send returned True this week
    delivered,      \* all(deliveries) so far
    mails,          \* ghost: what left this week, to whom, with which report
    served          \* ghost: weeks in which everyone on the list was mailed

delivery == <<dispatches, stage, week, listed, reports, sent, delivered, mails, served>>
vars     == <<adminVars, delivery>>

Reports == Scopes \cup {NoReport}
Mails   == [to : Emails, report : Reports, link : BOOLEAN]

(* get_subscribers: the deployment's profiles, then those of the document.  *)
Profile(v, e) == IF Deployed[e] # Absent THEN Deployed[e] ELSE history[v].profile[e]
List(v)       == {e \in Emails : Profile(v, e) # Absent}
Bounded(v)    == {Profile(v, e) : e \in List(v)} \ {Tenant}

TypeOK ==
    /\ AdminTypeOK
    /\ dispatches \in BOOLEAN
    /\ stage \in Kinds
    /\ week \in 1 .. Weeks + 1
    /\ listed \in 0 .. Current
    /\ reports \in [Scopes -> Reports]
    /\ sent \subseteq Emails
    /\ delivered \in BOOLEAN
    /\ mails \subseteq Mails /\ served \subseteq 1 .. Weeks

(* A run without items delivers nothing.                                    *)
Init ==
    /\ AdminInit
    /\ dispatches \in BOOLEAN
    /\ stage = IF Weeks > 0 THEN "list" ELSE "ended"
    /\ week = 1
    /\ listed = 0
    /\ reports = [s \in Scopes |-> NoReport]
    /\ sent = {}
    /\ delivered = (Weeks > 0)
    /\ mails = {} /\ served = {}

-----------------------------------------------------------------------------

(* The next week, or the end of the stage: the week was served from version *)
(* v of the list.                                                           *)
EndWeek(ok, v) ==
    /\ delivered' = (delivered /\ ok)
    /\ served' = IF \A e \in List(v) : \E m \in mails : m.to = e
                 THEN served \cup {week} ELSE served
    /\ week' = week + 1
    /\ stage' = IF week = Weeks THEN "ended" ELSE "list"
    /\ reports' = [s \in Scopes |-> NoReport]
    /\ sent' = {}
    /\ listed' = 0 /\ mails' = {}

(* The week is served by version v of the list.  One profile whose scope    *)
(* AnalysisScope.from_subscriber refuses fails the week for everybody.      *)
ServeWeek(v) ==
    IF Bounded(v) \cap Malformed # {}
    THEN EndWeek(FALSE, v)
    ELSE /\ stage' = IF List(v) = {} THEN "default" ELSE "analysing"
         /\ listed' = v
         /\ UNCHANGED <<week, reports, sent, delivered, mails, served>>

AskList ==
    /\ stage = "list"
    /\ \/ LoadCached(Digest) /\ ServeWeek(cached[Home[Digest]])
       \/ /\ LoadBegins(Digest)
          /\ stage' = "loading"
          /\ UNCHANGED <<week, listed, reports, sent, delivered, mails, served>>

ListRead ==
    /\ stage = "loading"
    /\ \E v \in 1 .. Current : LoadReturns(Digest, v) /\ ServeWeek(v)

(* The read of the list is outside the try: the digest stage raises, and    *)
(* later weeks are not served.                                              *)
ListFails ==
    /\ stage = "loading" /\ LoadFails(Digest)
    /\ stage' = "raised"
    /\ UNCHANGED <<week, listed, reports, sent, delivered, mails, served>>

(* The scoped analyses of the week's items, some of which fail or find the  *)
(* run's time used up.                                                      *)
Analyse ==
    /\ stage = "analysing"
    /\ \E ok \in SUBSET Bounded(listed) :
         reports' = [s \in Scopes |-> IF s \in ok THEN s ELSE NoReport]
    /\ stage' = "sending"
    /\ UNCHANGED <<week, listed, sent, delivered, mails, served>>

\* Mutant of ReportFor: an update whose scoped analysis failed is reported as
\* it was for the whole tenant.
ReportOrTenant(s) == IF s = Tenant \/ reports[s] = NoReport THEN Tenant ELSE reports[s]

(* A recipient with a boundary gets the report made for it, or the item     *)
(* without a result; customization rewrites, and on failure keeps, it.      *)
ReportFor(s) == IF s = Tenant THEN Tenant ELSE reports[s]

(* Links lead to the archived report, which is the one for the tenant.      *)
Mail(e) ==
    LET s == Profile(listed, e)
    IN  [to |-> e, report |-> ReportFor(s), link |-> s = Tenant]

(* Each recipient is customized for and mailed apart from the others.  A    *)
(* send that fails may have left nevertheless; one that succeeds has not    *)
(* where the service only prints the digest, or holds it for an approval.   *)
Send ==
    /\ stage = "sending"
    /\ sent' \in SUBSET List(listed)
    /\ IF dispatches
       THEN \E unknown \in SUBSET (List(listed) \ sent') :
              mails' = {Mail(e) : e \in sent' \cup unknown}
       ELSE mails' = {}
    /\ stage' = "counting"
    /\ UNCHANGED <<week, listed, reports, delivered, served>>

\* Mutant of Served: one recipient is enough.
ServedSomeone == sent # {}

(* delivered == len(subscribers).                                           *)
Served == sent = List(listed)

WeekSent == stage = "counting" /\ EndWeek(Served, listed)

(* Without subscribers the digest goes to the default recipient.            *)
SendDefault ==
    /\ stage = "default"
    /\ \E ok \in BOOLEAN : EndWeek(ok, listed)

DeliveryStep ==
    /\ \/ AskList \/ ListRead \/ ListFails
       \/ (Analyse \/ Send \/ WeekSent \/ SendDefault) /\ UNCHANGED <<caches, loads>>
    /\ UNCHANGED <<clock, document, requests, dispatches>>

Next ==
    \/ DeliveryStep
    \/ ((\E r \in Requests : RequestStep(r)) \/ ScheduleWrite \/ Tick) /\ UNCHANGED delivery

Spec == Init /\ [][Next]_vars

-----------------------------------------------------------------------------

(* Whatever is edited meanwhile and whichever analyses fail, a recipient    *)
(* was on the week's list, gets no report made for another scope than its   *)
(* profile there names, and no link to the tenant's report if it has one    *)
(* ("Never use an unscoped result as fallback", agent/scope.py).            *)
MailKeepsToScope ==
    \A m \in mails :
        /\ m.to \in List(listed)
        /\ m.report \in {Profile(listed, m.to), NoReport}
        /\ m.link => Profile(listed, m.to) = Tenant

(* Where the service mails at all, the stage says that the digest was       *)
(* delivered only if in every week every subscriber on its list was mailed; *)
(* email_sent and the status of the run rest on it.                         *)
SentMeansEveryone == stage = "ended" /\ delivered /\ dispatches => served = 1 .. Weeks
=============================================================================
