--------------------------------- MODULE Dashboard ---------------------------------
(***************************************************************************)
(* The page in the browser (app.js): its token, its two views, and the      *)
(* calls it has in flight.  A call carries the token of the moment it is    *)
(* sent; it is answered by the server later and delivered to the page later *)
(* still, in any order.  Any 401 drops the token and shows the login.       *)
(*                                                                         *)
(* The watched targets are a version number: each change of them makes the  *)
(* next version.  The filter, the search and the drawing are left out: they *)
(* only read what the last load left.  One page is open.                    *)
(***************************************************************************)
EXTENDS Integers, FiniteSets

CONSTANTS
  Handler,     \* bound: loads and handlers of clicks under way at once
  Refresher,   \* bound: refreshes of the overview under way at once
  Others,      \* what a load fetches beside the targets: providers, summary, findings
  MaxVersion,  \* bound: changes of the watched targets
  MaxLogins,   \* bound: tokens issued, the one of an earlier visit included
  Failures     \* whether calls fail for another reason than 401

Task == Handler \cup Refresher

LoadPath == Others \cup {"targets"}

Kind == {"idle", "load", "rejected", "overview", "history", "edit", "login", "scan"}

\* The calls a handler waits for.
Paths(kind) == IF kind = "load" THEN LoadPath ELSE {kind}

ASSUME ConstantsAssumption ==
  /\ IsFiniteSet(Task) /\ Handler \cap Refresher = {} /\ IsFiniteSet(Others) /\ Others \cap Kind = {} /\ "targets" \notin Others
  /\ MaxVersion \in Nat /\ MaxLogins \in Nat \ {0} /\ Failures \in BOOLEAN

VARIABLES
  token,      \* in localStorage: 0 for none, n for the one of the n-th login
  view,       \* "login" or "dashboard", "blank" before the page is opened
  interval,   \* setInterval(refresh, 15000) was called
  button,     \* the scan button: "ready", or disabled while "calling" and "cooling"
  scanLoad,   \* a load is due ten seconds after a scan was accepted
  shown,      \* version of the targets on the page
  kind,       \* what each task does
  got,        \* version of the targets a load has received
  calls,      \* calls sent and not delivered
  targets,    \* server: version of the watched targets
  logins,     \* server: tokens issued
  expired,    \* server: tokens up to this one are older than 24 hours
  confirmed,  \* history: newest version an edit of the user was answered with
  alone       \* history: the last load to begin overlapped no other and did not fail

page    == <<token, view, interval, button, scanLoad, shown>>
tasks   == <<kind, got, calls>>
server  == <<targets, logins, expired>>
history == <<confirmed, alone>>
vars    == <<page, tasks, server, history>>

Idle(t) == kind[t] = "idle"

\* The calls of a task that begins now, with the token of now.
Calls(t, k, tok) ==
  {[task |-> t, path |-> p, token |-> tok, answer |-> "none", value |-> 0] : p \in Paths(k)}

Begin(t, k) ==
  /\ kind' = [kind EXCEPT ![t] = k]
  /\ got' = [got EXCEPT ![t] = 0]
  /\ calls' = calls \cup Calls(t, k, token)

\* No load but that of task t can still render.
NoLoadBut(t) == \A u \in Task \ {t} : kind[u] # "load"

-----------------------------------------------------------------------------
(* The page is loaded, and what the user does.                             *)

\* showDashboard: a refresh and a load begin, with the token just stored.
Opened(t, u, tok, old) ==
  /\ view' = "dashboard"
  /\ calls' = old \cup Calls(t, "load", tok) \cup Calls(u, "overview", tok)

\* The page is opened, or reloaded: the calls in flight are forgotten, what is stored in the
\* browser stays.  An edit among them may still be done: Seed.
Open(t, u) ==
  /\ button' = "ready" /\ scanLoad' = FALSE /\ shown' = 0
  /\ got' = [s \in Task |-> 0]
  /\ interval' = (token # 0)
  /\ IF token # 0
       THEN /\ Opened(t, u, token, {})
            /\ kind' = [s \in Task |-> IF s = t THEN "load" ELSE IF s = u THEN "overview" ELSE "idle"]
            /\ alone' = TRUE
       ELSE /\ view' = "login" /\ calls' = {}
            /\ kind' = [s \in Task |-> "idle"]
            /\ alone' = FALSE
  /\ UNCHANGED <<token, server, confirmed>>

\* The browser may hold a token of an earlier visit, which has expired since.
Init ==
  /\ token \in {0, 1} /\ logins = 1 /\ expired = 1
  /\ view = "blank" /\ interval = FALSE /\ button = "ready" /\ scanLoad = FALSE /\ shown = 0
  /\ kind = [t \in Task |-> "idle"] /\ got = [t \in Task |-> 0] /\ calls = {}
  /\ targets = 0 /\ confirmed = 0 /\ alone = FALSE

Submit(t) ==
  /\ view = "login" /\ Idle(t)
  /\ Begin(t, "login")
  /\ UNCHANGED <<page, server, history>>

Load(t) ==
  /\ Begin(t, "load")
  /\ alone' = NoLoadBut(t)
  /\ UNCHANGED <<server, confirmed>>

\* The tab "Compromission" is opened.
SwitchTab(t) ==
  /\ view = "dashboard" /\ Idle(t)
  /\ Load(t)
  /\ UNCHANGED page

\* A target is removed or added, or a list imported.
Edit(t) ==
  /\ view = "dashboard" /\ Idle(t)
  /\ Begin(t, "edit")
  /\ UNCHANGED <<page, server, history>>

Scan(t) ==
  /\ view = "dashboard" /\ Idle(t) /\ button = "ready"
  /\ button' = "calling"
  /\ Begin(t, "scan")
  /\ UNCHANGED <<token, view, interval, scanLoad, shown, server, history>>

LogoutMut ==
  /\ view = "dashboard"
  /\ token' = 0
  /\ UNCHANGED <<view, interval, button, scanLoad, shown, tasks, server, history>>

Logout ==
  /\ view = "dashboard"
  /\ token' = 0 /\ view' = "login"
  /\ UNCHANGED <<interval, button, scanLoad, shown, tasks, server, history>>

-----------------------------------------------------------------------------
(* The timers of the page.                                                 *)

\* Every 15 seconds, whichever view is shown.
Refresh(u) ==
  /\ interval /\ Idle(u)
  /\ Begin(u, "overview")
  /\ UNCHANGED <<page, server, history>>

\* Ten seconds after a scan: its load first, then the button.
LoadAfterScan(t) ==
  /\ scanLoad /\ Idle(t)
  /\ scanLoad' = FALSE
  /\ Load(t)
  /\ UNCHANGED <<token, view, interval, button, shown>>

EnableButton ==
  /\ button = "cooling" /\ ~scanLoad
  /\ button' = "ready"
  /\ UNCHANGED <<token, view, interval, scanLoad, shown, tasks, server, history>>

-----------------------------------------------------------------------------
(* The server.                                                             *)

\* The call c is answered; the token it carried matters no more unless it was refused.
Answer(c, answer, value) ==
  calls' = (calls \ {c}) \cup
             {[task |-> c.task, path |-> c.path, token |-> IF answer = "refused" THEN c.token ELSE 0,
               answer |-> answer, value |-> value]}

\* The login needs no token; every other route wants one that has not expired.
Refuses(c) == c.path # "login" /\ c.token <= expired

\* A call is answered.  An edit may find nothing to change; a failure may come before or after it.
Serve(c) ==
  /\ c \in calls /\ c.answer = "none"
  /\ \/ /\ Refuses(c)
        /\ Answer(c, "refused", 0)
        /\ UNCHANGED <<targets, logins>>
     \/ /\ ~Refuses(c) /\ c.path = "login"
        /\ \/ Answer(c, "refused", 0) /\ UNCHANGED logins
           \/ logins < MaxLogins /\ logins' = logins + 1 /\ Answer(c, "ok", logins + 1)
        /\ UNCHANGED targets
     \/ /\ ~Refuses(c) /\ c.path = "edit"
        /\ targets' \in {targets, targets + 1} /\ targets' <= MaxVersion
        /\ Answer(c, "ok", targets') \/ (Failures /\ Answer(c, "error", 0))
        /\ UNCHANGED logins
     \/ /\ ~Refuses(c) /\ c.path = "targets"
        /\ Answer(c, "ok", targets)
        /\ UNCHANGED <<targets, logins>>
     \/ /\ ~Refuses(c) /\ c.path \notin {"login", "edit", "targets"}
        /\ Answer(c, "ok", 0)
        /\ UNCHANGED <<targets, logins>>
     \/ /\ Failures /\ Answer(c, "error", 0)
        /\ UNCHANGED <<targets, logins>>
  /\ UNCHANGED <<page, kind, got, expired, history>>

\* The scans seed targets of their own; an edit of a page reloaded since is done.
Seed ==
  /\ targets < MaxVersion
  /\ targets' = targets + 1
  /\ UNCHANGED <<page, tasks, logins, expired, history>>

\* 24 hours after its login a token is no longer valid.
Expire ==
  /\ expired < logins
  /\ expired' = expired + 1
  /\ UNCHANGED <<page, tasks, targets, logins, history>>

-----------------------------------------------------------------------------
(* The page gets an answer.                                                *)

EndsSessionMut(c) == c.answer # "ok"

\* setToken(null) and showLogin, whichever token the call carried.
EndsSession(c) == c.answer = "refused"

\* The task of c is through when no call of it is left.
Rest(c) == {d \in calls : d.task = c.task /\ d # c}

Through(c) ==
  /\ kind' = [kind EXCEPT ![c.task] = "idle"]
  /\ got' = [got EXCEPT ![c.task] = 0]
  /\ calls' = calls \ {c}

RejectMut(c) == kind' = [kind EXCEPT ![c.task] = "idle"]

\* A handler stops at its first error; the other calls of a load stay in flight.
Reject(c) == kind' = [kind EXCEPT ![c.task] = IF Rest(c) = {} THEN "idle" ELSE "rejected"]

ButtonMut(c) == button

\* The finally of the scan sets the timer of the button, after an error too.
Button(c) == IF c.path = "scan" THEN "cooling" ELSE button

DeliverError(c) ==
  /\ IF EndsSession(c) THEN token' = 0 /\ view' = "login" ELSE UNCHANGED <<token, view>>
  /\ Reject(c)
  /\ got' = [got EXCEPT ![c.task] = 0]
  /\ calls' = calls \ {c}
  /\ alone' = (alone /\ kind[c.task] # "load")
  /\ button' = Button(c)
  /\ UNCHANGED <<interval, scanLoad, shown, confirmed>>

DeliverLogin(c, u) ==
  /\ Idle(u)
  /\ token' = c.value
  /\ Opened(c.task, u, c.value, calls \ {c})
  /\ kind' = [kind EXCEPT ![c.task] = "load", ![u] = "overview"]
  /\ alone' = NoLoadBut(c.task)
  /\ UNCHANGED <<interval, button, scanLoad, shown, got, confirmed>>

AfterEditMut(c) == Through(c) /\ UNCHANGED alone

\* The answer of an edit is awaited, and a load follows it.
AfterEdit(c) ==
  /\ kind' = [kind EXCEPT ![c.task] = "load"]
  /\ calls' = (calls \ {c}) \cup Calls(c.task, "load", token)
  /\ alone' = NoLoadBut(c.task)
  /\ UNCHANGED got

DeliverEdit(c) ==
  /\ confirmed' = IF c.value > confirmed THEN c.value ELSE confirmed
  /\ AfterEdit(c)
  /\ UNCHANGED page

DeliverScan(c) ==
  /\ Through(c)
  /\ button' = Button(c) /\ scanLoad' = TRUE
  /\ UNCHANGED <<token, view, interval, shown, history>>

\* refresh draws the chart from a second call.
DeliverOverview(c) ==
  /\ kind' = [kind EXCEPT ![c.task] = "history"]
  /\ calls' = (calls \ {c}) \cup Calls(c.task, "history", token)
  /\ UNCHANGED <<page, got, history>>

Received(c) == IF c.path = "targets" THEN c.value ELSE got[c.task]

\* Promise.all: the page shows what a load has received when the last of its answers is there.
DeliverPart(c) ==
  /\ IF Rest(c) = {}
       THEN /\ Through(c)
            /\ shown' = IF kind[c.task] = "load" THEN Received(c) ELSE shown
       ELSE /\ got' = [got EXCEPT ![c.task] = IF kind[c.task] = "load" THEN Received(c) ELSE 0]
            /\ calls' = calls \ {c}
            /\ UNCHANGED <<kind, shown>>
  /\ UNCHANGED <<token, view, interval, button, scanLoad, history>>

Deliver(c) ==
  /\ c \in calls
  /\ \/ c.answer \in {"refused", "error"} /\ DeliverError(c)
     \/ /\ c.answer = "ok"
        /\ \/ c.path = "login" /\ \E u \in Refresher : DeliverLogin(c, u)
           \/ c.path = "edit" /\ DeliverEdit(c)
           \/ c.path = "scan" /\ DeliverScan(c)
           \/ c.path = "overview" /\ DeliverOverview(c)
           \/ c.path = "history" /\ Through(c) /\ UNCHANGED <<page, history>>
           \/ c.path \in LoadPath /\ DeliverPart(c)
  /\ UNCHANGED server

-----------------------------------------------------------------------------

User(t) ==
  \/ Submit(t) \/ SwitchTab(t) \/ Edit(t) \/ Scan(t)
  \/ \E u \in Refresher : Open(t, u)

Next ==
  \/ \E t \in Handler : User(t) \/ LoadAfterScan(t)
  \/ Logout
  \/ \E u \in Refresher : Refresh(u)
  \/ EnableButton
  \/ \E c \in calls : Serve(c) \/ Deliver(c)
  \/ Seed \/ Expire

Spec == Init /\ [][Next]_vars

-----------------------------------------------------------------------------
(* Properties.                                                             *)

\* The shape of the state; a task is idle when no call of it is in flight, and a load waits for
\* each of its paths once.
TypeOK ==
  /\ token \in 0..MaxLogins /\ view \in {"blank", "login", "dashboard"} /\ interval \in BOOLEAN
  /\ button \in {"ready", "calling", "cooling"} /\ scanLoad \in BOOLEAN
  /\ shown \in 0..MaxVersion
  /\ kind \in [Task -> Kind] /\ got \in [Task -> 0..MaxVersion]
  /\ calls \subseteq [task : Task, path : LoadPath \cup Kind, token : 0..MaxLogins,
                     answer : {"none", "ok", "refused", "error"},
                     value : 0..(MaxVersion + MaxLogins)]
  /\ \A t \in Task : Idle(t) <=> \A c \in calls : c.task # t
  /\ \A c, d \in calls : c.task = d.task /\ c.path = d.path => c = d
  /\ targets \in 0..MaxVersion /\ logins \in 0..MaxLogins /\ expired \in 0..logins
  /\ confirmed \in 0..targets /\ alone \in BOOLEAN

\* The page shows the dashboard exactly while it holds a token, whichever answers of calls sent
\* before a logout, a login or a 401 still arrive (app.js:23-26, 303-304, 311-314, 381-386).
DashboardHasToken == view # "blank" => (view = "dashboard" <=> token # 0)

\* Once the last load that began overlapped no other and did not fail, the page shows every edit
\* the user was told is done: an edit loads again after its answer (app.js:255-256, 326, 344).
AloneIsCurrent == alone /\ (\A t \in Task : kind[t] # "load") => shown >= confirmed

\* A token that is still valid is given up by the logout, or by the 401 of a call that did not
\* carry it: a refresh sent before the login, or a second login refused.  The answers of its own
\* calls never end a session, however late they come (app.js:19-27, auth.go:60-81).
OwnAnswersKeepToken ==
  [][token > expired /\ token' = 0 =>
       \/ Logout
       \/ \E c \in calls \ calls' : c.answer = "refused" /\ c.token # token]_vars

\* The scan button never stays disabled for nothing: a call or a timer is under way that enables
\* it, also when the scan is refused or fails; and no second scan is sent meanwhile
\* (app.js:365-378).
ButtonReturns ==
  /\ button = "calling" <=> \E t \in Task : kind[t] = "scan"
  /\ \A t, u \in Task : kind[t] = "scan" /\ kind[u] = "scan" => t = u
  /\ scanLoad => button = "cooling"

\* What the page says it does: a target removed by a click is not shown any more, once nothing is
\* in flight.
RemovedIsGone == view = "dashboard" /\ calls = {} => shown >= confirmed
================================================================================
