------------------------------- MODULE Client -------------------------------
(***************************************************************************)
(* Who clicks, and what it does to the counter: a browser tab on the       *)
(* dashboard, where counter.js may run or not, and beside it an API client *)
(* that takes the status codes at their word and repeats a request only    *)
(* after a 429.  Both post increments to the CounterService that the write *)
(* queue implements; requests and replies may be late or lost, and the tab *)
(* may load the page anew at any moment.                                   *)
(*                                                                         *)
(* Page and client outlive the process they talk to: the application may   *)
(* be restarted, and when its node is lost, increments that were not       *)
(* replicated go with it, acknowledged or not.  What Durability shows of a *)
(* loss is all that is assumed: a beginning of the log is left.            *)
(*                                                                         *)
(* The browser is external: a navigation replaces the one under way, the   *)
(* old page lives until the new one arrives, and then its requests are     *)
(* given up.  It posts a form again only when the user confirms it.        *)
(***************************************************************************)
EXTENDS Integers, Sequences, FiniteSets

CONSTANTS Saved,      \* the counter's value at first
          MaxSafe,    \* Number.MAX_SAFE_INTEGER
          MaxPosts    \* bound: the posts of all clients

ASSUME ClientAssumption == Saved \in Nat /\ MaxSafe \in Nat /\ MaxPosts \in Nat

Caller == 1..MaxPosts   \* the posts, in the order in which they are sent
None == 0

VARIABLES
  log, outcome, answer,   \* the counter service
  posted,    \* the number of posts sent
  page,      \* the page in the tab; as history, the post whose redirect led to it (own)
             \* and whether increments were lost after it was rendered (old)
  sent,      \* the posts of the page's script that it waits for
  form,      \* the form's post that the tab waits for
  nav,       \* the GET / that the tab waits for
  agent,     \* the post that the API client waits for
  intents    \* history: how many increments the users meant

service == <<log, outcome, answer>>
vars == <<service, posted, page, sent, form, nav, agent, intents>>

S == INSTANCE CounterService

Blank(view) ==
  [view |-> view, shown |-> Saved, scripted |-> FALSE, busy |-> FALSE, status |-> "none",
   own |-> None, old |-> FALSE]
NoNav == [is |-> "none", value |-> Saved, own |-> None, old |-> FALSE]

Init ==
  /\ S!Init
  /\ posted = 0 /\ page = Blank("blank") /\ sent = {} /\ form = None
  /\ nav = NoNav /\ agent = None /\ intents = 0

New == posted + 1
Post == posted < MaxPosts /\ posted' = New
Meant == intents' = intents + 1

-----------------------------------------------------------------------------
(* The server: routes.rs between the clients and the counter service.      *)

AnsweredPost(c) == c # None /\ outcome[c] \notin {"idle", "pending", "gone"}

\* mutant: what is not known to be saved may be sent again
CodeBlind(c) == CASE outcome[c] \in {"ok", "lost"} -> 200
                  [] outcome[c] \in {"refused", "unknown"} -> 429
                  [] outcome[c] = "failed" -> 500
Code(c) == CASE outcome[c] \in {"ok", "lost"} -> 200
             [] outcome[c] = "refused" -> 429
             [] outcome[c] \in {"failed", "unknown"} -> 500

\* Post c arrives, is executed, is answered, or its handler is dropped.
Serve(c) ==
  /\ c <= posted
  /\ \/ S!Submit(c) \/ S!Refuse(c) \/ S!Apply(c)
     \/ S!Acknowledge(c) \/ S!Fail(c) \/ S!Abandon(c)
  /\ UNCHANGED <<posted, page, sent, form, nav, agent, intents>>

\* pages::index reads the counter; the page is on its way.
RenderPage ==
  /\ nav.is = "asked"
  /\ nav' = [nav EXCEPT !.is = "rendered", !.value = Saved + Len(log), !.old = FALSE]
  /\ UNCHANGED <<service, posted, page, sent, form, agent, intents>>

\* The application ends, and another one goes on from the first n increments: from all
\* of them, unless the file was lost.  The posts in its hands are "gone", unanswered; a
\* "lost" one was told that it is saved, and is not.
Restart(n) ==
  /\ log' = SubSeq(log, 1, n)
  /\ outcome' = [c \in Caller |->
       IF outcome[c] \in {"pending", "unknown"} THEN "gone"
       ELSE IF outcome[c] = "ok" /\ \A i \in 1..n : log[i] # c THEN "lost"
       ELSE outcome[c]]
  /\ page' = [page EXCEPT !.old = @ \/ (page.view = "page" /\ n < Len(log))]
  /\ nav' = [nav EXCEPT !.old = @ \/ (nav.is = "rendered" /\ n < Len(log))]
  /\ UNCHANGED <<answer, posted, sent, form, agent, intents>>

-----------------------------------------------------------------------------
(* counter.js *)

ClickBusy ==   \* mutant: without the disabled button
  /\ page.view = "page" /\ page.scripted
  /\ Post /\ Meant /\ sent' = sent \cup {New}
  /\ page' = [page EXCEPT !.busy = TRUE, !.status = "saving"]
  /\ UNCHANGED <<service, form, nav, agent>>

Click ==
  /\ page.view = "page" /\ page.scripted /\ ~page.busy
  /\ Post /\ Meant /\ sent' = sent \cup {New}
  /\ page' = [page EXCEPT !.busy = TRUE, !.status = "saving"]
  /\ UNCHANGED <<service, form, nav, agent>>

FinishIfSaved(c, shown, status) ==   \* mutant: without the finally
  /\ sent' = sent \ {c}
  /\ page' = [page EXCEPT !.busy = status # "saved", !.shown = shown, !.status = status]
  /\ UNCHANGED <<service, posted, form, nav, agent, intents>>

Finish(c, shown, status) ==
  /\ sent' = sent \ {c}
  /\ page' = [page EXCEPT !.busy = FALSE, !.shown = shown, !.status = status]
  /\ UNCHANGED <<service, posted, form, nav, agent, intents>>

Confirms(c) == Code(c) = 200 /\ answer[c] <= MaxSafe

Reply(c) ==
  /\ c \in sent /\ AnsweredPost(c)
  /\ IF Confirms(c) THEN Finish(c, answer[c], "saved") ELSE Finish(c, page.shown, "unsure")

\* The request or its reply is lost.
Lost(c) == c \in sent /\ Finish(c, page.shown, "unsure")

-----------------------------------------------------------------------------
(* The tab without the script, and its navigations.                        *)

\* The form's own POST, or a failed one that the user confirms to repeat.
SubmitForm ==
  /\ page.view = "failed" \/ (page.view = "page" /\ ~page.scripted)
  /\ Post /\ Meant /\ form' = New /\ nav' = NoNav
  /\ UNCHANGED <<service, page, sent, agent>>

Ask ==
  /\ nav' = [NoNav EXCEPT !.is = "asked"] /\ form' = None
  /\ UNCHANGED <<service, posted, page, sent, agent, intents>>

RedirectsAlways(c) == TRUE   \* mutant: the error of an increment is dropped
\* pages::increment
Redirects(c) == Code(c) = 200

FormReply ==
  /\ AnsweredPost(form) /\ form' = None
  /\ IF Redirects(form)
     THEN nav' = [NoNav EXCEPT !.is = "asked", !.own = form] /\ UNCHANGED <<page, sent>>
     ELSE page' = Blank("failed") /\ sent' = {} /\ UNCHANGED nav
  /\ UNCHANGED <<service, posted, agent, intents>>

FormLost ==
  /\ form # None /\ form' = None /\ page' = Blank("failed") /\ sent' = {}
  /\ UNCHANGED <<service, posted, nav, agent, intents>>

\* Whether the script is on the page, Site tells.
Arrive ==
  /\ nav.is = "rendered" /\ nav' = NoNav /\ sent' = {}
  /\ \E scripted \in BOOLEAN :
       page' = [Blank("page") EXCEPT !.shown = nav.value, !.own = nav.own, !.old = nav.old,
                                       !.scripted = scripted]
  /\ UNCHANGED <<service, posted, form, agent, intents>>

\* The reads fail, or the reply is lost.
NavFails ==
  /\ nav.is # "none" /\ nav' = NoNav /\ sent' = {} /\ page' = Blank("blank")
  /\ UNCHANGED <<service, posted, form, agent, intents>>

-----------------------------------------------------------------------------
(* The API client.                                                         *)

AgentPost ==
  /\ agent = None /\ Post /\ Meant /\ agent' = New
  /\ UNCHANGED <<service, page, sent, form, nav>>

AgentRetry ==
  /\ AnsweredPost(agent) /\ Code(agent) = 429 /\ Post /\ agent' = New
  /\ UNCHANGED <<service, page, sent, form, nav, intents>>

\* It has an answer that it must not retry on, gives up, or loses the reply.
AgentStop ==
  /\ agent # None /\ agent' = None
  /\ UNCHANGED <<service, posted, page, sent, form, nav, intents>>

-----------------------------------------------------------------------------
Next ==
  \/ \E c \in Caller : Serve(c) \/ Reply(c) \/ Lost(c)
  \/ \E n \in 0..Len(log) : Restart(n)
  \/ RenderPage \/ Click \/ SubmitForm \/ Ask
  \/ FormReply \/ FormLost \/ Arrive \/ NavFails \/ AgentPost \/ AgentRetry \/ AgentStop

Spec == Init /\ [][Next]_vars

\* The network delivers the reply to the page's request or reports its loss.
FairSpec == Spec /\ WF_vars(\E c \in Caller : Reply(c) \/ Lost(c))

-----------------------------------------------------------------------------
(* Properties. *)

\* Types; the button is disabled just as long as its one request is under way.
TypeOK ==
  /\ page.view \in {"blank", "page", "failed"} /\ page.shown \in Nat
  /\ page.own \in 0..posted /\ nav.own \in 0..posted
  /\ {page.scripted, page.busy, page.old, nav.old} \subseteq BOOLEAN
  /\ page.status \in {"none", "saving", "saved", "unsure"}
  /\ nav.is \in {"none", "asked", "rendered"} /\ nav.value \in Nat
  /\ posted \in 0..MaxPosts /\ form \in 0..posted /\ agent \in 0..posted
  /\ intents \in 0..posted /\ sent \subseteq 1..posted
  /\ Cardinality(sent) <= 1
  /\ page.busy <=> sent # {}

\* No click or request of a user counts twice, although replies are lost, posts are
\* executed after their client gave up, and refused posts are sent again.
OncePerIntent == Len(log) <= intents

\* The page that a form leads to shows the form's own increment, also after restarts and
\* losses, unless that increment is itself among the lost ones.
FormShowsItself ==
  page.own # None /\ outcome[page.own] # "lost" =>
    \E i \in DOMAIN log : log[i] = page.own /\ page.shown >= Saved + i

\* As long as a page lives its counter never falls and is never ahead of what is saved,
\* until increments are lost that the page may have counted: a restart alone, or a loss
\* before the page was rendered, is no excuse.
NeverBackwards ==
  [][Arrive \/ (page.view = "page" /\ page'.view = "page" /\ ~page'.old =>
       page.shown <= page'.shown /\ page'.shown <= Saved + Len(log'))]_vars

\* The button comes back, whatever becomes of its request, given that the browser
\* reports a lost one: fetch has no timeout of its own.
ButtonReturns == page.busy ~> ~page.busy
=============================================================================
