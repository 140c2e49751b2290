----------------------------- MODULE Selection -----------------------------
(***************************************************************************)
(* Selection of the repository issue that contains a task: `issue select`  *)
(* takes a lease on the scope, searches GitHub over open and closed issues,*)
(* then reuses a match or creates an issue, and writes an immutable receipt*)
(* for the task; a launch verifies the selected issue and binds the task to*)
(* it.  Tasks of another scope (repository, title, text) have another lease*)
(* and see other issues: one scope is modelled.                            *)
(*                                                                         *)
(* Store operations are atomic; GitHub is read issue by issue while people *)
(* work there, and a POST may be lost, land late, or land without an       *)
(* answer.  A command that is refused before it has the lease, or answered *)
(* from the receipt of its task, changes nothing.                          *)
(***************************************************************************)
EXTENDS Integers, Sequences, FiniteSets

CONSTANTS
  Searches,      \* executions of `issue select`, each with its own attempt id
  Tasks,         \* tasks of the scope
  Coordinators,  \* the Shotcallers that select for them
  Reopens,       \* settled issue_reopen actions, named by their receipt digests
  MaxEdits,      \* bound: what people do on GitHub
  NoAttempt, NoTask, NoReopen

ASSUME SelectionAssumption ==
  /\ MaxEdits \in Nat
  /\ NoAttempt \notin Searches
  /\ NoTask \notin Tasks
  /\ NoReopen \notin Reopens

VARIABLES
  issues,        \* GitHub: by number, whether it is open, what it says, who made it
  edits,         \* how often people changed them
  post,          \* per attempt: its POST, none, sent (may still land), landed or lost
  selecting,     \* the row of repository_issue_selection_leases
  receipt,       \* repository_issue_selection_receipts, by task
  reopened,      \* per reopen action: the issue it names, 0 while it is not settled
  retired,       \* agent_instances.retired_at of the coordinators
  attempt,       \* one execution of GitHubIssueSelectionService.select
  verified,      \* launches that have verified the selected issue of their task
  bound,         \* repository_issue_bindings, by task: an issue, 0 without a row
  overtaken      \* history: a lease ended while its owner, or its POST, was under way

selectionVars == <<issues, edits, post, selecting, receipt, reopened, retired, attempt,
                   verified, bound, overtaken>>

Maker == Searches \cup {NoAttempt}

NoLease == [state |-> "none", owner |-> NoAttempt, task |-> NoTask, version |-> 0,
            lapsed |-> FALSE]

NoReceipt == [issue |-> 0, decision |-> "none", version |-> 0, reopen |-> NoReopen]

Unstarted == [step |-> "idle", task |-> NoTask, by |-> NoTask, reopen |-> NoReopen, version |-> 0,
         next |-> 1, found |-> {}, issue |-> 0, decision |-> "none"]

Numbers == 0..Len(issues)

SelectionType ==
  /\ issues \in Seq([open : BOOLEAN, says : {"exact", "incomplete", "other"}, by : Maker])
  /\ edits \in 0..MaxEdits
  /\ post \in [Searches -> {"none", "sent", "landed", "lost"}]
  /\ selecting \in [state : {"none", "available", "selecting", "completed"}, owner : Maker,
                    task : Tasks \cup {NoTask}, version : Nat, lapsed : BOOLEAN]
  /\ receipt \in [Tasks -> [issue : Numbers, version : Nat, reopen : Reopens \cup {NoReopen},
                            decision : {"none", "reuse_open", "reopen_closed", "create_distinct"}]]
  /\ reopened \in [Reopens -> Numbers]
  /\ retired \subseteq Coordinators
  /\ \A a \in Searches :
       attempt[a].step \in {"idle", "searching", "posting", "chosen", "releasing", "over"}
  /\ verified \subseteq Tasks
  /\ bound \in [Tasks -> Numbers]
  /\ overtaken \in BOOLEAN

SelectionInit ==
  /\ issues = <<>>
  /\ edits = 0
  /\ post = [a \in Searches |-> "none"]
  /\ selecting = NoLease
  /\ receipt = [t \in Tasks |-> NoReceipt]
  /\ reopened = [d \in Reopens |-> 0]
  /\ retired = {}
  /\ attempt = [a \in Searches |-> Unstarted]
  /\ verified = {}
  /\ bound = [t \in Tasks |-> 0]
  /\ overtaken = FALSE

github == <<issues, edits>>
store == <<selecting, receipt, reopened, retired, bound>>

-----------------------------------------------------------------------------
(* The store. *)

\* What a finished execution leaves behind is the attempt id of its task.
Over(a) == attempt' = [attempt EXCEPT ![a] = [Unstarted EXCEPT !.step = "over", !.task = attempt[a].task]]

\* select raises, after it has released its lease.
Abandon(a) ==
  attempt' = [attempt EXCEPT ![a] = [Unstarted EXCEPT !.step = "releasing", !.task = attempt[a].task,
                                                 !.version = attempt[a].version]]

Free == selecting.state # "selecting" \/ selecting.lapsed

\* begin_issue_selection, past the receipt of the task: the lease is taken
\* when nobody holds it.
BeginIssueSelection(a, t, c, d) ==
  /\ attempt[a].step = "idle"
  /\ receipt[t] = NoReceipt
  /\ c \notin retired
  /\ Free
  /\ selecting' = [state |-> "selecting", owner |-> a, task |-> t,
                   version |-> selecting.version + 1, lapsed |-> FALSE]
  /\ attempt' = [attempt EXCEPT ![a] = [Unstarted EXCEPT
                   !.step = "searching", !.task = t, !.by = c, !.reopen = d,
                   !.version = selecting.version + 1]]
  /\ UNCHANGED <<github, post, receipt, reopened, retired, verified, bound, overtaken>>

Fenced(a) ==
  /\ selecting.state = "selecting"
  /\ selecting.owner = a
  /\ selecting.version = attempt[a].version

\* Mutant of HoldsLease: only the task of the lease is compared.
HoldsTask(a) == selecting.task = attempt[a].task

\* A completion is that of the attempt and task that hold the lease now.
HoldsLease(a) == Fenced(a) /\ selecting.task = attempt[a].task

\* verify_issue_reopen_authority: the action has succeeded, for this issue (and
\* for the coordinator, which owns the actions of its tasks).
Authorizes(d, i) == d # NoReopen /\ reopened[d] = i

\* A reopen receipt settles one selection (UNIQUE reopen_action_receipt_digest).
Unused(d) == \A t \in Tasks : receipt[t].reopen = d => d = NoReopen

MayComplete(a) ==
  /\ HoldsLease(a)
  /\ attempt[a].by \notin retired
  /\ attempt[a].decision = "reopen_closed" => Authorizes(attempt[a].reopen, attempt[a].issue)
  /\ Unused(attempt[a].reopen)
  /\ receipt[attempt[a].task] = NoReceipt

\* complete_issue_selection, or its refusal, which select answers with a release.
CompleteIssueSelection(a) ==
  /\ attempt[a].step = "chosen"
  /\ IF MayComplete(a)
     THEN /\ receipt' = [receipt EXCEPT ![attempt[a].task] =
                           [issue |-> attempt[a].issue, decision |-> attempt[a].decision,
                            version |-> attempt[a].version, reopen |-> attempt[a].reopen]]
          /\ selecting' = [selecting EXCEPT !.state = "completed", !.owner = NoAttempt,
                                            !.version = @ + 1, !.lapsed = FALSE]
          /\ Over(a)
     ELSE /\ Abandon(a)
          /\ UNCHANGED <<receipt, selecting>>
  /\ UNCHANGED <<github, post, reopened, retired, verified, bound, overtaken>>

\* release_issue_selection: without the owner fence it is refused.
ReleaseIssueSelection(a) ==
  /\ attempt[a].step = "releasing"
  /\ Over(a)
  /\ selecting' = IF Fenced(a)
                  THEN [selecting EXCEPT !.state = "available", !.owner = NoAttempt,
                                         !.version = @ + 1, !.lapsed = FALSE]
                  ELSE selecting
  /\ UNCHANGED <<github, post, receipt, reopened, retired, verified, bound, overtaken>>

-----------------------------------------------------------------------------
(* The search and the choice. *)

\* Mutant of Match: the listing is of the open issues.
MatchOpen(i) == issues[i].says = "exact" /\ issues[i].open

\* An issue with the normalized title and the text of the scope, in any state.
Match(i) == issues[i].says = "exact"

\* _all_issues goes through the issues in the order of their creation.  One
\* with the title but without the required sections ends the selection.
Look(a) ==
  LET i == attempt[a].next IN
  /\ attempt[a].step = "searching"
  /\ i <= Len(issues)
  /\ IF issues[i].says = "incomplete"
     THEN Abandon(a)
     ELSE attempt' = [attempt EXCEPT
            ![a].next = @ + 1,
            ![a].found = IF Match(i) THEN @ \cup {[issue |-> i, open |-> issues[i].open]} ELSE @]
  /\ UNCHANGED <<github, post, store, verified, overtaken>>

\* A page fails, is malformed, or exceeds the time of the search.
SearchFails(a) ==
  /\ attempt[a].step = "searching"
  /\ Abandon(a)
  /\ UNCHANGED <<github, post, store, verified, overtaken>>

Searched(a) == attempt[a].step = "searching" /\ attempt[a].next > Len(issues)

OpenFound(a) == {f.issue : f \in {g \in attempt[a].found : g.open}}

Lowest(i, S) == i \in S /\ \A j \in S : i <= j

\* The lowest open match wins; with a reopen receipt it must be the reopened one.
MayReuse(a, i) ==
  /\ Lowest(i, OpenFound(a))
  /\ attempt[a].reopen # NoReopen => Authorizes(attempt[a].reopen, i)

\* Closed matches alone are refused, whether or not a reopen is claimed.
ChooseMatch(a) ==
  /\ Searched(a)
  /\ attempt[a].found # {}
  /\ \/ \E i \in OpenFound(a) :
          /\ MayReuse(a, i)
          /\ attempt' = [attempt EXCEPT
               ![a].step = "chosen",
               ![a].next = 1,
               ![a].found = {},
               ![a].issue = i,
               ![a].decision = IF attempt[a].reopen = NoReopen THEN "reuse_open" ELSE "reopen_closed"]
     \/ /\ \A i \in OpenFound(a) : ~MayReuse(a, i)
        /\ Abandon(a)
  /\ UNCHANGED <<github, post, store, verified, overtaken>>

\* No match on the last page.  A receipt of creation carries no reopen
\* authority.
FindNoMatch(a) ==
  /\ Searched(a)
  /\ attempt[a].found = {}
  /\ attempt' = [attempt EXCEPT ![a].step = "posting", ![a].next = 1,
                                   ![a].reopen = NoReopen]
  /\ UNCHANGED <<github, post, store, verified, overtaken>>

\* One POST, whatever was filed since the last page was read.
CreateIssue(a) ==
  /\ attempt[a].step = "posting"
  /\ post[a] = "none"
  /\ post' = [post EXCEPT ![a] = "sent"]
  /\ UNCHANGED <<github, store, attempt, verified, overtaken>>

\* The answer names the issue that was created.
CreateAnswered(a) ==
  /\ attempt[a].step = "posting"
  /\ post[a] = "landed"
  /\ \E i \in DOMAIN issues :
       /\ issues[i].by = a
       /\ attempt' = [attempt EXCEPT
            ![a].step = "chosen", ![a].decision = "create_distinct", ![a].issue = i]
  /\ UNCHANGED <<github, post, store, verified, overtaken>>

\* The call fails, times out, or its answer is lost; the POST may still land.
CreateFails(a) ==
  /\ attempt[a].step = "posting"
  /\ Abandon(a)
  /\ overtaken' = (overtaken \/ post[a] = "sent")
  /\ UNCHANGED <<github, post, store, verified>>

-----------------------------------------------------------------------------
(* The launch of the task. *)

\* build_issue_receipt of GitHubIssueVerifier.verify: the selected issue is open and unchanged.
Verify(t) ==
  /\ receipt[t] # NoReceipt
  /\ bound[t] = 0
  /\ issues[receipt[t].issue].open
  /\ issues[receipt[t].issue].says = "exact"
  /\ verified' = verified \cup {t}
  /\ UNCHANGED <<github, post, store, attempt, overtaken>>

\* prepare_assignment inserts the binding of the task to its selected issue.
InsertIssueBinding(t) ==
  /\ t \in verified
  /\ bound[t] = 0
  /\ bound' = [bound EXCEPT ![t] = receipt[t].issue]
  /\ UNCHANGED <<github, post, selecting, receipt, reopened, retired, attempt, verified, overtaken>>

-----------------------------------------------------------------------------
(* Processes die, time passes, coordinators retire, and GitHub goes on. *)

UnderWay(a) == attempt[a].step \notin {"idle", "over"}

CommandDies(a) ==
  /\ UnderWay(a)
  /\ Over(a)
  /\ UNCHANGED <<github, post, store, verified, overtaken>>

LeaseLapses ==
  /\ selecting.state = "selecting"
  /\ ~selecting.lapsed
  /\ selecting' = [selecting EXCEPT !.lapsed = TRUE]
  /\ overtaken' = (overtaken \/ UnderWay(selecting.owner) \/ post[selecting.owner] = "sent")
  /\ UNCHANGED <<github, post, receipt, reopened, retired, attempt, verified, bound>>

PostLands(a) ==
  /\ post[a] = "sent"
  /\ post' = [post EXCEPT ![a] = "landed"]
  /\ issues' = Append(issues, [open |-> TRUE, says |-> "exact", by |-> a])
  /\ UNCHANGED <<edits, store, attempt, verified, overtaken>>

PostIsLost(a) ==
  /\ post[a] = "sent"
  /\ post' = [post EXCEPT ![a] = "lost"]
  /\ UNCHANGED <<github, store, attempt, verified, overtaken>>

People ==
  /\ edits < MaxEdits
  /\ edits' = edits + 1
  /\ \/ \E says \in {"exact", "incomplete"} :
          issues' = Append(issues, [open |-> TRUE, says |-> says, by |-> NoAttempt])
     \/ \E i \in DOMAIN issues : issues' = [issues EXCEPT ![i].open = ~@]
     \/ \E i \in DOMAIN issues : issues' = [issues EXCEPT ![i].says = "other"]
  /\ UNCHANGED <<post, store, attempt, verified, overtaken>>

\* An issue_reopen action settles as succeeded; the API may not show it yet.
SettleReopen(d, i) ==
  /\ reopened[d] = 0
  /\ reopened' = [reopened EXCEPT ![d] = i]
  /\ UNCHANGED <<github, post, selecting, receipt, retired, attempt, verified, bound, overtaken>>

RetireCoordinator(c) ==
  /\ c \notin retired
  /\ retired' = retired \cup {c}
  /\ UNCHANGED <<github, post, selecting, receipt, reopened, attempt, verified, bound, overtaken>>

SelectionNext ==
  \/ \E a \in Searches, t \in Tasks, c \in Coordinators, d \in Reopens \cup {NoReopen} :
       BeginIssueSelection(a, t, c, d)
  \/ \E a \in Searches :
       \/ Look(a) \/ SearchFails(a) \/ ChooseMatch(a)
       \/ FindNoMatch(a) \/ CreateIssue(a) \/ CreateAnswered(a) \/ CreateFails(a)
       \/ CompleteIssueSelection(a) \/ ReleaseIssueSelection(a)
       \/ CommandDies(a) \/ PostLands(a) \/ PostIsLost(a)
  \/ \E t \in Tasks : Verify(t) \/ InsertIssueBinding(t)
  \/ \E d \in Reopens, i \in DOMAIN issues : SettleReopen(d, i)
  \/ \E c \in Coordinators : RetireCoordinator(c)
  \/ LeaseLapses
  \/ People

SelectionSpec == SelectionInit /\ [][SelectionNext]_selectionVars

-----------------------------------------------------------------------------
Selected(t) == receipt[t] # NoReceipt

\* The receipts of a scope are consistent with its lease, GitHub and the
\* actions, although attempts overtake each other, die, and retry: each
\* acquisition of the lease settles one task at most, and is completed by whoever
\* acquired it, a reopen authority settles one selection and names its issue, an
\* issue is "created" by the selection of the one task that created it, and a
\* task is bound to what was selected.
SelectionsAgree ==
  /\ SelectionType
  /\ selecting.state = "selecting" <=> selecting.owner # NoAttempt
  /\ selecting.state = "completed" =>
       \E t \in Tasks : Selected(t) /\ receipt[t].version = selecting.version - 1
  /\ \A t \in Tasks : Selected(t) =>
       /\ receipt[t].version < selecting.version
       /\ receipt[t].decision = "reopen_closed" => reopened[receipt[t].reopen] = receipt[t].issue
       /\ receipt[t].decision = "create_distinct" =>
            /\ issues[receipt[t].issue].by \in Searches
            /\ attempt[issues[receipt[t].issue].by].task = t
  /\ \A t, u \in Tasks : t # u /\ Selected(t) /\ Selected(u) =>
       /\ receipt[t].version # receipt[u].version
       /\ receipt[t].reopen = receipt[u].reopen => receipt[t].reopen = NoReopen
  /\ \A t \in Tasks : bound[t] # 0 => bound[t] = receipt[t].issue

\* The issues that selections created and that still say what the scope says.
Containers == {i \in DOMAIN issues : issues[i].by \in Searches /\ issues[i].says = "exact"}

\* A scope gets one issue: whoever crashes after a POST, and whenever people
\* close the issue, the next attempt finds it instead of creating another
\* (docs/design/scoped-autonomous-delivery.md:59-61) -- unless a lease ended,
\* by time or by the release after an unanswered POST, with the POST under way.
OneContainer == ~overtaken => Cardinality(Containers) <= 1
=============================================================================
