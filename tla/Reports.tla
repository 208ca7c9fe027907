------------------------------- MODULE Reports -------------------------------
(***************************************************************************)
(* report.py: an agent reports a problem, and with the user's consent the  *)
(* report becomes an issue on GitHub, or a comment on the issue that has   *)
(* it already.  One report at a time holds the lock; the ledger says for   *)
(* every kind what has become of it.  Any step may be the last one, any    *)
(* answer of GitHub may be lost, and its search lags behind.               *)
(***************************************************************************)
EXTENDS Naturals, FiniteSets

CONSTANTS Agents, Problems,
          Reportings,   \* bounds the reports
          Changes,      \* and the changes of consent
          NoAgent

ASSUME ReportsAssumption ==
  /\ Problems # {} /\ NoAgent \notin Agents
  /\ Reportings \in Nat /\ Changes \in Nat

VARIABLES consent,   \* reporting.json
          holder,    \* of the lock of the directory reports
          ledger,    \* ledger.json: by kind, what was tried and the URL
          report,    \* what the agents are at
          github,    \* by kind: the issues with its marker, the comments, and what search finds
          reports,   \* how many there were,
          changes    \* and how often consent changed

reportvars == <<consent, holder, ledger, report, github, reports, changes>>

Row0 == [status |-> "none", url |-> FALSE]
RowTypes == [status : {"none", "tried", "uncertain", "published", "commented", "deduplicated"}, url : BOOLEAN]

NoReport == [pc |-> "idle", kind |-> CHOOSE k \in Problems : TRUE, row |-> Row0, found |-> FALSE]

ReportsTypeOK ==
  /\ consent \in BOOLEAN /\ holder \in Agents \cup {NoAgent}
  /\ ledger \in [Problems -> RowTypes]
  /\ report \in [Agents -> [pc : {"idle", "draft", "search", "answer", "post", "record"}, kind : Problems,
                            row : RowTypes, found : BOOLEAN]]
  /\ github \in [Problems -> [own : 0..Reportings, comments : 0..Reportings, foreign : BOOLEAN,
                           indexed : BOOLEAN]]
  /\ reports \in 0..Reportings /\ changes \in 0..Changes

\* Somebody else may have reported it before.
ReportsInit ==
  /\ consent \in BOOLEAN /\ holder = NoAgent
  /\ ledger = [k \in Problems |-> Row0]
  /\ report = [a \in Agents |-> NoReport]
  /\ \E S \in SUBSET Problems :
       github = [k \in Problems |-> [own |-> 0, comments |-> 0, foreign |-> k \in S, indexed |-> FALSE]]
  /\ reports = 0 /\ changes = 0

(***************************************************************************)
(* report and _report                                                      *)
(***************************************************************************)
\* A second report while one is handled is turned away: busy.
Reported(a, k) ==
  /\ report[a].pc = "idle" /\ reports < Reportings /\ reports' = reports + 1
  /\ IF holder # NoAgent THEN UNCHANGED <<holder, report>>
     ELSE /\ holder' = a
          /\ report' = [report EXCEPT ![a] = [NoReport EXCEPT !.pc = "draft", !.kind = k]]
  /\ UNCHANGED <<consent, ledger, github, changes>>

ReportEnds(a) == report' = [report EXCEPT ![a] = NoReport] /\ holder' = NoAgent
Continues(a, pc) == report' = [report EXCEPT ![a].pc = pc] /\ UNCHANGED holder
Kind(a) == report[a].kind

\* The draft is written; with consent, and without a URL for it, the attempt is
\* recorded.  A ledger that cannot be saved ends it.
Drafted(a) ==
  LET row == ledger[Kind(a)]
      tried == [row EXCEPT !.status = IF @ = "none" THEN "tried" ELSE @]
  IN /\ report[a].pc = "draft"
     /\ \/ ReportEnds(a) /\ UNCHANGED ledger
        \/ /\ consent /\ ~row.url
           /\ ledger' = [ledger EXCEPT ![Kind(a)] = tried]
           /\ report' = [report EXCEPT ![a].pc = "search", ![a].row = tried]
           /\ UNCHANGED holder
     /\ UNCHANGED <<consent, github, reports, changes>>

Exists(k) == github[k].own > 0 \/ github[k].foreign

\* GitHub is asked for issues with the marker; without an answer the report stays
\* pending.
Searched(a) ==
  /\ report[a].pc = "search"
  /\ \/ ReportEnds(a)
     \/ /\ report' = [report EXCEPT ![a].pc = "answer",
                        ![a].found = Exists(Kind(a)) /\ github[Kind(a)].indexed]
        /\ UNCHANGED holder
  /\ UNCHANGED <<consent, ledger, github, reports, changes>>

\* Mutant: a post is recorded only when it has been answered.
AnsweredPostFirst(a) ==
  /\ report[a].pc = "answer"
  /\ IF consent THEN Continues(a, "post") ELSE ReportEnds(a)
  /\ UNCHANGED <<consent, ledger, github, reports, changes>>

\* Consent is looked up again.  After an uncertain submission only the URL is
\* looked for; otherwise the submission is recorded as uncertain before it starts.
Answered(a) ==
  LET k == Kind(a)
      row == report[a].row
  IN /\ report[a].pc = "answer"
     /\ IF ~consent THEN ReportEnds(a) /\ UNCHANGED ledger
        ELSE IF row.status = "uncertain"
        THEN /\ ReportEnds(a)
             /\ \/ UNCHANGED ledger
                \/ /\ report[a].found
                   /\ ledger' = [ledger EXCEPT ![k] = [status |-> "deduplicated", url |-> TRUE]]
        ELSE \/ Continues(a, "post") /\ ledger' = [ledger EXCEPT ![k].status = "uncertain"]
             \/ ReportEnds(a) /\ UNCHANGED ledger          \* it cannot be saved
     /\ UNCHANGED <<consent, github, reports, changes>>

\* A comment where an issue was found, or an issue.  GitHub may have accepted it
\* although no answer comes.
Posts(a) ==
  LET k == Kind(a)
  IN /\ report[a].pc = "post"
     /\ \/ /\ github' = IF report[a].found THEN [github EXCEPT ![k].comments = @ + 1]
                        ELSE [github EXCEPT ![k].own = @ + 1]
           /\ Continues(a, "record") \/ ReportEnds(a)
        \/ ReportEnds(a) /\ UNCHANGED github
     /\ UNCHANGED <<consent, ledger, reports, changes>>

\* The URL is saved, or cannot be.
Recorded(a) ==
  /\ report[a].pc = "record"
  /\ ReportEnds(a)
  /\ \/ ledger' = [ledger EXCEPT ![Kind(a)] =
                     [status |-> IF report[a].found THEN "commented" ELSE "published", url |-> TRUE]]
     \/ UNCHANGED ledger
  /\ UNCHANGED <<consent, github, reports, changes>>

(***************************************************************************)
(* The world.                                                              *)
(***************************************************************************)
\* The command is killed, and its lock is free.
ReporterKilled(a) ==
  /\ report[a].pc # "idle" /\ ReportEnds(a)
  /\ UNCHANGED <<consent, ledger, github, reports, changes>>

ConsentChanges ==
  /\ changes < Changes /\ changes' = changes + 1
  /\ consent' = ~consent
  /\ UNCHANGED <<holder, ledger, report, github, reports>>

\* The search catches up.
Indexed(k) ==
  /\ ~github[k].indexed /\ Exists(k)
  /\ github' = [github EXCEPT ![k].indexed = TRUE]
  /\ UNCHANGED <<consent, holder, ledger, report, reports, changes>>

\* On another machine somebody has the same problem.
OthersReport(k) ==
  /\ ~github[k].foreign
  /\ github' = [github EXCEPT ![k].foreign = TRUE]
  /\ UNCHANGED <<consent, holder, ledger, report, reports, changes>>

ReportsNext ==
  \/ ConsentChanges
  \/ \E a \in Agents : \/ \E k \in Problems : Reported(a, k)
                       \/ Drafted(a) \/ Searched(a) \/ Answered(a) \/ Posts(a) \/ Recorded(a)
                       \/ ReporterKilled(a)
  \/ \E k \in Problems : Indexed(k) \/ OthersReport(k)

ReportsSpec == ReportsInit /\ [][ReportsNext]_reportvars

(***************************************************************************)
(* Properties.                                                             *)
(***************************************************************************)
\* report.py:394-395: "A timeout/crash after GitHub accepts a request must not
\* create a second issue or comment on the next call."  For every kind this
\* installation has posted at most once, and a URL in the ledger is of an issue.
OnePost ==
  \A k \in Problems :
    /\ github[k].own + github[k].comments <= 1
    /\ ledger[k].url => Exists(k)
=============================================================================
