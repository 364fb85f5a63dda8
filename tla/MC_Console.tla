----------------------------- MODULE MC_Console -----------------------------
(***************************************************************************)
(* The parts around the margin call, an instance each; the feed twice, as  *)
(* its rows are edited and as later triggers reach its runs.  They share   *)
(* no variable but the access rows, so they are explored one at a time.    *)
(***************************************************************************)
EXTENDS Status, Feed, Reports, Notices

VARIABLE part

MCRoleOf(u) == IF u = "ana" THEN "viewer" ELSE "approver"
MCEditions == <<[sections |-> <<"Threshold", "Dispute">>, carries |-> {"Acme", "Beta", "account"}],
                [sections |-> <<"Threshold", "Rounding", "Dispute">>, carries |-> {"denied"}],
                [sections |-> <<"Threshold", "Dispute">>, carries |-> {"inject"}]>>
MCInstanceOf(k) == IF k = "k3" THEN "p2" ELSE "p1"

Init ==
  /\ StatusInit /\ FeedInit /\ ReportsInit /\ NoticesInit
  /\ part \in {"status", "feed", "retriggers", "reports", "notices"}
  /\ part = "reports" \/ report = "exposure"
  /\ part = "notices" \/ mode = "pdf"

StatusPart == part = "status" /\ StatusNext /\ UNCHANGED <<part, feedVars, reportVars, noticeVars>>

Beside == UNCHANGED <<part, statusVars, clock, report, loaded, cache, req, asked, noticeVars>>
FeedPart == part = "feed" /\ FeedNext /\ Beside /\ \A i \in DOMAIN runs' : ~runs'[i].looked

\* One run, which later triggers reach.
RetriggersPart == part = "retriggers" /\ FeedNext /\ Beside /\ Len(runs') <= 1

ReportsPart == part = "reports" /\ ReportsNext /\ UNCHANGED <<part, statusVars, runs, read, noticeVars>>
NoticesPart == part = "notices" /\ NoticesNext /\ UNCHANGED <<part, statusVars, feedVars, reportVars>>

Next == StatusPart \/ FeedPart \/ RetriggersPart \/ ReportsPart \/ NoticesPart

Spec == Init /\ [][Next]_<<part, statusVars, feedVars, reportVars, noticeVars>>
=============================================================================
