------------------------------- MODULE Access -------------------------------
(***************************************************************************)
(* Row-level security (persistence/db/rls.py, the policies of migration    *)
(* b7d2f4a8c613): which counterparties a signed-in user sees, as the       *)
(* database, the API, the reports and the real-time token read it.         *)
(*                                                                         *)
(* The code writes a scope as a string, "*" or a comma-separated list.     *)
(***************************************************************************)
EXTENDS Naturals, FiniteSets

CONSTANTS
  Cps, Users, RoleOf(_),
  Reassigned  \* bound: the counterparties whose access rows change

FIRM_WIDE_ROLES == {"approver", "manager", "auditor"}

ASSUME RolesAssumption == \A u \in Users : RoleOf(u) \in FIRM_WIDE_ROLES \cup {"viewer"}

VARIABLES
  access,  \* the user_counterparty_access rows of each user
  granted  \* history: all a user was given during the request under way

accessVars == <<access, granted>>

FIRM_WIDE == [all |-> TRUE, cps |-> {}]

scope_for(u) ==
  IF RoleOf(u) \in FIRM_WIDE_ROLES THEN FIRM_WIDE ELSE [all |-> FALSE, cps |-> access[u]]

can_see(scope, cp) == scope = FIRM_WIDE \/ cp \in scope.cps

\* The database's own rule: a table's policy lets these rows through.
app_can_see(scope, cp) == scope.all \/ cp \in scope.cps

\* The claims of a real-time token, and the Firestore rule that reads them.
scope_claims(scope) ==
  IF scope = FIRM_WIDE THEN [firm_wide |-> TRUE, cps |-> {}]
  ELSE [firm_wide |-> FALSE, cps |-> scope.cps]

allow_read(claims, cp) == claims.firm_wide \/ cp \in claims.cps

\* What a report query is given.
report_scope(scope) ==
  IF scope = FIRM_WIDE THEN [scope_all |-> TRUE, counterparty_ids |-> {}]
  ELSE [scope_all |-> FALSE, counterparty_ids |-> scope.cps]

AccessInit ==
  /\ access = [u \in Users |-> IF RoleOf(u) = "viewer" THEN Cps ELSE {}]
  /\ granted = [u \in Users |-> {}]

Visible(u) == {cp \in Cps : can_see(scope_for(u), cp)}

\* Accounts and their rows are managed outside this code.
EditAccess(u, cp, asking) ==
  /\ RoleOf(u) = "viewer" /\ cp \in Reassigned
  /\ access' = [access EXCEPT ![u] = IF cp \in @ THEN @ \ {cp} ELSE @ \cup {cp}]
  /\ granted' = IF asking THEN [granted EXCEPT ![u] = @ \cup access'[u]] ELSE granted

Begins(u) == granted' = [granted EXCEPT ![u] = Visible(u)]

Ends(u) == granted' = [granted EXCEPT ![u] = {}]

\* Every way the code reads a scope lets the same counterparties through:
\* the policies, the check on one run, a report's parameters and the claims
\* a browser's listener is judged by.
ScopesAgree ==
  \A u \in Users, cp \in Cps :
    LET scope == scope_for(u)
        sees == app_can_see(scope, cp)
        report == report_scope(scope)
    IN /\ sees = can_see(scope, cp)
       /\ sees = allow_read(scope_claims(scope), cp)
       /\ sees = (report.scope_all \/ cp \in report.counterparty_ids)
=============================================================================
