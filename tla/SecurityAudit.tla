---------------------------- MODULE SecurityAudit ----------------------------
(***************************************************************************)
(* The security audit derived from a session's durable runtime events      *)
(* (harness/src/security-audit.ts), for the events of one tool call in     *)
(* durable order.  The projection keeps permission entries by capability   *)
(* and one approval transaction, and reports the issues of each; a call is *)
(* inconsistent when it has an issue other than something still missing.   *)
(* Resource kinds and scopes are copied from the same request object into  *)
(* every event of it, so the metadata comparisons are left out.            *)
(***************************************************************************)
EXTENDS Naturals, Sequences, FiniteSets, FiniteSetsExt

CONSTANT Capabilities

Effects  == {"allow", "deny", "ask"}
Outcomes == {"allow", "deny", "cancelled", "timed_out"}
Statuses == {"completed", "failed", "denied", "cancelled", "timed_out"}

AuditKinds == {"permission.requested", "permission.decided",
               "approval.requested", "approval.terminal", "tool.completed"}

\* A redacted event: the capabilities it is about, and the effect, outcome or
\* status it carries.
AuditEvent(kind, capabilities, outcome) ==
  [kind |-> kind, capabilities |-> capabilities, outcome |-> outcome]

AuditEvents == [kind : AuditKinds, capabilities : SUBSET Capabilities,
                outcome : Effects \cup Outcomes \cup Statuses \cup {"none"}]

At(history, kind) == {k \in DOMAIN history : history[k].kind = kind}

OfCapability(history, kind, capability) ==
  {k \in At(history, kind) : capability \in history[k].capabilities}

\* What the first of these events carries: the projector reads group[0].
FirstOutcome(history, positions) ==
  IF positions = {} THEN "none" ELSE history[Min(positions)].outcome

Decision(history, capability) ==
  FirstOutcome(history, OfCapability(history, "permission.decided", capability))

Entries(history) ==
  {c \in Capabilities : OfCapability(history, "permission.requested", c)
                          \cup OfCapability(history, "permission.decided", c) # {}}

-----------------------------------------------------------------------------

\* createV2Entry
PermissionIssues(history, capability) ==
  LET requests  == OfCapability(history, "permission.requested", capability)
      decisions == OfCapability(history, "permission.decided", capability)
      found     == [orphan_decision         |-> requests = {},
                    duplicate_request       |-> Cardinality(requests) > 1,
                    missing_decision        |-> decisions = {},
                    duplicate_decision      |-> Cardinality(decisions) > 1,
                    decision_before_request |-> /\ requests # {} /\ decisions # {}
                                                /\ Min(decisions) < Min(requests)]
  IN  {issue \in DOMAIN found : found[issue]}

\* createApprovalEntry
ApprovalIssues(history) ==
  LET requests  == At(history, "approval.requested")
      terminals == At(history, "approval.terminal")
      some      == requests \cup terminals # {}
      found     == [orphan_approval_terminal    |-> some /\ requests = {},
                    duplicate_approval_request  |-> Cardinality(requests) > 1,
                    missing_approval_terminal   |-> some /\ terminals = {},
                    duplicate_approval_terminal |-> Cardinality(terminals) > 1,
                    approval_terminal_before_request |->
                      /\ requests # {} /\ terminals # {}
                      /\ Min(terminals) < Min(requests)]
  IN  {issue \in DOMAIN found : found[issue]}

\* expectedToolStatusForApproval: may the tool have ended like this?
StatusFitsApproval(outcome, status) ==
  CASE outcome = "allow"     -> status # "denied"
    [] outcome = "deny"      -> status = "denied"
    [] outcome = "cancelled" -> status = "cancelled"
    [] outcome = "timed_out" -> status = "timed_out"
    [] OTHER                 -> TRUE

\* applyToolTerminalVerification
TerminalIssues(history) ==
  LET terminals == At(history, "tool.completed")
      status    == FirstOutcome(history, terminals)
      effects   == {Decision(history, c) : c \in Entries(history)} \ {"none"}
      ended     == terminals # {} /\ effects # {}
      asked     == ended /\ "deny" \notin effects /\ "ask" \in effects
      approvals == At(history, "approval.requested") \cup At(history, "approval.terminal")
      required  == {c \in Entries(history) : Decision(history, c) = "ask"}
      found ==
        [duplicate_terminal |-> Entries(history) # {} /\ Cardinality(terminals) > 1,
         missing_terminal   |-> effects # {} /\ terminals = {},
         deny_must_not_execute |-> ended /\ "deny" \in effects /\ status # "denied",
         ask_requires_approval |-> asked /\ approvals = {},
         approval_requirement_mismatch |->
           /\ asked /\ approvals # {}
           /\ history[Min(approvals)].capabilities # required,
         approval_tool_terminal_mismatch |->
           /\ asked /\ approvals # {}
           /\ ~StatusFitsApproval(
                 FirstOutcome(history, At(history, "approval.terminal")), status),
         allow_cannot_be_policy_blocked |->
           ended /\ effects = {"allow"} /\ status = "denied"]
  IN  {issue \in DOMAIN found : found[issue]}

\* projectSecurityAuditTimeline, for one tool call.
AuditIssues(history) ==
  (UNION {PermissionIssues(history, c) : c \in Entries(history)})
    \cup ApprovalIssues(history) \cup TerminalIssues(history)

\* resolveEntryStatus / resolveApprovalStatus: issues that only say that the
\* call is not over.
Consistent(history) ==
  AuditIssues(history) \subseteq
    {"missing_decision", "missing_terminal", "missing_approval_terminal"}

=============================================================================
