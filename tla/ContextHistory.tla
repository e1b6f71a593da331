-------------------------- MODULE ContextHistory --------------------------
(***************************************************************************)
(* A session's history as it grows, is compacted and is compacted again:    *)
(* how local-model-transport.ts turns messages, branch summaries and the    *)
(* persisted checkpoint into records, what context-compactor.ts puts in the *)
(* checkpoint that replaces the older ones, and how what must not be        *)
(* forgotten - the required anchors - is carried from one to the next.      *)
(* The entries are numbered in the order of the session tree.               *)
(***************************************************************************)
EXTENDS ContextProjection

CONSTANTS Sizes,        \* the token counts of messages without their tool results
          ResultSizes,  \* the token counts of tool results
          MaxWorkingSet, FullResult,    \* ToolResultWorkingSetPolicy, percentages
          Overhead,     \* tokens of a checkpoint with no facts
          Obedient,     \* does the reducer follow its instructions?
          MaxHistory, MaxBranches, MaxCheckpoints    \* bounds

ASSUME HistoryAssumption ==
    /\ Sizes \subseteq Nat \ {0} /\ ResultSizes \subseteq Nat \ {0}
    /\ FullResult \in 0..MaxWorkingSet /\ MaxWorkingSet \in 0..100
    /\ Overhead \in Nat \ {0} /\ Obedient \in BOOLEAN
    /\ MaxHistory \in Nat /\ MaxBranches \in Nat /\ MaxCheckpoints \in Nat

VARIABLES messages,   \* of the active branch: [id, role, tokens, result, fails]
          branches,   \* its branch summaries: [id, after]
          checkpoint, \* the latest compaction entry on it
          made        \* how many checkpoints were made: the bound

contextVars == <<messages, branches, checkpoint, made>>

\* A checkpoint: the records it stands for, the raw ones that it left, and its
\* facts - [of, priority], the anchor it states and the priority that the
\* section of the checkpoint gives it the next time.
NoCheckpoint == [compacted |-> {}, retained |-> {}, tokens |-> 0, facts |-> {}]
BranchTokens == 1

-----------------------------------------------------------------------------
(* ToolResultWorkingSetManager.project: the results that the checkpoint does *)
(* not stand for, each reduced to the threshold when it is larger.  A message *)
(* carries one result at most; 0 is none.                                    *)

Threshold == Greater(1, Percent(InputBudget, FullResult))
WorkingSetBudget == Percent(InputBudget, MaxWorkingSet)

\* Mutant of ProjectedResult: the newest result is spared.
ProjectedResultUnlessFresh(ms, k) ==
    IF \E j \in k + 1..Len(ms) : ms[j].result > 0
    THEN Lesser(ms[k].result, Threshold) ELSE ms[k].result

ProjectedResult(ms, k) == Lesser(ms[k].result, Threshold)

\* The messages, or the branch summaries, that a checkpoint does not stand for.
Active(ms, cp) == At(ms, {k \in 1..Len(ms) : ms[k].id \notin cp.compacted})
WorkingSet(cp) ==
    LET ms == Active(messages, cp) IN MapThenSumSet(LAMBDA k : ProjectedResult(ms, k), 1..Len(ms))

\* How many tokens the working set is over its budget.
Pressure(cp) == Greater(0, WorkingSet(cp) - WorkingSetBudget)

-----------------------------------------------------------------------------
(* buildContextRecords                                                     *)

\* The interaction and the model cycle of each active message: a user message
\* opens an interaction, and each assistant message after its first a cycle.
Cycles(ms) ==
    LET cycles[k \in 0..Len(ms)] ==
            IF k = 0 THEN [interaction |-> -1, cycle |-> 0, answered |-> FALSE]
            ELSE LET last == cycles[k - 1]
                 IN  IF ms[k].role = "user"
                     THEN [interaction |-> last.interaction + 1, cycle |-> 0,
                           answered    |-> FALSE]
                     ELSE [interaction |-> Greater(last.interaction, 0),
                           cycle       |-> last.cycle + (IF last.answered THEN 1 ELSE 0),
                           answered    |-> TRUE]
    IN  cycles
Cycle(ms, k) == LET at == Cycles(ms)[k] IN <<at.interaction, at.cycle>>

MessageRecord(ms, k) ==
    [id |-> ms[k].id, kind |-> "history", group |-> Cycle(ms, k), split |-> ms[k].id,
     required |-> FALSE, tokens |-> ms[k].tokens + ProjectedResult(ms, k)]
BranchRecord(b) ==
    [id |-> b.id, kind |-> "history", group |-> <<-1, b.id>>, split |-> b.id,
     required |-> FALSE, tokens |-> BranchTokens]
SummaryRecord(tokens) ==
    [id |-> 0, kind |-> "summary", group |-> <<-2, 0>>, split |-> 0,
     required |-> TRUE, tokens |-> tokens]

\* The records of messages and branch summaries under checkpoint cp: what it
\* stands for is left out, and a branch summary comes after its message, or
\* first when the message is gone.
Interleaved(ms, bs) ==
    LET anchor(b) == IF \E k \in 1..Len(ms) : ms[k].id = b.after THEN b.after ELSE 0
        of(those) == [k \in 1..Len(those) |-> BranchRecord(those[k])]
        after(id) == of(At(bs, {k \in 1..Len(bs) : anchor(bs[k]) = id}))
        upto[k \in 0..Len(ms)] ==
            IF k = 0 THEN after(0)
            ELSE upto[k - 1] \o <<MessageRecord(ms, k)>> \o after(ms[k].id)
    IN  upto[Len(ms)]

RecordsOf(all, summaries, cp) ==
    (IF cp = NoCheckpoint THEN <<>> ELSE <<SummaryRecord(cp.tokens)>>)
      \o Interleaved(Active(all, cp), Active(summaries, cp))
Records(cp) == RecordsOf(messages, branches, cp)

-----------------------------------------------------------------------------
(* Anchors and checkpoints                                                 *)

\* collectRequiredAnchors over what a plan replaces: a failed tool call (P0) and
\* a branch summary (P1) of the newly compacted records, ...
Failed(id) == \E k \in 1..Len(messages) : messages[k].id = id /\ messages[k].fails
IsBranch(id) == \E k \in 1..Len(branches) : branches[k].id = id
CompactedIds(plan) == ToSet(IdsOf(plan.compacted))
NewAnchors(plan) ==
    {[of |-> id, priority |-> 0] : id \in {i \in CompactedIds(plan) : Failed(i)}}
      \cup {[of |-> id, priority |-> 1] : id \in {i \in CompactedIds(plan) : IsBranch(i)}}

\* ... and every fact of the previous checkpoint, with the priority of its section.
\* (Mutant: NewAnchors, so that what it states is not required again.)
Anchors(plan) == NewAnchors(plan) \cup checkpoint.facts
P0(anchors) == {a \in anchors : a.priority = 0}

\* The section an anchor's fact is put in decides its priority from then on: a
\* failure stays P0, a source excerpt goes to the current state and is P2.
AsFact(a) == [of |-> a.of, priority |-> IF a.priority = 0 THEN 0 ELSE 2]
Facts(anchors) == {AsFact(a) : a \in anchors}

\* Each fact takes one token.
Fits(facts, plan) == Overhead + Cardinality(facts) <= plan.target

\* buildFallbackCheckpoint: all of P0 or nothing, then what still fits of the
\* rest, P1 before P2.  (Excerpts that fill what is left are not facts anyone
\* carries, but for their tokens.)
FallbackFacts(plan) ==
    LET anchors == Anchors(plan)
    IN  {Facts(kept) : kept \in
          {K \in SUBSET anchors :
            /\ P0(anchors) \subseteq K
            /\ Fits(Facts(K), plan)
            /\ \A a \in anchors \ K : ~Fits(Facts(K \cup {a}), plan)
            /\ \A a \in K, b \in anchors \ K : a.priority <= b.priority}}

\* validateCompactionCheckpointV2 of what the reducer made of the plan: known
\* sources, every P0 anchor's id in its list of covered anchors, within the
\* budget.  Whether a fact states what the list claims is not looked at; the
\* instructions ask for it.
ReducedFacts(plan) ==
    {facts \in SUBSET Facts(Anchors(plan)) :
        /\ Fits(facts, plan)
        /\ Obedient => Facts(P0(Anchors(plan))) \subseteq facts}

\* The checkpoint of an accepted summary, as emitContextCompaction persists it.
CheckpointOf(plan, facts, tokens) ==
    [compacted |-> checkpoint.compacted \cup CompactedIds(plan),
     retained  |-> {plan.retained[k].id : k \in 1..Len(plan.retained)},
     tokens    |-> tokens,
     facts     |-> facts]

-----------------------------------------------------------------------------
ContextInit == messages = <<>> /\ branches = <<>> /\ checkpoint = NoCheckpoint /\ made = 0

Entries == Len(messages) + Len(branches)
NewId == Entries + 1
LastId == IF messages = <<>> THEN 0 ELSE messages[Len(messages)].id

AddUser ==
    /\ Entries < MaxHistory
    /\ \E t \in Sizes :
         messages' = Append(messages, [id |-> NewId, role |-> "user", tokens |-> t,
                                       result |-> 0, fails |-> FALSE])
    /\ UNCHANGED <<branches, checkpoint, made>>

\* An answer, alone or with a tool result, and that of a failed call or not.
AddAssistant ==
    /\ Entries < MaxHistory /\ messages # <<>>
    /\ \E t \in Sizes, result \in {0} \cup ResultSizes, fails \in BOOLEAN :
         /\ fails => result > 0
         /\ messages' = Append(messages, [id |-> NewId, role |-> "assistant", tokens |-> t,
                                          result |-> result, fails |-> fails])
    /\ UNCHANGED <<branches, checkpoint, made>>

AddBranchSummary ==
    /\ Entries < MaxHistory /\ Len(branches) < MaxBranches
    /\ branches' = Append(branches, [id |-> NewId, after |-> LastId])
    /\ UNCHANGED <<messages, checkpoint, made>>

\* The plan of the next model step.
AutomaticPlan ==
    LET of(rs, pressure) == Plan(rs, TriggerFor(rs, pressure > 0), pressure)
    IN  of(Compiled(Records(checkpoint)), Pressure(checkpoint))

\* The plan of compactManually, when the history is eligible.
ManualPlan ==
    LET of(rs) == IF Eligibility(rs, checkpoint.retained) = "eligible"
                  THEN Plan(rs, "manual", 0) ELSE NoPlan
    IN  of(Compiled(Records(checkpoint)))

PossiblePlans == {AutomaticPlan, ManualPlan} \ {NoPlan}

\* A compaction: the reducer's checkpoint, or the fallback's when there is one.
Accept(plan, facts) ==
    /\ checkpoint' = CheckpointOf(plan, facts, Overhead + Cardinality(facts))
    /\ made' = made + 1
    /\ UNCHANGED <<messages, branches>>
CompactSemantically ==
    /\ made < MaxCheckpoints
    /\ \E plan \in PossiblePlans : \E facts \in ReducedFacts(plan) : Accept(plan, facts)
CompactByFallback ==
    /\ made < MaxCheckpoints
    /\ \E plan \in PossiblePlans : \E facts \in FallbackFacts(plan) : Accept(plan, facts)

\* projectCurrentContextUsage: what the next request would send as things are.
Current == Project(Records(checkpoint))

\* projectPersistedContext: what a checkpoint gives when it is read back, which
\* /compact compares with the budget before it is content.
Rehydrated(cp) == Project(Records(cp))

ContextNext == \/ AddUser \/ AddAssistant \/ AddBranchSummary
               \/ CompactSemantically \/ CompactByFallback

ContextSpec == ContextInit /\ [][ContextNext]_contextVars

-----------------------------------------------------------------------------
(* Properties                                                              *)

\* What is sent is, in order, every required record and the newest optional
\* groups, whole; it is over the budget only when the required records are; and
\* no group that is dropped would have fitted.
IsNewest(p, rs, sent) ==
    LET Id(g)  == {rs[i].id : i \in g}
        groups == Groups(rs)
    IN  /\ \A i \in 1..Len(rs) : rs[i].required => rs[i].id \in sent
        /\ \A g \in ToSet(groups) : Id(g) \subseteq sent \/ Id(g) \cap sent = {}
        /\ \A j, k \in 1..Len(groups) :
             j < k /\ Id(groups[j]) \subseteq sent /\ ~IsRequired(rs, groups[j])
               => Id(groups[k]) \subseteq sent
        /\ p.overBudget => \A r \in ToSet(p.records) : r.required
ProjectionIsNewest ==
    LET of(p) == IsNewest(p, Compiled(Records(checkpoint)), ToSet(IdsOf(p.records)))
    IN  of(Current)

\* What was sent stays as it was sent: as long as nothing is compacted and all
\* fits, an entry that is added only appends to the projection, and no record
\* that was in it changes (tool-result-projection.ts:101: "This keeps
\* already-sent historical prefixes cache-stable").
SentPrefixIsStable ==
    [][LET stable(before, after) ==
               checkpoint' = checkpoint /\ ~after.truncated
                 => IsPrefix(before.records, after.records)
       IN  stable(Current, Project(RecordsOf(messages', branches', checkpoint')))]_contextVars

\* Every plan replaces only history, oldest first, loses nothing, leaves the
\* newest group raw under tool pressure, and with any summary it allows the
\* projection is complete and within the budget.
LosesNothing(plan, rs, gone, kept) ==
    LET groups    == CompactableGroups(rs)
        newest(gs) == \/ AllowSplitGroup /\ Len(gs) = 1
                      \/ RetainedGroups(rs, gs, plan.trigger) = 0
                      \/ \A i \in gs[Len(gs)] : rs[i].id \in kept
        whole(p)  == ~p.truncated /\ ~p.overBudget
    IN  /\ ToSet(IdsOf(rs)) \ {0} = gone \cup kept /\ gone \cap kept = {}
        /\ \A j, k \in 1..Len(groups) :
             j < k => \A i \in groups[j], m \in groups[k] :
                        rs[m].id \in gone => rs[i].id \in gone
        /\ plan.trigger = "tool-pressure" => newest(groups)
        /\ whole(Replaced(plan, SummaryRecord(plan.target)))
PlansLoseNothing ==
    \A plan \in PossiblePlans :
        LosesNothing(plan, Compiled(Records(checkpoint)), CompactedIds(plan),
                     ToSet(IdsOf(plan.retained)))

\* The checkpoint, read back, gives the projection that was accepted: the same
\* records in the same order, so nothing the model was to see is lost by a
\* restart (local-model-transport.ts:1027).
RestoreIsFaithful ==
    \A plan \in PossiblePlans :
        IdsOf(Replaced(plan, SummaryRecord(plan.target)).records)
          = IdsOf(Rehydrated(CheckpointOf(plan, {}, plan.target)).records)

\* A plan is safe to make, and safe to come back to.
PlansAreSafe == PlansLoseNothing /\ RestoreIsFaithful

\* A failed tool call that a checkpoint stands for is stated in it, and in every
\* checkpoint after it (context-compactor.ts:37: "Every P0 required anchor must
\* be represented by a fact").
FailuresAreRemembered ==
    \A k \in 1..Len(messages) :
        messages[k].fails /\ messages[k].id \in checkpoint.compacted =>
            [of |-> messages[k].id, priority |-> 0] \in checkpoint.facts
=============================================================================
