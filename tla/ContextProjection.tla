------------------------- MODULE ContextProjection -------------------------
(***************************************************************************)
(* What a model is sent of a session's history: context.ts (ContextManager) *)
(* and the records local-model-transport.ts builds for it.  Everything here *)
(* is a pure operator over sequences of records; tokens are small numbers,  *)
(* ratios are percentages, and texts and payloads are left out.             *)
(*                                                                          *)
(* A record is [id, kind, group, split, required, tokens]: the group is what *)
(* is kept or dropped as a whole, `split` its parts when it may be split.    *)
(* The category of a record is the one its kind implies: the transport never *)
(* gives it another.                                                         *)
(***************************************************************************)
EXTENDS Integers, Sequences, FiniteSets, SequencesExt, FiniteSetsExt, Selections

\* ContextBudget and ContextCompactionPolicy, as the profile of a model gives them.
CONSTANTS InputBudget,       \* window - reserved output - safety margin
          MaxSummaryTokens,
          SoftLimit, HardLimit, TargetUtilization,          \* percentages
          RetainRecentMin, RetainRecentPercent,
          AllowSplitGroup,
          ManualMinTokens, ManualMinTurns, ManualMinGain, ManualMinGainPercent

ASSUME PolicyAssumption ==
    /\ {InputBudget, MaxSummaryTokens, RetainRecentMin, ManualMinTokens,
        ManualMinTurns, ManualMinGain} \subseteq Nat
    /\ {RetainRecentPercent, ManualMinGainPercent} \subseteq 0..100
    /\ SoftLimit \in 1..HardLimit /\ HardLimit \in 1..100
    /\ TargetUtilization \in 1..SoftLimit
    /\ AllowSplitGroup \in BOOLEAN

Triggers == {"overflow", "hard-limit", "soft-limit", "tool-pressure", "manual"}

Percent(n, p) == (n * p) \div 100
Lesser(a, b)  == IF a < b THEN a ELSE b
Greater(a, b) == IF a > b THEN a ELSE b

-----------------------------------------------------------------------------
(* Records and groups                                                      *)

IdsOf(rs) == [k \in 1..Len(rs) |-> rs[k].id]

TokensAt(rs, S) ==
    LET upto[n \in 0..Len(rs)] ==
            IF n = 0 THEN 0 ELSE upto[n - 1] + (IF n \in S THEN rs[n].tokens ELSE 0)
    IN  upto[Len(rs)]
Tokens(rs) == TokensAt(rs, 1..Len(rs))

\* compileContextRecords: the stable prefix first, by CATEGORY_ORDER through
\* inferContextCategory, and the order of arrival within a category.
OfKind(rs, kind) == At(rs, {k \in 1..Len(rs) : rs[k].kind = kind})
Compiled(rs) ==
    OfKind(rs, "instruction") \o OfKind(rs, "summary")
        \o OfKind(rs, "history") \o OfKind(rs, "runtime")

\* groupRecords: the groups of a list of records, as sets of their positions, in
\* the order of their last record.
Groups(rs) ==
    LET group(i) == {j \in 1..Len(rs) : rs[j].group = rs[i].group}
        last == InOrder(rs, {Max(group(i)) : i \in 1..Len(rs)})
    IN  [k \in 1..Len(last) |-> group(last[k])]

IsRequired(rs, g) == \E i \in g : rs[i].required
IsCompactableHistory(r) == ~r.required /\ r.kind = "history"
CompactableGroups(rs) ==
    LET groups == Groups(rs)
    IN  At(groups, {k \in 1..Len(groups) : \A i \in groups[k] : IsCompactableHistory(rs[i])})

UnionOf(gs, from, to) == UNION {gs[k] : k \in from..to}
\* The tokens of the last n groups, and of the first n.
TailTokens(rs, gs, n) == TokensAt(rs, UnionOf(gs, Len(gs) - n + 1, Len(gs)))
HeadTokens(rs, gs, n) == TokensAt(rs, UnionOf(gs, 1, n))

-----------------------------------------------------------------------------
(* ContextManager.project                                                  *)

\* Mutant of KeptOptional: a group that does not fit is skipped, and an older
\* one that does is kept.
KeptOptionalSkipping(rs, optional, remaining) ==
    {k \in 1..Len(optional) : TokensAt(rs, optional[k]) <= remaining}

\* The newest optional groups that fit in what the required ones leave, up to
\* the first that does not.
KeptOptional(rs, optional, remaining) ==
    LET n == Max({k \in 0..Len(optional) : TailTokens(rs, optional, k) <= remaining})
    IN  Len(optional) - n + 1 .. Len(optional)

\* The positions that are sent: those of the required groups, and of what else
\* fits.
Kept(rs, groups) ==
    LET optional    == At(groups, {k \in 1..Len(groups) : ~IsRequired(rs, groups[k])})
        with(needed) == needed \cup
            UNION {optional[k] : k \in
                     KeptOptional(rs, optional,
                                  Greater(0, InputBudget - TokensAt(rs, needed)))}
    IN  with(UNION {g \in ToSet(groups) : IsRequired(rs, g)})

Projection(rs, kept) ==
    [records    |-> At(rs, kept),
     omitted    |-> At(rs, (1..Len(rs)) \ kept),
     tokens     |-> TokensAt(rs, kept),
     truncated  |-> kept # 1..Len(rs),
     overBudget |-> TokensAt(rs, kept) > InputBudget]

Project(records) ==
    LET of(rs) == Projection(rs, Kept(rs, Groups(rs))) IN of(Compiled(records))

-----------------------------------------------------------------------------
(* ContextManager.projectWithCompaction                                    *)

SoftLimitTokens   == Percent(InputBudget, SoftLimit)
HardLimitTokens   == Percent(InputBudget, HardLimit)
TargetInputTokens == Percent(InputBudget, TargetUtilization)
SummaryReserve    == Lesser(MaxSummaryTokens, InputBudget)

\* What triggers an automatic compaction of compiled records, or "none".
TriggerFor(rs, toolPressure) ==
    LET tokens  == Tokens(rs)
        cut(p)  == p.truncated \/ p.overBudget \/ tokens > InputBudget
    IN  CASE toolPressure -> "tool-pressure"
          [] ~toolPressure /\ cut(Project(rs)) -> "overflow"
          [] OTHER -> IF tokens > HardLimitTokens THEN "hard-limit"
                      ELSE IF tokens > SoftLimitTokens THEN "soft-limit"
                      ELSE "none"

\* Tokens that no compaction touches: neither a summary nor compactable.
FixedTokens(rs) ==
    LET compactable == UNION ToSet(CompactableGroups(rs))
    IN  TokensAt(rs, {i \in 1..Len(rs) : rs[i].kind # "summary" /\ i \notin compactable})

RecentTail(rs, groups) ==
    Lesser(TokensAt(rs, UNION ToSet(groups)),
           Greater(RetainRecentMin, Percent(InputBudget, RetainRecentPercent)))

\* How many of the newest compactable groups stay raw: as many as make up the
\* recent tail, whole, and - unless asked for by hand - as many more as fit the
\* target.
RetainedGroups(rs, groups, trigger) ==
    LET n      == Len(groups)
        room   == Greater(0, TargetInputTokens - SummaryReserve - FixedTokens(rs))
        enough == {k \in 0..n : TailTokens(rs, groups, k) >= RecentTail(rs, groups)}
        from(tail) == IF trigger = "manual" THEN tail
                      ELSE Max({tail} \cup {k \in tail..n : TailTokens(rs, groups, k) <= room})
    IN  from(Min(enough \cup {n}))

\* Under tool pressure more of the oldest groups go, until the pressure is
\* relieved; the newest one stays.
CompactedGroups(rs, groups, trigger, relief) ==
    LET n == Len(groups)
        relieving(k) == HeadTokens(rs, groups, k) >= Greater(1, relief)
        from(oldest) ==
            IF trigger # "tool-pressure" THEN oldest
            ELSE Min({k \in oldest..n : relieving(k)} \cup {Greater(oldest, n - 1)})
    IN  from(n - RetainedGroups(rs, groups, trigger))

\* The consecutive parts of a group: runs of records with the same split id.
SubgroupStarts(rs, g) ==
    LET order == InOrder(rs, g)
    IN  {k \in 1..Len(order) : k = 1 \/ rs[order[k]].split # rs[order[k - 1]].split}
Subgroups(rs, g) ==
    LET parts(order, starts) ==
            [k \in 1..Len(starts) |->
                {order[m] : m \in starts[k] .. (IF k = Len(starts) THEN Len(order)
                                                ELSE starts[k + 1] - 1)}]
    IN  parts(InOrder(rs, g), InOrder(rs, SubgroupStarts(rs, g)))

\* The escape hatch: when nothing would be compacted and one group is all there
\* is, its older parts go while the pressure asks for it or the rest is enough.
SplitPart(rs, groups, parts) ==
    LET left(k)   == TokensAt(rs, groups[1]) - HeadTokens(rs, parts, k)
        needed(k) == FixedTokens(rs) + left(k) + SummaryReserve
        recent(k) == left(k) >= RecentTail(rs, groups)
        takes(k)  == needed(k - 1) > TargetInputTokens \/ recent(k)
        stops     == {k \in 0..Len(parts) - 1 :
                        \/ k = Len(parts) - 1
                        \/ k > 0 /\ needed(k) <= TargetInputTokens /\ recent(k)
                        \/ ~takes(k + 1)}
    IN  UnionOf(parts, 1, Min(stops))

\* The positions that a compaction replaces.
CompactedAt(rs, groups, trigger, relief) ==
    LET orSplit(whole) == IF whole = {} /\ AllowSplitGroup /\ Len(groups) = 1
                          THEN SplitPart(rs, groups, Subgroups(rs, groups[1])) ELSE whole
    IN  orSplit(UnionOf(groups, 1, CompactedGroups(rs, groups, trigger, relief)))

\* Mutant of SummaryTarget: what stays is not taken into account.
SummaryTargetFixed(rs, retained) == SummaryReserve

\* What the summary may take: the reserve, or what the retained records leave.
SummaryTarget(rs, retained) ==
    Lesser(SummaryReserve, Greater(0, InputBudget - TokensAt(rs, retained)))

\* The plan handed to the compactor, or NoPlan: `source` is what the new
\* checkpoint replaces, the previous one included.
NoPlan == [trigger |-> "none"]
PlanOf(rs, trigger, compacted, retained, target) ==
    IF \/ trigger = "none" \/ MaxSummaryTokens = 0 \/ InputBudget = 0
       \/ compacted = {} \/ target = 0
    THEN NoPlan
    ELSE [trigger   |-> trigger,
          compacted |-> At(rs, compacted),
          retained  |-> At(rs, retained),
          source    |-> IdsOf(At(rs, (1..Len(rs)) \ retained)),
          target    |-> target]

Plan(records, trigger, relief) ==
    LET replacing(rs, compacted, retained) ==
            PlanOf(rs, trigger, compacted, retained, SummaryTarget(rs, retained))
        compacting(rs, compacted) ==
            replacing(rs, compacted,
                      {i \in 1..Len(rs) : i \notin compacted /\ rs[i].kind # "summary"})
        of(rs) == compacting(rs, CompactedAt(rs, CompactableGroups(rs), trigger, relief))
    IN  of(Compiled(records))

\* The projection with the compactor's summary in place of what it replaces.
Replaced(plan, summary) ==
    Project(<<[summary EXCEPT !.required = TRUE]>> \o plan.retained)

-----------------------------------------------------------------------------
(* ContextManager.evaluateManualCompactionEligibility                      *)

Gain(rs, compactable, summaries) ==
    LET others  == (1..Len(rs)) \ (compactable \cup summaries)
        room    == Greater(0, InputBudget - TokensAt(rs, others))
        of(source) == [tokens |-> source - Lesser(Lesser(MaxSummaryTokens, source), room),
                       source |-> source]
    IN  of(TokensAt(rs, summaries \cup compactable))

Eligibility(records, previousRetained) ==
    LET verdict(rs, compactable, summaries, gain) ==
          LET newTurns  == {rs[i].group : i \in {k \in 1..Len(rs) :
                               rs[k].kind = "history" /\ rs[k].id \notin previousRetained}}
              tooLittle == TokensAt(rs, compactable) < ManualMinTokens
          IN  CASE compactable = {} -> IF summaries = {} THEN "nothing-compactable"
                                                         ELSE "recent-compaction"
                [] compactable # {} /\ summaries # {}
                     /\ (tooLittle \/ Cardinality(newTurns) < ManualMinTurns) ->
                       "recent-compaction"
                [] compactable # {} /\ summaries = {} /\ tooLittle -> "insufficient-history"
                [] OTHER -> IF \/ gain.tokens < ManualMinGain
                               \/ gain.tokens * 100 < ManualMinGainPercent * gain.source
                            THEN "insufficient-gain" ELSE "eligible"
        of(rs, compactable, summaries) ==
            verdict(rs, compactable, summaries, Gain(rs, compactable, summaries))
        compiled(rs) == of(rs, UNION ToSet(CompactableGroups(rs)),
                           {i \in 1..Len(rs) : rs[i].kind = "summary"})
    IN  compiled(Compiled(records))
=============================================================================
