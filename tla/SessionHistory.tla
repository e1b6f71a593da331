-------------------------- MODULE SessionHistory --------------------------
(***************************************************************************)
(* What is read off one session tree: its messages (session-tree.ts), the   *)
(* rows of the navigation tree (session-navigation-projection.ts), the      *)
(* state of every tool call (tool-use-projection.ts) and what a jump to     *)
(* another branch leaves behind (branch-summary.ts).  The tree starts as a  *)
(* new one or as the upgrade of a version 1 or 2 tree, and grows by runs    *)
(* with parallel tool calls, interrupts and crashes, and by navigation.     *)
(* How writes reach the store is SessionWrites; here each one is a step.    *)
(* An entry is named by its place in the array, its message and tool parts  *)
(* by numbers; a text is a revision, 0 when there is none.                  *)
(***************************************************************************)
EXTENDS Integers, Sequences, FiniteSets, SequencesExt

CONSTANTS Calls,       \* the ids of tool calls: no two calls share one
          Legacies,    \* the version 1 and 2 trees it may be restored from
          OldMessages, \* how many messages those may have: new ones have higher numbers
          Statuses,    \* the terminal statuses of a call
          MaxEntries, MaxOldEntries,  \* bounds: of a new tree, of a restored one
          MaxJumps, MaxFaults         \* bounds

NoCall == "no call"

ASSUME CallsAssumption == NoCall \notin Calls
ASSUME MessagesAssumption == OldMessages \in Nat
ASSUME StatusesAssumption ==
    Statuses \subseteq {"completed", "failed", "cancelled", "timed_out", "denied"}

\* A version 1 or 2 tree: [nodes, active], a node its parent and what it upserts;
\* a parent comes first.
ASSUME LegaciesAssumption == \A l \in Legacies :
    /\ l.nodes \in Seq([parent  : Nat,
                       upserts : Seq([msg : 1..OldMessages, text : Nat, parts : SUBSET Calls])])
    /\ \A n \in 1..Len(l.nodes) : l.nodes[n].parent \in (IF n = 1 THEN {0} ELSE 1..n - 1)
    /\ l.active \in 1..Len(l.nodes)

VARIABLES legacy,      \* the tree it was restored from
          tree,        \* [entries, active]
          phase,       \* of the run: "idle", "model" or "tools"
          stopping,    \* was it interrupted?
          live,        \* what the loop and the broker hold of each call
          jumps, faults    \* how many there were: bounds

vars == <<legacy, tree, phase, stopping, live, jumps, faults>>
counters == <<jumps, faults>>

Blank == [type |-> "session_start", parent |-> 0, msg |-> 0, text |-> 0, parts |-> {},
          call |-> NoCall, status |-> "none", covers |-> {}, tip |-> 0, target |-> 0]

MessageTypes == {"user_message", "assistant_message"}
StateTypes == {"session_start", "mode_change"}

-----------------------------------------------------------------------------
(* The tree and its messages.                                              *)

\* appendSessionEntry
Appended(t, entry) ==
    [entries |-> Append(t.entries, [entry EXCEPT !.parent = t.active]),
     active |-> Len(t.entries) + 1]

\* jumpToSessionEntry
JumpedTo(t, i) == [t EXCEPT !.active = i]

\* projectSessionEntryPath: the entries from the root to i.
On(es, i) ==
    LET on[k \in 0..Len(es)] == IF k = 0 THEN {} ELSE on[es[k].parent] \cup {k}
    IN  on[i]

\* A message that is set in the ordered map of them: where it was, or last.
Upserted(ms, b) ==
    IF \E n \in 1..Len(ms) : ms[n].msg = b.msg
    THEN [n \in 1..Len(ms) |-> IF ms[n].msg = b.msg THEN b ELSE ms[n]]
    ELSE Append(ms, b)

Body(e) == [msg |-> e.msg, text |-> e.text, parts |-> e.parts]
IsWrite(e) == e.type \in MessageTypes \cup {"message_update"}

\* projectSessionTreeMessages: each message where it first appears, as it was
\* last written.
Messages(es, i) ==
    LET upto[k \in 0..Len(es)] ==
            IF k = 0 THEN <<>>
            ELSE IF IsWrite(es[k]) THEN Upserted(upto[es[k].parent], Body(es[k]))
            ELSE upto[es[k].parent]
    IN  upto[i]

\* validateSessionTreeState's last line: no update of an unknown message.
UpdatesAreKnown(es) ==
    \A k \in 1..Len(es) : es[k].type = "message_update" =>
        \E j \in On(es, k) \ {k} : es[j].type \in MessageTypes /\ es[j].msg = es[k].msg

\* The users' messages of a restored tree have odd numbers.
TypeOf(m) == IF m % 2 = 1 THEN "user_message" ELSE "assistant_message"

\* appendSessionTreeMessages: an entry for every message that is new, an update
\* for every one that differs.
WithMessage(t, b) ==
    LET known == Messages(t.entries, t.active)
        type  == IF \E n \in 1..Len(known) : known[n].msg = b.msg
                 THEN "message_update" ELSE TypeOf(b.msg)
    IN  IF \E n \in 1..Len(known) : known[n] = b THEN t
        ELSE Appended(t, [Blank EXCEPT !.type = type, !.msg = b.msg,
                                       !.text = b.text, !.parts = b.parts])
WithMessages(t, bodies) ==
    LET with[n \in 0..Len(bodies)] == IF n = 0 THEN t ELSE WithMessage(with[n - 1], bodies[n])
    IN  with[Len(bodies)]

-----------------------------------------------------------------------------
(* The upgrade of a version 1 or 2 tree.  The snapshot of a version 1 node  *)
(* is what its path amounts to.                                            *)

UpsertedAll(ms, bodies) ==
    LET upto[n \in 0..Len(bodies)] == IF n = 0 THEN ms ELSE Upserted(upto[n - 1], bodies[n])
    IN  upto[Len(bodies)]

\* projectV2Messages
LegacyMessages(l, n) ==
    LET upto[k \in 0..Len(l.nodes)] ==
            IF k = 0 THEN <<>> ELSE UpsertedAll(upto[l.nodes[k].parent], l.nodes[k].upserts)
    IN  upto[n]

\* The order in which visit reaches the nodes: a node, then its children.
VisitOrder(l) ==
    LET order[n \in 1..Len(l.nodes)] ==
            LET upto[c \in 0..Len(l.nodes)] ==
                    IF c = 0 THEN <<n>>
                    ELSE IF l.nodes[c].parent = n THEN upto[c - 1] \o order[c]
                    ELSE upto[c - 1]
            IN  upto[Len(l.nodes)]
    IN  order[1]

\* Mutant of Visited: a node is appended where the one before it ended.
VisitedInPlace(l, s, n) ==
    LET grown == WithMessages(s.tree, LegacyMessages(l, n))
    IN  [tree |-> grown, at |-> [s.at EXCEPT ![n] = grown.active]]

\* visit, for one node: its messages go below the entry its parent ended at.
Visited(l, s, n) ==
    LET start == IF n = 1 THEN 1 ELSE s.at[l.nodes[n].parent]
        grown == WithMessages(JumpedTo(s.tree, start), LegacyMessages(l, n))
    IN  [tree |-> grown, at |-> [s.at EXCEPT ![n] = grown.active]]

\* createSessionTree with no messages.
NewTree == [entries |-> <<Blank>>, active |-> 1]

\* upgradeTreeSnapshots: the tree, and the entry each node ended at.
Upgrade(l) ==
    LET order == VisitOrder(l)
        upto[k \in 0..Len(order)] ==
            IF k = 0 THEN [tree |-> NewTree, at |-> [n \in 1..Len(l.nodes) |-> 1]]
            ELSE Visited(l, upto[k - 1], order[k])
        all == upto[Len(order)]
    IN  [all EXCEPT !.tree = JumpedTo(@, all.at[l.active])]

-----------------------------------------------------------------------------
(* projectSessionNavigationTree.  A row is named by the entry that made it: *)
(* a tool row by the tool_call.                                            *)

\* isVisibleEntry, isToolOnlyAssistant: the entries that are rows of themselves.
Visible(e) ==
    /\ e.type \notin StateTypes \cup {"message_update", "tool_call", "tool_result"}
    /\ ~(e.type = "assistant_message" /\ e.text = 0 /\ e.parts # {})

Rows(es) == {k \in 1..Len(es) : Visible(es[k]) \/ es[k].type = "tool_call"}

CallsOn(es, i, c) == {k \in On(es, i) : es[k].type = "tool_call" /\ es[k].call = c}

\* The row that stands for each entry: its own, the one of its call, or the one
\* above it, 0 at the top.
RowOf(es) ==
    LET row[k \in 0..Len(es)] ==
            IF k = 0 THEN 0
            ELSE IF k \in Rows(es) THEN k
            ELSE IF es[k].type = "tool_result"
                 THEN CHOOSE j \in CallsOn(es, k, es[k].call) : TRUE
            ELSE row[es[k].parent]
    IN  row

\* The node of a call is one object on every branch below it: the results it
\* is given anywhere.
ResultsOf(es, k) ==
    {j \in 1..Len(es) : es[j].type = "tool_result" /\ es[j].call = es[k].call /\ k \in On(es, j)}

\* Mutant of Target: a tool row leads to its call.
TargetAtCall(es, k) == k

\* navigationTargetEntryId, selectable and status of a row.
Target(es, k) ==
    IF es[k].type = "tool_call" /\ ResultsOf(es, k) # {}
    THEN CHOOSE j \in ResultsOf(es, k) : TRUE ELSE k
Selectable(es, k) == es[k].type = "tool_call" => ResultsOf(es, k) # {}
RowStatus(es, k) == IF ResultsOf(es, k) = {} THEN "pending" ELSE es[Target(es, k)].status

\* What it throws for: a second call, a call with no part of its own, a result
\* without a call or with two.
Rejected(es) ==
    \E k \in 1..Len(es) :
      \/ /\ es[k].type = "tool_call"
         /\ \/ CallsOn(es, k, es[k].call) # {k}
            \/ Cardinality({n \in DOMAIN Messages(es, k) :
                                es[k].call \in Messages(es, k)[n].parts}) # 1
            \/ Cardinality(ResultsOf(es, k)) > 1
      \/ es[k].type = "tool_result" /\ CallsOn(es, k, es[k].call) = {}

\* setDepth: a row is one deeper than its parent when it is not an only child.
Depth(es) ==
    LET above(k) == RowOf(es)[es[k].parent]
        depth[k \in Rows(es)] ==
            IF above(k) = 0 THEN 0
            ELSE depth[above(k)]
                 + (IF \E j \in Rows(es) \ {k} : above(j) = above(k) THEN 1 ELSE 0)
    IN  depth

-----------------------------------------------------------------------------
(* projectToolUses: the state of a call, from the tree's active path, the   *)
(* loop's running steps and the open approvals.                            *)

\* createCanonicalToolUseIndex
ResultsOn(es, i, c) == {k \in On(es, i) : es[k].type = "tool_result" /\ es[k].call = c}
IntegrityIssue(es, i, c) ==
    \/ Cardinality(CallsOn(es, i, c)) > 1 \/ Cardinality(ResultsOn(es, i, c)) > 1
    \/ \E k \in ResultsOn(es, i, c) : CallsOn(es, k, c) = {}

PartsOn(es, i) == UNION {m.parts : m \in Range(Messages(es, i))}

\* projectToolUsesFromIndex, for a call of the branch.
ToolUse(t, l, c) ==
    LET results == ResultsOn(t.entries, t.active, c)
    IN  IF IntegrityIssue(t.entries, t.active, c) THEN "integrity_error"
        ELSE IF results # {} THEN t.entries[CHOOSE k \in results : TRUE].status
        ELSE IF l[c] = "waiting" THEN "approval_waiting"
        ELSE IF l[c] = "running" THEN "running"
        ELSE IF CallsOn(t.entries, t.active, c) # {} THEN "incomplete"
        ELSE "requested"

-----------------------------------------------------------------------------
(* analyzeBranchSummaryNavigation                                          *)

Semantic(es, ks) == {k \in ks : es[k].type \notin StateTypes}

\* Mutant of PreviousTransfers: a transfer on any branch counts.
PreviousTransfersAnywhere(es, source, dest) ==
    {k \in 1..Len(es) : es[k].type = "branch_summary" /\ es[k].tip \in source}

\* findRelevantPreviousTransfers
PreviousTransfers(es, source, dest) ==
    {k \in dest : es[k].type = "branch_summary" /\ es[k].tip \in source /\ es[k].target \in dest}

\* semanticEntries: what a jump from t to i leaves behind.
LeftBehind(t, i) ==
    LET es == t.entries
        source == On(es, t.active)
        dest   == On(es, i)
    IN  Semantic(es, source \ dest)
            \ UNION {es[k].covers : k \in PreviousTransfers(es, source, dest)}

\* reduceBranchSummary: with a budget that is too small there is no summary;
\* otherwise it is the model's, cut to the budget, or one made of the entries
\* themselves when the model fails, says nothing or no cut of it fits.
Reduction(left, tight, reply) ==
    IF left = {} \/ tight THEN "none" ELSE IF reply = "text" THEN "reduced" ELSE "fallback"

-----------------------------------------------------------------------------
(* The run                                                                 *)

Init ==
    /\ legacy \in Legacies
    /\ tree = Upgrade(legacy).tree
    /\ phase = "idle" /\ stopping = FALSE
    /\ live = [c \in Calls |-> "none"] /\ jumps = 0 /\ faults = 0

Room == Len(tree.entries) < IF Len(legacy.nodes) = 1 THEN MaxEntries ELSE MaxOldEntries
Write(entry) == Room /\ tree' = Appended(tree, entry)
NewMessage == OldMessages + Len(tree.entries)

Fault == faults < MaxFaults /\ faults' = faults + 1
Jump == jumps < MaxJumps /\ jumps' = jumps + 1

\* submit
Submit ==
    /\ phase = "idle" /\ phase' = "model" /\ stopping' = FALSE
    /\ Write([Blank EXCEPT !.type = "user_message", !.msg = NewMessage, !.text = 1])
    /\ UNCHANGED <<legacy, live, counters>>

Used == UNION {tree.entries[k].parts : k \in 1..Len(tree.entries)}

\* A model step is committed with its tool parts; without any, the run is over.
Answer(text, parts) ==
    /\ phase = "model" /\ ~stopping
    /\ parts \cap Used = {} /\ (text = 0 => parts # {})
    /\ Write([Blank EXCEPT !.type = "assistant_message", !.msg = NewMessage,
                           !.text = text, !.parts = parts])
    /\ phase' = IF parts = {} THEN "idle" ELSE "tools"
    /\ live' = [c \in Calls |-> IF c \in parts THEN "requested" ELSE "none"]
    /\ UNCHANGED <<legacy, stopping, counters>>

\* A model step fails: run_failed is written and the run is over.
Fail ==
    /\ phase = "model" /\ ~stopping /\ phase' = "idle"
    /\ Write([Blank EXCEPT !.type = "error"])
    /\ UNCHANGED <<legacy, stopping, live, jumps>> /\ Fault

\* The loop starts the step of a call, which records it before it does
\* anything else.
StartStep(c) ==
    /\ phase = "tools" /\ ~stopping /\ live[c] = "requested"
    /\ live' = [live EXCEPT ![c] = "running"]
    /\ UNCHANGED <<legacy, tree, phase, stopping, counters>>

RecordCall(c) ==
    /\ live[c] = "running" /\ CallsOn(tree.entries, tree.active, c) = {}
    /\ Write([Blank EXCEPT !.type = "tool_call", !.call = c])
    /\ UNCHANGED <<legacy, phase, stopping, live, counters>>

Unanswered(c) ==
    /\ CallsOn(tree.entries, tree.active, c) # {}
    /\ ResultsOn(tree.entries, tree.active, c) = {}

\* The user is asked, and answers.
Ask(c) ==
    /\ live[c] = "running" /\ Unanswered(c) /\ ~stopping
    /\ live' = [live EXCEPT ![c] = "waiting"]
    /\ UNCHANGED <<legacy, tree, phase, stopping, counters>>

Decide(c) ==
    /\ live[c] = "waiting"
    /\ live' = [live EXCEPT ![c] = "running"]
    /\ UNCHANGED <<legacy, tree, phase, stopping, counters>>

\* The result of a step is recorded, then the step ends.
RecordResult(c, status) ==
    /\ live[c] = "running" /\ Unanswered(c)
    /\ Write([Blank EXCEPT !.type = "tool_result", !.call = c, !.status = status])
    /\ UNCHANGED <<legacy, phase, stopping, live, counters>>

EndStep(c) ==
    /\ live[c] = "running" /\ ResultsOn(tree.entries, tree.active, c) # {}
    /\ live' = [live EXCEPT ![c] = "ended"]
    /\ UNCHANGED <<legacy, tree, phase, stopping, counters>>

\* Every call of the batch has ended, or will not be started any more.
BatchOver ==
    /\ phase = "tools"
    /\ \A c \in Calls : live[c] \in {"none", "ended"} \cup (IF stopping THEN {"requested"} ELSE {})
    /\ phase' = IF stopping THEN "idle" ELSE "model"
    /\ live' = [c \in Calls |-> "none"]
    /\ UNCHANGED <<legacy, tree, stopping, counters>>

\* interrupt: an open approval is cancelled, a model step is dropped.
Interrupt ==
    /\ phase # "idle" /\ ~stopping /\ stopping' = TRUE
    /\ phase' = IF phase = "model" THEN "idle" ELSE phase
    /\ live' = [c \in Calls |-> IF live[c] = "waiting" THEN "running" ELSE live[c]]
    /\ UNCHANGED <<legacy, tree, jumps>> /\ Fault

\* The process ends; the next one opens the session.
Crash ==
    /\ phase # "idle" /\ phase' = "idle" /\ stopping' = FALSE
    /\ live' = [c \in Calls |-> "none"]
    /\ UNCHANGED <<legacy, tree, jumps>> /\ Fault

ChangeMode ==
    /\ phase = "idle"
    /\ Write([Blank EXCEPT !.type = "mode_change"])
    /\ UNCHANGED <<legacy, phase, stopping, live, counters>>

\* What can be jumped to: the rows that can be selected, /parent and /root.
Targets ==
    ({Target(tree.entries, k) : k \in {r \in Rows(tree.entries) : Selectable(tree.entries, r)}}
        \cup {tree.entries[tree.active].parent, 1}) \ {0}

\* executeBranchNavigation: the jump is written first, and a summary of what it
\* leaves behind after it, if the policy or the user wants it carried and there
\* is one.
Navigate(target) ==
    /\ phase = "idle" /\ target \in Targets \ {tree.active}
    /\ tree' = JumpedTo(tree, target)
    /\ UNCHANGED <<legacy, phase, stopping, live, faults>> /\ Jump

Carry(target, tight, reply) ==
    LET covers  == LeftBehind(tree, target)
        jumped  == JumpedTo(tree, target)
        summary == [Blank EXCEPT !.type = "branch_summary", !.covers = covers,
                                 !.tip = tree.active, !.target = target]
    IN  /\ phase = "idle" /\ target \in Targets \ {tree.active}
        /\ covers # {} /\ Room
        /\ tree' = IF Reduction(covers, tight, reply) = "none" THEN jumped
                   ELSE Appended(jumped, summary)
        /\ UNCHANGED <<legacy, phase, stopping, live, faults>> /\ Jump

Next ==
    \/ Submit \/ Fail \/ BatchOver \/ Interrupt \/ Crash \/ ChangeMode
    \/ \E text \in 0..1, parts \in SUBSET Calls : Answer(text, parts)
    \/ \E c \in Calls : StartStep(c) \/ RecordCall(c) \/ Ask(c) \/ Decide(c) \/ EndStep(c)
    \/ \E c \in Calls, s \in Statuses : RecordResult(c, s)
    \/ \E i \in 1..Len(tree.entries) : Navigate(i)
    \/ \E i \in 1..Len(tree.entries), tight \in BOOLEAN, r \in {"text", "error"} : Carry(i, tight, r)

Spec == Init /\ [][Next]_vars

-----------------------------------------------------------------------------
(* Properties                                                              *)

\* Every node of the old tree can be returned to: the entry it became has the
\* messages it had, in their order and as they were last written, whatever its
\* siblings wrote and the session went on to (session-tree.ts:721-774).
UpgradeIsFaithful ==
    LET up == Upgrade(legacy)
    IN  /\ IsPrefix(up.tree.entries, tree.entries) /\ UpdatesAreKnown(tree.entries)
        /\ \A n \in 1..Len(legacy.nodes) :
              Messages(tree.entries, up.at[n]) = LegacyMessages(legacy, n)

\* The entries that were read, or are told of by a summary, on the way to i:
\* a summary stands for what it covers, other summaries included.
Known(es, i) ==
    LET told[k \in 1..Len(es)] == {k} \cup UNION {told[j] : j \in es[k].covers}
    IN  UNION {told[k] : k \in Semantic(es, On(es, i))}

\* A carried summary loses nothing: all that was known where the user left is
\* known where the summary is, over any number of hops (branch-summary.ts:95-143).
KnowledgeIsCarried ==
    LET es == tree.entries
    IN  \A k \in 1..Len(es) : es[k].type = "branch_summary" => Known(es, es[k].tip) \subseteq Known(es, k)

Terminal == Statuses
InFlight == {"running", "approval_waiting"}

\* The two views of a call never contradict each other or the run, in any
\* history that runs, interrupts, crashes and navigation can leave: neither
\* rejects it; a call whose step runs is never shown as incomplete, nor one
\* that no step runs for as running; a result on the branch is what both show;
\* and a row that can be selected leads to a state where its call has the
\* result it shows, and there it is the active row.
ViewsAgree ==
    LET es == tree.entries
    IN  /\ ~Rejected(es)
        /\ \A c \in PartsOn(es, tree.active) :
             LET shown == ToolUse(tree, live, c)
             IN  /\ live[c] \in {"running", "waiting"} =>
                        shown \in InFlight \cup Terminal \/ CallsOn(es, tree.active, c) = {}
                 /\ shown \in InFlight => live[c] \in {"running", "waiting"} /\ ~(shown \in Terminal)
                 /\ \A k \in CallsOn(es, tree.active, c) :
                        /\ shown \in Terminal => RowStatus(es, k) = shown
                        /\ ResultsOn(es, tree.active, c) # {} => shown \in Terminal
        /\ \A k \in Rows(es) : Selectable(es, k) =>
             LET there == JumpedTo(tree, Target(es, k))
             IN  /\ RowOf(es)[there.active] = k
                 /\ es[k].type = "tool_call" => ToolUse(there, live, es[k].call) = RowStatus(es, k)

\* ADR-0026: "The navigation UI should render a single-child path as a flat
\* list".  Results that arrive in another order than their calls break it.
OneBranchIsFlat ==
    LET es == tree.entries
    IN  (\A k \in 2..Len(es) : es[k].parent = k - 1) => \A k \in Rows(es) : Depth(es)[k] = 0

=============================================================================
