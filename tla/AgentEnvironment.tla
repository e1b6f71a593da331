-------------------------- MODULE AgentEnvironment --------------------------
(***************************************************************************)
(* The agent environment of agent-environment.ts: the settings a process   *)
(* works with (the resolved agent configuration and a provider registry    *)
(* object), the two files behind them, and the operations the dialogs call *)
(* on them.  Mutations take turns in one promise chain; a bootstrap or a   *)
(* reload does not queue.  Every await of a file operation is a step       *)
(* boundary, and both files are replaced by a rename, so a write is one    *)
(* step that happens or fails.                                             *)
(*                                                                         *)
(* A model reference is a number, in the lexicographic order of provider   *)
(* and model id, with 0 for none; Owner says which provider it is of.      *)
(***************************************************************************)
EXTENDS Integers, FiniteSets, FiniteSetsExt

CONSTANTS Models,        \* model references, as numbers
          DefaultModel,  \* DEFAULT_CHAT_MODEL_REF
          Providers,     \* ids of the providers there may be
          BuiltIn,       \* those that cannot be removed
          Owner,         \* [Models -> Providers]
          Catalogue,     \* provider settings a user may have or ask for
          Registries,    \* contents of providers.json found at first
          GlobalModel,   \* `model` of the global config.json, or 0
          MaxRequests,   \* the bounds: mutations asked for,
          MaxLoads,      \* bootstraps and reloads,
          MaxFaults,     \* file operations that fail,
          MaxCrashes     \* and ends of the process

ASSUME ModelsAssumption == Models \subseteq Nat \ {0} /\ DefaultModel \in Models
ASSUME OwnerAssumption == Owner \in [Models -> Providers]
ASSUME BuiltInAssumption == BuiltIn \subseteq Providers /\ Owner[DefaultModel] \in BuiltIn
ASSUME BoundsAssumption == {MaxRequests, MaxLoads, MaxFaults, MaxCrashes} \subseteq Nat

NoModel  == 0
Modes    == {"serial", "parallel"}
Absent   == [present |-> FALSE, enabled |-> FALSE, models |-> {}]
Settings == [present : BOOLEAN, enabled : BOOLEAN, models : SUBSET Models]

\* validateRegistry: a file without one of the built-in providers is refused.
ValidRegistry ==
    {r \in [Providers -> Settings] : \A p \in BuiltIn : r[p].present}

ASSUME GlobalModelAssumption == GlobalModel \in Models \cup {NoModel}
ASSUME RegistriesAssumption == Registries \subseteq ValidRegistry
ASSUME CatalogueAssumption ==
    \A p \in Providers : Catalogue[p] \subseteq {s \in Settings : s.present}

VARIABLES
    files,    \* config.json of the project and providers.json, on disk
    env,      \* currentEnvironment; `unsaved`: its modelRecovery did not persist
    memory,   \* the file each ProviderRegistry object holds in memory
    request,  \* the mutations asked for, in the order of the queue
    fate,     \* and where each is: waiting, running, settled
    job,      \* the mutation whose turn it is
    load,     \* the bootstrap or reload under way
    live,     \* the model of the mounted session (PromptConfig)
    picked,   \* the model the models dialog is saving, or 0
    told,     \* what the user was told the files hold
    mixed,    \* did a reload and a mutation ever overlap?
    crossed,  \* was a model selected while a provider mutation was pending?
    torn,     \* did a reload fail that had repaired providers.json?
    faults,
    crashes

vars == <<files, env, memory, request, fate, job, load, live, picked, told, mixed,
          crossed, torn, faults, crashes>>
queueVars == <<request, fate>>
ghosts    == <<told, mixed, crossed, torn>>
bounds    == <<faults, crashes>>

Loads     == 1..MaxLoads
Ids       == 1..MaxRequests
NoEnv     == [reg |-> 0, model |-> NoModel, mode |-> "serial", unsaved |-> FALSE]
NoJob     == [id |-> 0, stage |-> "idle", env |-> NoEnv, model |-> NoModel, mode |-> "serial"]
NoLoad    == [stage |-> "off", id |-> 0, cfg |-> FALSE, model |-> NoModel,
              mode |-> "serial", reread |-> "serial", prov |-> FALSE,
              repaired |-> FALSE, unsaved |-> FALSE]
NoRequest == [op |-> "none"]

\* mergeAgentConfig, for the two settings that are mutated: the project file
\* goes over the global one, and that over the code's defaults.
Resolved(model) ==
    IF model # NoModel THEN model
    ELSE IF GlobalModel # NoModel THEN GlobalModel ELSE DefaultModel

\* modelValidity
Usable(registry, model) ==
    LET p == registry[Owner[model]]
    IN  p.present /\ p.enabled /\ model \in p.models

\* resolveDeterministicModelFallback
Fallback(registry) ==
    LET usable == {m \in Models : Usable(registry, m)}
    IN  CASE DefaultModel \in usable -> DefaultModel
          [] usable # {}             -> Min(usable)
          [] OTHER                   -> NoModel

\* repairNoEnabledModels: the default's provider, with the default in it.
Repaired(registry) ==
    LET default == Owner[DefaultModel]
    IN  [registry EXCEPT ![default].enabled = TRUE,
                         ![default].models = @ \cup {DefaultModel}]

\* mutationRemovesOrDisablesSelectedModel
Invalidates(current, next, model) ==
    LET p == current[Owner[model]]
        q == next[Owner[model]]
    IN  /\ p.present
        /\ \/ ~q.present
           \/ p.enabled /\ ~q.enabled
           \/ model \in p.models /\ model \notin q.models

\* The provider registry a request asks for; replaceProvider and the filter
\* of removeAgentEnvironmentCustomProvider.
NextRegistry(registry, r) ==
    [registry EXCEPT ![r.provider] = IF r.op = "save" THEN r.config ELSE Absent]

\* Mutant of Allowed: a removal is checked against the session's model only.
AllowedForSession(registry, default, r) ==
    \/ r.op = "remove" /\ ~Invalidates(registry, NextRegistry(registry, r), r.live)
    \/ /\ r.op = "save"
       /\ \A m \in {default, r.live} : ~Invalidates(registry, NextRegistry(registry, r), m)

\* assertProviderMutationKeepsSelectedModels and requireLiveModel.  Creating a
\* provider needs no live model, but the dialogs always give one.
Allowed(registry, default, r) ==
    LET next == NextRegistry(registry, r)
    IN  \A m \in {default, r.live} : ~Invalidates(registry, next, m)

\* ProviderRegistry.saveProvider and removeCustomProvider refuse to add a
\* built-in provider or to remove one; removing what is not there is no error
\* and writes nothing.
Writable(registry, r) ==
    \/ r.op = "save" /\ (r.provider \in BuiltIn => registry[r.provider].present)
    \/ r.op = "remove" /\ r.provider \notin BuiltIn /\ registry[r.provider].present

-----------------------------------------------------------------------------
\* What is found on disk at first may have been edited by hand.
Init ==
    /\ files \in [model : Models \cup {NoModel}, mode : {"serial"}, registry : Registries]
    /\ env = NoEnv
    /\ memory = [l \in Loads |-> [p \in Providers |-> Absent]]
    /\ request = [i \in Ids |-> NoRequest]
    /\ fate = [i \in Ids |-> "none"]
    /\ job = NoJob
    /\ load = NoLoad
    /\ live = NoModel
    /\ picked = NoModel
    /\ told = [known |-> FALSE, files |-> files]
    /\ mixed = FALSE
    /\ crossed = FALSE
    /\ torn = FALSE
    /\ faults = 0
    /\ crashes = 0

Fault == faults < MaxFaults /\ faults' = faults + 1

-----------------------------------------------------------------------------
\* loadAgentEnvironment, for bootstrapAgentEnvironment and reloadAgentEnvironment

LoadsDone == Cardinality({l \in Loads : \E p \in Providers : memory[l][p].present})

\* A process bootstraps before it shows anything; a reload is asked for in the
\* settings dialog, and awaited by nobody but it.
BeginLoad ==
    /\ load.stage = "off" /\ LoadsDone < MaxLoads
    /\ load' = [NoLoad EXCEPT !.stage = "reading", !.id = LoadsDone + 1]
    /\ mixed' = (mixed \/ job.id # 0)
    /\ UNCHANGED <<files, env, memory, queueVars, job, live, picked, told, crossed, torn, bounds>>

\* The two files are read in parallel.
ReadConfig ==
    /\ load.stage = "reading" /\ ~load.cfg
    /\ load' = [load EXCEPT !.cfg = TRUE, !.model = files.model, !.mode = files.mode]
    /\ UNCHANGED <<files, env, memory, queueVars, job, live, picked, ghosts, bounds>>

ReadProviders ==
    /\ load.stage = "reading" /\ ~load.prov
    /\ load' = [load EXCEPT !.prov = TRUE]
    /\ memory' = [memory EXCEPT ![load.id] = files.registry]
    /\ UNCHANGED <<files, env, queueVars, job, live, picked, ghosts, bounds>>

\* recoverDefaultModel, up to its first await.
Recover ==
    /\ load.stage = "reading" /\ load.cfg /\ load.prov
    /\ LET registry == memory[load.id]
           default  == Resolved(load.model)
       IN  load' = [load EXCEPT !.stage =
               IF Usable(registry, default) THEN "loading"
               ELSE IF Fallback(registry) = NoModel THEN "repairing" ELSE "recovering"]
    /\ UNCHANGED <<files, env, memory, queueVars, job, live, picked, ghosts, bounds>>

\* told.files with the user's own choice out of order: then, and only then,
\* what recovery writes takes the place of what the user was told.
Corrected(written) ==
    IF told.known /\ (load.repaired \/ ~Usable(told.files.registry, Resolved(told.files.model)))
    THEN [told EXCEPT !.files = written] ELSE told

RepairProvider ==
    /\ load.stage = "repairing"
    /\ LET registry == Repaired(memory[load.id])
           next     == [files EXCEPT !.registry = registry]
       IN  /\ files' = next
           /\ told' = Corrected(next)
           /\ memory' = [memory EXCEPT ![load.id] = registry]
    /\ load' = [load EXCEPT !.stage = "recovering", !.repaired = TRUE]
    /\ UNCHANGED <<env, queueVars, job, live, picked, mixed, crossed, torn, bounds>>

\* saveAgentConfigModel reads the files again before it writes.
ReadForRecovery ==
    /\ load.stage = "recovering"
    /\ load' = [load EXCEPT !.stage = "saving", !.reread = files.mode,
                            !.model = Fallback(memory[load.id])]
    /\ UNCHANGED <<files, env, memory, queueVars, job, live, picked, ghosts, bounds>>

SaveRecovery ==
    /\ load.stage = "saving"
    /\ LET next == [files EXCEPT !.model = load.model, !.mode = load.reread]
       IN  \/ /\ files' = next /\ told' = Corrected(next) /\ UNCHANGED faults
              /\ load' = [load EXCEPT !.stage = "loading", !.mode = load.reread]
           \/ /\ Fault /\ UNCHANGED <<files, told>>
              /\ load' = [load EXCEPT !.stage = "loading", !.unsaved = TRUE]
    /\ UNCHANGED <<env, memory, queueVars, job, live, picked, mixed, crossed, torn, crashes>>

\* Instructions and skills are read; then the new environment is published.
\* The mounted session starts with its model.
Publish ==
    /\ load.stage = "loading"
    /\ env' = [reg |-> load.id, model |-> Resolved(load.model), mode |-> load.mode,
              unsaved |-> load.unsaved]
    /\ live' = IF live = NoModel THEN env'.model ELSE live
    /\ told' = IF told.known THEN told ELSE [known |-> TRUE, files |-> files]
    /\ load' = NoLoad
    /\ UNCHANGED <<files, memory, queueVars, job, picked, mixed, crossed, torn, bounds>>

\* A file cannot be read or repaired: the environment stays as it was.
LoadFails ==
    /\ load.stage \in {"reading", "repairing", "loading"}
    /\ Fault
    /\ load' = NoLoad
    /\ torn' = (torn \/ (load.repaired /\ env.reg # 0))
    /\ UNCHANGED <<files, env, memory, queueVars, job, live, picked, told, mixed, crossed, crashes>>

-----------------------------------------------------------------------------
\* The mutation queue

Pending == {i \in Ids : fate[i] \in {"waiting", "running"}}
Asked   == {i \in Ids : fate[i] # "none"}
AboutProvider(i) == request[i].op \in {"save", "remove"}

\* enqueueAgentEnvironmentMutation
Enqueue(r) ==
    /\ env.reg # 0
    /\ Cardinality(Asked) < MaxRequests
    /\ LET i == Cardinality(Asked) + 1
       IN  /\ request' = [request EXCEPT ![i] = r]
           /\ fate' = [fate EXCEPT ![i] = "waiting"]

\* ModelsDialogContent.handleSelect: a model the registry lists is offered to the
\* mounted session, which commits it to its tree first.
PickModel(m) ==
    /\ env.reg # 0 /\ Usable(memory[env.reg], m)
    /\ picked = NoModel
    /\ picked' = m
    /\ UNCHANGED <<files, env, memory, queueVars, job, load, live, ghosts, bounds>>

\* Once that is committed it is the session's, whatever the registry lists by
\* then, and is to become the persisted default.
SelectModel(m) ==
    /\ picked = m
    /\ picked' = NoModel
    /\ Enqueue([op |-> "model", model |-> m])
    /\ live' = m
    /\ crossed' = (crossed \/ \E i \in Pending : AboutProvider(i))
    /\ UNCHANGED <<files, env, memory, job, load, told, mixed, torn, bounds>>

\* The tree does not take it, and nothing is persisted.
SelectionFails ==
    /\ picked # NoModel
    /\ picked' = NoModel
    /\ UNCHANGED <<files, env, memory, queueVars, job, load, live, ghosts, bounds>>

AskToolExecution(mode) ==
    /\ Enqueue([op |-> "tools", mode |-> mode])
    /\ UNCHANGED <<files, env, memory, job, load, live, picked, ghosts, bounds>>

SaveProvider(p, config) ==
    /\ Enqueue([op |-> "save", provider |-> p, config |-> config, live |-> live])
    /\ UNCHANGED <<files, env, memory, job, load, live, picked, ghosts, bounds>>

RemoveProvider(p) ==
    /\ Enqueue([op |-> "remove", provider |-> p, live |-> live])
    /\ UNCHANGED <<files, env, memory, job, load, live, picked, ghosts, bounds>>

\* A mutation is answered: it is done, refused or has failed.
Settle(i) ==
    /\ fate' = [fate EXCEPT ![i] = "settled"]
    /\ request' = [request EXCEPT ![i] = NoRequest]

\* A mutation takes its turn once the one before it has settled either way.  It
\* reads currentEnvironment here, and a model is checked against it.
TurnOf(i) == i \in Pending /\ \A j \in Pending : i <= j

BeginMutation(i) ==
    /\ job.id = 0 /\ TurnOf(i)
    /\ LET refused == request[i].op = "model" /\ ~Usable(memory[env.reg], request[i].model)
       IN  IF refused
           THEN Settle(i) /\ UNCHANGED job
           ELSE /\ fate' = [fate EXCEPT ![i] = "running"]
                /\ UNCHANGED request
                /\ job' = [NoJob EXCEPT !.id = i, !.stage = "reading", !.env = env]
    /\ mixed' = (mixed \/ load.stage # "off")
    /\ UNCHANGED <<files, env, memory, load, live, picked, told, crossed, torn, bounds>>

\* The config files are read as they are on disk,
ReadConfigToChange ==
    /\ job.stage = "reading" /\ ~AboutProvider(job.id)
    /\ LET r == request[job.id]
       IN  job' = [job EXCEPT !.stage = "writing",
                       !.model = IF r.op = "model" THEN r.model ELSE files.model,
                       !.mode = IF r.op = "tools" THEN r.mode ELSE files.mode]
    /\ UNCHANGED <<files, env, memory, queueVars, load, live, picked, ghosts, bounds>>

\* and a provider mutation is decided as soon as they are, against the registry
\* object of the environment it began with.
DecideOnProvider ==
    /\ job.stage = "reading" /\ AboutProvider(job.id)
    /\ LET r        == request[job.id]
           registry == memory[job.env.reg]
       IN  IF Allowed(registry, Resolved(files.model), r) /\ Writable(registry, r)
           THEN job' = [job EXCEPT !.stage = "writing"] /\ UNCHANGED queueVars
           ELSE Settle(job.id) /\ job' = NoJob
    /\ UNCHANGED <<files, env, memory, load, live, picked, ghosts, bounds>>

\* What a mutation leaves in the files, read from what it read.
Written(r) ==
    IF r.op \in {"model", "tools"}
    THEN [files EXCEPT !.model = job.model, !.mode = job.mode]
    ELSE [files EXCEPT !.registry = NextRegistry(memory[job.env.reg], r)]

\* atomicWriteConfig and atomicWrite
WriteFile ==
    /\ job.stage = "writing"
    /\ files' = Written(request[job.id])
    /\ job' = [job EXCEPT !.stage = "written"]
    /\ UNCHANGED <<env, memory, queueVars, load, live, picked, ghosts, bounds>>

\* Mutant of Replaced: a removal is written but stays in memory.
ReplacedButRemoved(r) ==
    /\ env' = IF r.op \in {"model", "tools"}
              THEN [job.env EXCEPT !.model = Resolved(job.model), !.mode = job.mode]
              ELSE env
    /\ memory' = IF r.op = "save"
                 THEN [memory EXCEPT ![job.env.reg] = NextRegistry(@, r)]
                 ELSE memory

\* What the environment and the registry object become once the write is over:
\* the config goes into a copy of the environment the mutation began with.
Replaced(r) ==
    /\ env' = IF r.op \in {"model", "tools"}
              THEN [job.env EXCEPT !.model = Resolved(job.model), !.mode = job.mode]
              ELSE env
    /\ memory' = IF r.op \in {"save", "remove"}
                 THEN [memory EXCEPT ![job.env.reg] = NextRegistry(@, r)]
                 ELSE memory

\* What a request says of the files, to the user who made it.
Effect(f, r) ==
    CASE r.op = "model" -> [f EXCEPT !.model = r.model]
      [] r.op = "tools" -> [f EXCEPT !.mode = r.mode]
      [] OTHER          -> [f EXCEPT !.registry = NextRegistry(f.registry, r)]

FinishMutation ==
    /\ job.stage = "written"
    /\ Replaced(request[job.id])
    /\ Settle(job.id)
    /\ job' = NoJob
    /\ told' = [told EXCEPT !.files = Effect(told.files, request[job.id])]
    /\ UNCHANGED <<files, load, live, picked, mixed, crossed, torn, bounds>>

\* Mutant of MutationFails: the chain is continued by successes only.
MutationFailsForGood ==
    /\ job.stage \in {"reading", "writing"}
    /\ Fault
    /\ job' = [job EXCEPT !.stage = "stuck"]
    /\ UNCHANGED <<files, env, memory, queueVars, load, live, picked, ghosts, crashes>>

\* A read or a write of a mutation fails: nothing is replaced.
MutationFails ==
    /\ job.stage \in {"reading", "writing"}
    /\ Fault
    /\ Settle(job.id)
    /\ job' = NoJob
    /\ UNCHANGED <<files, env, memory, load, live, picked, ghosts, crashes>>

\* The process ends, and what it had not written is gone.  A write it did not
\* get to report may have happened: the user looks.
Crash ==
    /\ crashes < MaxCrashes /\ crashes' = crashes + 1
    /\ env # NoEnv
    /\ env' = NoEnv /\ job' = NoJob /\ load' = NoLoad /\ live' = NoModel
    /\ picked' = NoModel
    /\ fate' = [i \in Ids |-> IF i \in Pending THEN "settled" ELSE fate[i]]
    /\ request' = [i \in Ids |-> NoRequest]
    /\ told' = IF job.stage = "written"
               THEN [told EXCEPT !.files = Effect(@, request[job.id])] ELSE told
    /\ UNCHANGED <<files, memory, mixed, crossed, torn, faults>>

-----------------------------------------------------------------------------
Mutation == (\E i \in Ids : BeginMutation(i)) \/ ReadConfigToChange
            \/ DecideOnProvider \/ WriteFile \/ FinishMutation \/ MutationFails

Loading == ReadConfig \/ ReadProviders \/ Recover \/ RepairProvider
           \/ ReadForRecovery \/ SaveRecovery \/ Publish \/ LoadFails

Picking == (\E m \in Models : PickModel(m)) \/ SelectionFails

Asking ==
    \/ \E m \in Models : SelectModel(m)
    \/ \E mode \in Modes : AskToolExecution(mode)
    \/ \E p \in Providers : \E config \in Catalogue[p] : SaveProvider(p, config)
    \/ \E p \in Providers : RemoveProvider(p)

Next == BeginLoad \/ Loading \/ Picking \/ Asking \/ Mutation \/ Crash

\* A file operation that was begun comes to an end, and promises that are
\* settled run their callbacks.  Nobody has to ask for anything.
Spec     == Init /\ [][Next]_vars
FairSpec == Spec /\ WF_vars(Mutation)

-----------------------------------------------------------------------------
(* Properties *)

\* No step makes the persisted default unusable on disk, nor the model of the
\* mounted session in memory: whatever was queued before it, a provider that
\* one of them needs is neither removed nor switched off, and no model of such
\* a provider is persisted.  A reload takes no place in the queue, a model
\* selected after a provider mutation was asked for is not the one it protects,
\* and a reload that repairs the file and then fails leaves the memory behind it.
SelectionsStayUsable ==
    [][/\ Usable(files.registry, Resolved(files.model)) /\ ~mixed' /\ ~torn'
          => Usable(files'.registry, Resolved(files'.model))
       /\ env.reg # 0 /\ env.reg = env'.reg /\ live' = live /\ ~mixed' /\ ~crossed'
          /\ Usable(memory[env.reg], live)
          => Usable(memory'[env.reg], live)]_vars

\* The files hold what the first bootstrap found or repaired and what every
\* acknowledged mutation since then did to it, in the order of the queue and
\* across restarts, nothing else; and between two mutations the environment
\* works with what the files hold, so that neither the config nor the whole
\* registry a later mutation writes is older than that.  Not so once a reload
\* has repaired providers.json and then failed: the environment it was to
\* replace stays, with the registry as it was before the repair.
SettingsAreKept ==
    told.known /\ ~mixed /\ ~torn =>
        /\ files = IF job.stage = "written" THEN Effect(told.files, request[job.id])
                   ELSE told.files
        /\ env.reg # 0 /\ job.id = 0 /\ load.stage = "off" =>
              /\ memory[env.reg] = files.registry
              /\ env.mode = files.mode
              /\ ~env.unsaved => env.model = Resolved(files.model)

\* Every mutation asked for is answered, unless the process ends before.
MutationsSettle ==
    \A i \in Ids : (i \in Pending) ~> (i \notin Pending)

\* What SettingsAreKept says, of reloads that overlap mutations too.
SettingsSurviveReload ==
    told.known =>
        files = IF job.stage = "written" THEN Effect(told.files, request[job.id])
                ELSE told.files
=============================================================================
