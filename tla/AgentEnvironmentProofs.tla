----------------------- MODULE AgentEnvironmentProofs -----------------------
(***************************************************************************)
(* Proofs about AgentEnvironment, for any providers and models, any files  *)
(* found at first and any number of mutations, loads, faults and crashes.  *)
(*                                                                         *)
(* Mutations keep the files and the environment in step because each one   *)
(* starts from an environment that agrees with the files (Agreement) and   *)
(* writes what it read of them (ChangeInv); a load because it reads both   *)
(* and recovers only what cannot be used (LoadInv).  Both only as long as  *)
(* they do not overlap, which is why most of it is under ~mixed.           *)
(***************************************************************************)
EXTENDS AgentEnvironment, FiniteSetTheorems, TLAPS

Refs        == Models \cup {NoModel}
NoRegistry  == [p \in Providers |-> Absent]
EnvType     == [reg : 0..MaxLoads, model : Refs, mode : Modes, unsaved : BOOLEAN]
FilesType   == [model : Refs, mode : Modes, registry : ValidRegistry]
ConfigOps   == [op : {"model"}, model : Models] \cup [op : {"tools"}, mode : Modes]
ProviderOps == [op : {"save"}, provider : Providers,
                config : {s \in Settings : s.present}, live : Models]
               \cup [op : {"remove"}, provider : Providers, live : Models]
JobType     == [id : 0..MaxRequests, stage : {"idle", "reading", "writing", "written"},
                env : EnvType, model : Refs, mode : Modes]
LoadType    == [stage : {"off", "reading", "repairing", "recovering", "saving", "loading"},
                id : 0..MaxLoads, cfg : BOOLEAN, model : Refs, mode : Modes,
                reread : Modes, prov : BOOLEAN, repaired : BOOLEAN, unsaved : BOOLEAN]

Fates       == {"none", "waiting", "running", "settled"}

TypeOK ==
    /\ files \in FilesType
    /\ env \in EnvType
    /\ memory \in [Loads -> [Providers -> Settings]]
    /\ request \in [Ids -> ConfigOps \cup ProviderOps \cup {NoRequest}]
    /\ fate \in [Ids -> Fates]
    /\ job \in JobType
    /\ load \in LoadType
    /\ {live, picked} \subseteq Refs
    /\ told \in [known : BOOLEAN, files : FilesType]
    /\ {mixed, crossed, torn} \subseteq BOOLEAN

\* Requests are numbered in the order of the queue; one at most runs, and it is
\* the job's.  What is asked for was asked of an environment.
QueueInv ==
    /\ Asked = 1..Cardinality(Asked)
    /\ \A i \in Ids : fate[i] = "running" <=> job.id = i
    /\ job.id = 0 <=> job.stage = "idle"
    /\ \A i \in Pending : request[i] \in ConfigOps \cup ProviderOps
    /\ job.stage \in {"writing", "written"} /\ request[job.id].op = "remove" =>
          request[job.id].provider \notin BuiltIn
    /\ Pending # {} => env.reg # 0

\* The registry objects that were loaded come first, and each still has its
\* built-in providers; an environment works with one of them, and no load
\* reads into one that an environment works with.
Counted(m, n) ==
    \A l \in Loads : IF l <= n THEN m[l] \in ValidRegistry ELSE m[l] = NoRegistry
RegistryInv ==
    /\ LoadsDone \in 0..MaxLoads /\ Counted(memory, LoadsDone)
    /\ \A r \in {env.reg, job.env.reg} :
          r <= LoadsDone /\ (load.stage # "off" => r < load.id)
    /\ load.stage # "off" =>
          load.id = IF load.prov THEN LoadsDone ELSE LoadsDone + 1
    /\ load.stage = "off" => ~load.repaired
    /\ load.stage \notin {"off", "reading"} => load.cfg /\ load.prov
    /\ env.reg # 0 => told.known /\ NoModel \notin {live, env.model}
    /\ job.id # 0 => job.env.reg # 0

\* A load of its own has read what is on disk, and recovers a model only where
\* the persisted one cannot be used.
Unusable == ~Usable(files.registry, Resolved(files.model))
LoadInv ==
    /\ load.stage # "off" =>
          /\ load.prov => memory[load.id] = files.registry
          /\ load.cfg => load.mode = files.mode
    /\ load.stage \in {"reading", "repairing", "recovering"} /\ load.cfg =>
          load.model = files.model
    /\ load.stage \in {"repairing", "recovering", "saving"} => load.repaired \/ Unusable
    /\ load.stage = "repairing" => Fallback(memory[load.id]) = NoModel
    /\ load.stage = "recovering" => Fallback(memory[load.id]) # NoModel
    /\ load.stage = "saving" =>
          load.model # NoModel /\ Usable(memory[load.id], load.model) /\ load.reread = files.mode
    /\ load.stage = "loading" =>
          /\ Usable(memory[load.id], Resolved(load.model))
          /\ ~load.unsaved => load.model = files.model

\* A mutation that has its turn to itself will write what it was asked to, and
\* has checked that the models in use survive it.
ChangeInv ==
    job.id # 0 =>
        LET r == request[job.id]
        IN  /\ job.env = env
            /\ load.stage = "off"
            /\ r.op = "model" /\ job.stage \in {"reading", "writing"} =>
                  Usable(memory[env.reg], r.model)
            /\ r \in ConfigOps /\ job.stage = "writing" =>
                  /\ job.model = IF r.op = "model" THEN r.model ELSE files.model
                  /\ job.mode = IF r.op = "tools" THEN r.mode ELSE files.mode
            /\ r \in ConfigOps /\ job.stage = "written" =>
                  job.model = files.model /\ job.mode = files.mode
            /\ r \in ProviderOps /\ job.stage \in {"writing", "written"} =>
                  Allowed(memory[env.reg], Resolved(files.model), r)

\* What the environment works with is what the files hold, but for a write or a
\* repair that it has not heard of yet, and the model is one that can be used.
\* Of these a model that recovery could not persist is the exception, and where
\* it is not there is nothing to repair.
Agreement ==
    /\ told.known =>
          files = IF job.stage = "written" THEN Effect(told.files, request[job.id])
                  ELSE told.files
    /\ env.reg # 0 =>
          /\ ~load.repaired =>
                files.registry = IF job.stage = "written" /\ request[job.id] \in ProviderOps
                                 THEN NextRegistry(memory[env.reg], request[job.id])
                                 ELSE memory[env.reg]
          /\ ~(job.stage = "written" /\ request[job.id] \in ConfigOps) =>
                /\ env.mode = files.mode
                /\ ~env.unsaved => env.model = Resolved(files.model)
          /\ ~env.unsaved => ~Unusable /\ ~load.repaired

\* A pending provider mutation protects the model of the mounted session.
ProtectsLive ==
    \A i \in Pending : request[i] \in ProviderOps => request[i].live = live

IInv == /\ TypeOK /\ QueueInv /\ RegistryInv
        /\ ~mixed => LoadInv /\ ChangeInv
        /\ ~mixed /\ ~torn => Agreement
        /\ ~crossed => ProtectsLive

-----------------------------------------------------------------------------
(* The operators.                                                           *)

\* What the assumptions on the constants say of the bounds and of the default.
LEMMA Constants ==
  /\ MaxRequests \in Nat /\ MaxLoads \in Nat
  /\ Models \subseteq Nat /\ NoModel \notin Models /\ DefaultModel \in Models
  /\ \A m \in Models : Owner[m] \in Providers
  /\ Owner[DefaultModel] \in BuiltIn /\ BuiltIn \subseteq Providers
  /\ Absent \in Settings
  BY ModelsAssumption, OwnerAssumption, BuiltInAssumption, BoundsAssumption
  DEF NoModel, Absent, Settings

\* mergeAgentConfig always names a model.
LEMMA ResolvedIsModel ==
  ASSUME NEW m \in Refs
  PROVE  Resolved(m) \in Models /\ (m # NoModel => Resolved(m) = m)
<1>1. m # NoModel => m \in Models /\ Resolved(m) = m
  BY DEF Resolved, Refs
<1>2. GlobalModel # NoModel => GlobalModel \in Models
  BY GlobalModelAssumption
<1>3. m = NoModel => Resolved(m) \in {GlobalModel, DefaultModel} \ {NoModel}
  BY Constants DEF Resolved
<1> QED
  BY <1>1, <1>2, <1>3, Constants

\* A set of natural numbers that is not empty has a least element.
LEMMA MinOfModels ==
  ASSUME NEW S, S \subseteq Models, S # {}
  PROVE  Min(S) \in S
<1> DEFINE R == OpToRel(<, Nat)
<1>1. IsWellFoundedOn(R, Nat)
  BY NatLessThanWellFounded
<1>2. \A x, y \in Nat : x < y => <<x, y>> \in R
  BY DEF OpToRel
<1> HIDE DEF R
<1>3. S \subseteq Nat
  BY Constants
<1>4. PICK x \in S : \A y \in S : ~(<<y, x>> \in R)
  BY <1>1, <1>3, WFMin
<1>5. ASSUME NEW y \in S PROVE x <= y
  <2>1. x \in Nat /\ y \in Nat /\ ~(<<y, x>> \in R)
    BY <1>3, <1>4
  <2> QED
    BY <1>2, <2>1
<1> QED
  BY <1>4, <1>5 DEF Min

\* resolveDeterministicModelFallback finds a model that can be used, if any can.
LEMMA FallbackIsUsable ==
  ASSUME NEW r
  PROVE  /\ Fallback(r) \in Refs
         /\ Fallback(r) # NoModel => Usable(r, Fallback(r))
         /\ Fallback(r) = NoModel => \A m \in Models : ~Usable(r, m)
<1> DEFINE S == {m \in Models : Usable(r, m)}
<1>1. S # {} => Min(S) \in S
  BY MinOfModels
<1>2. Fallback(r) = CASE DefaultModel \in S -> DefaultModel
                      [] S # {}             -> Min(S)
                      [] OTHER              -> NoModel
  BY DEF Fallback
<1> HIDE DEF S
<1>3. \/ Fallback(r) \in S
      \/ S = {} /\ Fallback(r) = NoModel
  BY <1>1, <1>2
<1> QED
  BY <1>3, Constants DEF S, Refs

\* After repairNoEnabledModels the code's default can be used.
LEMMA RepairedIsUsable ==
  ASSUME NEW r \in ValidRegistry
  PROVE  Repaired(r) \in ValidRegistry /\ Fallback(Repaired(r)) # NoModel
<1> DEFINE d == Owner[DefaultModel]
           q == [r[d] EXCEPT !.enabled = TRUE, !.models = r[d].models \cup {DefaultModel}]
<1>1. d \in Providers /\ d \in BuiltIn /\ r[d] \in Settings /\ r[d].present
  BY Constants DEF ValidRegistry
<1>2. q \in Settings /\ q.present /\ q.enabled /\ DefaultModel \in q.models
  BY <1>1, Constants DEF Settings
<1>3. Repaired(r) = [r EXCEPT ![d] = q]
  BY <1>1 DEF Repaired, ValidRegistry, Settings
<1> HIDE DEF d, q
<1>4. Repaired(r) \in ValidRegistry /\ Repaired(r)[d] = q
  BY <1>1, <1>2, <1>3, Constants DEF ValidRegistry
<1>5. Usable(Repaired(r), DefaultModel)
  BY <1>2, <1>4 DEF Usable, d
<1> QED
  BY <1>4, <1>5, FallbackIsUsable, Constants

\* A provider mutation that is not refused leaves a registry that can be read
\* again.
Keeps(r) == r \in ProviderOps /\ (r.op = "remove" => r.provider \notin BuiltIn)
\* A mutation of one provider keeps the built-in ones in the file.
LEMMA NextIsValid ==
  ASSUME NEW registry \in ValidRegistry, NEW r, Keeps(r)
  PROVE  NextRegistry(registry, r) \in ValidRegistry
<1>1. r.provider \in Providers /\ r.op \in {"save", "remove"}
  BY DEF Keeps, ProviderOps
<1>2. r.op = "save" => r.config \in Settings /\ r.config.present
  BY DEF Keeps, ProviderOps
<1> QED
  BY <1>1, <1>2, Constants DEF NextRegistry, ValidRegistry, Keeps

\* A model that a mutation does not invalidate can be used as before.
LEMMA StaysUsable ==
  ASSUME NEW current, NEW next, NEW m, Usable(current, m), ~Invalidates(current, next, m),
         next[Owner[m]].present \in BOOLEAN, next[Owner[m]].enabled \in BOOLEAN
  PROVE  Usable(next, m)
  BY DEF Usable, Invalidates

\* Effect keeps files readable.
LEMMA EffectIsFiles ==
  ASSUME NEW f \in FilesType, NEW r, r \in ConfigOps \/ Keeps(r)
  PROVE  Effect(f, r) \in FilesType
<1>1. CASE r \in ConfigOps
  <2>1. \/ r.op = "model" /\ r.model \in Models
        \/ r.op = "tools" /\ r.mode \in Modes
    BY <1>1 DEF ConfigOps
  <2>2. CASE r.op = "model" /\ r.model \in Models
    BY <2>2 DEF Effect, FilesType, Refs
  <2>3. CASE r.op = "tools" /\ r.mode \in Modes
    BY <2>3 DEF Effect, FilesType
  <2> QED
    BY <2>1, <2>2, <2>3
<1>2. CASE Keeps(r)
  <2>1. r.op \notin {"model", "tools"}
    BY <1>2 DEF Keeps, ProviderOps
  <2>2. NextRegistry(f.registry, r) \in ValidRegistry
    BY <1>2, NextIsValid DEF FilesType
  <2> QED
    BY <2>1, <2>2 DEF Effect, FilesType
<1> QED
  BY <1>1, <1>2

\* The registry objects that hold something are counted by LoadsDone.
LEMMA LoadsCounted ==
  ASSUME NEW n \in 0..MaxLoads, NEW m,
         \A l \in Loads : (\E p \in Providers : m[l][p].present) <=> l <= n
  PROVE  Cardinality({l \in Loads : \E p \in Providers : m[l][p].present}) = n
<1>1. n \in Nat /\ MaxLoads \in Nat
  BY Constants
<1>2. {l \in Loads : \E p \in Providers : m[l][p].present} = 1..n
  BY <1>1 DEF Loads
<1>3. Cardinality(1..n) = n
  BY <1>1, FS_Interval
<1> QED
  BY <1>2, <1>3

\* A registry that can be read has something in it, and one never read has not.
LEMMA ValidIsPresent ==
  /\ \A r \in ValidRegistry : \E p \in Providers : r[p].present
  /\ \A p \in Providers : ~NoRegistry[p].present
  BY Constants DEF ValidRegistry, NoRegistry, Absent

\* What the registry objects hold determines LoadsDone.
LEMMA CountedIsDone ==
  ASSUME NEW n \in 0..MaxLoads, NEW m, Counted(m, n)
  PROVE  Cardinality({l \in Loads : \E p \in Providers : m[l][p].present}) = n
<1>1. ASSUME NEW l \in Loads
      PROVE  (\E p \in Providers : m[l][p].present) <=> l <= n
  BY ValidIsPresent DEF Counted
<1> QED
  BY <1>1, LoadsCounted

-----------------------------------------------------------------------------
(* Initial states.                                                          *)

\* The invariant holds before the first bootstrap.
LEMMA InitIInv == Init => IInv
<1> SUFFICES ASSUME Init PROVE IInv
  OBVIOUS
<1> USE Constants
<1>1. TypeOK
  <2>1. files \in FilesType
    BY RegistriesAssumption DEF Init, FilesType, Refs, Modes
  <2>2. env \in EnvType /\ job \in JobType /\ load \in LoadType
    BY DEF Init, EnvType, JobType, LoadType, NoEnv, NoJob, NoLoad, Refs, Modes
  <2>3. memory \in [Loads -> [Providers -> Settings]]
    BY DEF Init
  <2> QED
    BY <2>1, <2>2, <2>3 DEF Init, TypeOK, Refs, Fates
<1>2. Asked = {} /\ Pending = {}
  BY DEF Init, Asked, Pending
<1>3. LoadsDone = 0
  <2>1. Counted(memory, 0)
    BY DEF Init, Counted, Loads, NoRegistry
  <2> QED
    BY <2>1, CountedIsDone DEF LoadsDone
<1>4. QueueInv
  <2>1. Cardinality(Asked) = 0 /\ Asked = 1..0
    BY <1>2, FS_EmptySet
  <2> QED
    BY <1>2, <2>1 DEF Init, QueueInv, NoJob, Ids
<1>5. RegistryInv
  BY <1>3 DEF Init, RegistryInv, Counted, NoEnv, NoJob, NoLoad, Loads, NoRegistry
<1>6. LoadInv /\ ChangeInv /\ Agreement
  BY DEF Init, LoadInv, ChangeInv, Agreement, NoEnv, NoJob, NoLoad
<1>7. ProtectsLive
  BY <1>2 DEF ProtectsLive
<1> QED
  BY <1>1, <1>4, <1>5, <1>6, <1>7 DEF IInv

-----------------------------------------------------------------------------
(* What a state of IInv says, in the form the steps use.                    *)

\* The registry objects that somebody works with can be read.
LEMMA InUse ==
  ASSUME IInv
  PROVE  /\ env.reg # 0 => env.reg \in Loads /\ memory[env.reg] \in ValidRegistry
         /\ job.id # 0 => /\ job.env.reg \in Loads
                          /\ memory[job.env.reg] \in ValidRegistry
         /\ load.stage # "off" => load.id \in Loads
         /\ load.stage # "off" /\ load.prov => memory[load.id] \in ValidRegistry
<1> USE Constants
<1>1. env.reg \in 0..MaxLoads /\ job.env.reg \in 0..MaxLoads /\ load.id \in 0..MaxLoads
  BY DEF IInv, TypeOK, EnvType, JobType, LoadType
<1>2. env.reg <= LoadsDone /\ job.env.reg <= LoadsDone /\ LoadsDone \in 0..MaxLoads
  BY DEF IInv, RegistryInv
<1>3. load.stage # "off" => /\ load.id = IF load.prov THEN LoadsDone ELSE LoadsDone + 1
                            /\ env.reg < load.id
  BY DEF IInv, RegistryInv
<1>4. Counted(memory, LoadsDone) /\ (job.id # 0 => job.env.reg # 0)
  BY DEF IInv, RegistryInv
<1> QED
  BY <1>1, <1>2, <1>3, <1>4 DEF Counted, Loads

\* The mutation whose turn it is has a request, and one that keeps the files
\* readable once it has been decided on.
LEMMA JobRequest ==
  ASSUME IInv, job.id # 0
  PROVE  /\ job.id \in Ids /\ fate[job.id] = "running" /\ job.id \in Pending
         /\ request[job.id] \in ConfigOps \cup ProviderOps
         /\ job.stage \in {"writing", "written"} /\ request[job.id] \notin ConfigOps
               => Keeps(request[job.id])
         /\ job.stage # "idle" /\ env.reg # 0
<1>1. job.id \in Ids
  BY Constants DEF IInv, TypeOK, JobType, Ids
<1>2. fate[job.id] = "running" /\ job.id \in Pending
  BY <1>1 DEF IInv, QueueInv, Pending
<1> QED
  BY <1>1, <1>2 DEF IInv, QueueInv, Keeps

\* The two kinds of requests, told apart by their operation.
LEMMA Kinds ==
  ASSUME NEW r, r \in ConfigOps \cup ProviderOps
  PROVE  /\ r \in ConfigOps <=> r.op \in {"model", "tools"}
         /\ r \in ProviderOps <=> r.op \in {"save", "remove"}
         /\ r.op = "model" => r.model \in Models
         /\ r.op = "tools" => r.mode \in Modes
         /\ r.op = "save" => r.config \in Settings /\ r.config.present
         /\ r \in ProviderOps => r.provider \in Providers /\ r.live \in Models
  BY DEF ConfigOps, ProviderOps

\* Picking a model, or failing to make it the session's, changes nothing else.
LEMMA PickingKeeps ==
  ASSUME Picking
  PROVE  UNCHANGED <<files, env, memory, request, fate, job, load, live, told, mixed, crossed,
                     torn, faults, crashes>>
  BY DEF Picking, PickModel, SelectionFails, queueVars, ghosts, bounds

\* Whatever a dialog asks for becomes a request at the end of the queue.
LEMMA AskingEnqueues ==
  ASSUME IInv, Asking
  PROVE  \E r \in ConfigOps \cup ProviderOps : Enqueue(r)
<1>1. CASE \E m \in Models : SelectModel(m)
  BY <1>1 DEF SelectModel, ConfigOps
<1>2. CASE \E mode \in Modes : AskToolExecution(mode)
  BY <1>2 DEF AskToolExecution, ConfigOps
<1>3. live \in Models \/ env.reg = 0
  BY DEF IInv, TypeOK, RegistryInv, Refs
<1>4. CASE \E p \in Providers : \E config \in Catalogue[p] : SaveProvider(p, config)
  <2>0. PICK p \in Providers : \E config \in Catalogue[p] : SaveProvider(p, config)
    BY <1>4
  <2>1. PICK config \in Catalogue[p] : SaveProvider(p, config)
    BY <2>0
  <2> DEFINE q == [op |-> "save", provider |-> p, config |-> config, live |-> live]
  <2>2. Enqueue(q)
    BY <2>1 DEF SaveProvider
  <2>3. live \in Models /\ config \in {s \in Settings : s.present}
    BY <1>3, <2>2, CatalogueAssumption DEF Enqueue
  <2>4. q \in ProviderOps
    BY <2>3 DEF ProviderOps
  <2> QED
    BY <2>2, <2>4
<1>5. CASE \E p \in Providers : RemoveProvider(p)
  <2>1. PICK p \in Providers : RemoveProvider(p)
    BY <1>5
  <2> DEFINE q == [op |-> "remove", provider |-> p, live |-> live]
  <2>2. Enqueue(q)
    BY <2>1 DEF RemoveProvider
  <2>3. live \in Models
    BY <1>3, <2>2 DEF Enqueue
  <2>4. q \in ProviderOps
    BY <2>3 DEF ProviderOps
  <2> QED
    BY <2>2, <2>4
<1> QED
  BY <1>1, <1>2, <1>4, <1>5 DEF Asking

-----------------------------------------------------------------------------
(* Types.                                                                   *)

\* Every step keeps the types.
LEMMA TypeStep ==
  ASSUME IInv, [Next]_vars
  PROVE  TypeOK'
<1> USE Constants
<1> USE DEF TypeOK
<1>0. TypeOK
  BY DEF IInv
<1>1. CASE BeginLoad
  <2>1. load' \in LoadType
    <3>1. LoadsDone + 1 \in 0..MaxLoads
      BY <1>1 DEF BeginLoad, IInv, RegistryInv
    <3>2. load' = [stage |-> "reading", id |-> LoadsDone + 1, cfg |-> FALSE, model |-> NoModel,
                   mode |-> "serial", reread |-> "serial", prov |-> FALSE,
                   repaired |-> FALSE, unsaved |-> FALSE]
      BY <1>1 DEF BeginLoad, NoLoad
    <3> QED
      BY <3>1, <3>2 DEF LoadType, Modes, Refs
  <2> QED
    BY <1>0, <1>1, <2>1 DEF BeginLoad, queueVars, bounds
<1>2. CASE ReadConfig
  <2>1. load' \in LoadType
    BY <1>0, <1>2 DEF ReadConfig, LoadType, FilesType
  <2> QED
    BY <1>0, <1>2, <2>1 DEF ReadConfig, queueVars, bounds, ghosts
<1>3. CASE ReadProviders
  <2>1. load' \in LoadType
    BY <1>0, <1>3 DEF ReadProviders, LoadType
  <2>2. memory' \in [Loads -> [Providers -> Settings]]
    BY <1>0, <1>3 DEF ReadProviders, FilesType, ValidRegistry
  <2> QED
    BY <1>0, <1>3, <2>1, <2>2 DEF ReadProviders, queueVars, bounds, ghosts
<1>4. CASE Recover
  <2>1. load' \in LoadType
    <3>1. \E s \in {"loading", "repairing", "recovering"} : load' = [load EXCEPT !.stage = s]
      BY <1>4 DEF Recover
    <3> QED
      BY <1>0, <3>1 DEF LoadType
  <2> QED
    BY <1>0, <1>4, <2>1 DEF Recover, queueVars, bounds, ghosts
<1>5. CASE RepairProvider
  <2>1. load' \in LoadType
    BY <1>0, <1>5 DEF RepairProvider, LoadType
  <2>2. Repaired(memory[load.id]) \in ValidRegistry
    BY <1>5, InUse, RepairedIsUsable DEF RepairProvider, IInv, RegistryInv
  <2>3. files' \in FilesType
    BY <1>0, <1>5, <2>2 DEF RepairProvider, FilesType
  <2>4. memory' \in [Loads -> [Providers -> Settings]]
    BY <1>0, <1>5, <2>2 DEF RepairProvider, ValidRegistry
  <2>5. told' \in [known : BOOLEAN, files : FilesType]
    BY <1>0, <1>5, <2>3 DEF RepairProvider, Corrected
  <2> QED
    BY <1>0, <1>5, <2>1, <2>3, <2>4, <2>5 DEF RepairProvider, queueVars, bounds
<1>6. CASE ReadForRecovery
  <2>1. load' \in LoadType
    BY <1>0, <1>6, FallbackIsUsable DEF ReadForRecovery, LoadType, FilesType
  <2> QED
    BY <1>0, <1>6, <2>1 DEF ReadForRecovery, queueVars, bounds, ghosts
<1>7. CASE SaveRecovery
  <2>1. load' \in LoadType
    BY <1>0, <1>7 DEF SaveRecovery, LoadType
  <2>2. files' \in FilesType
    BY <1>0, <1>7 DEF SaveRecovery, FilesType, LoadType
  <2>3. told' \in [known : BOOLEAN, files : FilesType]
    BY <1>0, <1>7, <2>2 DEF SaveRecovery, Corrected
  <2> QED
    BY <1>0, <1>7, <2>1, <2>2, <2>3 DEF SaveRecovery, queueVars
<1>8. CASE Publish
  <2>1. Resolved(load.model) \in Models
    BY <1>0, ResolvedIsModel DEF LoadType
  <2>2. env' \in EnvType /\ live' \in Refs
    BY <1>0, <1>8, <2>1 DEF Publish, EnvType, LoadType, Refs
  <2>3. load' \in LoadType
    BY <1>8 DEF Publish, NoLoad, LoadType, Modes, Refs
  <2>4. told' \in [known : BOOLEAN, files : FilesType]
    BY <1>0, <1>8 DEF Publish
  <2> QED
    BY <1>0, <1>8, <2>2, <2>3, <2>4 DEF Publish, queueVars, bounds
<1>9. CASE LoadFails
  <2>1. load' \in LoadType
    BY <1>9 DEF LoadFails, NoLoad, LoadType, Modes, Refs
  <2>2. torn' \in BOOLEAN
    BY <1>0, <1>9 DEF LoadFails, LoadType
  <2> QED
    BY <1>0, <1>9, <2>1, <2>2 DEF LoadFails, queueVars
<1>10. ASSUME NEW r \in ConfigOps \cup ProviderOps, Enqueue(r)
       PROVE  /\ request' \in [Ids -> ConfigOps \cup ProviderOps \cup {NoRequest}]
              /\ fate' \in [Ids -> Fates]
  BY <1>0, <1>10 DEF Enqueue, Fates
<1>11. CASE Asking
  <2>1. \E r \in ConfigOps \cup ProviderOps : Enqueue(r)
    BY <1>11, AskingEnqueues
  <2>2. {live', picked'} \subseteq Refs /\ crossed' \in BOOLEAN
    BY <1>0, <1>11 DEF Asking, SelectModel, AskToolExecution, SaveProvider, RemoveProvider,
       Refs, ghosts
  <2>3. UNCHANGED <<files, env, memory, job, load, told, mixed, torn>>
    BY <1>11 DEF Asking, SelectModel, AskToolExecution, SaveProvider, RemoveProvider, ghosts
  <2> QED
    BY <1>0, <1>10, <2>1, <2>2, <2>3
<1>12. ASSUME NEW i \in Ids, Settle(i)
       PROVE  /\ request' \in [Ids -> ConfigOps \cup ProviderOps \cup {NoRequest}]
              /\ fate' \in [Ids -> Fates]
  BY <1>0, <1>12 DEF Settle, Fates
<1>13. NoJob \in JobType
  BY DEF NoJob, JobType, NoEnv, EnvType, Modes, Refs
<1>14. ASSUME NEW i \in Ids, BeginMutation(i)
       PROVE  TypeOK'
  <2>1. mixed' \in BOOLEAN
    BY <1>0, <1>14 DEF BeginMutation
  <2>2. CASE Settle(i) /\ UNCHANGED job
    BY <1>0, <1>12, <1>14, <2>1, <2>2 DEF BeginMutation, bounds
  <2>3. CASE /\ fate' = [fate EXCEPT ![i] = "running"]
             /\ UNCHANGED request
             /\ job' = [NoJob EXCEPT !.id = i, !.stage = "reading", !.env = env]
    <3>1. job' \in JobType
      <4>1. i \in 0..MaxRequests /\ env \in EnvType
        BY <1>0 DEF Ids
      <4>2. job' = [id |-> i, stage |-> "reading", env |-> env, model |-> NoModel,
                    mode |-> "serial"]
        BY <2>3 DEF NoJob
      <4> QED
        BY <4>1, <4>2 DEF JobType, Modes, Refs
    <3> QED
      BY <1>0, <1>14, <2>1, <2>3, <3>1 DEF BeginMutation, bounds, Fates
  <2> QED
    BY <1>14, <2>2, <2>3 DEF BeginMutation
<1>15. CASE ReadConfigToChange
  <2>1. job.id # 0
    BY <1>15 DEF ReadConfigToChange, IInv, QueueInv
  <2>2. job' \in JobType
    BY <1>0, <1>15, <2>1, JobRequest, Kinds
    DEF ReadConfigToChange, JobType, FilesType, Refs
  <2> QED
    BY <1>0, <1>15, <2>2 DEF ReadConfigToChange, queueVars, bounds, ghosts
<1>16. CASE DecideOnProvider
  <2>1. job.id # 0
    BY <1>16 DEF DecideOnProvider, IInv, QueueInv
  <2>2. job.id \in Ids
    BY <2>1, JobRequest
  <2>3. CASE job' = [job EXCEPT !.stage = "writing"] /\ UNCHANGED queueVars
    <3>1. job' \in JobType
      BY <1>0, <2>3 DEF JobType
    <3> QED
      BY <1>0, <1>16, <2>3, <3>1 DEF DecideOnProvider, queueVars, bounds, ghosts
  <2>4. CASE Settle(job.id) /\ job' = NoJob
    BY <1>0, <1>12, <1>13, <1>16, <2>2, <2>4 DEF DecideOnProvider, bounds, ghosts
  <2> QED
    BY <1>16, <2>3, <2>4 DEF DecideOnProvider
<1>17. CASE WriteFile
  <2>1. job.id # 0
    BY <1>17 DEF WriteFile, IInv, QueueInv
  <2>2. job' \in JobType
    BY <1>0, <1>17 DEF WriteFile, JobType
  <2>3. files' \in FilesType
    <3>1. CASE request[job.id].op \in {"model", "tools"}
      BY <1>0, <1>17, <3>1 DEF WriteFile, Written, FilesType, JobType
    <3>2. CASE request[job.id].op \notin {"model", "tools"}
      <4>1. NextRegistry(memory[job.env.reg], request[job.id]) \in ValidRegistry
        BY <1>17, <2>1, <3>2, JobRequest, Kinds, InUse, NextIsValid DEF WriteFile
      <4> QED
        BY <1>0, <1>17, <3>2, <4>1 DEF WriteFile, Written, FilesType
    <3> QED
      BY <3>1, <3>2
  <2> QED
    BY <1>0, <1>17, <2>2, <2>3 DEF WriteFile, queueVars, bounds, ghosts
<1>18. CASE FinishMutation
  <2>1. job.id # 0 /\ job.stage = "written"
    BY <1>18 DEF FinishMutation, IInv, QueueInv
  <2> DEFINE r == request[job.id]
  <2>2. job.id \in Ids /\ r \in ConfigOps \cup ProviderOps /\ (r \in ConfigOps \/ Keeps(r))
    BY <2>1, JobRequest
  <2>3. told' \in [known : BOOLEAN, files : FilesType]
    <3>1. Effect(told.files, r) \in FilesType
      BY <1>0, <2>2, EffectIsFiles
    <3> QED
      BY <1>0, <1>18, <3>1 DEF FinishMutation
  <2>4. env' \in EnvType
    <3>1. r.op \in {"model", "tools"} =>
             env' = [job.env EXCEPT !.model = Resolved(job.model), !.mode = job.mode]
      BY <1>18 DEF FinishMutation, Replaced
    <3>2. r.op \notin {"model", "tools"} => env' = env
      BY <1>18 DEF FinishMutation, Replaced
    <3>3. Resolved(job.model) \in Models /\ job.env \in EnvType /\ job.mode \in Modes
      BY <1>0, ResolvedIsModel DEF JobType
    <3> QED
      BY <1>0, <3>1, <3>2, <3>3 DEF EnvType, Refs
  <2>5. memory' \in [Loads -> [Providers -> Settings]]
    <3>1. r.op \in {"save", "remove"} => NextRegistry(memory[job.env.reg], r) \in ValidRegistry
      BY <2>1, <2>2, Kinds, InUse, NextIsValid
    <3>2. r.op \in {"save", "remove"} =>
             memory' = [memory EXCEPT ![job.env.reg] = NextRegistry(memory[job.env.reg], r)]
      BY <1>18 DEF FinishMutation, Replaced
    <3>3. r.op \notin {"save", "remove"} => memory' = memory
      BY <1>18 DEF FinishMutation, Replaced
    <3> QED
      BY <1>0, <3>1, <3>2, <3>3 DEF ValidRegistry
  <2> HIDE DEF r
  <2> QED
    BY <1>0, <1>12, <1>13, <1>18, <2>2, <2>3, <2>4, <2>5 DEF FinishMutation, bounds
<1>19. CASE MutationFails
  <2>1. job.id \in Ids
    BY <1>19, JobRequest DEF MutationFails, IInv, QueueInv
  <2> QED
    BY <1>0, <1>12, <1>13, <1>19, <2>1 DEF MutationFails, ghosts
<1>20. CASE Crash
  <2>1. env' \in EnvType /\ job' \in JobType /\ load' \in LoadType /\ live' \in Refs
    BY <1>13, <1>20 DEF Crash, NoEnv, NoLoad, EnvType, LoadType, Modes, Refs
  <2>2. /\ request' \in [Ids -> ConfigOps \cup ProviderOps \cup {NoRequest}]
        /\ fate' \in [Ids -> Fates]
    BY <1>0, <1>20 DEF Crash, Fates
  <2>3. told' \in [known : BOOLEAN, files : FilesType]
    <3>1. CASE job.stage = "written"
      <4>1. Effect(told.files, request[job.id]) \in FilesType
        BY <1>0, <3>1, JobRequest, EffectIsFiles DEF IInv, QueueInv
      <4> QED
        BY <1>0, <1>20, <3>1, <4>1 DEF Crash
    <3>2. CASE job.stage # "written"
      BY <1>0, <1>20, <3>2 DEF Crash
    <3> QED
      BY <3>1, <3>2
  <2> QED
    BY <1>0, <1>20, <2>1, <2>2, <2>3 DEF Crash
<1>21. CASE UNCHANGED vars
  BY <1>0, <1>21 DEF vars, queueVars, ghosts, bounds
<1>22. CASE Picking
  <2>1. picked' \in Refs
    BY <1>22 DEF Picking, PickModel, SelectionFails, Refs
  <2> QED
    BY <1>0, <1>22, <2>1, PickingKeeps
<1> QED
  BY <1>1, <1>2, <1>3, <1>4, <1>5, <1>6, <1>7, <1>8, <1>9, <1>11, <1>14, <1>15, <1>16,
     <1>17, <1>18, <1>19, <1>20, <1>21, <1>22 DEF Next, Loading, Mutation

-----------------------------------------------------------------------------
(* The queue.                                                               *)

\* The last request asked for is the one after those before it.
LEMMA EnqueueQueue ==
  ASSUME IInv, NEW r, Enqueue(r), UNCHANGED <<env, job>>,
         r \in ConfigOps \cup ProviderOps
  PROVE  QueueInv'
<1> USE Constants
<1>1. /\ Asked = 1..Cardinality(Asked) /\ Cardinality(Asked) < MaxRequests
      /\ Asked \subseteq Ids /\ env.reg # 0
  BY DEF IInv, QueueInv, Enqueue, Asked
<1>2. Cardinality(Asked) \in Nat
  <2>1. IsFiniteSet(Ids)
    BY FS_Interval DEF Ids
  <2> QED
    BY <1>1, <2>1, FS_Subset, FS_CardinalityType
<1>3. PICK i \in Ids : /\ i = Cardinality(Asked) + 1 /\ i \notin Asked
                       /\ request' = [request EXCEPT ![i] = r]
                       /\ fate' = [fate EXCEPT ![i] = "waiting"]
  <2>1. Cardinality(Asked) + 1 \in Ids /\ Cardinality(Asked) + 1 \notin 1..Cardinality(Asked)
    BY <1>1, <1>2 DEF Ids
  <2> QED
    BY <1>1, <2>1 DEF Enqueue
<1>4. fate \in [Ids -> Fates] /\ DOMAIN request = Ids
  BY DEF IInv, TypeOK
<1>5. fate[i] = "none" /\ job.id # i
  BY <1>3 DEF Asked, IInv, QueueInv
<1>6. Asked' = 1..(Cardinality(Asked) + 1)
  <2>1. Asked' = Asked \cup {i}
    BY <1>3, <1>4 DEF Asked
  <2> QED
    BY <1>1, <1>2, <1>3, <2>1
<1>7. Cardinality(Asked)' = Cardinality(Asked) + 1
  BY <1>2, <1>6, FS_Interval
<1>8. Pending' = Pending \cup {i}
  BY <1>3, <1>4 DEF Pending
<1>9. \A j \in Ids : fate'[j] = "running" <=> job'.id = j
  BY <1>3, <1>4, <1>5 DEF IInv, QueueInv
<1>10. \A j \in Pending' : request'[j] \in ConfigOps \cup ProviderOps
  BY <1>3, <1>4, <1>8 DEF IInv, QueueInv, Pending
<1>11. job.stage \in {"writing", "written"} => job.id # i /\ request'[job.id] = request[job.id]
  BY <1>3, <1>4, <1>5, JobRequest DEF IInv, QueueInv
<1>12. job.id = 0 <=> job.stage = "idle"
  BY DEF IInv, QueueInv
<1>13. job.stage \in {"writing", "written"} /\ request[job.id].op = "remove" =>
          request[job.id].provider \notin BuiltIn
  BY DEF IInv, QueueInv
<1> QED
  BY <1>1, <1>6, <1>7, <1>9, <1>10, <1>11, <1>12, <1>13 DEF QueueInv

\* The mutation that is answered leaves the queue, and the next may begin.
LEMMA SettleQueue ==
  ASSUME IInv, NEW i \in Pending, Settle(i), job' = NoJob, job.id \in {0, i},
         env'.reg # 0
  PROVE  QueueInv' /\ Pending' = Pending \ {i}
<1>1. fate \in [Ids -> Fates] /\ DOMAIN request = Ids /\ i \in Ids
  BY DEF IInv, TypeOK, Pending
<1>2. Asked' = Asked /\ Pending' = Pending \ {i}
  BY <1>1 DEF Settle, Asked, Pending
<1>3. \A j \in Ids : fate'[j] # "running" /\ j # 0
  BY <1>1, Constants DEF IInv, QueueInv, Settle, Ids
<1>4. \A j \in Pending' : request'[j] = request[j]
  BY <1>1, <1>2 DEF Settle, Pending
<1> QED
  BY <1>2, <1>3, <1>4 DEF IInv, QueueInv, NoJob

\* Every step keeps the order of the queue and the job at its head.
LEMMA QueueStep ==
  ASSUME IInv, [Next]_vars
  PROVE  QueueInv'
<1> USE Constants
<1>0. QueueInv
  BY DEF IInv
<1>1. CASE UNCHANGED <<queueVars, job>> /\ (env' = env \/ env'.reg # 0)
  BY <1>0, <1>1 DEF QueueInv, queueVars, Asked, Pending
<1>2. CASE Asking
  <2>1. UNCHANGED <<env, job>>
    BY <1>2 DEF Asking, SelectModel, AskToolExecution, SaveProvider, RemoveProvider
  <2> QED
    BY <1>2, <2>1, AskingEnqueues, EnqueueQueue
<1>3. ASSUME NEW i \in Ids, BeginMutation(i)
      PROVE  QueueInv'
  <2>1. i \in Pending /\ job.id = 0 /\ env' = env /\ env.reg # 0
    BY <1>0, <1>3 DEF BeginMutation, TurnOf, QueueInv
  <2>2. CASE Settle(i) /\ UNCHANGED job
    <3>1. fate \in [Ids -> Fates] /\ DOMAIN request = Ids
      BY DEF IInv, TypeOK
    <3>2. Asked' = Asked /\ Pending' = Pending \ {i}
      BY <2>1, <2>2, <3>1 DEF Settle, Asked, Pending
    <3>3. \A j \in Ids : (fate'[j] = "running" <=> fate[j] = "running") \/ j = i
      BY <2>2, <3>1 DEF Settle
    <3>4. fate'[i] # "running" /\ i # 0
      BY <2>2, <3>1 DEF Settle, Ids
    <3>5. \A j \in Pending' : request'[j] = request[j]
      BY <2>2, <3>1, <3>2 DEF Settle, Pending
    <3> QED
      BY <1>0, <2>1, <2>2, <3>2, <3>3, <3>4, <3>5 DEF QueueInv
  <2>3. CASE /\ fate' = [fate EXCEPT ![i] = "running"]
             /\ UNCHANGED request
             /\ job' = [NoJob EXCEPT !.id = i, !.stage = "reading", !.env = env]
    <3>1. job'.id = i /\ job'.stage = "reading" /\ i # 0
      BY <2>3 DEF NoJob, Ids
    <3>2. fate \in [Ids -> Fates]
      BY DEF IInv, TypeOK
    <3>3. Asked' = Asked /\ Pending' = Pending
      BY <2>1, <2>3, <3>2 DEF Asked, Pending
    <3>4. \A j \in Ids : fate'[j] = "running" <=> j = i
      <4>1. \A j \in Ids : fate[j] # "running"
        BY <1>0, <2>1 DEF QueueInv, Ids
      <4> QED
        BY <2>3, <3>2, <4>1
    <3> QED
      BY <1>0, <2>1, <2>3, <3>1, <3>3, <3>4 DEF QueueInv
  <2> QED
    BY <1>3, <2>2, <2>3 DEF BeginMutation
<1>4. CASE /\ UNCHANGED <<queueVars, env>> /\ job.id # 0
           /\ job'.id = job.id /\ job'.stage \in {"writing", "written"}
           /\ Keeps(request[job.id]) \/ request[job.id] \in ConfigOps
  <2>1. Asked' = Asked /\ Pending' = Pending
    BY <1>4 DEF Asked, Pending, queueVars
  <2>2. request[job.id].op = "remove" => request[job.id].provider \notin BuiltIn
    BY <1>4, JobRequest, Kinds DEF Keeps
  <2> QED
    BY <1>0, <1>4, <2>1, <2>2 DEF QueueInv, queueVars
<1>5. CASE ReadConfigToChange
  <2>1. job.id # 0
    BY <1>0, <1>5 DEF ReadConfigToChange, QueueInv
  <2>2. request[job.id] \in ConfigOps
    BY <1>5, <2>1, JobRequest, Kinds DEF ReadConfigToChange, AboutProvider
  <2>3. job \in JobType
    BY DEF IInv, TypeOK
  <2>4. job'.id = job.id /\ job'.stage = "writing"
    BY <1>5, <2>3 DEF ReadConfigToChange, JobType
  <2> QED
    BY <1>4, <1>5, <2>1, <2>2, <2>4 DEF ReadConfigToChange
<1>6. CASE DecideOnProvider
  <2>1. job.id # 0 /\ job.id \in Pending /\ env.reg # 0
    BY <1>0, <1>6, JobRequest DEF DecideOnProvider, QueueInv
  <2>2. CASE /\ Writable(memory[job.env.reg], request[job.id])
             /\ job' = [job EXCEPT !.stage = "writing"] /\ UNCHANGED queueVars
    <3>1. job \in JobType
      BY DEF IInv, TypeOK
    <3>2. job'.id = job.id /\ job'.stage = "writing"
      BY <2>2, <3>1 DEF JobType
    <3>3. Keeps(request[job.id])
      BY <1>6, <2>1, <2>2, JobRequest, Kinds DEF DecideOnProvider, AboutProvider, Keeps, Writable
    <3> QED
      BY <1>4, <1>6, <2>1, <2>2, <3>2, <3>3 DEF DecideOnProvider
  <2>3. CASE Settle(job.id) /\ job' = NoJob
    BY <1>6, <2>1, <2>3, SettleQueue DEF DecideOnProvider
  <2> QED
    BY <1>6, <2>2, <2>3 DEF DecideOnProvider
<1>7. CASE WriteFile
  <2>1. job.id # 0 /\ job \in JobType
    BY <1>0, <1>7 DEF WriteFile, QueueInv, IInv, TypeOK
  <2>2. job'.id = job.id /\ job'.stage = "written"
    BY <1>7, <2>1 DEF WriteFile, JobType
  <2> QED
    BY <1>4, <1>7, <2>1, <2>2, JobRequest DEF WriteFile
<1>8. CASE FinishMutation
  <2>1. job.id # 0 /\ job.id \in Pending /\ env.reg # 0
    BY <1>0, <1>8, JobRequest DEF FinishMutation, QueueInv
  <2>2. job.env.reg # 0 /\ job.env \in EnvType
    BY <2>1 DEF IInv, RegistryInv, TypeOK, JobType
  <2>3. env'.reg # 0
    BY <1>8, <2>1, <2>2 DEF FinishMutation, Replaced, EnvType
  <2> QED
    BY <1>8, <2>1, <2>3, SettleQueue DEF FinishMutation
<1>9. CASE MutationFails
  <2>1. job.id # 0 /\ job.id \in Pending /\ env.reg # 0
    BY <1>0, <1>9, JobRequest DEF MutationFails, QueueInv
  <2> QED
    BY <1>9, <2>1, SettleQueue DEF MutationFails
<1>10. CASE Crash
  <2>1. fate \in [Ids -> Fates]
    BY DEF IInv, TypeOK
  <2>2. Pending' = {} /\ Asked' = Asked
    BY <1>10, <2>1 DEF Crash, Pending, Asked
  <2>3. \A j \in Ids : fate'[j] # "running" /\ j # 0
    BY <1>10, <2>1 DEF Crash, Pending, Ids
  <2> QED
    BY <1>0, <1>10, <2>2, <2>3 DEF Crash, QueueInv, NoJob
<1>11. CASE Publish
  <2>1. load.id # 0
    BY <1>11, InUse DEF Publish, Loads
  <2>2. env'.reg # 0
    BY <1>11, <2>1 DEF Publish
  <2> QED
    BY <1>1, <1>11, <2>2 DEF Publish
<1> QED
  BY <1>1, <1>2, <1>3, <1>5, <1>6, <1>7, <1>8, <1>9, <1>10, <1>11
  DEF Next, Picking, PickModel, SelectionFails,
    Loading, Mutation, vars, BeginLoad, ReadConfig, ReadProviders, Recover,
      RepairProvider, ReadForRecovery, SaveRecovery, LoadFails, queueVars

-----------------------------------------------------------------------------
(* The registry objects.                                                    *)

\* Writing to a registry object that was read keeps the count of them, and
\* reading the next one adds one to it.
LEMMA WriteCounts ==
  ASSUME IInv, NEW l \in Loads, NEW v \in ValidRegistry, l <= LoadsDone + 1,
         memory' = [memory EXCEPT ![l] = v]
  PROVE  /\ LoadsDone' = IF l <= LoadsDone THEN LoadsDone ELSE l
         /\ LoadsDone' \in 0..MaxLoads /\ LoadsDone <= LoadsDone'
         /\ Counted(memory, LoadsDone)'
<1> USE Constants
<1> DEFINE n == IF l <= LoadsDone THEN LoadsDone ELSE l
<1>1. LoadsDone \in 0..MaxLoads /\ Counted(memory, LoadsDone)
  BY DEF IInv, RegistryInv
<1>2. n \in 0..MaxLoads /\ LoadsDone <= n
  BY <1>1 DEF Loads
<1>3. Counted(memory', n)
  <2>1. ASSUME NEW k \in Loads
        PROVE  IF k <= n THEN memory'[k] \in ValidRegistry ELSE memory'[k] = NoRegistry
    <3>1. memory'[k] = IF k = l THEN v ELSE memory[k]
      BY DEF IInv, TypeOK
    <3>2. k # l => (k <= n <=> k <= LoadsDone)
      BY <1>1 DEF Loads
    <3>3. k # l => IF k <= LoadsDone THEN memory[k] \in ValidRegistry ELSE memory[k] = NoRegistry
      BY <1>1 DEF Counted
    <3>4. l <= n
      BY <1>1 DEF Loads
    <3> QED
      BY <3>1, <3>2, <3>3, <3>4
  <2> QED
    BY <2>1 DEF Counted
<1> HIDE DEF n
<1>4. LoadsDone' = n
  BY <1>2, <1>3, CountedIsDone DEF LoadsDone
<1> QED
  BY <1>2, <1>3, <1>4 DEF n

\* Every step keeps each registry object the one of its own load.
LEMMA RegistryStep ==
  ASSUME IInv, [Next]_vars
  PROVE  RegistryInv'
<1> USE Constants
<1>0. RegistryInv /\ LoadsDone \in Nat /\ env.reg \in Nat /\ job.env.reg \in Nat
  BY DEF IInv, TypeOK, EnvType, JobType, RegistryInv
<1>1. CASE UNCHANGED <<env, memory, job, load, live, told>>
  BY <1>0, <1>1 DEF RegistryInv, LoadsDone
<1>2. CASE BeginLoad
  <2>1. load'.id = LoadsDone + 1 /\ load'.stage = "reading" /\ ~load'.prov
    BY <1>2 DEF BeginLoad, NoLoad
  <2>2. LoadsDone' = LoadsDone
    BY <1>2 DEF BeginLoad, LoadsDone
  <2> QED
    BY <1>0, <1>2, <2>1, <2>2 DEF BeginLoad, RegistryInv
<1>3. ASSUME UNCHANGED <<env, memory, job, live, told>>, load.stage # "off",
             load'.id = load.id, load'.prov = load.prov, load'.stage # "off",
             load'.stage # "reading" => load'.cfg /\ load'.prov
      PROVE  RegistryInv'
  <2>1. LoadsDone' = LoadsDone
    BY <1>3 DEF LoadsDone
  <2> QED
    BY <1>0, <1>3, <2>1 DEF RegistryInv
<1>4. load \in LoadType /\ told \in [known : BOOLEAN, files : FilesType]
  BY DEF IInv, TypeOK
<1>5. CASE ReadConfig
  BY <1>3, <1>4, <1>5 DEF ReadConfig, LoadType, ghosts
<1>6. CASE ReadProviders
  <2>1. load.id \in Loads /\ load.id = LoadsDone + 1 /\ env.reg < load.id /\ job.env.reg < load.id
    BY <1>0, <1>6, InUse DEF ReadProviders, RegistryInv
  <2>2. memory' = [memory EXCEPT ![load.id] = files.registry] /\ files.registry \in ValidRegistry
    BY <1>6 DEF ReadProviders, IInv, TypeOK, FilesType
  <2>3. LoadsDone' = load.id /\ LoadsDone' \in 0..MaxLoads /\ Counted(memory, LoadsDone)'
    <3>1. load.id <= LoadsDone + 1 /\ ~(load.id <= LoadsDone)
      BY <1>0, <2>1
    <3> QED
      BY <2>1, <2>2, <3>1, WriteCounts, Zenon
  <2>4. load'.stage = "reading" /\ load'.id = load.id /\ load'.prov
    BY <1>4, <1>6 DEF ReadProviders, LoadType
  <2> QED
    BY <1>0, <1>6, <2>1, <2>3, <2>4 DEF ReadProviders, RegistryInv, ghosts
<1>7. CASE Recover
  <2>1. \E s \in {"loading", "repairing", "recovering"} : load' = [load EXCEPT !.stage = s]
    BY <1>7 DEF Recover
  <2>2. load'.id = load.id /\ load'.prov = load.prov /\ load'.cfg = load.cfg
        /\ load'.stage # "off"
    BY <1>4, <2>1 DEF LoadType
  <2> QED
    BY <1>3, <1>7, <2>2 DEF Recover, ghosts
<1>8. CASE RepairProvider
  <2>1. load.id \in Loads /\ load.prov /\ load.cfg /\ load.id = LoadsDone
        /\ memory[load.id] \in ValidRegistry
    BY <1>0, <1>8, InUse DEF RepairProvider, RegistryInv
  <2>2. memory' = [memory EXCEPT ![load.id] = Repaired(memory[load.id])]
    BY <1>8 DEF RepairProvider
  <2>3. LoadsDone' = LoadsDone /\ Counted(memory, LoadsDone)'
    <3>1. load.id <= LoadsDone + 1 /\ load.id <= LoadsDone
      BY <1>0, <2>1
    <3>2. Repaired(memory[load.id]) \in ValidRegistry
      BY <2>1, RepairedIsUsable
    <3> QED
      BY <2>1, <2>2, <3>1, <3>2, WriteCounts, Zenon
  <2>4. load'.stage = "recovering" /\ load'.id = load.id /\ load'.prov /\ load'.cfg
    BY <1>4, <1>8, <2>1 DEF RepairProvider, LoadType
  <2>5. told'.known = told.known
    BY <1>4, <1>8 DEF RepairProvider, Corrected
  <2> QED
    BY <1>0, <1>8, <2>1, <2>3, <2>4, <2>5 DEF RepairProvider, RegistryInv
<1>9. CASE ReadForRecovery
  <2>1. load'.id = load.id /\ load'.prov = load.prov /\ load'.cfg = load.cfg
        /\ load'.stage = "saving"
    BY <1>4, <1>9 DEF ReadForRecovery, LoadType
  <2> QED
    BY <1>0, <1>3, <1>9, <2>1 DEF ReadForRecovery, RegistryInv, ghosts
<1>10. CASE SaveRecovery
  <2>1. load'.id = load.id /\ load'.prov = load.prov /\ load'.cfg = load.cfg
        /\ load'.stage = "loading"
    BY <1>4, <1>10 DEF SaveRecovery, LoadType
  <2>2. told'.known = told.known
    BY <1>4, <1>10 DEF SaveRecovery, Corrected
  <2>3. LoadsDone' = LoadsDone
    BY <1>10 DEF SaveRecovery, LoadsDone
  <2> QED
    BY <1>0, <1>10, <2>1, <2>2, <2>3 DEF SaveRecovery, RegistryInv
<1>11. CASE Publish
  <2>1. load.id \in Loads /\ load.prov /\ load.id = LoadsDone
    BY <1>0, <1>11, InUse DEF Publish, RegistryInv
  <2>2. LoadsDone' = LoadsDone
    BY <1>11 DEF Publish, LoadsDone
  <2>3. Resolved(load.model) \in Models
    BY <1>4, ResolvedIsModel DEF LoadType
  <2>4. env'.reg = load.id /\ env'.model = Resolved(load.model) /\ load' = NoLoad
    BY <1>11 DEF Publish
  <2>5. live' # NoModel /\ told'.known
    BY <1>11, <2>3, <2>4 DEF Publish
  <2> QED
    BY <1>0, <1>11, <2>1, <2>2, <2>3, <2>4, <2>5 DEF Publish, RegistryInv, NoLoad
<1>12. CASE LoadFails
  <2>1. LoadsDone' = LoadsDone
    BY <1>12 DEF LoadFails, LoadsDone
  <2> QED
    BY <1>0, <1>12, <2>1 DEF LoadFails, RegistryInv, NoLoad
<1>13. CASE Asking
  <2>1. UNCHANGED <<env, memory, job, load, told>> /\ (live' = live \/ live' \in Models)
    BY <1>13 DEF Asking, SelectModel, AskToolExecution, SaveProvider, RemoveProvider, ghosts
  <2>2. LoadsDone' = LoadsDone
    BY <2>1 DEF LoadsDone
  <2> QED
    BY <1>0, <2>1, <2>2 DEF RegistryInv
<1>14. ASSUME NEW i \in Ids, BeginMutation(i)
       PROVE  RegistryInv'
  <2>1. env.reg # 0
    BY <1>14 DEF BeginMutation, TurnOf, IInv, QueueInv
  <2>2. job' = job \/ job'.env = env
    BY <1>14 DEF BeginMutation, NoJob
  <2>3. job' = job \/ job'.env.reg # 0
    BY <2>1, <2>2
  <2>4. LoadsDone' = LoadsDone
    BY <1>14 DEF BeginMutation, LoadsDone
  <2> QED
    BY <1>0, <1>14, <2>2, <2>3, <2>4 DEF BeginMutation, RegistryInv
<1>15. ASSUME UNCHANGED <<env, memory, load, live, told>>,
              (job'.env.reg = job.env.reg /\ job'.id = job.id) \/ job' = NoJob
       PROVE  RegistryInv'
  <2>1. LoadsDone' = LoadsDone
    BY <1>15 DEF LoadsDone
  <2>2. job' = NoJob => job'.env.reg = 0 /\ job'.id = 0
    BY DEF NoJob, NoEnv
  <2>3. load.stage # "off" => 0 < load.id
    BY <1>4, InUse DEF Loads
  <2> QED
    BY <1>0, <1>15, <2>1, <2>2, <2>3 DEF RegistryInv
<1>16. job \in JobType
  BY DEF IInv, TypeOK
<1>17. CASE ReadConfigToChange
  BY <1>15, <1>16, <1>17 DEF ReadConfigToChange, JobType, ghosts
<1>18. CASE DecideOnProvider
  BY <1>15, <1>16, <1>18 DEF DecideOnProvider, JobType, ghosts
<1>19. CASE WriteFile
  BY <1>15, <1>16, <1>19 DEF WriteFile, JobType, ghosts
<1>20. CASE MutationFails
  BY <1>15, <1>20 DEF MutationFails, ghosts
<1>21. CASE FinishMutation
  <2> DEFINE r == request[job.id]
  <2>1. job.id # 0 /\ job.stage = "written" /\ env.reg # 0
    BY <1>21, JobRequest DEF FinishMutation, IInv, QueueInv
  <2>2. /\ job.env.reg \in Loads /\ job.env.reg <= LoadsDone
        /\ memory[job.env.reg] \in ValidRegistry
    BY <1>0, <2>1, InUse DEF RegistryInv
  <2>3. r \in ConfigOps \/ Keeps(r)
    BY <2>1, JobRequest
  <2>4. env' = env \/ (env'.reg = job.env.reg /\ env'.model \in Models)
    <3>1. \/ env' = env
          \/ env' = [job.env EXCEPT !.model = Resolved(job.model), !.mode = job.mode]
      BY <1>21 DEF FinishMutation, Replaced
    <3>2. job.env \in EnvType /\ Resolved(job.model) \in Models
      BY <1>16, ResolvedIsModel DEF JobType
    <3>3. CASE env' = [job.env EXCEPT !.model = Resolved(job.model), !.mode = job.mode]
      <4>1. env'.reg = job.env.reg /\ env'.model = Resolved(job.model)
        BY <3>2, <3>3 DEF EnvType
      <4> QED
        BY <3>2, <4>1
    <3> QED
      BY <3>1, <3>3
  <2>5. LoadsDone' = LoadsDone /\ Counted(memory, LoadsDone)'
    <3>1. CASE r.op \in {"save", "remove"}
      <4>1. NextRegistry(memory[job.env.reg], r) \in ValidRegistry
        BY <2>2, <2>3, <3>1, NextIsValid, Kinds
      <4>2. memory' = [memory EXCEPT ![job.env.reg] = NextRegistry(memory[job.env.reg], r)]
        BY <1>21, <3>1 DEF FinishMutation, Replaced
      <4>3. job.env.reg <= LoadsDone + 1
        BY <1>0, <2>2
      <4> HIDE DEF r
      <4> QED
        BY <2>2, <4>1, <4>2, <4>3, WriteCounts, Zenon
    <3>2. CASE r.op \notin {"save", "remove"}
      BY <1>0, <1>21, <3>2 DEF FinishMutation, Replaced, RegistryInv, LoadsDone
    <3> QED
      BY <3>1, <3>2
  <2>6. job' = NoJob /\ UNCHANGED <<load, live>> /\ told'.known = told.known
    BY <1>4, <1>21 DEF FinishMutation
  <2>7. job'.env.reg = 0 /\ job'.id = 0
    BY <2>6 DEF NoJob, NoEnv
  <2>8. load.stage # "off" => 0 < load.id
    BY InUse DEF Loads
  <2> HIDE DEF r
  <2> QED
    BY <1>0, <2>1, <2>2, <2>4, <2>5, <2>6, <2>7, <2>8 DEF RegistryInv
<1>22. CASE Crash
  <2>1. LoadsDone' = LoadsDone
    BY <1>22 DEF Crash, LoadsDone
  <2> QED
    BY <1>0, <1>22, <2>1 DEF Crash, RegistryInv, NoEnv, NoJob, NoLoad
<1>23. CASE Picking
  BY <1>1, <1>23, PickingKeeps
<1> QED
  BY <1>1, <1>2, <1>5, <1>6, <1>7, <1>8, <1>9, <1>10, <1>11, <1>12, <1>13, <1>14, <1>17,
     <1>18, <1>19, <1>20, <1>21, <1>22, <1>23 DEF Next, Loading, Mutation, vars

-----------------------------------------------------------------------------
(* What a provider mutation protects.                                       *)

\* Every step keeps what the pending provider mutations protect.
LEMMA ProtectsStep ==
  ASSUME IInv, [Next]_vars, ~crossed'
  PROVE  ProtectsLive'
<1>0. ~crossed /\ ProtectsLive
  <2>1. crossed \in BOOLEAN
    BY DEF IInv, TypeOK
  <2>2. crossed' = crossed \/ \E m \in Models : SelectModel(m)
    BY DEF Next, Picking, PickModel, SelectionFails,
       Loading, Mutation, Asking, vars, BeginLoad, ReadConfig, ReadProviders, Recover,
       RepairProvider, ReadForRecovery, SaveRecovery, Publish, LoadFails, AskToolExecution,
       SaveProvider, RemoveProvider, BeginMutation, ReadConfigToChange, DecideOnProvider,
       WriteFile, FinishMutation, MutationFails, Crash, ghosts
  <2> QED
    BY <2>1, <2>2 DEF SelectModel, IInv
<1>1. fate \in [Ids -> Fates] /\ DOMAIN request = Ids
  BY DEF IInv, TypeOK
<1>2. ASSUME Pending' \subseteq Pending, live' = live \/ Pending = {},
             \A i \in Pending' : request'[i] = request[i]
      PROVE  ProtectsLive'
  BY <1>0, <1>2 DEF ProtectsLive
<1>3. CASE UNCHANGED <<queueVars, live>>
  BY <1>2, <1>3 DEF queueVars, Pending
<1>4. ASSUME NEW i \in Ids, Settle(i), live' = live
      PROVE  ProtectsLive'
  BY <1>1, <1>2, <1>4 DEF Settle, Pending
<1>5. ASSUME NEW r \in ConfigOps \cup ProviderOps, Enqueue(r), UNCHANGED job,
             r \in ProviderOps => r.live = live',
             live' = live \/ \A i \in Pending : ~AboutProvider(i)
      PROVE  ProtectsLive'
  <2>1. PICK i : /\ request' = [request EXCEPT ![i] = r]
                 /\ fate' = [fate EXCEPT ![i] = "waiting"]
    BY <1>5 DEF Enqueue
  <2>2. \A j \in Pending' : j = i \/ (j \in Pending /\ request'[j] = request[j])
    BY <1>1, <2>1 DEF Pending
  <2>3. \A j \in Pending : j \in Ids /\ request[j] \in ConfigOps \cup ProviderOps
    BY DEF IInv, QueueInv, Pending
  <2>4. \A j \in Pending' : request'[j] \in ProviderOps => request'[j].live = live'
    <3> SUFFICES ASSUME NEW j \in Pending', request'[j] \in ProviderOps
                 PROVE  request'[j].live = live'
      OBVIOUS
    <3>1. CASE j = i /\ i \in Ids
      BY <1>1, <1>5, <2>1, <3>1
    <3>2. CASE j \in Pending /\ request'[j] = request[j]
      <4>1. request[j].live = live /\ AboutProvider(j)
        BY <1>0, <2>3, <3>2, Kinds DEF ProtectsLive, AboutProvider
      <4> QED
        BY <1>5, <3>2, <4>1
    <3> QED
      BY <2>2, <3>1, <3>2 DEF Pending
  <2> QED
    BY <2>4 DEF ProtectsLive
<1>6. CASE Asking
  <2>1. ASSUME NEW m \in Models, SelectModel(m) PROVE ProtectsLive'
    <3> DEFINE r == [op |-> "model", model |-> m]
    <3>1. r \in ConfigOps /\ r.op = "model" /\ Enqueue(r)
      BY <2>1 DEF SelectModel, ConfigOps
    <3>2. r \notin ProviderOps
      BY <3>1, Kinds
    <3>3. \A i \in Pending : ~AboutProvider(i)
      BY <2>1 DEF SelectModel
    <3> HIDE DEF r
    <3> QED
      BY <1>5, <2>1, <3>1, <3>2, <3>3 DEF SelectModel
  <2>2. ASSUME NEW mode \in Modes, AskToolExecution(mode) PROVE ProtectsLive'
    <3> DEFINE r == [op |-> "tools", mode |-> mode]
    <3>1. r \in ConfigOps /\ r.op = "tools" /\ Enqueue(r)
      BY <2>2 DEF AskToolExecution, ConfigOps
    <3>2. r \notin ProviderOps
      BY <3>1, Kinds
    <3> HIDE DEF r
    <3> QED
      BY <1>5, <2>2, <3>1, <3>2 DEF AskToolExecution
  <2>3. live \in Models \/ env.reg = 0
    BY DEF IInv, TypeOK, RegistryInv, Refs
  <2>4. ASSUME NEW p \in Providers, NEW config \in Catalogue[p], SaveProvider(p, config)
        PROVE  ProtectsLive'
    <3> DEFINE r == [op |-> "save", provider |-> p, config |-> config, live |-> live]
    <3>1. Enqueue(r) /\ live' = live
      BY <2>4 DEF SaveProvider
    <3>2. live \in Models /\ config \in {s \in Settings : s.present}
      BY <2>3, <3>1, CatalogueAssumption DEF Enqueue
    <3>3. r \in ProviderOps /\ r.live = live
      BY <3>2 DEF ProviderOps
    <3> HIDE DEF r
    <3> QED
      BY <1>5, <2>4, <3>1, <3>3 DEF SaveProvider
  <2>5. ASSUME NEW p \in Providers, RemoveProvider(p)
        PROVE  ProtectsLive'
    <3> DEFINE r == [op |-> "remove", provider |-> p, live |-> live]
    <3>1. Enqueue(r) /\ live' = live
      BY <2>5 DEF RemoveProvider
    <3>2. live \in Models
      BY <2>3, <3>1 DEF Enqueue
    <3>3. r \in ProviderOps /\ r.live = live
      BY <3>2 DEF ProviderOps
    <3> HIDE DEF r
    <3> QED
      BY <1>5, <2>5, <3>1, <3>3 DEF RemoveProvider
  <2> QED
    BY <1>6, <2>1, <2>2, <2>4, <2>5 DEF Asking
<1>7. ASSUME NEW i \in Ids, BeginMutation(i)
      PROVE  ProtectsLive'
  <2>1. CASE Settle(i)
    BY <1>4, <1>7, <2>1 DEF BeginMutation
  <2>2. CASE fate' = [fate EXCEPT ![i] = "running"] /\ UNCHANGED request
    <3>1. Pending' = Pending
      BY <1>1, <1>7, <2>2 DEF BeginMutation, TurnOf, Pending
    <3> QED
      BY <1>2, <1>7, <2>2, <3>1 DEF BeginMutation
  <2> QED
    BY <1>7, <2>1, <2>2 DEF BeginMutation
<1>8. job.stage # "idle" => job.id \in Ids
  BY JobRequest DEF IInv, QueueInv
<1>9. CASE DecideOnProvider
  BY <1>3, <1>4, <1>8, <1>9 DEF DecideOnProvider
<1>10. CASE FinishMutation
  BY <1>4, <1>8, <1>10 DEF FinishMutation
<1>11. CASE MutationFails
  BY <1>4, <1>8, <1>11 DEF MutationFails
<1>12. CASE Publish
  <2>1. live' = live \/ Pending = {}
    BY <1>12 DEF Publish, IInv, QueueInv, RegistryInv
  <2> QED
    BY <1>2, <1>12, <2>1 DEF Publish, queueVars, Pending
<1>13. CASE Crash
  <2>1. Pending' = {}
    BY <1>1, <1>13 DEF Crash, Pending
  <2> QED
    BY <2>1 DEF ProtectsLive
<1> QED
  BY <1>3, <1>6, <1>7, <1>9, <1>10, <1>11, <1>12, <1>13
  DEF Next, Picking, PickModel, SelectionFails,
    Loading, Mutation, vars, BeginLoad, ReadConfig, ReadProviders, Recover,
      RepairProvider, ReadForRecovery, SaveRecovery, LoadFails, ReadConfigToChange, WriteFile,
      queueVars, ghosts

-----------------------------------------------------------------------------
(* Loads.                                                                   *)

\* A step after which no reload and no mutation have overlapped is one of a
\* load or of a mutation, with nobody else at work.
LEMMA Apart ==
  ASSUME IInv, [Next]_vars, ~mixed'
  PROVE  /\ ~mixed /\ LoadInv /\ ChangeInv
         /\ load.stage # "off" => job.id = 0 /\ job.stage = "idle"
         /\ load'.stage # "off" => job'.id = 0
<1>1. mixed \in BOOLEAN
  BY DEF IInv, TypeOK
<1>2. mixed' = (mixed \/ job.id # 0) \/ mixed' = (mixed \/ load.stage # "off") \/ mixed' = mixed
  BY DEF Next, Picking, PickModel, SelectionFails,
     Loading, Mutation, Asking, vars, BeginLoad, ReadConfig, ReadProviders, Recover,
     RepairProvider, ReadForRecovery, SaveRecovery, Publish, LoadFails, SelectModel,
     AskToolExecution, SaveProvider, RemoveProvider, BeginMutation, ReadConfigToChange,
     DecideOnProvider, WriteFile, FinishMutation, MutationFails, Crash, ghosts
<1>3. ~mixed /\ LoadInv /\ ChangeInv
  BY <1>1, <1>2 DEF IInv
<1>4. load.stage # "off" => job.id = 0 /\ job.stage = "idle"
  BY <1>3 DEF ChangeInv, IInv, QueueInv
<1>5. job \in JobType
  BY DEF IInv, TypeOK
<1>6. load'.stage # "off" => job'.id = 0
  <2>1. CASE BeginLoad
    BY <1>3, <2>1 DEF BeginLoad
  <2>2. CASE Loading
    BY <1>4, <2>2 DEF Loading, ReadConfig, ReadProviders, Recover, RepairProvider,
       ReadForRecovery, SaveRecovery, Publish, LoadFails, NoLoad
  <2>3. CASE Asking
    BY <1>4, <2>3 DEF Asking, SelectModel, AskToolExecution, SaveProvider, RemoveProvider
  <2>4. CASE \E i \in Ids : BeginMutation(i)
    BY <1>4, <2>4 DEF BeginMutation
  <2>5. CASE ReadConfigToChange \/ DecideOnProvider \/ WriteFile \/ FinishMutation
             \/ MutationFails
    BY <1>4, <1>5, <2>5 DEF ReadConfigToChange, DecideOnProvider, WriteFile, FinishMutation,
       MutationFails
  <2>6. CASE Crash \/ UNCHANGED vars
    BY <1>4, <2>6 DEF Crash, NoLoad, vars
  <2>7. CASE Picking
    BY <1>4, <2>7, PickingKeeps
  <2> QED
    BY <2>1, <2>2, <2>3, <2>4, <2>5, <2>6, <2>7 DEF Next, Mutation
<1> QED
  BY <1>3, <1>4, <1>6

\* Every step keeps what a load has read and repaired in agreement with the files.
LEMMA LoadStep ==
  ASSUME IInv, [Next]_vars, ~mixed'
  PROVE  LoadInv'
<1> USE Constants
<1>0. /\ LoadInv
      /\ load.stage # "off" => job.id = 0 /\ job.stage = "idle"
      /\ load'.stage # "off" => job'.id = 0
  BY Apart
<1>1. load \in LoadType /\ memory \in [Loads -> [Providers -> Settings]] /\ files \in FilesType
  BY DEF IInv, TypeOK
<1>2. CASE load'.stage = "off"
  BY <1>2 DEF LoadInv
<1>3. CASE UNCHANGED <<files, memory, load>>
  BY <1>0, <1>3 DEF LoadInv, Unusable
<1>4. CASE BeginLoad
  <2>1. load'.stage = "reading" /\ ~load'.cfg /\ ~load'.prov
    BY <1>4 DEF BeginLoad, NoLoad
  <2> QED
    BY <2>1 DEF LoadInv
<1>5. CASE ReadConfig
  <2>1. load' = [load EXCEPT !.cfg = TRUE, !.model = files.model, !.mode = files.mode]
    BY <1>5 DEF ReadConfig
  <2>2. /\ load'.stage = "reading" /\ load'.model = files.model /\ load'.mode = files.mode
        /\ load'.prov = load.prov /\ load'.id = load.id
    BY <1>1, <1>5, <2>1 DEF LoadType, ReadConfig
  <2> QED
    BY <1>0, <1>5, <2>2 DEF ReadConfig, LoadInv
<1>6. CASE ReadProviders
  <2>1. /\ load'.stage = "reading" /\ load'.id = load.id /\ load'.cfg = load.cfg
        /\ load'.model = load.model /\ load'.mode = load.mode
    BY <1>1, <1>6 DEF ReadProviders, LoadType
  <2>2. memory'[load.id] = files.registry
    BY <1>1, <1>6, InUse DEF ReadProviders
  <2> QED
    BY <1>0, <1>6, <2>1, <2>2 DEF ReadProviders, LoadInv
<1>7. CASE Recover
  <2> DEFINE registry == memory[load.id]
  <2>1. /\ registry = files.registry /\ load.model = files.model /\ load.mode = files.mode
    BY <1>0, <1>7 DEF Recover, LoadInv
  <2>2. PICK s : load' = [load EXCEPT !.stage = s] /\
              \/ s = "loading" /\ Usable(registry, Resolved(load.model))
              \/ s = "repairing" /\ Unusable /\ Fallback(registry) = NoModel
              \/ s = "recovering" /\ Unusable /\ Fallback(registry) # NoModel
    BY <1>7, <2>1 DEF Recover, Unusable
  <2>3. /\ load'.stage = s /\ load'.id = load.id /\ load'.cfg /\ load'.prov
        /\ load'.model = load.model /\ load'.mode = load.mode
    BY <1>1, <1>7, <2>2 DEF Recover, LoadType
  <2>4. UNCHANGED <<files, memory>> /\ Unusable' = Unusable
    BY <1>7 DEF Recover, Unusable
  <2> QED
    BY <2>1, <2>2, <2>3, <2>4 DEF LoadInv
<1>8. CASE RepairProvider
  <2>1. /\ load.id \in Loads /\ load.cfg /\ load.prov /\ memory[load.id] \in ValidRegistry
    BY <1>8, InUse DEF RepairProvider, IInv, RegistryInv
  <2>2. /\ load'.stage = "recovering" /\ load'.id = load.id /\ load'.repaired /\ load'.cfg
        /\ load'.model = load.model /\ load'.mode = load.mode
    BY <1>1, <1>8, <2>1 DEF RepairProvider, LoadType
  <2>3. /\ memory'[load.id] = Repaired(memory[load.id])
        /\ files' = [files EXCEPT !.registry = Repaired(memory[load.id])]
    BY <1>1, <1>8, <2>1 DEF RepairProvider
  <2>4. /\ files'.registry = Repaired(memory[load.id])
        /\ files'.model = files.model /\ files'.mode = files.mode
    BY <1>1, <2>3 DEF FilesType
  <2>5. load.model = files.model /\ load.mode = files.mode
    BY <1>0, <1>8, <2>1 DEF RepairProvider, LoadInv
  <2>6. Fallback(Repaired(memory[load.id])) # NoModel
    BY <2>1, RepairedIsUsable
  <2> QED
    BY <2>2, <2>3, <2>4, <2>5, <2>6 DEF LoadInv
<1>9. CASE ReadForRecovery
  <2> DEFINE m == Fallback(memory[load.id])
  <2>1. m # NoModel /\ Usable(memory[load.id], m) /\ load.cfg /\ load.prov
    BY <1>0, <1>9, FallbackIsUsable DEF ReadForRecovery, LoadInv, IInv, RegistryInv
  <2>2. load' = [load EXCEPT !.stage = "saving", !.reread = files.mode, !.model = m]
    BY <1>9 DEF ReadForRecovery
  <2> HIDE DEF m
  <2>3. /\ load'.stage = "saving" /\ load'.id = load.id /\ load'.prov /\ load'.cfg
        /\ load'.mode = load.mode /\ load'.reread = files.mode /\ load'.model = m
        /\ load'.repaired = load.repaired
    BY <1>1, <2>1, <2>2 DEF LoadType
  <2>4. Unusable' = Unusable
    BY <1>9 DEF ReadForRecovery, Unusable
  <2> QED
    BY <1>0, <1>9, <2>1, <2>3, <2>4 DEF ReadForRecovery, LoadInv
<1>10. CASE SaveRecovery
  <2>1. /\ load.cfg /\ load.prov /\ load.mode = files.mode /\ load.reread = files.mode
        /\ memory[load.id] = files.registry /\ load.model # NoModel
        /\ Usable(memory[load.id], load.model)
    BY <1>0, <1>10 DEF SaveRecovery, LoadInv, IInv, RegistryInv
  <2>2. /\ load'.stage = "loading" /\ load'.id = load.id /\ load'.model = load.model
        /\ load'.mode = files.mode
    BY <1>1, <1>10, <2>1 DEF SaveRecovery, LoadType
  <2>3. \/ files' = [files EXCEPT !.model = load.model, !.mode = load.reread]
        \/ files' = files /\ load'.unsaved
    BY <1>1, <1>10 DEF SaveRecovery, LoadType
  <2>4. /\ files'.mode = files.mode /\ files'.registry = files.registry
        /\ ~load'.unsaved => files'.model = load.model
    BY <1>1, <2>1, <2>3 DEF FilesType
  <2>5. Resolved(load.model) = load.model
    BY <1>1, <2>1, ResolvedIsModel DEF LoadType
  <2>6. memory' = memory
    BY <1>10 DEF SaveRecovery
  <2> QED
    BY <2>1, <2>2, <2>4, <2>5, <2>6 DEF LoadInv
<1>11. CASE Publish \/ LoadFails \/ Crash
  BY <1>2, <1>11 DEF Publish, LoadFails, Crash, NoLoad
<1>12. CASE WriteFile \/ FinishMutation
  BY <1>0, <1>2, <1>12 DEF WriteFile, FinishMutation
<1> QED
  BY <1>3, <1>4, <1>5, <1>6, <1>7, <1>8, <1>9, <1>10, <1>11, <1>12
  DEF Next, Picking, PickModel, SelectionFails,
    Loading, Mutation, Asking, vars, SelectModel, AskToolExecution, SaveProvider,
      RemoveProvider, BeginMutation, ReadConfigToChange, DecideOnProvider, MutationFails

-----------------------------------------------------------------------------
(* Mutations.                                                               *)

\* Every step keeps what a mutation is about to write, or has written.
LEMMA ChangeStep ==
  ASSUME IInv, [Next]_vars, ~mixed'
  PROVE  ChangeInv'
<1>0. /\ ChangeInv
      /\ load.stage # "off" => job.id = 0 /\ job.stage = "idle"
      /\ load'.stage # "off" => job'.id = 0
  BY Apart
<1>1. job \in JobType /\ files \in FilesType /\ request \in [Ids -> ConfigOps \cup ProviderOps \cup {NoRequest}]
  BY DEF IInv, TypeOK
<1>2. CASE job'.id = 0
  BY <1>2 DEF ChangeInv
<1>3. CASE UNCHANGED <<files, env, memory, job, load>> /\ request'[job.id] = request[job.id]
  BY <1>0, <1>3 DEF ChangeInv
<1>4. CASE BeginLoad \/ Loading
  <2>1. load.stage # "off" \/ load'.stage # "off"
    BY <1>4 DEF BeginLoad, Loading, NoLoad, ReadConfig, ReadProviders, Recover, RepairProvider,
       ReadForRecovery, SaveRecovery, Publish, LoadFails
  <2>2. job' = job
    BY <1>4 DEF BeginLoad, Loading, ReadConfig, ReadProviders, Recover, RepairProvider,
       ReadForRecovery, SaveRecovery, Publish, LoadFails
  <2> QED
    BY <1>0, <1>2, <2>1, <2>2
<1>5. CASE Asking
  <2>1. UNCHANGED <<files, env, memory, job, load>>
    BY <1>5 DEF Asking, SelectModel, AskToolExecution, SaveProvider, RemoveProvider
  <2>2. CASE job.id # 0
    <3>1. PICK r : Enqueue(r)
      BY <1>5, AskingEnqueues
    <3>2. job.id \in Asked /\ job.id \in Ids
      BY <2>2, JobRequest DEF Asked
    <3>3. job.id # Cardinality(Asked) + 1
      <4>1. Cardinality(Asked) \in Nat
        <5>1. IsFiniteSet(Ids) /\ Asked \subseteq Ids
          BY Constants, FS_Interval DEF Ids, Asked
        <5> QED
          BY <5>1, FS_Subset, FS_CardinalityType
      <4> QED
        BY <3>2, <4>1 DEF IInv, QueueInv
    <3>4. request'[job.id] = request[job.id]
      BY <1>1, <3>1, <3>2, <3>3 DEF Enqueue
    <3> QED
      BY <1>3, <2>1, <3>4
  <2> QED
    BY <1>2, <2>1, <2>2
<1>6. ASSUME NEW i \in Ids, BeginMutation(i)
      PROVE  ChangeInv'
  <2>1. CASE Settle(i) /\ UNCHANGED job
    BY <1>2, <1>6, <2>1 DEF BeginMutation
  <2>2. CASE /\ ~(request[i].op = "model" /\ ~Usable(memory[env.reg], request[i].model))
             /\ UNCHANGED request
             /\ job' = [NoJob EXCEPT !.id = i, !.stage = "reading", !.env = env]
    <3>1. job'.id = i /\ job'.stage = "reading" /\ job'.env = env
      BY <2>2 DEF NoJob
    <3>2. load'.stage = "off"
      BY <1>0, <3>1, Constants DEF Ids
    <3>3. UNCHANGED <<env, memory, load>>
      BY <1>6 DEF BeginMutation
    <3> QED
      BY <2>2, <3>1, <3>2, <3>3 DEF ChangeInv
  <2> QED
    BY <1>6, <2>1, <2>2 DEF BeginMutation
<1>7. job.stage # "idle" => job.id # 0
  BY DEF IInv, QueueInv
<1>8. CASE ReadConfigToChange
  <2> DEFINE r == request[job.id]
  <2>1. /\ r.op \in {"model", "tools"} /\ r \in ConfigOps /\ r \notin ProviderOps /\ job.id # 0
    BY <1>7, <1>8, JobRequest, Kinds DEF ReadConfigToChange, AboutProvider
  <2>2. /\ job'.id = job.id /\ job'.stage = "writing" /\ job'.env = job.env
        /\ job'.model = IF r.op = "model" THEN r.model ELSE files.model
        /\ job'.mode = IF r.op = "tools" THEN r.mode ELSE files.mode
    BY <1>1, <1>8 DEF ReadConfigToChange, JobType
  <2>3. UNCHANGED <<files, env, memory, request, load>>
    BY <1>8 DEF ReadConfigToChange, queueVars
  <2>4. request'[job'.id] = r
    BY <2>2, <2>3
  <2>5. /\ job.env = env /\ load.stage = "off"
        /\ r.op = "model" => Usable(memory[env.reg], r.model)
    BY <1>0, <1>8, <2>1 DEF ReadConfigToChange, ChangeInv
  <2> HIDE DEF r
  <2> QED
    BY <2>1, <2>2, <2>3, <2>4, <2>5 DEF ChangeInv
<1>9. CASE DecideOnProvider
  <2> DEFINE r == request[job.id]
  <2>1. CASE job' = NoJob
    BY <1>2, <2>1 DEF NoJob
  <2>2. CASE /\ Allowed(memory[job.env.reg], Resolved(files.model), r)
             /\ job' = [job EXCEPT !.stage = "writing"] /\ UNCHANGED queueVars
    <3>1. /\ r.op \notin {"model", "tools"} /\ r \notin ConfigOps /\ job.id # 0
      BY <1>7, <1>9, JobRequest, Kinds DEF DecideOnProvider, AboutProvider
    <3>2. /\ job'.id = job.id /\ job'.stage = "writing" /\ job'.env = job.env
      BY <1>1, <2>2 DEF JobType
    <3>3. UNCHANGED <<files, env, memory, request, load>>
      BY <1>9, <2>2 DEF DecideOnProvider, queueVars
    <3>4. request'[job'.id] = r
      BY <3>2, <3>3
    <3>5. job.env = env /\ load.stage = "off"
      BY <1>0, <3>1 DEF ChangeInv
    <3> HIDE DEF r
    <3> QED
      BY <2>2, <3>1, <3>2, <3>3, <3>4, <3>5 DEF ChangeInv
  <2> QED
    BY <1>9, <2>1, <2>2 DEF DecideOnProvider
<1>10. CASE WriteFile
  <2> DEFINE r == request[job.id]
  <2>1. job.id # 0 /\ r \in ConfigOps \cup ProviderOps
    BY <1>7, <1>10, JobRequest DEF WriteFile
  <2>2. /\ job'.id = job.id /\ job'.stage = "written" /\ job'.env = job.env
        /\ job'.model = job.model /\ job'.mode = job.mode
    BY <1>1, <1>10 DEF WriteFile, JobType
  <2>3. UNCHANGED <<env, memory, request, load>> /\ files' = Written(r)
    BY <1>10 DEF WriteFile, queueVars
  <2>4. request'[job'.id] = r
    BY <2>2, <2>3
  <2>5. /\ job.env = env /\ load.stage = "off"
        /\ r \in ProviderOps => Allowed(memory[env.reg], Resolved(files.model), r)
    BY <1>0, <1>10, <2>1 DEF WriteFile, ChangeInv
  <2>6. r \in ConfigOps => files'.model = job.model /\ files'.mode = job.mode
    BY <1>1, <2>1, <2>3, Kinds DEF Written, FilesType
  <2>7. r \in ProviderOps => files'.model = files.model
    BY <1>1, <2>1, <2>3, Kinds DEF Written, FilesType
  <2> HIDE DEF r
  <2> QED
    BY <2>2, <2>3, <2>4, <2>5, <2>6, <2>7 DEF ChangeInv
<1>11. CASE FinishMutation \/ MutationFails \/ Crash
  BY <1>2, <1>11 DEF FinishMutation, MutationFails, Crash, NoJob
<1>12. CASE UNCHANGED vars
  BY <1>3, <1>12 DEF vars
<1>13. CASE Picking
  BY <1>3, <1>13, PickingKeeps
<1> QED
  BY <1>4, <1>5, <1>6, <1>8, <1>9, <1>10, <1>11, <1>12, <1>13 DEF Next, Mutation

-----------------------------------------------------------------------------
(* The files and the environment.                                           *)

\* Nothing is torn before a step that leaves nothing torn.
LEMMA NotTorn ==
  ASSUME IInv, [Next]_vars, ~mixed', ~torn'
  PROVE  /\ ~mixed /\ ~torn /\ Agreement
         /\ LoadFails => ~(load.repaired /\ env.reg # 0)
<1>1. torn \in BOOLEAN /\ ~mixed
  BY Apart DEF IInv, TypeOK
<1>2. torn' = torn \/ (LoadFails /\ torn' = (torn \/ (load.repaired /\ env.reg # 0)))
  BY DEF Next, Picking, PickModel, SelectionFails,
     Loading, Mutation, Asking, vars, BeginLoad, ReadConfig, ReadProviders, Recover,
     RepairProvider, ReadForRecovery, SaveRecovery, Publish, LoadFails, SelectModel,
     AskToolExecution, SaveProvider, RemoveProvider, BeginMutation, ReadConfigToChange,
     DecideOnProvider, WriteFile, FinishMutation, MutationFails, Crash, ghosts
<1>3. ~torn
  BY <1>1, <1>2
<1>4. LoadFails => ~(load.repaired /\ env.reg # 0)
  BY DEF LoadFails
<1> QED
  BY <1>1, <1>3, <1>4 DEF IInv

\* What a mutation writes: what was asked for, into files that nobody else has
\* written to since it read them.
LEMMA WriteTells ==
  ASSUME IInv, WriteFile, ~mixed, ~torn
  PROVE  /\ job.id # 0 /\ env.reg # 0 /\ job.env = env /\ load.stage = "off"
         /\ files.registry = memory[env.reg] /\ files = told.files /\ told.known
         /\ files' = Effect(files, request[job.id])
<1> DEFINE r == request[job.id]
<1>0. files \in FilesType /\ Agreement /\ ChangeInv /\ job.stage = "writing"
  BY DEF IInv, TypeOK, WriteFile
<1>1. job.id # 0 /\ r \in ConfigOps \cup ProviderOps /\ env.reg # 0
  BY <1>0, JobRequest DEF IInv, QueueInv
<1>2. job.env = env /\ load.stage = "off" /\ ~load.repaired /\ told.known
  BY <1>0, <1>1 DEF ChangeInv, IInv, RegistryInv
<1>3. files.registry = memory[env.reg] /\ files = told.files
  BY <1>0, <1>1, <1>2 DEF Agreement
<1>4. files' = Written(r)
  BY DEF WriteFile
<1>5. CASE r.op \in {"model", "tools"}
  <2>1. /\ job.model = IF r.op = "model" THEN r.model ELSE files.model
        /\ job.mode = IF r.op = "tools" THEN r.mode ELSE files.mode
    BY <1>0, <1>1, <1>5, Kinds DEF ChangeInv
  <2>2. files' = [files EXCEPT !.model = job.model, !.mode = job.mode]
    BY <1>4, <1>5 DEF Written
  <2> HIDE DEF r
  <2>3. CASE r.op = "model"
    <3>1. files' = [files EXCEPT !.model = r.model]
      BY <1>0, <2>1, <2>2, <2>3 DEF FilesType
    <3> QED
      BY <1>1, <1>2, <1>3, <2>3, <3>1 DEF Effect, r
  <2>4. CASE r.op = "tools"
    <3>1. files' = [files EXCEPT !.mode = r.mode]
      BY <1>0, <2>1, <2>2, <2>4 DEF FilesType
    <3> QED
      BY <1>1, <1>2, <1>3, <2>4, <3>1 DEF Effect, r
  <2> QED
    BY <1>5, <2>3, <2>4
<1>6. CASE r.op \notin {"model", "tools"}
  <2>1. files' = [files EXCEPT !.registry = NextRegistry(files.registry, r)]
    BY <1>2, <1>3, <1>4, <1>6 DEF Written
  <2> QED
    BY <1>1, <1>2, <1>3, <1>6, <2>1 DEF Effect
<1> QED
  BY <1>5, <1>6

\* The next registry of a mutation that is written has settings to look at.
LEMMA NextIsTyped ==
  ASSUME IInv, job.id # 0, job.stage \in {"writing", "written"},
         request[job.id] \in ProviderOps, NEW m \in Models
  PROVE  LET next == NextRegistry(memory[job.env.reg], request[job.id])
         IN  next[Owner[m]].present \in BOOLEAN /\ next[Owner[m]].enabled \in BOOLEAN
<1>1. request[job.id] \notin ConfigOps
  BY Kinds
<1>2. NextRegistry(memory[job.env.reg], request[job.id]) \in ValidRegistry
  BY <1>1, JobRequest, InUse, NextIsValid
<1> QED
  BY <1>2, Constants DEF ValidRegistry, Settings

\* The persisted default can still be used after any step that neither overlaps
\* with another's nor comes after a repair that was not heard of.
LEMMA DefaultStaysUsable ==
  ASSUME IInv, [Next]_vars, ~mixed', ~torn', ~Unusable
  PROVE  ~Unusable'
<1>0. ~mixed /\ ~torn /\ Agreement /\ LoadInv /\ ChangeInv /\ files \in FilesType
  BY NotTorn, Apart DEF IInv, TypeOK
<1>1. Resolved(files.model) \in Models
  BY <1>0, ResolvedIsModel DEF FilesType
<1>2. CASE UNCHANGED files
  BY <1>2 DEF Unusable
<1>3. CASE RepairProvider
  <2>1. memory[load.id] = files.registry /\ Fallback(memory[load.id]) = NoModel
    BY <1>0, <1>3 DEF RepairProvider, LoadInv, IInv, RegistryInv
  <2> QED
    BY <1>1, <2>1, FallbackIsUsable DEF Unusable
<1>4. CASE SaveRecovery
  <2>1. /\ memory[load.id] = files.registry /\ Usable(memory[load.id], load.model)
        /\ load.model # NoModel /\ load.model \in Refs
    BY <1>0, <1>4 DEF SaveRecovery, LoadInv, IInv, RegistryInv, TypeOK, LoadType
  <2>2. CASE files' = [files EXCEPT !.model = load.model, !.mode = load.reread]
    <3>1. files'.model = load.model /\ files'.registry = files.registry
      BY <1>0, <2>2 DEF FilesType
    <3> QED
      BY <2>1, <3>1, ResolvedIsModel DEF Unusable
  <2> QED
    BY <1>2, <1>4, <2>2 DEF SaveRecovery
<1>5. CASE WriteFile
  <2> DEFINE r == request[job.id]
  <2>1. /\ job.id # 0 /\ env.reg # 0 /\ job.env = env /\ job.stage = "writing"
        /\ files.registry = memory[env.reg] /\ files' = Effect(files, r)
    BY <1>0, <1>5, WriteTells DEF WriteFile
  <2>2. r \in ConfigOps \cup ProviderOps
    BY <2>1, JobRequest
  <2>3. CASE r.op = "model"
    <3>1. Usable(memory[env.reg], r.model) /\ r.model \in Models
      BY <1>0, <2>1, <2>2, <2>3, Kinds DEF ChangeInv
    <3>2. files' = [files EXCEPT !.model = r.model]
      BY <2>1, <2>3 DEF Effect
    <3>3. files'.model = r.model /\ files'.registry = files.registry
      BY <1>0, <3>2 DEF FilesType
    <3>4. Resolved(r.model) = r.model
      BY <3>1, ResolvedIsModel, Constants DEF Refs
    <3> QED
      BY <2>1, <3>1, <3>3, <3>4 DEF Unusable
  <2>4. CASE r.op = "tools"
    <3>1. files' = [files EXCEPT !.mode = r.mode]
      BY <2>1, <2>4 DEF Effect
    <3>2. files'.model = files.model /\ files'.registry = files.registry
      BY <1>0, <3>1 DEF FilesType
    <3> QED
      BY <3>2 DEF Unusable
  <2>5. CASE r \in ProviderOps
    <3> DEFINE next == NextRegistry(files.registry, r)
    <3>1. ~Invalidates(files.registry, next, Resolved(files.model))
      BY <1>0, <2>1, <2>5 DEF ChangeInv, Allowed
    <3>2. /\ next[Owner[Resolved(files.model)]].present \in BOOLEAN
          /\ next[Owner[Resolved(files.model)]].enabled \in BOOLEAN
      BY <1>1, <2>1, <2>5, NextIsTyped
    <3> HIDE DEF next
    <3>3. Usable(next, Resolved(files.model))
      BY <3>1, <3>2, StaysUsable DEF Unusable
    <3>4. files' = [files EXCEPT !.registry = next]
      BY <2>1, <2>2, <2>5, Kinds DEF Effect, next
    <3>5. files'.model = files.model /\ files'.registry = next
      BY <1>0, <3>4 DEF FilesType
    <3> QED
      BY <3>3, <3>5 DEF Unusable
  <2> HIDE DEF r
  <2> QED
    BY <2>2, <2>3, <2>4, <2>5, Kinds
<1> QED
  BY <1>2, <1>3, <1>4, <1>5
  DEF Next, Picking, PickModel, SelectionFails,
    Loading, Mutation, Asking, vars, BeginLoad, ReadConfig, ReadProviders, Recover,
      ReadForRecovery, Publish, LoadFails, SelectModel, AskToolExecution, SaveProvider,
      RemoveProvider, BeginMutation, ReadConfigToChange, DecideOnProvider, FinishMutation,
      MutationFails, Crash

\* A step that touches neither the files nor the environment keeps them in step.
LEMMA AgreementKept ==
  ASSUME IInv, Agreement, UNCHANGED <<files, env, told>>,
         env.reg # 0 => memory'[env.reg] = memory[env.reg],
         load'.repaired = load.repaired \/ (env.reg # 0 => ~load.repaired /\ ~load'.repaired),
         \/ job.stage # "written" /\ job'.stage # "written"
         \/ UNCHANGED job /\ request'[job.id] = request[job.id]
  PROVE  Agreement'
<1>1. Unusable' = Unusable
  BY DEF Unusable
<1> QED
  BY <1>1 DEF Agreement

\* Every step keeps the environment in agreement with the files and both with what was told.
LEMMA AgreementStep ==
  ASSUME IInv, [Next]_vars, ~mixed', ~torn'
  PROVE  Agreement'
<1>0. /\ ~mixed /\ ~torn /\ Agreement /\ LoadInv /\ ChangeInv
      /\ LoadFails => ~(load.repaired /\ env.reg # 0)
      /\ load.stage # "off" => job.id = 0 /\ job.stage = "idle"
      /\ ~Unusable => ~Unusable'
  BY NotTorn, Apart, DefaultStaysUsable
<1>1. /\ files \in FilesType /\ told \in [known : BOOLEAN, files : FilesType]
      /\ load \in LoadType /\ job \in JobType /\ env \in EnvType
      /\ memory \in [Loads -> [Providers -> Settings]] /\ DOMAIN request = Ids
  BY DEF IInv, TypeOK
<1>2. RegistryInv /\ QueueInv
  BY DEF IInv
<1>3. CASE BeginLoad
  <2>1. ~load.repaired /\ ~load'.repaired
    BY <1>2, <1>3 DEF BeginLoad, RegistryInv, NoLoad
  <2> QED
    BY <1>0, <1>3, <2>1, AgreementKept DEF BeginLoad, queueVars
<1>4. CASE ReadConfig \/ Recover \/ ReadForRecovery
  <2>1. load'.repaired = load.repaired
    BY <1>1, <1>4 DEF ReadConfig, Recover, ReadForRecovery, LoadType
  <2> QED
    BY <1>0, <1>4, <2>1, AgreementKept DEF ReadConfig, Recover, ReadForRecovery, queueVars, ghosts
<1>5. CASE ReadProviders
  <2>1. load'.repaired = load.repaired
    BY <1>1, <1>5 DEF ReadProviders, LoadType
  <2>2. env.reg # 0 => memory'[env.reg] = memory[env.reg]
    BY <1>1, <1>2, <1>5, InUse DEF ReadProviders, RegistryInv
  <2> QED
    BY <1>0, <1>5, <2>1, <2>2, AgreementKept DEF ReadProviders, queueVars, ghosts
<1>6. told.known /\ load.stage # "off" => told.files = files
  BY <1>0 DEF Agreement
<1>7. CASE RepairProvider
  <2>1. Unusable
    <3>1. memory[load.id] = files.registry /\ Fallback(memory[load.id]) = NoModel
      BY <1>0, <1>2, <1>7 DEF RepairProvider, LoadInv, RegistryInv
    <3>2. Resolved(files.model) \in Models
      BY <1>1, ResolvedIsModel DEF FilesType
    <3> QED
      BY <3>1, <3>2, FallbackIsUsable DEF Unusable
  <2>2. env.reg # 0 => env.unsaved
    BY <1>0, <2>1 DEF Agreement
  <2>3. /\ files' = [files EXCEPT !.registry = Repaired(memory[load.id])]
        /\ told.known => told' = [told EXCEPT !.files = files']
        /\ ~told.known => told' = told
    BY <1>6, <1>7, <2>1 DEF RepairProvider, Corrected, Unusable
  <2>4. /\ files'.model = files.model /\ files'.mode = files.mode
        /\ told'.known = told.known /\ (told.known => told'.files = files')
    BY <1>1, <2>3 DEF FilesType
  <2>5. load'.repaired
    BY <1>1, <1>7 DEF RepairProvider, LoadType
  <2>6. env' = env /\ job'.stage = "idle"
    BY <1>0, <1>7 DEF RepairProvider
  <2>7. env.reg # 0 => env.mode = files.mode
    BY <1>0, <1>7 DEF RepairProvider, Agreement
  <2> QED
    BY <2>2, <2>4, <2>5, <2>6, <2>7 DEF Agreement
<1>8. CASE SaveRecovery
  <2>1. load.repaired \/ Unusable
    BY <1>0, <1>8 DEF SaveRecovery, LoadInv
  <2>2. env.reg # 0 => env.unsaved
    BY <1>0, <2>1 DEF Agreement
  <2>3. load'.repaired = load.repaired
    BY <1>1, <1>8 DEF SaveRecovery, LoadType
  <2>4. CASE UNCHANGED <<files, told>>
    BY <1>0, <1>8, <2>3, <2>4, AgreementKept DEF SaveRecovery, queueVars
  <2>5. CASE files' = [files EXCEPT !.model = load.model, !.mode = load.reread]
             /\ told' = Corrected(files')
    <3>1. /\ told.known => told' = [told EXCEPT !.files = files']
          /\ ~told.known => told' = told
      BY <1>6, <1>8, <2>1, <2>5 DEF SaveRecovery, Corrected, Unusable
    <3>2. load.reread = files.mode
      BY <1>0, <1>8 DEF SaveRecovery, LoadInv
    <3>3. /\ files'.registry = files.registry /\ files'.mode = files.mode
          /\ told'.known = told.known /\ (told.known => told'.files = files')
      BY <1>1, <2>5, <3>1, <3>2 DEF FilesType
    <3>4. env' = env /\ job.stage = "idle" /\ UNCHANGED <<job, memory>>
      BY <1>0, <1>8 DEF SaveRecovery
    <3>5. env.reg # 0 => /\ env.mode = files.mode
                         /\ ~load.repaired => files.registry = memory[env.reg]
      BY <1>0, <3>4 DEF Agreement
    <3> QED
      BY <2>2, <2>3, <3>3, <3>4, <3>5 DEF Agreement
  <2> QED
    BY <1>8, <2>4, <2>5 DEF SaveRecovery
<1>9. CASE Publish
  <2>1. /\ memory[load.id] = files.registry /\ load.mode = files.mode
        /\ Usable(memory[load.id], Resolved(load.model))
        /\ ~load.unsaved => load.model = files.model
    BY <1>0, <1>2, <1>9 DEF Publish, LoadInv, RegistryInv
  <2>2. env' = [reg |-> load.id, model |-> Resolved(load.model), mode |-> load.mode,
                unsaved |-> load.unsaved]
    BY <1>9 DEF Publish
  <2>3. /\ env'.reg = load.id /\ env'.model = Resolved(load.model) /\ env'.mode = load.mode
        /\ env'.unsaved = load.unsaved
    BY <2>2
  <2>4. told'.files = files
    BY <1>6, <1>9 DEF Publish
  <2>5. UNCHANGED <<files, memory, job>> /\ job.stage = "idle" /\ ~load'.repaired
    BY <1>0, <1>9 DEF Publish, NoLoad
  <2>6. Unusable' = Unusable
    BY <2>5 DEF Unusable
  <2>7. ~load.unsaved => ~Unusable
    BY <2>1 DEF Unusable
  <2> QED
    BY <2>1, <2>3, <2>4, <2>5, <2>6, <2>7 DEF Agreement
<1>10. CASE LoadFails
  <2>1. ~load'.repaired /\ (env.reg # 0 => ~load.repaired)
    BY <1>0, <1>10 DEF LoadFails, NoLoad
  <2> QED
    BY <1>0, <1>10, <2>1, AgreementKept DEF LoadFails, queueVars
<1>11. CASE Asking
  <2>1. UNCHANGED <<files, env, memory, job, load, told>>
    BY <1>11 DEF Asking, SelectModel, AskToolExecution, SaveProvider, RemoveProvider, ghosts
  <2>2. job.stage = "written" => request'[job.id] = request[job.id]
    <3> SUFFICES ASSUME job.stage = "written" PROVE request'[job.id] = request[job.id]
      OBVIOUS
    <3>1. PICK r : Enqueue(r)
      BY <1>11, AskingEnqueues
    <3>2. job.id \in Ids /\ job.id \in Asked
      BY <1>2, JobRequest DEF QueueInv, Asked
    <3>3. Cardinality(Asked) \in Nat
      <4>1. IsFiniteSet(Ids) /\ Asked \subseteq Ids
        BY Constants, FS_Interval DEF Ids, Asked
      <4> QED
        BY <4>1, FS_Subset, FS_CardinalityType
    <3>4. job.id # Cardinality(Asked) + 1
      BY <1>2, <3>2, <3>3 DEF QueueInv
    <3> QED
      BY <1>1, <3>1, <3>2, <3>4 DEF Enqueue
  <2> QED
    BY <1>0, <2>1, <2>2, AgreementKept
<1>12. ASSUME NEW i \in Ids, BeginMutation(i)
       PROVE  Agreement'
  <2>1. job.stage = "idle" /\ job'.stage \in {"idle", "reading"}
    BY <1>2, <1>12 DEF BeginMutation, QueueInv, NoJob
  <2> QED
    BY <1>0, <1>12, <2>1, AgreementKept DEF BeginMutation
<1>13. CASE ReadConfigToChange \/ DecideOnProvider \/ MutationFails
  <2>1. job.stage # "written" /\ job'.stage # "written"
    <3>1. CASE ReadConfigToChange
      BY <1>1, <3>1 DEF ReadConfigToChange, JobType
    <3>2. CASE DecideOnProvider
      BY <1>1, <3>2 DEF DecideOnProvider, NoJob, JobType
    <3>3. CASE MutationFails
      BY <3>3 DEF MutationFails, NoJob
    <3> QED
      BY <1>13, <3>1, <3>2, <3>3
  <2> QED
    BY <1>0, <1>13, <2>1, AgreementKept
    DEF ReadConfigToChange, DecideOnProvider, MutationFails, ghosts
<1>14. CASE WriteFile
  <2> DEFINE r == request[job.id]
  <2>1. /\ job.id # 0 /\ env.reg # 0 /\ load.stage = "off" /\ told.known
        /\ files.registry = memory[env.reg] /\ files = told.files
        /\ files' = Effect(files, r)
    BY <1>0, <1>14, WriteTells
  <2>2. r \in ConfigOps \cup ProviderOps
    BY <2>1, JobRequest
  <2>3. /\ job'.id = job.id /\ job'.stage = "written" /\ request'[job'.id] = r
    BY <1>1, <1>14 DEF WriteFile, JobType, queueVars
  <2>4. UNCHANGED <<env, memory, load, told>> /\ ~load.repaired
    BY <1>2, <1>14, <2>1 DEF WriteFile, ghosts, RegistryInv
  <2>5. /\ env.mode = files.mode
        /\ ~env.unsaved => env.model = Resolved(files.model) /\ ~Unusable
    BY <1>0, <1>14, <2>1 DEF Agreement, WriteFile
  <2>6. CASE r \in ConfigOps
    <3>1. r \notin ProviderOps
      BY <2>2, <2>6, Kinds
    <3>2. files'.registry = files.registry
      <4>1. r.op \in {"model", "tools"}
        BY <2>6, Kinds
      <4> QED
        BY <1>1, <2>1, <4>1 DEF Effect, FilesType
    <3> HIDE DEF r
    <3> QED
      BY <1>0, <2>1, <2>3, <2>4, <2>5, <2>6, <3>1, <3>2 DEF Agreement
  <2>7. CASE r \in ProviderOps
    <3>1. r.op \notin {"model", "tools"}
      BY <2>2, <2>7, Kinds
    <3>2. files' = [files EXCEPT !.registry = NextRegistry(files.registry, r)]
      BY <2>1, <3>1 DEF Effect
    <3>3. /\ files'.registry = NextRegistry(files.registry, r)
          /\ files'.model = files.model /\ files'.mode = files.mode
      BY <1>1, <3>2 DEF FilesType
    <3> HIDE DEF r
    <3> QED
      BY <1>0, <2>1, <2>3, <2>4, <2>5, <2>7, <3>3 DEF Agreement
  <2> QED
    BY <2>2, <2>6, <2>7
<1>15. CASE FinishMutation
  <2> DEFINE r == request[job.id]
  <2>1. job.stage = "written" /\ job.id # 0 /\ env.reg # 0 /\ r \in ConfigOps \cup ProviderOps
    BY <1>2, <1>15, JobRequest DEF FinishMutation, QueueInv
  <2>2. job.env = env /\ load.stage = "off" /\ told.known /\ ~load.repaired
    BY <1>0, <1>2, <2>1 DEF ChangeInv, RegistryInv
  <2>3. job'.stage = "idle" /\ UNCHANGED <<files, load>> /\ Unusable' = Unusable
    BY <1>15 DEF FinishMutation, NoJob, Unusable
  <2>4. told'.files = files
    <3>1. files = Effect(told.files, r)
      BY <1>0, <2>1, <2>2 DEF Agreement
    <3> QED
      BY <1>1, <1>15, <3>1 DEF FinishMutation
  <2>5. ~env.unsaved => ~Unusable
    BY <1>0, <2>1 DEF Agreement
  <2>6. CASE r \in ConfigOps
    <3>1. r.op \in {"model", "tools"} /\ r.op \notin {"save", "remove"} /\ r \notin ProviderOps
      BY <2>1, <2>6, Kinds
    <3>2. env' = [env EXCEPT !.model = Resolved(job.model), !.mode = job.mode]
          /\ memory' = memory
      BY <1>15, <2>2, <3>1 DEF FinishMutation, Replaced
    <3>3. /\ env'.reg = env.reg /\ env'.model = Resolved(job.model) /\ env'.mode = job.mode
          /\ env'.unsaved = env.unsaved
      BY <1>1, <3>2 DEF EnvType
    <3>4. job.model = files.model /\ job.mode = files.mode
      BY <1>0, <2>1, <2>6 DEF ChangeInv
    <3>5. files.registry = memory[env.reg]
      BY <1>0, <2>1, <2>2, <3>1 DEF Agreement
    <3> HIDE DEF r
    <3> QED
      BY <2>2, <2>3, <2>4, <2>5, <3>2, <3>3, <3>4, <3>5 DEF Agreement
  <2>7. CASE r \in ProviderOps
    <3>1. r.op \notin {"model", "tools"} /\ r.op \in {"save", "remove"} /\ r \notin ConfigOps
      BY <2>1, <2>7, Kinds
    <3>2. env' = env /\ memory' = [memory EXCEPT ![env.reg] = NextRegistry(memory[env.reg], r)]
      BY <1>15, <2>2, <3>1 DEF FinishMutation, Replaced
    <3>3. memory'[env.reg] = NextRegistry(memory[env.reg], r)
      BY <1>1, <2>1, <3>2, InUse
    <3>4. files.registry = NextRegistry(memory[env.reg], r)
      BY <1>0, <2>1, <2>2, <2>7 DEF Agreement
    <3>5. env.mode = files.mode /\ (~env.unsaved => env.model = Resolved(files.model))
      BY <1>0, <2>1, <3>1 DEF Agreement
    <3> HIDE DEF r
    <3> QED
      BY <2>2, <2>3, <2>4, <2>5, <3>2, <3>3, <3>4, <3>5 DEF Agreement
  <2> QED
    BY <2>1, <2>6, <2>7
<1>16. CASE Crash
  <2>1. env'.reg = 0 /\ job'.stage = "idle" /\ files' = files
    BY <1>16 DEF Crash, NoEnv, NoJob
  <2>2. told.known => told'.files = files
    BY <1>0, <1>1, <1>16 DEF Crash, Agreement
  <2>3. told'.known = told.known
    BY <1>1, <1>16 DEF Crash
  <2> QED
    BY <2>1, <2>2, <2>3 DEF Agreement
<1>17. CASE UNCHANGED vars
  BY <1>0, <1>17, AgreementKept DEF vars
<1>18. CASE Picking
  BY <1>0, <1>18, AgreementKept, PickingKeeps
<1> QED
  BY <1>3, <1>4, <1>5, <1>7, <1>8, <1>9, <1>10, <1>11, <1>12, <1>13, <1>14, <1>15, <1>16,
     <1>17, <1>18 DEF Next, Loading, Mutation

-----------------------------------------------------------------------------
(* Theorems.                                                                *)

\* The invariant holds of every state of the specification.
THEOREM Invariance == Spec => []IInv
<1>1. IInv /\ [Next]_vars => IInv'
  <2> SUFFICES ASSUME IInv, [Next]_vars
               PROVE  IInv'
    OBVIOUS
  <2>1. TypeOK' /\ QueueInv' /\ RegistryInv'
    BY TypeStep, QueueStep, RegistryStep
  <2>2. ~mixed' => LoadInv' /\ ChangeInv'
    BY LoadStep, ChangeStep
  <2>3. ~mixed' /\ ~torn' => Agreement'
    BY AgreementStep
  <2>4. ~crossed' => ProtectsLive'
    BY ProtectsStep
  <2> QED
    BY <2>1, <2>2, <2>3, <2>4 DEF IInv
<1> QED
  BY InitIInv, <1>1, PTL DEF Spec

\* The files hold what every acknowledged mutation did to them, in the order of
\* the queue, whatever failed and whenever the process ended; and the
\* environment that the next mutation starts from agrees with them.
THEOREM SettingsKept == Spec => []SettingsAreKept
<1>1. IInv => SettingsAreKept
  <2> SUFFICES ASSUME IInv, told.known, ~mixed, ~torn
               PROVE  SettingsAreKept
    BY DEF SettingsAreKept
  <2>1. Agreement /\ QueueInv /\ RegistryInv
    BY DEF IInv
  <2>2. job.id = 0 => job.stage = "idle"
    BY <2>1 DEF QueueInv
  <2>3. load.stage = "off" => ~load.repaired
    BY <2>1 DEF RegistryInv
  <2> QED
    BY <2>1, <2>2, <2>3 DEF SettingsAreKept, Agreement
<1> QED
  BY Invariance, <1>1, PTL

\* The model of the mounted session can still be used after any step of a
\* mutation that was asked for while it was the session's.
LEMMA LiveStaysUsable ==
  ASSUME IInv, [Next]_vars, env.reg # 0, env.reg = env'.reg, live' = live, ~mixed', ~crossed',
         Usable(memory[env.reg], live)
  PROVE  Usable(memory'[env.reg], live)
<1>1. CASE memory' = memory
  BY <1>1
<1>2. memory \in [Loads -> [Providers -> Settings]] /\ env.reg \in Loads
  BY InUse DEF IInv, TypeOK
<1>3. CASE ReadProviders \/ RepairProvider
  <2>1. memory'[env.reg] = memory[env.reg]
    BY <1>2, <1>3, InUse DEF ReadProviders, RepairProvider, IInv, RegistryInv
  <2> QED
    BY <2>1
<1>4. CASE FinishMutation
  <2> DEFINE r == request[job.id]
             next == NextRegistry(memory[env.reg], r)
  <2>1. job.id # 0 /\ job.stage = "written" /\ r \in ConfigOps \cup ProviderOps
        /\ job.id \in Pending
    BY <1>4, JobRequest DEF FinishMutation, IInv, QueueInv
  <2>2. CASE r \notin ProviderOps
    <3>1. r.op \notin {"save", "remove"}
      BY <2>1, <2>2, Kinds
    <3> QED
      BY <1>1, <1>4, <3>1 DEF FinishMutation, Replaced
  <2>3. CASE r \in ProviderOps
    <3>1. job.env = env /\ Allowed(memory[env.reg], Resolved(files.model), r)
      BY <2>1, <2>3, Apart DEF ChangeInv
    <3>2. r.live = live
      <4>1. ~crossed
        <5>1. crossed \in BOOLEAN
          BY DEF IInv, TypeOK
        <5> QED
          BY <1>4, <5>1 DEF FinishMutation
      <4> QED
        BY <2>1, <2>3, <4>1 DEF IInv, ProtectsLive
    <3>3. live \in Models
      BY <2>1, <2>3, <3>2, Kinds
    <3>4. ~Invalidates(memory[env.reg], next, live)
      BY <3>1, <3>2 DEF Allowed
    <3>5. next[Owner[live]].present \in BOOLEAN /\ next[Owner[live]].enabled \in BOOLEAN
      BY <2>1, <2>3, <3>1, <3>3, NextIsTyped
    <3>6. r.op \in {"save", "remove"}
      BY <2>1, <2>3, Kinds
    <3>7. memory'[env.reg] = next
      BY <1>2, <1>4, <3>1, <3>6 DEF FinishMutation, Replaced
    <3> HIDE DEF next, r
    <3> QED
      BY <3>4, <3>5, <3>7, StaysUsable
  <2> QED
    BY <2>2, <2>3
<1> QED
  BY <1>1, <1>3, <1>4
  DEF Next, Picking, PickModel, SelectionFails,
    Loading, Mutation, Asking, vars, BeginLoad, ReadConfig, Recover, ReadForRecovery,
      SaveRecovery, Publish, LoadFails, SelectModel, AskToolExecution, SaveProvider,
      RemoveProvider, BeginMutation, ReadConfigToChange, DecideOnProvider, WriteFile,
      MutationFails, Crash

\* No step makes the persisted default unusable on disk, nor the model of the
\* mounted session in memory.
THEOREM SelectionsUsable == Spec => SelectionsStayUsable
<1> DEFINE Step ==
      /\ Usable(files.registry, Resolved(files.model)) /\ ~mixed' /\ ~torn'
         => Usable(files'.registry, Resolved(files'.model))
      /\ env.reg # 0 /\ env.reg = env'.reg /\ live' = live /\ ~mixed' /\ ~crossed'
         /\ Usable(memory[env.reg], live)
         => Usable(memory'[env.reg], live)
<1>1. IInv /\ [Next]_vars => Step
  BY DefaultStaysUsable, LiveStaysUsable DEF Unusable
<1> HIDE DEF Step
<1>2. IInv /\ [Next]_vars => [Step]_vars
  BY <1>1
<1>3. Spec => [][Step]_vars
  BY Invariance, <1>2, PTL DEF Spec
<1> QED
  BY <1>3 DEF Step, SelectionsStayUsable
=============================================================================
