-------------------------- MODULE LocalEnvironment --------------------------
(***************************************************************************)
(* A process-wide store environment: session-environment.ts and its twin   *)
(* runtime-environment.ts.  Both keep three module variables - the         *)
(* installed environment, the promise of a bootstrap under way and the     *)
(* promise of a shutdown under way - and both let bootstrap and shutdown   *)
(* be called at any time, by anybody, in any order.  Every await is a      *)
(* step boundary here.                                                     *)
(*                                                                         *)
(* Stores are numbered by the bootstrap that makes them; 0 is null.        *)
(* ClearsAfterClose is TRUE for the Session environment, which looks at    *)
(* the installed environment again once the store is closed, and FALSE for *)
(* the Runtime environment, which does not.                                *)
(***************************************************************************)
EXTENDS Integers, FiniteSets

CONSTANTS Callers,           \* callers of bootstrap, one call in flight each
          Stores,            \* numbers of the bootstraps made: the bound
          ClearsAfterClose   \* does shutdown clear the singleton after close?

ASSUME StoresAssumption == Stores \subseteq Nat \ {0}
ASSUME ClearsAssumption == ClearsAfterClose \in BOOLEAN

NoStore == 0

VARIABLES
    installed,   \* localSessionEnvironment
    booting,     \* localSessionEnvironmentPromise: its store, or None
    storeState,  \* [Stores -> fresh, booting, failed, open, closed, stuck]
    closing,     \* what the shutdown under way waits for or closes
    caller       \* [Callers -> where its bootstrap call is]

localVars == <<installed, booting, storeState, closing, caller>>

\* localSessionEnvironmentShutdownPromise: `stage` "off" when it is null.
Off == [stage |-> "off", target |-> NoStore]

StoreStates   == {"fresh", "booting", "failed", "open", "closed", "stuck"}
ShutdownStage == {"off", "await", "close"}
CallerState   == [stage : {"out", "behind", "resumed", "joined"},
                  target : Stores \cup {NoStore}]
OutState      == [stage |-> "out", target |-> NoStore]

LocalTypeOK ==
    /\ installed \in Stores \cup {NoStore}
    /\ booting \in Stores \cup {NoStore}
    /\ storeState \in [Stores -> StoreStates]
    /\ closing \in [stage : ShutdownStage, target : Stores \cup {NoStore}]
    /\ closing.stage = "close" => closing.target # NoStore
    /\ caller \in [Callers -> CallerState]

LocalInit ==
    /\ installed = NoStore
    /\ booting = NoStore
    /\ storeState = [s \in Stores |-> "fresh"]
    /\ closing = Off
    /\ caller = [c \in Callers |-> OutState]

-----------------------------------------------------------------------------
\* New calls come from the event loop, so after the continuations of a promise
\* that has just settled: those run first, in microtasks.
AtEventLoop == \A c \in Callers : caller[c].stage # "resumed"

\* The bound on bootstraps: a call is made only while there is a number left
\* for it and for every caller that may still start one.
StoresLeft ==
    Cardinality({s \in Stores : storeState[s] = "fresh"})
        > Cardinality({c \in Callers : caller[c].stage \in {"behind", "resumed"}})

(* bootstrapLocalSessionEnvironment                                        *)

\* The part of the call after the shutdown, if any, has been awaited: the
\* installed environment is returned, a bootstrap under way is joined, and
\* otherwise a new one is started.
ReturnInstalled(c) ==
    /\ installed # NoStore
    /\ caller' = [caller EXCEPT ![c] = OutState]
    /\ UNCHANGED <<booting, storeState>>

JoinBootstrap(c) ==
    /\ installed = NoStore
    /\ booting # NoStore
    /\ caller' = [caller EXCEPT ![c] = [stage |-> "joined", target |-> booting]]
    /\ UNCHANGED <<booting, storeState>>

StartBootstrap(c) ==
    /\ installed = NoStore
    /\ booting = NoStore
    /\ \E s \in Stores :
          /\ storeState[s] = "fresh"
          /\ \A t \in Stores : t < s => storeState[t] # "fresh"
          /\ booting' = s
          /\ storeState' = [storeState EXCEPT ![s] = "booting"]
          /\ caller' = [caller EXCEPT ![c] = [stage |-> "joined", target |-> s]]

Enter(c) ==
    /\ \/ ReturnInstalled(c)
       \/ JoinBootstrap(c)
       \/ StartBootstrap(c)
    /\ UNCHANGED <<installed, closing>>

\* Mutant: bootstrap does not wait for a shutdown under way.
CallBootstrapAtOnce(c) ==
    /\ AtEventLoop
    /\ StoresLeft
    /\ caller[c].stage = "out"
    /\ Enter(c)

\* A call made while a shutdown is under way waits for it first.
CallBootstrap(c) ==
    /\ AtEventLoop
    /\ StoresLeft
    /\ caller[c].stage = "out"
    /\ IF closing.stage = "off"
       THEN Enter(c)
       ELSE /\ caller' = [caller EXCEPT ![c].stage = "behind"]
            /\ UNCHANGED <<installed, booting, storeState, closing>>

\* It goes on in a microtask after the shutdown has settled.
ResumeBootstrap(c) ==
    /\ caller[c].stage = "resumed"
    /\ Enter(c)

\* The bootstrap resolves: its environment becomes the singleton whatever
\* happened meanwhile, and everybody who joined it gets it.
Released(s) == [c \in Callers |->
    IF caller[c].stage = "joined" /\ caller[c].target = s THEN OutState ELSE caller[c]]

BootstrapResolves(s) ==
    /\ storeState[s] = "booting"
    /\ storeState' = [storeState EXCEPT ![s] = "open"]
    /\ installed' = s
    /\ caller' = Released(s)
    /\ UNCHANGED <<booting, closing>>

\* It fails: the promise is forgotten so that the next call starts again.  A
\* shutdown that awaited it fails with it (its finally forgets the shutdown),
\* and so do the callers behind that shutdown.
BootstrapFails(s) ==
    /\ storeState[s] = "booting"
    /\ storeState' = [storeState EXCEPT ![s] = "failed"]
    /\ booting' = NoStore
    /\ LET failsToo == closing = [stage |-> "await", target |-> s]
       IN /\ closing' = IF failsToo THEN Off ELSE closing
          /\ caller' = [c \in Callers |->
                IF failsToo /\ caller[c].stage = "behind" THEN OutState
                ELSE Released(s)[c]]
    /\ UNCHANGED installed

-----------------------------------------------------------------------------
(* shutdownLocalSessionEnvironment                                         *)

\* Everybody behind the shutdown is resumed when it settles.
Resumed == [c \in Callers |->
    IF caller[c].stage = "behind" THEN [caller[c] EXCEPT !.stage = "resumed"]
    ELSE caller[c]]

\* A call while one is under way only joins it.  Otherwise the installed
\* environment and the pending bootstrap are taken, both variables cleared.
CallShutdown ==
    /\ AtEventLoop
    /\ closing.stage = "off"
    /\ closing' = IF installed # NoStore THEN [stage |-> "close", target |-> installed]
                  ELSE [stage |-> "await", target |-> booting]
    /\ installed' = NoStore
    /\ booting' = NoStore
    /\ UNCHANGED <<storeState, caller>>

\* `environment ?? await pendingEnvironment`: there was nothing to close ...
NothingToClose ==
    /\ closing = [stage |-> "await", target |-> NoStore]
    /\ closing' = Off
    /\ caller' = Resumed
    /\ UNCHANGED <<installed, booting, storeState>>

\* ... or the bootstrap that was pending has resolved, and is closed.
CloseAwaited ==
    /\ closing.stage = "await"
    /\ closing.target # NoStore
    /\ storeState[closing.target] = "open"
    /\ closing' = [closing EXCEPT !.stage = "close"]
    /\ UNCHANGED <<installed, booting, storeState, caller>>

\* Mutant: the shutdown promise is not forgotten when the close fails.
CloseSettlesOnSuccess ==
    /\ closing.stage = "close"
    /\ \E result \in {"closed", "stuck"} :
          /\ storeState' = [storeState EXCEPT ![closing.target] = result]
          /\ closing' = IF result = "closed" THEN Off ELSE [closing EXCEPT !.stage = "await"]
    /\ installed' = IF installed = closing.target THEN NoStore ELSE installed
    /\ UNCHANGED booting
    /\ caller' = IF storeState'[closing.target] = "closed" THEN Resumed ELSE caller

\* store.close() has returned, or thrown, and the shutdown settles: the
\* Session environment drops the singleton in its finally if it is still the
\* store just closed.
CloseSettles ==
    /\ closing.stage = "close"
    /\ \E result \in {"closed", "stuck"} :
          storeState' = [storeState EXCEPT ![closing.target] = result]
    /\ installed' = IF ClearsAfterClose /\ installed = closing.target
                    THEN NoStore ELSE installed
    /\ closing' = Off
    /\ UNCHANGED booting
    /\ caller' = IF storeState'[closing.target] = "closed" THEN Resumed
                 ELSE [c \in Callers |->
                         IF caller[c].stage = "behind" THEN OutState ELSE caller[c]]

-----------------------------------------------------------------------------

LocalNext ==
    \/ \E c \in Callers : CallBootstrap(c) \/ ResumeBootstrap(c)
    \/ \E s \in Stores : BootstrapResolves(s) \/ BootstrapFails(s)
    \/ CallShutdown
    \/ NothingToClose
    \/ CloseAwaited
    \/ CloseSettles

LocalSpec == LocalInit /\ [][LocalNext]_localVars

\* Promises settle, and their continuations run.
LocalFairness ==
    /\ \A c \in Callers : WF_localVars(ResumeBootstrap(c))
    /\ \A s \in Stores : WF_localVars(BootstrapResolves(s) \/ BootstrapFails(s))
    /\ WF_localVars(NothingToClose)
    /\ WF_localVars(CloseAwaited)
    /\ WF_localVars(CloseSettles)

LocalFairSpec == LocalSpec /\ LocalFairness

-----------------------------------------------------------------------------
(* Properties                                                              *)

\* "Boots exactly one local semantic Session Store": bootstraps and shutdowns
\* that overlap in any order never leave two stores open, so two authorities
\* can never write the same database.
OneOpenStore ==
    \A s, t \in Stores :
        (storeState[s] \in {"booting", "open"} /\ storeState[t] \in {"booting", "open"}) => s = t

\* A store that was closed never becomes, or stays, the process-wide
\* authority: whenever no shutdown is under way, the installed environment is
\* open - a bootstrap that resolves after the shutdown began included.
ClosedIsNeverAuthority ==
    (closing.stage = "off" /\ installed # NoStore) => storeState[installed] = "open"

\* There is one authority at a time, and it is open.
AuthorityIsOpen == OneOpenStore /\ ClosedIsNeverAuthority

\* Nobody waits for ever: a bootstrap call that waits behind a shutdown, or on
\* a bootstrap somebody else started, is answered.
CallsAreAnswered ==
    \A c \in Callers : (caller[c].stage # "out") ~> (caller[c].stage = "out")
=============================================================================
