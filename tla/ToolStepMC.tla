----------------------------- MODULE ToolStepMC -----------------------------
(***************************************************************************)
(* Values for the constants of ToolStep: two calls of a wave, a grep that  *)
(* needs two capabilities and a readFile, under the agent environments     *)
(* that six pairs of configuration files give on a host without            *)
(* bubblewrap.  ToolAccess says what each environment makes of each call.  *)
(***************************************************************************)
EXTENDS ToolStep, TLC

Access == INSTANCE ToolAccess

CONSTANTS c1, c2

MCCalls == {c1, c2}
Tool    == (c1 :> "grep") @@ (c2 :> "readFile")
Given   == (c1 :> Access!Input("src", "inside")) @@ (c2 :> Access!Input("notes", "inside"))

MCCapabilities == {"filesystem.read", "process.execute"}
MCDeclared     == [c \in MCCalls |-> Access!NATIVE_TOOL_CAPABILITIES[Tool[c]]]

Reading  == {"filesystem.read"}
Allowing == Access!Rule("allow", Reading, Access!NoPatterns, Access!Scopes)
Asking   == Access!Rule("ask", Reading, Access!NoPatterns, Access!Scopes)
Guarding == Access!Rule("deny", Reading, "path" :> {"notes"}, {"workspace"})

\* The global and the project's file behind each environment.
Files ==
  LET none == Access!EmptyFile
  IN  [built_in  |-> <<none, none>>,
       cautious  |-> <<[none EXCEPT !.default = <<"ask">>],
                       [none EXCEPT !.rules = <<Allowing>>]>>,
       asking    |-> <<none, [none EXCEPT !.default = <<"ask">>]>>,
       denying   |-> <<[none EXCEPT !.default = <<"deny">>],
                       [none EXCEPT !.rules = <<Asking, Guarding>>]>>,
       isolated  |-> <<none, [none EXCEPT !.mode = <<"required">>]>>,
       toolless  |-> <<none, [none EXCEPT !.native = <<FALSE>>]>>]

MCEnvironments == DOMAIN Files
Config(env)    == Access!mergeAgentConfig(Files[env][1], Files[env][2])
Bubblewrap     == FALSE

Resource(c) == Access!resolveToolPermissionResource(Tool[c], Given[c])
MCOffered   == [env \in MCEnvironments |-> [c \in MCCalls |->
                  Access!Available(Config(env), Tool[c], "BUILD")]]
MCRuling    == [env \in MCEnvironments |-> [c \in MCCalls |->
                  [capability \in MCCapabilities |->
                     Access!decide(Config(env),
                                   Access!PermissionRequest(capability, Resource(c)))]]]
MCExecutable == [env \in MCEnvironments |-> [c \in MCCalls |->
                  Access!Runnable(Config(env), Bubblewrap, Tool[c], Given[c])]]

-----------------------------------------------------------------------------
(* What ToolAccess promises of any two files of a small set.                *)

SomeRules == {<<>>, <<Allowing>>, <<Asking, Guarding>>, <<Guarding, Asking>>}
SomeFiles ==
  [native : {<<>>, <<FALSE>>}, default : {<<>>, <<"ask">>, <<"deny">>}, rules : SomeRules,
   mode : {<<>>, <<"off">>, <<"required">>}, network : {<<>>, <<"deny">>}]

Configs == {Access!mergeAgentConfig(g, p) :
              g \in {f \in SomeFiles : f.native = <<>>}, p \in SomeFiles}

Inputs == [value : {"src", "notes"}, place : Access!Places]
Asked(tool, input) ==
  {Access!PermissionRequest(capability, Access!resolveToolPermissionResource(tool, input)) :
     capability \in Range(Access!NATIVE_TOOL_CAPABILITIES[tool])}

\* The decision is that of the last rule that matches, and no file overrules
\* the containment in the workspace: what the policy lets a tool do, the
\* executor does not refuse for its place.
ASSUME PolicyIsTheLastMatch ==
  \A config \in Configs, tool \in Access!NativeTools, input \in Inputs :
    \A request \in Asked(tool, input) :
      LET matching == {k \in DOMAIN config.rules :
                         Access!matchesPermissionRule(config.rules[k], request)}
          effect   == IF matching = {} THEN "allow" ELSE config.rules[Max(matching)].effect
      IN  Access!decide(config, request) =
            IF tool \in Access!PATH_TOOL_NAMES /\ input.place = "outside" THEN "deny"
            ELSE effect

\* A subprocess is never launched with less isolation than the configuration
\* requires, and never with a network that it denies.
ASSUME LaunchesHoldTheConfiguration ==
  \A config \in Configs, bubblewrap \in BOOLEAN :
    \A launched \in Access!LaunchPlans(config, bubblewrap) :
      /\ config.mode = "required" => launched.isolated
      /\ config.network = "deny" => launched.offline
      /\ launched.isolated => bubblewrap

=============================================================================
