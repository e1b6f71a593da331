----------------------------- MODULE ToolAccess -----------------------------
(***************************************************************************)
(* What an agent environment lets a native tool call do: the registry      *)
(* (cli/src/lib/tool-registry.ts) names the tool's capabilities and the    *)
(* resource it touches, the policy built from both configuration files     *)
(* (agent-config.ts, permission-policy.ts, harness/src/permission.ts)      *)
(* decides on each capability, and the process sandbox                     *)
(* (process-sandbox.ts) says how, and whether, a subprocess is launched    *)
(* for the executor (local-tools.ts).                                      *)
(*                                                                         *)
(* Paths, commands and skills are values of a small set, and a pattern is  *)
(* the set of the values it matches.  An optional field of a file is the   *)
(* sequence of what it holds, which is empty or has one element.           *)
(***************************************************************************)
LOCAL INSTANCE Integers
LOCAL INSTANCE Sequences
LOCAL INSTANCE SequencesExt

AgentModes     == {"PLAN", "BUILD"}
ToolCapability == {"filesystem.read", "filesystem.write", "process.execute",
                   "agent.skill.read"}
Kinds          == {"path", "command", "resource"}
Scopes         == {"workspace", "outside-workspace", "agent-config", "external"}

-----------------------------------------------------------------------------
(* The registry.                                                            *)

PATH_TOOL_NAMES == {"readFile", "listDirectory", "glob", "grep", "writeFile", "editFile"}
PROCESS_TOOLS   == {"grep", "bash"}
NativeTools     == PATH_TOOL_NAMES \cup {"bash", "loadSkill"}

NATIVE_TOOL_CAPABILITIES ==
    [tool \in NativeTools |->
        CASE tool = "grep"      -> <<"filesystem.read", "process.execute">>
          [] tool = "editFile"  -> <<"filesystem.read", "filesystem.write">>
          [] tool = "writeFile" -> <<"filesystem.write">>
          [] tool = "bash"      -> <<"process.execute">>
          [] tool = "loadSkill" -> <<"agent.skill.read">>
          [] OTHER              -> <<"filesystem.read">>]

\* The calls that may share a wave.
ParallelSafe == NativeTools \ {"writeFile", "editFile", "bash"}

\* getToolContracts: the plan mode has the tools that only read.
Contracts(mode) == IF mode = "BUILD" THEN NativeTools ELSE ParallelSafe

\* getToolDefinition finds the tool.
Available(config, tool, mode) == config.native /\ tool \in Contracts(mode)

\* An input is what it names, a value inside or outside of the workspace once
\* links are followed, or does not parse.
Input(value, place) == [value |-> value, place |-> place]
Places == {"inside", "outside", "invalid"}

\* resolveWorkspacePath
ScopeOf(input) == IF input.place = "outside" THEN "outside-workspace" ELSE "workspace"

resolveToolPermissionResource(tool, input) ==
    LET of(kind, scope) == [kind |-> kind, value |-> input.value, scope |-> scope]
    IN  CASE input.place = "invalid"     -> [kind |-> "resource", value |-> tool,
                                             scope |-> "workspace"]
          [] tool \in PATH_TOOL_NAMES    -> of("path", ScopeOf(input))
          [] tool = "bash"               -> of("command", "workspace")
          [] tool = "loadSkill"          -> of("resource", "agent-config")

PermissionRequest(capability, resource) == [capability |-> capability, resource |-> resource]

-----------------------------------------------------------------------------
(* The configuration and the policy.                                        *)

\* A rule has only the fields that its file gives it; `of` holds the patterns
\* for commands, paths and resources.
AnyCapability == ToolCapability
Rule(effect, capabilities, of, scopes) ==
    [effect |-> effect, capabilities |-> capabilities, of |-> of, scopes |-> scopes]
NoPatterns == [kind \in {} |-> {}]

matchesPermissionRule(rule, request) ==
    /\ request.capability \in rule.capabilities
    /\ request.resource.scope \in rule.scopes
    /\ \A kind \in DOMAIN rule.of :
          request.resource.kind = kind /\ request.resource.value \in rule.of[kind]

\* The rules one file contributes: its default catches all, before its rules.
RulesOf(file) ==
    (IF file.default = <<>> THEN <<>>
     ELSE <<Rule(file.default[1], AnyCapability, NoPatterns, Scopes)>>) \o file.rules

\* mergeAgentConfig: a field of the project's file hides that of the global
\* one, which hides the built-in value; rules are never hidden, only outvoted.
Latest(builtIn, global, project) == Last(<<builtIn>> \o global \o project)
mergeAgentConfig(global, project) ==
    [native  |-> Latest(TRUE, global.native, project.native),
     rules   |-> RulesOf(global) \o RulesOf(project),
     mode    |-> Latest("auto", global.mode, project.mode),
     network |-> Latest("inherit", global.network, project.network)]

EmptyFile == [native |-> <<>>, default |-> <<>>, rules |-> <<>>,
              mode |-> <<>>, network |-> <<>>]

LOCKED_TOOL_PERMISSION_RULES ==
    <<Rule("deny", AnyCapability, NoPatterns, {"outside-workspace"})>>

\* RulePermissionPolicy.decide over the rules of createEffectivePermissionPolicy.
decide(config, request) ==
    LET apply(effect, rule) ==
            IF matchesPermissionRule(rule, request) THEN rule.effect ELSE effect
    IN  FoldLeft(apply, "allow", config.rules \o LOCKED_TOOL_PERMISSION_RULES)

-----------------------------------------------------------------------------
(* The sandbox and the executor.                                            *)

\* ProcessSandbox.getStatus: how a subprocess would run on a host that has
\* bubblewrap, or has not.
getStatus(config, bubblewrap) ==
    CASE config.mode # "off" /\ bubblewrap                       -> "bubblewrap"
      [] config.mode = "required" /\ ~bubblewrap                 -> "unavailable"
      [] config.network = "deny" /\ (config.mode = "off" \/ ~bubblewrap) -> "unavailable"
      [] OTHER                                                   -> "direct"

\* createLaunchPlan does not throw: `provider` and whether the network is cut.
LaunchPlans(config, bubblewrap) ==
    LET provider == getStatus(config, bubblewrap)
    IN  IF provider = "unavailable" THEN {}
        ELSE {[provider |-> provider,
               isolated |-> provider = "bubblewrap",
               offline  |-> provider = "bubblewrap" /\ config.network = "deny"]}

\* executeNativeTool reaches its work: the input parses, a path is inside the
\* workspace (resolveInsideWorkspace looks again) and a process has a plan.
Runnable(config, bubblewrap, tool, input) ==
    /\ input.place # "invalid"
    /\ tool \in PATH_TOOL_NAMES => input.place = "inside"
    /\ tool \in PROCESS_TOOLS => LaunchPlans(config, bubblewrap) # {}

=============================================================================
