------------------------------ MODULE Commands ------------------------------
(* The commands of `ai` that make a provider and run an engine: what each    *)
(* one checks first, when it asks, what it may cost, and what it tells the   *)
(* shell.  One command at a time, from its line to its exit code.            *)
EXTENDS Providers

CONSTANTS
    Lines,          \* command lines and the shell they are typed in: [name, dry, yes,
                    \* gprov, remote, envDry, claude, conf], see Types
    Named,          \* the provider file a path given to --genesis-provider leads to
    AnthropicVar    \* ANTHROPIC_API_KEY

ASSUME LinesAssumption ==
    \A l \in Lines : /\ l.name \in {"agent", "workflow", "build", "learn", "scan", "evolve"}
                     /\ l.gprov # "none" => l.name = "build"

VARIABLES
    line,           \* the command line, or NoLine
    stage,          \* how far the command is
    file,           \* the provider file it uses
    provider,       \* [kind, model] it has made
    booted,         \* nothing, framework or domain: where the engine reads contexts and memory
    fetched,        \* a remote source was materialized
    agreed,         \* the user was asked or had agreed before
    spent,          \* a vendor was called
    outcome,         \* of the workflow: none, completed or failed
    exit            \* none, ok or error

commandVars == <<line, stage, file, provider, booted, fetched, agreed, spent, outcome, exit>>

NoProvider == [kind |-> "none", model |-> NoModel]
NoFile == [kind |-> "none", model |-> NoModel, var |-> NoModel]
NoLine == [name |-> "none", dry |-> FALSE, yes |-> FALSE, gprov |-> "none", remote |-> FALSE,
           envDry |-> FALSE, claude |-> FALSE, conf |-> NoFile]
Own(kind) == [kind |-> kind, model |-> "default"]
Of(f) == [kind |-> f.kind, model |-> f.model]
HasValue(v) == v \in DOMAIN keys /\ keys[v] \notin {"unset", "empty"}

CommandsInit ==
    /\ line = NoLine /\ stage = "shell" /\ file = NoFile /\ provider = NoProvider
    /\ booted = "nothing" /\ fetched = FALSE /\ agreed = FALSE /\ spent = FALSE
    /\ outcome = "none" /\ exit = "none"

Fallback ==
    IF HasValue(AnthropicVar) THEN Own("anthropic")
    ELSE IF line.claude THEN Own("claudecode") ELSE NoProvider

Served == {"anthropic", "openai", "bedrock"}

(* Variant: the file is looked at before --dry-run.                          *)
MakeFileFirst(f) ==
    IF f.kind \in {"anthropic", "openai"} /\ HasValue(f.var) THEN Of(f)
    ELSE IF line.envDry \/ line.dry THEN Own("dry_run") ELSE Fallback

(* _make_provider: a file whose key has no value is passed over without a    *)
(* word.                                                                     *)
Make(f) ==
    IF line.envDry \/ line.dry THEN Own("dry_run")
    ELSE IF f.kind = "bedrock" \/ (f.kind \in {"anthropic", "openai"} /\ HasValue(f.var)) THEN Of(f)
    ELSE Fallback

To1(s) == stage' = s /\ UNCHANGED <<line, exit>>
Exits(code) == stage' = "shell" /\ exit' = code /\ UNCHANGED line
Keeps == UNCHANGED <<providerVars, file, provider, booted, fetched, agreed, spent, outcome>>

---------------------------------------------------------------------------
(* agent, workflow, build, learn, scan or evolve, with --dry-run, --yes (or  *)
(* GENTCORE_AUTO_CONFIRM), --genesis-provider, remote sources in the domain; *)
(* envDry is GENTCORE_PROVIDER=dry-run, claude an installed claude, conf the *)
(* provider file of the domain.                                              *)
Types(l) ==
    /\ stage = "shell" /\ line = NoLine /\ line' = l /\ stage' = "inputs"
    /\ UNCHANGED <<exit, providerVars, file, provider, booted, fetched, agreed, spent, outcome>>

(* A path, a team, an agent or a workflow file that is not there, bad JSON.  *)
Checks(name, next) ==
    /\ stage = "inputs" /\ line.name = name /\ (Exits("error") \/ To1(next)) /\ Keeps

AgentInputs == Checks("agent", "provider")      \* the manifest of the agent, too
WorkflowInputs == Checks("workflow", "file")
LearnInputs == Checks("learn", "provider")
ScanInputs == Checks("scan", "provider")
EvolveInputs == Checks("evolve", "provider")
BuildInputs == Checks("build", IF line.remote THEN "sources" ELSE "file")

(* The remote sources of domain.yaml, also under --dry-run.                  *)
Materializes ==
    /\ stage = "sources" /\ fetched' = TRUE
    /\ (To1("file") \/ Exits("error"))
    /\ UNCHANGED <<providerVars, file, provider, booted, agreed, spent, outcome>>

TakesFile(f) ==
    /\ file' = f /\ To1("provider")
    /\ UNCHANGED <<providerVars, provider, booted, fetched, agreed, spent, outcome>>

WorkflowFile == stage = "file" /\ line.name = "workflow" /\ TakesFile(line.conf)

(* --genesis-provider auto writes the pick of the resolver for the category  *)
(* of code writers into a file of its own, and goes on with the domain's     *)
(* when there is no pick.                                                    *)
BuildFile ==
    LET pick == Resolve(Loaded, PickTier("codegen", "codegen")) IN
    /\ stage = "file" /\ line.name = "build"
    /\ TakesFile(IF line.gprov = "auto" /\ pick.model # NoModel THEN pick
                 ELSE IF line.gprov = "path" THEN Named ELSE line.conf)

PathMissing == stage = "file" /\ line.gprov = "path" /\ Exits("error") /\ Keeps

MakesProvider ==
    /\ stage = "provider"
    /\ provider' = Make(file)
    /\ IF provider' = NoProvider THEN Exits("error")
       ELSE To1(IF line.name = "build" /\ ~line.dry THEN "asks" ELSE "boot")
    /\ UNCHANGED <<providerVars, file, booted, fetched, agreed, spent, outcome>>

(* Also for a provider that is free: the name compared with is never one.    *)
Agrees ==
    /\ stage = "asks" /\ agreed' = TRUE /\ To1("boot")
    /\ UNCHANGED <<providerVars, file, provider, booted, fetched, spent, outcome>>
Aborts == stage = "asks" /\ ~line.yes /\ Exits("ok") /\ Keeps

(* run workflow and run agent boot on the domain; build, scan, evolve and    *)
(* learn on the framework, whatever domain they are for.  A manifest that    *)
(* cannot be read, or a run history that is not there, ends the command.     *)
BootsOn(name, root) ==
    /\ stage = "boot" /\ line.name = name
    /\ \/ booted' = root /\ To1("run")
       \/ Exits("error") /\ UNCHANGED booted
    /\ UNCHANGED <<providerVars, file, provider, fetched, agreed, outcome, spent>>

AgentBoots == BootsOn("agent", "domain")
WorkflowBoots == BootsOn("workflow", "domain")
LearnBoots == BootsOn("learn", "framework")
ScanBoots == BootsOn("scan", "framework")
EvolveBoots == BootsOn("evolve", "framework")
BuildBoots == BootsOn("build", "framework")

(* execute_dag, or the runner for one agent; vendors are called on the way.  *)
Runs(how) ==
    /\ stage = "run" /\ outcome' = how
    /\ spent' = (provider.kind # "dry_run")
    /\ To1("report")
    /\ UNCHANGED <<providerVars, file, provider, booted, fetched, agreed>>

Tells(name, code) == stage = "report" /\ line.name = name /\ Exits(code) /\ Keeps
Judged == IF outcome = "completed" THEN "ok" ELSE "error"

AgentReports == Tells("agent", "ok")        \* whatever the status is
LearnReports == Tells("learn", "ok")
ScanReports == Tells("scan", "ok")
WorkflowReports == Tells("workflow", Judged)
EvolveReports == Tells("evolve", Judged)
BuildReports == Tells("build", Judged)      \* also when the verification fails

CommandStep ==
    \/ \E l \in Lines : Types(l)
    \/ AgentInputs \/ WorkflowInputs \/ LearnInputs \/ ScanInputs \/ EvolveInputs \/ BuildInputs
    \/ Materializes \/ WorkflowFile \/ BuildFile \/ PathMissing
    \/ MakesProvider \/ Agrees \/ Aborts
    \/ AgentBoots \/ WorkflowBoots \/ LearnBoots \/ ScanBoots \/ EvolveBoots \/ BuildBoots
    \/ \E how \in {"completed", "failed"} : Runs(how)
    \/ AgentReports \/ WorkflowReports \/ LearnReports \/ ScanReports \/ EvolveReports \/ BuildReports

CommandSpec == CommandsInit /\ [][CommandStep]_<<commandVars, providerVars>>

---------------------------------------------------------------------------
(* A vendor is only called when neither the line nor the environment asks    *)
(* for a dry run, and by a build only after the user has agreed; a refused   *)
(* or aborted command has called none.                                       *)
CostIsMeant ==
    /\ spent => ~line.dry /\ ~line.envDry /\ (line.name = "build" => agreed)
    /\ exit # "none" /\ booted = "nothing" => ~spent
    /\ fetched => line.name = "build"

(* The provider is the one of the file that was chosen, if that names a      *)
(* vendor the commands know and its key has a value: with auto, the pick of  *)
(* the resolver.                                                             *)
ProviderIsChosen ==
    LET pick == Resolve(Loaded, PickTier("codegen", "codegen")) IN
    /\ spent /\ file.kind \in Served /\ HasValue(file.var) => provider = Of(file)
    /\ spent /\ line.gprov = "auto" /\ pick.model # NoModel /\ pick.kind \in Served /\ HasValue(pick.var) =>
          provider.model = pick.model

(* A command that booted an engine and exits with 0 has completed its        *)
(* workflow, for the three that look at the status; a build that nobody      *)
(* agreed to boots none.                                                     *)
ExitTells ==
    /\ exit = "ok" /\ booted # "nothing" /\ line.name \in {"workflow", "build", "evolve"} => outcome = "completed"
    /\ exit # "none" /\ ~agreed /\ ~line.dry /\ line.name = "build" => booted = "nothing"

(* What a command costs and tells is what its line asked for, whatever the   *)
(* variables, files and tools of the shell are.                              *)
CommandsKeepWord == CostIsMeant /\ ProviderIsChosen /\ ExitTells
=============================================================================
