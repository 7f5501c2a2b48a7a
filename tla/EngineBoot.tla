---------------------------- MODULE EngineBoot ----------------------------
(* Booting an engine from manifests: the registry that finds the directory   *)
(* of an agent, and the loader that turns the steps of a workflow into       *)
(* configurations.  One loader, used again and again with different roots,   *)
(* while directories come and go under it.                                   *)
EXTENDS Naturals, Sequences, FiniteSets, SequencesExt

CONSTANTS
    Framework,      \* project_root
    Domains,        \* domain roots
    Ids,            \* agent ids: [sub, name], of one version
    Contents,       \* what a directory may hold: [is, id], see dirs
    Workflows,      \* sequences of agent ids
    Wants,          \* id -> the preloads its manifest declares
    Holds,          \* root -> the files a preload or domain.yaml needs that are there
    MaxBoots, MaxEdits

ASSUME BootAssumption ==
    /\ IsFiniteSet(Ids) /\ IsFiniteSet(Domains) /\ "none" \notin Domains \cup {Framework}
    /\ Workflows \subseteq Seq(Ids)
    /\ \A c \in Contents : c.is \in {"invalid", "valid"} => c.id \in Ids

Roots == Domains \cup {Framework}
Flat == "flat"      \* agents/<name> instead of agents/<sub>/<name>
Places == [root : Roots, sub : {i.sub : i \in Ids} \cup {Flat}, name : {i.name : i \in Ids}]
NoPlace == [root |-> "none", sub |-> Flat, name |-> "none"]
Nothing == [is |-> "absent", id |-> NoPlace]

VARIABLES
    dirs,           \* place -> [is : absent, bare (no manifest), torn, invalid or valid; id]
    strict,         \* GENTCORE_STRICT_MANIFESTS
    paths,          \* _paths: id -> place
    agents,         \* _agents: the ids with a manifest
    listed,         \* id -> how often it is in the list of its domain
    boot,           \* the boot at work: [root, todo, edits]
    configs,        \* what it has made so far: [id, from, is, context]
    packs,          \* ids whose tool packs the executor knows
    credentials,    \* the boot whose credential registry the loader returns
    boots, edits,   \* boots begun; changes on disk, scans and registrations
    visited,        \* history: roots the registry has looked into
    absent          \* history: ids that no candidate was there for when they were asked for

bootVars == <<dirs, strict, paths, agents, listed, boot, configs, packs, credentials, boots, edits, visited, absent>>
registryVars == <<paths, agents, listed, visited>>
loaderVars == <<boot, configs, packs, credentials, boots, absent>>

Idle1 == [root |-> Framework, todo |-> <<>>, edits |-> 0, on |-> FALSE]
NotThere(p) == p = NoPlace \/ dirs[p].is = "absent"

EngineBootInit ==
    /\ dirs = [p \in Places |-> Nothing] /\ strict \in BOOLEAN
    /\ paths = <<>> /\ agents = {} /\ listed = [i \in Ids |-> 0]
    /\ boot = Idle1 /\ configs = <<>> /\ packs = {} /\ credentials = 0
    /\ boots = 0 /\ edits = 0 /\ visited = {} /\ absent = {}

---------------------------------------------------------------------------
(* Somebody else: a build writes an agent, a user removes one.               *)
DirChanges(p, c) ==
    /\ edits < MaxEdits /\ dirs[p] # c
    /\ (c.is = "valid" => c.id.name = p.name /\ p.sub \in {Flat, c.id.sub})
    /\ dirs' = [dirs EXCEPT ![p] = c] /\ edits' = edits + 1
    /\ UNCHANGED <<strict, registryVars, loaderVars>>

(* AgentRegistry.scan of one root: of two directories with one id, whichever *)
(* rglob comes to last; a manifest that cannot be read is left out, one that *)
(* is not valid is not.                                                      *)
Scan(root) ==
    LET found == {p \in Places : p.root = root /\ dirs[p].is \in {"valid", "invalid"}}
        ids == {dirs[p].id : p \in found}
    IN
    /\ \E last \in [ids -> found] :
          /\ \A i \in ids : dirs[last[i]].id = i
          /\ paths' = [i \in ids \cup DOMAIN paths |-> IF i \in ids THEN last[i] ELSE paths[i]]
    /\ agents' = agents \cup ids
    /\ listed' = [i \in Ids |-> listed[i] + Cardinality({p \in found : dirs[p].id = i})]
    /\ visited' = visited \cup {root}
    /\ ~boot.on /\ edits < MaxEdits /\ edits' = edits + 1
    /\ UNCHANGED <<dirs, strict, loaderVars>>

(* register, with a path or without one.                                     *)
RegisterAgent(i, p) ==
    /\ ~boot.on /\ edits < MaxEdits /\ edits' = edits + 1
    /\ agents' = agents \cup {i} /\ listed' = [listed EXCEPT ![i] = @ + 1]
    /\ paths' = IF p = NoPlace THEN paths ELSE [j \in DOMAIN paths \cup {i} |-> IF j = i THEN p ELSE paths[j]]
    /\ visited' = IF p = NoPlace THEN visited ELSE visited \cup {p.root}
    /\ UNCHANGED <<dirs, strict, loaderVars>>

(* Variant: clear forgets the manifests only.                                *)
ClearManifests ==
    /\ agents' = {} /\ listed' = [i \in Ids |-> 0] /\ visited' = {}
    /\ ~boot.on /\ paths # <<>> /\ UNCHANGED <<paths, dirs, strict, edits, loaderVars>>

Clear ==
    /\ ~boot.on /\ paths # <<>>
    /\ paths' = <<>> /\ agents' = {} /\ listed' = [i \in Ids |-> 0] /\ visited' = {}
    /\ UNCHANGED <<dirs, strict, edits, loaderVars>>

---------------------------------------------------------------------------
Candidates(i, root) ==
    <<[root |-> root, sub |-> Flat, name |-> i.name], [root |-> root, sub |-> i.sub, name |-> i.name],
      [root |-> Framework, sub |-> i.sub, name |-> i.name]>>

FirstThere(i, root) ==
    LET there == {k \in 1..3 : ~NotThere(Candidates(i, root)[k])}
    IN IF there = {} THEN NoPlace ELSE Candidates(i, root)[Min(there)]

(* resolve_path: what is cached wins while its directory is there.           *)
ResolvePath(i, root) ==
    IF i \in DOMAIN paths /\ ~NotThere(paths[i]) THEN paths[i] ELSE FirstThere(i, root)

(* The preloads that read the framework, those that read the root, and the   *)
(* library of the framework for the industry of the root.                    *)
FrameworkPreload(p) == IF p \in Holds[Framework] THEN {[source |-> p, root |-> Framework]} ELSE {}
DomainPreload(p, root) == IF p \in Holds[root] THEN {[source |-> p, root |-> root]} ELSE {}
LibraryPreload(root) ==
    IF "industry" \in Holds[root] THEN FrameworkPreload("best_practice_library") ELSE {}

OfFramework == {"tool_pack_catalog", "shadow_gentcore_builtin_tools", "shared_stage_catalog",
                "capabilities_config", "known_mcp_servers", "tool_security_policy"}
OfDomain == {"domain_context_docs", "project_file_tree", "domain_evolution_signals", "best_practices_overlay"}

Preload(p, root) ==
    IF p \in OfFramework THEN FrameworkPreload(p)
    ELSE IF p \in OfDomain THEN DomainPreload(p, root)
    ELSE IF p = "best_practice_library" THEN LibraryPreload(root) ELSE {}

(* domain.yaml lists context files; standards and the glossary come a second *)
(* time when the manifest wants them injected.                               *)
ContextFiles(i, root) ==
    (IF {"domain.yaml", "standards"} \subseteq Holds[root] THEN DomainPreload("standards", root) ELSE {})
    \cup (IF "inject_standards" \in Wants[i] THEN DomainPreload("standards", root) ELSE {})

Context(i, root) == ContextFiles(i, root) \cup UNION {Preload(p, root) : p \in Wants[i]}

(* load_agent raises for a directory without a manifest, for one that is no  *)
(* YAML, and in strict mode for one that is not valid.                       *)
Loads(c) == c.is = "valid" \/ (c.is = "invalid" /\ ~strict)

---------------------------------------------------------------------------
(* boot_engine up to the configurations.  The packs are those of the agents  *)
(* the framework has under these ids; one manifest of it that is no YAML     *)
(* ends their registration, and the credential registry stays as it was.     *)
BootEngine(steps, root) ==
    LET here(i) == [root |-> Framework, sub |-> i.sub, name |-> i.name]
        read == {i \in ToSet(steps) : dirs[here(i)].is \in {"torn", "invalid", "valid"}}
        torn == \E i \in read : dirs[here(i)].is = "torn"
    IN
    /\ ~boot.on /\ boots < MaxBoots
    /\ boot' = [root |-> root, todo |-> steps, edits |-> edits, on |-> TRUE]
    /\ configs' = <<>> /\ absent' = {} /\ boots' = boots + 1
    /\ packs' = IF torn THEN {} ELSE read
    /\ credentials' = IF torn THEN credentials ELSE boots + 1
    /\ UNCHANGED <<dirs, strict, registryVars, edits>>

Adds(config) ==
    configs' = Append(configs, config) /\ boot' = [boot EXCEPT !.todo = Tail(@)] /\ UNCHANGED packs
Leaves ==
    /\ boot' = Idle1 /\ configs' = <<>> /\ packs' = {} /\ absent' = {}
    /\ UNCHANGED <<dirs, strict, registryVars, credentials, boots, edits>>

(* One step of build_step_configs; an agent that is nowhere is a stub with   *)
(* its id, in strict mode too.                                               *)
BuildStepConfig ==
    LET i == Head(boot.todo)
        p == ResolvePath(i, boot.root)
        stub == [id |-> i, from |-> NoPlace, is |-> "stub", context |-> {}]
    IN
    /\ boot.on /\ boot.todo # <<>>
    /\ paths' = IF p = NoPlace THEN paths ELSE [j \in DOMAIN paths \cup {i} |-> IF j = i THEN p ELSE paths[j]]
    /\ visited' = visited \cup {boot.root, Framework}
    /\ IF p = NoPlace
         THEN Adds(stub) /\ absent' = IF FirstThere(i, boot.root) = NoPlace THEN absent \cup {i} ELSE absent
       ELSE IF Loads(dirs[p])
         THEN Adds([id |-> i, from |-> p, is |-> dirs[p].is, context |-> Context(i, boot.root)]) /\ UNCHANGED absent
       ELSE boot' = Idle1 /\ configs' = <<>> /\ packs' = {} /\ absent' = {}
    /\ UNCHANGED <<dirs, strict, agents, listed, credentials, boots, edits>>

(* The engine and the configurations are handed over.                        *)
Booted == boot.on /\ boot.todo = <<>> /\ Leaves

EngineBootStep ==
    \/ \E p \in Places, c \in Contents \cup {Nothing} : DirChanges(p, c)
    \/ \E r \in Roots : Scan(r)
    \/ \E i \in Ids, p \in {NoPlace} \cup {q \in Places : dirs[q].is = "valid"} : RegisterAgent(i, p)
    \/ Clear
    \/ \E w \in Workflows, r \in Roots : BootEngine(w, r)
    \/ BuildStepConfig \/ Booted

EngineBootSpec == EngineBootInit /\ [][EngineBootStep]_bootVars

---------------------------------------------------------------------------
(* A step is a stub only if none of its directories was there, and otherwise *)
(* comes from a root the registry has looked into since it was cleared: what *)
(* is known for its id goes before a place nearer to the root of the boot.   *)
ComesFromKnown ==
    boot.on => \A k \in DOMAIN configs :
        IF configs[k].from = NoPlace THEN configs[k].id \in absent
        ELSE configs[k].from.root \in visited

(* While nothing changes on disk, two steps of one boot with one id get the  *)
(* same directory; the context of a step never comes from the root its agent *)
(* came from, when that is neither the root of the boot nor the framework.   *)
OneAgentPerId ==
    /\ boot.on /\ boot.edits = edits =>
        \A j, k \in DOMAIN configs : configs[j].id = configs[k].id => configs[j].from = configs[k].from
    /\ boot.on => \A k \in DOMAIN configs : \A c \in configs[k].context : c.root \in {boot.root, Framework}

(* In strict mode what was loaded is valid.  Whatever has no path is not     *)
(* known from a scan, and the list of a domain holds all that are known.     *)
RegistryAgrees ==
    /\ strict => \A k \in DOMAIN configs : configs[k].is \in {"valid", "stub"}
    /\ \A i \in Ids : listed[i] > 0 <=> i \in agents
    /\ \A i \in DOMAIN paths : paths[i].root \in visited

(* What a boot hands out, whatever is scanned, registered, cleared, written, *)
(* removed and booted in between.                                            *)
BootsOwnAgents == ComesFromKnown /\ OneAgentPerId /\ RegistryAgrees
=============================================================================
