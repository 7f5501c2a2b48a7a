---------------------------- MODULE Credentials ----------------------------
(* The credentials tools need: packs declare them, a registry collects them, *)
(* a chain of backends looks them up, and the credentials commands report.   *)
(* A registry lives as long as its process, while secrets come and go.       *)
EXTENDS Naturals, Sequences, FiniteSets, SequencesExt, FiniteSetsExt

CONSTANTS
    Names,          \* credential names
    ToolNames,      \* tools, as packs and agents name them
    ToolPacks,      \* what packs say: [own, credentials, policy]
    Shelf,          \* the service packs on disk, in the order of their names
    Chains,         \* sequences of backend kinds a configuration may ask for
    Agents,         \* sets of tools, named either way, that an agent declares
    MaxTurns        \* changes of secrets, outages and registrations

ASSUME PacksAssumption ==
    /\ \A p \in ToolPacks : \A q \in p.credentials \cup p.policy \cup UNION {p.own[t] : t \in DOMAIN p.own} :
          q.name \in Names
    /\ Chains \subseteq Seq({"env", "file", "aws_secrets", "vault"})

Backends == {"env", "file", "aws_secrets", "vault"}
Remote == {"aws_secrets", "vault"}

VARIABLES
    holds,          \* backend -> name -> 1 if it is there, 0 if not 
    up,             \* backends that can be read
    chain,          \* the backends of the registry, in order
    cache,          \* backend -> name -> what it has been found to hold
    secretFile,           \* the file backend's copy of the file, <<>> until it is loaded
    reqs,           \* _tool_requirements: tool -> requirements
    credReport,         \* the last answer, until something else happens
    reached,        \* the vault backend has a client
    turns,
    packsGiven,          \* history: the packs registered
    told            \* history: name -> [env, value], when it was last looked up

credentialVars == <<holds, up, chain, cache, secretFile, reached, reqs, credReport, turns, packsGiven, told>>
worldVars == <<holds, up>>
registryVars1 == <<chain, cache, secretFile, reached, reqs, packsGiven, told>>

NoReport == [cmd |-> "none"]
Unloaded == <<>>
EmptyCache == [b \in Remote |-> <<>>]

CredentialsInit ==
    /\ holds = [b \in Backends |-> [n \in Names |-> 0]] /\ up = Backends
    /\ chain = <<"env">> /\ cache = EmptyCache /\ secretFile = Unloaded /\ reached = FALSE
    /\ reqs = <<>> /\ credReport = NoReport /\ turns = 0 /\ packsGiven = <<>> /\ told = <<>>

---------------------------------------------------------------------------
(* Somebody else sets, changes or removes a secret; a service or a file      *)
(* cannot be read for a while.                                               *)
SecretChanges(b, n, v) ==
    /\ turns < MaxTurns /\ turns' = turns + 1 /\ holds[b][n] # v
    /\ holds' = [holds EXCEPT ![b][n] = v] /\ credReport' = NoReport /\ UNCHANGED <<up, registryVars1>>

Outage(b) ==
    /\ turns < MaxTurns /\ turns' = turns + 1 /\ credReport' = NoReport
    /\ up' = IF b \in up THEN up \ {b} ELSE up \cup {b}
    /\ UNCHANGED <<holds, registryVars1>>

(* Secrets Manager and Vault keep what they were asked for, a miss too.      *)
(* Variant: a miss is asked for again.                                       *)
FetchMissesAgain(b, n) ==
    IF n \in DOMAIN cache[b] /\ cache[b][n] # 0 THEN cache[b][n] ELSE IF b \in up THEN holds[b][n] ELSE 0
Fetch(b, n) == IF n \in DOMAIN cache[b] THEN cache[b][n] ELSE IF b \in up THEN holds[b][n] ELSE 0

LoadedFile == IF secretFile # Unloaded THEN secretFile ELSE [n \in Names |-> IF "file" \in up THEN holds["file"][n] ELSE 0]

Look(b, n) == CASE b = "env" -> holds[b][n] [] b = "file" -> LoadedFile[n] [] OTHER -> Fetch(b, n)

(* ChainedBackend: the first that has a value.                               *)
Answering(n) ==
    LET at == {k \in 1..Len(chain) : Look(chain[k], n) # 0} IN IF at = {} THEN 0 ELSE Min(at)
ResolveName(n) == IF Answering(n) = 0 THEN 0 ELSE Look(chain[Answering(n)], n)

(* The backends that are asked on the way, and what they keep of it.         *)
AskedFor(n) == {chain[k] : k \in 1..(IF Answering(n) = 0 THEN Len(chain) ELSE Answering(n))}
BeforeVault == {chain[k] : k \in {j \in DOMAIN chain : \A i \in 1..j : chain[i] # "vault"}}

(* Vault's client is made when a name first comes to it, and to make it is   *)
(* to ask Vault whether the token is good.                                   *)
Reaches(n) == "vault" \in AskedFor(n) /\ n \notin DOMAIN cache["vault"]
Raises(n) == Reaches(n) /\ ~reached /\ "vault" \notin up

(* The names in ns are answered; those in lost got as far as Vault.          *)
LookUp(ns, lost) ==
    /\ cache' = [b \in Remote |->
          LET new == {n \in ns : b \in AskedFor(n)} \cup {n \in lost : b \in BeforeVault} IN
          [n \in DOMAIN cache[b] \cup new |-> IF n \in new THEN Fetch(b, n) ELSE cache[b][n]]]
    /\ secretFile' = IF (\E n \in ns : "file" \in AskedFor(n)) \/ (lost # {} /\ "file" \in BeforeVault)
                     THEN LoadedFile ELSE secretFile
    /\ reached' = (reached \/ \E n \in ns \cup lost : Reaches(n))
    /\ told' = [n \in DOMAIN told \cup ns |->
          IF n \in ns THEN [env |-> holds["env"][n], value |-> ResolveName(n)] ELSE told[n]]

BackendFromConfig(c) == IF c = <<>> THEN <<"env">> ELSE c

SetBackend(c) ==
    /\ turns < MaxTurns /\ turns' = turns + 1
    /\ chain' = BackendFromConfig(c) /\ cache' = EmptyCache /\ secretFile' = Unloaded /\ reached' = FALSE /\ told' = <<>>
    /\ credReport' = NoReport /\ UNCHANGED <<worldVars, reqs, packsGiven>>

---------------------------------------------------------------------------
(* What a pack says of a tool: its own declaration, or else that of the pack *)
(* or else that of its policy.                                               *)
PackDefaults(p) == IF p.credentials # {} THEN p.credentials ELSE p.policy
Declared(p, t) == IF t \notin DOMAIN p.own THEN {} ELSE IF p.own[t] # {} THEN p.own[t] ELSE PackDefaults(p)

(* What a tool needs by a sequence of packs: what the last of them that      *)
(* says anything of it says.                                                 *)
LastOn(packs, t) ==
    LET on == {k \in DOMAIN packs : Declared(packs[k], t) # {}}
    IN IF on = {} THEN {} ELSE Declared(packs[Max(on)], t)

(* register_tool_pack: a tool that needs nothing is not registered, and      *)
(* keeps what an earlier pack said of it.                                    *)
Registered(old, p) ==
    LET new == {t \in ToolNames : Declared(p, t) # {}} IN
    [t \in DOMAIN old \cup new |-> IF t \in new THEN Declared(p, t) ELSE old[t]]

RegisterToolPack(p) ==
    /\ turns < MaxTurns /\ turns' = turns + 1 /\ reqs' = Registered(reqs, p) /\ packsGiven' = Append(packsGiven, p)
    /\ credReport' = NoReport /\ UNCHANGED <<worldVars, chain, cache, secretFile, reached, told>>

(* The union over tools: required if one of them requires it.  A tool under  *)
(* a name that no pack registered needs nothing, its URI included.           *)
RequiredForTools(of, ts) ==
    LET all == UNION {of[t] : t \in ts \cap DOMAIN of} IN
    {[name |-> n, required |-> \E r \in all : r.name = n /\ r.required] : n \in {r.name : r \in all}}

Validate(ts) ==
    LET need == RequiredForTools(reqs, ts) IN
    /\ \A r \in need : ~Raises(r.name)
    /\ LookUp({r.name : r \in need}, {})
    /\ credReport' = [cmd |-> "validate", tools |-> ts, resolved |-> {r.name : r \in {q \in need : ResolveName(q.name) # 0}},
                  missing |-> {r.name : r \in {q \in need : ResolveName(q.name) = 0 /\ q.required}}]
    /\ UNCHANGED <<worldVars, turns, chain, reqs, packsGiven>>

(* Vault cannot be asked about the token: the exception goes to the caller,  *)
(* and the client stays, so that the next name is a miss like any other.     *)
ValidateRaises(ts, ns, n) ==
    /\ ns \cup {n} \subseteq {r.name : r \in RequiredForTools(reqs, ts)}
    /\ Raises(n) /\ \A m \in ns : ~Raises(m)
    /\ LookUp(ns, {n}) /\ credReport' = NoReport
    /\ UNCHANGED <<worldVars, turns, chain, reqs, packsGiven>>

---------------------------------------------------------------------------
(* The commands: a registry of their own, over the packs on the shelf and    *)
(* the environment.                                                          *)
OnShelf == [t \in {u \in ToolNames : LastOn(Shelf, u) # {}} |-> LastOn(Shelf, t)]
Unset(of, ts) == {r.name : r \in {q \in RequiredForTools(of, ts) : q.required /\ holds["env"][q.name] = 0}}
CommandExits(cmd, agents, missing, code) ==
    /\ credReport' = [cmd |-> cmd, agents |-> agents, missing |-> missing, exit |-> code]
    /\ UNCHANGED <<worldVars, turns, registryVars1>>

(* status --domain: a row for each agent and credential.                     *)
StatusOfDomain(as) ==
    LET missing == UNION {Unset(OnShelf, a) : a \in as} IN CommandExits("domain", as, missing, IF missing = {} THEN 0 ELSE 1)

(* status --agent validates the names of the credentials as if they were     *)
(* tools, and exits with 0 whatever comes of it.                             *)
StatusOfAgent(a) == CommandExits("agent", {a}, Unset(OnShelf, {r.name : r \in RequiredForTools(OnShelf, a)}), 0)

(* status of all tools, and missing.                                         *)
StatusOfAll == CommandExits("all", {DOMAIN OnShelf}, Unset(OnShelf, DOMAIN OnShelf), 0)
CredMissing ==
    CommandExits("missing", {DOMAIN OnShelf}, Unset(OnShelf, DOMAIN OnShelf), IF Unset(OnShelf, DOMAIN OnShelf) = {} THEN 0 ELSE 1)

(* required: a list of what is and is not there, optional ones included.     *)
CredRequired(a) ==
    CommandExits("required", {a}, {r.name : r \in {q \in RequiredForTools(OnShelf, a) : holds["env"][q.name] = 0}}, 0)

(* oauth-setup: a group that no tool declares, or what it consists of.       *)
OauthSetup(g) ==
    LET members == {r.name : r \in {q \in UNION {OnShelf[t] : t \in DOMAIN OnShelf} : q.group = g}}
    IN CommandExits("oauth", {}, members, IF members = {} THEN 1 ELSE 0)

CredentialStep ==
    \/ \E b \in Backends, n \in Names, v \in {0, 1} : SecretChanges(b, n, v)
    \/ \E b \in Backends \ {"env"} : Outage(b)
    \/ \E c \in Chains : SetBackend(c)
    \/ \E p \in ToolPacks : RegisterToolPack(p)
    \/ \E ts \in SUBSET ToolNames : Validate(ts) \/ \E ns \in SUBSET Names, n \in Names : ValidateRaises(ts, ns, n)
    \/ \E as \in SUBSET Agents : StatusOfDomain(as)
    \/ \E a \in Agents : StatusOfAgent(a) \/ CredRequired(a)
    \/ StatusOfAll \/ CredMissing
    \/ \E g \in {"app", "nobody"} : OauthSetup(g)

CredentialSpec == CredentialsInit /\ [][CredentialStep]_credentialVars

---------------------------------------------------------------------------
(* What was looked up once is looked up to the same value for as long as the *)
(* registry keeps its backend, unless the environment changed: outages and   *)
(* rotations do not let one part of a run see other secrets than the next.   *)
AnswersStay ==
    \A n \in DOMAIN told :
        "env" \notin ToSet(chain) \/ holds["env"][n] = told[n].env => ResolveName(n) = told[n].value

(* A report names every credential its tools require, by the last pack that  *)
(* says anything of them, as resolved or missing, and none as missing that   *)
(* the environment has.                                                      *)
ReportIsWhole ==
    credReport.cmd = "validate" =>
        /\ \A t \in credReport.tools : \A r \in LastOn(packsGiven, t) : r.required => r.name \in credReport.resolved \cup credReport.missing
        /\ "env" \in ToSet(chain) => \A n \in credReport.missing : holds["env"][n] = 0
        /\ credReport.missing \cap credReport.resolved = {}

(* `missing` fails exactly when a tool on the shelf has a required one       *)
(* unset, and where it passes no domain fails.                               *)
ExitsAgree ==
    /\ credReport.cmd = "missing" => (credReport.exit = 1 <=> Unset(OnShelf, ToolNames) # {})
    /\ credReport.cmd = "domain" => credReport.missing \subseteq Unset(OnShelf, ToolNames)

(* Whatever order secrets, outages, packs and questions come in.             *)
CredentialsHold == AnswersStay /\ ReportIsWhole /\ ExitsAgree
=============================================================================
