------------------------------ MODULE MCLibrary ------------------------------
(* Parts that keep state of their own and are used one at a time, each       *)
(* checked by itself.  They share no variable.                               *)
EXTENDS LinearEngine, ToolAdapters, SourceCache, Commands, EngineBoot, Catalogue, Credentials, RetryLoops,
        Exchange, RunFiles

VARIABLE part       \* which one this behaviour is about

vars == <<part, linearVars, adapterVars, cacheVars, providerVars, commandVars, bootVars, catalogueVars,
          credentialVars, loopVars, exchangeVars, runFileVars>>

(* Three steps that read each other's results; one gate on the second step,  *)
(* one on the third.                                                         *)
AllOthers == [s \in List |-> List \ {s}]
GateChoices ==
    {[gate |-> <<"none", g, h>>, target |-> <<1, t, t>>, points |-> P] :
        g \in {"none", "retry", "degrade"}, h \in Gates, t \in List, P \in {{}, {1}, {2, 3}}}
Ungated == [gate |-> [s \in List |-> "none"], target |-> [s \in List |-> s], points |-> {}]

(* Two models behind two variables; vendors that offer one or both of them.  *)
Spec1(m, v) == [kind |-> "openai", model |-> m, var |-> v]
Listings == {<<>>, <<Spec1("x", "A")>>, <<Spec1("x", "A"), Spec1("y", "B")>>, <<Spec1("y", "B"), Spec1("x", "B")>>}
Offer(m, t) == [model |-> m, tier |-> t]
Offers == {<<Offer("x", "strong")>>, <<Offer("y", "light")>>, <<Offer("x", "strong"), Offer("y", "strong")>>}
Vendor(v, o, e) == [vars |-> <<v>>, kind |-> "openai", offers |-> o, elsewhere |-> e,
                 live |-> [m \in {"y", "z"} |-> IF m = "y" THEN {"light"} ELSE {"strong", "mid"}]]
Registry == [k : [KeyVars -> {"unset", "empty", "foreign", "key"}], l : Listings, a : {{}, {"x"}},
             o : Offers, p : Offers, d : BOOLEAN, e : BOOLEAN]
Configured(r) ==
    [keys |-> r.k, registry |-> [t \in {"strong"} |-> [listed |-> r.l, avoid |-> r.a]],
     domain |-> IF r.d THEN [t \in {"medium"} |-> [listed |-> <<Spec1("y", "B")>>, avoid |-> {"x"}]] ELSE <<>>,
     tierOf |-> [c \in {"codegen"} |-> "strong"], vendors |-> <<Vendor("A", r.o, r.e), Vendor("B", r.p, FALSE)>>]
Plain == {r \in Registry : r.a = {} /\ r.d = FALSE /\ r.e = FALSE /\ r.o = r.p /\ r.o = <<Offer("x", "strong")>>
                           /\ r.l = <<Spec1("x", "A")>> /\ "foreign" \notin {r.k[v] : v \in KeyVars}}

AllSetups == {Configured(r) : r \in Registry}

Confs == {NoFile, [kind |-> "bedrock", model |-> "m", var |-> "A"], [kind |-> "anthropic", model |-> "own", var |-> "B"]}
NamedConf == [kind |-> "openai", model |-> "named", var |-> "A"]
AllLines ==
    [name : {"build"}, dry : BOOLEAN, yes : BOOLEAN, gprov : {"none", "auto", "path"}, remote : BOOLEAN,
     envDry : BOOLEAN, claude : BOOLEAN, conf : Confs]
    \cup [name : {"agent", "workflow", "learn", "scan", "evolve"}, dry : BOOLEAN, yes : {FALSE}, gprov : {"none"},
          remote : {FALSE}, envDry : BOOLEAN, claude : BOOLEAN, conf : Confs]
TierNames == [light |-> "light", strong |-> "strong"]

(* Two agents of one name; the first is used twice by the workflow.          *)
IdOf(s) == [sub |-> s, name |-> "n"]
AgentIds == {IdOf("s"), IdOf("t")}
DirContents == {[is |-> "valid", id |-> i] : i \in AgentIds}
    \cup {[is |-> "torn", id |-> NoPlace], [is |-> "invalid", id |-> IdOf("s")]}
OneWorkflow == {<<IdOf("s"), IdOf("t"), IdOf("s")>>}
AgentWants == [i \in AgentIds |->
    IF i.sub = "s" THEN {"inject_standards", "project_file_tree", "best_practice_library", "tool_pack_catalog"} ELSE {}]
RootHolds == [r \in {"fw", "d1"} |->
    IF r = "fw" THEN {"tool_pack_catalog", "best_practice_library"}
    ELSE {"domain.yaml", "standards", "industry", "project_file_tree"}]

(* Packs that disagree, one that says nothing of its tool; agents that name  *)
(* their tools either way.                                                   *)
Needs(n, q, g) == [name |-> n, required |-> q, group |-> g]
PackOne == [own |-> [t \in {"t1"} |-> {Needs("n1", TRUE, "app")}], credentials |-> {}, policy |-> {}]
PackTwo == [own |-> [t \in {"t1", "t2"} |-> IF t = "t1" THEN {} ELSE {Needs("n1", FALSE, ""), Needs("n2", TRUE, "")}],
            credentials |-> {}, policy |-> {Needs("n2", TRUE, "")}]
PackOfNothing == [own |-> [t \in {"t1"} |-> {}], credentials |-> {}, policy |-> {}]
AllPacks == {PackOne, PackTwo, PackOfNothing}
PacksOnShelf == <<PackOne, PackTwo>>
BackendChains == {<<>>, <<"env", "aws_secrets">>, <<"file", "vault">>}
ToolUsers == {{"t1"}, {"t2", "tool://t1"}}

NoRetry == [max |-> 0, budget |-> {}, fatal |-> {}, base |-> 0]
RetryPolicies ==
    {NoRetry, [max |-> 3, budget |-> {3}, fatal |-> {"e2"}, base |-> 1], [max |-> 2, budget |-> {}, fatal |-> {}, base |-> 1],
     [max |-> 2, budget |-> {0}, fatal |-> {}, base |-> 0]}

(* Two manifests of the domain d, of which one has a port that is no mapping *)
(* and one has a port twice; one of d.x, whose port y reads like x.y of d;   *)
(* one that is no YAML.                                                      *)
PortOf(n, s) == [name |-> n, schema |-> s]
DomainManifests ==
    {[is |-> "valid", name |-> <<"d">>, ports |-> <<PortOf(<<"x", "y">>, "a"), PortOf(<<"y">>, "a"), PortOf(<<"y">>, "b")>>],
     [is |-> "valid", name |-> <<"d">>, ports |-> <<PortOf(<<"z">>, "a"), PortOf(<<>>, "a"), PortOf(<<"y">>, "c")>>],
     [is |-> "valid", name |-> <<"d", "x">>, ports |-> <<PortOf(<<"y">>, "c")>>],
     [is |-> "torn", name |-> <<>>, ports |-> <<>>]}

(* Below one base directory: a run, one whose id leads into its directory,   *)
(* and one apart, of which the first can be reached by a path with "..".     *)
RunDirs == [r \in {"a", "a/b", "c"} |->
    CASE r = "a" -> <<"base", "a">> [] r = "a/b" -> <<"base", "a", "b">> [] OTHER -> <<"base", "c">>]
OtherPlaces == {<<"base", "a", "other">>}

Init == /\ part \in {"linear", "bridge", "local", "cache", "providers", "commands", "boot", "catalogue",
                     "credentials", "evaluator", "retry", "bus", "handoff", "domains", "records", "trees"}
        /\ IF part = "linear" THEN LinearInit ELSE LinearAt(Ungated)
        /\ AdaptersInit /\ CacheInit /\ CommandsInit /\ CatalogueInit
        /\ CredentialsInit /\ EvaluatorInit /\ ExchangeInit /\ RunFilesInit /\ based \in BOOLEAN /\ (based => part = "trees")
        /\ \E p \in IF part = "retry" THEN Policies ELSE {NoRetry}, h \in IF part = "retry" THEN Hints ELSE {0} : RetryAt(p, h)
        /\ EngineBootInit /\ (strict => part = "boot")
        /\ \E r \in IF part = "providers" THEN Registry ELSE IF part = "commands" THEN Plain ELSE {CHOOSE q \in Plain : TRUE} :
              ProvidersAt(Configured(r))

Rest(p) ==
    /\ part = p /\ UNCHANGED part
    /\ IF p = "linear" THEN TRUE ELSE UNCHANGED linearVars
    /\ IF p \in {"bridge", "local"} THEN TRUE ELSE UNCHANGED adapterVars
    /\ IF p = "cache" THEN TRUE ELSE UNCHANGED cacheVars
    /\ IF p \in {"providers", "commands"} THEN TRUE ELSE UNCHANGED providerVars
    /\ IF p = "commands" THEN TRUE ELSE UNCHANGED commandVars
    /\ IF p = "boot" THEN TRUE ELSE UNCHANGED bootVars
    /\ IF p = "catalogue" THEN TRUE ELSE UNCHANGED catalogueVars
    /\ IF p = "credentials" THEN TRUE ELSE UNCHANGED credentialVars
    /\ IF p = "evaluator" THEN TRUE ELSE UNCHANGED evaluatorVars
    /\ IF p \in {"evaluator", "retry"} THEN TRUE ELSE UNCHANGED retry
    /\ IF p = "bus" THEN TRUE ELSE UNCHANGED busVars
    /\ IF p = "handoff" THEN TRUE ELSE UNCHANGED handoffVars
    /\ IF p = "domains" THEN TRUE ELSE UNCHANGED domainVars
    /\ IF p = "records" THEN TRUE ELSE UNCHANGED recordVars
    /\ IF p = "trees" THEN TRUE ELSE UNCHANGED treeVars

Next ==
    \/ Rest("linear") /\ LinearStep
    \/ Rest("bridge") /\ BridgeStep
    \/ Rest("local") /\ LocalStep
    \/ Rest("cache") /\ CacheStep
    \/ Rest("providers") /\ ProviderStep
    \/ Rest("commands") /\ CommandStep
    \/ Rest("boot") /\ EngineBootStep
    \/ Rest("catalogue") /\ CatalogueStep
    \/ Rest("credentials") /\ CredentialStep
    \/ Rest("evaluator") /\ EvaluatorStep
    \/ Rest("retry") /\ RetryStep
    \/ Rest("bus") /\ BusStep
    \/ Rest("handoff") /\ HandoffStep
    \/ Rest("domains") /\ DomainStep
    \/ Rest("records") /\ RecordStep
    \/ Rest("trees") /\ TreeStep

Spec == Init /\ [][Next]_vars
=============================================================================
