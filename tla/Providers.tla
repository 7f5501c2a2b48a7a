----------------------------- MODULE Providers -----------------------------
(* Which model an agent gets: the tier registry with the override of a       *)
(* domain, the resolver, the coverage report, the detector of vendors and    *)
(* what refreshing adds, as the commands `ai providers ...` use them.        *)
EXTENDS Naturals, Sequences, FiniteSets, SequencesExt

CONSTANTS
    Tiers,          \* names of the tiers
    Medium,         \* planning-medium, the tier of whatever has no other
    KeyVars,        \* environment variables that hold keys
    TierOfKind,     \* tiers named after a kind of model: [light, strong]
    Setups          \* what the environment and the files may say, see ProvidersAt

NoModel == "none"
Specs == [kind : STRING, model : STRING \ {NoModel}, var : KeyVars]

ASSUME MediumAssumption == Medium \in Tiers
(* What the files say is well formed: a listed spec has a model and names a  *)
(* variable, and every vendor of known_vendors.yaml has at least one.        *)
ASSUME SetupsAssumption ==
    \A c \in Setups :
        /\ c.keys \in [KeyVars -> {"unset", "empty", "foreign", "key"}]
        /\ \A doc \in {c.registry, c.domain} : \A t \in DOMAIN doc : doc[t] \in [listed : Seq(Specs), avoid : SUBSET STRING]
        /\ c.vendors \in Seq(ToSet(c.vendors))
        /\ \A v \in ToSet(c.vendors) :
              /\ v.kind \in STRING /\ v.vars \in Seq(KeyVars) \ {<<>>} /\ v.elsewhere \in BOOLEAN
              /\ v.offers \in Seq([model : STRING \ {NoModel}, tier : STRING])

VARIABLES
    keys,           \* variable -> unset, empty, foreign (of another vendor) or key
    registry,       \* tier -> [listed, avoid] of the framework
    domainTiers,    \* the tiers a domain defines itself
    tierOf,         \* agent or category -> its tier in the maps, where it has one
    vendors,        \* known_vendors.yaml in order: [vars, kind, offers, live, elsewhere]
    report,         \* [how, rows]: which command has shown what last, per tier
    sidecar         \* known_vendors_updates.yaml: model -> tier it was given

providerVars == <<keys, registry, domainTiers, tierOf, vendors, report, sidecar>>
given == <<keys, registry, domainTiers, tierOf, vendors>>

EmptyTier == [listed |-> <<>>, avoid |-> {}]

(* load_tiers: a tier of the domain replaces that of the framework wholly.   *)
Loaded == [t \in DOMAIN registry \cup DOMAIN domainTiers |->
              IF t \in DOMAIN domainTiers THEN domainTiers[t] ELSE registry[t]]
TierIn(doc, t) == IF t \in DOMAIN doc THEN doc[t] ELSE EmptyTier

(* The exact id, the id without its version, the category, then a category   *)
(* that is part of it; alike is the first entry that matches loosely.        *)
PickTier(name, alike) ==
    IF name \in DOMAIN tierOf THEN tierOf[name]
    ELSE IF alike \in DOMAIN tierOf THEN tierOf[alike] ELSE Medium

(* A variable that is set to nothing counts for the resolver.                *)
Present(v) == keys[v] # "unset"
Usable(spec, tier) == spec.model \notin tier.avoid /\ Present(spec.var)

Resolve(doc, t) ==
    LET tier == TierIn(doc, t)
        fit == {i \in DOMAIN tier.listed : Usable(tier.listed[i], tier)}
    IN IF fit = {} THEN [kind |-> "none", model |-> NoModel, var |-> NoModel]
       ELSE tier.listed[Min(fit)]

(* The loop of coverage_report.                                              *)
Covered(tier) ==
    LET found[n \in 0..Len(tier.listed)] ==
            IF n = 0 THEN NoModel
            ELSE IF tier.listed[n].model \in tier.avoid \/ ~Present(tier.listed[n].var) \/ found[n - 1] # NoModel
                 THEN found[n - 1] ELSE tier.listed[n].model
    IN found[Len(tier.listed)]
Missing(tier) == {spec.var : spec \in {s \in ToSet(tier.listed) : s.model \notin tier.avoid /\ ~Present(s.var)}}
Coverage(doc) == [t \in DOMAIN doc |-> [by |-> Covered(doc[t]), missing |-> Missing(doc[t])]]

(* A vendor is there when all its variables have a value and the first looks *)
(* like its own key; elsewhere: the key of OpenAI with a base URL set.       *)
IsDetected(v) ==
    /\ ~v.elsewhere
    /\ \A i \in DOMAIN v.vars : keys[v.vars[i]] \notin {"unset", "empty"}
    /\ v.vars # <<>> => keys[v.vars[1]] # "foreign"
Detected == {i \in DOMAIN vendors : IsDetected(vendors[i])}

(* What the detected vendors offer in a tier, in the order of the vendors    *)
(* and of what each of them offers.                                          *)
SpecOf(v, o) == [kind |-> v.kind, model |-> o.model, var |-> v.vars[1]]
OffersOf(v, t) ==
    LET specs[n \in 0..Len(v.offers)] ==
            IF n = 0 THEN <<>>
            ELSE IF v.offers[n].tier = t THEN Append(specs[n - 1], SpecOf(v, v.offers[n])) ELSE specs[n - 1]
    IN specs[Len(v.offers)]
SpecsFor(t) ==
    LET specs[n \in 0..Len(vendors)] ==
            IF n = 0 THEN <<>>
            ELSE IF n \in Detected THEN specs[n - 1] \o OffersOf(vendors[n], t) ELSE specs[n - 1]
    IN specs[Len(vendors)]

(* Variant: what was detected comes first.                                   *)
AppendNewFirst(listed, specs) == specs \o listed

(* merge_detected_into_tiers: a model that is listed is not listed again,    *)
(* also when the one that is there has no key.                               *)
AppendNew(listed, specs) ==
    LET list[n \in 0..Len(specs)] ==
            IF n = 0 THEN listed
            ELSE IF \E i \in DOMAIN list[n - 1] : list[n - 1][i].model = specs[n].model THEN list[n - 1]
                 ELSE Append(list[n - 1], specs[n])
    IN list[Len(specs)]
Merge(doc) ==
    [t \in DOMAIN doc \cup {u \in Tiers : SpecsFor(u) # <<>>} |->
        [TierIn(doc, t) EXCEPT !.listed = AppendNew(@, SpecsFor(t))]]

(* infer_tier by the first kind of marker among the tokens of the name.      *)
InferTier(tokens) ==
    IF "light" \in tokens THEN TierOfKind["light"]
    ELSE IF "strong" \in tokens /\ "mid" \notin tokens THEN TierOfKind["strong"] ELSE Medium

---------------------------------------------------------------------------
ProvidersAt(c) ==
    /\ keys = c.keys /\ registry = c.registry /\ domainTiers = c.domain
    /\ tierOf = c.tierOf /\ vendors = c.vendors
    /\ report = [how |-> "none", rows |-> <<>>] /\ sidecar = <<>>

(* Both commands end with a coverage report; detect merges for that alone,   *)
(* every other command resolves on load_tiers.                               *)
Shows(how, doc) == report' = [how |-> how, rows |-> Coverage(doc)] /\ UNCHANGED <<given, sidecar>>

Status == Shows("status", Loaded)

Detect == Detected # {} /\ Shows("detect", Merge(Loaded))

(* The live models of every vendor that answers; --apply writes the new ones *)
(* to a file that nothing reads.                                             *)
Refresh(answers, apply) ==
    LET known(i) == {o.model : o \in ToSet(vendors[i].offers)}
        live(i) == DOMAIN vendors[i].live
        asked == Detected \cap answers
        new == UNION {live(i) \ known(i) : i \in asked}
        tokens(m) == UNION {vendors[i].live[m] : i \in {k \in Detected : m \in live(k)}}
    IN
    /\ apply /\ (new # {} \/ \E i \in asked : known(i) \ live(i) # {})
    /\ sidecar' = [m \in new |-> InferTier(tokens(m))]
    /\ UNCHANGED <<given, report>>

ProviderStep ==
    \/ Status \/ Detect
    \/ \E answers \in SUBSET DOMAIN vendors, apply \in BOOLEAN : Refresh(answers, apply)

ProviderSpec == (\E c \in Setups : ProvidersAt(c)) /\ [][ProviderStep]_providerVars

---------------------------------------------------------------------------
Offered(t) == {s.model : s \in ToSet(SpecsFor(t))}
Listed(t) == {s.model : s \in ToSet(TierIn(Loaded, t).listed)}

New(t) == (Offered(t) \ Listed(t)) \ TierIn(Loaded, t).avoid

(* A report shows every tier there is, and for each the model that commands  *)
(* resolve to wherever there is one.  For a tier without, status shows none, *)
(* detect none or the model of a detected vendor, to which no command        *)
(* resolves.  The variables it asks for are not set.                         *)
ShownIsPicked ==
    /\ report.how # "none" => DOMAIN Loaded \subseteq DOMAIN report.rows
    /\ \A t \in DOMAIN report.rows :
          LET pick == Resolve(Loaded, t).model
              shown == report.rows[t].by
          IN
          /\ IF pick # NoModel THEN shown = pick
             ELSE shown # NoModel => report.how = "detect" /\ shown \in New(t)
          /\ \A v \in report.rows[t].missing : keys[v] = "unset"

(* Merging changes no pick, gives a model to exactly the tiers a detected    *)
(* vendor has an unlisted one for, that one, with a key that has a value,    *)
(* and lists nothing twice.                                                  *)
MergeOnlyAdds ==
    LET more == Merge(Loaded) IN
    \A t \in DOMAIN more :
        LET pick == Resolve(Loaded, t)
            pick2 == Resolve(more, t)
            old == Len(TierIn(Loaded, t).listed)
        IN
        /\ IF pick.model # NoModel THEN pick2 = pick
           ELSE /\ pick2.model # NoModel <=> New(t) # {}
                /\ pick2.model # NoModel => pick2.model \in New(t) /\ keys[pick2.var] \notin {"unset", "empty"}
        /\ \A i, j \in DOMAIN more[t].listed :
              i < j /\ more[t].listed[i].model = more[t].listed[j].model => j <= old

(* What the commands show of a tier that resolves is what it resolves to,    *)
(* whatever the registry, the domain, the vendors and the keys are.          *)
ReportIsWhatRuns == ShownIsPicked /\ MergeOnlyAdds
=============================================================================
