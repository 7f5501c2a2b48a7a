------------------------------ MODULE Exchange ------------------------------
(* What agents exchange besides results: messages on ports (MessageBus),     *)
(* checkpoints (HandoffManager) and ports of other domains (DomainRegistry). *)
(* Each keeps dictionaries that its callers use in any order.                *)
EXTENDS Naturals, Sequences, FiniteSets, SequencesExt, FiniteSetsExt

CONSTANTS
    BusPorts,       \* agent:port
    Checkpoints,    \* checkpoint ids
    StateObjects,   \* dicts that workflows keep their state in
    Manifests,      \* what a domain.yaml may hold: [is, name, ports]
    DomainDirs,     \* directories below the one that is discovered
    MaxMessages, MaxWork, MaxLoads

ASSUME ManifestsAssumption ==
    \A m \in Manifests : m.is = "valid" => m.ports \in Seq([name : Seq(STRING), schema : STRING])

VARIABLES
    queues,         \* port -> messages that wait
    validators,     \* port -> kind of schema
    sent,           \* MessageBus._history: [port, nr]
    taken,          \* history: port -> what receive has returned since clear
    messages,       \* messages made
    content,        \* state object -> its content
    inHands,        \* state objects that a workflow works on
    checkpoints,    \* id -> the object in it
    text,           \* the last serialized checkpoint: [id, content]
    kept,           \* history: id -> the content its checkpoint was made with
    live,           \* history: ids whose object came from a workflow or went to one
    manifests,      \* directory -> domain.yaml
    domains,        \* _domains: name -> ports of its manifest
    portMap,        \* _port_map: id -> [domain, port]
    toScan,         \* directories that discover_path has yet to look at
    loads,          \* history: domain -> how often it was registered
    halfway         \* history: domains one of whose manifests ended in an error

busVars == <<queues, validators, sent, taken, messages>>
handoffVars == <<content, inHands, checkpoints, text, kept, live>>
domainVars == <<manifests, domains, portMap, toScan, loads, halfway>>
exchangeVars == <<busVars, handoffVars, domainVars>>

NoText == [id |-> "none", content |-> 0]
NoManifest == [is |-> "absent", name |-> <<>>, ports |-> <<>>]
With(f, x, v) == [y \in DOMAIN f \cup {x} |-> IF y = x THEN v ELSE f[y]]
Get(f, x, default) == IF x \in DOMAIN f THEN f[x] ELSE default

ExchangeInit ==
    /\ queues = <<>> /\ validators = <<>> /\ sent = <<>> /\ taken = [p \in BusPorts |-> <<>>] /\ messages = 0
    /\ content = [o \in StateObjects |-> 0] /\ inHands = {CHOOSE o \in StateObjects : TRUE}
    /\ checkpoints = <<>> /\ text = NoText /\ kept = <<>> /\ live = {}
    /\ manifests = [d \in DomainDirs |-> NoManifest] /\ domains = <<>> /\ portMap = <<>>
    /\ toScan = {} /\ loads = <<>> /\ halfway = {}

---------------------------------------------------------------------------
(* MessageBus: a port that is registered again keeps its messages.           *)
RegisterPort(p, schema) ==
    /\ queues' = With(queues, p, Get(queues, p, <<>>))
    /\ validators' = IF schema = "none" THEN validators ELSE With(validators, p, schema)
    /\ UNCHANGED <<sent, taken, messages>>

(* A dict of required keys or a callable decides by the payload; a model     *)
(* class is callable and raises for every payload.                           *)
Accepts(p, fits) == CASE Get(validators, p, "none") = "model" -> FALSE
                      [] Get(validators, p, "none") = "keys" -> fits
                      [] OTHER -> TRUE

SendMessage(p, fits) ==
    /\ messages < MaxMessages /\ messages' = messages + 1 /\ UNCHANGED <<validators, taken>>
    /\ IF Accepts(p, fits)
         THEN /\ queues' = With(queues, p, Append(Get(queues, p, <<>>), messages'))
              /\ sent' = Append(sent, [port |-> p, nr |-> messages'])
         ELSE UNCHANGED <<queues, sent>>

Receive(p) ==
    /\ taken' = [taken EXCEPT ![p] = @ \o Get(queues, p, <<>>)] /\ queues' = With(queues, p, <<>>)
    /\ UNCHANGED <<validators, sent, messages>>

ClearBus ==
    /\ queues' = <<>> /\ sent' = <<>> /\ taken' = [p \in BusPorts |-> <<>>] /\ UNCHANGED <<validators, messages>>

BusStep ==
    \/ \E p \in BusPorts, k \in {"none", "keys", "model"} : RegisterPort(p, k)
    \/ \E p \in BusPorts, fits \in BOOLEAN : SendMessage(p, fits)
    \/ \E p \in BusPorts : Receive(p)
    \/ ClearBus

---------------------------------------------------------------------------
(* A workflow goes on with a state it has in hands.                          *)
Work(o) ==
    /\ o \in inHands /\ content[o] < MaxWork /\ content' = [content EXCEPT ![o] = @ + 1]
    /\ UNCHANGED <<inHands, checkpoints, text, kept, live>>

(* create_checkpoint keeps the state it is given, and no copy of it.         *)
CreateCheckpoint(c, o) ==
    /\ o \in inHands /\ checkpoints' = With(checkpoints, c, o) /\ kept' = With(kept, c, content[o])
    /\ live' = live \cup {c} /\ UNCHANGED <<content, inHands, text>>

ResumeFrom(c) ==
    /\ c \in DOMAIN checkpoints /\ inHands' = inHands \cup {checkpoints[c]} /\ live' = live \cup {c}
    /\ UNCHANGED <<content, checkpoints, text, kept>>

Serialize(c) ==
    /\ c \in DOMAIN checkpoints /\ text' = [id |-> c, content |-> content[checkpoints[c]]]
    /\ UNCHANGED <<content, inHands, checkpoints, kept, live>>

(* What was read becomes the checkpoint of its id, in the object o.          *)
Register(o) ==
    /\ checkpoints' = With(checkpoints, text.id, o) /\ content' = [content EXCEPT ![o] = text.content]
    /\ kept' = With(kept, text.id, text.content) /\ live' = live \ {text.id} /\ UNCHANGED <<inHands, text>>

Unused == {o \in StateObjects \ inHands : \A c \in DOMAIN checkpoints : checkpoints[c] # o}

(* Variant: a checkpoint that is there is brought up to date in its object.  *)
DeserializeInPlace ==
    text # NoText /\ \E o \in IF text.id \in DOMAIN checkpoints THEN {checkpoints[text.id]} ELSE Unused : Register(o)

Deserialize == text # NoText /\ \E o \in Unused : Register(o)

(* The text outlives the process of the manager.                             *)
NewManager ==
    /\ checkpoints' = <<>> /\ kept' = <<>> /\ live' = {} /\ content' = [o \in StateObjects |-> 0]
    /\ inHands' = {CHOOSE o \in StateObjects : TRUE} /\ UNCHANGED text

HandoffStep ==
    \/ \E o \in StateObjects : Work(o)
    \/ \E c \in Checkpoints, o \in StateObjects : CreateCheckpoint(c, o)
    \/ \E c \in Checkpoints : ResumeFrom(c) \/ Serialize(c)
    \/ Deserialize \/ NewManager

---------------------------------------------------------------------------
ManifestChanges(d, m) ==
    manifests[d] # m /\ manifests' = [manifests EXCEPT ![d] = m] /\ UNCHANGED <<domains, portMap, toScan, loads, halfway>>

(* The id of a port is the two names with a dot between them, and names may  *)
(* hold dots: a name is the sequence of its parts, and one id can be that of *)
(* ports of two domains.                                                     *)
PortId(name, port) == name \o port

(* The ports of a manifest up to the first that is no mapping (which has no  *)
(* name, not even an empty one), and of those of one id the last.            *)
Indexed(ports) == {k \in DOMAIN ports : \A j \in 1..k : ports[j].name # <<>>}
Having(name, ports, id) == {k \in Indexed(ports) : PortId(name, ports[k].name) = id}
LastHaving(name, ports, id) == ports[Max(Having(name, ports, id))]

(* What registering does: the domain is replaced, its ports are added.       *)
Entered(name, ports) ==
    /\ domains' = With(domains, name, ports) /\ loads' = With(loads, name, Get(loads, name, 0) + 1)
    /\ halfway' = IF Indexed(ports) = DOMAIN ports THEN halfway \ {name} ELSE halfway \cup {name}
    /\ portMap' = [id \in DOMAIN portMap \cup {PortId(name, ports[k].name) : k \in Indexed(ports)} |->
                     IF Having(name, ports, id) = {} THEN portMap[id]
                     ELSE [domain |-> name, port |-> LastHaving(name, ports, id)]]

TotalLoads == FoldFunction(+, 0, loads)

(* load_from_config and discover_path: each directory, in whatever order,    *)
(* while files may change.                                                   *)
DiscoverPath ==
    /\ toScan = {} /\ TotalLoads < MaxLoads /\ toScan' = DomainDirs
    /\ UNCHANGED <<manifests, domains, portMap, loads, halfway>>

LoadDomainAt(d) ==
    /\ d \in toScan /\ toScan' = toScan \ {d} /\ UNCHANGED manifests
    /\ IF manifests[d].is = "valid" THEN Entered(manifests[d].name, manifests[d].ports)
       ELSE UNCHANGED <<domains, portMap, loads, halfway>>

RegisterDomainPorts(name, ports) ==
    toScan = {} /\ TotalLoads < MaxLoads /\ Entered(name, ports) /\ UNCHANGED <<manifests, toScan>>

DomainStep ==
    \/ \E d \in DomainDirs, m \in Manifests : ManifestChanges(d, m)
    \/ DiscoverPath \/ \E d \in DomainDirs : LoadDomainAt(d)
    \/ \E m \in Manifests : m.is = "valid" /\ RegisterDomainPorts(m.name, m.ports)

ExchangeStep ==
    \/ BusStep /\ UNCHANGED <<handoffVars, domainVars>>
    \/ HandoffStep /\ UNCHANGED <<busVars, domainVars>>
    \/ DomainStep /\ UNCHANGED <<busVars, handoffVars>>

ExchangeSpec == ExchangeInit /\ [][ExchangeStep]_exchangeVars

---------------------------------------------------------------------------
(* Every message in the history of the bus was received once or still waits, *)
(* in the order it was sent in, whatever is registered and cleared between.  *)
BusDelivers ==
    \A p \in BusPorts :
        LET got == taken[p] \o Get(queues, p, <<>>) IN
        /\ ToSet(got) = {m.nr : m \in {n \in ToSet(sent) : n.port = p}}
        /\ \A k, l \in DOMAIN got : k < l => got[k] < got[l]

(* A checkpoint never gives back less than the state it was made with, and   *)
(* one that was read from text and has not been resumed gives back exactly   *)
(* that state, whatever workflows go on with and whatever other checkpoints  *)
(* are made, resumed and read.  One that was made from a state in hands, or  *)
(* resumed, holds that very object and moves on with the workflow.           *)
CheckpointsKeep ==
    \A c \in DOMAIN checkpoints :
        /\ content[checkpoints[c]] >= kept[c]
        /\ c \notin live => content[checkpoints[c]] = kept[c]

(* What the registry answers for a port is of a domain it knows, and never   *)
(* what an earlier manifest of that domain said of a port that the present   *)
(* one has: it is what the last of the present one says, unless a port of    *)
(* another domain, whose id reads the same, was entered later.  A domain     *)
(* registered once answers for no port but those of its manifest.  (After an *)
(* error halfway nothing is said of the ports that were not reached.)        *)
PortsAreOfDomains ==
    /\ \A id \in DOMAIN portMap :
          /\ portMap[id].domain \in DOMAIN domains
          /\ id = PortId(portMap[id].domain, portMap[id].port.name)
          /\ loads[portMap[id].domain] = 1 => portMap[id].port \in ToSet(domains[portMap[id].domain])
    /\ \A n \in DOMAIN domains \ halfway : \A k \in DOMAIN domains[n] :
          LET id == PortId(n, domains[n][k].name) IN
          /\ id \in DOMAIN portMap
          /\ portMap[id].domain = n => portMap[id].port = LastHaving(n, domains[n], id)

ExchangeHolds == BusDelivers /\ CheckpointsKeep /\ PortsAreOfDomains
=============================================================================
