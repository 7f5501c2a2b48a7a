----------------------------- MODULE ServerApi -----------------------------
(* The HTTP server: /run/agent, /run/workflow and /run share one semaphore   *)
(* per app and one event loop.  A request that gets no permit in 0.1 s is    *)
(* refused; one that runs too long is cancelled; whatever ends it, its       *)
(* permit comes back.                                                        *)
EXTENDS Naturals, FiniteSets

CONSTANTS
    Requests,   \* requests that arrive in the run
    Limit       \* _MAX_CONCURRENT

ASSUME LimitAssumption == Limit \in Nat \ {0}
ASSUME RequestsAssumption == IsFiniteSet(Requests)

VARIABLES
    phase,      \* where each request is in its endpoint
    endpoint,   \* the endpoint it was sent to
    permits,    \* the value of the semaphore
    loop        \* the request whose synchronous code keeps the event loop

serverVars == <<phase, endpoint, permits, loop>>

Endpoints == {"agent", "workflow", "triage"}
Holding == {"admitted", "running", "cancelling"}
Holders == {r \in Requests : phase[r] \in Holding}
Nobody == "nobody"
Hung   == "hung"

ServerInit ==
    /\ phase = [r \in Requests |-> "new"]
    /\ endpoint = [r \in Requests |-> "agent"]
    /\ permits = Limit /\ loop = Nobody

To(r, ph) == phase' = [phase EXCEPT ![r] = ph]

(* Every answer of a request that was admitted passes through the finally.   *)
Answer(r) ==
    /\ To(r, "answered")
    /\ permits' = IF phase[r] \in Holding THEN permits + 1 ELSE permits

Take(r) == To(r, "admitted") /\ permits' = permits - 1

(* A free permit for which nobody waits is taken at once; a request with a   *)
(* bad key, or to a server that has none, never gets that far.               *)
Free == permits > 0 /\ \A q \in Requests : phase[q] # "queued"

Arrive(r) ==
    /\ phase[r] = "new"
    /\ \E e \in Endpoints : endpoint' = [endpoint EXCEPT ![r] = e]
    /\ \/ Free /\ Take(r)
       \/ ~Free /\ To(r, "queued") /\ UNCHANGED permits
       \/ Answer(r)

Admit(r)    == phase[r] = "queued" /\ permits > 0 /\ Take(r) /\ UNCHANGED endpoint
TurnAway(r) == phase[r] = "queued" /\ Answer(r) /\ UNCHANGED endpoint

(* Variant: the check for the triage file comes before the try.              *)
StartKeeping(r) ==
    /\ phase[r] = "admitted"
    /\ \/ endpoint[r] = "triage" /\ To(r, "answered") /\ UNCHANGED permits
       \/ endpoint[r] # "triage" /\ Answer(r)
       \/ To(r, "running") /\ UNCHANGED permits
    /\ UNCHANGED endpoint

(* Refused before anything runs: a domain or an agent directory outside the  *)
(* roots, a file that is missing, a provider that cannot be made.            *)
Start(r) ==
    /\ phase[r] = "admitted"
    /\ Answer(r) \/ (To(r, "running") /\ UNCHANGED permits)
    /\ UNCHANGED endpoint

(* The result of the run, or the error that its exceptions are made into:    *)
(* the request for an approval is one of them.                               *)
Return(r) == phase[r] = "running" /\ Answer(r) /\ UNCHANGED endpoint

(* wait_for cancels what it waits for and waits for the cancellation.        *)
Expire(r) == /\ phase[r] = "running" /\ To(r, "cancelling")
             /\ UNCHANGED <<endpoint, permits>>

(* Variant: the run catches its cancellation and goes on.                    *)
UnwindCaught(r) == phase[r] = "cancelling" /\ To(r, "running") /\ UNCHANGED <<endpoint, permits>>

(* A cancelled run is answered when its cancellation has come through.       *)
Unwind(r) == phase[r] = "cancelling" /\ Answer(r) /\ UNCHANGED endpoint

(* Provider clients and hooks are called synchronously: while one of them    *)
(* runs the event loop does nothing else, time-outs included.  A hook that   *)
(* never returns keeps it for good; nothing bounds what an agent's hooks do. *)
Block(r) == phase[r] \in {"running", "cancelling"} /\ loop = Nobody /\ loop' = r
Unblock  == loop \in Requests /\ loop' = Nobody
Hang     == loop \in Requests /\ loop' = Hung

Handle(r) == \/ Admit(r) \/ TurnAway(r) \/ Start(r) \/ Return(r) \/ Expire(r) \/ Unwind(r)

ServerStep ==
    \/ loop = Nobody /\ UNCHANGED loop /\ \E r \in Requests : Arrive(r) \/ Handle(r)
    \/ /\ Unblock \/ Hang \/ \E r \in Requests : Block(r)
       /\ UNCHANGED <<phase, endpoint, permits>>

(* The event loop serves every ready request.  A synchronous call comes back *)
(* (a provider client has a time-out of its own) or it is a hook that hangs. *)
ServerFairness ==
    /\ WF_serverVars((Unblock \/ Hang) /\ UNCHANGED <<phase, endpoint, permits>>)
    /\ \A r \in Requests : SF_serverVars(loop = Nobody /\ UNCHANGED loop /\ Handle(r))

ServerSpec == ServerInit /\ [][ServerStep]_serverVars /\ ServerFairness

---------------------------------------------------------------------------
(* No path through an endpoint keeps a permit or gives one back twice, and   *)
(* what is running is never more than the limit, time-outs included.         *)
PermitsConserved ==
    /\ permits \in 0..Limit
    /\ permits + Cardinality(Holders) = Limit

(* Every request that arrives is answered, and so gives its permit back,     *)
(* whatever is blocked or cancelled in between: the only thing that can keep *)
(* one waiting for ever is a hook that hangs, which stops the whole server.  *)
AllAnswered == \A r \in Requests : phase[r] # "new" ~> phase[r] = "answered" \/ loop = Hung
=============================================================================
