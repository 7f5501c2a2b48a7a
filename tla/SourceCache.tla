---------------------------- MODULE SourceCache ----------------------------
(* The cache of materialized GitHub sources: resolve_source and the adapter  *)
(* for one commit, run by several processes that share the directory and may *)
(* die at any step, and origin_fetch, which reads from what it returns.      *)
EXTENDS Naturals, FiniteSets

CONSTANTS
    Fetchers,       \* processes
    Items,          \* top-level names of the repository
    MaxAttempts,    \* of _http_get_with_backoff
    MaxRuns,        \* bound on calls of materialize
    MaxKills        \* bound on processes that die

ASSUME AttemptsAssumption == MaxAttempts \in Nat \ {0}

VARIABLES
    fetcher,        \* process -> [pc, refresh, tries, left, at]
    tree,           \* item -> absent, part, whole or nested: what dest holds of it
    marker,         \* .materialized_sha: none, empty or sha
    seen,           \* process -> what its origin_fetch found
    overlapped,     \* a process wrote while another did, or under a marker
    runs, kills

cacheVars == <<fetcher, tree, marker, seen, overlapped, runs, kills>>

AtRest == [pc |-> "idle", refresh |-> FALSE, tries |-> 0, left |-> {}, at |-> {}]
Writing == {"clears", "downloads", "moves", "marks", "marking"}
Writers1 == {f \in Fetchers : fetcher[f].pc \in Writing}
Goes(f, pc) == fetcher' = [fetcher EXCEPT ![f].pc = pc]

CacheInit ==
    /\ fetcher = [f \in Fetchers |-> AtRest]
    /\ tree = [i \in Items |-> "absent"] /\ marker = "none"
    /\ seen = [f \in Fetchers |-> "nothing"] /\ overlapped = FALSE
    /\ runs = 0 /\ kills = 0

(* resolve_source picks the adapter; GENTCORE_SOURCE_REFRESH may be set.     *)
Materialize(f) ==
    /\ fetcher[f].pc \in {"idle", "failed", "has"} /\ runs < MaxRuns
    /\ \E r \in BOOLEAN : fetcher' = [fetcher EXCEPT ![f] = [AtRest EXCEPT !.pc = "resolves", !.refresh = r]]
    /\ seen' = [seen EXCEPT ![f] = "nothing"] /\ runs' = runs + 1
    /\ UNCHANGED <<tree, marker, overlapped, kills>>

(* A 429 or a 5xx is tried again; any other refusal, or the last attempt,    *)
(* raises.  Both the commit and the tarball are asked for this way.          *)
TryAgain(f) ==
    /\ fetcher[f].pc \in {"resolves", "downloads"}
    /\ fetcher' = IF fetcher[f].tries + 1 < MaxAttempts THEN [fetcher EXCEPT ![f].tries = @ + 1]
                  ELSE [fetcher EXCEPT ![f].pc = "failed"]
    /\ UNCHANGED <<tree, marker, seen, overlapped, runs, kills>>

Refused(f) ==
    /\ fetcher[f].pc \in {"resolves", "downloads"} /\ Goes(f, "failed")
    /\ UNCHANGED <<tree, marker, seen, overlapped, runs, kills>>

(* The commit is known: a marker with its id ends the call, whatever is      *)
(* under the directory; another marker has the directory removed first.      *)
Resolved(f) ==
    /\ fetcher[f].pc = "resolves"
    /\ LET cached == marker # "none" /\ ~fetcher[f].refresh IN
       /\ fetcher' = [fetcher EXCEPT ![f].pc = IF cached /\ marker = "sha" THEN "has"
                                                ELSE IF cached THEN "clears" ELSE "downloads",
                                     ![f].tries = 0]
       /\ overlapped' = (overlapped \/ (~(cached /\ marker = "sha") /\ (marker = "sha" \/ Writers1 # {})))
    /\ UNCHANGED <<tree, marker, seen, runs, kills>>

(* rmtree(dest, ignore_errors=True), one name at a time.                     *)
Clears(f) ==
    /\ fetcher[f].pc = "clears"
    /\ \/ \E i \in Items : tree[i] # "absent" /\ tree' = [tree EXCEPT ![i] = "absent"] /\ UNCHANGED <<fetcher, marker>>
       \/ marker # "none" /\ marker' = "none" /\ UNCHANGED <<fetcher, tree>>
       \/ marker = "none" /\ (\A i \in Items : tree[i] = "absent") /\ Goes(f, "downloads") /\ UNCHANGED <<tree, marker>>
    /\ UNCHANGED <<seen, overlapped, runs, kills>>

(* Variant: the marker is written as soon as the commit is known.            *)
DownloadedMarked(f) ==
    /\ fetcher[f].pc = "downloads" /\ marker' = "sha"
    /\ fetcher' = [fetcher EXCEPT ![f].pc = "moves", ![f].left = Items, ![f].at = {}]
    /\ UNCHANGED <<tree, seen, overlapped, runs, kills>>

(* The tarball is extracted elsewhere, then its names are moved one by one.  *)
Downloaded(f) ==
    /\ fetcher[f].pc = "downloads"
    /\ fetcher' = [fetcher EXCEPT ![f].pc = "moves", ![f].left = Items, ![f].at = {}]
    /\ UNCHANGED <<tree, marker, seen, overlapped, runs, kills>>

(* What is under the name is removed; it raises if that is gone by then.     *)
Looks(f, i) ==
    /\ fetcher[f].pc = "moves" /\ fetcher[f].at = {} /\ i \in fetcher[f].left
    /\ fetcher' = [fetcher EXCEPT ![f].at = {<<i, IF tree[i] = "absent" THEN "put" ELSE "remove">>}]
    /\ UNCHANGED <<tree, marker, seen, overlapped, runs, kills>>

Removes(f, i) ==
    /\ fetcher[f].pc = "moves" /\ fetcher[f].at = {<<i, "remove">>}
    /\ tree' = [tree EXCEPT ![i] = "absent"]
    /\ fetcher' = IF tree[i] = "absent" THEN [fetcher EXCEPT ![f].pc = "failed"]
                  ELSE [fetcher EXCEPT ![f].at = {<<i, "put">>}]
    /\ UNCHANGED <<marker, seen, overlapped, runs, kills>>

(* shutil.move into a directory that exists puts the source inside it.       *)
Puts(f, i) ==
    /\ fetcher[f].pc = "moves" /\ fetcher[f].at = {<<i, "put">>}
    /\ tree' = [tree EXCEPT ![i] = IF @ = "absent" THEN "whole" ELSE "nested"]
    /\ fetcher' = [fetcher EXCEPT ![f].at = {}, ![f].left = @ \ {i},
                                  ![f].pc = IF fetcher[f].left = {i} THEN "marks" ELSE @]
    /\ UNCHANGED <<marker, seen, overlapped, runs, kills>>

(* write_text opens the marker, which empties it, and then writes.           *)
Marks(f) ==
    /\ fetcher[f].pc \in {"marks", "marking"}
    /\ marker' = IF fetcher[f].pc = "marks" THEN "empty" ELSE "sha"
    /\ Goes(f, IF fetcher[f].pc = "marks" THEN "marking" ELSE "has")
    /\ UNCHANGED <<tree, seen, overlapped, runs, kills>>

(* origin_fetch looks for its path under what it was given.                  *)
Fetches(f, i) ==
    /\ fetcher[f].pc = "has" /\ seen[f] = "nothing"
    /\ seen' = [seen EXCEPT ![f] = IF tree[i] = "whole" THEN "content" ELSE "not_found"]
    /\ UNCHANGED <<fetcher, tree, marker, overlapped, runs, kills>>

(* A process dies; what it was removing or copying is left in part.          *)
Killed(f) ==
    /\ fetcher[f].pc \in Writing /\ kills < MaxKills /\ kills' = kills + 1
    /\ fetcher' = [fetcher EXCEPT ![f] = AtRest]
    /\ tree' = [i \in Items |-> IF <<i, "put">> \in fetcher[f].at \/ (<<i, "remove">> \in fetcher[f].at /\ tree[i] # "absent")
                                THEN "part" ELSE tree[i]]
    /\ UNCHANGED <<marker, seen, overlapped, runs>>

CacheStep ==
    \E f \in Fetchers :
        \/ Materialize(f) \/ TryAgain(f) \/ Refused(f) \/ Resolved(f) \/ Clears(f) \/ Downloaded(f)
        \/ Marks(f) \/ Killed(f)
        \/ \E i \in Items : Looks(f, i) \/ Removes(f, i) \/ Puts(f, i) \/ Fetches(f, i)

CacheSpec == CacheInit /\ [][CacheStep]_cacheVars

---------------------------------------------------------------------------
(* Whatever processes died while they filled it, a directory with a marker   *)
(* holds the whole commit and an agent finds every path of it, as long as no *)
(* two wrote at the same time and none refreshed under a marker.             *)
CacheIsWhole ==
    ~overlapped =>
        /\ marker = "sha" => \A i \in Items : tree[i] = "whole"
        /\ \A f \in Fetchers : seen[f] # "not_found"
=============================================================================
