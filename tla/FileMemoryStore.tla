-------------------------- MODULE FileMemoryStore --------------------------
(* FileMemoryStore for one agent whose memory several processes use: store   *)
(* appends a line and then compacts, which reads the file, keeps the last    *)
(* entries and writes them back through a truncated file.  A process may     *)
(* crash between any two calls.  InMemoryMemoryStore is given the same calls *)
(* and is what the file store is compared with.                              *)
EXTENDS Naturals, Sequences, FiniteSets

CONSTANTS
    Writers,     \* processes that run the agent
    Keys,        \* keys of entries
    MaxEntries,  \* max_entries
    MaxStored,   \* bound on entries stored
    MaxDeaths    \* bound on crashes

ASSUME MaxEntriesAssumption == MaxEntries \in Nat \ {0}
ASSUME WritersAssumption == IsFiniteSet(Writers)

VARIABLES
    lines,      \* the entries in the file, oldest first, by number
    keyOf,      \* the keys of the entries stored so far
    bucket,     \* the list of the in-memory store
    act,        \* process -> where it is in store
    kept,       \* process -> what it has read and will write back
    deaths,
    raced,      \* ghost: whether two calls have overlapped or one has died
    twice       \* ghost: whether two have had the file truncated at one time

memoryVars == <<lines, keyOf, bucket, act, kept, deaths, raced, twice>>

Stored == Len(keyOf)
Busy == {p \in Writers : act[p] # "idle"}
Moves(p, where) == act' = [act EXCEPT ![p] = where]
LastOf(s, k) == SubSeq(s, IF Len(s) > k THEN Len(s) - k + 1 ELSE 1, Len(s))

MemoryInit ==
    /\ lines = <<>> /\ keyOf = <<>> /\ bucket = <<>> /\ act = [p \in Writers |-> "idle"]
    /\ kept = [p \in Writers |-> <<>>] /\ deaths = 0 /\ raced = FALSE /\ twice = FALSE

(* InMemoryMemoryStore.store deletes from the front what is over the limit.  *)
Evicted(s) == SubSeq(s, IF Len(s) > MaxEntries THEN Len(s) - MaxEntries + 1 ELSE 1, Len(s))

Stores(p) ==
    /\ act[p] = "idle" /\ Stored < MaxStored
    /\ \E k \in Keys : keyOf' = Append(keyOf, k)
    /\ lines' = Append(lines, Stored + 1)
    /\ bucket' = Evicted(Append(bucket, Stored + 1))
    /\ Moves(p, "appended")
    /\ raced' = (raced \/ Busy # {})
    /\ UNCHANGED <<kept, deaths, twice>>

(* Variant: the slice without its sign.                                      *)
SurvivorsOldest(s) == SubSeq(s, 1, IF Len(s) > MaxEntries THEN MaxEntries ELSE Len(s))

(* What compaction keeps of the entries it has read.                         *)
Survivors(s) == LastOf(s, MaxEntries)

CompactReads(p) ==
    /\ act[p] = "appended" /\ Moves(p, "read")
    /\ kept' = [kept EXCEPT ![p] = Survivors(lines)]
    /\ UNCHANGED <<lines, keyOf, bucket, deaths, raced, twice>>

CompactTruncates(p) ==
    /\ act[p] = "read" /\ Moves(p, "truncated") /\ lines' = <<>>
    /\ twice' = (twice \/ \E q \in Writers : act[q] = "truncated")
    /\ UNCHANGED <<keyOf, bucket, kept, deaths, raced>>

(* Variant: the surviving entries are appended to the file.                  *)
CompactAppends(p) ==
    /\ act[p] \in {"truncated", "detached"} /\ Moves(p, "idle")
    /\ lines' = IF act[p] = "detached" THEN lines ELSE lines \o kept[p]
    /\ kept' = [kept EXCEPT ![p] = <<>>]
    /\ UNCHANGED <<keyOf, bucket, deaths, raced, twice>>

(* A text written over the first n lines: the last of them may be covered in *)
(* part only; what is left of it is no JSON, and nobody reads it again.      *)
Over(text, n, s) == text \o SubSeq(s, n + 1, Len(s))

(* The entries are written from the start of the file, over what has been    *)
(* written meanwhile: over how many lines depends on how long they are.      *)
(* Into an unlinked file they are lost.                                      *)
CompactWrites(p) ==
    /\ act[p] \in {"truncated", "detached"} /\ Moves(p, "idle")
    /\ \/ act[p] = "detached" /\ UNCHANGED lines
       \/ act[p] = "truncated" /\ kept[p] = <<>> /\ UNCHANGED lines
       \/ /\ act[p] = "truncated" /\ kept[p] # <<>>
          /\ \E n \in 0..Len(lines) : lines' = Over(kept[p], n, lines)
    /\ kept' = [kept EXCEPT ![p] = <<>>]
    /\ UNCHANGED <<keyOf, bucket, deaths, raced, twice>>

ClearMemory ==
    /\ lines # <<>> \/ bucket # <<>>
    /\ lines' = <<>> /\ bucket' = <<>>
    /\ act' = [p \in Writers |-> IF act[p] = "truncated" THEN "detached" ELSE act[p]]
    /\ raced' = (raced \/ Busy # {})
    /\ UNCHANGED <<keyOf, kept, deaths, twice>>

Dies(p) ==
    /\ act[p] # "idle" /\ deaths < MaxDeaths
    /\ deaths' = deaths + 1 /\ raced' = TRUE
    /\ Moves(p, "idle") /\ kept' = [kept EXCEPT ![p] = <<>>]
    /\ UNCHANGED <<lines, keyOf, bucket, twice>>

MemoryStep ==
    \/ ClearMemory
    \/ \E p \in Writers : Stores(p) \/ CompactReads(p) \/ CompactTruncates(p)
                          \/ CompactWrites(p) \/ Dies(p)

MemorySpec == MemoryInit /\ [][MemoryStep]_memoryVars

(* recall, with a key or without, of either store.                           *)
Recall(s, key, k) ==
    LastOf(SelectSeq(s, LAMBDA i : key = "any" \/ keyOf[i] = key), k)

---------------------------------------------------------------------------
(* As long as calls do not overlap and none dies, the file store recalls     *)
(* what the in-memory store recalls, for every key and count.                *)
StoresAgree ==
    ~raced /\ Busy = {} => \A key \in Keys \cup {"any"}, k \in 1..MaxEntries :
                               Recall(lines, key, k) = Recall(bucket, key, k)

(* Overlapping calls and crashes lose entries, and still never repeat one,   *)
(* put an older one behind a newer one or let the file grow beyond the limit *)
(* by more than the calls that have appended and not compacted - unless two  *)
(* compactions were between their truncation and their write at one time,    *)
(* which can leave any of that in the file.                                  *)
LossesAreBounded ==
    ~twice =>
        /\ \A i, j \in 1..Len(lines) : i < j => lines[i] < lines[j]
        /\ Len(lines) <= MaxEntries + Cardinality(Busy) + deaths
=============================================================================
