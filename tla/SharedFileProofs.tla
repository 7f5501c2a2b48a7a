-------------------------- MODULE SharedFileProofs --------------------------
(***************************************************************************)
(* Theorems about the files that several processes or threads share: the   *)
(* memory of an agent, the cache of materialized sources, run records and  *)
(* worktrees; for any number of processes, entries, names and runs.        *)
(***************************************************************************)
EXTENDS FileMemoryStore, SourceCache, RunFiles, FiniteSetTheorems, SequenceTheorems, TLAPS

---------------------------------------------------------------------------
(* The memory file.                                                          *)

(* Sequences of entries: older before newer, none that has not been stored;  *)
(* all of one older than all of another.                                     *)
Rising(s)    == \A i, j \in 1..Len(s) : i < j => s[i] < s[j]
Old(s, n)    == \A i \in 1..Len(s) : s[i] \in 1..n
Before(s, t) == \A i \in 1..Len(s), j \in 1..Len(t) : s[i] < t[j]

MemoryTypeOK ==
    /\ lines \in Seq(Nat) /\ bucket \in Seq(Nat) /\ Stored \in Nat
    /\ act \in [Writers -> {"idle", "appended", "read", "truncated", "detached"}]
    /\ kept \in [Writers -> Seq(Nat)]
    /\ deaths \in Nat /\ raced \in BOOLEAN /\ twice \in BOOLEAN

(* The file and what each compaction will write back: in a file that one     *)
(* compaction has truncated there is only what was stored since.             *)
CopiesAgree == ~twice =>
    /\ Rising(lines) /\ Old(lines, Stored)
    /\ \A p \in Writers :
          /\ Rising(kept[p]) /\ Old(kept[p], Stored) /\ Len(kept[p]) <= MaxEntries
          /\ act[p] = "truncated" =>
                /\ Before(kept[p], lines)
                /\ \A q \in Writers : act[q] = "truncated" => q = p

(* Who has appended and not yet emptied the file.                            *)
Pending == {p \in Writers : act[p] \in {"appended", "read"}}
FileIsShort == ~twice =>
    /\ Len(lines) <= MaxEntries + Cardinality(Pending) + deaths
    /\ (\E p \in Writers : act[p] = "truncated") => Len(lines) <= Cardinality(Pending) + deaths

(* Where one call at a time has got to, and what the other store holds.      *)
OneAtATime ==
    ~raced =>
        /\ \A p, q \in Busy : p = q
        /\ Busy = {} => lines = bucket
        /\ \A p \in Writers :
              /\ act[p] # "detached"
              /\ act[p] = "appended" => bucket = LastOf(lines, MaxEntries)
              /\ act[p] \in {"read", "truncated"} => kept[p] = bucket
              /\ act[p] = "truncated" => lines = <<>>

MemoryInv == MemoryTypeOK /\ CopiesAgree /\ FileIsShort /\ OneAtATime

---------------------------------------------------------------------------
(* The end of a sequence, from one of its places.                            *)
LEMMA SubSeqEnd ==
    ASSUME NEW s \in Seq(Nat), NEW n \in Nat, n <= Len(s)
    PROVE  /\ SubSeq(s, n + 1, Len(s)) \in Seq(Nat)
           /\ Len(SubSeq(s, n + 1, Len(s))) = Len(s) - n
           /\ \A i \in 1..(Len(s) - n) : SubSeq(s, n + 1, Len(s))[i] = s[n + i]
<1> PICK t : t = SubSeq(s, n + 1, Len(s))
  OBVIOUS
<1> PICK l \in Nat : l = Len(s)
  OBVIOUS
<1>1. \A i \in (n + 1)..l : s[i] \in Nat
  OBVIOUS
<1>2. n + 1 \in Int /\ l \in Int /\ t = SubSeq(s, n + 1, l)
  OBVIOUS
<1>3. /\ t \in Seq(Nat)
      /\ Len(t) = IF n + 1 <= l THEN l - (n + 1) + 1 ELSE 0
      /\ \A i \in 1 .. (l - (n + 1) + 1) : t[i] = s[(n + 1) + i - 1]
  BY <1>1, <1>2, SubSeqProperties
<1>4. l - (n + 1) + 1 = l - n
  OBVIOUS
<1>5. Len(t) = l - n
  BY <1>3, <1>4
<1>6. ASSUME NEW i \in 1..(l - n)
      PROVE  t[i] = s[n + i]
  <2>1. (n + 1) + i - 1 = n + i
    OBVIOUS
  <2> QED BY <2>1, <1>3, <1>4
<1> QED BY <1>3, <1>5, <1>6

(* What compaction keeps: the end of what it has read.                       *)
LEMMA LastOfSeq ==
    ASSUME NEW s \in Seq(Nat)
    PROVE  /\ LastOf(s, MaxEntries) \in Seq(Nat)
           /\ Len(LastOf(s, MaxEntries)) = IF Len(s) > MaxEntries THEN MaxEntries ELSE Len(s)
           /\ \A i \in 1..Len(LastOf(s, MaxEntries)) :
                 LastOf(s, MaxEntries)[i] = s[i + (Len(s) - Len(LastOf(s, MaxEntries)))]
<1>0. Len(s) \in Nat /\ MaxEntries \in Nat
  BY MaxEntriesAssumption
<1>1. CASE Len(s) > MaxEntries
  <2> PICK n : n = Len(s) - MaxEntries
    OBVIOUS
  <2>1. n \in Nat /\ n <= Len(s) /\ Len(s) - n = MaxEntries
    BY <1>0, <1>1
  <2>2. LastOf(s, MaxEntries) = SubSeq(s, n + 1, Len(s))
    BY <1>1 DEF LastOf
  <2>3. /\ LastOf(s, MaxEntries) \in Seq(Nat) /\ Len(LastOf(s, MaxEntries)) = MaxEntries
        /\ \A i \in 1..MaxEntries : LastOf(s, MaxEntries)[i] = s[n + i]
    <3>1. /\ SubSeq(s, n + 1, Len(s)) \in Seq(Nat)
          /\ Len(SubSeq(s, n + 1, Len(s))) = Len(s) - n
          /\ \A i \in 1..(Len(s) - n) : SubSeq(s, n + 1, Len(s))[i] = s[n + i]
      BY <2>1, SubSeqEnd
    <3> QED BY <3>1, <2>1, <2>2
  <2>4. \A i \in 1..MaxEntries : n + i = i + (Len(s) - MaxEntries)
    BY <1>0
  <2> QED BY <1>1, <2>3, <2>4
<1>2. CASE ~(Len(s) > MaxEntries)
  <2>1. LastOf(s, MaxEntries) = SubSeq(s, 1, Len(s))
    BY <1>2 DEF LastOf
  <2>2. LastOf(s, MaxEntries) = s
    BY <2>1, SubSeqFull
  <2>3. \A i \in 1..Len(s) : i + (Len(s) - Len(s)) = i
    BY <1>0
  <2> QED BY <1>2, <2>2, <2>3
<1> QED BY <1>1, <1>2

LEMMA LastOfCopies ==
    ASSUME NEW s \in Seq(Nat), NEW n \in Nat, Rising(s), Old(s, n)
    PROVE  LET k == LastOf(s, MaxEntries)
           IN  Rising(k) /\ Old(k, n) /\ Len(k) <= MaxEntries
<1> PICK k : k = LastOf(s, MaxEntries)
  OBVIOUS
<1>1. /\ k \in Seq(Nat) /\ Len(k) = (IF Len(s) > MaxEntries THEN MaxEntries ELSE Len(s))
      /\ \A i \in 1..Len(k) : k[i] = s[i + (Len(s) - Len(k))]
  BY LastOfSeq
<1>2. Len(s) \in Nat /\ Len(k) \in Nat /\ MaxEntries \in Nat
  BY <1>1, MaxEntriesAssumption
<1>3. \A i \in 1..Len(k) : i + (Len(s) - Len(k)) \in 1..Len(s)
  BY <1>1, <1>2
<1>4. Rising(k)
  <2> SUFFICES ASSUME NEW i \in 1..Len(k), NEW j \in 1..Len(k), i < j
               PROVE  k[i] < k[j]
    BY DEF Rising
  <2>0. PICK d : d = Len(s) - Len(k)
    OBVIOUS
  <2>1. i + d \in 1..Len(s) /\ j + d \in 1..Len(s) /\ d \in Int
    BY <2>0, <1>2, <1>3
  <2>2. k[i] = s[i + d] /\ k[j] = s[j + d]
    BY <2>0, <1>1
  <2>3. i + d < j + d
    BY <2>1
  <2> QED BY <2>1, <2>2, <2>3 DEF Rising
<1>5. Old(k, n)
  BY <1>1, <1>2, <1>3 DEF Old
<1> QED BY <1>1, <1>2, <1>4, <1>5, MaxEntriesAssumption

(* What compaction writes, over the first n lines of what is in the file.    *)
LEMMA OverSeq ==
    ASSUME NEW k \in Seq(Nat), NEW s \in Seq(Nat), NEW n \in 0..Len(s)
    PROVE  /\ Over(k, n, s) \in Seq(Nat)
           /\ Len(Over(k, n, s)) = Len(k) + (Len(s) - n)
           /\ \A i \in 1..Len(Over(k, n, s)) :
                 Over(k, n, s)[i] = IF i <= Len(k) THEN k[i] ELSE s[n + (i - Len(k))]
<1>0. Len(k) \in Nat /\ Len(s) \in Nat /\ n \in Nat /\ n <= Len(s)
  OBVIOUS
<1> PICK t : t = SubSeq(s, n + 1, Len(s))
  OBVIOUS
<1>1. t \in Seq(Nat) /\ Len(t) = Len(s) - n /\ \A i \in 1..(Len(s) - n) : t[i] = s[n + i]
  BY <1>0, SubSeqEnd
<1>2. Over(k, n, s) = k \o t
  BY DEF Over
<1>3. k \o t \in Seq(Nat) /\ Len(k \o t) = Len(k) + (Len(s) - n)
  <2>1. k \o t \in Seq(Nat) /\ Len(k \o t) = Len(k) + Len(t)
    BY <1>1, ConcatProperties
  <2> QED BY <2>1, <1>1
<1>4. ASSUME NEW i \in 1..(Len(k) + (Len(s) - n))
      PROVE  (k \o t)[i] = IF i <= Len(k) THEN k[i] ELSE s[n + (i - Len(k))]
  <2>1. CASE i <= Len(k)
    BY <2>1, <1>1
  <2>2. CASE ~(i <= Len(k))
    <3>1. i - Len(k) \in 1..(Len(s) - n)
      BY <2>2, <1>0
    <3>2. (k \o t)[i] = t[i - Len(k)]
      BY <2>2, <1>1, <1>0, SMTT(30)
    <3> QED BY <2>2, <3>1, <3>2, <1>1
  <2> QED BY <2>1, <2>2
<1> QED BY <1>2, <1>3, <1>4

LEMMA OverCopies ==
    ASSUME NEW k \in Seq(Nat), NEW s \in Seq(Nat), NEW m \in 0..Len(s), NEW n \in Nat,
           Rising(k), Rising(s), Old(k, n), Old(s, n), Before(k, s)
    PROVE  Rising(Over(k, m, s)) /\ Old(Over(k, m, s), n)
<1> PICK w : w = Over(k, m, s)
  OBVIOUS
<1>1. /\ w \in Seq(Nat) /\ Len(w) = Len(k) + (Len(s) - m)
      /\ \A i \in 1..Len(w) : w[i] = IF i <= Len(k) THEN k[i] ELSE s[m + (i - Len(k))]
  BY OverSeq
<1>2. Len(s) \in Nat /\ Len(k) \in Nat /\ Len(w) \in Nat /\ m \in Nat /\ m <= Len(s)
  BY <1>1
<1>3. ASSUME NEW i \in 1..Len(w), i <= Len(k) PROVE i \in 1..Len(k) /\ w[i] = k[i]
  BY <1>1, <1>2, <1>3
<1>4. ASSUME NEW i \in 1..Len(w), ~(i <= Len(k))
      PROVE  m + (i - Len(k)) \in 1..Len(s) /\ w[i] = s[m + (i - Len(k))]
  BY <1>1, <1>2, <1>4
<1>5. Rising(w)
  <2> SUFFICES ASSUME NEW i \in 1..Len(w), NEW j \in 1..Len(w), i < j
               PROVE  w[i] < w[j]
    BY DEF Rising
  <2>1. CASE j <= Len(k)
    <3>1. i <= Len(k)
      BY <2>1, <1>2
    <3> QED BY <2>1, <3>1, <1>3 DEF Rising
  <2>2. CASE i <= Len(k) /\ ~(j <= Len(k))
    BY <2>2, <1>3, <1>4 DEF Before
  <2>3. CASE ~(i <= Len(k))
    <3>1. ~(j <= Len(k)) /\ m + (i - Len(k)) < m + (j - Len(k))
      BY <2>3, <1>2
    <3> QED BY <2>3, <3>1, <1>4 DEF Rising
  <2> QED BY <2>1, <2>2, <2>3
<1>6. Old(w, n)
  BY <1>3, <1>4 DEF Old
<1> QED BY <1>5, <1>6

(* What is stored next is newer than every copy.                             *)
LEMMA AppendCopies ==
    ASSUME NEW s \in Seq(Nat), NEW n \in Nat, Rising(s), Old(s, n)
    PROVE  /\ Rising(Append(s, n + 1)) /\ Old(Append(s, n + 1), n + 1)
           /\ \A t \in Seq(Nat) : Old(t, n) => Old(t, n + 1) /\ (Before(t, s) => Before(t, Append(s, n + 1)))
<1> PICK a : a = Append(s, n + 1)
  OBVIOUS
<1>1. /\ Len(a) = Len(s) + 1 /\ a[Len(s) + 1] = n + 1
      /\ \A i \in 1..Len(s) : a[i] = s[i]
      /\ Len(s) \in Nat
  OBVIOUS
<1>2. \A i \in 1..Len(a) : \/ (i \in 1..Len(s) /\ a[i] = s[i] /\ a[i] \in 1..n)
                          \/ (i = Len(s) + 1 /\ a[i] = n + 1)
  BY <1>1 DEF Old
<1>3. Rising(a)
  <2> SUFFICES ASSUME NEW i \in 1..Len(a), NEW j \in 1..Len(a), i < j PROVE a[i] < a[j]
    BY DEF Rising
  <2>1. i \in 1..Len(s) /\ a[i] = s[i] /\ a[i] \in 1..n
    BY <1>1, <1>2
  <2>2. CASE j \in 1..Len(s)
    BY <2>1, <2>2, <1>1 DEF Rising
  <2>3. CASE j \notin 1..Len(s)
    BY <2>1, <2>3, <1>2
  <2> QED BY <2>2, <2>3
<1>4. Old(a, n + 1)
  BY <1>2 DEF Old
<1>5. ASSUME NEW t \in Seq(Nat), Old(t, n) PROVE Old(t, n + 1) /\ (Before(t, s) => Before(t, a))
  <2>1. Old(t, n + 1)
    BY <1>5 DEF Old
  <2>2. ASSUME Before(t, s), NEW i \in 1..Len(t), NEW j \in 1..Len(a) PROVE t[i] < a[j]
    <3>1. t[i] \in 1..n
      BY <1>5 DEF Old
    <3>2. CASE j \in 1..Len(s)
      BY <3>2, <2>2, <1>1 DEF Before
    <3>3. CASE j \notin 1..Len(s)
      BY <3>1, <3>3, <1>2
    <3> QED BY <3>2, <3>3
  <2> QED BY <2>1, <2>2 DEF Before
<1> QED BY <1>3, <1>4, <1>5

LEMMA EmptyCopies == \A n : Rising(<<>>) /\ Old(<<>>, n) /\ Len(<<>>) = 0 /\ \A t : Before(t, <<>>) /\ Before(<<>>, t)
BY DEF Rising, Old, Before

---------------------------------------------------------------------------
LEMMA MemoryInitInv == MemoryInit => MemoryInv
<1> SUFFICES ASSUME MemoryInit PROVE MemoryInv
  OBVIOUS
<1>1. MemoryTypeOK
  <2>1. <<>> \in Seq(Nat) /\ Len(<<>>) = 0
    OBVIOUS
  <2> PICK e : e = <<>>
    OBVIOUS
  <2>2. /\ lines = e /\ bucket = e /\ Len(keyOf) = 0 /\ deaths = 0 /\ raced = FALSE /\ twice = FALSE
        /\ act = [p \in Writers |-> "idle"] /\ kept = [p \in Writers |-> e]
    BY <2>1 DEF MemoryInit
  <2>3. e \in Seq(Nat)
    BY <2>1
  <2>4. act \in [Writers -> {"idle", "appended", "read", "truncated", "detached"}]
    BY <2>2
  <2>5. kept \in [Writers -> Seq(Nat)]
    BY <2>2, <2>3
  <2>6. lines \in Seq(Nat) /\ bucket \in Seq(Nat)
    BY <2>2, <2>3
  <2>7. raced \in BOOLEAN /\ twice \in BOOLEAN
    BY DEF MemoryInit
  <2>8. Stored \in Nat /\ deaths \in Nat
    <3>1. Len(keyOf) = 0 /\ deaths = 0
      BY <2>2
    <3> QED BY <3>1 DEF Stored
  <2> QED BY <2>4, <2>5, <2>6, <2>7, <2>8 DEF MemoryTypeOK
<1>2. CopiesAgree
  BY EmptyCopies, MaxEntriesAssumption DEF MemoryInit, CopiesAgree
<1>3. FileIsShort
  <2>1. Pending = {}
    BY DEF MemoryInit, Pending
  <2>2. Cardinality(Pending) = 0 /\ Len(lines) = 0 /\ deaths = 0
    BY <2>1, FS_EmptySet, EmptyCopies DEF MemoryInit
  <2> QED BY <2>2, MaxEntriesAssumption DEF FileIsShort
<1>4. OneAtATime
  BY DEF MemoryInit, OneAtATime, Busy
<1> QED BY <1>1, <1>2, <1>3, <1>4 DEF MemoryInv

(* No step leaves the types.                                                 *)
LEMMA MemoryTypes ==
    ASSUME MemoryTypeOK, CopiesAgree, [MemoryStep]_memoryVars
    PROVE  MemoryTypeOK'
<1>1. CASE ClearMemory
  BY <1>1 DEF ClearMemory, MemoryTypeOK, Stored
<1>2. ASSUME NEW p \in Writers, Stores(p)
      PROVE  MemoryTypeOK'
  <2>1. PICK k \in Keys : keyOf' = Append(keyOf, k)
    BY <1>2 DEF Stores
  <2>2. /\ lines' = Append(lines, Stored + 1) /\ bucket' = Evicted(Append(bucket, Stored + 1))
        /\ act' = [act EXCEPT ![p] = "appended"] /\ raced' = (raced \/ Busy # {}) /\ kept' = kept /\ deaths' = deaths /\ twice' = twice
    BY <1>2 DEF Stores, Moves
  <2>3. Append(bucket, Stored + 1) \in Seq(Nat) /\ lines' \in Seq(Nat)
    BY <2>2 DEF MemoryTypeOK
  <2>4. bucket' \in Seq(Nat)
    <3>1. bucket' = LastOf(Append(bucket, Stored + 1), MaxEntries)
      BY <2>2 DEF Evicted, LastOf
    <3> QED BY <3>1, <2>3, LastOfSeq
  <2>5. Stored' \in Nat
    BY <2>1 DEF Stored, MemoryTypeOK
  <2> QED BY <2>2, <2>3, <2>4, <2>5 DEF MemoryTypeOK
<1>3. ASSUME NEW p \in Writers, CompactReads(p)
      PROVE  MemoryTypeOK'
  <2>1. LastOf(lines, MaxEntries) \in Seq(Nat)
    BY LastOfSeq DEF MemoryTypeOK
  <2> QED BY <1>3, <2>1 DEF CompactReads, Survivors, Moves, MemoryTypeOK, Stored
<1>4. ASSUME NEW p \in Writers, CompactTruncates(p)
      PROVE  MemoryTypeOK'
  BY <1>4 DEF CompactTruncates, Moves, MemoryTypeOK, Stored
<1>5. ASSUME NEW p \in Writers, CompactWrites(p)
      PROVE  MemoryTypeOK'
  <2>1. \A n \in 0..Len(lines) : Over(kept[p], n, lines) \in Seq(Nat)
    BY OverSeq DEF MemoryTypeOK
  <2>2. lines' \in Seq(Nat)
    BY <1>5, <2>1 DEF CompactWrites, MemoryTypeOK
  <2> QED BY <1>5, <2>2 DEF CompactWrites, Moves, MemoryTypeOK, Stored
<1>6. ASSUME NEW p \in Writers, Dies(p)
      PROVE  MemoryTypeOK'
  BY <1>6 DEF Dies, Moves, MemoryTypeOK, Stored
<1>7. CASE UNCHANGED memoryVars
  BY <1>7 DEF memoryVars, MemoryTypeOK, Stored
<1> QED BY <1>1, <1>2, <1>3, <1>4, <1>5, <1>6, <1>7 DEF MemoryStep

(* The file and the copies stay in order.                                    *)
LEMMA CopiesStep ==
    ASSUME MemoryTypeOK, MemoryTypeOK', CopiesAgree, [MemoryStep]_memoryVars
    PROVE  CopiesAgree'
<1>0. /\ lines \in Seq(Nat) /\ kept \in [Writers -> Seq(Nat)] /\ Stored \in Nat /\ MaxEntries \in Nat
      /\ act \in [Writers -> {"idle", "appended", "read", "truncated", "detached"}]
      /\ twice \in BOOLEAN /\ twice' \in BOOLEAN
  BY MaxEntriesAssumption DEF MemoryTypeOK
<1> SUFFICES ASSUME ~twice' PROVE CopiesAgree'
  BY DEF CopiesAgree
<1>w. ~twice
  BY DEF MemoryStep, memoryVars, ClearMemory, Stores, CompactReads, CompactTruncates, CompactWrites, Dies
<1>a. /\ Rising(lines) /\ Old(lines, Stored)
      /\ \A p \in Writers :
            /\ Rising(kept[p]) /\ Old(kept[p], Stored) /\ Len(kept[p]) <= MaxEntries
            /\ act[p] = "truncated" => Before(kept[p], lines) /\ \A q \in Writers : act[q] = "truncated" => q = p
  BY <1>w DEF CopiesAgree
<1>1. CASE ClearMemory
  <2>1. /\ lines' = <<>> /\ kept' = kept /\ Stored' = Stored
        /\ \A p \in Writers : act'[p] # "truncated"
    BY <1>1, <1>0 DEF ClearMemory, Stored
  <2> QED BY <2>1, <1>a, EmptyCopies DEF CopiesAgree
<1>2. ASSUME NEW p \in Writers, Stores(p)
      PROVE  CopiesAgree'
  <2>1. /\ lines' = Append(lines, Stored + 1) /\ kept' = kept
        /\ act' = [act EXCEPT ![p] = "appended"]
    BY <1>2 DEF Stores, Moves
  <2>2. Stored' = Stored + 1
    <3>1. PICK k \in Keys : keyOf' = Append(keyOf, k)
      BY <1>2 DEF Stores
    <3> QED BY <3>1, <1>0 DEF Stored
  <2>3. /\ Rising(lines') /\ Old(lines', Stored')
        /\ \A t \in Seq(Nat) : Old(t, Stored) => Old(t, Stored') /\ (Before(t, lines) => Before(t, lines'))
    BY <1>0, <1>a, <2>1, <2>2, AppendCopies
  <2>4. \A q \in Writers : act'[q] = "truncated" => act[q] = "truncated"
    BY <2>1, <1>0
  <2>5. \A q \in Writers : kept[q] \in Seq(Nat)
    BY <1>0
  <2> QED BY <2>1, <2>3, <2>4, <2>5, <1>a DEF CopiesAgree
<1>3. ASSUME NEW p \in Writers, CompactReads(p)
      PROVE  CopiesAgree'
  <2> PICK k : k = LastOf(lines, MaxEntries)
    OBVIOUS
  <2>1. /\ lines' = lines /\ kept' = [kept EXCEPT ![p] = k] /\ Stored' = Stored
        /\ act' = [act EXCEPT ![p] = "read"]
    BY <1>3 DEF CompactReads, Survivors, Moves, Stored
  <2>2. Rising(k) /\ Old(k, Stored) /\ Len(k) <= MaxEntries
    BY <1>0, <1>a, LastOfCopies
  <2>3. kept'[p] = k /\ act'[p] = "read" /\ \A q \in Writers : q # p => kept'[q] = kept[q] /\ act'[q] = act[q]
    BY <2>1, <1>0
  <2> QED BY <2>1, <2>2, <2>3, <1>a DEF CopiesAgree
<1>4. ASSUME NEW p \in Writers, CompactTruncates(p)
      PROVE  CopiesAgree'
  <2>1. /\ lines' = <<>> /\ kept' = kept /\ Stored' = Stored /\ act' = [act EXCEPT ![p] = "truncated"]
        /\ \A q \in Writers : act[q] # "truncated"
    BY <1>4 DEF CompactTruncates, Moves, Stored
  <2>2. \A q \in Writers : act'[q] = "truncated" => q = p
    BY <2>1, <1>0
  <2> QED BY <2>1, <2>2, <1>a, EmptyCopies DEF CopiesAgree
<1>5. ASSUME NEW p \in Writers, CompactWrites(p)
      PROVE  CopiesAgree'
  <2>1. /\ kept' = [kept EXCEPT ![p] = <<>>] /\ Stored' = Stored /\ act' = [act EXCEPT ![p] = "idle"]
    BY <1>5 DEF CompactWrites, Moves, Stored
  <2>2. kept'[p] = <<>> /\ act'[p] = "idle" /\ \A q \in Writers : q # p => kept'[q] = kept[q] /\ act'[q] = act[q]
    BY <2>1, <1>0
  <2>3. CASE lines' = lines
    <3>1. Rising(kept'[p]) /\ Old(kept'[p], Stored') /\ Len(kept'[p]) <= MaxEntries
      BY <2>2, EmptyCopies, <1>0
    <3> QED BY <2>1, <2>2, <2>3, <3>1, <1>a DEF CopiesAgree
  <2>4. CASE act[p] = "truncated" /\ \E n \in 0..Len(lines) : lines' = Over(kept[p], n, lines)
    <3>1. Rising(lines') /\ Old(lines', Stored)
      <4>1. PICK n \in 0..Len(lines) : lines' = Over(kept[p], n, lines)
        BY <2>4
      <4>2. kept[p] \in Seq(Nat) /\ Rising(kept[p]) /\ Old(kept[p], Stored) /\ Before(kept[p], lines)
        BY <2>4, <1>0, <1>a
      <4> QED BY <4>1, <4>2, <1>0, <1>a, OverCopies
    <3>2. Rising(kept'[p]) /\ Old(kept'[p], Stored') /\ Len(kept'[p]) <= MaxEntries
      BY <2>2, EmptyCopies, <1>0
    <3>3. \A q \in Writers : act'[q] # "truncated"
      BY <2>2, <2>4, <1>a
    <3> QED BY <2>1, <2>2, <3>1, <3>2, <3>3, <1>a DEF CopiesAgree
  <2> QED BY <1>5, <2>3, <2>4 DEF CompactWrites
<1>6. ASSUME NEW p \in Writers, Dies(p)
      PROVE  CopiesAgree'
  <2>1. kept' = [kept EXCEPT ![p] = <<>>] /\ Stored' = Stored /\ act' = [act EXCEPT ![p] = "idle"] /\ lines' = lines
    BY <1>6 DEF Dies, Moves, Stored
  <2>2. kept'[p] = <<>> /\ act'[p] = "idle" /\ \A q \in Writers : q # p => kept'[q] = kept[q] /\ act'[q] = act[q]
    BY <2>1, <1>0
  <2>3. Rising(kept'[p]) /\ Old(kept'[p], Stored') /\ Len(kept'[p]) <= MaxEntries
    BY <2>2, EmptyCopies, <1>0
  <2> QED BY <2>1, <2>2, <2>3, <1>a DEF CopiesAgree
<1>7. CASE UNCHANGED memoryVars
  BY <1>7 DEF memoryVars, CopiesAgree, Stored
<1> QED BY <1>1, <1>2, <1>3, <1>4, <1>5, <1>6, <1>7 DEF MemoryStep

(* No step lets the file grow by more than one call's entry.                 *)
LEMMA ShortStep ==
    ASSUME MemoryTypeOK, MemoryTypeOK', CopiesAgree, FileIsShort, [MemoryStep]_memoryVars
    PROVE  FileIsShort'
<1>0. /\ lines \in Seq(Nat) /\ kept \in [Writers -> Seq(Nat)] /\ MaxEntries \in Nat /\ deaths \in Nat
      /\ act \in [Writers -> {"idle", "appended", "read", "truncated", "detached"}]
      /\ act' \in [Writers -> {"idle", "appended", "read", "truncated", "detached"}]
      /\ lines' \in Seq(Nat) /\ deaths' \in Nat /\ twice \in BOOLEAN /\ twice' \in BOOLEAN
  BY MaxEntriesAssumption DEF MemoryTypeOK
<1> SUFFICES ASSUME ~twice' PROVE FileIsShort'
  BY DEF FileIsShort
<1>w. ~twice
  BY <1>0 DEF MemoryStep, memoryVars, ClearMemory, Stores, CompactReads, CompactTruncates, CompactWrites, Dies
<1>p. IsFiniteSet(Pending) /\ Cardinality(Pending) \in Nat /\ IsFiniteSet(Pending') /\ Cardinality(Pending') \in Nat
  <2>1. Pending \subseteq Writers /\ Pending' \subseteq Writers
    BY DEF Pending
  <2> QED BY <2>1, WritersAssumption, FS_Subset, FS_CardinalityType
<1>l. /\ Len(lines) \in Nat /\ Len(lines) <= MaxEntries + Cardinality(Pending) + deaths
      /\ (\E p \in Writers : act[p] = "truncated") => Len(lines) <= Cardinality(Pending) + deaths
  BY <1>0, <1>w DEF FileIsShort
<1>e. ASSUME lines' = <<>> PROVE FileIsShort'
  <2>1. Len(lines') = 0
    BY <1>e
  <2> QED BY <2>1, <1>0, <1>p DEF FileIsShort
<1>s. ASSUME Pending' = Pending, lines' = lines, deaths' = deaths,
             \A q \in Writers : act'[q] = "truncated" => act[q] = "truncated"
      PROVE  FileIsShort'
  BY <1>s, <1>l DEF FileIsShort
<1>1. CASE ClearMemory
  BY <1>1, <1>e DEF ClearMemory
<1>2. ASSUME NEW p \in Writers, Stores(p)
      PROVE  FileIsShort'
  <2>1. /\ lines' = Append(lines, Stored + 1) /\ deaths' = deaths
        /\ act[p] = "idle" /\ act' = [act EXCEPT ![p] = "appended"]
    BY <1>2 DEF Stores, Moves
  <2>2. p \notin Pending
    BY <2>1 DEF Pending
  <2>3. Pending' = Pending \cup {p}
    BY <2>1, <1>0 DEF Pending
  <2>4. Cardinality(Pending') = Cardinality(Pending) + 1
    BY <2>2, <2>3, <1>p, FS_AddElement
  <2>5. Len(lines') = Len(lines) + 1
    BY <2>1, <1>0
  <2>6. \A q \in Writers : act'[q] = "truncated" => act[q] = "truncated"
    BY <2>1, <1>0
  <2>7. Len(lines') <= MaxEntries + Cardinality(Pending') + deaths'
    BY <2>1, <2>4, <2>5, <1>0, <1>p, <1>l
  <2>8. (\E q \in Writers : act[q] = "truncated") => Len(lines') <= Cardinality(Pending') + deaths'
    BY <2>1, <2>4, <2>5, <1>0, <1>p, <1>l, SMTT(30)
  <2> QED BY <2>6, <2>7, <2>8 DEF FileIsShort
<1>3. ASSUME NEW p \in Writers, CompactReads(p)
      PROVE  FileIsShort'
  <2>1. lines' = lines /\ deaths' = deaths /\ act[p] = "appended" /\ act' = [act EXCEPT ![p] = "read"]
    BY <1>3 DEF CompactReads, Moves
  <2>2. Pending' = Pending /\ \A q \in Writers : act'[q] = "truncated" => act[q] = "truncated"
    BY <2>1, <1>0 DEF Pending
  <2> QED BY <2>1, <2>2, <1>s
<1>4. ASSUME NEW p \in Writers, CompactTruncates(p)
      PROVE  FileIsShort'
  BY <1>4, <1>e DEF CompactTruncates
<1>5. ASSUME NEW p \in Writers, CompactWrites(p)
      PROVE  FileIsShort'
  <2>1. /\ act' = [act EXCEPT ![p] = "idle"] /\ deaths' = deaths /\ act[p] \in {"truncated", "detached"}
    BY <1>5 DEF CompactWrites, Moves
  <2>2. Pending' = Pending /\ \A q \in Writers : act'[q] = "truncated" => act[q] = "truncated"
    BY <2>1, <1>0 DEF Pending
  <2>3. CASE lines' = lines
    BY <2>1, <2>2, <2>3, <1>s
  <2>4. CASE act[p] = "truncated" /\ \E n \in 0..Len(lines) : lines' = Over(kept[p], n, lines)
    <3>1. PICK n \in 0..Len(lines) : lines' = Over(kept[p], n, lines)
      BY <2>4
    <3>2. kept[p] \in Seq(Nat) /\ Len(kept[p]) <= MaxEntries
      BY <1>0, <1>w DEF CopiesAgree
    <3>3. Len(lines') = Len(kept[p]) + (Len(lines) - n)
      BY <3>1, <3>2, <1>0, OverSeq
    <3>4. Len(lines) <= Cardinality(Pending) + deaths
      BY <2>4, <1>l
    <3>5. Len(kept[p]) \in Nat /\ n \in Nat
      BY <3>2
    <3>6. Len(lines') <= MaxEntries + Cardinality(Pending) + deaths
      BY <3>2, <3>3, <3>4, <3>5, <1>0, <1>p, <1>l
    <3>7. \A q \in Writers : act'[q] # "truncated"
      BY <2>1, <2>4, <1>0, <1>w DEF CopiesAgree
    <3> QED BY <2>1, <2>2, <3>6, <3>7 DEF FileIsShort
  <2> QED BY <1>5, <2>3, <2>4 DEF CompactWrites
<1>6. ASSUME NEW p \in Writers, Dies(p)
      PROVE  FileIsShort'
  <2>1. lines' = lines /\ deaths' = deaths + 1 /\ act' = [act EXCEPT ![p] = "idle"]
    BY <1>6 DEF Dies, Moves
  <2>2. Pending' = Pending \ {p}
    BY <2>1, <1>0 DEF Pending
  <2>3. Cardinality(Pending') >= Cardinality(Pending) - 1
    BY <2>2, <1>p, FS_RemoveElement
  <2>4. \A q \in Writers : act'[q] = "truncated" => act[q] = "truncated"
    BY <2>1, <1>0
  <2>5. Cardinality(Pending) + deaths <= Cardinality(Pending') + deaths'
    BY <2>1, <2>3, <1>0, <1>p
  <2>6. Len(lines') <= MaxEntries + Cardinality(Pending') + deaths'
    BY <2>1, <2>5, <1>0, <1>p, <1>l
  <2>7. (\E q \in Writers : act[q] = "truncated") => Len(lines') <= Cardinality(Pending') + deaths'
    BY <2>1, <2>5, <1>0, <1>p, <1>l, SMTT(30)
  <2> QED BY <2>4, <2>6, <2>7 DEF FileIsShort
<1>7. CASE UNCHANGED memoryVars
  BY <1>7, <1>s DEF memoryVars, Pending
<1> QED BY <1>1, <1>2, <1>3, <1>4, <1>5, <1>6, <1>7 DEF MemoryStep

(* While one call runs at a time, each of its steps leaves the file where    *)
(* the in-memory store is.                                                   *)
LEMMA OneAtATimeStep ==
    ASSUME MemoryTypeOK, MemoryTypeOK', OneAtATime, [MemoryStep]_memoryVars
    PROVE  OneAtATime'
<1>0. /\ lines \in Seq(Nat) /\ bucket \in Seq(Nat) /\ kept \in [Writers -> Seq(Nat)] /\ raced \in BOOLEAN
      /\ act \in [Writers -> {"idle", "appended", "read", "truncated", "detached"}]
  BY DEF MemoryTypeOK
<1> SUFFICES ASSUME ~raced'
             PROVE  /\ \A p, q \in Busy' : p = q
                    /\ Busy' = {} => lines' = bucket'
                    /\ \A p \in Writers :
                          /\ act'[p] # "detached"
                          /\ act'[p] = "appended" => bucket' = LastOf(lines', MaxEntries)
                          /\ act'[p] \in {"read", "truncated"} => kept'[p] = bucket'
                          /\ act'[p] = "truncated" => lines' = <<>>
  BY DEF OneAtATime, LastOf
<1>r. raced' = raced \/ raced' = (raced \/ Busy # {}) \/ raced' = TRUE
  BY DEF MemoryStep, memoryVars, ClearMemory, Stores, CompactReads, CompactTruncates, CompactWrites, Dies
<1>a. ~raced
  BY <1>r, <1>0
<1>b. /\ \A p, q \in Busy : p = q
      /\ Busy = {} => lines = bucket
      /\ \A p \in Writers :
            /\ act[p] # "detached"
            /\ act[p] = "appended" => bucket = LastOf(lines, MaxEntries)
            /\ act[p] \in {"read", "truncated"} => kept[p] = bucket
            /\ act[p] = "truncated" => lines = <<>>
  BY <1>a DEF OneAtATime
(* The step of the only call there is.                                       *)
<1>c. ASSUME NEW p \in Writers, act[p] # "idle", NEW to, act' = [act EXCEPT ![p] = to]
      PROVE  /\ \A q \in Writers : q # p => act'[q] = "idle"
             /\ act'[p] = to
             /\ \A q, r \in Busy' : q = r
             /\ Busy' = {} <=> to = "idle"
  <2>1. \A q \in Writers : q # p => act[q] = "idle"
    BY <1>b, <1>c DEF Busy
  <2> QED BY <2>1, <1>c, <1>0 DEF Busy
<1>1. CASE ClearMemory
  <2>1. Busy = {}
    BY <1>1 DEF ClearMemory
  <2>2. \A p \in Writers : act[p] = "idle"
    BY <2>1 DEF Busy
  <2>3. \A p \in Writers : act'[p] = "idle"
    BY <1>1, <2>2 DEF ClearMemory
  <2>4. lines' = bucket'
    BY <1>1 DEF ClearMemory
  <2> QED BY <2>3, <2>4 DEF Busy
<1>2. ASSUME NEW p \in Writers, Stores(p)
      PROVE  /\ \A q, r \in Busy' : q = r
             /\ Busy' # {}
             /\ \A q \in Writers :
                  /\ act'[q] \in {"idle", "appended"}
                  /\ act'[q] = "appended" => bucket' = LastOf(lines', MaxEntries)
  <2>1. Busy = {}
    BY <1>2 DEF Stores
  <2>2. \A q \in Writers : act[q] = "idle"
    BY <2>1 DEF Busy
  <2>3. act' = [act EXCEPT ![p] = "appended"]
    BY <1>2 DEF Stores, Moves
  <2>4. act'[p] = "appended" /\ \A q \in Writers : q # p => act'[q] = "idle"
    BY <2>2, <2>3, <1>0
  <2>5. bucket' = LastOf(lines', MaxEntries)
    BY <1>2, <2>1, <1>b DEF Stores, Evicted, LastOf
  <2>6. \A q, r \in Busy' : q = r
    BY <2>4 DEF Busy
  <2> QED BY <2>4, <2>5, <2>6 DEF Busy
<1>3. ASSUME NEW p \in Writers, CompactReads(p)
      PROVE  /\ \A q, r \in Busy' : q = r
             /\ Busy' # {}
             /\ \A q \in Writers :
                  /\ act'[q] \in {"idle", "read"}
                  /\ act'[q] = "read" => kept'[q] = bucket'
  <2>1. act[p] = "appended" /\ act' = [act EXCEPT ![p] = "read"] /\ kept' = [kept EXCEPT ![p] = Survivors(lines)] /\ bucket' = bucket
    BY <1>3 DEF CompactReads, Moves
  <2>2. kept'[p] = bucket'
    <3>1. bucket = LastOf(lines, MaxEntries)
      BY <1>b, <2>1
    <3> QED BY <3>1, <2>1, <1>0 DEF Survivors
  <2>3. /\ \A q \in Writers : q # p => act'[q] = "idle"
        /\ act'[p] = "read" /\ (\A q, r \in Busy' : q = r) /\ Busy' # {}
    BY <2>1, <1>c
  <2> QED BY <2>2, <2>3
<1>4. ASSUME NEW p \in Writers, CompactTruncates(p)
      PROVE  /\ \A q, r \in Busy' : q = r
             /\ Busy' # {} /\ lines' = <<>>
             /\ \A q \in Writers :
                  /\ act'[q] \in {"idle", "truncated"}
                  /\ act'[q] = "truncated" => kept'[q] = bucket'
  <2>1. act[p] = "read" /\ act' = [act EXCEPT ![p] = "truncated"] /\ kept' = kept /\ bucket' = bucket /\ lines' = <<>>
    BY <1>4 DEF CompactTruncates, Moves
  <2>2. kept'[p] = bucket'
    BY <1>b, <2>1
  <2>3. /\ \A q \in Writers : q # p => act'[q] = "idle"
        /\ act'[p] = "truncated" /\ (\A q, r \in Busy' : q = r) /\ Busy' # {}
    BY <2>1, <1>c
  <2> QED BY <2>1, <2>2, <2>3
<1>5. ASSUME NEW p \in Writers, CompactWrites(p)
      PROVE  /\ Busy' = {} /\ lines' = bucket'
             /\ \A q \in Writers : act'[q] = "idle"
  <2>1. act[p] = "truncated"
    BY <1>5, <1>b DEF CompactWrites
  <2>2. act' = [act EXCEPT ![p] = "idle"] /\ bucket' = bucket
    BY <1>5, <2>1 DEF CompactWrites, Moves
  <2>3. kept[p] = bucket /\ lines = <<>>
    BY <1>b, <2>1
  <2>4. lines' = bucket
    <3>1. Over(bucket, 0, <<>>) = bucket
      <4>1. Len(<<>>) = 0 /\ <<>> \in Seq(Nat)
        BY <1>0
      <4>2. SubSeq(<<>>, 0 + 1, Len(<<>>)) = <<>>
        BY <4>1, SubSeqEmpty
      <4> QED BY <4>2, <1>0, ConcatEmptySeq DEF Over
    <3>2. 0..Len(<<>>) = {0}
      OBVIOUS
    <3>3. CASE kept[p] = <<>>
      BY <3>3, <1>5, <2>1, <2>3 DEF CompactWrites
    <3>4. CASE kept[p] # <<>>
      <4>1. PICK n \in 0..Len(lines) : lines' = Over(kept[p], n, lines)
        BY <3>4, <1>5, <2>1 DEF CompactWrites
      <4>2. n = 0
        BY <2>3, <3>2, <4>1
      <4> QED BY <2>3, <3>1, <4>1, <4>2
    <3> QED BY <3>3, <3>4
  <2>5. \A q \in Writers : q # p => act'[q] = "idle"
    BY <2>1, <2>2, <1>c
  <2>6. act'[p] = "idle"
    BY <2>2, <1>0
  <2>7. lines' = bucket'
    BY <2>2, <2>4
  <2> QED BY <2>5, <2>6, <2>7 DEF Busy
<1>6. \A p \in Writers : ~Dies(p)
  BY DEF Dies
<1>7. CASE UNCHANGED memoryVars
  BY <1>7, <1>b DEF memoryVars, Busy
<1>8. CASE \E p \in Writers : Stores(p)
  BY <1>8, <1>2
<1>9. CASE \E p \in Writers : CompactReads(p)
  BY <1>9, <1>3
<1>10. CASE \E p \in Writers : CompactTruncates(p)
  BY <1>10, <1>4
<1>11. CASE \E p \in Writers : CompactWrites(p)
  BY <1>11, <1>5
<1> QED BY <1>1, <1>6, <1>7, <1>8, <1>9, <1>10, <1>11 DEF MemoryStep

LEMMA MemoryInductive == MemorySpec => []MemoryInv
<1>1. MemoryInit => MemoryInv
  BY MemoryInitInv
<1>2. MemoryInv /\ [MemoryStep]_memoryVars => MemoryInv'
  <2> SUFFICES ASSUME MemoryInv, [MemoryStep]_memoryVars PROVE MemoryInv'
    OBVIOUS
  <2>1. MemoryTypeOK /\ CopiesAgree /\ FileIsShort /\ OneAtATime
    BY DEF MemoryInv
  <2>2. MemoryTypeOK'
    BY <2>1, MemoryTypes
  <2>3. CopiesAgree'
    BY <2>1, <2>2, CopiesStep
  <2>4. FileIsShort'
    BY <2>1, <2>2, ShortStep
  <2>5. OneAtATime'
    BY <2>1, <2>2, OneAtATimeStep
  <2> QED BY <2>2, <2>3, <2>4, <2>5 DEF MemoryInv
<1> QED BY <1>1, <1>2, PTL DEF MemorySpec

(* While no two calls of FileMemoryStore overlap and none dies, the file     *)
(* recalls what InMemoryMemoryStore recalls, for every number of processes,  *)
(* of entries and of max_entries: appending and compacting is evicting.      *)
THEOREM FileRecallsMemory == MemorySpec => []StoresAgree
<1>1. MemoryInv => StoresAgree
  <2> SUFFICES ASSUME MemoryInv, ~raced, Busy = {}
               PROVE  \A key \in Keys \cup {"any"}, k \in 1..MaxEntries : Recall(lines, key, k) = Recall(bucket, key, k)
    BY DEF StoresAgree
  <2>1. lines = bucket
    BY DEF MemoryInv, OneAtATime
  <2> QED BY <2>1
<1> QED BY <1>1, MemoryInductive, PTL

(* Whatever calls overlap, are cleared away or die between the reading, the  *)
(* truncation and the writing of a compaction: as long as no two of them     *)
(* have the file truncated at one time, its entries are in the order they    *)
(* were stored in, none twice, and it is over max_entries by no more than    *)
(* the calls that have yet to compact and those that died, however long      *)
(* entries are.                                                              *)
THEOREM FileStaysInOrder == MemorySpec => []LossesAreBounded
<1>1. MemoryInv => LossesAreBounded
  <2> SUFFICES ASSUME MemoryInv, ~twice
               PROVE  /\ \A i, j \in 1..Len(lines) : i < j => lines[i] < lines[j]
                      /\ Len(lines) <= MaxEntries + Cardinality(Busy) + deaths
    BY DEF LossesAreBounded
  <2>1. MemoryTypeOK /\ CopiesAgree /\ FileIsShort
    BY DEF MemoryInv
  <2>2. \A i, j \in 1..Len(lines) : i < j => lines[i] < lines[j]
    BY <2>1 DEF CopiesAgree, Rising
  <2>3. Pending \subseteq Busy /\ Busy \subseteq Writers
    BY DEF Pending, Busy
  <2>4. IsFiniteSet(Busy)
    BY <2>3, WritersAssumption, FS_Subset
  <2>5. Cardinality(Pending) <= Cardinality(Busy) /\ Cardinality(Busy) \in Nat /\ Cardinality(Pending) \in Nat
    BY <2>3, <2>4, FS_Subset, FS_CardinalityType
  <2>6. Len(lines) \in Nat /\ deaths \in Nat /\ MaxEntries \in Nat
    BY <2>1, MaxEntriesAssumption DEF MemoryTypeOK
  <2>7. Len(lines) <= MaxEntries + Cardinality(Busy) + deaths
    BY <2>1, <2>5, <2>6 DEF FileIsShort
  <2> QED BY <2>2, <2>7
<1> QED BY <1>1, MemoryInductive, PTL

---------------------------------------------------------------------------
(* The cache: as long as nobody has written beside another or under a marker *)
(* there is one writer at most, none under a marker, and each place of the   *)
(* code it has reached says what the directory holds.                        *)
Places == {"idle", "failed", "has", "resolves"} \cup Writing
Process == [pc : Places, refresh : BOOLEAN, tries : Nat, left : SUBSET Items,
            at : SUBSET (Items \X {"put", "remove"})]
CacheTypeOK ==
    /\ fetcher \in [Fetchers -> Process]
    /\ tree \in [Items -> {"absent", "part", "whole", "nested"}] /\ marker \in {"none", "empty", "sha"}
    /\ seen \in [Fetchers -> {"nothing", "content", "not_found"}] /\ overlapped \in BOOLEAN

OneWriter ==
    ~overlapped =>
        /\ \A f, g \in Writers1 : f = g
        /\ marker = "sha" => Writers1 = {} /\ \A i \in Items : tree[i] = "whole"
        /\ \A f \in Fetchers :
              /\ seen[f] # "not_found"
              /\ fetcher[f].pc = "has" => marker = "sha"
              /\ fetcher[f].pc = "moves" => \A i \in Items :
                    /\ i \notin fetcher[f].left => tree[i] = "whole"
                    /\ <<i, "put">> \in fetcher[f].at => tree[i] = "absent"
                    /\ <<i, "remove">> \in fetcher[f].at => i \in fetcher[f].left
              /\ fetcher[f].pc \in {"marks", "marking"} => \A i \in Items : tree[i] = "whole"

CacheInv == CacheTypeOK /\ OneWriter

LEMMA CacheTypes ==
    ASSUME CacheTypeOK, [CacheStep]_cacheVars
    PROVE  CacheTypeOK'
<1> USE DEF CacheTypeOK, Process, Places, Writing
<1>1. ASSUME NEW f \in Fetchers, Materialize(f) PROVE CacheTypeOK'
  <2>1. PICK r \in BOOLEAN : fetcher' = [fetcher EXCEPT ![f] = [AtRest EXCEPT !.pc = "resolves", !.refresh = r]]
    BY <1>1 DEF Materialize
  <2> PICK a : a = AtRest
    OBVIOUS
  <2>2. a \in Process
    BY DEF AtRest
  <2>3. [a EXCEPT !.pc = "resolves", !.refresh = r]
           \in Process
    BY <2>2
  <2>4. fetcher' = [fetcher EXCEPT ![f] = [a EXCEPT !.pc = "resolves", !.refresh = r]]
    BY <2>1
  <2> QED BY <1>1, <2>3, <2>4 DEF Materialize
<1>2. ASSUME NEW f \in Fetchers, TryAgain(f) PROVE CacheTypeOK'
  BY <1>2 DEF TryAgain
<1>3. ASSUME NEW f \in Fetchers, Refused(f) PROVE CacheTypeOK'
  BY <1>3 DEF Refused, Goes
<1>4. ASSUME NEW f \in Fetchers, Resolved(f) PROVE CacheTypeOK'
  <2>1. PICK to \in {"has", "clears", "downloads"} : fetcher' = [fetcher EXCEPT ![f].pc = to, ![f].tries = 0]
    BY <1>4 DEF Resolved
  <2> PICK c : c = fetcher[f]
    OBVIOUS
  <2>2. fetcher' = [fetcher EXCEPT ![f] = [c EXCEPT !.pc = to, !.tries = 0]]
    BY <2>1
  <2>3. to \in Places /\ c \in Process
    OBVIOUS
  <2>4. [c EXCEPT !.pc = to, !.tries = 0]
           \in Process
    BY <2>3
  <2>5. fetcher' \in [Fetchers -> Process]
    BY <2>2, <2>4
  <2>6. overlapped' \in BOOLEAN
    BY <1>4 DEF Resolved
  <2> QED BY <1>4, <2>5, <2>6 DEF Resolved
<1>5. ASSUME NEW f \in Fetchers, Clears(f) PROVE CacheTypeOK'
  BY <1>5 DEF Clears, Goes
<1>6. ASSUME NEW f \in Fetchers, Downloaded(f) PROVE CacheTypeOK'
  <2>1. fetcher' = [fetcher EXCEPT ![f] = [@ EXCEPT !.pc = "moves", !.left = Items, !.at = {}]]
    BY <1>6 DEF Downloaded
  <2>2. [fetcher[f] EXCEPT !.pc = "moves", !.left = Items, !.at = {}]
           \in Process
    BY ZenonT(60)
  <2> QED BY <1>6, <2>1, <2>2 DEF Downloaded
<1>7. ASSUME NEW f \in Fetchers, Marks(f) PROVE CacheTypeOK'
  BY <1>7 DEF Marks, Goes
<1>8. ASSUME NEW f \in Fetchers, Killed(f) PROVE CacheTypeOK'
  BY <1>8 DEF Killed, AtRest
<1>9. ASSUME NEW f \in Fetchers, NEW i \in Items, Looks(f, i) PROVE CacheTypeOK'
  BY <1>9 DEF Looks
<1>10. ASSUME NEW f \in Fetchers, NEW i \in Items, Removes(f, i) PROVE CacheTypeOK'
  BY <1>10 DEF Removes
<1>11. ASSUME NEW f \in Fetchers, NEW i \in Items, Puts(f, i) PROVE CacheTypeOK'
  <2> PICK c : c = fetcher[f]
    OBVIOUS
  <2>1. PICK to \in {"marks", "moves"} :
           fetcher' = [fetcher EXCEPT ![f] = [c EXCEPT !.at = {}, !.left = c.left \ {i}, !.pc = to]]
    <3>1. c.pc = "moves"
      BY <1>11 DEF Puts
    <3> QED BY <1>11, <3>1 DEF Puts
  <2>2. to \in Places /\ c \in Process
    OBVIOUS
  <2>3. [c EXCEPT !.at = {}, !.left = c.left \ {i}, !.pc = to]
           \in Process
    BY <2>2
  <2>4. fetcher' \in [Fetchers -> Process]
    BY <2>1, <2>3
  <2>5. tree' \in [Items -> {"absent", "part", "whole", "nested"}]
    BY <1>11 DEF Puts
  <2> QED BY <1>11, <2>4, <2>5 DEF Puts
<1>12. ASSUME NEW f \in Fetchers, NEW i \in Items, Fetches(f, i) PROVE CacheTypeOK'
  BY <1>12 DEF Fetches
<1>13. CASE UNCHANGED cacheVars
  BY <1>13 DEF cacheVars
<1> QED BY <1>1, <1>2, <1>3, <1>4, <1>5, <1>6, <1>7, <1>8, <1>9, <1>10, <1>11, <1>12, <1>13 DEF CacheStep

LEMMA CacheStepInv ==
    ASSUME CacheTypeOK, CacheTypeOK', OneWriter, [CacheStep]_cacheVars
    PROVE  OneWriter'
<1> SUFFICES ASSUME ~overlapped'
             PROVE  /\ \A f, g \in Writers1' : f = g
                    /\ marker' = "sha" => Writers1' = {} /\ \A i \in Items : tree'[i] = "whole"
                    /\ \A f \in Fetchers :
                          /\ seen'[f] # "not_found"
                          /\ fetcher'[f].pc = "has" => marker' = "sha"
                          /\ fetcher'[f].pc = "moves" => \A i \in Items :
                                /\ i \notin fetcher'[f].left => tree'[i] = "whole"
                                /\ <<i, "put">> \in fetcher'[f].at => tree'[i] = "absent"
                                /\ <<i, "remove">> \in fetcher'[f].at => i \in fetcher'[f].left
                          /\ fetcher'[f].pc \in {"marks", "marking"} => \A i \in Items : tree'[i] = "whole"
  BY DEF OneWriter
<1> DEFINE Fits(f) ==
       /\ seen[f] # "not_found"
       /\ fetcher[f].pc = "has" => marker = "sha"
       /\ fetcher[f].pc = "moves" => \A i \in Items :
             /\ i \notin fetcher[f].left => tree[i] = "whole"
             /\ <<i, "put">> \in fetcher[f].at => tree[i] = "absent"
             /\ <<i, "remove">> \in fetcher[f].at => i \in fetcher[f].left
       /\ fetcher[f].pc \in {"marks", "marking"} => \A i \in Items : tree[i] = "whole"
       Alone == \A f, g \in Writers1 : f = g
       Whole == marker = "sha" => Writers1 = {} /\ \A i \in Items : tree[i] = "whole"
<1> SUFFICES Alone' /\ Whole' /\ \A f \in Fetchers : Fits(f)'
  BY SMTT(30)
<1>o. ~overlapped
  BY ZenonT(60) DEF CacheStep, cacheVars, Materialize, TryAgain, Refused, Resolved, Clears, Downloaded, Marks, Killed,
         Looks, Removes, Puts, Fetches, CacheTypeOK
<1>w. Alone /\ Whole /\ \A f \in Fetchers : Fits(f)
  BY <1>o DEF OneWriter
<1>t. /\ fetcher \in [Fetchers -> [pc : Places, refresh : BOOLEAN, tries : Nat, left : SUBSET Items,
                                   at : SUBSET (Items \X {"put", "remove"})]]
      /\ tree \in [Items -> {"absent", "part", "whole", "nested"}] /\ seen \in [Fetchers -> {"nothing", "content", "not_found"}]
  BY DEF CacheTypeOK, Process
(* A step of one process that is no writer behind it and leaves the          *)
(* directory alone.                                                          *)
<1>q. ASSUME NEW f \in Fetchers, \A g \in Fetchers : g # f => fetcher'[g] = fetcher[g], tree' = tree, marker' = marker,
             fetcher'[f].pc \notin Writing, fetcher'[f].pc = "has" => marker = "sha",
             \A g \in Fetchers : seen'[g] \in {seen[g], "nothing"}
      PROVE  Alone' /\ Whole' /\ \A g \in Fetchers : Fits(g)'
  <2>1. Writers1' \subseteq Writers1
    BY <1>q DEF Writers1
  <2>2. Alone' /\ Whole'
    BY <1>w, <1>q, <2>1
  <2>3. Fits(f)'
    BY <1>w, <1>q DEF Writing
  <2>4. ASSUME NEW g \in Fetchers, g # f PROVE Fits(g)'
    BY <1>w, <1>q, <2>4
  <2> QED BY <2>2, <2>3, <2>4
(* A step of the only writer, under no marker, that remains one.             *)
<1>k. ASSUME NEW f \in Fetchers, fetcher[f].pc \in Writing, \A g \in Fetchers : g # f => fetcher'[g] = fetcher[g],
             marker' # "sha" \/ (fetcher'[f].pc \notin Writing /\ \A i \in Items : tree'[i] = "whole"), seen' = seen, Fits(f)'
      PROVE  Alone' /\ Whole' /\ \A g \in Fetchers : Fits(g)'
  <2>1. \A g \in Fetchers : g # f => fetcher[g].pc \notin Writing
    BY <1>w, <1>k DEF Writers1
  <2>2. marker # "sha"
    BY <1>w, <1>k DEF Writers1
  <2>3. Alone'
    BY <1>k, <2>1 DEF Writers1
  <2>4. Whole'
    BY <1>k, <2>1 DEF Writers1
  <2>5. ASSUME NEW g \in Fetchers, g # f PROVE Fits(g)'
    <3>1. fetcher'[g].pc \notin Writing /\ fetcher'[g].pc # "has"
      BY <1>w, <1>k, <2>1, <2>2, <2>5
    <3> QED BY <3>1, <1>w, <1>k DEF Writing
  <2> QED BY <2>3, <2>4, <2>5, <1>k
<1> DEFINE OK == Alone' /\ Whole' /\ \A f \in Fetchers : Fits(f)'
<1>1. ASSUME NEW f \in Fetchers, Materialize(f) PROVE OK
  <2>1. PICK r \in BOOLEAN : fetcher' = [fetcher EXCEPT ![f] = [AtRest EXCEPT !.pc = "resolves", !.refresh = r]]
    BY <1>1 DEF Materialize
  <2>2. fetcher'[f].pc = "resolves" /\ \A g \in Fetchers : g # f => fetcher'[g] = fetcher[g]
    BY <2>1, <1>t DEF AtRest
  <2>3. tree' = tree /\ marker' = marker /\ seen' = [seen EXCEPT ![f] = "nothing"]
    BY <1>1 DEF Materialize
  <2>4. \A g \in Fetchers : seen'[g] \in {seen[g], "nothing"}
    BY <2>3, <1>t
  <2> HIDE DEF Fits, Alone, Whole
  <2> QED BY <2>2, <2>3, <2>4, <1>q DEF Writing
<1>2. ASSUME NEW f \in Fetchers, TryAgain(f) \/ Refused(f) PROVE OK
  <2>1. /\ tree' = tree /\ marker' = marker /\ seen' = seen
        /\ fetcher[f].pc \in {"resolves", "downloads"}
        /\ \/ \E n \in Nat : fetcher' = [fetcher EXCEPT ![f].tries = n]
           \/ fetcher' = [fetcher EXCEPT ![f].pc = "failed"]
    <3>1. fetcher[f].tries + 1 \in Nat
      BY <1>t
    <3> QED BY <1>2, <3>1 DEF TryAgain, Refused, Goes
  <2>2. /\ fetcher'[f].pc = fetcher[f].pc \/ fetcher'[f].pc = "failed"
        /\ \A g \in Fetchers : g # f => fetcher'[g] = fetcher[g]
    BY <2>1, <1>t
  <2>3. CASE fetcher'[f].pc \in {"resolves", "failed"}
    <3> HIDE DEF Fits, Alone, Whole
    <3> QED BY <2>1, <2>2, <2>3, <1>q DEF Writing
  <2>4. CASE fetcher'[f].pc = "downloads"
    <3>1. fetcher[f].pc \in Writing
      BY <2>1, <2>2, <2>4 DEF Writing
    <3>2. Fits(f)'
      BY <2>1, <2>4, <1>w
    <3>3. marker' # "sha"
      BY <3>1, <2>1, <1>w DEF Writers1
    <3> HIDE DEF Fits, Alone, Whole
    <3> QED BY <2>1, <2>2, <3>1, <3>2, <3>3, <1>k
  <2> QED BY <2>1, <2>2, <2>3, <2>4
<1>3. ASSUME NEW f \in Fetchers, Resolved(f) PROVE OK
  <2>0. /\ tree' = tree /\ marker' = marker /\ seen' = seen /\ fetcher[f].pc = "resolves"
        /\ \A g \in Fetchers : g # f => fetcher'[g] = fetcher[g]
    BY <1>3, <1>t DEF Resolved
  <2>1. CASE marker = "sha" /\ ~fetcher[f].refresh
    <3>1. fetcher'[f].pc = "has"
      BY <1>3, <1>t, <2>1 DEF Resolved
    <3> HIDE DEF Fits, Alone, Whole
    <3> QED BY <2>0, <2>1, <3>1, <1>q DEF Writing
  <2>2. CASE ~(marker = "sha" /\ ~fetcher[f].refresh)
    <3>1. fetcher'[f].pc \in {"clears", "downloads"}
      BY <1>3, <1>t, <2>2 DEF Resolved
    <3>2. marker # "sha" /\ Writers1 = {}
      BY <1>3, <2>2 DEF Resolved
    <3>3. \A g \in Fetchers : g # f => fetcher'[g].pc \notin Writing
      BY <2>0, <3>2 DEF Writers1
    <3>4. Alone' /\ Whole'
      BY <3>2, <3>3, <2>0 DEF Writers1
    <3>5. Fits(f)'
      BY <1>w, <2>0, <3>1
    <3>6. \A g \in Fetchers : g # f => Fits(g)'
      BY <1>w, <2>0
    <3> QED BY <3>4, <3>5, <3>6
  <2> QED BY <2>1, <2>2
<1>4. ASSUME NEW f \in Fetchers, Clears(f) PROVE OK
  <2>1. /\ fetcher[f].pc = "clears" /\ seen' = seen /\ marker' \in {marker, "none"}
        /\ fetcher' = fetcher \/ fetcher' = [fetcher EXCEPT ![f].pc = "downloads"]
    BY <1>4 DEF Clears, Goes
  <2>2. /\ fetcher'[f].pc \in {"clears", "downloads"}
        /\ \A g \in Fetchers : g # f => fetcher'[g] = fetcher[g]
    BY <2>1, <1>t
  <2>3. marker' # "sha"
    BY <2>1, <1>w DEF Writers1, Writing
  <2>4. Fits(f)'
    BY <2>1, <2>2, <1>w
  <2>5. fetcher[f].pc \in Writing
    BY <2>1 DEF Writing
  <2> HIDE DEF Fits, Alone, Whole
  <2> QED BY <2>1, <2>2, <2>3, <2>4, <2>5, <1>k
<1>5. ASSUME NEW f \in Fetchers, Downloaded(f) PROVE OK
  <2>1. /\ fetcher[f].pc = "downloads" /\ seen' = seen /\ marker' = marker /\ tree' = tree
        /\ fetcher'[f].pc = "moves" /\ fetcher'[f].left = Items /\ fetcher'[f].at = {}
        /\ \A g \in Fetchers : g # f => fetcher'[g] = fetcher[g]
    BY <1>5, <1>t DEF Downloaded
  <2>2. marker' # "sha"
    BY <2>1, <1>w DEF Writers1, Writing
  <2>3. Fits(f)'
    BY <2>1, <1>w
  <2>4. fetcher[f].pc \in Writing
    BY <2>1 DEF Writing
  <2> HIDE DEF Fits, Alone, Whole
  <2> QED BY <2>1, <2>2, <2>3, <2>4, <1>k
<1>6. ASSUME NEW f \in Fetchers, Marks(f) PROVE OK
  <2>1. /\ fetcher[f].pc \in {"marks", "marking"} /\ seen' = seen /\ tree' = tree
        /\ marker' = (IF fetcher[f].pc = "marks" THEN "empty" ELSE "sha")
        /\ fetcher'[f].pc = (IF fetcher[f].pc = "marks" THEN "marking" ELSE "has")
        /\ \A g \in Fetchers : g # f => fetcher'[g] = fetcher[g]
    BY <1>6, <1>t DEF Marks, Goes
  <2>2. \A i \in Items : tree'[i] = "whole"
    BY <2>1, <1>w
  <2>3. Fits(f)'
    BY <2>1, <2>2, <1>w
  <2>4. fetcher[f].pc \in Writing /\ (marker' # "sha" \/ fetcher'[f].pc \notin Writing)
    BY <2>1 DEF Writing
  <2> HIDE DEF Fits, Alone, Whole
  <2> QED BY <2>1, <2>2, <2>3, <2>4, <1>k
<1>7. ASSUME NEW f \in Fetchers, Killed(f) PROVE OK
  <2>1. /\ fetcher[f].pc \in Writing /\ seen' = seen /\ marker' = marker
        /\ fetcher'[f].pc = "idle" /\ \A g \in Fetchers : g # f => fetcher'[g] = fetcher[g]
    BY <1>7, <1>t DEF Killed, AtRest
  <2>2. marker' # "sha"
    BY <2>1, <1>w DEF Writers1
  <2>3. Fits(f)'
    BY <2>1, <1>w
  <2> HIDE DEF Fits, Alone, Whole
  <2> QED BY <2>1, <2>2, <2>3, <1>k
<1>8. ASSUME NEW f \in Fetchers, NEW i \in Items, Looks(f, i) PROVE OK
  <2>1. /\ fetcher[f].pc = "moves" /\ seen' = seen /\ marker' = marker /\ tree' = tree /\ i \in fetcher[f].left
        /\ fetcher'[f].pc = "moves" /\ fetcher'[f].left = fetcher[f].left
        /\ fetcher'[f].at = {<<i, IF tree[i] = "absent" THEN "put" ELSE "remove">>}
        /\ \A g \in Fetchers : g # f => fetcher'[g] = fetcher[g]
    BY <1>8, <1>t DEF Looks
  <2>2. marker' # "sha"
    BY <2>1, <1>w DEF Writers1, Writing
  <2>3. Fits(f)'
    BY <2>1, <1>w
  <2>4. fetcher[f].pc \in Writing
    BY <2>1 DEF Writing
  <2> HIDE DEF Fits, Alone, Whole
  <2> QED BY <2>1, <2>2, <2>3, <2>4, <1>k
<1>9. ASSUME NEW f \in Fetchers, NEW i \in Items, Removes(f, i) PROVE OK
  <2>1. /\ fetcher[f].pc = "moves" /\ fetcher[f].at = {<<i, "remove">>} /\ seen' = seen /\ marker' = marker
        /\ tree' = [tree EXCEPT ![i] = "absent"]
        /\ \/ fetcher'[f].pc = "failed"
           \/ fetcher'[f].pc = "moves" /\ fetcher'[f].left = fetcher[f].left /\ fetcher'[f].at = {<<i, "put">>}
        /\ \A g \in Fetchers : g # f => fetcher'[g] = fetcher[g]
    BY <1>9, <1>t DEF Removes
  <2>2. marker' # "sha"
    BY <2>1, <1>w DEF Writers1, Writing
  <2>3. Fits(f)'
    <3>1. i \in fetcher[f].left /\ seen'[f] # "not_found"
      BY <2>1, <1>w
    <3>2. tree'[i] = "absent" /\ \A j \in Items : j # i => tree'[j] = tree[j]
      BY <2>1, <1>t
    <3>3. \A j \in Items : j \notin fetcher[f].left => tree'[j] = "whole"
      BY <3>1, <3>2, <2>1, <1>w
    <3>4. \A j \in Items : <<j, "put">> \in {<<i, "put">>} => tree'[j] = "absent"
      BY <3>2
    <3> QED BY <2>1, <3>1, <3>3, <3>4
  <2>4. fetcher[f].pc \in Writing
    BY <2>1 DEF Writing
  <2> HIDE DEF Fits, Alone, Whole
  <2> QED BY <2>1, <2>2, <2>3, <2>4, <1>k
<1>10. ASSUME NEW f \in Fetchers, NEW i \in Items, Puts(f, i) PROVE OK
  <2>1. /\ fetcher[f].pc = "moves" /\ fetcher[f].at = {<<i, "put">>} /\ seen' = seen /\ marker' = marker
        /\ tree' = [tree EXCEPT ![i] = IF @ = "absent" THEN "whole" ELSE "nested"]
        /\ fetcher'[f].pc = (IF fetcher[f].left = {i} THEN "marks" ELSE "moves")
        /\ fetcher'[f].left = fetcher[f].left \ {i} /\ fetcher'[f].at = {}
        /\ \A g \in Fetchers : g # f => fetcher'[g] = fetcher[g]
    BY <1>10, <1>t DEF Puts
  <2>2. marker' # "sha"
    BY <2>1, <1>w DEF Writers1, Writing
  <2>3. Fits(f)'
    <3>1. tree[i] = "absent" /\ seen'[f] # "not_found"
      BY <2>1, <1>w
    <3>2. tree'[i] = "whole" /\ \A j \in Items : j # i => tree'[j] = tree[j]
      BY <2>1, <3>1, <1>t
    <3>3. \A j \in Items : j \notin fetcher[f].left \ {i} => tree'[j] = "whole"
      BY <3>2, <2>1, <1>w
    <3> QED BY <2>1, <3>1, <3>3
  <2>4. fetcher[f].pc \in Writing
    BY <2>1 DEF Writing
  <2> HIDE DEF Fits, Alone, Whole
  <2> QED BY <2>1, <2>2, <2>3, <2>4, <1>k
<1>11. ASSUME NEW f \in Fetchers, NEW i \in Items, Fetches(f, i) PROVE OK
  <2>1. tree[i] = "whole"
    BY <1>11, <1>w DEF Fetches
  <2>2. fetcher' = fetcher /\ tree' = tree /\ marker' = marker /\ seen' = [seen EXCEPT ![f] = "content"]
    BY <1>11, <2>1 DEF Fetches
  <2>3. \A g \in Fetchers : seen'[g] # "not_found"
    BY <2>2, <1>w, <1>t
  <2> QED BY <2>2, <2>3, <1>w DEF Writers1
<1>12. CASE UNCHANGED cacheVars
  BY <1>12, <1>w DEF cacheVars, Writers1
<1> QED BY <1>1, <1>2, <1>3, <1>4, <1>5, <1>6, <1>7, <1>8, <1>9, <1>10, <1>11, <1>12 DEF CacheStep

(* However many processes fill one directory and die while they do, as long  *)
(* as no two write at a time and none refreshes under a marker, a marker     *)
(* that names the commit means that every name of it is there in whole, and  *)
(* no agent that was given the directory misses one.                         *)
THEOREM MarkedIsWhole == CacheSpec => []CacheIsWhole
<1>1. CacheInit => CacheInv
  <2> SUFFICES ASSUME CacheInit PROVE CacheTypeOK /\ OneWriter
    BY DEF CacheInv
  <2>1. AtRest \in Process
    BY DEF AtRest, Process, Places
  <2>2. \A f \in Fetchers : fetcher[f].pc = "idle" /\ seen[f] = "nothing"
    BY DEF CacheInit, AtRest
  <2>3. CacheTypeOK
    BY <2>1 DEF CacheInit, CacheTypeOK
  <2>4. marker = "none"
    BY DEF CacheInit
  <2>5. OneWriter
    BY <2>2, <2>4 DEF OneWriter, Writers1, Writing
  <2> QED BY <2>3, <2>5
<1>2. CacheInv /\ [CacheStep]_cacheVars => CacheInv'
  BY CacheTypes, CacheStepInv DEF CacheInv
<1>3. CacheInv => CacheIsWhole
  BY DEF CacheInv, OneWriter, CacheIsWhole
<1> QED BY <1>1, <1>2, <1>3, PTL DEF CacheSpec

---------------------------------------------------------------------------
(* The records: a file that is not mixed has one save at a time, and nothing *)
(* is written into it behind that.  Who has a file to himself has torn it by *)
(* opening it, later than whatever any reader was given.                     *)
RecordTypeOK ==
    /\ thread \in [Threads -> [pc : {"rests", "writes"}, file : Records \cup {Rests.file}, nr : Nat, since : BOOLEAN]]
    /\ record \in [Records -> [is : {"absent", "torn", "whole"}, nr : Nat]]
    /\ savedLast \in [Records -> Nat] /\ shown \in [Records -> Nat] /\ versions \in Nat /\ mixed \subseteq Records

OneSave ==
    /\ \A t \in Threads : thread[t].pc = "writes" => thread[t].file \in Records /\ thread[t].nr # 0
    /\ \A f \in Records \ mixed : \A s, t \in Threads :
          InSave(s, f) => ~thread[s].since /\ (InSave(t, f) => s = t)

NewestSeen ==
    /\ \A f \in Records : shown[f] <= versions /\ (record[f].is = "whole" => record[f].nr <= versions)
    /\ \A t \in Threads : thread[t].pc = "writes" => thread[t].nr <= versions
    /\ \A t \in Threads, f \in Records :
          InSave(t, f) /\ ~thread[t].since => record[f].is = "torn" /\ shown[f] < thread[t].nr

RecordInv == RecordTypeOK /\ OneSave /\ NewestSeen /\ RecordsAreWhole

LEMMA RecordTypes ==
    ASSUME RecordTypeOK, OneSave, [RecordStep]_recordVars
    PROVE  RecordTypeOK'
<1> DEFINE T == [pc : {"rests", "writes"}, file : Records \cup {Rests.file}, nr : Nat, since : BOOLEAN]
           R == [is : {"absent", "torn", "whole"}, nr : Nat]
<1>0. /\ thread \in [Threads -> T] /\ record \in [Records -> R]
      /\ savedLast \in [Records -> Nat] /\ shown \in [Records -> Nat] /\ versions \in Nat /\ mixed \subseteq Records
  BY DEF RecordTypeOK
<1>r. Rests \in T /\ Torn \in R
  BY DEF Rests, Torn
<1>d. ASSUME NEW t \in Threads, thread' = Rested(t)
      PROVE  thread' \in [Threads -> T]
  <2> PICK g : g = thread[t].file
    OBVIOUS
  <2>1. thread' = [o \in Threads |-> IF o = t THEN Rests ELSE IF InSave(o, g) THEN [thread[o] EXCEPT !.since = TRUE] ELSE thread[o]]
    BY <1>d DEF Rested
  <2>2. \A o \in Threads : [thread[o] EXCEPT !.since = TRUE] \in T
    BY <1>0
  <2> QED BY <2>1, <2>2, <1>r, <1>0
<1>1. ASSUME NEW t \in Threads, NEW f \in Records, SaveOpens(t, f)
      PROVE  RecordTypeOK'
  <2>1. versions' = versions + 1 /\ versions' \in Nat
    BY <1>1, <1>0 DEF SaveOpens
  <2> PICK c : c = [pc |-> "writes", file |-> f, nr |-> versions', since |-> FALSE]
    OBVIOUS
  <2>2. c \in T
    BY <2>1
  <2>3. thread' \in [Threads -> T]
    BY <1>1, <1>0, <2>2 DEF SaveOpens
  <2>4. record' \in [Records -> R]
    BY <1>1, <1>0, <1>r DEF SaveOpens
  <2>5. savedLast' = savedLast /\ shown' = shown /\ mixed' \subseteq Records
    BY <1>1, <1>0 DEF SaveOpens
  <2> QED BY <2>1, <2>3, <2>4, <2>5, <1>0 DEF RecordTypeOK
<1>2. ASSUME NEW t \in Threads, SaveWrites1(t)
      PROVE  RecordTypeOK'
  <2> PICK f : f = thread[t].file
    OBVIOUS
  <2>1. f \in Records /\ thread[t].nr \in Nat
    BY <1>2, <1>0 DEF SaveWrites1, OneSave
  <2>2. record' \in [Records -> R]
    <3>1. PICK r \in {[is |-> "whole", nr |-> thread[t].nr], Torn} : record' = [record EXCEPT ![f] = r]
      BY <1>2 DEF SaveWrites1
    <3>2. r \in R
      BY <2>1, <1>r
    <3> QED BY <3>1, <3>2, <1>0
  <2>3. thread' = Rested(t)
    BY <1>2 DEF SaveWrites1
  <2>4. savedLast' = [savedLast EXCEPT ![f] = thread[t].nr] /\ versions' = versions /\ shown' = shown
    BY <1>2 DEF SaveWrites1
  <2>5. savedLast' \in [Records -> Nat]
    BY <2>4, <2>1, <1>0
  <2>6. mixed' \subseteq Records
    BY <1>2, <1>0 DEF SaveWrites1
  <2> QED BY <2>2, <2>3, <2>4, <2>5, <2>6, <1>0, <1>d DEF RecordTypeOK
<1>3. ASSUME NEW t \in Threads, SaveFails(t)
      PROVE  RecordTypeOK'
  <2> PICK f : f = thread[t].file
    OBVIOUS
  <2>1. f \in Records
    BY <1>3, <1>0 DEF SaveFails, OneSave
  <2>2. record' \in [Records -> R]
    <3>1. PICK r \in {Torn, record[f]} : record' = [record EXCEPT ![f] = r]
      BY <1>3 DEF SaveFails
    <3>2. r \in R
      BY <2>1, <1>r, <1>0
    <3> QED BY <3>1, <3>2, <1>0
  <2>3. thread' = Rested(t) /\ savedLast' = savedLast /\ versions' = versions /\ shown' = shown /\ mixed' = mixed \cup {f}
    BY <1>3 DEF SaveFails
  <2> QED BY <2>1, <2>2, <2>3, <1>0, <1>d DEF RecordTypeOK
<1>4. ASSUME NEW t \in Threads, NEW f \in Records, NEW raises \in BOOLEAN, Load(t, f, raises)
      PROVE  RecordTypeOK'
  <2>1. record' = record /\ thread' = thread /\ versions' = versions /\ mixed' = mixed /\ savedLast' = savedLast
    BY <1>4 DEF Load
  <2>2. shown' = shown \/ shown' = [shown EXCEPT ![f] = record[f].nr]
    BY <1>4 DEF Load
  <2>3. shown' \in [Records -> Nat]
    BY <2>2, <1>0
  <2> QED BY <2>1, <2>3, <1>0 DEF RecordTypeOK
<1>5. CASE ProcessDies
  <2>1. thread' \in [Threads -> T]
    BY <1>5, <1>r DEF ProcessDies
  <2>2. record' = record /\ versions' = versions /\ savedLast' = savedLast /\ shown' = shown /\ mixed' \subseteq Records
    BY <1>5, <1>0 DEF ProcessDies
  <2> QED BY <2>1, <2>2, <1>0 DEF RecordTypeOK
<1>6. CASE UNCHANGED recordVars
  BY <1>6, <1>0 DEF recordVars, RecordTypeOK
<1> QED BY <1>1, <1>2, <1>3, <1>4, <1>5, <1>6 DEF RecordStep

LEMMA RecordStepInv ==
    ASSUME RecordInv, [RecordStep]_recordVars
    PROVE  OneSave' /\ NewestSeen' /\ RecordsAreWhole'
<1>0. /\ thread \in [Threads -> [pc : {"rests", "writes"}, file : Records \cup {Rests.file}, nr : Nat, since : BOOLEAN]]
      /\ record \in [Records -> [is : {"absent", "torn", "whole"}, nr : Nat]]
      /\ savedLast \in [Records -> Nat] /\ shown \in [Records -> Nat] /\ versions \in Nat /\ mixed \subseteq Records
      /\ OneSave /\ NewestSeen /\ RecordsAreWhole
  BY DEF RecordInv, RecordTypeOK
<1> DEFINE Saved(f) == IF savedLast[f] = 0 THEN NoRecord ELSE [is |-> "whole", nr |-> savedLast[f]]
(* What a thread that is done with its file leaves of the others.            *)
<1>d. ASSUME NEW t \in Threads, NEW f, f = thread[t].file, thread' = Rested(t)
      PROVE  /\ \A o \in Threads : thread'[o].pc = "writes" =>
                   o # t /\ thread[o].pc = "writes" /\ thread'[o].file = thread[o].file /\ thread'[o].nr = thread[o].nr
             /\ \A o \in Threads, g \in Records : InSave(o, g)' <=> o # t /\ InSave(o, g)
             /\ \A o \in Threads, g \in Records : InSave(o, g)' => thread'[o].since = (thread[o].since \/ g = f)
  <2>1. thread' = [o \in Threads |-> IF o = t THEN Rests ELSE IF InSave(o, f) THEN [thread[o] EXCEPT !.since = TRUE] ELSE thread[o]]
    BY <1>d DEF Rested
  <2>2. /\ thread'[t].pc = "rests"
        /\ \A o \in Threads : o # t => /\ thread'[o].pc = thread[o].pc /\ thread'[o].file = thread[o].file
                                       /\ thread'[o].nr = thread[o].nr
                                       /\ thread'[o].since = IF InSave(o, f) THEN TRUE ELSE thread[o].since
    BY <2>1, <1>0 DEF Rests
  <2>3. \A o \in Threads, g \in Records : InSave(o, g)' <=> o # t /\ InSave(o, g)
    BY <2>2 DEF InSave
  <2>4. ASSUME NEW o \in Threads, NEW g \in Records, InSave(o, g)'
        PROVE  thread'[o].since = (thread[o].since \/ g = f)
    <3>1. o # t /\ InSave(o, g) /\ thread[o].since \in BOOLEAN
      BY <2>3, <2>4, <1>0
    <3>2. InSave(o, f) <=> g = f
      BY <3>1 DEF InSave
    <3> QED BY <3>1, <3>2, <2>2
  <2> QED BY <2>2, <2>3, <2>4
<1>1. ASSUME NEW t \in Threads, NEW f \in Records, SaveOpens(t, f)
      PROVE  OneSave' /\ NewestSeen' /\ RecordsAreWhole'
  <2>1. /\ thread[t].pc = "rests" /\ versions' = versions + 1 /\ savedLast' = savedLast /\ shown' = shown /\ result' = result
        /\ thread' = [thread EXCEPT ![t] = [pc |-> "writes", file |-> f, nr |-> versions', since |-> FALSE]]
        /\ record' = [record EXCEPT ![f] = Torn]
        /\ mixed' = IF \E o \in Threads : InSave(o, f) THEN mixed \cup {f} ELSE mixed
    BY <1>1 DEF SaveOpens
  <2>2. /\ thread'[t].pc = "writes" /\ thread'[t].file = f /\ thread'[t].nr = versions + 1 /\ thread'[t].since = FALSE
        /\ \A o \in Threads : o # t => thread'[o] = thread[o]
    BY <2>1, <1>0
  <2>3. \A g \in Records : ~InSave(t, g)
    BY <2>1 DEF InSave
  <2>4. \A o \in Threads, g \in Records : InSave(o, g)' <=> IF o = t THEN g = f ELSE InSave(o, g)
    BY <2>2 DEF InSave
  <2>5. \A o \in Threads : thread'[o].pc = "writes" => thread'[o].file \in Records /\ thread'[o].nr # 0
    BY <2>2, <1>0 DEF OneSave
  <2>r. record'[f] = Torn /\ \A g \in Records : g # f => record'[g] = record[g]
    BY <2>1, <1>0
  <2>6. ASSUME NEW g \in Records, g \notin mixed', NEW o \in Threads, NEW p \in Threads, InSave(o, g)'
        PROVE  ~thread'[o].since /\ (InSave(p, g)' => o = p)
    <3>1. g \notin mixed
      BY <2>1, <2>6
    <3>2. CASE g = f
      <4>1. \A q \in Threads : ~InSave(q, f)
        BY <2>1, <2>6, <3>2
      <4>2. o = t /\ (InSave(p, g)' => p = t)
        BY <4>1, <2>4, <2>6, <3>2
      <4> QED BY <4>2, <2>2
    <3>3. CASE g # f
      <4>1. o # t /\ InSave(o, g) /\ (InSave(p, g)' => InSave(p, g))
        BY <2>4, <2>6, <3>3
      <4>2. ~thread[o].since /\ (InSave(p, g) => o = p)
        BY <4>1, <3>1, <1>0 DEF OneSave
      <4> QED BY <4>1, <4>2, <2>2
    <3> QED BY <3>2, <3>3
  <2>7. ASSUME NEW g \in Records, Settled(g)'
        PROVE  record'[g] = Saved(g)' /\ shown'[g] <= savedLast'[g]
    <3>0. g \notin mixed' /\ \A o \in Threads : ~InSave(o, g)'
      BY <2>7 DEF Settled
    <3>1. g # f
      BY <2>4, <3>0
    <3>2. Settled(g)
      BY <2>1, <2>3, <2>4, <3>0 DEF Settled
    <3>3. record[g] = Saved(g) /\ shown[g] <= savedLast[g]
      BY <1>0, <3>2 DEF RecordsAreWhole
    <3> QED BY <3>3, <3>1, <2>1, <2>r
  <2>8. OneSave'
    BY <2>5, <2>6 DEF OneSave
  <2>9. RecordsAreWhole'
    BY <2>7, <2>1, <1>0 DEF RecordsAreWhole
  <2>10. NewestSeen'
    <3>1. ASSUME NEW g \in Records PROVE shown'[g] <= versions' /\ (record'[g].is = "whole" => record'[g].nr <= versions')
      <4>1. shown[g] <= versions /\ (record[g].is = "whole" => record[g].nr <= versions) /\ shown[g] \in Nat /\ record[g].nr \in Nat
        BY <1>0 DEF NewestSeen
      <4>2. CASE g = f
        BY <4>1, <4>2, <2>1, <2>r, <1>0 DEF Torn
      <4>3. CASE g # f
        BY <4>1, <4>3, <2>1, <2>r, <1>0
      <4> QED BY <4>2, <4>3
    <3>2. ASSUME NEW o \in Threads, thread'[o].pc = "writes" PROVE thread'[o].nr <= versions'
      <4>1. CASE o = t
        BY <4>1, <2>1, <2>2, <1>0
      <4>2. CASE o # t
        <5>1. thread[o].nr <= versions /\ thread[o].nr \in Nat /\ thread'[o] = thread[o]
          BY <4>2, <3>2, <2>2, <1>0 DEF NewestSeen
        <5> QED BY <5>1, <2>1, <1>0
      <4> QED BY <4>1, <4>2
    <3>3. ASSUME NEW o \in Threads, NEW g \in Records, InSave(o, g)', ~thread'[o].since
          PROVE  record'[g].is = "torn" /\ shown'[g] < thread'[o].nr
      <4>1. CASE o = t
        <5>1. g = f /\ shown[f] <= versions /\ shown[f] \in Nat /\ thread'[o].nr = versions + 1
          BY <4>1, <3>3, <2>4, <2>2, <1>0 DEF NewestSeen
        <5> QED BY <5>1, <2>r, <2>1, <1>0 DEF Torn
      <4>2. CASE o # t
        <5>1. InSave(o, g) /\ thread'[o] = thread[o]
          BY <4>2, <3>3, <2>4, <2>2
        <5>2. record[g].is = "torn" /\ shown[g] < thread[o].nr
          BY <5>1, <3>3, <1>0 DEF NewestSeen
        <5> QED BY <5>1, <5>2, <2>r, <2>1 DEF Torn
      <4> QED BY <4>1, <4>2
    <3> QED BY <3>1, <3>2, <3>3 DEF NewestSeen
  <2> QED BY <2>8, <2>9, <2>10
<1>2. ASSUME NEW t \in Threads, SaveWrites1(t)
      PROVE  OneSave' /\ NewestSeen' /\ RecordsAreWhole'
  <2> PICK f : f = thread[t].file
    OBVIOUS
  <2> PICK n : n = thread[t].nr
    OBVIOUS
  <2>0. InSave(t, f) /\ f \in Records /\ n \in Nat /\ n # 0 /\ n <= versions
    BY <1>2, <1>0 DEF SaveWrites1, InSave, OneSave, NewestSeen
  <2>1. /\ thread' = Rested(t) /\ savedLast' = [savedLast EXCEPT ![f] = n] /\ shown' = shown
        /\ versions' = versions /\ result' = result
        /\ \E r \in {[is |-> "whole", nr |-> n]} \cup (IF thread[t].since THEN {Torn} ELSE {}) :
              record' = [record EXCEPT ![f] = r]
        /\ mixed' = IF ~thread[t].since /\ \A o \in Threads : InSave(o, f) => o = t THEN mixed \ {f} ELSE mixed
    BY <1>2 DEF SaveWrites1
  <2>2. /\ \A o \in Threads : thread'[o].pc = "writes" =>
              o # t /\ thread[o].pc = "writes" /\ thread'[o].file = thread[o].file /\ thread'[o].nr = thread[o].nr
        /\ \A o \in Threads, g \in Records : InSave(o, g)' <=> o # t /\ InSave(o, g)
        /\ \A o \in Threads, g \in Records : InSave(o, g)' => thread'[o].since = (thread[o].since \/ g = f)
    BY <2>1, <1>d
  <2>r. /\ \A g \in Records : g # f => record'[g] = record[g] /\ savedLast'[g] = savedLast[g]
        /\ record'[f] = Torn \/ record'[f] = [is |-> "whole", nr |-> n]
        /\ ~thread[t].since => record'[f] = [is |-> "whole", nr |-> n]
        /\ savedLast'[f] = n
    BY <2>0, <2>1, <1>0
  <2>4. \A o \in Threads : thread'[o].pc = "writes" => thread'[o].file \in Records /\ thread'[o].nr # 0
    BY <2>2, <1>0 DEF OneSave
  <2>5. ASSUME NEW g \in Records, g \notin mixed', NEW o \in Threads, NEW p \in Threads, InSave(o, g)'
        PROVE  ~thread'[o].since /\ (InSave(p, g)' => o = p)
    <3>1. o # t /\ InSave(o, g) /\ (InSave(p, g)' => InSave(p, g))
      BY <2>2, <2>5
    <3>2. g \notin mixed
      BY <3>1, <2>1, <2>5
    <3>3. ~thread[o].since /\ \A q \in Threads : InSave(q, g) => o = q
      BY <3>1, <3>2, <1>0 DEF OneSave
    <3>4. g # f
      BY <3>1, <3>3, <2>0
    <3> QED BY <3>1, <3>3, <3>4, <2>2, <2>5
  <2>6. ASSUME NEW g \in Records, Settled(g)'
        PROVE  record'[g] = Saved(g)' /\ shown'[g] <= savedLast'[g]
    <3>0. g \notin mixed' /\ \A o \in Threads : ~InSave(o, g)'
      BY <2>6 DEF Settled
    <3>1. CASE g = f
      <4>1. ~thread[t].since
        <5>1. CASE f \in mixed
          BY <5>1, <3>0, <3>1, <2>1
        <5>2. CASE f \notin mixed
          BY <5>2, <2>0, <1>0 DEF OneSave
        <5> QED BY <5>1, <5>2
      <4>2. shown[f] < n /\ shown[f] \in Nat
        BY <4>1, <2>0, <1>0 DEF NewestSeen
      <4>3. record'[f] = [is |-> "whole", nr |-> n] /\ savedLast'[f] = n /\ shown'[f] = shown[f]
        BY <4>1, <2>r, <2>1
      <4> QED BY <4>2, <4>3, <3>1, <2>0
    <3>2. CASE g # f
      <4>1. \A o \in Threads : ~InSave(o, g)
        <5>1. ~InSave(t, g)
          BY <2>0, <3>2 DEF InSave
        <5> QED BY <5>1, <2>2, <3>0
      <4>2. Settled(g)
        BY <4>1, <3>0, <3>2, <2>1 DEF Settled
      <4>3. record[g] = Saved(g) /\ shown[g] <= savedLast[g]
        BY <4>2, <1>0 DEF RecordsAreWhole
      <4> QED BY <4>3, <3>2, <2>r, <2>1
    <3> QED BY <3>1, <3>2
  <2>7. OneSave'
    BY <2>4, <2>5 DEF OneSave
  <2>8. RecordsAreWhole'
    BY <2>6, <2>1, <1>0 DEF RecordsAreWhole
  <2>9. NewestSeen'
    <3>1. ASSUME NEW g \in Records PROVE shown'[g] <= versions' /\ (record'[g].is = "whole" => record'[g].nr <= versions')
      <4>1. shown[g] <= versions /\ (record[g].is = "whole" => record[g].nr <= versions)
        BY <1>0 DEF NewestSeen
      <4>2. CASE g = f
        BY <4>1, <4>2, <2>0, <2>1, <2>r DEF Torn
      <4>3. CASE g # f
        BY <4>1, <4>3, <2>1, <2>r
      <4> QED BY <4>2, <4>3
    <3>2. \A o \in Threads : thread'[o].pc = "writes" => thread'[o].nr <= versions'
      BY <2>2, <2>1, <1>0 DEF NewestSeen
    <3>3. ASSUME NEW o \in Threads, NEW g \in Records, InSave(o, g)', ~thread'[o].since
          PROVE  record'[g].is = "torn" /\ shown'[g] < thread'[o].nr
      <4>1. InSave(o, g) /\ ~thread[o].since /\ g # f
        BY <3>3, <2>2
      <4>2. thread'[o].nr = thread[o].nr
        BY <3>3, <2>2 DEF InSave
      <4>3. record[g].is = "torn" /\ shown[g] < thread[o].nr
        BY <4>1, <1>0 DEF NewestSeen
      <4> QED BY <4>1, <4>2, <4>3, <2>1, <2>r
    <3> QED BY <3>1, <3>2, <3>3 DEF NewestSeen
  <2> QED BY <2>7, <2>8, <2>9
<1>3. ASSUME NEW t \in Threads, SaveFails(t)
      PROVE  OneSave' /\ NewestSeen' /\ RecordsAreWhole'
  <2> PICK f : f = thread[t].file
    OBVIOUS
  <2>0. InSave(t, f) /\ f \in Records
    BY <1>3, <1>0 DEF SaveFails, InSave, OneSave
  <2>1. /\ thread' = Rested(t) /\ savedLast' = savedLast /\ shown' = shown /\ versions' = versions /\ result' = result
        /\ record' = [record EXCEPT ![f] = Torn] \/ record' = [record EXCEPT ![f] = record[f]]
        /\ mixed' = mixed \cup {f}
    BY <1>3 DEF SaveFails
  <2>2. /\ \A o \in Threads : thread'[o].pc = "writes" =>
              o # t /\ thread[o].pc = "writes" /\ thread'[o].file = thread[o].file /\ thread'[o].nr = thread[o].nr
        /\ \A o \in Threads, g \in Records : InSave(o, g)' <=> o # t /\ InSave(o, g)
        /\ \A o \in Threads, g \in Records : InSave(o, g)' => thread'[o].since = (thread[o].since \/ g = f)
    BY <2>1, <1>d
  <2>r. /\ \A g \in Records : g # f => record'[g] = record[g]
        /\ record'[f] = Torn \/ record'[f] = record[f]
    BY <2>0, <2>1, <1>0
  <2>4. \A o \in Threads : thread'[o].pc = "writes" => thread'[o].file \in Records /\ thread'[o].nr # 0
    BY <2>2, <1>0 DEF OneSave
  <2>5. ASSUME NEW g \in Records, g \notin mixed', NEW o \in Threads, NEW p \in Threads, InSave(o, g)'
        PROVE  ~thread'[o].since /\ (InSave(p, g)' => o = p)
    <3>1. o # t /\ InSave(o, g) /\ (InSave(p, g)' => InSave(p, g)) /\ g \notin mixed /\ g # f
      BY <2>1, <2>2, <2>5
    <3>2. ~thread[o].since /\ \A q \in Threads : InSave(q, g) => o = q
      BY <3>1, <1>0 DEF OneSave
    <3> QED BY <3>1, <3>2, <2>2, <2>5
  <2>6. ASSUME NEW g \in Records, Settled(g)'
        PROVE  record'[g] = Saved(g)' /\ shown'[g] <= savedLast'[g]
    <3>1. g # f /\ g \notin mixed /\ \A o \in Threads : ~InSave(o, g)'
      BY <2>6, <2>1 DEF Settled
    <3>2. ~InSave(t, g)
      BY <2>0, <3>1 DEF InSave
    <3>3. Settled(g)
      BY <3>1, <3>2, <2>2 DEF Settled
    <3>4. record[g] = Saved(g) /\ shown[g] <= savedLast[g]
      BY <3>3, <1>0 DEF RecordsAreWhole
    <3> QED BY <3>1, <3>4, <2>r, <2>1
  <2>7. OneSave'
    BY <2>4, <2>5 DEF OneSave
  <2>8. RecordsAreWhole'
    BY <2>6, <2>1, <1>0 DEF RecordsAreWhole
  <2>9. NewestSeen'
    <3>1. ASSUME NEW g \in Records PROVE shown'[g] <= versions' /\ (record'[g].is = "whole" => record'[g].nr <= versions')
      <4>1. shown[g] <= versions /\ (record[g].is = "whole" => record[g].nr <= versions)
        BY <1>0 DEF NewestSeen
      <4> QED BY <4>1, <2>1, <2>r DEF Torn
    <3>2. \A o \in Threads : thread'[o].pc = "writes" => thread'[o].nr <= versions'
      BY <2>2, <2>1, <1>0 DEF NewestSeen
    <3>3. ASSUME NEW o \in Threads, NEW g \in Records, InSave(o, g)', ~thread'[o].since
          PROVE  record'[g].is = "torn" /\ shown'[g] < thread'[o].nr
      <4>1. InSave(o, g) /\ ~thread[o].since /\ g # f
        BY <3>3, <2>2
      <4>2. thread'[o].nr = thread[o].nr
        BY <3>3, <2>2 DEF InSave
      <4>3. record[g].is = "torn" /\ shown[g] < thread[o].nr
        BY <4>1, <1>0 DEF NewestSeen
      <4> QED BY <4>1, <4>2, <4>3, <2>1, <2>r
    <3> QED BY <3>1, <3>2, <3>3 DEF NewestSeen
  <2> QED BY <2>7, <2>8, <2>9
<1>4. ASSUME NEW t \in Threads, NEW f \in Records, NEW raises \in BOOLEAN, Load(t, f, raises)
      PROVE  OneSave' /\ NewestSeen' /\ RecordsAreWhole'
  <2>1. /\ record' = record /\ thread' = thread /\ versions' = versions /\ mixed' = mixed /\ savedLast' = savedLast
        /\ result' = [got |-> Answer1(f, raises), calm |-> f \in Shelved /\ savedLast[f] # 0 /\ Settled(f)]
        /\ shown' = IF result'.got = "found" /\ shown[f] < record[f].nr THEN [shown EXCEPT ![f] = record[f].nr] ELSE shown
    BY <1>4 DEF Load
  <2>2. result'.got = Answer1(f, raises) /\ (result'.calm <=> f \in Shelved /\ savedLast[f] # 0 /\ Settled(f))
    BY <2>1
  <2>3. result'.got = "found" => record[f].is = "whole"
    BY <2>2, <1>0 DEF Answer1
  <2>4. \A g \in Records : shown'[g] = shown[g] \/ (g = f /\ record[f].is = "whole" /\ shown'[f] = record[f].nr)
    BY <2>1, <2>3, <1>0
  <2>5. \A o \in Threads, g \in Records : InSave(o, g)' <=> InSave(o, g)
    BY <2>1 DEF InSave
  <2>6. \A g \in Records : Settled(g)' <=> Settled(g)
    BY <2>1, <2>5 DEF Settled
  <2>7. OneSave'
    BY <2>1, <2>5, <1>0 DEF OneSave
  <2>8. RecordsAreWhole'
    <3>1. ASSUME NEW g \in Records, Settled(g)' PROVE record'[g] = Saved(g)' /\ shown'[g] <= savedLast'[g]
      <4>1. record[g] = Saved(g) /\ shown[g] <= savedLast[g] /\ savedLast[g] \in Nat
        BY <3>1, <2>6, <1>0 DEF RecordsAreWhole
      <4>2. record[g].is = "whole" => record[g].nr = savedLast[g]
        BY <4>1 DEF NoRecord
      <4> QED BY <4>1, <4>2, <2>1, <2>4
    <3>2. result'.calm => result'.got = "found"
      <4>1. ASSUME f \in Shelved, savedLast[f] # 0, Settled(f) PROVE Answer1(f, raises) = "found"
        <5>1. record[f].is = "whole"
          BY <4>1, <1>0 DEF RecordsAreWhole
        <5> QED BY <5>1, <4>1 DEF Answer1
      <4> QED BY <4>1, <2>2
    <3> QED BY <3>1, <3>2 DEF RecordsAreWhole
  <2>9. NewestSeen'
    <3>1. ASSUME NEW g \in Records PROVE shown'[g] <= versions' /\ (record'[g].is = "whole" => record'[g].nr <= versions')
      BY <2>1, <2>4, <1>0 DEF NewestSeen
    <3>2. \A o \in Threads : thread'[o].pc = "writes" => thread'[o].nr <= versions'
      BY <2>1, <1>0 DEF NewestSeen
    <3>3. ASSUME NEW o \in Threads, NEW g \in Records, InSave(o, g)', ~thread'[o].since
          PROVE  record'[g].is = "torn" /\ shown'[g] < thread'[o].nr
      <4>1. record[g].is = "torn" /\ shown[g] < thread[o].nr
        BY <3>3, <2>1, <2>5, <1>0 DEF NewestSeen
      <4>2. shown'[g] = shown[g]
        BY <4>1, <2>4
      <4> QED BY <4>1, <4>2, <2>1
    <3> QED BY <3>1, <3>2, <3>3 DEF NewestSeen
  <2> QED BY <2>7, <2>8, <2>9
<1>5. CASE ProcessDies
  <2>1. /\ mixed' = mixed \cup {f \in Records : \E t \in Threads : InSave(t, f)}
        /\ thread' = [t \in Threads |-> Rests] /\ record' = record /\ savedLast' = savedLast
        /\ shown' = shown /\ versions' = versions /\ result' = NoResult
    BY <1>5 DEF ProcessDies
  <2>2. \A t \in Threads : thread'[t].pc = "rests"
    BY <2>1 DEF Rests
  <2>3. OneSave'
    BY <2>2 DEF OneSave, InSave
  <2>4. ASSUME NEW f \in Records, Settled(f)' PROVE record'[f] = Saved(f)' /\ shown'[f] <= savedLast'[f]
    <3>1. Settled(f)
      BY <2>1, <2>4 DEF Settled
    <3>2. record[f] = Saved(f) /\ shown[f] <= savedLast[f]
      BY <3>1, <1>0 DEF RecordsAreWhole
    <3> QED BY <3>2, <2>1
  <2>5. RecordsAreWhole'
    BY <2>1, <2>4 DEF RecordsAreWhole, NoResult
  <2>6. NewestSeen'
    BY <2>1, <2>2, <1>0 DEF NewestSeen, InSave
  <2> QED BY <2>3, <2>5, <2>6
<1>6. CASE UNCHANGED recordVars
  BY <1>6, <1>0 DEF recordVars, OneSave, NewestSeen, RecordsAreWhole, Settled, InSave
<1> QED BY <1>1, <1>2, <1>3, <1>4, <1>5, <1>6 DEF RecordStep

(* The directories.  Two that hold one file are nested; below no base        *)
(* directory they are one and the same.                                      *)
LEMMA HoldersNest ==
    ASSUME NEW d \in Seq(PathParts), NEW e \in Seq(PathParts), NEW p, Inside(d, p), Inside(e, p)
    PROVE  Nested(d, e)
<1>1. Len(d) \in Nat /\ Len(e) \in Nat
  BY LenProperties
<1>2. CASE Len(d) <= Len(e)
  <2>1. \A i \in 1..Len(d) : i \in 1..Len(e)
    BY <1>1, <1>2
  <2> QED BY <2>1, <1>2 DEF Inside, Nested
<1>3. CASE Len(e) <= Len(d)
  <2>1. \A i \in 1..Len(e) : i \in 1..Len(d)
    BY <1>1, <1>3
  <2> QED BY <2>1, <1>3 DEF Inside, Nested
<1> QED BY <1>1, <1>2, <1>3

LEMMA HoldsItself ==
    ASSUME NEW d \in Seq(PathParts)
    PROVE  Inside(d, d) /\ Inside(d, OwnFile(d))
<1>1. Len(d) \in Nat
  BY LenProperties
<1>2. "file" \in PathParts
  BY DEF PathParts
<1>3. Len(OwnFile(d)) = Len(d) + 1 /\ \A i \in 1..Len(d) : OwnFile(d)[i] = d[i]
  BY <1>2, AppendProperties DEF OwnFile
<1> QED BY <1>1, <1>3 DEF Inside

LEMMA TemporariesApart ==
    ASSUME NEW m, NEW n, NEW p, Inside(<<"temporary", m>>, p), Inside(<<"temporary", n>>, p)
    PROVE  m = n
<1>1. Len(<<"temporary", m>>) = 2 /\ Len(<<"temporary", n>>) = 2
  OBVIOUS
<1>2. <<"temporary", m>>[2] = m /\ <<"temporary", n>>[2] = n
  OBVIOUS
<1>3. 2 \in 1..2
  OBVIOUS
<1>4. <<"temporary", m>>[2] = p[2] /\ <<"temporary", n>>[2] = p[2]
  BY <1>1, <1>3 DEF Inside
<1> QED BY <1>2, <1>4

(* Where the worktree of a number is, and that numbers are given once.       *)
Home(r, n) == IF based THEN DirOf[r] ELSE <<"temporary", n>>

TreeTypeOK ==
    /\ based \in BOOLEAN /\ made \in Nat /\ wrote \subseteq 1..made
    /\ \A a \in active : a.run \in RunIds /\ a.nr \in 1..made /\ a.at = Home(a.run, a.nr)
    /\ \A f \in files : f.run \in RunIds /\ f.nr \in 1..made /\ f.home = Home(f.run, f.nr)

OneRun ==
    \A a, b \in active : a # b => a.nr # b.nr /\ (a.at = b.at => a.at \in reused)

TakenOver ==
    \A a \in active, f \in files :
        Inside(f.home, f.at) /\ f.home = a.at /\ f.nr # a.nr => a.at \in reused

TreeInv == TreeTypeOK /\ OneRun /\ TakenOver /\ FilesAreKept /\ NothingIsForgotten

LEMMA HomeIsPath ==
    ASSUME based \in BOOLEAN, NEW r \in RunIds, NEW n \in Nat
    PROVE  Home(r, n) \in Seq(PathParts)
<1>1. CASE based
  BY <1>1, RunFilesAssumption DEF Home
<1>2. CASE ~based
  <2>1. "temporary" \in PathParts /\ n \in PathParts
    BY DEF PathParts
  <2>2. <<"temporary", n>> \in Seq(PathParts)
    BY <2>1
  <2> QED BY <1>2, <2>2 DEF Home
<1> QED BY <1>1, <1>2

(* A path that two worktrees hold makes neither of them unshared.            *)
LEMMA UnsharedMeetsNone ==
    ASSUME TreeTypeOK, OneRun, NEW a \in active, NEW b \in active, a # b, Unshared(a),
           NEW p, Inside(a.at, p), Inside(b.at, p)
    PROVE  FALSE
<1>1. /\ a.run \in RunIds /\ a.nr \in Nat /\ a.at = Home(a.run, a.nr)
      /\ b.run \in RunIds /\ b.nr \in Nat /\ b.at = Home(b.run, b.nr)
      /\ a.nr # b.nr /\ (a.at = b.at => a.at \in reused) /\ based \in BOOLEAN
  BY DEF TreeTypeOK, OneRun
<1>2. CASE based
  <2>1. a.at \in Seq(PathParts) /\ b.at \in Seq(PathParts)
    BY <1>1, HomeIsPath
  <2>2. Nested(b.at, a.at)
    BY <2>1, HoldersNest
  <2>3. b.at = DirOf[b.run]
    BY <1>1, <1>2 DEF Home
  <2>4. b.at = a.at
    BY <1>1, <1>2, <2>2, <2>3 DEF Unshared
  <2> QED BY <1>1, <2>4 DEF Unshared
<1>3. CASE ~based
  <2>1. a.at = <<"temporary", a.nr>> /\ b.at = <<"temporary", b.nr>>
    BY <1>1, <1>3 DEF Home
  <2> QED BY <1>1, <2>1, TemporariesApart
<1> QED BY <1>1, <1>2, <1>3

LEMMA TreeStepInv ==
    ASSUME TreeInv, [TreeStep]_treeVars
    PROVE  TreeInv'
<1>0. /\ TreeTypeOK /\ OneRun /\ TakenOver /\ FilesAreKept /\ NothingIsForgotten
      /\ based \in BOOLEAN /\ made \in Nat /\ wrote \subseteq 1..made
      /\ \A a \in active : a.run \in RunIds /\ a.nr \in 1..made /\ a.at = Home(a.run, a.nr)
      /\ \A f \in files : f.run \in RunIds /\ f.nr \in 1..made /\ f.home = Home(f.run, f.nr)
  BY DEF TreeInv, TreeTypeOK
<1>h. \A a \in active : a.at \in Seq(PathParts) /\ Inside(a.at, OwnFile(a.at)) /\ Inside(a.at, a.at)
  BY <1>0, HomeIsPath, HoldsItself
<1>1. ASSUME NEW m \in Managers, NEW r \in RunIds, Create(m, r)
      PROVE  TreeInv'
  <2> PICK d : d = TreeOf(r)
    OBVIOUS
  <2> PICK c : c = [manager |-> m, run |-> r, at |-> d, nr |-> made + 1]
    OBVIOUS
  <2>1. /\ made' = made + 1 /\ active' = active \cup {c} /\ based' = based /\ files' = files /\ wrote' = wrote /\ left' = left
        /\ reused' = IF OnDisk(d) \/ InUse(d) THEN reused \cup {d} ELSE reused
        /\ trees' = trees \cup {d}
    BY <1>1 DEF Create
  <2>2. c.run = r /\ c.at = d /\ c.nr = made + 1 /\ d = Home(r, made + 1)
    BY DEF TreeOf, Home
  <2>3. \A s, n : Home(s, n)' = Home(s, n)
    BY <2>1 DEF Home
  <2>4. TreeTypeOK'
    <3>1. 1..made \subseteq 1..made' /\ made + 1 \in 1..made' /\ made' \in Nat
      BY <2>1, <1>0
    <3>2. \A a \in active' : a.run \in RunIds /\ a.nr \in 1..made' /\ a.at = Home(a.run, a.nr)'
      BY <2>1, <2>2, <2>3, <3>1, <1>0
    <3>3. \A f \in files' : f.run \in RunIds /\ f.nr \in 1..made' /\ f.home = Home(f.run, f.nr)'
      BY <2>1, <2>3, <3>1, <1>0
    <3> QED BY <2>1, <3>1, <3>2, <3>3, <1>0 DEF TreeTypeOK
  <2>5. \A a \in active : a.nr # c.nr
    BY <2>2, <1>0
  <2>6. OneRun'
    <3>1. ASSUME NEW a \in active, a.at = d PROVE d \in reused'
      BY <2>1, <3>1 DEF InUse
    <3>2. reused \subseteq reused'
      BY <2>1
    <3>3. ASSUME NEW a \in active', NEW b \in active', a # b PROVE a.nr # b.nr /\ (a.at = b.at => a.at \in reused')
      <4>1. CASE a \in active /\ b \in active
        BY <4>1, <3>3, <3>2, <1>0 DEF OneRun
      <4>2. CASE a = c /\ b \in active
        BY <4>2, <3>1, <2>2, <2>5
      <4>3. CASE b = c /\ a \in active
        BY <4>3, <3>1, <2>2, <2>5
      <4> QED BY <2>1, <3>3, <4>1, <4>2, <4>3
    <3> QED BY <3>3 DEF OneRun
  <2>7. TakenOver'
    <3>1. ASSUME NEW a \in active', NEW f \in files', Inside(f.home, f.at), f.home = a.at, f.nr # a.nr
          PROVE  a.at \in reused'
      <4>1. CASE a \in active
        BY <4>1, <3>1, <2>1, <1>0 DEF TakenOver
      <4>2. CASE a = c
        <5>1. OnDisk(d)
          BY <4>2, <3>1, <2>1, <2>2 DEF OnDisk
        <5> QED BY <4>2, <5>1, <2>1, <2>2
      <4> QED BY <2>1, <4>1, <4>2
    <3> QED BY <3>1 DEF TakenOver
  <2>8. FilesAreKept'
    <3>1. ASSUME NEW a \in active', a.nr \in wrote', Unshared(a)'
          PROVE  \E f \in files' : f.at = OwnFile(a.at) /\ f.nr = a.nr
      <4>1. c.nr \notin wrote
        BY <2>2, <1>0
      <4>2. a \in active
        BY <4>1, <3>1, <2>1
      <4>3. Unshared(a)
        BY <3>1, <2>1 DEF Unshared
      <4> QED BY <4>2, <4>3, <3>1, <2>1, <1>0 DEF FilesAreKept
    <3> QED BY <3>1 DEF FilesAreKept
  <2>9. NothingIsForgotten'
    <3>1. \A e : InUse(e) => InUse(e)'
      BY <2>1 DEF InUse
    <3>2. InUse(d)'
      BY <2>1, <2>2 DEF InUse
    <3> QED BY <3>1, <3>2, <2>1, <1>0 DEF NothingIsForgotten
  <2> QED BY <2>4, <2>6, <2>7, <2>8, <2>9 DEF TreeInv
<1>2. ASSUME NEW b \in active, WriteFile(b)
      PROVE  TreeInv'
  <2>1. PICK p \in {OwnFile(b.at)} \cup FarPlaces :
        /\ files' = {f \in files : f.at # p} \cup {[at |-> p, home |-> b.at, run |-> b.run, nr |-> b.nr]}
        /\ trees' = IF Inside(b.at, p) THEN trees \cup {b.at} ELSE trees
        /\ wrote' = IF p = OwnFile(b.at) THEN wrote \cup {b.nr} ELSE wrote
        /\ based' = based /\ active' = active /\ made' = made /\ reused' = reused /\ left' = left
    BY <1>2 DEF WriteFile
  <2> PICK c : c = [at |-> p, home |-> b.at, run |-> b.run, nr |-> b.nr]
    OBVIOUS
  <2>2. c.at = p /\ c.home = b.at /\ c.run = b.run /\ c.nr = b.nr
    OBVIOUS
  <2>3. files' = {f \in files : f.at # p} \cup {c}
    BY <2>1
  <2>4. TreeTypeOK'
    <3>1. \A s, n : Home(s, n)' = Home(s, n)
      BY <2>1 DEF Home
    <3>2. \A a \in active' : a.run \in RunIds /\ a.nr \in 1..made' /\ a.at = Home(a.run, a.nr)'
      BY <2>1, <3>1, <1>0
    <3>3. \A f \in files' : f.run \in RunIds /\ f.nr \in 1..made' /\ f.home = Home(f.run, f.nr)'
      BY <2>1, <2>2, <2>3, <3>1, <1>0
    <3>4. wrote' \subseteq 1..made'
      BY <2>1, <1>0
    <3> QED BY <2>1, <3>2, <3>3, <3>4, <1>0 DEF TreeTypeOK
  <2>5. OneRun'
    BY <2>1, <1>0 DEF OneRun
  <2>6. TakenOver'
    <3>1. ASSUME NEW a \in active, NEW f \in files', Inside(f.home, f.at), f.home = a.at, f.nr # a.nr
          PROVE  a.at \in reused
      <4>1. CASE f \in files
        BY <4>1, <3>1, <1>0 DEF TakenOver
      <4>2. CASE f = c
        BY <4>2, <3>1, <2>2, <1>0 DEF OneRun
      <4> QED BY <2>3, <4>1, <4>2
    <3> QED BY <3>1, <2>1 DEF TakenOver
  <2>7. FilesAreKept'
    <3>1. ASSUME NEW a \in active, a.nr \in wrote', Unshared(a)
          PROVE  \E f \in files' : f.at = OwnFile(a.at) /\ f.nr = a.nr
      <4>0. Inside(a.at, OwnFile(a.at)) /\ Inside(b.at, OwnFile(b.at))
        BY <1>h
      <4>1. CASE a = b /\ p = OwnFile(b.at)
        BY <4>1, <2>2, <2>3
      <4>2. CASE a # b \/ p # OwnFile(b.at)
        <5>1. a.nr \in wrote
          BY <4>2, <3>1, <2>1, <1>0 DEF OneRun
        <5>2. PICK f \in files : f.at = OwnFile(a.at) /\ f.nr = a.nr
          BY <5>1, <3>1, <1>0 DEF FilesAreKept
        <5>3. p # OwnFile(a.at)
          <6>1. CASE p \in FarPlaces
            BY <6>1, <3>1, <4>0 DEF Unshared
          <6>2. CASE p = OwnFile(b.at)
            <7>1. a # b
              BY <4>2, <6>2
            <7> QED BY <7>1, <6>2, <4>0, <3>1, <1>0, UnsharedMeetsNone
          <6> QED BY <6>1, <6>2
        <5> QED BY <5>2, <5>3, <2>3
      <4> QED BY <4>1, <4>2
    <3>2. \A a : Unshared(a)' <=> Unshared(a)
      BY <2>1 DEF Unshared
    <3> QED BY <3>1, <3>2, <2>1 DEF FilesAreKept
  <2>8. NothingIsForgotten'
    <3>1. \A e : InUse(e)' <=> InUse(e)
      BY <2>1 DEF InUse
    <3>2. InUse(b.at)
      BY DEF InUse
    <3> QED BY <3>1, <3>2, <2>1, <2>2, <2>3, <1>0 DEF NothingIsForgotten
  <2> QED BY <2>4, <2>5, <2>6, <2>7, <2>8 DEF TreeInv
(* Worktrees are given up, and what goes with them is below one of them.     *)
<1>3. ASSUME NEW b \in active, Cleanup(b)
      PROVE  TreeInv'
  <2>1. /\ active' = active \ {b} /\ based' = based /\ made' = made /\ wrote' = wrote /\ reused' = reused
    BY <1>3 DEF Cleanup
  <2>2. /\ files' \subseteq files /\ trees' \subseteq trees /\ left \subseteq left'
        /\ \A f \in files \ files' : Inside(b.at, f.at)
    BY <1>3 DEF Cleanup
  <2>3. \/ b.at \in left'
        \/ (\A f \in files' : ~Inside(b.at, f.at)) /\ \A e \in trees' : ~Inside(b.at, e)
    BY <1>3 DEF Cleanup
  <2>4. TreeTypeOK'
    <3>1. \A s, n : Home(s, n)' = Home(s, n)
      BY <2>1 DEF Home
    <3> QED BY <2>1, <2>2, <3>1, <1>0 DEF TreeTypeOK
  <2>5. OneRun' /\ TakenOver'
    BY <2>1, <2>2, <1>0 DEF OneRun, TakenOver
  <2>6. FilesAreKept'
    <3>1. ASSUME NEW a \in active, a # b, a.nr \in wrote, Unshared(a)
          PROVE  \E f \in files' : f.at = OwnFile(a.at) /\ f.nr = a.nr
      <4>1. PICK f \in files : f.at = OwnFile(a.at) /\ f.nr = a.nr
        BY <3>1, <1>0 DEF FilesAreKept
      <4>2. ~Inside(b.at, f.at)
        BY <4>1, <3>1, <1>0, <1>h, UnsharedMeetsNone
      <4> QED BY <4>1, <4>2, <2>2
    <3>2. \A a : Unshared(a)' <=> Unshared(a)
      BY <2>1 DEF Unshared
    <3> QED BY <3>1, <3>2, <2>1 DEF FilesAreKept
  <2>7. NothingIsForgotten'
    <3>1. \A e : InUse(e) => InUse(e)' \/ e = b.at
      BY <2>1 DEF InUse
    <3>2. ASSUME NEW e \in trees' PROVE e \in left' \/ InUse(e)'
      <4>1. e = b.at => e \in left'
        BY <3>2, <2>3, <1>h
      <4> QED BY <4>1, <3>1, <3>2, <2>2, <1>0 DEF NothingIsForgotten
    <3>3. ASSUME NEW f \in files', Inside(f.home, f.at) PROVE f.home \in left' \/ InUse(f.home)'
      <4>1. f.home = b.at => f.home \in left'
        BY <3>3, <2>3
      <4> QED BY <4>1, <3>1, <3>3, <2>2, <1>0 DEF NothingIsForgotten
    <3> QED BY <3>2, <3>3 DEF NothingIsForgotten
  <2> QED BY <2>4, <2>5, <2>6, <2>7 DEF TreeInv
<1>4. ASSUME NEW m \in Managers, ManagerDies(m)
      PROVE  TreeInv'
  <2>1. /\ active' = active \ {a \in active : a.manager = m} /\ left' = left \cup {a.at : a \in {x \in active : x.manager = m}}
        /\ based' = based /\ made' = made /\ wrote' = wrote /\ reused' = reused /\ files' = files /\ trees' = trees
    BY <1>4 DEF ManagerDies
  <2>2. TreeTypeOK'
    <3>1. \A s, n : Home(s, n)' = Home(s, n)
      BY <2>1 DEF Home
    <3> QED BY <2>1, <3>1, <1>0 DEF TreeTypeOK
  <2>3. OneRun' /\ TakenOver'
    BY <2>1, <1>0 DEF OneRun, TakenOver
  <2>4. FilesAreKept'
    BY <2>1, <1>0 DEF FilesAreKept, Unshared
  <2>5. NothingIsForgotten'
    <3>1. \A e : InUse(e) => InUse(e)' \/ e \in left'
      BY <2>1 DEF InUse
    <3> QED BY <3>1, <2>1, <1>0 DEF NothingIsForgotten
  <2> QED BY <2>2, <2>3, <2>4, <2>5 DEF TreeInv
<1>5. CASE UNCHANGED treeVars
  <2>1. /\ based' = based /\ active' = active /\ trees' = trees /\ files' = files /\ made' = made
        /\ wrote' = wrote /\ reused' = reused /\ left' = left
    BY <1>5 DEF treeVars
  <2>2. TreeTypeOK' /\ OneRun' /\ TakenOver'
    BY <2>1, <1>0 DEF TreeTypeOK, OneRun, TakenOver, Home
  <2> QED BY <2>1, <2>2, <1>0 DEF TreeInv, FilesAreKept, Unshared, NothingIsForgotten, InUse
<1> QED BY <1>1, <1>2, <1>3, <1>4, <1>5 DEF TreeStep

LEMMA FilesSeen ==
    ASSUME TreeInv
    PROVE  FilesAreSeenBy
<1>1. SUFFICES ASSUME NEW a \in active, NEW f \in files, Inside(a.at, f.at), Inside(f.home, f.at), f.nr # a.nr
               PROVE  /\ based /\ Nested(DirOf[a.run], DirOf[f.run])
                      /\ f.home = a.at => a.at \in reused
  BY DEF FilesAreSeenBy
<1>2. /\ a.run \in RunIds /\ a.nr \in Nat /\ a.at = Home(a.run, a.nr)
      /\ f.run \in RunIds /\ f.nr \in Nat /\ f.home = Home(f.run, f.nr)
      /\ based \in BOOLEAN /\ TakenOver
  BY DEF TreeInv, TreeTypeOK
<1>3. based
  <2>1. SUFFICES ASSUME ~based PROVE FALSE
    BY <1>2
  <2>2. a.at = <<"temporary", a.nr>> /\ f.home = <<"temporary", f.nr>>
    BY <1>2, <2>1 DEF Home
  <2> QED BY <1>1, <2>2, TemporariesApart
<1>4. Nested(DirOf[a.run], DirOf[f.run])
  <2>1. a.at = DirOf[a.run] /\ f.home = DirOf[f.run]
    BY <1>2, <1>3 DEF Home
  <2>2. a.at \in Seq(PathParts) /\ f.home \in Seq(PathParts)
    BY <1>2, HomeIsPath
  <2> QED BY <1>1, <2>1, <2>2, HoldersNest
<1> QED BY <1>1, <1>2, <1>3, <1>4 DEF TakenOver

(* Whatever threads save and load at a time, whichever saves fail and        *)
(* wherever the process ends: a record that no two saves were busy with, and *)
(* none failed or died over, is on disk as its last save wrote it, is given  *)
(* to who asks for it where it is kept, and is no older than any version     *)
(* read before; and a save that has the file for itself makes good what was  *)
(* spoiled.  And whatever managers create, write, clean up and leave behind, *)
(* whatever the ids and paths they are given: a run finds what another wrote *)
(* in its own worktree only where their ids lead to or into one directory,   *)
(* it keeps its file where that and writes from elsewhere cannot happen, and *)
(* what is on disk is accounted for by a run that is active, a cleanup that  *)
(* failed or a process that ended.                                           *)
THEOREM RunsKeepTheirFiles == RunFilesSpec => []RunFilesHold
<1>1. RunFilesInit => RecordInv
  <2> SUFFICES ASSUME RunFilesInit PROVE RecordInv
    OBVIOUS
  <2>1. /\ record = [f \in Records |-> NoRecord] /\ thread = [t \in Threads |-> Rests] /\ versions = 0
        /\ mixed = {} /\ savedLast = [f \in Records |-> 0] /\ shown = [f \in Records |-> 0] /\ result = NoResult
    BY DEF RunFilesInit
  <2>2. Rests \in [pc : {"rests", "writes"}, file : Records \cup {Rests.file}, nr : Nat, since : BOOLEAN] /\ Rests.pc = "rests"
    BY DEF Rests
  <2>3. NoRecord \in [is : {"absent", "torn", "whole"}, nr : Nat] /\ NoRecord.is = "absent" /\ ~NoResult.calm
    BY DEF NoRecord, NoResult
  <2>4. RecordTypeOK
    BY <2>1, <2>2, <2>3 DEF RecordTypeOK
  <2>5. OneSave
    BY <2>1, <2>2 DEF OneSave, InSave
  <2>6. NewestSeen
    BY <2>1, <2>2, <2>3 DEF NewestSeen, InSave
  <2>7. RecordsAreWhole
    BY <2>1, <2>3 DEF RecordsAreWhole
  <2> QED BY <2>4, <2>5, <2>6, <2>7 DEF RecordInv
<1>2. RecordInv /\ [RecordStep]_recordVars => RecordInv'
  BY RecordTypes, RecordStepInv DEF RecordInv
<1>3. RecordInv => RecordsAreWhole
  BY DEF RecordInv
<1>4. RunFilesInit /\ based \in BOOLEAN => TreeInv
  <2> SUFFICES ASSUME RunFilesInit, based \in BOOLEAN PROVE TreeInv
    OBVIOUS
  <2>1. active = {} /\ trees = {} /\ files = {} /\ made = 0 /\ wrote = {}
    BY DEF RunFilesInit
  <2> QED BY <2>1 DEF TreeInv, TreeTypeOK, OneRun, TakenOver, FilesAreKept, NothingIsForgotten
<1>5. TreeInv /\ [TreeStep]_treeVars => TreeInv'
  BY TreeStepInv
<1>6. TreeInv => TreesAreIsolated
  BY FilesSeen DEF TreeInv, TreesAreIsolated
<1>7. [RunFilesStep]_runFileVars => [RecordStep]_recordVars /\ [TreeStep]_treeVars
  BY DEF RunFilesStep, runFileVars
<1> QED BY <1>1, <1>2, <1>3, <1>4, <1>5, <1>6, <1>7, PTL DEF RunFilesSpec, RunFilesHold
=============================================================================
