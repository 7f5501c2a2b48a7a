------------------------------ MODULE RunFiles ------------------------------
(* What runs leave on disk: the records of LocalFilesystemStorage, which     *)
(* threads write and read at a time, and the directories of WorktreeManager, *)
(* which several managers may keep below one base directory.                 *)
EXTENDS Naturals, Sequences

CONSTANTS
    Threads,        \* calls under way in asyncio.to_thread
    Records,        \* files of artifacts, checkpoints and run records
    Shelved,        \* those at the place where a load by id looks
    Managers,       \* processes with a WorktreeManager
    RunIds,
    DirOf,          \* run id -> base_dir / run_id, the parts of the path
    FarPlaces,      \* what a relative path with ".." or an absolute one reaches
    MaxRecords, MaxTrees

(* Names and numbers; two names by themselves, which the provers ask for.    *)
PathParts == {"temporary", "file"} \cup STRING \cup Nat
ASSUME RunFilesAssumption ==
    /\ Shelved \subseteq Records /\ MaxTrees \in Nat
    /\ DirOf \in [RunIds -> Seq(PathParts)] /\ FarPlaces \subseteq Seq(PathParts)

VARIABLES
    record,         \* file -> [is : absent, torn or whole, nr]
    thread,         \* [pc, file, nr, since]: since, whether another wrote after it opened
    versions,       \* saves begun
    result,         \* what the last load returned; calm: of a record shelved, saved and at rest
    mixed,          \* history: files two saves were busy with at once, or one failed or died over
    savedLast,      \* history: file -> the save that ended last
    shown,          \* history: file -> the latest save that a load returned
    based,          \* the managers are given a base directory
    active,         \* worktrees the managers have: [manager, run, at, nr]
    trees,          \* directories of runs that are on disk
    files,          \* files on disk: [at, home, run, nr], from whose worktree they were written
    made,           \* worktrees made
    wrote,          \* history: the worktrees whose run has written its file
    reused,         \* history: directories that were there, or in use, when create took them
    left            \* history: directories that a cleanup or a process left behind

recordVars == <<record, thread, versions, result, mixed, savedLast, shown>>
treeVars == <<based, active, trees, files, made, wrote, reused, left>>
runFileVars == <<recordVars, treeVars>>

Rests == [pc |-> "rests", file |-> CHOOSE f \in Records : TRUE, nr |-> 0, since |-> FALSE]
NoRecord == [is |-> "absent", nr |-> 0]
Torn == [is |-> "torn", nr |-> 0]
NoResult == [got |-> "none", calm |-> FALSE]

RunFilesInit ==
    /\ record = [f \in Records |-> NoRecord] /\ thread = [t \in Threads |-> Rests] /\ versions = 0
    /\ result = NoResult /\ mixed = {} /\ savedLast = [f \in Records |-> 0] /\ shown = [f \in Records |-> 0]
    /\ active = {} /\ trees = {} /\ files = {} /\ made = 0 /\ wrote = {} /\ reused = {} /\ left = {}

---------------------------------------------------------------------------
(* save_artifact, save_checkpoint and save_run_record: open, which empties   *)
(* the file, and write.                                                      *)
InSave(t, f) == thread[t].pc = "writes" /\ thread[t].file = f

SaveOpens(t, f) ==
    /\ thread[t].pc = "rests" /\ versions < MaxRecords /\ versions' = versions + 1
    /\ thread' = [thread EXCEPT ![t] = [pc |-> "writes", file |-> f, nr |-> versions', since |-> FALSE]]
    /\ record' = [record EXCEPT ![f] = Torn]
    /\ mixed' = IF \E o \in Threads : InSave(o, f) THEN mixed \cup {f} ELSE mixed
    /\ UNCHANGED <<result, savedLast, shown>>

(* Whoever else has the file open finds something written behind its back.   *)
Rested(t) == [o \in Threads |-> IF o = t THEN Rests
                                ELSE IF InSave(o, thread[t].file) THEN [thread[o] EXCEPT !.since = TRUE] ELSE thread[o]]

(* Who writes over what another has written since it opened leaves the tail  *)
(* of that, if it was longer.  A save that has the file for itself from its  *)
(* opening to its end makes good what earlier ones spoiled.                  *)
SaveWrites1(t) ==
    LET f == thread[t].file
        whole == [is |-> "whole", nr |-> thread[t].nr]
        alone == ~thread[t].since /\ \A o \in Threads : InSave(o, f) => o = t
    IN
    /\ thread[t].pc = "writes" /\ thread' = Rested(t)
    /\ \E r \in {whole} \cup (IF thread[t].since THEN {Torn} ELSE {}) : record' = [record EXCEPT ![f] = r]
    /\ savedLast' = [savedLast EXCEPT ![f] = thread[t].nr]
    /\ mixed' = (IF alone THEN mixed \ {f} ELSE mixed) /\ UNCHANGED <<versions, result, shown>>

(* OSError, the disk being full: the file is cut off where the write ended,  *)
(* which may be before its first byte.                                       *)
SaveFails(t) ==
    LET f == thread[t].file IN
    /\ thread[t].pc = "writes" /\ thread' = Rested(t) /\ mixed' = mixed \cup {f}
    /\ \E r \in {Torn} \cup (IF thread[t].since THEN {record[f]} ELSE {}) : record' = [record EXCEPT ![f] = r]
    /\ UNCHANGED <<versions, result, savedLast, shown>>

(* load_artifact and load_checkpoint raise for a file that is not there or   *)
(* not whole; list_artifacts and query_run_records pass over both.  Only     *)
(* the layout is searched: save_artifact writes where record.path says.      *)
Answer1(f, raises) ==
    CASE f \notin Shelved \/ record[f].is = "absent" -> IF raises THEN "not found" ELSE "skipped"
      [] record[f].is = "torn" -> IF raises THEN "invalid" ELSE "skipped"
      [] OTHER -> "found"

Settled(f) == f \notin mixed /\ \A t \in Threads : ~InSave(t, f)

Load(t, f, raises) ==
    /\ thread[t].pc = "rests"
    /\ result' = [got |-> Answer1(f, raises), calm |-> f \in Shelved /\ savedLast[f] # 0 /\ Settled(f)]
    /\ shown' = IF result'.got = "found" /\ shown[f] < record[f].nr THEN [shown EXCEPT ![f] = record[f].nr] ELSE shown
    /\ UNCHANGED <<record, thread, versions, mixed, savedLast>>

(* The process ends with all its threads.                                    *)
ProcessDies ==
    /\ \E t \in Threads : thread[t].pc = "writes"
    /\ mixed' = mixed \cup {f \in Records : \E t \in Threads : InSave(t, f)}
    /\ thread' = [t \in Threads |-> Rests] /\ result' = NoResult
    /\ UNCHANGED <<record, versions, savedLast, shown>>

RecordStep ==
    \/ \E t \in Threads, f \in Records : SaveOpens(t, f) \/ \E raises \in BOOLEAN : Load(t, f, raises)
    \/ \E t \in Threads : SaveWrites1(t) \/ SaveFails(t)
    \/ ProcessDies

---------------------------------------------------------------------------
(* Paths: whether p is d or below it.  Nothing checks a run id or a relative *)
(* path, so that directories may hold one another, and files go elsewhere.   *)
Inside(d, p) == Len(d) <= Len(p) /\ \A i \in 1..Len(d) : d[i] = p[i]
OwnFile(d) == Append(d, "file")

(* Variant: the system's directory for temporary files itself.               *)
TreeOfAll(r) == IF based THEN DirOf[r] ELSE <<"temporary", 0>>
TreeOf(r) == IF based THEN DirOf[r] ELSE <<"temporary", made + 1>>

OnDisk(d) == (\E e \in trees : Inside(d, e)) \/ \E f \in files : Inside(d, f.at)
InUse(d) == \E a \in active : a.at = d

(* create: an active run keeps its directory; below a base directory, one    *)
(* that is there is taken as it is.                                          *)
Create(m, r) ==
    LET d == TreeOf(r) IN
    /\ \A a \in active : a.manager # m \/ a.run # r
    /\ made < MaxTrees /\ made' = made + 1
    /\ active' = active \cup {[manager |-> m, run |-> r, at |-> d, nr |-> made + 1]}
    /\ reused' = IF OnDisk(d) \/ InUse(d) THEN reused \cup {d} ELSE reused
    /\ trees' = trees \cup {d} /\ UNCHANGED <<based, files, wrote, left>>

(* write_file makes the directories it needs and replaces what is there.     *)
WriteFile(a) ==
    \E p \in {OwnFile(a.at)} \cup FarPlaces :
        /\ files' = {f \in files : f.at # p} \cup {[at |-> p, home |-> a.at, run |-> a.run, nr |-> a.nr]}
        /\ trees' = IF Inside(a.at, p) THEN trees \cup {a.at} ELSE trees
        /\ wrote' = IF p = OwnFile(a.at) THEN wrote \cup {a.nr} ELSE wrote
        /\ UNCHANGED <<based, active, made, reused, left>>

(* cleanup forgets the run; what cannot be removed stays, without a word.    *)
Cleanup(a) ==
    LET under == {f \in files : Inside(a.at, f.at)}
        below == {e \in trees : Inside(a.at, e)}
    IN
    /\ active' = active \ {a}
    /\ \/ files' = files \ under /\ trees' = trees \ below /\ UNCHANGED left
       \/ /\ \E F \in SUBSET under, E \in SUBSET (below \ {a.at}) :
                /\ \A e \in E, f \in under : Inside(e, f.at) => f \in F
                /\ files' = files \ F /\ trees' = trees \ E
          /\ a.at \in trees /\ left' = left \cup {a.at}
    /\ UNCHANGED <<based, made, wrote, reused>>

(* cleanup_all is a cleanup of each; a process that ends does none.          *)
ManagerDies(m) ==
    LET its == {a \in active : a.manager = m} IN
    /\ its # {} /\ active' = active \ its /\ left' = left \cup {a.at : a \in its}
    /\ UNCHANGED <<based, trees, files, made, wrote, reused>>

TreeStep ==
    \/ \E m \in Managers, r \in RunIds : Create(m, r)
    \/ \E a \in active : WriteFile(a) \/ Cleanup(a)
    \/ \E m \in Managers : ManagerDies(m)

RunFilesStep == (RecordStep /\ UNCHANGED treeVars) \/ (TreeStep /\ UNCHANGED recordVars)
RunFilesSpec == RunFilesInit /\ based \in BOOLEAN /\ [][RunFilesStep]_runFileVars

---------------------------------------------------------------------------
(* Unless two saves were busy with it at once, or one failed or ended with   *)
(* the process, and no save has had it for itself since: a record that       *)
(* nobody saves is the one saved last, no older than any that a reader has   *)
(* been given before, and a reader who asks where it is kept is given it.    *)
RecordsAreWhole ==
    /\ \A f \in Records : Settled(f) =>
          /\ record[f] = IF savedLast[f] = 0 THEN NoRecord ELSE [is |-> "whole", nr |-> savedLast[f]]
          /\ shown[f] <= savedLast[f]
    /\ result.calm => result.got = "found"

Nested(d, e) == Inside(d, e) \/ Inside(e, d)

(* A file that another worktree wrote below its own directory is seen by a   *)
(* run only below a base directory, where one run's id leads to or into the  *)
(* other's, and in the same directory only if that was there, or in use,     *)
(* when create took it.                                                      *)
FilesAreSeenBy ==
    \A a \in active, f \in files :
        Inside(a.at, f.at) /\ Inside(f.home, f.at) /\ f.nr # a.nr =>
            /\ based /\ Nested(DirOf[a.run], DirOf[f.run])
            /\ f.home = a.at => a.at \in reused

(* What a run has written stays while the run is active, unless create took  *)
(* its directory more than once, another id leads to or into it, or a write  *)
(* from elsewhere can reach it.                                              *)
Unshared(a) ==
    /\ a.at \notin reused /\ \A p \in FarPlaces : ~Inside(a.at, p)
    /\ based => \A r \in RunIds : Nested(DirOf[r], a.at) => DirOf[r] = a.at
FilesAreKept ==
    \A a \in active : a.nr \in wrote /\ Unshared(a) => \E f \in files : f.at = OwnFile(a.at) /\ f.nr = a.nr

(* What is on disk is an active run's, or was left behind by a cleanup that  *)
(* failed or a process that ended.                                           *)
NothingIsForgotten ==
    /\ \A d \in trees : d \in left \/ InUse(d)
    /\ \A f \in files : Inside(f.home, f.at) => f.home \in left \/ InUse(f.home)

TreesAreIsolated == FilesAreSeenBy /\ FilesAreKept /\ NothingIsForgotten

RunFilesHold == RecordsAreWhole /\ TreesAreIsolated
=============================================================================
