--------------------------- MODULE FileStateStore ---------------------------
(* FileStateStore, by the system calls its operations make, for one workflow *)
(* whose directory several processes use: save_step writes a temporary file  *)
(* of its own and renames it; clear lists, locks and unlinks; load_step      *)
(* looks before it reads.  A process may crash between any two calls.        *)
EXTENDS Naturals, FiniteSets

CONSTANTS
    Procs,      \* processes: server workers and command lines
    Steps,      \* step names
    MaxSaves,   \* bound on saves begun
    MaxCrashes  \* bound on crashes

ASSUME BoundsAssumption == MaxSaves \in Nat /\ MaxCrashes \in Nat
ASSUME NamesAssumption == "lost" \notin Procs

VARIABLES
    dir,        \* whether the directory of the workflow exists
    file,       \* step -> the save its .json file is from, 0 for no file
    temp,       \* process, or Lost -> its temporary file: none, torn or whole
    op,         \* process -> the call it makes and how far it is
    saves, crashes,
    due,        \* ghost: step -> what its file may be, by the calls completed
    overlapped, \* ghost: processes whose call a conflicting one has overlapped
    unexpected  \* ghost: ends of calls that nothing has overlapped

stateVars == <<dir, file, temp, op, saves, crashes, due, overlapped, unexpected>>

Lost == "lost"                          \* whose temporary files crashes left
Torn == MaxSaves + 1                    \* a file whose content is incomplete
Idle == [at |-> "idle"]
Doing(p, where) == op[p].at = where
Clearing == {p \in Procs : op[p].at \in {"globbed", "choosing", "opened"}}
Using    == {p \in Procs : op[p].at \in {"made", "created", "writing", "closed", "listed", "found"}}

StateInit ==
    /\ dir = FALSE /\ file = [s \in Steps |-> 0] /\ temp = [n \in Procs \cup {Lost} |-> "none"]
    /\ op = [p \in Procs |-> Idle] /\ saves = 0 /\ crashes = 0
    /\ due = [s \in Steps |-> {0}] /\ overlapped = {} /\ unexpected = {}

Goes(p, r) == op' = [op EXCEPT ![p] = r] /\ UNCHANGED <<overlapped, unexpected>>
Begins(p, r, others) ==
    /\ Doing(p, "idle") /\ op' = [op EXCEPT ![p] = r] /\ UNCHANGED unexpected
    /\ overlapped' = IF others = {} THEN overlapped ELSE overlapped \cup {p} \cup others
Ends(p, how) ==
    /\ op' = [op EXCEPT ![p] = Idle] /\ overlapped' = overlapped \ {p}
    /\ unexpected' = IF how = "done" \/ p \in overlapped THEN unexpected ELSE unexpected \cup {how}
Counts == UNCHANGED <<saves, crashes>>

---------------------------------------------------------------------------
(* save_step: mkdir, create, lock, write and sync, rename.                   *)
SaveBegins(p, s) ==
    /\ saves < MaxSaves /\ saves' = saves + 1 /\ dir' = TRUE
    /\ Begins(p, [at |-> "made", step |-> s, n |-> saves + 1], Clearing)
    /\ UNCHANGED <<file, temp, crashes, due>>

SaveCreates(p) ==
    /\ Doing(p, "made")
    /\ IF dir THEN /\ temp' = [temp EXCEPT ![p] = "torn"]
                   /\ Goes(p, [op[p] EXCEPT !.at = "created"])
       ELSE Ends(p, "failed") /\ UNCHANGED temp
    /\ Counts /\ UNCHANGED <<dir, file, due>>

SaveLocks(p) ==
    /\ Doing(p, "created") /\ Goes(p, [op[p] EXCEPT !.at = "writing"])
    /\ Counts /\ UNCHANGED <<dir, file, temp, due>>

(* The name may be gone by then.                                             *)
SaveWrites(p) ==
    /\ Doing(p, "writing") /\ Goes(p, [op[p] EXCEPT !.at = "closed"])
    /\ temp' = [temp EXCEPT ![p] = IF @ = "torn" THEN "whole" ELSE @]
    /\ Counts /\ UNCHANGED <<dir, file, due>>

Renames(p) ==
    /\ IF temp[p] = "none" THEN Ends(p, "failed") /\ UNCHANGED <<file, temp, due>>
       ELSE LET s == op[p].step IN
            /\ Ends(p, "done")
            /\ file' = [file EXCEPT ![s] = IF temp[p] = "whole" THEN op[p].n ELSE Torn]
            /\ due' = [due EXCEPT ![s] = {op[p].n} \cup IF Clearing = {} THEN {} ELSE {0}]
            /\ temp' = [temp EXCEPT ![p] = "none"]
    /\ Counts /\ UNCHANGED dir

(* Variant: the rename does not wait for the write.                          *)
SaveRenamesEarly(p) == op[p].at \in {"writing", "closed"} /\ Renames(p)

SaveRenames(p) == Doing(p, "closed") /\ Renames(p)

---------------------------------------------------------------------------
(* clear: the .json names, then the .tmp names; each opened, locked, and     *)
(* unlinked by its name, whatever that names by then.                        *)
Results == {s \in Steps : file[s] # 0}
Temporaries == {n \in DOMAIN temp : temp[n] # "none"}

ClearBegins(p) ==
    /\ IF dir THEN /\ Begins(p, [at |-> "globbed", left |-> Results], Using)
                   /\ due' = [s \in Steps |-> due[s] \cup {0}]
       ELSE Doing(p, "idle") /\ Ends(p, "done") /\ UNCHANGED due
    /\ UNCHANGED <<dir, file, temp, saves, crashes>>

(* Variant: only the results are listed.                                     *)
ClearGlobsResults(p) ==
    /\ Doing(p, "globbed")
    /\ Goes(p, [at |-> "choosing", left |-> op[p].left])
    /\ Counts /\ UNCHANGED <<dir, file, temp, due>>

ClearGlobs(p) ==
    /\ Doing(p, "globbed")
    /\ Goes(p, [at |-> "choosing", left |-> op[p].left \cup Temporaries])
    /\ Counts /\ UNCHANGED <<dir, file, temp, due>>

ClearOpens(p) ==
    /\ Doing(p, "choosing")
    /\ \E t \in op[p].left :
          Goes(p, [at |-> IF t \in Results \cup Temporaries THEN "opened" ELSE "choosing",
                   left |-> op[p].left \ {t}, target |-> t])
    /\ Counts /\ UNCHANGED <<dir, file, temp, due>>

ClearUnlinks(p) ==
    /\ Doing(p, "opened")
    /\ LET t == op[p].target IN
       /\ t \in Procs => ~Doing(t, "writing")
       /\ file' = [s \in Steps |-> IF s = t THEN 0 ELSE file[s]]
       /\ temp' = [n \in DOMAIN temp |-> IF n = t THEN "none" ELSE temp[n]]
    /\ Goes(p, [at |-> "choosing", left |-> op[p].left])
    /\ Counts /\ UNCHANGED <<dir, due>>

ClearEnds(p) ==
    /\ Doing(p, "choosing") /\ op[p].left = {}
    /\ dir' = (Results \cup Temporaries # {} /\ dir)
    /\ Ends(p, IF dir' THEN "incomplete" ELSE "done")
    /\ due' = IF p \in overlapped THEN due ELSE [s \in Steps |-> {0}]
    /\ Counts /\ UNCHANGED <<file, temp>>

---------------------------------------------------------------------------
(* load_step of one step, or of all that list_completed names.  A file that  *)
(* is found is read in a call of its own.                                    *)
LoadBegins(p) ==
    /\ \E left \in {{s} : s \in Steps} \cup {Results} : Begins(p, [at |-> "listed", left |-> left], Clearing)
    /\ UNCHANGED <<dir, file, temp, saves, crashes, due>>

LoadLooks(p) ==
    /\ Doing(p, "listed")
    /\ IF op[p].left = {} THEN Ends(p, "done")
       ELSE \E s \in op[p].left :
              Goes(p, [at |-> IF file[s] = 0 THEN "listed" ELSE "found",
                       left |-> op[p].left \ {s}, step |-> s])
    /\ Counts /\ UNCHANGED <<dir, file, temp, due>>

LoadReads(p) ==
    /\ Doing(p, "found")
    /\ LET seen == file[op[p].step] IN
       IF seen \in {0, Torn} THEN Ends(p, "failed")
       ELSE Goes(p, [at |-> "listed", left |-> op[p].left])
    /\ Counts /\ UNCHANGED <<dir, file, temp, due>>

Crash(p) ==
    /\ ~Doing(p, "idle") /\ crashes < MaxCrashes
    /\ crashes' = crashes + 1
    /\ temp' = [temp EXCEPT ![p] = "none", ![Lost] = IF temp[p] = "none" THEN @ ELSE "torn"]
    /\ Ends(p, "done")
    /\ UNCHANGED <<dir, file, saves, due>>

StateStep ==
    \E p \in Procs :
        \/ \E s \in Steps : SaveBegins(p, s)
        \/ SaveCreates(p) \/ SaveLocks(p) \/ SaveWrites(p) \/ SaveRenames(p)
        \/ ClearBegins(p) \/ ClearGlobs(p) \/ ClearOpens(p) \/ ClearUnlinks(p) \/ ClearEnds(p)
        \/ LoadBegins(p) \/ LoadLooks(p) \/ LoadReads(p) \/ Crash(p)

StateSpec == StateInit /\ [][StateStep]_stateVars

---------------------------------------------------------------------------
(* A step's file is the whole result of the save that completed last, or is  *)
(* absent where a clear has completed or has been at work since: no reader   *)
(* meets a partial file and nothing comes back after a clear, whatever       *)
(* processes do at the same time and wherever one crashes.                   *)
FilesAreDue == \A s \in Steps : file[s] \in due[s]

(* A save and a load fail only where a clear overlaps them, and a clear that *)
(* overlaps neither leaves nothing, files of crashed writers included.       *)
OnlyOverlapsHurt == unexpected = {}
=============================================================================
