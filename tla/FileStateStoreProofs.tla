------------------------ MODULE FileStateStoreProofs ------------------------
(***************************************************************************)
(* Theorems about FileStateStore, for any processes, steps and bounds.     *)
(***************************************************************************)
EXTENDS FileStateStore, TLAPS

(* Where a call can be, and what it knows there.                             *)
Names == Steps \cup Procs \cup {Lost}
SaveAts   == {"made", "created", "writing", "closed"}
LoadAts   == {"listed", "found"}
ClearAts  == {"globbed", "choosing", "opened"}
SaveCall  == [at : SaveAts, step : Steps, n : 1..MaxSaves]
ListCall  == [at : {"listed"}, left : SUBSET Steps]
ReadCall  == [at : LoadAts, left : SUBSET Steps, step : Steps]
GlobCall  == [at : {"globbed", "choosing"}, left : SUBSET Names]
UnlinkCall == [at : {"opened", "choosing"}, left : SUBSET Names, target : Names]
Calls     == {Idle} \cup SaveCall \cup ListCall \cup ReadCall \cup GlobCall \cup UnlinkCall

StateTypeOK ==
    /\ dir \in BOOLEAN /\ saves \in 0..MaxSaves
    /\ file \in [Steps -> 0..MaxSaves]
    /\ temp \in [Procs \cup {Lost} -> {"none", "torn", "whole"}]
    /\ op \in [Procs -> Calls]
    /\ due \in [Steps -> SUBSET (0..MaxSaves)]
    /\ overlapped \subseteq Procs

(* A temporary file is that of a save, is whole once it is closed, and is    *)
(* there unless a clear has overlapped.                                      *)
TempIsOfSave ==
    \A p \in Procs :
        /\ op[p].at \notin {"created", "writing", "closed"} => temp[p] = "none"
        /\ op[p].at = "closed" => temp[p] # "torn"
        /\ op[p].at \in {"created", "writing"} => temp[p] # "whole"
        /\ p \notin overlapped =>
              /\ op[p].at \in SaveAts => dir
              /\ op[p].at \in {"created", "writing", "closed"} => temp[p] # "none"
              /\ op[p].at = "found" => file[op[p].step] # 0

(* A clear and another call that overlap know it both; a clear that nothing  *)
(* overlaps still has all names before it that are there.                    *)
ToClear(p) == op[p].left \cup IF op[p].at = "opened" THEN {op[p].target} ELSE {}
ClearKnowsAll ==
    /\ \A p \in Clearing \ overlapped :
          /\ Using = {}
          /\ Results \subseteq ToClear(p)
          /\ op[p].at # "globbed" => Temporaries \subseteq ToClear(p)
    /\ \A p \in Using \ overlapped : Clearing = {}
    /\ Clearing # {} => \A s \in Steps : 0 \in due[s]

StateInv ==
    /\ StateTypeOK /\ TempIsOfSave /\ ClearKnowsAll
    /\ FilesAreDue /\ OnlyOverlapsHurt

---------------------------------------------------------------------------
(* What a process knows of its call, by where it is.                         *)
LEMMA Shape ==
  ASSUME StateTypeOK, NEW p \in Procs
  PROVE  /\ op[p].at \in {"idle"} \cup SaveAts \cup LoadAts \cup ClearAts
         /\ op[p].at \in SaveAts => op[p] \in SaveCall
         /\ op[p].at = "listed" => op[p].left \in SUBSET Steps
         /\ op[p].at = "found" => op[p] \in ReadCall
         /\ op[p].at = "globbed" => op[p] \in GlobCall
         /\ op[p].at = "choosing" => op[p].left \in SUBSET Names
         /\ op[p].at = "opened" => op[p] \in UnlinkCall
<1>1. op[p] \in Calls
  BY DEF StateTypeOK
<1>2. CASE op[p] = Idle
  BY <1>2 DEF Idle, SaveAts, LoadAts, ClearAts
<1>3. CASE op[p] \in SaveCall
  BY <1>3 DEF SaveCall, SaveAts, LoadAts, ClearAts
<1>4. CASE op[p] \in ListCall
  BY <1>4 DEF ListCall, SaveAts, LoadAts, ClearAts
<1>5. CASE op[p] \in ReadCall
  BY <1>5 DEF ReadCall, SaveAts, LoadAts, ClearAts
<1>6. CASE op[p] \in GlobCall
  BY <1>6 DEF GlobCall, SaveAts, LoadAts, ClearAts
<1>7. CASE op[p] \in UnlinkCall
  BY <1>7 DEF UnlinkCall, SaveAts, LoadAts, ClearAts
<1> QED BY <1>1, <1>2, <1>3, <1>4, <1>5, <1>6, <1>7 DEF Calls

(* One process goes on and the others stay where they are.                   *)
LEMMA Frame ==
  ASSUME StateTypeOK, NEW p \in Procs, NEW r \in Calls, op' = [op EXCEPT ![p] = r]
  PROVE  /\ op' \in [Procs -> Calls] /\ op'[p] = r
         /\ \A q \in Procs \ {p} : op'[q] = op[q]
         /\ Clearing' = (Clearing \ {p}) \cup {q \in {p} : r.at \in ClearAts}
         /\ Using' = (Using \ {p}) \cup {q \in {p} : r.at \in SaveAts \cup LoadAts}
<1>1. /\ op' \in [Procs -> Calls] /\ op'[p] = r
      /\ \A q \in Procs \ {p} : op'[q] = op[q]
  BY DEF StateTypeOK
<1> QED BY <1>1 DEF Clearing, Using, SaveAts, LoadAts, ClearAts

(* Where the calls are, by where each process is.                            *)
LEMMA Places ==
  ASSUME NEW p \in Procs
  PROVE  /\ p \in Using <=> op[p].at \in SaveAts \cup LoadAts
         /\ p \in Clearing <=> op[p].at \in ClearAts
         /\ Using \subseteq Procs /\ Clearing \subseteq Procs
BY DEF Using, Clearing, SaveAts, LoadAts, ClearAts

(* A call goes on: who clears and who saves or loads is as before.           *)
LEMMA GoesOn ==
  ASSUME StateTypeOK, NEW p \in Procs, NEW r \in Calls, op' = [op EXCEPT ![p] = r],
         \/ op[p].at \in SaveAts \cup LoadAts /\ r.at \in SaveAts \cup LoadAts
         \/ op[p].at \in ClearAts /\ r.at \in ClearAts
  PROVE  /\ op' \in [Procs -> Calls] /\ op'[p] = r
         /\ \A q \in Procs \ {p} : op'[q] = op[q]
         /\ Clearing' = Clearing /\ Using' = Using
<1>1. /\ op' \in [Procs -> Calls] /\ op'[p] = r
      /\ \A q \in Procs \ {p} : op'[q] = op[q]
      /\ Clearing' = (Clearing \ {p}) \cup {q \in {p} : r.at \in ClearAts}
      /\ Using' = (Using \ {p}) \cup {q \in {p} : r.at \in SaveAts \cup LoadAts}
  BY Frame
<1>2. CASE op[p].at \in SaveAts \cup LoadAts /\ r.at \in SaveAts \cup LoadAts
  BY <1>1, <1>2, Places DEF SaveAts, LoadAts, ClearAts
<1>3. CASE op[p].at \in ClearAts /\ r.at \in ClearAts
  BY <1>1, <1>3, Places DEF SaveAts, LoadAts, ClearAts
<1> QED BY <1>1, <1>2, <1>3

LEMMA GoesOff ==
  ASSUME StateTypeOK, NEW p \in Procs, op' = [op EXCEPT ![p] = Idle]
  PROVE  /\ op' \in [Procs -> Calls] /\ op'[p] = Idle /\ Idle.at = "idle"
         /\ \A q \in Procs \ {p} : op'[q] = op[q]
         /\ Clearing' = Clearing \ {p} /\ Using' = Using \ {p}
<1>1. Idle \in Calls
  BY DEF Calls
<1>2. Idle.at = "idle"
  BY DEF Idle
<1> QED BY <1>1, <1>2, Frame, ZenonT(60) DEF SaveAts, LoadAts, ClearAts

LEMMA GoesOffUser ==
  ASSUME StateTypeOK, NEW p \in Using, p \notin Clearing, op' = [op EXCEPT ![p] = Idle]
  PROVE  /\ op' \in [Procs -> Calls] /\ op'[p] = Idle /\ Idle.at = "idle"
         /\ \A q \in Procs \ {p} : op'[q] = op[q]
         /\ Clearing' = Clearing /\ Using' = Using \ {p}
<1>1. p \in Procs
  BY Places DEF Using
<1>2. Clearing \ {p} = Clearing
  OBVIOUS
<1> QED BY <1>1, <1>2, GoesOff

LEMMA StateInitInv == StateInit => StateInv
<1> SUFFICES ASSUME StateInit PROVE StateInv
  OBVIOUS
<1>1. op \in [Procs -> Calls]
  <2>1. Idle \in Calls
    BY DEF Calls
  <2> QED BY <2>1 DEF StateInit
<1>2. temp \in [Procs \cup {Lost} -> {"none", "torn", "whole"}]
  BY DEF StateInit
<1>3. 0 \in 0..MaxSaves
  BY BoundsAssumption
<1>4. StateTypeOK
  BY <1>1, <1>2, <1>3 DEF StateInit, StateTypeOK
<1>5. \A p \in Procs : op[p].at = "idle" /\ temp[p] = "none"
  BY DEF StateInit, Idle
<1>6. Clearing = {} /\ Using = {}
  BY <1>5 DEF Clearing, Using
<1> QED BY <1>4, <1>5, <1>6 DEF StateInit, StateInv, TempIsOfSave, ClearKnowsAll, FilesAreDue, OnlyOverlapsHurt, SaveAts

---------------------------------------------------------------------------
(* The steps of a save.                                                      *)
LEMMA SaveBeginsKeeps ==
  ASSUME StateInv, NEW p \in Procs, NEW s \in Steps, SaveBegins(p, s)
  PROVE  StateInv'
<1> DEFINE r == [at |-> "made", step |-> s, n |-> saves + 1]
<1>0. /\ op[p].at = "idle" /\ op' = [op EXCEPT ![p] = r] /\ unexpected' = unexpected
      /\ overlapped' = IF Clearing = {} THEN overlapped ELSE overlapped \cup {p} \cup Clearing
      /\ saves < MaxSaves /\ saves' = saves + 1 /\ dir' = TRUE
      /\ UNCHANGED <<file, temp, crashes, due>>
  BY DEF SaveBegins, Begins, Doing
<1>1. saves + 1 \in 1..MaxSaves /\ saves + 1 \in 0..MaxSaves
  BY <1>0, BoundsAssumption DEF StateInv, StateTypeOK
<1>2. r \in SaveCall /\ r \in Calls /\ r.at = "made"
  BY <1>1 DEF SaveCall, SaveAts, Calls
<1> HIDE DEF r
<1>3. /\ op' \in [Procs -> Calls] /\ op'[p] = r
      /\ \A q \in Procs \ {p} : op'[q] = op[q]
      /\ Clearing' = Clearing /\ Using' = Using \cup {p} /\ p \notin Clearing
  BY <1>0, <1>2, Frame, Places, ZenonT(60) DEF StateInv, SaveAts, LoadAts, ClearAts
<1>4. StateTypeOK'
  BY <1>0, <1>1, <1>3, Places DEF StateInv, StateTypeOK
<1>5. TempIsOfSave'
  BY <1>0, <1>2, <1>3 DEF StateInv, TempIsOfSave
<1>6. ClearKnowsAll'
  BY <1>0, <1>3 DEF StateInv, ClearKnowsAll, Results, Temporaries, ToClear, Clearing
<1> QED BY <1>0, <1>4, <1>5, <1>6 DEF StateInv, FilesAreDue, OnlyOverlapsHurt

(* A call that goes on under another name of the same kind.                  *)
LEMMA SaveCreatesKeeps ==
  ASSUME StateInv, NEW p \in Procs, SaveCreates(p)
  PROVE  StateInv'
<1>0. /\ op[p].at = "made" /\ op[p] \in SaveCall /\ p \in Using /\ p \notin Clearing
      /\ UNCHANGED <<saves, crashes, dir, file, due>>
  BY Shape, Places DEF StateInv, SaveCreates, Doing, Counts, SaveAts, LoadAts, ClearAts
<1>1. CASE dir
  <2>0. temp' = [temp EXCEPT ![p] = "torn"] /\ UNCHANGED <<overlapped, unexpected>>
    BY <1>1 DEF SaveCreates, Goes
  <2>1. PICK r \in SaveCall : r.at = "created" /\ op' = [op EXCEPT ![p] = r]
    <3>1. [op[p] EXCEPT !.at = "created"] \in SaveCall
      BY <1>0 DEF SaveCall, SaveAts
    <3>2. [op[p] EXCEPT !.at = "created"].at = "created"
      BY <1>0 DEF SaveCall
    <3> QED BY <1>1, <3>1, <3>2 DEF SaveCreates, Goes
  <2>2. /\ op' \in [Procs -> Calls] /\ op'[p] = r
        /\ \A q \in Procs \ {p} : op'[q] = op[q]
        /\ Clearing' = Clearing /\ Using' = Using
    <3>1. r \in Calls
      BY DEF Calls
    <3> QED BY <1>0, <2>1, <3>1, GoesOn DEF StateInv, SaveAts
  <2>3. StateTypeOK'
    BY <1>0, <2>0, <2>2 DEF StateInv, StateTypeOK
  <2>4. TempIsOfSave'
    BY <1>0, <1>1, <2>0, <2>1, <2>2 DEF StateInv, StateTypeOK, TempIsOfSave
  <2>5. ClearKnowsAll'
    BY <1>0, <2>0, <2>2 DEF StateInv, ClearKnowsAll, Results, Temporaries, ToClear, Clearing
  <2> QED BY <1>0, <2>0, <2>3, <2>4, <2>5 DEF StateInv, FilesAreDue, OnlyOverlapsHurt
<1>2. CASE ~dir
  <2>1. /\ p \in overlapped /\ unexpected' = unexpected /\ temp' = temp
        /\ op' = [op EXCEPT ![p] = Idle] /\ overlapped' = overlapped \ {p}
    BY <1>0, <1>2 DEF StateInv, TempIsOfSave, SaveCreates, Ends, SaveAts
  <2>2. /\ op' \in [Procs -> Calls] /\ op'[p] = Idle
        /\ \A q \in Procs \ {p} : op'[q] = op[q]
        /\ Clearing' = Clearing /\ Using' = Using \ {p}
    BY <1>0, <2>1, GoesOffUser DEF StateInv
  <2>3. StateTypeOK'
    BY <1>0, <2>1, <2>2 DEF StateInv, StateTypeOK
  <2>4. TempIsOfSave'
    BY <1>0, <2>1, <2>2 DEF StateInv, TempIsOfSave, Idle, SaveAts
  <2>5. ClearKnowsAll'
    BY <1>0, <2>1, <2>2 DEF StateInv, ClearKnowsAll, Results, Temporaries, ToClear, Clearing
  <2> QED BY <1>0, <2>1, <2>3, <2>4, <2>5 DEF StateInv, FilesAreDue, OnlyOverlapsHurt
<1> QED BY <1>1, <1>2

LEMMA SaveLocksKeeps ==
  ASSUME StateInv, NEW p \in Procs, SaveLocks(p)
  PROVE  StateInv'
<1>0. /\ op[p].at = "created" /\ op[p] \in SaveCall /\ p \in Using /\ p \notin Clearing
      /\ UNCHANGED <<saves, crashes, dir, file, temp, due, overlapped, unexpected>>
  BY Shape, Places DEF StateInv, SaveLocks, Goes, Doing, Counts, SaveAts, LoadAts, ClearAts
<1>1. PICK r \in SaveCall : r.at = "writing" /\ op' = [op EXCEPT ![p] = r]
  <2>1. [op[p] EXCEPT !.at = "writing"] \in SaveCall
    BY <1>0 DEF SaveCall, SaveAts
  <2>2. [op[p] EXCEPT !.at = "writing"].at = "writing"
    BY <1>0 DEF SaveCall
  <2> QED BY <2>1, <2>2 DEF SaveLocks, Goes
<1>2. /\ op' \in [Procs -> Calls] /\ op'[p] = r
      /\ \A q \in Procs \ {p} : op'[q] = op[q]
      /\ Clearing' = Clearing /\ Using' = Using
  <2>1. r \in Calls
    BY DEF Calls
  <2> QED BY <1>0, <1>1, <2>1, GoesOn DEF StateInv, SaveAts
<1>3. StateTypeOK'
  BY <1>0, <1>2 DEF StateInv, StateTypeOK
<1>4. TempIsOfSave'
  BY <1>0, <1>1, <1>2 DEF StateInv, TempIsOfSave, SaveAts
<1>5. ClearKnowsAll'
  BY <1>0, <1>2 DEF StateInv, ClearKnowsAll, Results, Temporaries, ToClear, Clearing
<1> QED BY <1>0, <1>3, <1>4, <1>5 DEF StateInv, FilesAreDue, OnlyOverlapsHurt

LEMMA SaveWritesKeeps ==
  ASSUME StateInv, NEW p \in Procs, SaveWrites(p)
  PROVE  StateInv'
<1>0. /\ op[p].at = "writing" /\ op[p] \in SaveCall /\ p \in Using /\ p \notin Clearing
      /\ UNCHANGED <<saves, crashes, dir, file, due, overlapped, unexpected>>
      /\ temp' = [temp EXCEPT ![p] = IF temp[p] = "torn" THEN "whole" ELSE temp[p]]
  BY Shape, Places DEF StateInv, SaveWrites, Goes, Doing, Counts, SaveAts, LoadAts, ClearAts
<1>1. PICK r \in SaveCall : r.at = "closed" /\ op' = [op EXCEPT ![p] = r]
  <2>1. [op[p] EXCEPT !.at = "closed"] \in SaveCall
    BY <1>0 DEF SaveCall, SaveAts
  <2>2. [op[p] EXCEPT !.at = "closed"].at = "closed"
    BY <1>0 DEF SaveCall
  <2> QED BY <2>1, <2>2 DEF SaveWrites, Goes
<1>2. /\ op' \in [Procs -> Calls] /\ op'[p] = r
      /\ \A q \in Procs \ {p} : op'[q] = op[q]
      /\ Clearing' = Clearing /\ Using' = Using
  <2>1. r \in Calls
    BY DEF Calls
  <2> QED BY <1>0, <1>1, <2>1, GoesOn DEF StateInv, SaveAts
<1>3. StateTypeOK'
  BY <1>0, <1>2 DEF StateInv, StateTypeOK
<1>4. TempIsOfSave'
  BY <1>0, <1>1, <1>2 DEF StateInv, StateTypeOK, TempIsOfSave, SaveAts
<1>5. ClearKnowsAll'
  BY <1>0, <1>2 DEF StateInv, StateTypeOK, ClearKnowsAll, Results, Temporaries, ToClear, Clearing
<1> QED BY <1>0, <1>3, <1>4, <1>5 DEF StateInv, FilesAreDue, OnlyOverlapsHurt

LEMMA SaveRenamesKeeps ==
  ASSUME StateInv, NEW p \in Procs, SaveRenames(p)
  PROVE  StateInv'
<1>0. /\ op[p].at = "closed" /\ op[p] \in SaveCall /\ p \in Using /\ p \notin Clearing
      /\ UNCHANGED <<saves, crashes, dir>> /\ temp[p] # "torn"
      /\ op' = [op EXCEPT ![p] = Idle] /\ overlapped' = overlapped \ {p}
  BY Shape, Places DEF StateInv, TempIsOfSave, SaveRenames, Renames, Ends, Doing, Counts, SaveAts, LoadAts, ClearAts
<1>1. /\ op' \in [Procs -> Calls] /\ op'[p] = Idle
      /\ \A q \in Procs \ {p} : op'[q] = op[q]
      /\ Clearing' = Clearing /\ Using' = Using \ {p}
  BY <1>0, GoesOffUser DEF StateInv
<1>2. CASE temp[p] = "none"
  <2>1. p \in overlapped /\ UNCHANGED <<file, temp, due, unexpected>>
    BY <1>0, <1>2 DEF StateInv, TempIsOfSave, SaveRenames, Renames, Ends
  <2>2. StateTypeOK'
    BY <1>0, <1>1, <2>1 DEF StateInv, StateTypeOK
  <2>3. TempIsOfSave'
    BY <1>0, <1>1, <1>2, <2>1 DEF StateInv, TempIsOfSave, Idle, SaveAts
  <2>4. ClearKnowsAll'
    BY <1>0, <1>1, <2>1 DEF StateInv, ClearKnowsAll, Results, Temporaries, ToClear, Clearing
  <2> QED BY <1>0, <2>1, <2>2, <2>3, <2>4 DEF StateInv, FilesAreDue, OnlyOverlapsHurt
<1>3. CASE temp[p] # "none"
  <2> DEFINE s == op[p].step
             n == op[p].n
             new == {n} \cup IF Clearing = {} THEN {} ELSE {0}
  <2>1. temp[p] = "whole"
    BY <1>0, <1>3 DEF StateInv, StateTypeOK
  <2>2. s \in Steps /\ n \in 1..MaxSaves /\ n \in 0..MaxSaves /\ n # 0
    BY <1>0, BoundsAssumption DEF SaveCall
  <2>3. /\ file' = [file EXCEPT ![s] = n] /\ due' = [due EXCEPT ![s] = new]
        /\ temp' = [temp EXCEPT ![p] = "none"] /\ unexpected' = unexpected
    BY <1>3, <2>1 DEF SaveRenames, Renames, Ends
  <2>4. n \in new /\ new \subseteq 0..MaxSaves /\ (Clearing # {} => 0 \in new)
    BY <2>2, BoundsAssumption
  <2>5. PICK t \in Steps, m \in 1..MaxSaves, d \in SUBSET (0..MaxSaves) :
          /\ m # 0 /\ m \in 0..MaxSaves /\ m \in d /\ (Clearing # {} => 0 \in d)
          /\ file' = [file EXCEPT ![t] = m] /\ due' = [due EXCEPT ![t] = d]
    BY <2>2, <2>3, <2>4
  <2> HIDE DEF s, n, new
  <2>6. StateTypeOK'
    <3>1. file' \in [Steps -> 0..MaxSaves]
      BY <2>5 DEF StateInv, StateTypeOK
    <3>2. due' \in [Steps -> SUBSET (0..MaxSaves)]
      BY <2>5 DEF StateInv, StateTypeOK
    <3>3. temp' \in [Procs \cup {Lost} -> {"none", "torn", "whole"}]
      BY <2>3 DEF StateInv, StateTypeOK
    <3> QED BY <1>0, <1>1, <3>1, <3>2, <3>3 DEF StateInv, StateTypeOK
  <2>7. TempIsOfSave'
    <3>1. \A q \in Procs \ {p} : op[q].at = "found" => op[q].step \in Steps
      BY Shape DEF StateInv, ReadCall
    <3> QED BY <1>0, <1>1, <2>3, <2>5, <3>1 DEF StateInv, StateTypeOK, TempIsOfSave, Idle, SaveAts
  <2>8. ClearKnowsAll'
    <3>1. \A q \in Clearing' \ overlapped' : FALSE
      BY <1>0, <1>1 DEF StateInv, ClearKnowsAll
    <3>2. \A q \in Using' \ overlapped' : Clearing' = {}
      BY <1>0, <1>1 DEF StateInv, ClearKnowsAll
    <3>3. Clearing' # {} => \A u \in Steps : 0 \in due'[u]
      BY <1>1, <2>5 DEF StateInv, StateTypeOK, ClearKnowsAll
    <3> QED BY <3>1, <3>2, <3>3 DEF ClearKnowsAll
  <2>9. FilesAreDue'
    BY <2>5 DEF StateInv, StateTypeOK, FilesAreDue
  <2> QED BY <2>3, <2>6, <2>7, <2>8, <2>9 DEF StateInv, OnlyOverlapsHurt
<1> QED BY <1>2, <1>3

---------------------------------------------------------------------------
(* The steps of a clear.                                                     *)
LEMMA ClearBeginsKeeps ==
  ASSUME StateInv, NEW p \in Procs, ClearBegins(p)
  PROVE  StateInv'
<1>0. op[p].at = "idle" /\ UNCHANGED <<dir, file, temp, saves, crashes>>
  BY DEF ClearBegins, Begins, Doing
<1>a. p \notin Using /\ p \notin Clearing
  BY <1>0, Places DEF SaveAts, LoadAts, ClearAts
<1>1. CASE dir
  <2>1. PICK r \in GlobCall : r.at = "globbed" /\ r.left = Results /\ op' = [op EXCEPT ![p] = r]
    <3>1. [at |-> "globbed", left |-> Results] \in GlobCall
      BY DEF GlobCall, Results, Names
    <3> QED BY <1>1, <3>1 DEF ClearBegins, Begins
  <2>2. /\ unexpected' = unexpected /\ due' = [s \in Steps |-> due[s] \cup {0}]
        /\ overlapped' = IF Using = {} THEN overlapped ELSE overlapped \cup {p} \cup Using
    BY <1>1 DEF ClearBegins, Begins
  <2>3. r \in Calls
    BY DEF Calls
  <2>4. /\ op' \in [Procs -> Calls] /\ op'[p] = r
        /\ \A q \in Procs \ {p} : op'[q] = op[q]
        /\ Clearing' = Clearing \cup {p} /\ Using' = Using
    <3>1. Using \ {p} = Using /\ Clearing \ {p} = Clearing
      BY <1>a
    <3>2. /\ op' \in [Procs -> Calls] /\ op'[p] = r
          /\ \A q \in Procs \ {p} : op'[q] = op[q]
          /\ Clearing' = (Clearing \ {p}) \cup {q \in {p} : r.at \in ClearAts}
          /\ Using' = (Using \ {p}) \cup {q \in {p} : r.at \in SaveAts \cup LoadAts}
      BY <2>1, <2>3, Frame DEF StateInv
    <3>3. {q \in {p} : r.at \in ClearAts} = {p} /\ {q \in {p} : r.at \in SaveAts \cup LoadAts} = {}
      BY <2>1 DEF SaveAts, LoadAts, ClearAts
    <3> QED BY <3>1, <3>2, <3>3
  <2>5. StateTypeOK'
    <3>1. 0 \in 0..MaxSaves
      BY BoundsAssumption
    <3>2. due' \in [Steps -> SUBSET (0..MaxSaves)]
      BY <2>2, <3>1 DEF StateInv, StateTypeOK
    <3>3. overlapped' \subseteq Procs
      BY <2>2, Places DEF StateInv, StateTypeOK
    <3> QED BY <1>0, <2>4, <3>2, <3>3 DEF StateInv, StateTypeOK
  <2>6. TempIsOfSave'
    BY <1>0, <2>1, <2>2, <2>4 DEF StateInv, TempIsOfSave, SaveAts
  <2>7. ClearKnowsAll'
    <3>1. Results' = Results /\ Temporaries' = Temporaries
      BY <1>0 DEF Results, Temporaries
    <3>2. \A q \in Clearing' \ overlapped' : Using' = {}
      BY <2>2, <2>4 DEF StateInv, ClearKnowsAll
    <3>3. \A q \in Clearing' \ overlapped' :
             /\ Results' \subseteq ToClear(q)'
             /\ op'[q].at # "globbed" => Temporaries' \subseteq ToClear(q)'
      <4> SUFFICES ASSUME NEW q \in Clearing' \ overlapped'
                   PROVE /\ Results' \subseteq ToClear(q)'
                         /\ op'[q].at # "globbed" => Temporaries' \subseteq ToClear(q)'
        OBVIOUS
      <4>1. CASE q = p
        BY <2>1, <2>4, <3>1, <4>1 DEF ToClear
      <4>2. CASE q # p
        <5>1. q \in Clearing \ overlapped /\ op'[q] = op[q]
          BY <2>2, <2>4, <4>2, Places
        <5> QED BY <3>1, <5>1 DEF StateInv, ClearKnowsAll, ToClear
      <4> QED BY <4>1, <4>2
    <3>4. Using' \subseteq overlapped'
      BY <2>2, <2>4
    <3>5. \A s \in Steps : 0 \in due'[s]
      BY <2>2
    <3> QED BY <3>2, <3>3, <3>4, <3>5 DEF ClearKnowsAll
  <2> QED BY <1>0, <2>2, <2>5, <2>6, <2>7 DEF StateInv, FilesAreDue, OnlyOverlapsHurt
<1>2. CASE ~dir
  <2>1. /\ op' = [op EXCEPT ![p] = Idle] /\ overlapped' = overlapped \ {p}
        /\ unexpected' = unexpected /\ due' = due
    BY <1>2 DEF ClearBegins, Ends
  <2>2. /\ op' \in [Procs -> Calls] /\ op'[p].at = "idle"
        /\ \A q \in Procs \ {p} : op'[q] = op[q]
        /\ Clearing' = Clearing /\ Using' = Using
    <3>1. Using \ {p} = Using /\ Clearing \ {p} = Clearing
      BY <1>a
    <3> QED BY <2>1, <3>1, GoesOff DEF StateInv
  <2>3. StateTypeOK'
    BY <1>0, <2>1, <2>2 DEF StateInv, StateTypeOK
  <2>4. TempIsOfSave'
    BY <1>0, <2>1, <2>2 DEF StateInv, TempIsOfSave, SaveAts
  <2>5. ClearKnowsAll'
    BY <1>0, <1>a, <2>1, <2>2 DEF StateInv, ClearKnowsAll, Results, Temporaries, ToClear, Clearing
  <2> QED BY <1>0, <2>1, <2>3, <2>4, <2>5 DEF StateInv, FilesAreDue, OnlyOverlapsHurt
<1> QED BY <1>1, <1>2

(* A step of a clear between its begin and its end: the others stay where    *)
(* they are, names go and none comes, and those that are left are known.     *)
LEMMA ClearGoesOn ==
  ASSUME StateInv, NEW p \in Clearing, NEW r \in Calls, op' = [op EXCEPT ![p] = r],
         r.at \in ClearAts, UNCHANGED <<saves, dir, due, overlapped, unexpected>>,
         file' \in [Steps -> 0..MaxSaves],
         temp' \in [Procs \cup {Lost} -> {"none", "torn", "whole"}],
         \A s \in Steps : file'[s] \in {0, file[s]},
         \A n \in Procs \cup {Lost} : temp'[n] \in {"none", temp[n]},
         p \notin overlapped => /\ Results' \subseteq ToClear(p)'
                                /\ r.at # "globbed" => Temporaries' \subseteq ToClear(p)'
  PROVE  StateInv'
<1>0. p \in Procs /\ p \notin Using
  BY Places DEF Clearing, SaveAts, LoadAts, ClearAts
<1>1. /\ op' \in [Procs -> Calls] /\ op'[p] = r
      /\ \A q \in Procs \ {p} : op'[q] = op[q]
      /\ Clearing' = Clearing /\ Using' = Using
  BY <1>0, GoesOn, Places DEF StateInv
<1>2. StateTypeOK'
  BY <1>1 DEF StateInv, StateTypeOK
<1>3. \A q \in Using : q \in overlapped
  BY DEF StateInv, ClearKnowsAll
<1>4. TempIsOfSave'
  <2> SUFFICES ASSUME NEW q \in Procs
               PROVE  /\ op'[q].at \notin {"created", "writing", "closed"} => temp'[q] = "none"
                      /\ op'[q].at = "closed" => temp'[q] # "torn"
                      /\ op'[q].at \in {"created", "writing"} => temp'[q] # "whole"
                      /\ op'[q].at \in SaveAts \cup {"found"} => q \in overlapped'
    BY DEF TempIsOfSave, SaveAts
  <2>1. temp'[q] \in {"none", temp[q]}
    OBVIOUS
  <2>2. CASE q = p
    <3>1. op[p].at \in ClearAts
      BY <1>0, Places
    <3>2. temp[p] = "none"
      BY <1>0, <3>1 DEF StateInv, TempIsOfSave, ClearAts
    <3> QED BY <1>1, <2>1, <2>2, <3>2 DEF ClearAts, SaveAts
  <2>3. CASE q # p
    <3>1. op'[q] = op[q]
      BY <1>1, <2>3
    <3>2. op[q].at \in SaveAts \cup {"found"} => q \in overlapped'
      BY <1>3, Places DEF LoadAts
    <3> QED BY <2>1, <3>1, <3>2 DEF StateInv, TempIsOfSave
  <2> QED BY <2>2, <2>3
<1>5. ClearKnowsAll'
  <2>1. Results' \subseteq Results
    BY DEF Results
  <2>2. Temporaries' \subseteq Temporaries
    BY DEF Temporaries, StateInv, StateTypeOK
  <2>3. \A q \in Clearing' \ overlapped' : Using' = {}
    BY <1>1 DEF StateInv, ClearKnowsAll
  <2>4. \A q \in Clearing' \ overlapped' :
             /\ Results' \subseteq ToClear(q)'
             /\ op'[q].at # "globbed" => Temporaries' \subseteq ToClear(q)'
    <3> SUFFICES ASSUME NEW q \in Clearing' \ overlapped'
                 PROVE /\ Results' \subseteq ToClear(q)'
                       /\ op'[q].at # "globbed" => Temporaries' \subseteq ToClear(q)'
      OBVIOUS
    <3>1. CASE q = p
      BY <1>1, <3>1
    <3>2. CASE q # p
      <4>1. q \in Clearing \ overlapped /\ op'[q] = op[q]
        BY <1>1, <3>2, Places
      <4> QED BY <2>1, <2>2, <4>1 DEF StateInv, ClearKnowsAll, ToClear
    <3> QED BY <3>1, <3>2
  <2>5. \A q \in Using' \ overlapped' : Clearing' = {}
    BY <1>1 DEF StateInv, ClearKnowsAll
  <2>6. Clearing' # {} => \A s \in Steps : 0 \in due'[s]
    BY <1>1 DEF StateInv, ClearKnowsAll
  <2> QED BY <2>3, <2>4, <2>5, <2>6 DEF ClearKnowsAll
<1>6. FilesAreDue'
  BY DEF StateInv, ClearKnowsAll, FilesAreDue
<1> QED BY <1>2, <1>4, <1>5, <1>6 DEF StateInv, OnlyOverlapsHurt

LEMMA ClearGlobsKeeps ==
  ASSUME StateInv, NEW p \in Procs, ClearGlobs(p)
  PROVE  StateInv'
<1>0. /\ op[p].at = "globbed" /\ op[p] \in GlobCall /\ p \in Clearing
      /\ UNCHANGED <<saves, crashes, dir, file, temp, due, overlapped, unexpected>>
  BY Shape, Places DEF StateInv, ClearGlobs, Goes, Doing, Counts, SaveAts, LoadAts, ClearAts
<1> DEFINE u == [at |-> "choosing", left |-> op[p].left \cup Temporaries]
<1>1. PICK r \in Calls : r.at = "choosing" /\ r.left = op[p].left \cup Temporaries
                         /\ op' = [op EXCEPT ![p] = r]
  <2>1. Temporaries \subseteq Names
    BY DEF Temporaries, StateInv, StateTypeOK, Names
  <2>2. u \in GlobCall
    BY <1>0, <2>1 DEF GlobCall
  <2>3. u \in Calls
    BY <2>2 DEF Calls
  <2>4. u.at = "choosing" /\ u.left = op[p].left \cup Temporaries /\ op' = [op EXCEPT ![p] = u]
    BY DEF ClearGlobs, Goes
  <2> QED BY <2>3, <2>4
<1>2. Results' = Results /\ Temporaries' = Temporaries
  BY <1>0 DEF Results, Temporaries
<1>3. ToClear(p)' = op[p].left \cup Temporaries
  BY <1>1 DEF ToClear, StateInv, StateTypeOK
<1>4. p \notin overlapped => Results \subseteq op[p].left
  BY <1>0 DEF StateInv, ClearKnowsAll, ToClear
<1> QED BY <1>0, <1>1, <1>2, <1>3, <1>4, ClearGoesOn DEF ClearAts, StateInv, StateTypeOK

LEMMA ClearOpensKeeps ==
  ASSUME StateInv, NEW p \in Procs, ClearOpens(p)
  PROVE  StateInv'
<1>0. /\ op[p].at = "choosing" /\ op[p].left \subseteq Names /\ p \in Clearing
      /\ UNCHANGED <<saves, crashes, dir, file, temp, due, overlapped, unexpected>>
  BY Shape, Places DEF StateInv, ClearOpens, Goes, Doing, Counts, SaveAts, LoadAts, ClearAts
<1>1. PICK t \in op[p].left :
         op' = [op EXCEPT ![p] = [at |-> IF t \in Results \cup Temporaries THEN "opened" ELSE "choosing",
                                  left |-> op[p].left \ {t}, target |-> t]]
  BY DEF ClearOpens, Goes
<1>2. PICK r \in Calls : /\ r.at = (IF t \in Results \cup Temporaries THEN "opened" ELSE "choosing")
                         /\ r.left = op[p].left \ {t} /\ r.target = t
                         /\ op' = [op EXCEPT ![p] = r]
  <2> DEFINE u == [at |-> IF t \in Results \cup Temporaries THEN "opened" ELSE "choosing",
                   left |-> op[p].left \ {t}, target |-> t]
  <2>1. u \in UnlinkCall
    BY <1>0 DEF UnlinkCall
  <2>2. u \in Calls
    BY <2>1 DEF Calls
  <2>3. /\ u.at = (IF t \in Results \cup Temporaries THEN "opened" ELSE "choosing")
        /\ u.left = op[p].left \ {t} /\ u.target = t
    OBVIOUS
  <2> QED BY <1>1, <2>2, <2>3
<1>3. Results' = Results /\ Temporaries' = Temporaries
  BY <1>0 DEF Results, Temporaries
<1>4. p \notin overlapped => Results \subseteq op[p].left /\ Temporaries \subseteq op[p].left
  BY <1>0 DEF StateInv, ClearKnowsAll, ToClear
<1>5. op'[p] = r
  BY <1>2 DEF StateInv, StateTypeOK
<1>6. p \notin overlapped => Results' \subseteq ToClear(p)' /\ Temporaries' \subseteq ToClear(p)'
  BY <1>2, <1>3, <1>4, <1>5 DEF ToClear
<1>7. r.at \in ClearAts
  BY <1>2 DEF ClearAts
<1> QED BY <1>0, <1>2, <1>6, <1>7, ClearGoesOn DEF StateInv, StateTypeOK

LEMMA ClearUnlinksKeeps ==
  ASSUME StateInv, NEW p \in Procs, ClearUnlinks(p)
  PROVE  StateInv'
<1>0. /\ op[p].at = "opened" /\ op[p] \in UnlinkCall /\ p \in Clearing
      /\ UNCHANGED <<saves, crashes, dir, due, overlapped, unexpected>>
  BY Shape, Places DEF StateInv, ClearUnlinks, Goes, Doing, Counts, SaveAts, LoadAts, ClearAts
<1>1. PICK t \in Names :
         /\ t = op[p].target
         /\ file' = [s \in Steps |-> IF s = t THEN 0 ELSE file[s]]
         /\ temp' = [n \in DOMAIN temp |-> IF n = t THEN "none" ELSE temp[n]]
  BY <1>0 DEF ClearUnlinks, UnlinkCall
<1>2. PICK r \in Calls : /\ r.at = "choosing" /\ r.left = op[p].left
                         /\ op' = [op EXCEPT ![p] = r]
  <2> DEFINE u == [at |-> "choosing", left |-> op[p].left]
  <2>1. u \in GlobCall
    BY <1>0 DEF GlobCall, UnlinkCall
  <2>2. u \in Calls
    BY <2>1 DEF Calls
  <2>3. op' = [op EXCEPT ![p] = u]
    BY DEF ClearUnlinks, Goes
  <2> QED BY <2>2, <2>3
<1>3. file' \in [Steps -> 0..MaxSaves] /\ \A s \in Steps : file'[s] \in {0, file[s]}
  BY <1>1, BoundsAssumption DEF StateInv, StateTypeOK
<1>4. /\ temp' \in [Procs \cup {Lost} -> {"none", "torn", "whole"}]
      /\ \A n \in Procs \cup {Lost} : temp'[n] \in {"none", temp[n]}
  BY <1>1 DEF StateInv, StateTypeOK
<1>5. Results' \subseteq Results \ {t} /\ Temporaries' \subseteq Temporaries \ {t}
  BY <1>1 DEF Results, Temporaries
<1>6. p \notin overlapped =>
        Results \subseteq op[p].left \cup {t} /\ Temporaries \subseteq op[p].left \cup {t}
  BY <1>0, <1>1 DEF StateInv, ClearKnowsAll, ToClear
<1>7. op'[p] = r /\ r.at \in ClearAts
  BY <1>2 DEF StateInv, StateTypeOK, ClearAts
<1>8. p \notin overlapped => Results' \subseteq ToClear(p)' /\ Temporaries' \subseteq ToClear(p)'
  BY <1>2, <1>5, <1>6, <1>7 DEF ToClear
<1> QED BY <1>0, <1>2, <1>3, <1>4, <1>7, <1>8, ClearGoesOn

LEMMA ClearEndsKeeps ==
  ASSUME StateInv, NEW p \in Procs, ClearEnds(p)
  PROVE  StateInv'
<1>0. /\ op[p].at = "choosing" /\ op[p].left = {} /\ p \in Clearing /\ p \notin Using
      /\ UNCHANGED <<saves, crashes, file, temp>>
      /\ dir' = (Results \cup Temporaries # {} /\ dir)
      /\ op' = [op EXCEPT ![p] = Idle] /\ overlapped' = overlapped \ {p}
      /\ due' = IF p \in overlapped THEN due ELSE [s \in Steps |-> {0}]
  BY Places DEF ClearEnds, Ends, Doing, Counts, SaveAts, LoadAts, ClearAts
<1>1. /\ op' \in [Procs -> Calls] /\ op'[p].at = "idle"
      /\ \A q \in Procs \ {p} : op'[q] = op[q]
      /\ Clearing' = Clearing \ {p} /\ Using' = Using
  <2>1. Using \ {p} = Using
    BY <1>0
  <2> QED BY <1>0, <2>1, GoesOff DEF StateInv
<1>2. p \notin overlapped => Results = {} /\ Temporaries = {}
  BY <1>0 DEF StateInv, ClearKnowsAll, ToClear
<1>3. unexpected' = unexpected
  BY <1>0, <1>2 DEF ClearEnds, Ends
<1>4. \A q \in Using : q \in overlapped /\ q # p
  BY <1>0 DEF StateInv, ClearKnowsAll
<1>5. StateTypeOK'
  <2>1. due' \in [Steps -> SUBSET (0..MaxSaves)]
    BY <1>0, BoundsAssumption DEF StateInv, StateTypeOK
  <2>2. dir' \in BOOLEAN
    BY <1>0 DEF StateInv, StateTypeOK
  <2> QED BY <1>0, <1>1, <2>1, <2>2 DEF StateInv, StateTypeOK
<1>6. TempIsOfSave'
  <2> SUFFICES ASSUME NEW q \in Procs
               PROVE  /\ op'[q].at \notin {"created", "writing", "closed"} => temp'[q] = "none"
                      /\ op'[q].at = "closed" => temp'[q] # "torn"
                      /\ op'[q].at \in {"created", "writing"} => temp'[q] # "whole"
                      /\ op'[q].at \in SaveAts \cup {"found"} => q \in overlapped'
    BY DEF TempIsOfSave, SaveAts
  <2>1. CASE q = p
    BY <1>0, <1>1, <2>1 DEF StateInv, TempIsOfSave, SaveAts
  <2>2. CASE q # p
    <3>1. op[q].at \in SaveAts \cup {"found"} => q \in overlapped'
      BY <1>0, <1>4, Places DEF LoadAts
    <3> QED BY <1>0, <1>1, <2>2, <3>1 DEF StateInv, TempIsOfSave
  <2> QED BY <2>1, <2>2
<1>7. ClearKnowsAll'
  <2>1. Results' = Results /\ Temporaries' = Temporaries
    BY <1>0 DEF Results, Temporaries
  <2>2. \A q \in Clearing' \ overlapped' :
             /\ Using' = {}
             /\ Results' \subseteq ToClear(q)'
             /\ op'[q].at # "globbed" => Temporaries' \subseteq ToClear(q)'
    <3> SUFFICES ASSUME NEW q \in Clearing' \ overlapped'
                 PROVE /\ Using' = {}
                       /\ Results' \subseteq ToClear(q)'
                       /\ op'[q].at # "globbed" => Temporaries' \subseteq ToClear(q)'
      OBVIOUS
    <3>1. q \in Clearing \ overlapped /\ op'[q] = op[q]
      BY <1>0, <1>1, Places
    <3> QED BY <1>1, <2>1, <3>1 DEF StateInv, ClearKnowsAll, ToClear
  <2>3. \A q \in Using' : q \in overlapped'
    BY <1>0, <1>1, <1>4
  <2>4. \A s \in Steps : 0 \in due'[s]
    BY <1>0 DEF StateInv, ClearKnowsAll
  <2> QED BY <2>2, <2>3, <2>4 DEF ClearKnowsAll
<1>8. FilesAreDue'
  BY <1>0, <1>2 DEF StateInv, FilesAreDue, Results
<1> QED BY <1>3, <1>5, <1>6, <1>7, <1>8 DEF StateInv, OnlyOverlapsHurt

---------------------------------------------------------------------------
(* The steps of a load.                                                      *)
LEMMA LoadBeginsKeeps ==
  ASSUME StateInv, NEW p \in Procs, LoadBegins(p)
  PROVE  StateInv'
<1>0. /\ op[p].at = "idle" /\ unexpected' = unexpected
      /\ overlapped' = IF Clearing = {} THEN overlapped ELSE overlapped \cup {p} \cup Clearing
      /\ UNCHANGED <<dir, file, temp, saves, crashes, due>>
  BY DEF LoadBegins, Begins, Doing
<1>1. PICK left \in SUBSET Steps : op' = [op EXCEPT ![p] = [at |-> "listed", left |-> left]]
  BY DEF LoadBegins, Begins, Results
<1>2. PICK r \in Calls : r.at = "listed" /\ op' = [op EXCEPT ![p] = r]
  <2> DEFINE u == [at |-> "listed", left |-> left]
  <2>1. u \in ListCall
    BY DEF ListCall
  <2>2. u \in Calls
    BY <2>1 DEF Calls
  <2> QED BY <1>1, <2>2
<1>3. /\ op' \in [Procs -> Calls] /\ op'[p] = r
      /\ \A q \in Procs \ {p} : op'[q] = op[q]
      /\ Clearing' = Clearing /\ Using' = Using \cup {p} /\ p \notin Clearing
  BY <1>0, <1>2, Frame, Places, ZenonT(60) DEF StateInv, SaveAts, LoadAts, ClearAts
<1>4. StateTypeOK'
  BY <1>0, <1>3, Places DEF StateInv, StateTypeOK
<1>5. TempIsOfSave'
  BY <1>0, <1>2, <1>3 DEF StateInv, TempIsOfSave, SaveAts
<1>6. ClearKnowsAll'
  BY <1>0, <1>3 DEF StateInv, ClearKnowsAll, Results, Temporaries, ToClear, Clearing
<1> QED BY <1>0, <1>4, <1>5, <1>6 DEF StateInv, FilesAreDue, OnlyOverlapsHurt

(* A load that ends, or goes on to a step whose file is there when found.    *)
LEMMA LoadGoesOff ==
  ASSUME StateInv, NEW p \in Procs, op[p].at \in LoadAts, op' = [op EXCEPT ![p] = Idle],
         overlapped' = overlapped \ {p},
         UNCHANGED <<saves, crashes, dir, file, temp, due, unexpected>>
  PROVE  StateInv'
<1>0. p \in Using /\ p \notin Clearing
  BY Places DEF SaveAts, LoadAts, ClearAts
<1>1. /\ op' \in [Procs -> Calls] /\ op'[p].at = "idle"
      /\ \A q \in Procs \ {p} : op'[q] = op[q]
      /\ Clearing' = Clearing /\ Using' = Using \ {p}
  BY <1>0, GoesOffUser DEF StateInv
<1>2. StateTypeOK'
  BY <1>1 DEF StateInv, StateTypeOK
<1>3. TempIsOfSave'
  BY <1>1 DEF StateInv, TempIsOfSave, SaveAts, LoadAts
<1>4. ClearKnowsAll'
  BY <1>0, <1>1 DEF StateInv, ClearKnowsAll, Results, Temporaries, ToClear, Clearing
<1> QED BY <1>2, <1>3, <1>4 DEF StateInv, FilesAreDue, OnlyOverlapsHurt

LEMMA LoadGoesOn ==
  ASSUME StateInv, NEW p \in Procs, op[p].at \in LoadAts, NEW r \in Calls, r.at \in LoadAts,
         r.at = "found" => file[r.step] # 0, op' = [op EXCEPT ![p] = r],
         UNCHANGED <<saves, crashes, dir, file, temp, due, overlapped, unexpected>>
  PROVE  StateInv'
<1>0. p \in Using /\ p \notin Clearing
  BY Places DEF SaveAts, LoadAts, ClearAts
<1>1. /\ op' \in [Procs -> Calls] /\ op'[p] = r
      /\ \A q \in Procs \ {p} : op'[q] = op[q]
      /\ Clearing' = Clearing /\ Using' = Using
  BY GoesOn DEF StateInv
<1>2. StateTypeOK'
  BY <1>1 DEF StateInv, StateTypeOK
<1>3. TempIsOfSave'
  BY <1>1 DEF StateInv, TempIsOfSave, SaveAts, LoadAts
<1>4. ClearKnowsAll'
  BY <1>0, <1>1 DEF StateInv, ClearKnowsAll, Results, Temporaries, ToClear, Clearing
<1> QED BY <1>2, <1>3, <1>4 DEF StateInv, FilesAreDue, OnlyOverlapsHurt

LEMMA LoadLooksKeeps ==
  ASSUME StateInv, NEW p \in Procs, LoadLooks(p)
  PROVE  StateInv'
<1>0. /\ op[p].at = "listed" /\ op[p].left \in SUBSET Steps /\ op[p].at \in LoadAts
      /\ UNCHANGED <<saves, crashes, dir, file, temp, due, unexpected>>
  BY Shape DEF StateInv, LoadLooks, Goes, Ends, Doing, Counts, LoadAts
<1>1. CASE op[p].left = {}
  BY <1>0, <1>1, LoadGoesOff DEF LoadLooks, Ends
<1>2. CASE op[p].left # {}
  <2>1. overlapped' = overlapped
    BY <1>2 DEF LoadLooks, Goes
  <2>2. PICK s \in op[p].left :
           op' = [op EXCEPT ![p] = [at |-> IF file[s] = 0 THEN "listed" ELSE "found",
                                    left |-> op[p].left \ {s}, step |-> s]]
    BY <1>2 DEF LoadLooks, Goes
  <2> DEFINE u == [at |-> IF file[s] = 0 THEN "listed" ELSE "found",
                   left |-> op[p].left \ {s}, step |-> s]
  <2>3. u \in ReadCall /\ u.at \in LoadAts
    BY <1>0 DEF ReadCall, LoadAts
  <2>4. u \in Calls
    BY <2>3 DEF Calls
  <2>5. u.at = "found" => file[u.step] # 0
    OBVIOUS
  <2>6. PICK r \in Calls : /\ op' = [op EXCEPT ![p] = r] /\ r.at \in LoadAts
                           /\ r.at = "found" => file[r.step] # 0
    BY <2>2, <2>3, <2>4, <2>5
  <2> QED BY <1>0, <2>1, <2>6, LoadGoesOn
<1> QED BY <1>1, <1>2

LEMMA LoadReadsKeeps ==
  ASSUME StateInv, NEW p \in Procs, LoadReads(p)
  PROVE  StateInv'
<1>0. /\ op[p].at = "found" /\ op[p] \in ReadCall /\ op[p].at \in LoadAts
      /\ UNCHANGED <<saves, crashes, dir, file, temp, due>>
  BY Shape DEF StateInv, LoadReads, Doing, Counts, LoadAts
<1>1. CASE file[op[p].step] \in {0, Torn}
  <2>1. op[p].step \in Steps
    BY <1>0 DEF ReadCall
  <2>2. file[op[p].step] # Torn
    BY <2>1, BoundsAssumption DEF StateInv, StateTypeOK, Torn
  <2>3. p \in overlapped
    BY <1>0, <1>1, <2>2 DEF StateInv, TempIsOfSave
  <2>4. op' = [op EXCEPT ![p] = Idle] /\ overlapped' = overlapped \ {p} /\ unexpected' = unexpected
    BY <1>1, <2>3 DEF LoadReads, Ends
  <2> QED BY <1>0, <2>4, LoadGoesOff
<1>2. CASE file[op[p].step] \notin {0, Torn}
  <2> DEFINE u == [at |-> "listed", left |-> op[p].left]
  <2>1. u \in ListCall
    BY <1>0 DEF ListCall, ReadCall
  <2>2. u \in Calls
    BY <2>1 DEF Calls
  <2>3. op' = [op EXCEPT ![p] = u] /\ UNCHANGED <<overlapped, unexpected>>
    BY <1>2 DEF LoadReads, Goes
  <2>4. PICK r \in Calls : op' = [op EXCEPT ![p] = r] /\ r.at = "listed"
    BY <2>2, <2>3
  <2> QED BY <1>0, <2>3, <2>4, LoadGoesOn DEF LoadAts
<1> QED BY <1>1, <1>2

---------------------------------------------------------------------------
(* A crash of a process that saves leaves its temporary file, and no clear   *)
(* that nothing has overlapped is at work then.                              *)
LEMMA CrashKeeps ==
  ASSUME StateInv, NEW p \in Procs, Crash(p)
  PROVE  StateInv'
<1>0. /\ UNCHANGED <<dir, file, saves, due, unexpected>>
      /\ op' = [op EXCEPT ![p] = Idle] /\ overlapped' = overlapped \ {p}
      /\ temp' = [temp EXCEPT ![p] = "none", ![Lost] = IF temp[p] = "none" THEN temp[Lost] ELSE "torn"]
  <2>1. Lost \in Procs \cup {Lost} /\ p # Lost
    BY NamesAssumption DEF Lost
  <2> QED BY <2>1 DEF Crash, Ends, StateInv, StateTypeOK
<1>1. /\ op' \in [Procs -> Calls] /\ op'[p].at = "idle"
      /\ \A q \in Procs \ {p} : op'[q] = op[q]
      /\ Clearing' = Clearing \ {p} /\ Using' = Using \ {p}
  BY <1>0, GoesOff DEF StateInv
<1>2. /\ temp' \in [Procs \cup {Lost} -> {"none", "torn", "whole"}] /\ temp'[p] = "none"
      /\ \A q \in Procs \ {p} : temp'[q] = temp[q]
      /\ temp[p] = "none" => temp'[Lost] = temp[Lost]
  BY <1>0, NamesAssumption DEF StateInv, StateTypeOK, Lost
<1>3. StateTypeOK'
  BY <1>0, <1>1, <1>2 DEF StateInv, StateTypeOK
<1>4. TempIsOfSave'
  BY <1>0, <1>1, <1>2 DEF StateInv, TempIsOfSave, SaveAts
<1>5. ClearKnowsAll'
  <2>1. Results' = Results
    BY <1>0 DEF Results
  <2>2. \A q \in Clearing' \ overlapped' :
             /\ Using' = {}
             /\ Results' \subseteq ToClear(q)'
             /\ op'[q].at # "globbed" => Temporaries' \subseteq ToClear(q)'
    <3> SUFFICES ASSUME NEW q \in Clearing' \ overlapped'
                 PROVE /\ Using' = {}
                       /\ Results' \subseteq ToClear(q)'
                       /\ op'[q].at # "globbed" => Temporaries' \subseteq ToClear(q)'
      OBVIOUS
    <3>1. q \in Clearing \ overlapped /\ op'[q] = op[q]
      BY <1>0, <1>1, Places
    <3>2. p \notin Using
      BY <3>1 DEF StateInv, ClearKnowsAll
    <3>3. op[p].at \notin {"created", "writing", "closed"}
      BY <3>2, Places DEF SaveAts, LoadAts
    <3>4. temp[p] = "none"
      BY <3>3 DEF StateInv, TempIsOfSave
    <3>5. Temporaries' \subseteq Temporaries
      BY <1>2, <3>4 DEF Temporaries, StateInv, StateTypeOK
    <3> QED BY <1>1, <2>1, <3>1, <3>5 DEF StateInv, ClearKnowsAll, ToClear
  <2>3. \A q \in Using' \ overlapped' : Clearing' = {}
    BY <1>0, <1>1 DEF StateInv, ClearKnowsAll
  <2>4. Clearing' # {} => \A s \in Steps : 0 \in due'[s]
    BY <1>0, <1>1 DEF StateInv, ClearKnowsAll
  <2> QED BY <2>2, <2>3, <2>4 DEF ClearKnowsAll
<1> QED BY <1>0, <1>3, <1>4, <1>5 DEF StateInv, FilesAreDue, OnlyOverlapsHurt

---------------------------------------------------------------------------
LEMMA StateStepInv == StateInv /\ [StateStep]_stateVars => StateInv'
<1> SUFFICES ASSUME StateInv, [StateStep]_stateVars PROVE StateInv'
  OBVIOUS
<1>1. CASE UNCHANGED stateVars
  BY <1>1 DEF stateVars, StateInv, StateTypeOK, TempIsOfSave, ClearKnowsAll, FilesAreDue,
              OnlyOverlapsHurt, Clearing, Using, Results, Temporaries, ToClear
<1>2. CASE StateStep
  <2>1. PICK p \in Procs :
          \/ \E s \in Steps : SaveBegins(p, s)
          \/ SaveCreates(p) \/ SaveLocks(p) \/ SaveWrites(p) \/ SaveRenames(p)
          \/ ClearBegins(p) \/ ClearGlobs(p) \/ ClearOpens(p) \/ ClearUnlinks(p) \/ ClearEnds(p)
          \/ LoadBegins(p) \/ LoadLooks(p) \/ LoadReads(p) \/ Crash(p)
    BY <1>2 DEF StateStep
  <2>2. CASE \E s \in Steps : SaveBegins(p, s)
    BY <2>2, SaveBeginsKeeps
  <2>3. CASE SaveCreates(p) \/ SaveLocks(p) \/ SaveWrites(p) \/ SaveRenames(p)
    BY <2>3, SaveCreatesKeeps, SaveLocksKeeps, SaveWritesKeeps, SaveRenamesKeeps
  <2>4. CASE ClearBegins(p) \/ ClearGlobs(p) \/ ClearOpens(p) \/ ClearUnlinks(p) \/ ClearEnds(p)
    BY <2>4, ClearBeginsKeeps, ClearGlobsKeeps, ClearOpensKeeps, ClearUnlinksKeeps, ClearEndsKeeps
  <2>5. CASE LoadBegins(p) \/ LoadLooks(p) \/ LoadReads(p) \/ Crash(p)
    BY <2>5, LoadBeginsKeeps, LoadLooksKeeps, LoadReadsKeeps, CrashKeeps
  <2> QED BY <2>1, <2>2, <2>3, <2>4, <2>5
<1> QED BY <1>1, <1>2

(* Whatever processes save, load and clear at the same time and wherever     *)
(* they crash, a step's file is one that its completed calls account for.    *)
THEOREM FilesStayDue == StateSpec => []FilesAreDue
<1>1. StateInv => FilesAreDue
  BY DEF StateInv
<1> QED BY <1>1, StateInitInv, StateStepInv, PTL DEF StateSpec

(* A save or a load fails, and a clear leaves something, only where calls    *)
(* that conflict overlap.                                                    *)
THEOREM AloneNothingFails == StateSpec => []OnlyOverlapsHurt
<1>1. StateInv => OnlyOverlapsHurt
  BY DEF StateInv
<1> QED BY <1>1, StateInitInv, StateStepInv, PTL DEF StateSpec
=============================================================================
