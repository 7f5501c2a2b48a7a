---------------------------- MODULE ToolAuthority ----------------------------
(***************************************************************************)
(* Who decides what a tool call may do: AgentRunner.run installs the       *)
(* permissions and the file allowlist of its task in the one ToolExecutor  *)
(* all tasks of a workflow share, ToolExecutor.execute consults them and   *)
(* the RuleEngine, and the RuleEngine re-reads rules.yaml when it notices  *)
(* a change.  A task waits, and its siblings go on, while its model or a   *)
(* tool is at work.                                                        *)
(***************************************************************************)
EXTENDS Integers, FiniteSets

CONSTANTS
  Task,        \* agent executions that share an AgentRunner
  NoTask,      \* in place of a task: None in the executor
  Tool,        \* tools, by the action they map to
  Approved,    \* those of the approved library and the MCP configuration
  Path,        \* what a call is about
  Writers,     \* the tools the file allowlist is about
  Adapters,    \* tools with a registered adapter
  Permissions, \* the permissions in the manifest of a task's agent
  Targets,     \* the targeted_files in a task's input, {} when absent
  RuleSet,     \* contents rules.yaml may have
  FirstFile,   \* its content when the engine is made
  NoFile,      \* there is no such file
  Broken,      \* a file that is not YAML
  MaxActive,   \* executions in flight together: the width of a layer
  MaxMtime     \* bound: the times a file may bear

Decision == {"deny", "ask", "allow"}
Setting  == Decision \cup {"unset"}
Call     == [tool: Tool, path: Path]
Rules    == [ blocked: SUBSET Call, category: [Task -> [Tool -> Setting]],
              default: [Tool -> Decision] ]
NoRules  == [ blocked |-> {}, category |-> [t \in Task |-> [x \in Tool |-> "unset"]],
              default |-> [x \in Tool |-> "ask"] ]
File     == [content: RuleSet \cup {NoFile, Broken}, mtime: Nat]

ASSUME TaskAssumption  == NoTask \notin Task
ASSUME ToolAssumption  == (Writers \cup Adapters \cup Approved) \subseteq Tool
ASSUME OwnAssumption   == /\ Permissions \in [Task -> [Tool -> Setting]]
                          /\ Targets \in [Task -> SUBSET Path]
ASSUME RulesAssumption == /\ RuleSet \subseteq Rules
                          /\ NoFile \notin RuleSet \cup {Broken} /\ Broken \notin RuleSet
                          /\ FirstFile \in RuleSet \cup {NoFile}
ASSUME BoundAssumption == MaxActive \in Nat \ {0} /\ MaxMtime \in Nat \ {0}

VARIABLES
  active,   \* executions in flight
  waiting,  \* those of them that wait for a tool
  context,  \* _rule_context: the task whose permissions are installed
  targeted, \* _targeted_files: the task whose allowlist is installed
  file,     \* rules.yaml
  loaded,   \* _data and _last_mtime
  checked,  \* the file was looked at within the debounce window
  edited,   \* history: it has changed since
  missed,   \* history: its latest change came between read_text and stat, or
            \* bears a time no newer than the one remembered
  mixed,    \* history: executions that overlapped with another
  last      \* history: the latest tool call, its verdict, and the verdict
            \* its own task's permissions and allowlist give

rules == <<file, loaded, checked, edited, missed>>
vars  == <<active, waiting, context, targeted, rules, mixed, last>>

Verdict == {"denied", "outside", "missing", "invoked"}
NoCall  == [task |-> NoTask, verdict |-> "missing", own |-> "missing"]

(***************************************************************************)
(* RuleEngine.check_tool_call.  Without a context only platform rules and  *)
(* defaults are left; "ask" does not stop a call.  No context has trusted  *)
(* paths, domain, workflow or runtime layers: AgentRunner fills in none.   *)
(***************************************************************************)
Layers(c, tool, r) ==
  IF c = NoTask THEN {} ELSE {r.category[c][tool], Permissions[c][tool]} \ {"unset"}

Merged(c, tool, r) ==
  LET given == Layers(c, tool, r)
  IN  CASE given = {}       -> r.default[tool]
        [] "deny" \in given -> "deny"
        [] "ask" \in given  -> "ask"
        [] OTHER            -> "allow"

Denies(c, call, r) ==
  \/ call.tool \notin Approved
  \/ call \in r.blocked
  \/ Merged(c, call.tool, r) = "deny"

(* ToolExecutor.execute, up to the adapter.                                 *)
Outside(w, call) == w # NoTask /\ call.tool \in Writers /\ call.path \notin Targets[w]

Judge(c, w, call, r) ==
  IF Denies(c, call, r) THEN "denied"
  ELSE IF Outside(w, call) THEN "outside"
  ELSE IF call.tool \notin Adapters THEN "missing"
  ELSE "invoked"

OwnTarget(t) == IF Targets[t] = {} THEN NoTask ELSE t

-----------------------------------------------------------------------------
(***************************************************************************)
(* RuleEngine._hot_reload.  The file is looked at once in a debounce       *)
(* window, and read again when its mtime is newer than that of the load    *)
(* before; the mtime that is remembered is taken after the file was read.  *)
(***************************************************************************)
(* Bug: a change within a second of the last goes unnoticed.                *)
NewerCoarse == file.content # NoFile /\ file.mtime > loaded.mtime + 1
Newer       == file.content # NoFile /\ file.mtime > loaded.mtime

(* What may take its place: an edit, a restored copy or another checkout,   *)
(* whatever times they bear.                                                *)
Replacement == [content: RuleSet \cup {NoFile, Broken}, mtime: 1..MaxMtime]

LooksAway == checked /\ UNCHANGED rules

FindsNothing ==
  /\ ~checked /\ ~Newer
  /\ checked' = TRUE /\ edited' = FALSE
  /\ UNCHANGED <<file, loaded, missed>>

Reloads ==
  /\ ~checked /\ Newer /\ file.content # Broken
  /\ \/ /\ loaded' = [data |-> file.content, mtime |-> file.mtime]
        /\ missed' = FALSE
        /\ UNCHANGED file
     \/ /\ file' \in Replacement
        /\ loaded' = [ data  |-> file.content,
                       mtime |-> IF file'.content = NoFile THEN loaded.mtime ELSE file'.mtime ]
        /\ missed' = TRUE
  /\ checked' = TRUE /\ edited' = FALSE

HotReload == LooksAway \/ FindsNothing \/ Reloads

(* yaml.safe_load raises, and nothing between it and AgentRunner.run        *)
(* catches that.                                                            *)
ReloadFails ==
  /\ ~checked /\ Newer /\ file.content = Broken
  /\ checked' = TRUE /\ edited' = FALSE
  /\ UNCHANGED <<file, loaded, missed>>

EditRules ==
  /\ file' \in Replacement
  /\ edited' = TRUE
  /\ missed' = (file'.mtime <= loaded.mtime)
  /\ UNCHANGED <<active, waiting, context, targeted, loaded, checked, mixed, last>>

WindowEnds ==
  /\ checked
  /\ checked' = FALSE
  /\ UNCHANGED <<active, waiting, context, targeted, file, loaded, edited, missed, mixed, last>>

-----------------------------------------------------------------------------
Init ==
  /\ active = {} /\ waiting = {} /\ mixed = {}
  /\ context = NoTask /\ targeted = NoTask
  /\ file = [content |-> FirstFile, mtime |-> 1]
  /\ loaded = IF FirstFile = NoFile THEN [data |-> NoRules, mtime |-> 0]
              ELSE [data |-> FirstFile, mtime |-> 1]
  /\ checked = FALSE /\ edited = FALSE /\ missed = FALSE
  /\ last = NoCall

(* AgentRunner.run up to strategy.execute.                                  *)
Begin(t) ==
  /\ t \notin active /\ Cardinality(active) < MaxActive
  /\ active' = active \cup {t}
  /\ mixed' = IF active = {} THEN mixed ELSE mixed \cup active'
  /\ context' = t
  /\ targeted' = IF Targets[t] = {} THEN targeted ELSE t
  /\ UNCHANGED <<waiting, rules, last>>

(* The finally of AgentRunner.run, however the strategy ended.              *)
(* Bug: the allowlist stays.                                                *)
LeaveKeeping(t) ==
  /\ active' = active \ {t} /\ mixed' = mixed \ {t}
  /\ context' = NoTask
  /\ UNCHANGED targeted

Leave(t) ==
  /\ active' = active \ {t} /\ mixed' = mixed \ {t}
  /\ context' = NoTask
  /\ targeted' = IF Targets[t] = {} THEN targeted ELSE NoTask

(* The model asks for a tool.  A refused call is answered at once.          *)
CallTool(t) ==
  /\ t \in active \ waiting
  /\ HotReload
  /\ \E call \in Call :
       LET verdict == Judge(context, targeted, call, loaded'.data)
       IN  /\ waiting' = IF verdict = "invoked" THEN waiting \cup {t} ELSE waiting
           /\ last' = [task |-> t, verdict |-> verdict,
                       own |-> Judge(t, OwnTarget(t), call, loaded'.data)]
  /\ UNCHANGED <<active, context, targeted, mixed>>

ToolReturns(t) ==
  /\ t \in waiting
  /\ waiting' = waiting \ {t}
  /\ UNCHANGED <<active, context, targeted, rules, mixed, last>>

CallRaises(t) ==
  /\ t \in active \ waiting
  /\ ReloadFails
  /\ Leave(t)
  /\ UNCHANGED <<waiting, last>>

(* The strategy returns or raises, or the request is cancelled on timeout.  *)
End(t) ==
  /\ t \in active
  /\ Leave(t)
  /\ waiting' = waiting \ {t}
  /\ UNCHANGED <<rules, last>>

Next ==
  \/ \E t \in Task : Begin(t) \/ CallTool(t) \/ ToolReturns(t) \/ CallRaises(t) \/ End(t)
  \/ EditRules \/ WindowEnds

Spec == Init /\ [][Next]_vars

-----------------------------------------------------------------------------
(* Every variable stays within the values the code can give it.             *)
TypeOK ==
  /\ active \in SUBSET Task /\ waiting \in SUBSET active /\ mixed \in SUBSET active
  /\ context \in Task \cup {NoTask} /\ targeted \in Task \cup {NoTask}
  /\ file \in File
  /\ loaded \in [data: RuleSet \cup {NoRules}, mtime: Nat]
  /\ checked \in BOOLEAN /\ edited \in BOOLEAN /\ missed \in BOOLEAN
  /\ last \in [task: Task \cup {NoTask}, verdict: Verdict, own: Verdict]

(* Whatever overlapped and in whatever order executions ended, nobody's     *)
(* permissions and nobody's allowlist are left in the shared executor when  *)
(* none is in flight.                                                       *)
CleanWhenIdle == active = {} => context = NoTask /\ targeted = NoTask

(* The calls of an execution no other overlaps are judged by the manifest   *)
(* and the task it belongs to: executions before it, overlapping or not,    *)
(* have left nothing behind that loosens or tightens its verdicts.          *)
AloneIsJudgedByOwn == [][\A t \in Task \ mixed : CallTool(t) => last'.verdict = last'.own]_vars

(* Whatever replaced rules.yaml how often and when, the first tool call     *)
(* after a debounce window judges by the file as it is, unless the latest   *)
(* change came while the file was being read, or bears a time that is not   *)
(* newer than the one the engine remembers.                                 *)
EditsTakeEffect ==
  checked /\ ~edited /\ ~missed /\ file.content \notin {NoFile, Broken}
    => loaded.data = file.content

(* What the code's own comments say of it and the code does not do: a task  *)
(* is judged by its own permissions and allowlist.                          *)
JudgedByOwn == last.verdict = last.own

(* The inductive invariant, in two parts: an installed allowlist has an execution that    *)
(* will take it away, and an execution that is alone has its own installed. *)
Installed ==
  /\ context # NoTask => active # {}
  /\ targeted # NoTask => \E t \in active : Targets[t] # {}
  /\ \A t \in active \ mixed :
       active = {t} /\ context = t /\ targeted = OwnTarget(t)

(* While no change was missed, what is in memory is the file, or the file is *)
(* newer, and one look at it brings memory up to date.                      *)
Readable == file.content \notin {NoFile, Broken}

Current ==
  Readable /\ ~missed =>
    /\ loaded.mtime <= file.mtime
    /\ loaded.mtime = file.mtime => loaded.data = file.content
    /\ checked /\ ~edited => loaded.mtime = file.mtime

IInv == TypeOK /\ Installed /\ Current
=============================================================================
