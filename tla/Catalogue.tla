----------------------------- MODULE Catalogue -----------------------------
(* The files that commands keep books in: the catalogue of published         *)
(* domains, workspace.yaml, mcp_servers.yaml, tool packs and scaffolds.      *)
(* Every command reads a file whole, changes it and writes it over the old   *)
(* one: it opens, which empties the file, and then writes.  Several run at a *)
(* time and each may die.                                                    *)
EXTENDS Naturals, Sequences, FiniteSets, SequencesExt

CONSTANTS
    Users,          \* processes
    Versions,       \* what is published, registered or added: names, all alike
    MaxCommands

Index == "index.json"
Domains1 == "workspace.yaml"
ServersBook == "mcp_servers.yaml"
Books == {Index, Domains1, ServersBook}
ToolPack == "toolpack.yaml"
Manifest == "manifest.yaml"     \* of a scaffolded domain, agent, pack or workflow
Prompt == "system_prompt.md"
Entry(n) == n                   \* <domain>@<version>.json

ASSUME VersionsAssumption == Versions \cap (Books \cup {ToolPack, Manifest, Prompt}) = {}

VARIABLES
    disk,           \* file -> [is, has]: absent, torn or whole, and what it lists or holds
    user,           \* process -> [pc, name, left, next]: the files left to write, the content it will write
    begun,          \* commands begun
    clashed,     \* history: files two processes were busy with at once
    died,           \* history: files a process died over
    finished,       \* history: <<file, name>> written
    edited          \* history: files a user has edited

catalogueVars == <<disk, user, begun, clashed, died, finished, edited>>

Files == Books \cup {ToolPack, Manifest, Prompt} \cup Versions
Free == [pc |-> "free", name |-> Index, left |-> <<>>, next |-> <<>>]
AbsentFile == [is |-> "absent", has |-> <<>>]

CatalogueInit ==
    /\ disk = [f \in Files |-> AbsentFile] /\ user = [u \in Users |-> Free]
    /\ begun = 0 /\ clashed = {} /\ died = {} /\ finished = {} /\ edited = {}

At(u) == Head(user[u].left)
Busy(u, f) == user[u].pc \in {"opens", "writes"} /\ At(u) = f
Touches(u) ==
    clashed' = IF \E w \in Users \ {u} : Busy(w, At(u)) THEN clashed \cup {At(u)} ELSE clashed

---------------------------------------------------------------------------
Begins(u, n, todo) ==
    /\ user[u].pc = "free" /\ begun < MaxCommands /\ begun' = begun + 1
    /\ user' = [user EXCEPT ![u] = [pc |-> "looks", name |-> n, left |-> todo, next |-> <<>>]]
    /\ UNCHANGED <<disk, clashed, died, finished, edited>>

(* Variant: the index first.                                                 *)
PublishIndexFirst(u, n) == Begins(u, n, <<Index, Entry(n)>>)

Publish(u, n) == Begins(u, n, <<Entry(n), Index>>)
RegisterDomain(u, n) == Begins(u, n, <<Domains1>>)
McpAdd(u, n) == Begins(u, n, <<ServersBook>>)
ToolCreate(u) == Begins(u, ToolPack, <<ToolPack>>)
ScaffoldAgent(u) == Begins(u, Manifest, <<Manifest, Prompt>>)
ScaffoldOther(u) == Begins(u, Manifest, <<Manifest>>)       \* a domain, workflow or pack

---------------------------------------------------------------------------
WillWrite(u, content) == user' = [user EXCEPT ![u].pc = "opens", ![u].next = content]
Ends(u) == user' = [user EXCEPT ![u] = Free]

(* A torn index cannot be read, and publish fails with its entry written; a  *)
(* version that is listed is not listed again, and the index written anew.   *)
LooksAtIndex(u) ==
    LET has == disk[Index].has IN
    /\ user[u].pc = "looks" /\ At(u) = Index
    /\ IF disk[Index].is = "torn" THEN Ends(u)
       ELSE WillWrite(u, IF user[u].name \in ToSet(has) THEN has ELSE Append(has, user[u].name))
    /\ Touches(u) /\ UNCHANGED <<disk, begun, died, finished, edited>>

(* A torn YAML file is empty, and then it lists nothing; or it is no YAML.   *)
LooksAtYaml(u) ==
    LET f == At(u)
        has == disk[f].has
    IN
    /\ user[u].pc = "looks" /\ f \in {Domains1, ServersBook}
    /\ IF disk[f].is = "torn" THEN Ends(u) \/ WillWrite(u, <<user[u].name>>)
       ELSE IF user[u].name \in ToSet(has) THEN Ends(u) ELSE WillWrite(u, Append(has, user[u].name))
    /\ Touches(u) /\ UNCHANGED <<disk, begun, died, finished, edited>>

LooksForPack(u) ==
    /\ user[u].pc = "looks" /\ At(u) = ToolPack
    /\ IF disk[ToolPack].is = "absent" THEN WillWrite(u, <<"template">>) ELSE Ends(u)
    /\ Touches(u) /\ UNCHANGED <<disk, begun, died, finished, edited>>

(* Entries and scaffolds are written over whatever is there.                 *)
DoesNotLook(u) ==
    /\ user[u].pc = "looks" /\ At(u) \in Versions \cup {Manifest, Prompt}
    /\ WillWrite(u, <<"template">>)
    /\ Touches(u) /\ UNCHANGED <<disk, begun, died, finished, edited>>

Opens(u) ==
    /\ user[u].pc = "opens"
    /\ disk' = [disk EXCEPT ![At(u)] = [is |-> "torn", has |-> <<>>]]
    /\ user' = [user EXCEPT ![u].pc = "writes"]
    /\ Touches(u) /\ UNCHANGED <<begun, died, finished, edited>>

Writes(u) ==
    /\ user[u].pc = "writes"
    /\ disk' = [disk EXCEPT ![At(u)] = [is |-> "whole", has |-> user[u].next]]
    /\ finished' = finished \cup {<<At(u), user[u].name>>}
    /\ IF Len(user[u].left) = 1 THEN Ends(u)
       ELSE user' = [user EXCEPT ![u].pc = "looks", ![u].left = Tail(@)]
    /\ Touches(u) /\ UNCHANGED <<begun, died, edited>>

Dies(u) ==
    /\ user[u].pc \in {"opens", "writes"} /\ died' = died \cup {At(u)} /\ Ends(u)
    /\ UNCHANGED <<disk, begun, clashed, finished, edited>>

(* A user fills in what was scaffolded.                                      *)
Edits(f) ==
    /\ disk[f].is = "whole" /\ disk[f].has = <<"template">> /\ begun < MaxCommands
    /\ disk' = [disk EXCEPT ![f].has = <<"edited">>] /\ edited' = edited \cup {f} /\ begun' = begun + 1
    /\ UNCHANGED <<user, clashed, died, finished>>

(* discover raises while one of the entries is torn.                         *)
CanDiscover == \A n \in Versions : disk[n].is # "torn"

CatalogueStep ==
    \/ \E u \in Users, n \in Versions : Publish(u, n) \/ RegisterDomain(u, n) \/ McpAdd(u, n)
    \/ \E u \in Users :
          \/ ToolCreate(u) \/ ScaffoldAgent(u) \/ ScaffoldOther(u)
          \/ LooksAtIndex(u) \/ LooksAtYaml(u) \/ LooksForPack(u) \/ DoesNotLook(u)
          \/ Opens(u) \/ Writes(u) \/ Dies(u)
    \/ \E f \in {ToolPack, Manifest} : Edits(f)

CatalogueSpec == CatalogueInit /\ [][CatalogueStep]_catalogueVars

---------------------------------------------------------------------------
(* What the index lists has an entry file; one is torn only while somebody   *)
(* publishes it again, or somebody died over it.                             *)
ListedHasEntry ==
    /\ \A n \in ToSet(disk[Index].has) : disk[n].is # "absent"
    /\ ~CanDiscover => \E n \in Versions : n \in died \/ \E u \in Users : user[u].pc = "writes" /\ At(u) = n

(* A book lists nothing twice, and everything that was written to it unless  *)
(* two processes were busy with it or one died over it.                      *)
BooksHold ==
    \A b \in Books :
        /\ \A i, j \in DOMAIN disk[b].has : disk[b].has[i] = disk[b].has[j] => i = j
        /\ b \notin clashed \cup died /\ disk[b].is = "whole" =>
              \A n \in Versions : <<b, n>> \in finished => n \in ToSet(disk[b].has)
        /\ disk[b].is = "torn" => b \in died \/ \E u \in Users : Busy(u, b)

(* What a user wrote into a tool pack stays, unless two had begun to create  *)
(* the pack; a pack that is torn is never repaired.                          *)
PackKeepsEdits ==
    ToolPack \in edited /\ ToolPack \notin clashed => disk[ToolPack].has = <<"edited">>

(* Whatever commands run, overlap and die in between, the books keep these.  *)
CatalogueHolds == ListedHasEntry /\ BooksHold /\ PackKeepsEdits
=============================================================================
