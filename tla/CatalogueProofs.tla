-------------------------- MODULE CatalogueProofs ---------------------------
(***************************************************************************)
(* Theorems about the catalogue, the credentials and the loops that retry. *)
(***************************************************************************)
EXTENDS Catalogue, Credentials, RetryLoops, SequenceTheorems, FiniteSetTheorems, WellFoundedInduction, TLAPS

---------------------------------------------------------------------------
(* The books.  What files hold and what the commands are at.                 *)
Lists == Seq(Versions \cup {"template", "edited"})
Todo(n, left) ==
    \/ n \in Versions /\ left \in {<<Entry(n), Index>>, <<Index>>, <<Domains1>>, <<ServersBook>>}
    \/ left \in {<<ToolPack>>, <<Manifest, Prompt>>, <<Manifest>>, <<Prompt>>}
Commands1 == [pc : {"free", "looks", "opens", "writes"}, name : Files, left : Seq(Files), next : Lists]
FileStates == [is : {"absent", "torn", "whole"}, has : Lists]
CatalogueTypeOK ==
    /\ disk \in [Files -> FileStates]
    /\ user \in [Users -> Commands1]
    /\ edited \subseteq Files

NoneTwice(s) == \A i, j \in DOMAIN s : s[i] = s[j] => i = j
Lasting(f) == f \notin clashed \cup died
HasFinished(b, s) == \A n \in Versions : <<b, n>> \in finished => n \in ToSet(s)

(* A command under way: the file it is at, and what it will write there.     *)
UserInOrder(u) ==
    user[u].pc # "free" =>
        /\ Todo(user[u].name, user[u].left)
        /\ At(u) = Index => disk[user[u].name].is # "absent"
        /\ user[u].pc # "looks" /\ At(u) \in Books =>
              /\ ToSet(user[u].next) \subseteq Versions /\ NoneTwice(user[u].next)
              /\ user[u].name \in ToSet(user[u].next)
              /\ At(u) = Index => \A n \in ToSet(user[u].next) : disk[n].is # "absent"
              /\ Lasting(At(u)) => HasFinished(At(u), user[u].next)
        /\ Busy(u, ToolPack) /\ ToolPack \notin clashed =>
              /\ ToolPack \notin edited
              /\ disk[ToolPack].is = IF user[u].pc = "opens" THEN "absent" ELSE "torn"

FileInOrder(f) ==
    /\ disk[f].is = "torn" => f \in died \/ \E u \in Users : user[u].pc = "writes" /\ At(u) = f
    /\ f \notin clashed => \A u, w \in Users : Busy(u, f) /\ Busy(w, f) => u = w

BookInOrder(b) ==
    /\ ToSet(disk[b].has) \subseteq Versions /\ NoneTwice(disk[b].has)
    /\ Lasting(b) /\ disk[b].is # "torn" => HasFinished(b, disk[b].has)

CatalogueInv ==
    /\ CatalogueTypeOK
    /\ \A u \in Users : UserInOrder(u)
    /\ \A f \in Files : FileInOrder(f)
    /\ \A b \in Books : BookInOrder(b)
    /\ \A n \in ToSet(disk[Index].has) : disk[n].is # "absent"
    /\ ToolPack \in edited => disk[ToolPack].is # "absent"
    /\ ToolPack \in edited /\ ToolPack \notin clashed => disk[ToolPack].has = <<"edited">>

---------------------------------------------------------------------------
(* What a list holds, and what one more makes of it.                         *)
LEMMA ToSetIsRange ==
    ASSUME NEW S, NEW s \in Seq(S)
    PROVE  ToSet(s) \subseteq S /\ DOMAIN s = 1..Len(s) /\ Len(s) \in Nat /\ \A i \in 1..Len(s) : s[i] \in ToSet(s)
<1>1. DOMAIN s = 1..Len(s) /\ Len(s) \in Nat BY LenProperties
<1> QED BY <1>1, ElementOfSeq DEF ToSet

LEMMA ToSetOfAppend ==
    ASSUME NEW S, NEW s \in Seq(S), NEW x \in S
    PROVE  /\ Append(s, x) \in Seq(S) /\ ToSet(Append(s, x)) = ToSet(s) \cup {x}
           /\ NoneTwice(s) /\ x \notin ToSet(s) => NoneTwice(Append(s, x))
<1>1. PICK t : t = Append(s, x) OBVIOUS
<1>2. /\ t \in Seq(S) /\ Len(t) = Len(s) + 1 /\ t[Len(s) + 1] = x /\ Len(s) \in Nat
      /\ \A i \in 1..Len(s) : t[i] = s[i]
    BY <1>1, AppendProperties, LenProperties
<1>3. DOMAIN s = 1..Len(s) /\ DOMAIN t = 1..(Len(s) + 1) BY <1>2, ToSetIsRange
<1>4. ToSet(t) = ToSet(s) \cup {x}
    <2>1. \A i \in DOMAIN t : i = Len(s) + 1 \/ i \in DOMAIN s BY <1>2, <1>3
    <2>2. Len(s) + 1 \in DOMAIN t /\ \A i \in DOMAIN s : i \in DOMAIN t BY <1>2, <1>3
    <2> QED BY <1>2, <1>3, <2>1, <2>2 DEF ToSet
<1>5. ASSUME NoneTwice(s), x \notin ToSet(s) PROVE NoneTwice(t)
    <2>1. \A i \in DOMAIN t : i = Len(s) + 1 \/ i \in DOMAIN s BY <1>2, <1>3
    <2>2. \A i \in DOMAIN s : t[i] = s[i] /\ s[i] # x BY <1>2, <1>3, <1>5 DEF ToSet
    <2>3. \A i, j \in DOMAIN s : s[i] = s[j] => i = j BY <1>5 DEF NoneTwice
    <2> QED BY <1>2, <2>1, <2>2, <2>3 DEF NoneTwice
<1> QED BY <1>1, <1>2, <1>4, <1>5

LEMMA EmptyAndSingle ==
    /\ \A S : <<>> \in Seq(S)
    /\ ToSet(<<>>) = {} /\ NoneTwice(<<>>)
    /\ \A x, S : x \in S => <<x>> \in Seq(S) /\ ToSet(<<x>>) = {x} /\ NoneTwice(<<x>>)
<1>1. ASSUME NEW S PROVE <<>> \in Seq(S) BY EmptySeq
<1>2. DOMAIN <<>> = {} OBVIOUS
<1>3. ASSUME NEW x, NEW S, x \in S PROVE <<x>> \in Seq(S) /\ ToSet(<<x>>) = {x} /\ NoneTwice(<<x>>)
    <2>1. DOMAIN <<x>> = 1..1 /\ <<x>>[1] = x /\ 1..1 = {1} OBVIOUS
    <2>2. <<x>> \in Seq(S) BY <1>3
    <2> QED BY <2>1, <2>2 DEF ToSet, NoneTwice
<1> QED BY <1>1, <1>2, <1>3 DEF ToSet, NoneTwice

(* What is left of a command.                                                *)
LEMMA LeftShapes ==
    ASSUME CatalogueInv, NEW u \in Users, user[u].pc # "free"
    PROVE  /\ At(u) \in Files
           /\ \/ user[u].name \in Versions /\ Len(user[u].left) = 2 /\ At(u) = user[u].name /\ Tail(user[u].left) = <<Index>>
              \/ user[u].name \in Versions /\ Len(user[u].left) = 1 /\ At(u) \in Books
              \/ Len(user[u].left) = 1 /\ At(u) \in {ToolPack, Manifest, Prompt}
              \/ Len(user[u].left) = 2 /\ At(u) = Manifest /\ Tail(user[u].left) = <<Prompt>>
<1>1. PICK n, left : n = user[u].name /\ left = user[u].left OBVIOUS
<1>2. Todo(n, left) BY <1>1 DEF CatalogueInv, UserInOrder
<1>3. At(u) = Head(left) BY <1>1 DEF At
<1>4. \A x, y : Head(<<x>>) = x /\ Len(<<x>>) = 1 /\ Head(<<x, y>>) = x /\ Len(<<x, y>>) = 2 /\ Tail(<<x, y>>) = <<y>>
    OBVIOUS
<1>5. CASE n \in Versions /\ left = <<Entry(n), Index>> BY <1>1, <1>3, <1>4, <1>5 DEF Entry, Files
<1>6. CASE n \in Versions /\ left \in {<<Index>>, <<Domains1>>, <<ServersBook>>}
    BY <1>1, <1>3, <1>4, <1>6 DEF Files, Books
<1>7. CASE left \in {<<ToolPack>>, <<Manifest>>, <<Prompt>>} BY <1>1, <1>3, <1>4, <1>7 DEF Files
<1>8. CASE left = <<Manifest, Prompt>> BY <1>1, <1>3, <1>4, <1>8 DEF Files
<1> QED BY <1>2, <1>5, <1>6, <1>7, <1>8 DEF Todo

(* A command of another process goes on with what it has.                    *)
LEMMA OthersKeep ==
    ASSUME CatalogueInv, NEW f \in Files, NEW w \in Users, user'[w] = user[w],
           clashed \subseteq clashed', died \subseteq died', edited' = edited,
           \A g \in Files : disk[g].is # "absent" => disk'[g].is # "absent",
           \A g \in Files : g # f => disk'[g] = disk[g],
           \A g, n : <<g, n>> \in finished' => <<g, n>> \in finished \/ g = f,
           Busy(w, f) /\ f \notin clashed' => UNCHANGED <<disk, finished>>
    PROVE  UserInOrder(w)'
<1> SUFFICES ASSUME user[w].pc # "free" PROVE UserInOrder(w)' BY DEF UserInOrder
<1>1. UserInOrder(w) BY DEF CatalogueInv
<1>2. user[w] \in Commands1 BY DEF CatalogueInv, CatalogueTypeOK
<1>3. At(w)' = At(w) /\ \A g : Busy(w, g)' = Busy(w, g) BY DEF At, Busy
<1>4. At(w) \in Files BY LeftShapes
<1>5. Todo(user[w].name, user[w].left)' BY <1>1 DEF UserInOrder, Todo
<1>6. At(w) = Index => disk'[user[w].name].is # "absent" BY <1>1, <1>2 DEF UserInOrder, Commands1
<1>7. ASSUME user[w].pc # "looks", At(w) \in Books
      PROVE  /\ ToSet(user[w].next) \subseteq Versions /\ NoneTwice(user[w].next)
             /\ user[w].name \in ToSet(user[w].next)
             /\ At(w) = Index => \A n \in ToSet(user[w].next) : disk'[n].is # "absent"
             /\ Lasting(At(w))' => HasFinished(At(w), user[w].next)'
    <2>1. ToSet(user[w].next) \subseteq Versions /\ NoneTwice(user[w].next) /\ user[w].name \in ToSet(user[w].next)
        BY <1>1, <1>7 DEF UserInOrder
    <2>2. At(w) = Index => \A n \in ToSet(user[w].next) : disk'[n].is # "absent"
        BY <1>1, <1>7, <2>1 DEF UserInOrder, Files
    <2>3. ASSUME Lasting(At(w))' PROVE HasFinished(At(w), user[w].next)'
        <3>1. Lasting(At(w)) /\ At(w) \notin clashed' BY <1>3, <2>3 DEF Lasting
        <3>2. HasFinished(At(w), user[w].next) BY <1>1, <1>7, <3>1 DEF UserInOrder
        <3>3. Busy(w, At(w)) BY <1>2, <1>7 DEF Busy, Commands1
        <3>4. \A n : <<At(w), n>> \in finished' => <<At(w), n>> \in finished
            <4>1. CASE At(w) = f BY <3>1, <3>3, <4>1
            <4>2. CASE At(w) # f BY <4>2
            <4> QED BY <4>1, <4>2
        <3> QED BY <1>3, <3>2, <3>4 DEF HasFinished
    <2> QED BY <2>1, <2>2, <2>3
<1>8. ASSUME Busy(w, ToolPack), ToolPack \notin clashed'
      PROVE  ToolPack \notin edited /\ disk'[ToolPack].is = IF user[w].pc = "opens" THEN "absent" ELSE "torn"
    <2>1. disk'[ToolPack] = disk[ToolPack]
        <3>1. ToolPack \in Files BY DEF Files
        <3>2. CASE ToolPack = f BY <1>8, <3>2
        <3>3. CASE ToolPack # f BY <3>1, <3>3
        <3> QED BY <3>2, <3>3
    <2> QED BY <1>1, <1>8, <2>1 DEF UserInOrder
<1> QED BY <1>3, <1>5, <1>6, <1>7, <1>8 DEF UserInOrder

(* Two processes at one file have clashed over it.                           *)
LEMMA TouchesSees ==
    ASSUME NEW u \in Users, Touches(u)
    PROVE  /\ clashed \subseteq clashed' /\ clashed' \subseteq clashed \cup {At(u)}
           /\ \A w \in Users \ {u} : Busy(w, At(u)) => At(u) \in clashed'
BY DEF Touches

(* The parts of the invariant that speak of single users and files.          *)
LEMMA FileStaysInOrder ==
    ASSUME CatalogueInv, NEW u \in Users, NEW f \in Files,
           \A w \in Users : w # u => user'[w] = user[w],
           clashed \subseteq clashed', died \subseteq died',
           disk'[f].is = "torn" =>
               \/ f \in died'
               \/ user'[u].pc = "writes" /\ At(u)' = f
               \/ disk[f].is = "torn" /\ ~(user[u].pc = "writes" /\ At(u) = f),
           Busy(u, f)' => Busy(u, f) \/ f \in clashed' \/ \A w \in Users \ {u} : ~Busy(w, f)
    PROVE  FileInOrder(f)'
<1>1. FileInOrder(f) BY DEF CatalogueInv
<1>2. \A w \in Users : w # u => At(w)' = At(w) /\ Busy(w, f)' = Busy(w, f) BY DEF At, Busy
<1>3. ASSUME disk'[f].is = "torn" PROVE f \in died' \/ \E w \in Users : user'[w].pc = "writes" /\ At(w)' = f
    <2>1. CASE f \in died' BY <2>1
    <2>2. CASE user'[u].pc = "writes" /\ At(u)' = f BY <2>2
    <2>3. CASE disk[f].is = "torn" /\ ~(user[u].pc = "writes" /\ At(u) = f)
        <3>1. CASE f \in died BY <3>1
        <3>2. CASE f \notin died
            <4>1. PICK w \in Users : user[w].pc = "writes" /\ At(w) = f BY <1>1, <2>3, <3>2 DEF FileInOrder
            <4>2. w # u BY <2>3, <4>1
            <4> QED BY <1>2, <4>1, <4>2
        <3> QED BY <3>1, <3>2
    <2> QED BY <1>3, <2>1, <2>2, <2>3
<1>4. ASSUME f \notin clashed', NEW w \in Users, NEW x \in Users, Busy(w, f)', Busy(x, f)' PROVE w = x
    <2>1. \A y, z \in Users : Busy(y, f) /\ Busy(z, f) => y = z BY <1>1, <1>4 DEF FileInOrder
    <2>2. CASE w # u /\ x # u BY <1>2, <1>4, <2>1, <2>2
    <2>3. CASE w = u /\ x # u
        <3>1. Busy(x, f) BY <1>2, <1>4, <2>3
        <3>2. Busy(u, f) BY <1>4, <2>3, <3>1
        <3> QED BY <2>1, <2>3, <3>1, <3>2
    <2>4. CASE w # u /\ x = u
        <3>1. Busy(w, f) BY <1>2, <1>4, <2>4
        <3>2. Busy(u, f) BY <1>4, <2>4, <3>1
        <3> QED BY <2>1, <2>4, <3>1, <3>2
    <2> QED BY <2>2, <2>3, <2>4
<1> QED BY <1>3, <1>4 DEF FileInOrder

LEMMA BookStaysInOrder ==
    ASSUME CatalogueInv, NEW b \in Books, disk'[b] = disk[b],
           clashed \subseteq clashed', died \subseteq died',
           \A n : <<b, n>> \in finished' => <<b, n>> \in finished
    PROVE  BookInOrder(b)'
<1>1. BookInOrder(b) BY DEF CatalogueInv
<1>2. Lasting(b)' => Lasting(b) BY DEF Lasting
<1>3. ASSUME NEW l, HasFinished(b, l) PROVE HasFinished(b, l)' BY <1>3 DEF HasFinished
<1> QED BY <1>1, <1>2, <1>3 DEF BookInOrder

LEMMA BeginKeeps ==
    ASSUME CatalogueInv, NEW u \in Users, NEW n \in Files, NEW todo \in Seq(Files),
           Begins(u, n, todo), Todo(n, todo), Head(todo) # Index
    PROVE  CatalogueInv'
<1>1. /\ user \in [Users -> Commands1] /\ user[u].pc = "free" /\ UNCHANGED <<disk, clashed, died, finished, edited>>
    BY DEF CatalogueInv, CatalogueTypeOK, Begins
<1>2. PICK v : v = [pc |-> "looks", name |-> n, left |-> todo, next |-> <<>>] OBVIOUS
<1>3. v \in Commands1 /\ v.pc = "looks" /\ v.name = n /\ v.left = todo
    BY <1>2, EmptyAndSingle DEF Commands1, Lists
<1>4. user' = [user EXCEPT ![u] = v] BY <1>2 DEF Begins
<1>5. user'[u] = v /\ \A w \in Users : w # u => user'[w] = user[w] BY <1>1, <1>4
<1>6. At(u)' = Head(todo) /\ \A f : ~Busy(u, f)' BY <1>3, <1>5 DEF At, Busy
<1>7. CatalogueTypeOK' BY <1>1, <1>3, <1>4 DEF CatalogueInv, CatalogueTypeOK
<1>8. ASSUME NEW w \in Users PROVE UserInOrder(w)'
    <2>1. CASE w = u BY <1>3, <1>5, <1>6, <2>1 DEF UserInOrder, Todo
    <2>2. CASE w # u
        <3>1. PICK f \in Files : f = n OBVIOUS
        <3> QED BY <1>1, <1>5, <2>2, <3>1, OthersKeep
    <2> QED BY <2>1, <2>2
<1>9. ASSUME NEW f \in Files PROVE FileInOrder(f)' BY <1>1, <1>5, <1>6, FileStaysInOrder
<1>10. ASSUME NEW b \in Books PROVE BookInOrder(b)' BY <1>1, BookStaysInOrder
<1> QED BY <1>1, <1>7, <1>8, <1>9, <1>10 DEF CatalogueInv

(* A process that looks decides what it will write, or to leave it.          *)
LEMMA LookKeeps ==
    ASSUME CatalogueInv, NEW u \in Users, user[u].pc = "looks", Touches(u), UNCHANGED <<disk, died, finished, edited>>,
           NEW v \in Commands1, user' = [user EXCEPT ![u] = v],
           v.pc # "free" =>
               /\ v.pc = "opens" /\ v.name = user[u].name /\ v.left = user[u].left
               /\ At(u) \in Books =>
                     /\ ToSet(v.next) \subseteq Versions /\ NoneTwice(v.next) /\ v.name \in ToSet(v.next)
                     /\ At(u) = Index => \A n \in ToSet(v.next) : disk[n].is # "absent"
                     /\ At(u) \notin clashed' \cup died' => HasFinished(At(u), v.next)
               /\ At(u) = ToolPack => disk[ToolPack].is = "absent"
    PROVE  CatalogueInv'
<1>1. user \in [Users -> Commands1] BY DEF CatalogueInv, CatalogueTypeOK
<1>2. user'[u] = v /\ \A w \in Users : w # u => user'[w] = user[w] BY <1>1
<1>3. At(u) \in Files BY LeftShapes
<1>4. clashed \subseteq clashed' /\ \A w \in Users \ {u} : Busy(w, At(u)) => At(u) \in clashed' BY TouchesSees
<1>5. CatalogueTypeOK' BY <1>1 DEF CatalogueInv, CatalogueTypeOK
<1>6. ASSUME v.pc # "free" PROVE At(u)' = At(u) BY <1>2, <1>6 DEF At
<1>7. ASSUME NEW f, Busy(u, f)' PROVE v.pc # "free" /\ f = At(u) BY <1>2, <1>6, <1>7 DEF Busy
<1>8. UserInOrder(u)'
    <2> SUFFICES ASSUME v.pc # "free" PROVE UserInOrder(u)' BY <1>2 DEF UserInOrder
    <2>1. UserInOrder(u) BY DEF CatalogueInv
    <2>2. Todo(v.name, v.left)' BY <2>1 DEF UserInOrder, Todo
    <2>3. At(u) = Index => disk[v.name].is # "absent" BY <2>1 DEF UserInOrder
    <2>4. At(u) = ToolPack => disk[ToolPack].is = "absent" /\ ToolPack \notin edited BY DEF CatalogueInv
    <2>5. ASSUME At(u) \in Books
          PROVE  /\ ToSet(v.next) \subseteq Versions /\ NoneTwice(v.next) /\ v.name \in ToSet(v.next)
                 /\ At(u) = Index => \A n \in ToSet(v.next) : disk'[n].is # "absent"
                 /\ Lasting(At(u))' => HasFinished(At(u), v.next)'
        <3>1. HasFinished(At(u), v.next)' = HasFinished(At(u), v.next) BY <1>6 DEF HasFinished
        <3>2. Lasting(At(u))' => At(u) \notin clashed' \cup died' BY <1>6 DEF Lasting
        <3> QED BY <2>5, <3>1, <3>2
    <2>6. ASSUME Busy(u, ToolPack)'
          PROVE  ToolPack \notin edited' /\ disk'[ToolPack].is = "absent" /\ v.pc = "opens"
        BY <1>7, <2>4, <2>6
    <2> QED BY <1>2, <1>6, <2>2, <2>3, <2>5, <2>6 DEF UserInOrder
<1>9. ASSUME NEW w \in Users PROVE UserInOrder(w)'
    <2>1. CASE w = u BY <1>8, <2>1
    <2>2. CASE w # u BY <1>2, <1>3, <1>4, <2>2, OthersKeep
    <2> QED BY <2>1, <2>2
<1>10. ASSUME NEW f \in Files PROVE FileInOrder(f)'
    <2>1. Busy(u, f)' => f \in clashed' \/ \A w \in Users \ {u} : ~Busy(w, f) BY <1>4, <1>7
    <2> QED BY <1>2, <1>4, <2>1, FileStaysInOrder
<1>11. ASSUME NEW b \in Books PROVE BookInOrder(b)' BY <1>4, BookStaysInOrder
<1> QED BY <1>4, <1>5, <1>9, <1>10, <1>11 DEF CatalogueInv

(* A file is emptied.                                                        *)
LEMMA OpensKeeps ==
    ASSUME CatalogueInv, NEW u \in Users, Opens(u)
    PROVE  CatalogueInv'
<1>1. /\ user \in [Users -> Commands1] /\ disk \in [Files -> FileStates] /\ user[u].pc = "opens"
      /\ UNCHANGED <<died, finished, edited>>
    BY DEF CatalogueInv, CatalogueTypeOK, Opens
<1>2. PICK a \in Files : a = At(u) BY <1>1, LeftShapes
<1>3. PICK v : v = [user[u] EXCEPT !.pc = "writes"] OBVIOUS
<1>4. v \in Commands1 /\ v.pc = "writes" /\ v.name = user[u].name /\ v.left = user[u].left /\ v.next = user[u].next
    BY <1>1, <1>3 DEF Commands1
<1>5. user' = [user EXCEPT ![u] = v] BY <1>1, <1>3 DEF Opens
<1>6. user'[u] = v /\ \A w \in Users : w # u => user'[w] = user[w] BY <1>1, <1>5
<1>7. PICK t : t = [is |-> "torn", has |-> <<>>] OBVIOUS
<1>8. t \in FileStates /\ t.is = "torn" /\ t.has = <<>> BY <1>7, EmptyAndSingle DEF FileStates, Lists
<1>9. disk' = [disk EXCEPT ![a] = t] BY <1>2, <1>7 DEF Opens
<1>10. disk'[a] = t /\ \A g \in Files : g # a => disk'[g] = disk[g] BY <1>1, <1>9
<1>11. clashed \subseteq clashed' /\ \A w \in Users \ {u} : Busy(w, a) => a \in clashed'
    BY <1>2, TouchesSees DEF Opens
<1>12. At(u)' = a /\ \A f : Busy(u, f)' <=> f = a BY <1>2, <1>4, <1>6 DEF At, Busy
<1>13. Busy(u, a) BY <1>1, <1>2 DEF Busy
<1>14. \A g \in Files : disk[g].is # "absent" => disk'[g].is # "absent" BY <1>8, <1>10
<1>15. CatalogueTypeOK' BY <1>1, <1>4, <1>5, <1>8, <1>9 DEF CatalogueInv, CatalogueTypeOK
<1>16. UserInOrder(u)'
    <2>1. UserInOrder(u) BY DEF CatalogueInv
    <2>2. Todo(v.name, v.left)' BY <1>1, <1>4, <2>1 DEF UserInOrder, Todo
    <2>3. a = Index => disk'[v.name].is # "absent"
        <3>1. v.name \in Files BY <1>4 DEF Commands1
        <3> QED BY <1>1, <1>2, <1>4, <1>14, <2>1, <3>1 DEF UserInOrder
    <2>4. ASSUME a \in Books
          PROVE  /\ ToSet(v.next) \subseteq Versions /\ NoneTwice(v.next) /\ v.name \in ToSet(v.next)
                 /\ a = Index => \A n \in ToSet(v.next) : disk'[n].is # "absent"
                 /\ Lasting(a)' => HasFinished(a, v.next)'
        <3>1. /\ ToSet(v.next) \subseteq Versions /\ NoneTwice(v.next) /\ v.name \in ToSet(v.next)
              /\ a = Index => \A n \in ToSet(v.next) : disk[n].is # "absent"
              /\ Lasting(a) => HasFinished(a, v.next)
            BY <1>1, <1>2, <1>4, <2>1, <2>4 DEF UserInOrder
        <3>2. \A n \in ToSet(v.next) : n \in Files BY <3>1 DEF Files
        <3>3. Lasting(a)' => Lasting(a) BY <1>1, <1>11 DEF Lasting
        <3>4. HasFinished(a, v.next) => HasFinished(a, v.next)' BY <1>1 DEF HasFinished
        <3> QED BY <1>14, <3>1, <3>2, <3>3, <3>4
    <2>5. ASSUME a = ToolPack, ToolPack \notin clashed' PROVE ToolPack \notin edited'
        BY <1>1, <1>11, <1>13, <2>1, <2>5 DEF UserInOrder
    <2> QED BY <1>4, <1>6, <1>8, <1>10, <1>12, <2>2, <2>3, <2>4, <2>5 DEF UserInOrder
<1>17. ASSUME NEW w \in Users PROVE UserInOrder(w)'
    <2>1. CASE w = u BY <1>16, <2>1
    <2>2. CASE w # u BY <1>1, <1>6, <1>10, <1>11, <1>14, <2>2, OthersKeep
    <2> QED BY <2>1, <2>2
<1>18. ASSUME NEW f \in Files PROVE FileInOrder(f)'
    <2>1. disk'[f].is = "torn" => \/ user'[u].pc = "writes" /\ At(u)' = f
                                  \/ disk[f].is = "torn" /\ ~(user[u].pc = "writes" /\ At(u) = f)
        BY <1>1, <1>4, <1>6, <1>10, <1>12
    <2> QED BY <1>1, <1>6, <1>11, <1>12, <1>13, <2>1, FileStaysInOrder
<1>19. ASSUME NEW b \in Books PROVE BookInOrder(b)'
    <2>1. CASE b = a BY <1>8, <1>10, <2>1, EmptyAndSingle DEF BookInOrder
    <2>2. CASE b # a
        <3>1. disk'[b] = disk[b] BY <1>10, <2>2 DEF Files
        <3> QED BY <1>1, <1>11, <3>1, BookStaysInOrder
    <2> QED BY <2>1, <2>2
<1>20. ASSUME NEW n \in ToSet(disk'[Index].has) PROVE disk'[n].is # "absent"
    <2>1. a # Index /\ disk'[Index] = disk[Index] BY <1>8, <1>10, <1>20, EmptyAndSingle DEF Files, Books
    <2>2. n \in Versions BY <1>20, <2>1 DEF CatalogueInv, BookInOrder, Books
    <2> QED BY <1>14, <1>20, <2>1, <2>2 DEF CatalogueInv, Files
<1>21. ASSUME ToolPack \in edited'
       PROVE  disk'[ToolPack].is # "absent" /\ (ToolPack \notin clashed' => disk'[ToolPack].has = <<"edited">>)
    <2>1. disk[ToolPack].is # "absent" /\ ToolPack \in Files BY <1>1, <1>21 DEF CatalogueInv, Files
    <2>2. ASSUME ToolPack \notin clashed' PROVE disk'[ToolPack].has = <<"edited">>
        <3>1. a # ToolPack BY <1>1, <1>11, <1>13, <1>21, <2>2 DEF CatalogueInv, UserInOrder
        <3> QED BY <1>1, <1>10, <1>11, <1>21, <2>1, <2>2, <3>1 DEF CatalogueInv
    <2> QED BY <1>14, <2>1, <2>2
<1> QED BY <1>15, <1>17, <1>18, <1>19, <1>20, <1>21 DEF CatalogueInv

(* The new content is written over it, and the command goes on or ends.      *)
LEMMA WritesKeeps ==
    ASSUME CatalogueInv, NEW u \in Users, Writes(u)
    PROVE  CatalogueInv'
<1>1. /\ user \in [Users -> Commands1] /\ disk \in [Files -> FileStates] /\ user[u].pc = "writes"
      /\ UNCHANGED <<died, edited>>
    BY DEF CatalogueInv, CatalogueTypeOK, Writes
<1>2. PICK a \in Files : a = At(u) BY <1>1, LeftShapes
<1>3. PICK t : t = [is |-> "whole", has |-> user[u].next] OBVIOUS
<1>4. t \in FileStates /\ t.is = "whole" /\ t.has = user[u].next BY <1>1, <1>3 DEF FileStates, Commands1
<1>5. disk' = [disk EXCEPT ![a] = t] BY <1>2, <1>3 DEF Writes
<1>6. disk'[a] = t /\ \A g \in Files : g # a => disk'[g] = disk[g] BY <1>1, <1>5
<1>7. clashed \subseteq clashed' /\ \A w \in Users \ {u} : Busy(w, a) => a \in clashed'
    BY <1>2, TouchesSees DEF Writes
<1>8. finished' = finished \cup {<<a, user[u].name>>} BY <1>2 DEF Writes
<1>9. \A g \in Files : disk[g].is # "absent" => disk'[g].is # "absent" BY <1>4, <1>6
<1>10. UserInOrder(u) /\ Busy(u, a) BY <1>1, <1>2 DEF CatalogueInv, Busy
<1>11. PICK v \in Commands1 :
          /\ user' = [user EXCEPT ![u] = v] /\ v.pc \in {"free", "looks"}
          /\ v.pc = "looks" =>
                /\ v.name = user[u].name
                /\ \/ v.name \in Versions /\ a = v.name /\ v.left = <<Index>>
                   \/ v.left = <<Prompt>>
    <2>1. CASE Len(user[u].left) = 1
        <3>1. Free \in Commands1
            <4>1. Index \in Files /\ <<>> \in Seq(Files) /\ <<>> \in Lists BY EmptyAndSingle DEF Files, Books, Lists
            <4> QED BY <4>1 DEF Free, Commands1
        <3>2. user' = [user EXCEPT ![u] = Free] /\ Free.pc = "free" BY <2>1 DEF Writes, Ends, Free
        <3> QED BY <3>1, <3>2
    <2>2. CASE Len(user[u].left) # 1
        <3>1. PICK v : v = [user[u] EXCEPT !.pc = "looks", !.left = Tail(user[u].left)] OBVIOUS
        <3>2. \/ user[u].name \in Versions /\ a = user[u].name /\ Tail(user[u].left) = <<Index>>
              \/ Tail(user[u].left) = <<Prompt>>
            BY <1>1, <1>2, <2>2, LeftShapes
        <3>3. Tail(user[u].left) \in Seq(Files)
            <4>1. <<Index>> \in Seq(Files) /\ <<Prompt>> \in Seq(Files) BY EmptyAndSingle DEF Files, Books
            <4> QED BY <3>2, <4>1
        <3>4. v \in Commands1 /\ v.pc = "looks" /\ v.name = user[u].name /\ v.left = Tail(user[u].left)
            BY <1>1, <3>1, <3>3 DEF Commands1
        <3>5. user' = [user EXCEPT ![u] = v] BY <1>1, <2>2, <3>1 DEF Writes
        <3> QED BY <3>2, <3>4, <3>5
    <2> QED BY <2>1, <2>2
<1>12. user'[u] = v /\ \A w \in Users : w # u => user'[w] = user[w] BY <1>1, <1>11
<1>13. \A f : ~Busy(u, f)' BY <1>11, <1>12 DEF Busy
<1>14. CatalogueTypeOK' BY <1>1, <1>4, <1>5, <1>11 DEF CatalogueInv, CatalogueTypeOK
<1>15. UserInOrder(u)'
    <2> SUFFICES ASSUME v.pc = "looks" PROVE UserInOrder(u)' BY <1>11, <1>12 DEF UserInOrder
    <2>1. At(u)' = Head(v.left) BY <1>12 DEF At
    <2>2. \A x : Head(<<x>>) = x OBVIOUS
    <2>3. CASE v.name \in Versions /\ a = v.name /\ v.left = <<Index>>
        <3>1. Todo(v.name, v.left)' BY <2>3 DEF Todo
        <3>2. disk'[v.name].is # "absent" BY <1>4, <1>6, <2>3
        <3> QED BY <1>12, <1>13, <3>1, <3>2 DEF UserInOrder
    <2>4. CASE v.left = <<Prompt>>
        <3>1. Todo(v.name, v.left)' BY <2>4 DEF Todo
        <3>2. At(u)' # Index BY <2>1, <2>2, <2>4 DEF Prompt, Index
        <3> QED BY <1>12, <1>13, <3>1, <3>2 DEF UserInOrder
    <2> QED BY <1>11, <2>3, <2>4
<1>16. ASSUME NEW w \in Users PROVE UserInOrder(w)'
    <2>1. CASE w = u BY <1>15, <2>1
    <2>2. CASE w # u BY <1>1, <1>6, <1>7, <1>8, <1>9, <1>12, <2>2, OthersKeep
    <2> QED BY <2>1, <2>2
<1>17. ASSUME NEW f \in Files PROVE FileInOrder(f)'
    <2>1. disk'[f].is = "torn" => disk[f].is = "torn" /\ ~(user[u].pc = "writes" /\ At(u) = f)
        BY <1>2, <1>4, <1>6
    <2> QED BY <1>1, <1>7, <1>12, <1>13, <2>1, FileStaysInOrder
<1>18. ASSUME a \in Books
       PROVE  /\ ToSet(user[u].next) \subseteq Versions /\ NoneTwice(user[u].next)
              /\ user[u].name \in ToSet(user[u].next)
              /\ a = Index => \A n \in ToSet(user[u].next) : disk[n].is # "absent"
              /\ Lasting(a) => HasFinished(a, user[u].next)
    BY <1>1, <1>2, <1>10, <1>18 DEF UserInOrder
<1>19. ASSUME NEW b \in Books PROVE BookInOrder(b)'
    <2>1. CASE b = a
        <3>1. PICK next : next = user[u].next OBVIOUS
        <3>2. ASSUME Lasting(b)' PROVE HasFinished(b, next)'
            <4>1. Lasting(b) BY <1>1, <1>7, <3>2 DEF Lasting
            <4>2. HasFinished(b, next) /\ user[u].name \in ToSet(next) BY <1>18, <2>1, <3>1, <4>1
            <4> QED BY <1>8, <2>1, <4>2 DEF HasFinished
        <3>3. ToSet(next) \subseteq Versions /\ NoneTwice(next) /\ disk'[b].has = next
            BY <1>4, <1>6, <1>18, <2>1, <3>1
        <3> QED BY <3>2, <3>3 DEF BookInOrder
    <2>2. CASE b # a
        <3>1. disk'[b] = disk[b] BY <1>6, <2>2 DEF Files
        <3> QED BY <1>1, <1>7, <1>8, <2>2, <3>1, BookStaysInOrder
    <2> QED BY <2>1, <2>2
<1>20. ASSUME NEW n \in ToSet(disk'[Index].has) PROVE disk'[n].is # "absent"
    <2>1. CASE a = Index
        <3>1. n \in ToSet(user[u].next) /\ a \in Books BY <1>4, <1>6, <1>20, <2>1 DEF Books
        <3>2. n \in Files /\ disk[n].is # "absent" BY <1>18, <2>1, <3>1 DEF Files
        <3> QED BY <1>9, <3>2
    <2>2. CASE a # Index
        <3>1. disk'[Index] = disk[Index] BY <1>6, <2>2 DEF Files, Books
        <3>2. n \in Versions BY <1>20, <3>1 DEF CatalogueInv, BookInOrder, Books
        <3> QED BY <1>9, <1>20, <3>1, <3>2 DEF CatalogueInv, Files
    <2> QED BY <2>1, <2>2
<1>21. ASSUME ToolPack \in edited'
       PROVE  disk'[ToolPack].is # "absent" /\ (ToolPack \notin clashed' => disk'[ToolPack].has = <<"edited">>)
    <2>1. disk[ToolPack].is # "absent" /\ ToolPack \in Files BY <1>1, <1>21 DEF CatalogueInv, Files
    <2>2. ASSUME ToolPack \notin clashed' PROVE disk'[ToolPack].has = <<"edited">>
        <3>1. a # ToolPack BY <1>1, <1>2, <1>7, <1>10, <1>21, <2>2 DEF UserInOrder
        <3> QED BY <1>1, <1>6, <1>7, <1>21, <2>1, <2>2, <3>1 DEF CatalogueInv
    <2> QED BY <1>9, <2>1, <2>2
<1> QED BY <1>14, <1>16, <1>17, <1>19, <1>20, <1>21 DEF CatalogueInv

(* A process that dies leaves its file as it is.                             *)
LEMMA DiesKeeps ==
    ASSUME CatalogueInv, NEW u \in Users, Dies(u)
    PROVE  CatalogueInv'
<1>1. /\ user \in [Users -> Commands1] /\ user[u].pc \in {"opens", "writes"}
      /\ UNCHANGED <<disk, clashed, finished, edited>> /\ user' = [user EXCEPT ![u] = Free]
    BY DEF CatalogueInv, CatalogueTypeOK, Dies, Ends
<1>2. PICK a \in Files : a = At(u) BY <1>1, LeftShapes
<1>3. died' = died \cup {a} BY <1>2 DEF Dies
<1>4. Free \in Commands1 /\ Free.pc = "free"
    <2>1. Index \in Files /\ <<>> \in Seq(Files) /\ <<>> \in Lists BY EmptyAndSingle DEF Files, Books, Lists
    <2> QED BY <2>1 DEF Free, Commands1
<1>5. user'[u] = Free /\ \A w \in Users : w # u => user'[w] = user[w] BY <1>1
<1>6. \A f : ~Busy(u, f)' BY <1>4, <1>5 DEF Busy
<1>7. CatalogueTypeOK' BY <1>1, <1>4 DEF CatalogueInv, CatalogueTypeOK
<1>8. ASSUME NEW w \in Users PROVE UserInOrder(w)'
    <2>1. CASE w = u BY <1>4, <1>5, <2>1 DEF UserInOrder
    <2>2. CASE w # u BY <1>1, <1>3, <1>5, <2>2, OthersKeep
    <2> QED BY <2>1, <2>2
<1>9. ASSUME NEW f \in Files PROVE FileInOrder(f)'
    <2>1. disk'[f].is = "torn" => f \in died' \/ (disk[f].is = "torn" /\ ~(user[u].pc = "writes" /\ At(u) = f))
        BY <1>1, <1>2, <1>3
    <2> QED BY <1>1, <1>3, <1>5, <1>6, <2>1, FileStaysInOrder
<1>10. ASSUME NEW b \in Books PROVE BookInOrder(b)' BY <1>1, <1>3, BookStaysInOrder
<1> QED BY <1>1, <1>7, <1>8, <1>9, <1>10 DEF CatalogueInv

(* An edited file stays whole.                                               *)
LEMMA EditsKeeps ==
    ASSUME CatalogueInv, NEW f \in {ToolPack, Manifest}, Edits(f)
    PROVE  CatalogueInv'
<1>1. /\ disk \in [Files -> FileStates] /\ disk[f].is = "whole" /\ f \in Files /\ f \notin Books
      /\ UNCHANGED <<user, clashed, died, finished>> /\ edited' = edited \cup {f}
    BY DEF CatalogueInv, CatalogueTypeOK, Edits, Files, Books, ToolPack, Manifest, Index, Domains1, ServersBook
<1>2. PICK t : t = [disk[f] EXCEPT !.has = <<"edited">>] OBVIOUS
<1>3. t \in FileStates /\ t.is = "whole" /\ t.has = <<"edited">>
    <2>1. <<"edited">> \in Lists BY EmptyAndSingle DEF Lists
    <2> QED BY <1>1, <1>2, <2>1 DEF FileStates
<1>4. disk' = [disk EXCEPT ![f] = t] BY <1>1, <1>2 DEF Edits
<1>5. disk'[f] = t /\ \A g \in Files : g # f => disk'[g] = disk[g] BY <1>1, <1>4
<1>6. \A g \in Files : disk'[g].is = disk[g].is BY <1>1, <1>3, <1>5
<1>7. CatalogueTypeOK' BY <1>1, <1>3, <1>4 DEF CatalogueInv, CatalogueTypeOK
<1>8. \A w : At(w)' = At(w) /\ \A g : Busy(w, g)' = Busy(w, g) BY <1>1 DEF At, Busy
<1>9. ASSUME NEW w \in Users PROVE UserInOrder(w)'
    <2> SUFFICES ASSUME user[w].pc # "free" PROVE UserInOrder(w)' BY <1>1 DEF UserInOrder
    <2>1. UserInOrder(w) /\ user[w] \in Commands1 BY DEF CatalogueInv, CatalogueTypeOK
    <2>2. Todo(user[w].name, user[w].left)' BY <1>1, <2>1 DEF UserInOrder, Todo
    <2>3. At(w) = Index => disk'[user[w].name].is # "absent" BY <1>6, <2>1 DEF UserInOrder, Commands1
    <2>4. ASSUME user[w].pc # "looks", At(w) \in Books
          PROVE  /\ ToSet(user[w].next) \subseteq Versions /\ NoneTwice(user[w].next)
                 /\ user[w].name \in ToSet(user[w].next)
                 /\ At(w) = Index => \A n \in ToSet(user[w].next) : disk'[n].is # "absent"
                 /\ Lasting(At(w))' => HasFinished(At(w), user[w].next)'
        <3>1. /\ ToSet(user[w].next) \subseteq Versions /\ NoneTwice(user[w].next)
              /\ user[w].name \in ToSet(user[w].next)
              /\ At(w) = Index => \A n \in ToSet(user[w].next) : disk[n].is # "absent"
              /\ Lasting(At(w)) => HasFinished(At(w), user[w].next)
            BY <2>1, <2>4 DEF UserInOrder
        <3>2. \A n \in ToSet(user[w].next) : disk'[n].is = disk[n].is BY <1>6, <3>1 DEF Files
        <3>3. Lasting(At(w))' = Lasting(At(w)) /\ HasFinished(At(w), user[w].next)' = HasFinished(At(w), user[w].next)
            BY <1>1, <1>8 DEF Lasting, HasFinished
        <3> QED BY <3>1, <3>2, <3>3
    <2>5. ASSUME Busy(w, ToolPack), ToolPack \notin clashed
          PROVE  ToolPack \notin edited' /\ disk'[ToolPack].is = IF user[w].pc = "opens" THEN "absent" ELSE "torn"
        <3>1. ToolPack \notin edited /\ disk[ToolPack].is = IF user[w].pc = "opens" THEN "absent" ELSE "torn"
            BY <2>1, <2>5 DEF UserInOrder
        <3>2. f # ToolPack BY <1>1, <3>1
        <3> QED BY <1>1, <1>6, <3>1, <3>2 DEF Files
    <2> QED BY <1>1, <1>8, <2>2, <2>3, <2>4, <2>5 DEF UserInOrder
<1>10. ASSUME NEW g \in Files PROVE FileInOrder(g)'
    <2>1. FileInOrder(g) BY DEF CatalogueInv
    <2> QED BY <1>1, <1>6, <1>8, <2>1 DEF FileInOrder
<1>11. ASSUME NEW b \in Books PROVE BookInOrder(b)'
    <2>1. disk'[b] = disk[b] BY <1>1, <1>5 DEF Files
    <2> QED BY <1>1, <2>1, BookStaysInOrder
<1>12. ASSUME NEW n \in ToSet(disk'[Index].has) PROVE disk'[n].is # "absent"
    <2>1. disk'[Index] = disk[Index] BY <1>1, <1>5 DEF Files, Books
    <2>2. n \in Versions BY <1>12, <2>1 DEF CatalogueInv, BookInOrder, Books
    <2> QED BY <1>6, <1>12, <2>1, <2>2 DEF CatalogueInv, Files
<1>13. ASSUME ToolPack \in edited'
       PROVE  disk'[ToolPack].is # "absent" /\ (ToolPack \notin clashed' => disk'[ToolPack].has = <<"edited">>)
    <2>1. CASE f = ToolPack BY <1>3, <1>5, <2>1
    <2>2. CASE f # ToolPack BY <1>1, <1>5, <1>13, <2>2 DEF CatalogueInv, Files
    <2> QED BY <2>1, <2>2
<1> QED BY <1>7, <1>9, <1>10, <1>11, <1>12, <1>13 DEF CatalogueInv

LEMMA CatalogueInvStep ==
    ASSUME CatalogueInv, [CatalogueStep]_catalogueVars
    PROVE  CatalogueInv'
<1>1. user \in [Users -> Commands1] /\ disk \in [Files -> FileStates] BY DEF CatalogueInv, CatalogueTypeOK
<1>2. \A x, y : Head(<<x>>) = x /\ Head(<<x, y>>) = x OBVIOUS
<1>3. /\ Index \in Files /\ Domains1 \in Files /\ ServersBook \in Files /\ ToolPack \in Files /\ Manifest \in Files
      /\ Prompt \in Files /\ Versions \subseteq Files
    BY DEF Files, Books
<1>4. \A f \in Files : <<f>> \in Seq(Files) BY EmptyAndSingle
<1>5. ASSUME NEW u \in Users, NEW n \in Versions, Publish(u, n) PROVE CatalogueInv'
    <2>1. <<Entry(n), Index>> \in Seq(Files) BY <1>3 DEF Entry
    <2>2. Head(<<Entry(n), Index>>) # Index
        <3>1. Head(<<Entry(n), Index>>) = n BY <1>2 DEF Entry
        <3> QED BY <3>1, VersionsAssumption DEF Books
    <2>3. Todo(n, <<Entry(n), Index>>) BY DEF Todo
    <2> QED BY <1>3, <1>5, <2>1, <2>2, <2>3, BeginKeeps DEF Publish
<1>6. ASSUME NEW u \in Users, NEW n \in Versions, RegisterDomain(u, n) \/ McpAdd(u, n) PROVE CatalogueInv'
    <2>1. Todo(n, <<Domains1>>) /\ Todo(n, <<ServersBook>>) BY DEF Todo
    <2>2. Head(<<Domains1>>) # Index /\ Head(<<ServersBook>>) # Index
        BY <1>2 DEF Domains1, Index, ServersBook
    <2> QED BY <1>3, <1>4, <1>6, <2>1, <2>2, BeginKeeps DEF RegisterDomain, McpAdd
<1>7. ASSUME NEW u \in Users, ToolCreate(u) \/ ScaffoldAgent(u) \/ ScaffoldOther(u) PROVE CatalogueInv'
    <2>1. Todo(ToolPack, <<ToolPack>>) /\ Todo(Manifest, <<Manifest, Prompt>>) /\ Todo(Manifest, <<Manifest>>)
        BY DEF Todo
    <2>2. <<Manifest, Prompt>> \in Seq(Files) BY <1>3
    <2>3. Head(<<ToolPack>>) # Index /\ Head(<<Manifest, Prompt>>) # Index /\ Head(<<Manifest>>) # Index
        BY <1>2 DEF ToolPack, Index, Manifest
    <2> QED BY <1>3, <1>4, <1>7, <2>1, <2>2, <2>3, BeginKeeps DEF ToolCreate, ScaffoldAgent, ScaffoldOther
<1>8. Free \in Commands1 /\ Free.pc = "free"
    <2>1. <<>> \in Seq(Files) /\ <<>> \in Lists BY EmptyAndSingle DEF Lists
    <2> QED BY <1>3, <2>1 DEF Free, Commands1
<1>9. ASSUME NEW u \in Users, user[u].pc = "looks", Touches(u), UNCHANGED <<disk, died, finished, edited>>, Ends(u)
      PROVE  CatalogueInv'
    BY <1>8, <1>9, LookKeeps DEF Ends
<1>10. ASSUME NEW u \in Users, user[u].pc = "looks", Touches(u), UNCHANGED <<disk, died, finished, edited>>,
              NEW content \in Lists, WillWrite(u, content),
              At(u) \in Books =>
                 /\ ToSet(content) \subseteq Versions /\ NoneTwice(content) /\ user[u].name \in ToSet(content)
                 /\ At(u) = Index => \A n \in ToSet(content) : disk[n].is # "absent"
                 /\ At(u) \notin clashed' \cup died' => HasFinished(At(u), content),
              At(u) = ToolPack => disk[ToolPack].is = "absent"
       PROVE  CatalogueInv'
    <2>1. PICK v : v = [user[u] EXCEPT !.pc = "opens", !.next = content] OBVIOUS
    <2>2. v \in Commands1 /\ v.pc = "opens" /\ v.next = content /\ v.name = user[u].name /\ v.left = user[u].left
        BY <1>1, <1>10, <2>1 DEF Commands1
    <2>3. user' = [user EXCEPT ![u] = v] BY <1>1, <1>10, <2>1 DEF WillWrite
    <2> QED BY <1>10, <2>2, <2>3, LookKeeps
<1>11. ASSUME NEW u \in Users, user[u].pc = "looks", At(u) \in Books, Touches(u), disk[At(u)].is # "torn"
       PROVE  /\ disk[At(u)].has \in Lists /\ ToSet(disk[At(u)].has) \subseteq Versions /\ NoneTwice(disk[At(u)].has)
              /\ At(u) = Index => \A n \in ToSet(disk[At(u)].has) : disk[n].is # "absent"
              /\ At(u) \notin clashed' \cup died => HasFinished(At(u), disk[At(u)].has)
              /\ user[u].name \in Versions /\ (At(u) = Index => disk[user[u].name].is # "absent")
    <2>1. BookInOrder(At(u)) BY <1>11 DEF CatalogueInv
    <2>2. disk[At(u)].has \in Lists BY <1>1, <1>11 DEF Files, FileStates
    <2>3. clashed \subseteq clashed' BY <1>11, TouchesSees
    <2>4. user[u].name \in Versions
        BY <1>11, LeftShapes, VersionsAssumption DEF Books, ToolPack, Manifest, Prompt, Index, Domains1, ServersBook
    <2>5. At(u) = Index => disk[user[u].name].is # "absent" BY <1>11 DEF CatalogueInv, UserInOrder
    <2> QED BY <1>11, <2>1, <2>2, <2>3, <2>4, <2>5 DEF CatalogueInv, BookInOrder, Lasting
<1>12. ASSUME NEW u \in Users, user[u].pc = "looks", At(u) \in Books, Touches(u), disk[At(u)].is # "torn",
              UNCHANGED <<disk, died, finished, edited>>, user[u].name \notin ToSet(disk[At(u)].has),
              WillWrite(u, Append(disk[At(u)].has, user[u].name))
       PROVE  CatalogueInv'
    <2>1. PICK h : h = disk[At(u)].has OBVIOUS
    <2>2. /\ Append(h, user[u].name) \in Lists /\ ToSet(Append(h, user[u].name)) = ToSet(h) \cup {user[u].name}
          /\ NoneTwice(Append(h, user[u].name))
        <3>1. h \in Lists /\ NoneTwice(h) /\ user[u].name \in Versions BY <1>11, <1>12, <2>1
        <3> QED BY <1>12, <2>1, <3>1, ToSetOfAppend DEF Lists
    <2>3. At(u) \notin clashed' \cup died' => HasFinished(At(u), Append(h, user[u].name))
        BY <1>11, <1>12, <2>1, <2>2 DEF HasFinished
    <2>4. At(u) # ToolPack BY <1>12 DEF Books, ToolPack, Index, Domains1, ServersBook
    <2>5. ToSet(Append(h, user[u].name)) \subseteq Versions /\ user[u].name \in ToSet(Append(h, user[u].name))
        BY <1>11, <1>12, <2>1, <2>2
    <2>6. At(u) = Index => \A n \in ToSet(Append(h, user[u].name)) : disk[n].is # "absent"
        BY <1>11, <1>12, <2>1, <2>2
    <2> QED BY <1>10, <1>12, <2>1, <2>2, <2>3, <2>4, <2>5, <2>6
<1>13. ASSUME NEW u \in Users, LooksAtIndex(u) PROVE CatalogueInv'
    <2>1. /\ user[u].pc = "looks" /\ At(u) = Index /\ At(u) \in Books /\ Touches(u)
          /\ UNCHANGED <<disk, died, finished, edited>>
        BY <1>13 DEF LooksAtIndex, Books
    <2>2. CASE disk[Index].is = "torn"
        <3>1. Ends(u) BY <1>13, <2>2 DEF LooksAtIndex
        <3> QED BY <1>9, <2>1, <3>1
    <2>3. CASE disk[Index].is # "torn" /\ user[u].name \in ToSet(disk[Index].has)
        <3>1. WillWrite(u, disk[Index].has) BY <1>13, <2>3 DEF LooksAtIndex
        <3>2. At(u) # ToolPack BY <2>1 DEF Index, ToolPack
        <3> QED BY <1>10, <1>11, <2>1, <2>3, <3>1, <3>2
    <2>4. CASE disk[Index].is # "torn" /\ user[u].name \notin ToSet(disk[Index].has)
        <3>1. WillWrite(u, Append(disk[Index].has, user[u].name)) BY <1>13, <2>4 DEF LooksAtIndex
        <3> QED BY <1>12, <2>1, <2>4, <3>1
    <2> QED BY <2>2, <2>3, <2>4
<1>14. ASSUME NEW u \in Users, LooksAtYaml(u) PROVE CatalogueInv'
    <2>1. /\ user[u].pc = "looks" /\ At(u) \in {Domains1, ServersBook} /\ At(u) \in Books /\ Touches(u)
          /\ UNCHANGED <<disk, died, finished, edited>>
        BY <1>14 DEF LooksAtYaml, Books
    <2>2. At(u) # Index /\ At(u) # ToolPack BY <2>1 DEF Index, ToolPack, Domains1, ServersBook
    <2>3. CASE disk[At(u)].is = "torn"
        <3>1. CASE Ends(u) BY <1>9, <2>1, <3>1
        <3>2. CASE WillWrite(u, <<user[u].name>>)
            <4>1. user[u].name \in Versions
                BY <2>1, LeftShapes, VersionsAssumption DEF Books, ToolPack, Manifest, Prompt, Index, Domains1, ServersBook
            <4>2. <<user[u].name>> \in Lists /\ ToSet(<<user[u].name>>) = {user[u].name} /\ NoneTwice(<<user[u].name>>)
                BY <4>1, EmptyAndSingle DEF Lists
            <4>3. At(u) \in clashed' \cup died'
                <5>1. FileInOrder(At(u)) BY <2>1, LeftShapes DEF CatalogueInv
                <5>2. CASE At(u) \in died BY <2>1, <5>2
                <5>3. CASE At(u) \notin died
                    <6>1. PICK w \in Users : user[w].pc = "writes" /\ At(w) = At(u) BY <2>3, <5>1, <5>3 DEF FileInOrder
                    <6>2. w # u /\ Busy(w, At(u)) BY <2>1, <6>1 DEF Busy
                    <6>3. At(u) \in clashed' BY <2>1, <6>2, TouchesSees
                    <6> QED BY <6>3
                <5> QED BY <5>2, <5>3
            <4> QED BY <1>10, <2>1, <2>2, <3>2, <4>1, <4>2, <4>3
        <3> QED BY <1>14, <2>3, <3>1, <3>2 DEF LooksAtYaml
    <2>4. CASE disk[At(u)].is # "torn" /\ user[u].name \in ToSet(disk[At(u)].has)
        <3>1. Ends(u) BY <1>14, <2>4 DEF LooksAtYaml
        <3> QED BY <1>9, <2>1, <3>1
    <2>5. CASE disk[At(u)].is # "torn" /\ user[u].name \notin ToSet(disk[At(u)].has)
        <3>1. WillWrite(u, Append(disk[At(u)].has, user[u].name)) BY <1>14, <2>5 DEF LooksAtYaml
        <3> QED BY <1>12, <2>1, <2>5, <3>1
    <2> QED BY <2>3, <2>4, <2>5
<1>15. <<"template">> \in Lists BY EmptyAndSingle DEF Lists
<1>16. ASSUME NEW u \in Users, LooksForPack(u) PROVE CatalogueInv'
    <2>1. /\ user[u].pc = "looks" /\ At(u) = ToolPack /\ At(u) \notin Books /\ Touches(u)
          /\ UNCHANGED <<disk, died, finished, edited>>
        BY <1>16 DEF LooksForPack, Books, ToolPack, Index, Domains1, ServersBook
    <2>2. CASE disk[ToolPack].is = "absent"
        <3>1. WillWrite(u, <<"template">>) BY <1>16, <2>2 DEF LooksForPack
        <3> QED BY <1>10, <1>15, <2>1, <2>2, <3>1
    <2>3. CASE disk[ToolPack].is # "absent"
        <3>1. Ends(u) BY <1>16, <2>3 DEF LooksForPack
        <3> QED BY <1>9, <2>1, <3>1
    <2> QED BY <2>2, <2>3
<1>17. ASSUME NEW u \in Users, DoesNotLook(u) PROVE CatalogueInv'
    <2>1. /\ user[u].pc = "looks" /\ At(u) \in Versions \cup {Manifest, Prompt} /\ Touches(u)
          /\ UNCHANGED <<disk, died, finished, edited>> /\ WillWrite(u, <<"template">>)
        BY <1>17 DEF DoesNotLook
    <2>2. At(u) \notin Books /\ At(u) # ToolPack
        BY <2>1, VersionsAssumption DEF Books, ToolPack, Manifest, Prompt, Index, Domains1, ServersBook
    <2> QED BY <1>10, <1>15, <2>1, <2>2
<1>18. ASSUME UNCHANGED catalogueVars PROVE CatalogueInv'
    BY <1>18 DEF catalogueVars, CatalogueInv, CatalogueTypeOK, UserInOrder, FileInOrder, BookInOrder, Todo, At, Busy,
                 Lasting, HasFinished
<1> QED BY <1>5, <1>6, <1>7, <1>13, <1>14, <1>16, <1>17, <1>18, OpensKeeps, WritesKeeps, DiesKeeps, EditsKeeps
        DEF CatalogueStep

LEMMA CatalogueInvInit ==
    ASSUME CatalogueInit
    PROVE  CatalogueInv
<1>1. /\ disk = [f \in Files |-> AbsentFile] /\ user = [u \in Users |-> Free] /\ clashed = {} /\ died = {}
      /\ finished = {} /\ edited = {}
    BY DEF CatalogueInit
<1>2. AbsentFile \in FileStates /\ AbsentFile.is = "absent" /\ AbsentFile.has = <<>>
    BY EmptyAndSingle DEF AbsentFile, FileStates, Lists
<1>3. Free \in Commands1 /\ Free.pc = "free"
    <2>1. Index \in Files /\ <<>> \in Seq(Files) /\ <<>> \in Lists BY EmptyAndSingle DEF Files, Books, Lists
    <2> QED BY <2>1 DEF Free, Commands1
<1>4. \A f \in Files : disk[f].is = "absent" /\ disk[f].has = <<>> BY <1>1, <1>2
<1>5. \A u \in Users : user[u].pc = "free" BY <1>1, <1>3
<1>6. CatalogueTypeOK BY <1>1, <1>2, <1>3 DEF CatalogueTypeOK
<1>7. \A u \in Users : UserInOrder(u) BY <1>5 DEF UserInOrder
<1>8. \A f \in Files : FileInOrder(f) BY <1>4, <1>5 DEF FileInOrder, Busy
<1>9. \A b \in Books : BookInOrder(b) BY <1>1, <1>4, EmptyAndSingle DEF BookInOrder, HasFinished, Files
<1>10. ToSet(disk[Index].has) = {} BY <1>4, EmptyAndSingle DEF Files, Books
<1> QED BY <1>1, <1>6, <1>7, <1>8, <1>9, <1>10 DEF CatalogueInv

LEMMA CatalogueInvHolds ==
    ASSUME CatalogueInv
    PROVE  CatalogueHolds
<1>1. ListedHasEntry
    <2>1. \A n \in Versions : disk[n].is = "torn" => n \in died \/ \E u \in Users : user[u].pc = "writes" /\ At(u) = n
        BY DEF CatalogueInv, FileInOrder, Files
    <2> QED BY <2>1 DEF CatalogueInv, ListedHasEntry, CanDiscover
<1>2. ASSUME NEW b \in Books
      PROVE  /\ \A i, j \in DOMAIN disk[b].has : disk[b].has[i] = disk[b].has[j] => i = j
             /\ b \notin clashed \cup died /\ disk[b].is = "whole" =>
                   \A n \in Versions : <<b, n>> \in finished => n \in ToSet(disk[b].has)
             /\ disk[b].is = "torn" => b \in died \/ \E u \in Users : Busy(u, b)
    <2>1. BookInOrder(b) /\ FileInOrder(b) BY DEF CatalogueInv, Files
    <2> QED BY <2>1 DEF BookInOrder, FileInOrder, NoneTwice, Lasting, HasFinished, Busy
<1>3. BooksHold BY <1>2 DEF BooksHold
<1>4. PackKeepsEdits BY DEF CatalogueInv, PackKeepsEdits
<1> QED BY <1>1, <1>3, <1>4 DEF CatalogueHolds

(* Whatever is published, registered, added, scaffolded and edited, by any   *)
(* number of processes that overlap and die: what the index lists has its    *)
(* entry, no book lists a name twice or loses one unless two processes       *)
(* clashed or one died over it, and an edited tool pack stays edited.        *)
THEOREM BooksAreKept == CatalogueSpec => []CatalogueHolds
<1>1. CatalogueInit => CatalogueInv BY CatalogueInvInit
<1>2. CatalogueInv /\ [CatalogueStep]_catalogueVars => CatalogueInv' BY CatalogueInvStep
<1>3. CatalogueInv => CatalogueHolds BY CatalogueInvHolds
<1> QED BY <1>1, <1>2, <1>3, PTL DEF CatalogueSpec

---------------------------------------------------------------------------
LEMMA HasLeast == ASSUME NEW S \in SUBSET Nat, S # {} PROVE \E x \in S : \A y \in S : x <= y
<1>1. PICK x \in S : \A y \in S : <<y, x>> \notin OpToRel(<, Nat)
    BY NatLessThanWellFounded, WFMin
<1>2. \A y \in S : ~(y < x)
    BY <1>1 DEF OpToRel
<1> QED
    BY <1>2

LEMMA HasMin == ASSUME NEW S \in SUBSET Nat, S # {} PROVE Min(S) \in S /\ \A y \in S : Min(S) <= y
BY HasLeast DEF Min

LEMMA HasMax == ASSUME NEW n \in Nat, NEW S \in SUBSET (0..n), S # {} PROVE Max(S) \in S /\ \A y \in S : y <= Max(S)
<1> DEFINE T == {n - x : x \in S}
<1>1. T \in SUBSET Nat /\ T # {}
    <2>1. \A x \in S : x \in Int /\ 0 <= x /\ x <= n /\ n - x \in Nat
        OBVIOUS
    <2>2. \A y \in T : y \in Nat
        BY <2>1
    <2>3. PICK x \in S : TRUE
        OBVIOUS
    <2>4. n - x \in T
        BY <2>3
    <2> QED
        BY <2>2, <2>4
<1>2. PICK t \in T : \A y \in T : t <= y
    BY <1>1, HasLeast
<1>3. PICK m \in S : t = n - m
    BY <1>2
<1>4. \A y \in S : y <= m
    <2> SUFFICES ASSUME NEW y \in S PROVE y <= m
        OBVIOUS
    <2>1. t <= n - y
        BY <1>2
    <2> QED
        BY <2>1, <1>3
<1>5. \E m1 \in S : \A y \in S : m1 >= y
    BY <1>4
<1> QED
    BY <1>5 DEF Max

(* Credentials.  What a backend has been found to hold, as far as the        *)
(* registry keeps it: the environment it keeps in the history only.          *)
Found(b, n) ==
    CASE b = "env" -> told[n].env [] b = "file" -> secretFile[n] [] OTHER -> cache[b][n]
IsKept(b, n) ==
    CASE b = "env" -> TRUE [] b = "file" -> secretFile # Unloaded [] OTHER -> n \in DOMAIN cache[b]

CredentialTypes ==
    /\ holds \in [Backends -> [Names -> {0, 1}]] /\ up \subseteq Backends
    /\ chain \in Seq(Backends) /\ packsGiven \in Seq(ToolPacks)
    /\ DOMAIN cache = Remote /\ \A b \in Remote : DOMAIN cache[b] \subseteq Names
    /\ secretFile = Unloaded \/ DOMAIN secretFile = Names
    /\ DOMAIN told \subseteq Names

(* The backends that were asked for a name keep what they said: those before *)
(* the one that answered have nothing, and that one has the answer.          *)
ToldIsKept ==
    \A n \in DOMAIN told : \E a \in 0..Len(chain) :
        /\ \A k \in 1..(IF a = 0 THEN Len(chain) ELSE a) :
              IsKept(chain[k], n) /\ (k # a => Found(chain[k], n) = 0)
        /\ IF a = 0 THEN told[n].value = 0
           ELSE told[n].value = Found(chain[a], n) /\ told[n].value # 0

(* The requirements are those of the packs registered so far.                *)
RequirementsAreGiven ==
    reqs = [t \in {u \in ToolNames : LastOn(packsGiven, u) # {}} |-> LastOn(packsGiven, t)]

CredentialInv == CredentialTypes /\ ToldIsKept /\ RequirementsAreGiven /\ ReportIsWhole /\ ExitsAgree

---------------------------------------------------------------------------
(* How far the chain is asked, and what it says.                             *)
LEMMA AnswerSays ==
    ASSUME NEW n, CredentialTypes
    PROVE  /\ Answering(n) \in 0..Len(chain)
           /\ \A k \in 1..(IF Answering(n) = 0 THEN Len(chain) ELSE Answering(n)) :
                 k # Answering(n) => Look(chain[k], n) = 0
           /\ Answering(n) # 0 => Look(chain[Answering(n)], n) # 0
           /\ ResolveName(n) = IF Answering(n) = 0 THEN 0 ELSE Look(chain[Answering(n)], n)
<1>1. PICK at : at = {k \in 1..Len(chain) : Look(chain[k], n) # 0}
    OBVIOUS
<1>2. Answering(n) = IF at = {} THEN 0 ELSE Min(at)
    BY <1>1 DEF Answering
<1>3. Len(chain) \in Nat
    BY DEF CredentialTypes
<1>4. CASE at = {}
    BY <1>1, <1>2, <1>3, <1>4 DEF ResolveName
<1>5. CASE at # {}
    <2>1. at \in SUBSET Nat
        BY <1>1, <1>3
    <2>2. PICK a : a = Min(at)
        OBVIOUS
    <2>3. a \in at /\ \A y \in at : a <= y
        BY <2>1, <2>2, <1>5, HasMin
    <2>4. a \in 1..Len(chain) /\ Look(chain[a], n) # 0 /\ Answering(n) = a
        BY <2>2, <2>3, <1>1, <1>2, <1>5
    <2>5. \A k \in 1..a : k # a => Look(chain[k], n) = 0
        BY <2>3, <2>4, <1>1, <1>3
    <2>6. a # 0
        BY <2>4
    <2> QED
        BY <2>4, <2>5, <2>6, <1>3 DEF ResolveName
<1> QED
    BY <1>4, <1>5

LEMMA AnswerIsFirst ==
    ASSUME NEW n, CredentialTypes, NEW a \in 0..Len(chain),
           \A k \in 1..(IF a = 0 THEN Len(chain) ELSE a) : k # a => Look(chain[k], n) = 0,
           a # 0 => Look(chain[a], n) # 0
    PROVE  Answering(n) = a
<1>1. PICK b : b = Answering(n)
    OBVIOUS
<1>2. /\ b \in 0..Len(chain)
      /\ \A k \in 1..(IF b = 0 THEN Len(chain) ELSE b) : k # b => Look(chain[k], n) = 0
      /\ b # 0 => Look(chain[b], n) # 0
    BY <1>1, AnswerSays
<1>3. Len(chain) \in Nat
    BY DEF CredentialTypes
<1>4. CASE a = 0
    BY <1>1, <1>2, <1>3, <1>4
<1>5. CASE a # 0 /\ b = 0
    BY <1>2, <1>3, <1>5
<1>6. CASE a # 0 /\ b # 0
    <2>1. ~(a < b)
        BY <1>2, <1>3, <1>6
    <2>2. ~(b < a)
        BY <1>2, <1>3, <1>6
    <2> QED
        BY <2>1, <2>2, <1>1, <1>2
<1> QED
    BY <1>4, <1>5, <1>6

(* What is kept is what a look finds, but for the environment.               *)
LEMMA KeptIsFound ==
    ASSUME NEW b, NEW n, IsKept(b, n), b = "env" => holds["env"][n] = told[n].env
    PROVE  Look(b, n) = Found(b, n)
<1>1. CASE b = "env"
    BY <1>1 DEF Look, Found
<1>2. CASE b = "file"
    BY <1>2 DEF Look, Found, LoadedFile, IsKept
<1>3. CASE b # "env" /\ b # "file"
    BY <1>3 DEF Look, Found, Fetch, IsKept
<1> QED
    BY <1>1, <1>2, <1>3

LEMMA KeptAnswersStay == CredentialInv => AnswersStay
<1> SUFFICES ASSUME CredentialInv, NEW n \in DOMAIN told,
                    "env" \notin ToSet(chain) \/ holds["env"][n] = told[n].env
             PROVE  ResolveName(n) = told[n].value
    BY DEF AnswersStay
<1>0. CredentialTypes /\ Len(chain) \in Nat /\ DOMAIN chain = 1..Len(chain)
    BY DEF CredentialInv, CredentialTypes
<1>1. PICK a \in 0..Len(chain) :
        /\ \A k \in 1..(IF a = 0 THEN Len(chain) ELSE a) :
              IsKept(chain[k], n) /\ (k # a => Found(chain[k], n) = 0)
        /\ IF a = 0 THEN told[n].value = 0
           ELSE told[n].value = Found(chain[a], n) /\ told[n].value # 0
    BY DEF CredentialInv, ToldIsKept
<1>2. ASSUME NEW k \in 1..(IF a = 0 THEN Len(chain) ELSE a) PROVE Look(chain[k], n) = Found(chain[k], n)
    <2>1. PICK b : b = chain[k]
        OBVIOUS
    <2>2. k \in DOMAIN chain
        BY <1>0
    <2>3. b \in ToSet(chain)
        BY <2>1, <2>2 DEF ToSet
    <2>4. IsKept(b, n)
        BY <2>1, <1>1
    <2>5. b = "env" => holds["env"][n] = told[n].env
        BY <2>3
    <2>6. Look(b, n) = Found(b, n)
        BY <2>4, <2>5, KeptIsFound
    <2> QED
        BY <2>1, <2>6
<1>3. \A k \in 1..(IF a = 0 THEN Len(chain) ELSE a) : k # a => Look(chain[k], n) = 0
    BY <1>1, <1>2
<1>4. a # 0 => Look(chain[a], n) = told[n].value /\ told[n].value # 0
    <2> SUFFICES ASSUME a # 0 PROVE Look(chain[a], n) = told[n].value /\ told[n].value # 0
        OBVIOUS
    <2>1. a \in 1..(IF a = 0 THEN Len(chain) ELSE a)
        BY <1>0
    <2>2. Look(chain[a], n) = Found(chain[a], n)
        BY <2>1, <1>2
    <2> QED
        BY <2>2, <1>1
<1>5. Answering(n) = a
    BY <1>0, <1>3, <1>4, AnswerIsFirst
<1>6. ResolveName(n) = IF a = 0 THEN 0 ELSE Look(chain[a], n)
    BY <1>5 DEF ResolveName
<1> QED
    BY <1>1, <1>4, <1>6

---------------------------------------------------------------------------
(* What packs say.                                                           *)
LEMMA LastOnAppended ==
    ASSUME NEW g \in Seq(ToolPacks), NEW p \in ToolPacks, NEW t
    PROVE  LastOn(Append(g, p), t) = IF Declared(p, t) # {} THEN Declared(p, t) ELSE LastOn(g, t)
<1>1. PICK h : h = Append(g, p)
    OBVIOUS
<1>2. PICK n : n = Len(g)
    OBVIOUS
<1>3. /\ n \in Nat /\ DOMAIN g = 1..n /\ DOMAIN h = 1..(n + 1) /\ h[n + 1] = p
      /\ \A k \in 1..n : h[k] = g[k]
    BY <1>1, <1>2, AppendProperties
<1>4. PICK on : on = {k \in DOMAIN g : Declared(g[k], t) # {}}
    OBVIOUS
<1>5. PICK on1 : on1 = {k \in DOMAIN h : Declared(h[k], t) # {}}
    OBVIOUS
<1>6. \A k \in 1..n : k \in on1 <=> k \in on
    BY <1>3, <1>4, <1>5
<1>7. n + 1 \in on1 <=> Declared(p, t) # {}
    BY <1>3, <1>5
<1>8. on \in SUBSET (1..n) /\ on1 \in SUBSET (1..(n + 1))
    BY <1>3, <1>4, <1>5
<1>9. LastOn(g, t) = (IF on = {} THEN {} ELSE Declared(g[Max(on)], t))
      /\ LastOn(h, t) = (IF on1 = {} THEN {} ELSE Declared(h[Max(on1)], t))
    BY <1>4, <1>5 DEF LastOn
<1>10. CASE Declared(p, t) # {}
    <2>1. PICK m : m = Max(on1)
        OBVIOUS
    <2>2. on1 \in SUBSET (0..(n + 1)) /\ on1 # {} /\ n + 1 \in Nat
        BY <1>3, <1>7, <1>8, <1>10
    <2>3. m \in on1 /\ \A y \in on1 : y <= m
        BY <2>1, <2>2, HasMax
    <2>4. m = n + 1
        BY <2>3, <1>3, <1>7, <1>8, <1>10
    <2> QED
        BY <2>1, <2>2, <2>4, <1>1, <1>3, <1>9, <1>10
<1>11. CASE Declared(p, t) = {}
    <2>1. on1 = on
        <3>1. n + 1 \notin on1
            BY <1>7, <1>11
        <3>2. on1 \subseteq 1..n
            BY <3>1, <1>3, <1>8
        <3> QED
            BY <3>2, <1>6, <1>8
    <2>2. CASE on = {}
        BY <2>1, <2>2, <1>1, <1>9, <1>11
    <2>3. CASE on # {}
        <3>1. PICK m : m = Max(on)
            OBVIOUS
        <3>2. on \in SUBSET (0..n)
            BY <1>3, <1>8
        <3>3. m \in on
            BY <3>1, <3>2, <2>3, <1>3, HasMax
        <3>4. h[m] = g[m]
            BY <3>3, <1>3, <1>8
        <3> QED
            BY <2>1, <2>3, <3>1, <3>4, <1>1, <1>9, <1>11
    <2> QED
        BY <2>2, <2>3
<1> QED
    BY <1>10, <1>11

LEMMA LastOnIsDeclared ==
    ASSUME NEW g \in Seq(ToolPacks), NEW t, NEW r \in LastOn(g, t)
    PROVE  r.name \in Names
<1>1. PICK on : on = {k \in DOMAIN g : Declared(g[k], t) # {}}
    OBVIOUS
<1>2. PICK n : n = Len(g)
    OBVIOUS
<1>3. on # {} /\ r \in Declared(g[Max(on)], t)
    BY <1>1 DEF LastOn
<1>4. n \in Nat /\ DOMAIN g = 1..n /\ on \in SUBSET (0..n)
    BY <1>1, <1>2
<1>5. PICK m : m = Max(on)
    OBVIOUS
<1>6. m \in DOMAIN g
    BY <1>1, <1>3, <1>4, <1>5, HasMax
<1>7. PICK p : p = g[m]
    OBVIOUS
<1>8. p \in ToolPacks /\ r \in Declared(p, t)
    BY <1>3, <1>5, <1>6, <1>7, <1>4, ElementOfSeq
<1>9. r \in p.credentials \cup p.policy \cup UNION {p.own[u] : u \in DOMAIN p.own}
    BY <1>8 DEF Declared, PackDefaults
<1> QED
    BY <1>8, <1>9, PacksAssumption

(* The union over tools, told apart by name.                                 *)
LEMMA NeedsOfTools ==
    ASSUME NEW of, NEW ts
    PROVE  /\ \A q \in RequiredForTools(of, ts) : \E t \in ts \cap DOMAIN of : \E r \in of[t] : r.name = q.name
           /\ \A q \in RequiredForTools(of, ts) : q.required =>
                 \E t \in ts \cap DOMAIN of : \E r \in of[t] : r.name = q.name /\ r.required
           /\ \A t \in ts \cap DOMAIN of : \A r \in of[t] :
                 \E q \in RequiredForTools(of, ts) : q.name = r.name /\ (r.required => q.required)
<1>1. PICK all : all = UNION {of[t] : t \in ts \cap DOMAIN of}
    OBVIOUS
<1>2. PICK req : req = [n \in {r.name : r \in all} |-> \E r \in all : r.name = n /\ r.required]
    OBVIOUS
<1>3. RequiredForTools(of, ts) = {[name |-> n, required |-> \E r \in all : r.name = n /\ r.required] : n \in {r.name : r \in all}}
    BY <1>1, Zenon DEF RequiredForTools
<1>4. \A q : q \in RequiredForTools(of, ts) <=>
            \E n \in {r.name : r \in all} : q = [name |-> n, required |-> \E r \in all : r.name = n /\ r.required]
    BY <1>3
<1>5. ASSUME NEW q \in RequiredForTools(of, ts)
      PROVE  /\ \E r \in all : r.name = q.name
             /\ q.required => \E r \in all : r.name = q.name /\ r.required
    <2>1. PICK n \in {r.name : r \in all} : q = [name |-> n, required |-> \E r \in all : r.name = n /\ r.required]
        BY <1>4
    <2>2. q.name = n
        BY <2>1
    <2>3. q.required = (\E r \in all : r.name = n /\ r.required)
        BY <2>1, Zenon
    <2> QED
        BY <2>1, <2>2, <2>3
<1>6. ASSUME NEW r \in all PROVE \E q \in RequiredForTools(of, ts) : q.name = r.name /\ (r.required => q.required)
    <2>1. PICK n : n = r.name
        OBVIOUS
    <2>2. PICK q : q = [name |-> n, required |-> \E x \in all : x.name = n /\ x.required]
        OBVIOUS
    <2>3. q \in RequiredForTools(of, ts)
        BY <2>1, <2>2, <1>4
    <2>4. q.name = n
        BY <2>2
    <2>5. q.required = (\E x \in all : x.name = n /\ x.required)
        BY <2>2, Zenon
    <2>6. r.required => q.required
        BY <2>1, <2>5
    <2> QED
        BY <2>1, <2>3, <2>4, <2>6
<1>7. \A r : r \in all <=> \E t \in ts \cap DOMAIN of : r \in of[t]
    BY <1>1
<1> QED
    BY <1>5, <1>6, <1>7

LEMMA UnsetSays ==
    ASSUME NEW of, NEW ts, NEW n
    PROVE  n \in Unset(of, ts) <=>
              holds["env"][n] = 0 /\ \E t \in ts \cap DOMAIN of : \E r \in of[t] : r.name = n /\ r.required
<1>1. n \in Unset(of, ts) <=>
          \E q \in RequiredForTools(of, ts) : q.required /\ holds["env"][q.name] = 0 /\ q.name = n
    BY DEF Unset
<1> QED
    BY <1>1, NeedsOfTools

LEMMA ShelfOfTools == DOMAIN OnShelf \subseteq ToolNames
BY DEF OnShelf

---------------------------------------------------------------------------
LEMMA CredentialInvInit == CredentialsInit => CredentialInv
<1> SUFFICES ASSUME CredentialsInit PROVE CredentialInv
    OBVIOUS
<1>1. /\ holds = [b \in Backends |-> [n \in Names |-> 0]] /\ up = Backends /\ chain = <<"env">>
      /\ cache = EmptyCache /\ secretFile = Unloaded /\ reqs = <<>> /\ credReport = NoReport
      /\ packsGiven = <<>> /\ told = <<>>
    BY DEF CredentialsInit
<1>2. DOMAIN told = {} /\ DOMAIN reqs = {} /\ DOMAIN packsGiven = {}
    BY <1>1
<1>3. DOMAIN cache = Remote /\ \A b \in Remote : DOMAIN cache[b] = {}
    BY <1>1 DEF EmptyCache
<1>4. chain \in Seq(Backends) /\ packsGiven \in Seq(ToolPacks)
    BY <1>1 DEF Backends
<1>5. holds \in [Backends -> [Names -> {0, 1}]]
    BY <1>1
<1>6. CredentialTypes
    BY <1>1, <1>2, <1>3, <1>4, <1>5 DEF CredentialTypes
<1>7. ToldIsKept
    BY <1>2 DEF ToldIsKept
<1>8. RequirementsAreGiven
    <2>1. \A t : LastOn(packsGiven, t) = {}
        BY <1>2 DEF LastOn
    <2>2. reqs = [t \in {} |-> {}]
        BY <1>1
    <2>3. {u \in ToolNames : LastOn(packsGiven, u) # {}} = {}
        BY <2>1
    <2> QED
        BY <2>2, <2>3 DEF RequirementsAreGiven
<1>9. credReport.cmd = "none"
    BY <1>1 DEF NoReport
<1> QED
    BY <1>6, <1>7, <1>8, <1>9 DEF CredentialInv, ReportIsWhole, ExitsAgree

LEMMA ToldKept ==
    ASSUME ToldIsKept, UNCHANGED <<chain, cache, secretFile, told>>
    PROVE  ToldIsKept'
BY DEF ToldIsKept, IsKept, Found

LEMMA RequirementsKept ==
    ASSUME RequirementsAreGiven, UNCHANGED <<reqs, packsGiven>>
    PROVE  RequirementsAreGiven'
BY DEF RequirementsAreGiven

(* Nothing is being looked up; what was said of a report is no longer so.    *)
LEMMA CredentialRests ==
    ASSUME CredentialInv, UNCHANGED <<chain, cache, secretFile, told, reqs, packsGiven>>,
           holds' \in [Backends -> [Names -> {0, 1}]], up' \subseteq Backends,
           credReport'.cmd \in {"none", "agent", "all", "required", "oauth"}
    PROVE  CredentialInv'
<1>1. CredentialTypes'
    BY DEF CredentialInv, CredentialTypes
<1>2. ToldIsKept'
    BY ToldKept DEF CredentialInv
<1>3. RequirementsAreGiven'
    BY RequirementsKept DEF CredentialInv
<1> QED
    BY <1>1, <1>2, <1>3 DEF CredentialInv, ReportIsWhole, ExitsAgree

LEMMA SetBackendKeeps == ASSUME CredentialInv, NEW c \in Chains, SetBackend(c) PROVE CredentialInv'
<1>1. /\ chain' = BackendFromConfig(c) /\ cache' = EmptyCache /\ secretFile' = Unloaded /\ told' = <<>>
      /\ credReport'.cmd = "none" /\ UNCHANGED <<holds, up, reqs, packsGiven>>
    BY DEF SetBackend, worldVars, NoReport
<1>2. chain' \in Seq(Backends)
    <2>1. c \in Seq(Backends)
        BY PacksAssumption DEF Backends
    <2>2. "env" \in Backends
        BY DEF Backends
    <2>3. <<"env">> \in Seq(Backends)
        BY <2>2
    <2> QED
        BY <1>1, <2>1, <2>3 DEF BackendFromConfig
<1>3. DOMAIN told' = {} /\ DOMAIN cache' = Remote /\ \A b \in Remote : DOMAIN cache'[b] = {}
    BY <1>1 DEF EmptyCache
<1>4. CredentialTypes'
    BY <1>1, <1>2, <1>3 DEF CredentialInv, CredentialTypes
<1>5. ToldIsKept'
    BY <1>3 DEF ToldIsKept
<1>6. RequirementsAreGiven'
    BY <1>1, RequirementsKept DEF CredentialInv
<1> QED
    BY <1>1, <1>4, <1>5, <1>6 DEF CredentialInv, ReportIsWhole, ExitsAgree

LEMMA RegisterPackKeeps == ASSUME CredentialInv, NEW p \in ToolPacks, RegisterToolPack(p) PROVE CredentialInv'
<1>1. /\ reqs' = Registered(reqs, p) /\ packsGiven' = Append(packsGiven, p) /\ credReport'.cmd = "none"
      /\ UNCHANGED <<holds, up, chain, cache, secretFile, told>>
    BY DEF RegisterToolPack, worldVars, NoReport
<1>2. packsGiven \in Seq(ToolPacks)
    BY DEF CredentialInv, CredentialTypes
<1>3. packsGiven' \in Seq(ToolPacks)
    BY <1>1, <1>2, AppendProperties
<1>4. CredentialTypes'
    BY <1>1, <1>3 DEF CredentialInv, CredentialTypes
<1>5. ToldIsKept'
    BY <1>1, ToldKept DEF CredentialInv
<1>6. PICK new : new = {t \in ToolNames : Declared(p, t) # {}}
    OBVIOUS
<1>7. PICK was : was = {u \in ToolNames : LastOn(packsGiven, u) # {}}
    OBVIOUS
<1>8. reqs' = [t \in DOMAIN reqs \cup new |-> IF t \in new THEN Declared(p, t) ELSE reqs[t]]
    BY <1>1, <1>6 DEF Registered
<1>9. DOMAIN reqs = was /\ \A t \in was : reqs[t] = LastOn(packsGiven, t)
    BY <1>7 DEF CredentialInv, RequirementsAreGiven
<1>10. \A t : LastOn(packsGiven', t) = IF Declared(p, t) # {} THEN Declared(p, t) ELSE LastOn(packsGiven, t)
    BY <1>1, <1>2, LastOnAppended
<1>11. {u \in ToolNames : LastOn(packsGiven', u) # {}} = was \cup new
    BY <1>6, <1>7, <1>10
<1>12. \A t \in was \cup new : (IF t \in new THEN Declared(p, t) ELSE reqs[t]) = LastOn(packsGiven', t)
    BY <1>6, <1>7, <1>9, <1>10
<1>13. RequirementsAreGiven'
    BY <1>8, <1>9, <1>11, <1>12 DEF RequirementsAreGiven
<1> QED
    BY <1>1, <1>4, <1>5, <1>13 DEF CredentialInv, ReportIsWhole, ExitsAgree

(* A look-up keeps whatever it found out on the way.                         *)
LEMMA LookUpKeeps ==
    ASSUME CredentialTypes, ToldIsKept, NEW ns \in SUBSET Names, NEW lost \in SUBSET Names, LookUp(ns, lost),
           UNCHANGED <<holds, chain>>
    PROVE  /\ ToldIsKept' /\ DOMAIN told' \subseteq Names
           /\ secretFile' = Unloaded \/ DOMAIN secretFile' = Names
           /\ DOMAIN cache' = Remote /\ \A b \in Remote : DOMAIN cache'[b] \subseteq Names
<1>1. /\ secretFile' = IF (\E n \in ns : "file" \in AskedFor(n)) \/ (lost # {} /\ "file" \in BeforeVault)
                       THEN LoadedFile ELSE secretFile
      /\ told' = [n \in DOMAIN told \cup ns |->
                     IF n \in ns THEN [env |-> holds["env"][n], value |-> ResolveName(n)] ELSE told[n]]
    BY DEF LookUp
<1>2. /\ DOMAIN cache' = Remote
      /\ \A b \in Remote : \E new \in SUBSET (ns \cup lost) :
            /\ \A n \in ns : b \in AskedFor(n) => n \in new
            /\ DOMAIN cache'[b] = DOMAIN cache[b] \cup new
            /\ \A n \in DOMAIN cache'[b] : cache'[b][n] = IF n \in new THEN Fetch(b, n) ELSE cache[b][n]
    <2>1. cache' = [b \in Remote |->
              [n \in DOMAIN cache[b] \cup ({n \in ns : b \in AskedFor(n)} \cup {n \in lost : b \in BeforeVault}) |->
                  IF n \in {m \in ns : b \in AskedFor(m)} \cup {m \in lost : b \in BeforeVault}
                  THEN Fetch(b, n) ELSE cache[b][n]]]
        BY DEF LookUp
    <2>2. ASSUME NEW b \in Remote
          PROVE  \E new \in SUBSET (ns \cup lost) :
                    /\ \A n \in ns : b \in AskedFor(n) => n \in new
                    /\ DOMAIN cache'[b] = DOMAIN cache[b] \cup new
                    /\ \A n \in DOMAIN cache'[b] : cache'[b][n] = IF n \in new THEN Fetch(b, n) ELSE cache[b][n]
        <3>1. PICK new : new = {n \in ns : b \in AskedFor(n)} \cup {n \in lost : b \in BeforeVault}
            OBVIOUS
        <3>2. cache'[b] = [n \in DOMAIN cache[b] \cup new |-> IF n \in new THEN Fetch(b, n) ELSE cache[b][n]]
            BY <2>1, <3>1
        <3>3. new \in SUBSET (ns \cup lost) /\ \A n \in ns : b \in AskedFor(n) => n \in new
            BY <3>1
        <3> QED
            BY <3>2, <3>3
    <2> QED
        BY <2>1, <2>2
<1>3. secretFile = Unloaded \/ DOMAIN secretFile = Names
    BY DEF CredentialTypes
<1>4. DOMAIN LoadedFile = Names /\ (secretFile # Unloaded => LoadedFile = secretFile)
    BY <1>3 DEF LoadedFile
<1>5. secretFile' = secretFile \/ secretFile' = LoadedFile
    BY <1>1
<1>6. PICK ch : ch = chain
    OBVIOUS
<1>7. ch \in Seq(Backends) /\ Len(ch) \in Nat /\ \A k \in 1..Len(ch) : ch[k] \in Backends
    BY <1>6 DEF CredentialTypes
<1>8. ASSUME NEW n \in ns, NEW b \in AskedFor(n), b \in Backends
      PROVE  IsKept(b, n)' /\ Found(b, n)' = Look(b, n)
    <2>1. CASE b = "env"
        BY <2>1, <1>1 DEF IsKept, Found, Look
    <2>2. CASE b = "file"
        <3>1. secretFile' = LoadedFile
            BY <2>2, <1>1, <1>8
        <3>2. secretFile' # Unloaded
            <4>1. n \in DOMAIN secretFile'
                BY <3>1, <1>4
            <4>2. DOMAIN Unloaded = {}
                BY DEF Unloaded
            <4> QED
                BY <4>1, <4>2
        <3> QED
            BY <2>2, <3>1, <3>2 DEF IsKept, Found, Look
    <2>3. CASE b \in Remote
        <3>1. n \in DOMAIN cache'[b] /\ cache'[b][n] = Fetch(b, n)
            BY <2>3, <1>2, <1>8
        <3>2. b # "env" /\ b # "file"
            BY <2>3 DEF Remote
        <3> QED
            BY <3>1, <3>2 DEF IsKept, Found, Look
    <2> QED
        BY <2>1, <2>2, <2>3, <1>8 DEF Backends, Remote
<1>9. ASSUME NEW n \in DOMAIN told, n \notin ns, NEW b \in Backends, IsKept(b, n)
      PROVE  IsKept(b, n)' /\ Found(b, n)' = Found(b, n)
    <2>1. CASE b = "env"
        <3>1. told'[n] = told[n]
            BY <1>1, <1>9
        <3> QED
            BY <2>1, <3>1 DEF IsKept, Found
    <2>2. CASE b = "file"
        <3>1. secretFile # Unloaded
            BY <2>2, <1>9 DEF IsKept
        <3>2. secretFile' = secretFile
            BY <3>1, <1>4, <1>5
        <3> QED
            BY <2>2, <3>1, <3>2 DEF IsKept, Found
    <2>3. CASE b \in Remote
        <3>1. b # "env" /\ b # "file"
            BY <2>3 DEF Remote
        <3>2. n \in DOMAIN cache[b]
            BY <3>1, <1>9 DEF IsKept
        <3>3. n \in DOMAIN cache'[b] /\ cache'[b][n] = cache[b][n]
            BY <2>3, <3>2, <1>2 DEF Fetch
        <3> QED
            BY <3>1, <3>3 DEF IsKept, Found
    <2> QED
        BY <2>1, <2>2, <2>3 DEF Backends, Remote
<1>10. ASSUME NEW n \in DOMAIN told'
       PROVE  \E a \in 0..Len(ch) :
                 /\ \A k \in 1..(IF a = 0 THEN Len(ch) ELSE a) :
                       IsKept(ch[k], n)' /\ (k # a => Found(ch[k], n)' = 0)
                 /\ IF a = 0 THEN told'[n].value = 0
                    ELSE told'[n].value = Found(ch[a], n)' /\ told'[n].value # 0
    <2>1. CASE n \in ns
        <3>1. PICK a : a = Answering(n)
            OBVIOUS
        <3>2. /\ a \in 0..Len(ch)
              /\ \A k \in 1..(IF a = 0 THEN Len(ch) ELSE a) : k # a => Look(ch[k], n) = 0
              /\ a # 0 => Look(ch[a], n) # 0
              /\ ResolveName(n) = IF a = 0 THEN 0 ELSE Look(ch[a], n)
            BY <3>1, <1>6, AnswerSays
        <3>3. told'[n].value = ResolveName(n)
            BY <2>1, <1>1
        <3>4. AskedFor(n) = {ch[k] : k \in 1..(IF a = 0 THEN Len(ch) ELSE a)}
            BY <3>1, <1>6 DEF AskedFor
        <3>5. ASSUME NEW k \in 1..(IF a = 0 THEN Len(ch) ELSE a)
              PROVE  IsKept(ch[k], n)' /\ Found(ch[k], n)' = Look(ch[k], n)
            <4>1. PICK b : b = ch[k]
                OBVIOUS
            <4>2. k \in 1..Len(ch)
                BY <3>2, <1>7
            <4>3. b \in AskedFor(n) /\ b \in Backends
                BY <4>1, <4>2, <3>4, <1>7
            <4>4. IsKept(b, n)' /\ Found(b, n)' = Look(b, n)
                BY <4>3, <2>1, <1>8
            <4> QED
                BY <4>1, <4>4
        <3>6. a # 0 => a \in 1..(IF a = 0 THEN Len(ch) ELSE a)
            BY <3>2, <1>7
        <3> QED
            BY <3>2, <3>3, <3>5, <3>6
    <2>2. CASE n \notin ns
        <3>1. n \in DOMAIN told /\ told'[n] = told[n]
            BY <2>2, <1>1, <1>10
        <3>2. PICK a \in 0..Len(ch) :
                 /\ \A k \in 1..(IF a = 0 THEN Len(ch) ELSE a) :
                       IsKept(ch[k], n) /\ (k # a => Found(ch[k], n) = 0)
                 /\ IF a = 0 THEN told[n].value = 0
                    ELSE told[n].value = Found(ch[a], n) /\ told[n].value # 0
            BY <3>1, <1>6 DEF ToldIsKept
        <3>3. ASSUME NEW k \in 1..(IF a = 0 THEN Len(ch) ELSE a)
              PROVE  IsKept(ch[k], n)' /\ Found(ch[k], n)' = Found(ch[k], n)
            <4>1. PICK b : b = ch[k]
                OBVIOUS
            <4>2. k \in 1..Len(ch)
                BY <1>7
            <4>3. b \in Backends /\ IsKept(b, n)
                BY <4>1, <4>2, <3>2, <1>7
            <4>4. IsKept(b, n)' /\ Found(b, n)' = Found(b, n)
                BY <4>3, <3>1, <2>2, <1>9
            <4> QED
                BY <4>1, <4>4
        <3>4. a # 0 => a \in 1..(IF a = 0 THEN Len(ch) ELSE a)
            BY <1>7
        <3> QED
            BY <3>1, <3>2, <3>3, <3>4
    <2> QED
        BY <2>1, <2>2
<1>11. ToldIsKept'
    <2>1. chain' = ch
        BY <1>6
    <2> QED
        BY <2>1, <1>10 DEF ToldIsKept
<1>12. DOMAIN told' \subseteq Names
    BY <1>1 DEF CredentialTypes
<1>13. secretFile' = Unloaded \/ DOMAIN secretFile' = Names
    BY <1>3, <1>4, <1>5
<1>14. \A b \in Remote : DOMAIN cache'[b] \subseteq Names
    <2>1. \A b \in Remote : DOMAIN cache[b] \subseteq Names
        BY DEF CredentialTypes
    <2> QED
        BY <2>1, <1>2
<1> QED
    BY <1>2, <1>11, <1>12, <1>13, <1>14

LEMMA ValidateKeeps == ASSUME CredentialInv, NEW ts \in SUBSET ToolNames, Validate(ts) PROVE CredentialInv'
<1>0. CredentialTypes /\ ToldIsKept /\ RequirementsAreGiven
    BY DEF CredentialInv
<1>1. PICK need : need = RequiredForTools(reqs, ts)
    OBVIOUS
<1>2. PICK resolved1 : resolved1 = {r.name : r \in {q \in need : ResolveName(q.name) # 0}}
    OBVIOUS
<1>3. PICK missing : missing = {r.name : r \in {q \in need : ResolveName(q.name) = 0 /\ q.required}}
    OBVIOUS
<1>4. PICK ns : ns = {r.name : r \in need}
    OBVIOUS
<1>5. /\ LookUp(ns, {})
      /\ credReport' = [cmd |-> "validate", tools |-> ts, resolved |-> resolved1, missing |-> missing]
      /\ UNCHANGED <<holds, up, chain, reqs, packsGiven>>
    <2>1. LookUp({r.name : r \in need}, {})
        BY <1>1 DEF Validate
    <2>2. credReport' = [cmd |-> "validate", tools |-> ts, resolved |-> resolved1, missing |-> missing]
        BY <1>1, <1>2, <1>3 DEF Validate
    <2>3. UNCHANGED <<holds, up, chain, reqs, packsGiven>>
        BY DEF Validate, worldVars
    <2> QED
        BY <2>1, <2>2, <2>3, <1>4
<1>6. /\ DOMAIN reqs = {u \in ToolNames : LastOn(packsGiven, u) # {}}
      /\ \A t \in DOMAIN reqs : reqs[t] = LastOn(packsGiven, t)
    BY <1>0 DEF RequirementsAreGiven
<1>7. ns \in SUBSET Names
    <2> SUFFICES ASSUME NEW q \in need PROVE q.name \in Names
        BY <1>4
    <2>1. PICK t \in ts \cap DOMAIN reqs : \E r \in reqs[t] : r.name = q.name
        BY <1>1, NeedsOfTools
    <2>2. PICK r \in LastOn(packsGiven, t) : r.name = q.name
        BY <2>1, <1>6
    <2>3. packsGiven \in Seq(ToolPacks)
        BY <1>0 DEF CredentialTypes
    <2> QED
        BY <2>2, <2>3, LastOnIsDeclared
<1>8. /\ ToldIsKept' /\ DOMAIN told' \subseteq Names
      /\ secretFile' = Unloaded \/ DOMAIN secretFile' = Names
      /\ DOMAIN cache' = Remote /\ \A b \in Remote : DOMAIN cache'[b] \subseteq Names
    BY <1>0, <1>5, <1>7, LookUpKeeps
<1>9. CredentialTypes'
    BY <1>0, <1>5, <1>8 DEF CredentialTypes
<1>10. RequirementsAreGiven'
    BY <1>0, <1>5, RequirementsKept
<1>11. ASSUME NEW t \in ts, NEW r \in LastOn(packsGiven, t), r.required
       PROVE  r.name \in resolved1 \cup missing
    <2>1. t \in ts \cap DOMAIN reqs /\ r \in reqs[t]
        BY <1>6, <1>11
    <2>2. PICK q \in need : q.name = r.name /\ q.required
        BY <2>1, <1>1, <1>11, NeedsOfTools
    <2>3. CASE ResolveName(q.name) # 0
        BY <2>2, <2>3, <1>2
    <2>4. CASE ResolveName(q.name) = 0
        BY <2>2, <2>4, <1>3
    <2> QED
        BY <2>3, <2>4
<1>12. ASSUME "env" \in ToSet(chain), NEW n \in missing PROVE holds["env"][n] = 0
    <2>1. ResolveName(n) = 0
        BY <1>3
    <2>2. PICK k \in 1..Len(chain) : chain[k] = "env"
        <3>1. DOMAIN chain = 1..Len(chain)
            BY <1>0 DEF CredentialTypes
        <3> QED
            BY <3>1, <1>12 DEF ToSet
    <2>3. Answering(n) = 0
        BY <2>1, <1>0, AnswerSays
    <2>4. Look(chain[k], n) = 0
        BY <2>3, <1>0, AnswerSays
    <2> QED
        BY <2>2, <2>4 DEF Look
<1>13. missing \cap resolved1 = {}
    BY <1>2, <1>3
<1>14. ReportIsWhole'
    <2>1. /\ credReport'.tools = ts /\ credReport'.resolved = resolved1 /\ credReport'.missing = missing
          /\ packsGiven' = packsGiven /\ holds' = holds /\ chain' = chain
        BY <1>5
    <2>2. \A t \in credReport'.tools : \A r \in LastOn(packsGiven', t) :
              r.required => r.name \in credReport'.resolved \cup credReport'.missing
        BY <2>1, <1>11
    <2>3. "env" \in ToSet(chain') => \A n \in credReport'.missing : holds'["env"][n] = 0
        BY <2>1, <1>12
    <2>4. credReport'.missing \cap credReport'.resolved = {}
        BY <2>1, <1>13
    <2> QED
        BY <2>2, <2>3, <2>4 DEF ReportIsWhole
<1>15. ExitsAgree'
    <2>1. credReport'.cmd = "validate"
        BY <1>5
    <2> QED
        BY <2>1 DEF ExitsAgree
<1> QED
    BY <1>8, <1>9, <1>10, <1>14, <1>15 DEF CredentialInv

(* Where Vault could not be reached, no answer is changed.                   *)
LEMMA ValidateRaisesKeeps ==
    ASSUME CredentialInv, NEW ts \in SUBSET ToolNames, NEW ns \in SUBSET Names, NEW n \in Names,
           ValidateRaises(ts, ns, n)
    PROVE  CredentialInv'
<1>0. CredentialTypes /\ ToldIsKept /\ RequirementsAreGiven
    BY DEF CredentialInv
<1>1. LookUp(ns, {n}) /\ credReport'.cmd = "none" /\ UNCHANGED <<holds, up, chain, reqs, packsGiven>>
    BY DEF ValidateRaises, worldVars, NoReport
<1>2. {n} \in SUBSET Names
    OBVIOUS
<1>3. /\ ToldIsKept' /\ DOMAIN told' \subseteq Names
      /\ secretFile' = Unloaded \/ DOMAIN secretFile' = Names
      /\ DOMAIN cache' = Remote /\ \A b \in Remote : DOMAIN cache'[b] \subseteq Names
    BY <1>0, <1>1, <1>2, LookUpKeeps
<1>4. CredentialTypes'
    BY <1>0, <1>1, <1>3 DEF CredentialTypes
<1>5. RequirementsAreGiven'
    BY <1>0, <1>1, RequirementsKept
<1>6. ReportIsWhole' /\ ExitsAgree'
    BY <1>1 DEF ReportIsWhole, ExitsAgree
<1> QED
    BY <1>3, <1>4, <1>5, <1>6 DEF CredentialInv

LEMMA UnsetKept == ASSUME holds' = holds, NEW of, NEW ts PROVE Unset(of, ts)' = Unset(of, ts)
BY DEF Unset

(* The two commands whose exit code says something.                          *)
LEMMA ReportKeeps ==
    ASSUME CredentialInv, UNCHANGED <<holds, up, chain, cache, secretFile, told, reqs, packsGiven>>,
           \/ credReport'.cmd = "missing" /\ (credReport'.exit = 1 <=> Unset(OnShelf, ToolNames) # {})
           \/ credReport'.cmd = "domain" /\ credReport'.missing \subseteq Unset(OnShelf, ToolNames)
    PROVE  CredentialInv'
<1>1. CredentialTypes'
    BY DEF CredentialInv, CredentialTypes
<1>2. ToldIsKept'
    BY ToldKept DEF CredentialInv
<1>3. RequirementsAreGiven'
    BY RequirementsKept DEF CredentialInv
<1>4. Unset(OnShelf, ToolNames)' = Unset(OnShelf, ToolNames)
    BY UnsetKept
<1>5. ExitsAgree'
    BY <1>4 DEF ExitsAgree
<1>6. ReportIsWhole'
    BY DEF ReportIsWhole
<1> QED
    BY <1>1, <1>2, <1>3, <1>5, <1>6 DEF CredentialInv

LEMMA CredentialInvStep == CredentialInv /\ [CredentialStep]_credentialVars => CredentialInv'
<1> SUFFICES ASSUME CredentialInv, [CredentialStep]_credentialVars PROVE CredentialInv'
    OBVIOUS
<1>0. CredentialTypes /\ holds \in [Backends -> [Names -> {0, 1}]] /\ up \subseteq Backends
    BY DEF CredentialInv, CredentialTypes
<1>1. ASSUME NEW b \in Backends, NEW n \in Names, NEW v \in {0, 1}, SecretChanges(b, n, v) PROVE CredentialInv'
    <2>1. /\ holds' = [holds EXCEPT ![b][n] = v] /\ credReport'.cmd = "none"
          /\ UNCHANGED <<up, chain, cache, secretFile, told, reqs, packsGiven>>
        BY <1>1 DEF SecretChanges, NoReport, registryVars1
    <2>2. holds' \in [Backends -> [Names -> {0, 1}]]
        BY <2>1, <1>0
    <2> QED
        BY <2>1, <2>2, <1>0, CredentialRests
<1>2. ASSUME NEW b \in Backends, Outage(b) PROVE CredentialInv'
    <2>1. /\ up' \subseteq Backends /\ credReport'.cmd = "none"
          /\ UNCHANGED <<holds, chain, cache, secretFile, told, reqs, packsGiven>>
        BY <1>0, <1>2 DEF Outage, NoReport, registryVars1
    <2> QED
        BY <2>1, <1>0, CredentialRests
<1>3. ASSUME NEW cmd, NEW agents, NEW missing, NEW code, CommandExits(cmd, agents, missing, code)
      PROVE  /\ credReport'.cmd = cmd /\ credReport'.missing = missing /\ credReport'.exit = code
             /\ UNCHANGED <<holds, up, chain, cache, secretFile, told, reqs, packsGiven>>
    BY <1>3 DEF CommandExits, worldVars, registryVars1
<1>4. ASSUME NEW cmd \in {"agent", "all", "required", "oauth"}, NEW agents, NEW missing, NEW code,
             CommandExits(cmd, agents, missing, code)
      PROVE  CredentialInv'
    BY <1>0, <1>3, <1>4, CredentialRests
<1>5. ASSUME NEW as, StatusOfDomain(as) PROVE CredentialInv'
    <2>1. PICK missing : missing = UNION {Unset(OnShelf, a) : a \in as}
        OBVIOUS
    <2>2. CommandExits("domain", as, missing, IF missing = {} THEN 0 ELSE 1)
        BY <2>1, <1>5 DEF StatusOfDomain
    <2>3. missing \subseteq Unset(OnShelf, ToolNames)
        <3> SUFFICES ASSUME NEW a \in as, NEW n \in Unset(OnShelf, a) PROVE n \in Unset(OnShelf, ToolNames)
            BY <2>1
        <3> QED
            BY UnsetSays, ShelfOfTools
    <2> QED
        BY <2>2, <2>3, <1>3, ReportKeeps
<1>6. CASE CredMissing
    <2>1. Unset(OnShelf, DOMAIN OnShelf) = Unset(OnShelf, ToolNames)
        <3>1. \A n : n \in Unset(OnShelf, DOMAIN OnShelf) <=> n \in Unset(OnShelf, ToolNames)
            BY UnsetSays, ShelfOfTools
        <3> QED
            BY <3>1
    <2>2. CommandExits("missing", {DOMAIN OnShelf}, Unset(OnShelf, DOMAIN OnShelf),
                       IF Unset(OnShelf, DOMAIN OnShelf) = {} THEN 0 ELSE 1)
        BY <1>6 DEF CredMissing
    <2>3. /\ credReport'.cmd = "missing" /\ (credReport'.exit = 1 <=> Unset(OnShelf, ToolNames) # {})
          /\ UNCHANGED <<holds, up, chain, cache, secretFile, told, reqs, packsGiven>>
        BY <2>1, <2>2, <1>3
    <2> QED
        BY <2>3, ReportKeeps
<1>7. ASSUME NEW a, StatusOfAgent(a) \/ CredRequired(a) PROVE CredentialInv'
    BY <1>4, <1>7 DEF StatusOfAgent, CredRequired
<1>8. CASE StatusOfAll
    BY <1>4, <1>8 DEF StatusOfAll
<1>9. ASSUME NEW g, OauthSetup(g) PROVE CredentialInv'
    BY <1>4, <1>9 DEF OauthSetup
<1>10. CASE UNCHANGED credentialVars
    <2>1. UNCHANGED <<holds, up, chain, cache, secretFile, told, reqs, packsGiven, credReport>>
        BY <1>10 DEF credentialVars
    <2>2. CredentialTypes'
        BY <2>1, <1>0 DEF CredentialTypes
    <2>3. ToldIsKept' /\ RequirementsAreGiven'
        BY <2>1, ToldKept, RequirementsKept DEF CredentialInv
    <2>4. ReportIsWhole'
        BY <2>1 DEF CredentialInv, ReportIsWhole
    <2>5. Unset(OnShelf, ToolNames)' = Unset(OnShelf, ToolNames)
        BY <2>1, UnsetKept
    <2>6. ExitsAgree'
        BY <2>1, <2>5 DEF CredentialInv, ExitsAgree
    <2> QED
        BY <2>2, <2>3, <2>4, <2>6 DEF CredentialInv
<1>11. CASE \E c \in Chains : SetBackend(c)
    BY <1>11, SetBackendKeeps
<1>12. CASE \E p \in ToolPacks : RegisterToolPack(p)
    BY <1>12, RegisterPackKeeps
<1>13. CASE \E ts \in SUBSET ToolNames : Validate(ts)
    BY <1>13, ValidateKeeps
<1>14. CASE \E ts \in SUBSET ToolNames : \E ns \in SUBSET Names, n \in Names : ValidateRaises(ts, ns, n)
    BY <1>14, ValidateRaisesKeeps
<1> QED
    BY <1>1, <1>2, <1>5, <1>6, <1>7, <1>8, <1>9, <1>10, <1>11, <1>12, <1>13, <1>14 DEF CredentialStep

(* Whatever order secrets, outages, packs and questions come in: a name that *)
(* was looked up keeps its value, a report names all that its tools need,    *)
(* and the exit codes agree, for any packs, chains and agents.               *)
THEOREM CredentialsAreSteady == CredentialSpec => []CredentialsHold
<1>1. CredentialsInit => CredentialInv
    BY CredentialInvInit
<1>2. CredentialInv /\ [CredentialStep]_credentialVars => CredentialInv'
    BY CredentialInvStep
<1>3. CredentialInv => CredentialsHold
    BY KeptAnswersStay DEF CredentialInv, CredentialsHold
<1> QED
    BY <1>1, <1>2, <1>3, PTL DEF CredentialSpec

---------------------------------------------------------------------------

(* The evaluator loop and retries.                                           *)
Phases == {"plan", "generate", "passes", "fails"}
Entries1 == [by : Tasks, phase : Phases, round : Nat]
LoopAnswers == [status : {"passed", "failed"}, rounds : 0..LoopRounds, output : Nat, history : Tasks]

LoopTypes ==
    /\ loopRun \in [Tasks -> [pc : {"idle", "plan", "generate", "evaluate", "over"},
                              round : Nat, output : Nat, feedback : Nat]]
    /\ lists \in [Tasks -> Seq(Entries1)] /\ answers \in [Tasks -> LoopAnswers \cup {NoAnswer}]
    /\ \A r \in Tasks : InRun(r) => history1 \in Tasks
    /\ \A r \in Tasks : answers[r] # NoAnswer => loopRun[r].pc = "over"

(* Where a run stands in its rounds.                                         *)
RoundsInv ==
    /\ \A r \in Tasks : loopRun[r].pc \in {"idle", "plan"} =>
          loopRun[r].round = 0 /\ loopRun[r].output = 0 /\ loopRun[r].feedback = 0
    /\ \A r \in Tasks : loopRun[r].pc \in {"generate", "evaluate"} =>
          /\ loopRun[r].round \in 1..LoopRounds /\ loopRun[r].feedback = loopRun[r].round - 1
          /\ loopRun[r].output = IF loopRun[r].pc = "generate" THEN loopRun[r].round - 1 ELSE loopRun[r].round
    /\ \A r \in Tasks : answers[r] # NoAnswer => answers[r].output = answers[r].rounds

(* A run that no other overlaps has the list to itself from its start on.    *)
ListIsOwn ==
    /\ \A r \in Tasks : loopRun[r].pc = "idle" => lists[r] = <<>> /\ history1 # r
    /\ \A r \in Tasks : InRun(r) /\ r \notin crowded => history1 = r
    /\ \A r, o \in Tasks : history1 = r /\ r \notin crowded /\ InRun(o) => o = r
    /\ \A r \in Tasks : answers[r] # NoAnswer /\ r \notin crowded => answers[r].history = r

(* The list of such a run, as far as it has come.                            *)
ListSoFar(r) ==
    CASE loopRun[r].pc = "plan" -> <<>>
      [] loopRun[r].pc = "generate" -> HistoryOf(r, loopRun[r].round - 1, "failed")
      [] loopRun[r].pc = "evaluate" ->
            Append(HistoryOf(r, loopRun[r].round - 1, "failed"), HistoryEntry(r, "generate"))
ListGrows == \A r \in Tasks : InRun(r) /\ r \notin crowded => lists[r] = ListSoFar(r)

EvaluatorInv == LoopTypes /\ RoundsInv /\ ListIsOwn /\ ListGrows /\ AnswersKeepHistory

RetryInv ==
    /\ retry \in [pc : {"attempts", "asks", "done", "gave up"}, policy : Policies, hint : Hints, attempt : Nat \ {0},
                  cost : Nat, last : Nat, error : Errors1 \cup {"none"}, waited : Nat]
    /\ RetriesBounded

(* The factor of the backoff is what its equation says: the functions that   *)
(* satisfy it up to n exist, agree, and make up the one on all numbers.      *)
LEMMA BackoffDoubles ==
    /\ Backoff \in [Nat -> Nat] /\ Backoff[0] = 1
    /\ \A n \in Nat : Backoff[n + 1] = 2 * Backoff[n]
<1> DEFINE UpTo(g, n) == g \in [0..n -> Nat] /\ g[0] = 1 /\ \A k \in 0..(n - 1) : g[k + 1] = 2 * g[k]
<1>1. ASSUME NEW n \in Nat PROVE \E g : UpTo(g, n)
    <2> SUFFICES ASSUME ~\E g : UpTo(g, n) PROVE FALSE
        OBVIOUS
    <2> DEFINE S == {m \in Nat : ~\E g : UpTo(g, m)}
    <2>1. S \in SUBSET Nat /\ n \in S
        OBVIOUS
    <2>2. PICK m \in S : \A y \in S : m <= y
        BY <2>1, HasLeast
    <2>3. m # 0
        <3>1. PICK g : g = [k \in 0..0 |-> 1]
            OBVIOUS
        <3>2. UpTo(g, 0)
            BY <3>1
        <3> QED
            BY <2>2, <3>2
    <2>4. m - 1 \in Nat /\ m - 1 \notin S
        <3>1. m \in Nat /\ m - 1 \in Nat /\ ~(m <= m - 1)
            BY <2>2, <2>3
        <3> QED
            BY <2>2, <3>1
    <2>5. PICK g : UpTo(g, m - 1)
        BY <2>4
    <2>6. PICK h : h = [k \in 0..m |-> IF k = m THEN 2 * g[m - 1] ELSE g[k]]
        OBVIOUS
    <2>7. \A k \in 0..(m - 1) : h[k] = g[k] /\ g[k] \in Nat
        BY <2>4, <2>5, <2>6
    <2>8. h \in [0..m -> Nat]
        <3>1. \A k \in 0..m : h[k] \in Nat
            <4>1. m - 1 \in 0..(m - 1) /\ m \in Nat /\ m \in 0..m
                BY <2>2, <2>4
            <4>2. g[m - 1] \in Nat /\ h[m] = 2 * g[m - 1]
                BY <4>1, <2>6, <2>7
            <4>3. \A k \in 0..m : k = m \/ k \in 0..(m - 1)
                BY <4>1
            <4> QED
                BY <4>2, <4>3, <2>7
        <3> QED
            BY <2>6, <3>1
    <2>9. \A k \in 0..(m - 1) : h[k + 1] = 2 * h[k]
        <3> SUFFICES ASSUME NEW k \in 0..(m - 1) PROVE h[k + 1] = 2 * h[k]
            OBVIOUS
        <3>1. CASE k = m - 1
            <4>1. k \in 0..m /\ k + 1 = m /\ m \in 0..m /\ m \in Nat
                BY <3>1, <2>2, <2>4
            <4>2. h[m] = 2 * g[m - 1]
                BY <4>1, <2>6
            <4> QED
                BY <3>1, <4>1, <4>2, <2>7
        <3>2. CASE k # m - 1
            <4>1. k \in 0..((m - 1) - 1) /\ k + 1 \in 0..(m - 1)
                BY <3>2, <2>4
            <4> QED
                BY <4>1, <2>5, <2>7
        <3> QED
            BY <3>1, <3>2
    <2>10. UpTo(h, m)
        BY <2>4, <2>5, <2>7, <2>8, <2>9
    <2> QED
        BY <2>2, <2>10
<1>2. ASSUME NEW n \in Nat, NEW m \in Nat, NEW g, NEW h, UpTo(g, n), UpTo(h, m), NEW k \in 0..n, k \in 0..m
      PROVE  g[k] = h[k]
    <2> SUFFICES ASSUME g[k] # h[k] PROVE FALSE
        OBVIOUS
    <2> DEFINE S == {j \in Nat : j <= n /\ j <= m /\ g[j] # h[j]}
    <2>1. S \in SUBSET Nat /\ k \in S
        BY <1>2
    <2>2. PICK j \in S : \A y \in S : j <= y
        BY <2>1, HasLeast
    <2>3. j # 0
        BY <1>2, <2>2
    <2>4. j - 1 \in Nat /\ j - 1 \notin S
        BY <2>2, <2>3
    <2>5. g[j - 1] = h[j - 1] /\ j - 1 \in 0..(n - 1) /\ j - 1 \in 0..(m - 1)
        BY <2>2, <2>4
    <2>6. g[(j - 1) + 1] = h[(j - 1) + 1]
        BY <1>2, <2>5
    <2>7. (j - 1) + 1 = j
        BY <2>2
    <2> QED
        BY <2>2, <2>6, <2>7
<1> DEFINE at == [n \in Nat |-> CHOOSE g : UpTo(g, n)]
           f == [n \in Nat |-> at[n][n]]
<1>3. \A n \in Nat : UpTo(at[n], n)
    BY <1>1
<1> HIDE DEF at
<1>4. \A n \in Nat : f[n] \in Nat /\ f[n] = at[n][n]
    <2> SUFFICES ASSUME NEW n \in Nat PROVE f[n] \in Nat /\ f[n] = at[n][n]
        OBVIOUS
    <2>1. at[n] \in [0..n -> Nat] /\ n \in 0..n
        BY <1>3
    <2> QED
        BY <2>1
<1>5. f[0] = 1
    BY <1>3, <1>4
<1>6. ASSUME NEW n \in Nat PROVE f[n + 1] = 2 * f[n]
    <2>1. n + 1 \in Nat /\ n \in 0..n /\ n \in 0..(n + 1)
        OBVIOUS
    <2>2. UpTo(at[n + 1], n + 1) /\ UpTo(at[n], n)
        BY <2>1, <1>3
    <2>4. at[n + 1][n] = at[n][n]
        <3>1. PICK g, h : g = at[n + 1] /\ h = at[n]
            OBVIOUS
        <3>2. UpTo(g, n + 1) /\ UpTo(h, n)
            BY <3>1, <2>2
        <3> HIDE DEF UpTo
        <3>3. g[n] = h[n]
            BY <3>2, <2>1, <1>2
        <3> QED
            BY <3>1, <3>3
    <2>3. at[n + 1][n + 1] = 2 * at[n + 1][n]
        BY <2>2
    <2> QED
        BY <2>1, <2>3, <2>4, <1>4
<1>7. f = [n \in Nat |-> IF n = 0 THEN 1 ELSE 2 * f[n - 1]]
    <2>1. ASSUME NEW n \in Nat PROVE f[n] = IF n = 0 THEN 1 ELSE 2 * f[n - 1]
        <3>1. CASE n = 0
            BY <3>1, <1>5
        <3>2. CASE n # 0
            <4>1. n - 1 \in Nat /\ (n - 1) + 1 = n
                BY <3>2
            <4>2. f[(n - 1) + 1] = 2 * f[n - 1]
                BY <4>1, <1>6
            <4> QED
                BY <3>2, <4>1, <4>2
        <3> QED
            BY <3>1, <3>2
    <2>2. DOMAIN f = Nat /\ f = [n \in Nat |-> f[n]]
        OBVIOUS
    <2> HIDE DEF f
    <2> QED
        BY <2>1, <2>2
<1> HIDE DEF f
<1>8. \E b : b = [n \in Nat |-> IF n = 0 THEN 1 ELSE 2 * b[n - 1]]
    BY <1>7
<1>9. Backoff = [n \in Nat |-> IF n = 0 THEN 1 ELSE 2 * Backoff[n - 1]]
    BY <1>8 DEF Backoff
<1>10. \A n \in Nat : Backoff[n] = IF n = 0 THEN 1 ELSE 2 * Backoff[n - 1]
    BY <1>9
<1>11. Backoff[0] = 1 /\ \A n \in Nat : Backoff[n + 1] = 2 * Backoff[n]
    <2>1. \A n \in Nat : n + 1 \in Nat /\ n + 1 # 0 /\ (n + 1) - 1 = n
        OBVIOUS
    <2> QED
        BY <2>1, <1>10
<1>12. \A n \in Nat : Backoff[n] \in Nat
    <2> SUFFICES ASSUME NEW n \in Nat, Backoff[n] \notin Nat PROVE FALSE
        OBVIOUS
    <2> DEFINE S == {m \in Nat : Backoff[m] \notin Nat}
    <2>1. S \in SUBSET Nat /\ n \in S
        OBVIOUS
    <2>2. PICK m \in S : \A y \in S : m <= y
        BY <2>1, HasLeast
    <2>3. m - 1 \in Nat /\ m - 1 \notin S /\ m # 0
        BY <2>2, <1>11
    <2>4. Backoff[m] = 2 * Backoff[m - 1]
        BY <2>2, <2>3, <1>10
    <2> QED
        BY <2>2, <2>3, <2>4
<1>13. DOMAIN Backoff = Nat
    BY <1>9
<1> QED
    BY <1>9, <1>11, <1>12, <1>13
---------------------------------------------------------------------------
(* The history of so many rounds, and of one round more.                     *)
LEMMA HistoryIsList ==
    ASSUME NEW r \in Tasks, NEW n \in Nat, NEW status
    PROVE  HistoryOf(r, n, status) \in Seq(Entries1) /\ Len(HistoryOf(r, n, status)) = 2 * n + 1
<1>1. PICK s : s = HistoryOf(r, n, status)
    OBVIOUS
<1>2. 2 * n + 1 \in Nat
    OBVIOUS
<1>3. DOMAIN s = 1..(2 * n + 1)
    BY <1>1 DEF HistoryOf
<1>4. ASSUME NEW k \in 1..(2 * n + 1) PROVE s[k] \in Entries1
    <2>1. k \div 2 \in Nat
        OBVIOUS
    <2>2. CASE k = 1
        BY <2>2, <1>1 DEF HistoryOf, Entries1, Phases
    <2>3. CASE k # 1
        BY <2>1, <2>3, <1>1 DEF HistoryOf, Entries1, Phases
    <2> QED
        BY <2>2, <2>3
<1>5. s = [k \in 1..(2 * n + 1) |-> s[k]]
    BY <1>1 DEF HistoryOf
<1>6. s \in [1..(2 * n + 1) -> Entries1]
    BY <1>4, <1>5
<1>7. s \in Seq(Entries1)
    BY <1>2, <1>6
<1>8. Len(s) = 2 * n + 1
    BY <1>2, <1>3, <1>7
<1> QED
    BY <1>1, <1>7, <1>8

LEMMA HistoryGrows ==
    ASSUME NEW r \in Tasks, NEW n \in Nat, n # 0, NEW status \in {"passed", "failed"}, NEW g, NEW e,
           g = [by |-> r, phase |-> "generate", round |-> n],
           e = [by |-> r, phase |-> IF status = "passed" THEN "passes" ELSE "fails", round |-> n]
    PROVE  Append(Append(HistoryOf(r, n - 1, "failed"), g), e) = HistoryOf(r, n, status)
<1>1. PICK s : s = HistoryOf(r, n - 1, "failed")
    OBVIOUS
<1>2. PICK u : u = HistoryOf(r, n, status)
    OBVIOUS
<1>3. s \in Seq(Entries1) /\ Len(s) = 2 * n - 1
    <2>1. n - 1 \in Nat /\ 2 * (n - 1) + 1 = 2 * n - 1
        OBVIOUS
    <2> QED
        BY <2>1, <1>1, HistoryIsList
<1>4. g \in Entries1 /\ e \in Entries1
    BY DEF Entries1, Phases
<1>5. PICK v : v = Append(s, g)
    OBVIOUS
<1>6. /\ v \in Seq(Entries1) /\ Len(v) = 2 * n /\ v[2 * n] = g
      /\ \A k \in 1..(2 * n - 1) : v[k] = s[k]
    BY <1>3, <1>4, <1>5, AppendProperties, SMTT(30)
<1>7. PICK w : w = Append(v, e)
    OBVIOUS
<1>8. /\ w \in Seq(Entries1) /\ Len(w) = 2 * n + 1 /\ w[2 * n + 1] = e
      /\ \A k \in 1..(2 * n) : w[k] = v[k]
    <2>1. v \in Seq(Entries1) /\ Len(v) = 2 * n /\ e \in Entries1
        BY <1>4, <1>6
    <2>2. w \in Seq(Entries1) /\ Len(w) = Len(v) + 1
        BY <2>1, <1>7, AppendProperties
    <2>3. w[Len(v) + 1] = e
        BY <2>1, <1>7, AppendProperties
    <2>4. \A k \in 1..Len(v) : w[k] = v[k]
        BY <2>1, <1>7, AppendProperties
    <2> QED
        BY <2>1, <2>2, <2>3, <2>4
<1>9. u \in Seq(Entries1) /\ Len(u) = 2 * n + 1
    BY <1>2, HistoryIsList
<1>10. /\ (2 * n) % 2 = 0 /\ (2 * n + 1) % 2 = 1 /\ (2 * n) \div 2 = n /\ (2 * n + 1) \div 2 = n
       /\ 2 * n \in 1..(2 * n + 1) /\ 2 * n + 1 \in 1..(2 * n + 1) /\ 2 * n # 1 /\ 2 * n + 1 # 1
    OBVIOUS
<1>11. u[2 * n] = g /\ u[2 * n + 1] = e
    BY <1>2, <1>10 DEF HistoryOf
<1>12. ASSUME NEW k \in 1..(2 * n - 1) PROVE u[k] = s[k]
    <2>1. k \in 1..(2 * n + 1) /\ k # 2 * n + 1 /\ k \in 1..(2 * (n - 1) + 1)
        OBVIOUS
    <2>2. u[k] = IF k = 1 THEN [by |-> r, phase |-> "plan", round |-> 0]
                 ELSE [by |-> r, round |-> k \div 2, phase |-> IF k % 2 = 0 THEN "generate" ELSE "fails"]
        BY <2>1, <1>2 DEF HistoryOf
    <2>3. s[k] = IF k = 1 THEN [by |-> r, phase |-> "plan", round |-> 0]
                 ELSE [by |-> r, round |-> k \div 2, phase |-> IF k % 2 = 0 THEN "generate" ELSE "fails"]
        BY <2>1, <1>1 DEF HistoryOf
    <2> QED
        BY <2>2, <2>3
<1>13. \A k \in 1..Len(u) : u[k] = w[k]
    <2> SUFFICES ASSUME NEW k \in 1..(2 * n + 1) PROVE u[k] = w[k]
        BY <1>9
    <2>1. CASE k = 2 * n + 1
        BY <2>1, <1>8, <1>11
    <2>2. CASE k = 2 * n
        <3>1. 2 * n \in 1..(2 * n)
            OBVIOUS
        <3>2. w[2 * n] = g
            BY <3>1, <1>6, <1>8
        <3> QED
            BY <2>2, <3>2, <1>11
    <2>3. CASE k # 2 * n + 1 /\ k # 2 * n
        <3>1. k \in 1..(2 * n - 1) /\ k \in 1..(2 * n)
            BY <2>3
        <3> QED
            BY <3>1, <1>6, <1>8, <1>12
    <2> QED
        BY <2>1, <2>2, <2>3
<1>14. u = w
    BY <1>8, <1>9, <1>13, SeqEqual
<1> QED
    BY <1>1, <1>2, <1>5, <1>7, <1>14

---------------------------------------------------------------------------
LEMMA EvaluatorInvInit == EvaluatorInit => EvaluatorInv
<1> SUFFICES ASSUME EvaluatorInit PROVE EvaluatorInv
    OBVIOUS
<1>1. /\ loopRun = [r \in Tasks |-> [pc |-> "idle", round |-> 0, output |-> 0, feedback |-> 0]]
      /\ lists = [r \in Tasks |-> <<>>] /\ history1 = NoTask
      /\ answers = [r \in Tasks |-> NoAnswer] /\ crowded = {}
    BY DEF EvaluatorInit
<1>2. \A r \in Tasks : loopRun[r].pc = "idle" /\ ~InRun(r) /\ answers[r] = NoAnswer
    BY <1>1 DEF InRun
<1>3. lists \in [Tasks -> Seq(Entries1)]
    BY <1>1
<1>4. LoopTypes
    BY <1>1, <1>2, <1>3 DEF LoopTypes
<1>5. RoundsInv
    BY <1>1, <1>2 DEF RoundsInv
<1>6. ListIsOwn
    BY <1>1, <1>2, LoopsAssumption DEF ListIsOwn
<1> QED
    BY <1>2, <1>4, <1>5, <1>6 DEF EvaluatorInv, ListGrows, AnswersKeepHistory

LEMMA RunKeeps == ASSUME EvaluatorInv, NEW t \in Tasks, Run(t) PROVE EvaluatorInv'
<1>0. LoopTypes /\ RoundsInv /\ ListIsOwn /\ ListGrows /\ AnswersKeepHistory
    BY DEF EvaluatorInv
<1>1. /\ loopRun[t].pc = "idle" /\ loopRun' = [loopRun EXCEPT ![t].pc = "plan"]
      /\ history1' = t /\ lists' = lists /\ answers' = answers
      /\ crowded' = IF \E o \in Tasks : InRun(o) THEN crowded \cup {t} \cup {o \in Tasks : InRun(o)} ELSE crowded
    BY DEF Run
<1>2. /\ \A r \in Tasks : r # t => loopRun'[r] = loopRun[r]
      /\ loopRun'[t] = [loopRun[t] EXCEPT !.pc = "plan"]
      /\ loopRun' \in [Tasks -> [pc : {"idle", "plan", "generate", "evaluate", "over"},
                                 round : Nat, output : Nat, feedback : Nat]]
    BY <1>0, <1>1 DEF LoopTypes
<1>3. loopRun[t] \in [pc : {"idle", "plan", "generate", "evaluate", "over"}, round : Nat, output : Nat, feedback : Nat]
    BY <1>0 DEF LoopTypes
<1>4. /\ loopRun'[t].pc = "plan" /\ loopRun'[t].round = loopRun[t].round
      /\ loopRun'[t].output = loopRun[t].output /\ loopRun'[t].feedback = loopRun[t].feedback
    BY <1>2, <1>3
<1>5. /\ InRun(t)' /\ ~InRun(t)
      /\ \A r \in Tasks : r # t => (InRun(r)' <=> InRun(r))
    BY <1>1, <1>2, <1>4 DEF InRun
<1>6. answers[t] = NoAnswer
    BY <1>0, <1>1 DEF LoopTypes
<1>7. \A r \in Tasks : r \notin crowded' => r \notin crowded /\ (r = t \/ ~InRun(r))
                          /\ (r = t => \A o \in Tasks : ~InRun(o))
    BY <1>1
<1>8. LoopTypes'
    BY <1>0, <1>1, <1>2, <1>6 DEF LoopTypes
<1>9. RoundsInv'
    <2>1. ASSUME NEW r \in Tasks, r # t
          PROVE  loopRun'[r] = loopRun[r] /\ answers'[r] = answers[r]
        BY <2>1, <1>1, <1>2
    <2>2. loopRun'[t].round = 0 /\ loopRun'[t].output = 0 /\ loopRun'[t].feedback = 0
        BY <1>0, <1>1, <1>4 DEF RoundsInv
    <2>3. \A r \in Tasks : loopRun'[r].pc \in {"idle", "plan"} =>
              loopRun'[r].round = 0 /\ loopRun'[r].output = 0 /\ loopRun'[r].feedback = 0
        BY <2>1, <2>2, <1>0 DEF RoundsInv
    <2>4. \A r \in Tasks : loopRun'[r].pc \in {"generate", "evaluate"} =>
              /\ loopRun'[r].round \in 1..LoopRounds /\ loopRun'[r].feedback = loopRun'[r].round - 1
              /\ loopRun'[r].output = IF loopRun'[r].pc = "generate" THEN loopRun'[r].round - 1 ELSE loopRun'[r].round
        BY <2>1, <1>0, <1>4 DEF RoundsInv
    <2>5. \A r \in Tasks : answers'[r] # NoAnswer => answers'[r].output = answers'[r].rounds
        BY <1>0, <1>1 DEF RoundsInv
    <2> QED
        BY <2>3, <2>4, <2>5 DEF RoundsInv
<1>10. ListIsOwn'
    <2>1. \A r \in Tasks : loopRun'[r].pc = "idle" => lists'[r] = <<>> /\ history1' # r
        BY <1>0, <1>1, <1>2, <1>4 DEF ListIsOwn
    <2>2. \A r \in Tasks : InRun(r)' /\ r \notin crowded' => history1' = r
        BY <1>1, <1>5, <1>7
    <2>3. \A r, o \in Tasks : history1' = r /\ r \notin crowded' /\ InRun(o)' => o = r
        BY <1>1, <1>5, <1>7
    <2>4. \A r \in Tasks : answers'[r] # NoAnswer /\ r \notin crowded' => answers'[r].history = r
        BY <1>0, <1>1, <1>7 DEF ListIsOwn
    <2> QED
        BY <2>1, <2>2, <2>3, <2>4 DEF ListIsOwn
<1>11. ListGrows'
    <2> SUFFICES ASSUME NEW r \in Tasks, InRun(r)', r \notin crowded' PROVE lists'[r] = ListSoFar(r)'
        BY DEF ListGrows
    <2>1. r = t
        BY <1>5, <1>7
    <2>2. lists'[t] = <<>>
        BY <1>0, <1>1 DEF ListIsOwn
    <2>3. ListSoFar(t)' = <<>>
        BY <1>4 DEF ListSoFar
    <2> QED
        BY <2>1, <2>2, <2>3
<1>12. AnswersKeepHistory'
    BY <1>0, <1>1, <1>7 DEF AnswersKeepHistory
<1> QED
    BY <1>8, <1>9, <1>10, <1>11, <1>12 DEF EvaluatorInv

(* What a task that is at work notes goes to the list of the latest run.     *)
LEMMA NotedKeeps ==
    ASSUME EvaluatorInv, NEW t \in Tasks, InRun(t), NEW e \in Entries1,
           lists' = [lists EXCEPT ![history1] = Append(@, e)],
           NEW v \in [pc : {"generate", "evaluate", "over"}, round : Nat, output : Nat, feedback : Nat],
           loopRun' = [loopRun EXCEPT ![t] = v],
           v.pc # "over" =>
              /\ v.round \in 1..LoopRounds /\ v.feedback = v.round - 1
              /\ v.output = IF v.pc = "generate" THEN v.round - 1 ELSE v.round,
           UNCHANGED <<history1, crowded>>,
           \A r \in Tasks : r # t => answers'[r] = answers[r],
           answers' \in [Tasks -> LoopAnswers \cup {NoAnswer}],
           answers'[t] # NoAnswer =>
              v.pc = "over" /\ answers'[t].output = answers'[t].rounds /\ answers'[t].history = history1,
           NEW more, more = Append(ListSoFar(t), e),
           v.pc = "generate" => more = HistoryOf(t, v.round - 1, "failed"),
           v.pc = "evaluate" => more = Append(HistoryOf(t, v.round - 1, "failed"),
                                              [by |-> t, phase |-> "generate", round |-> v.round]),
           answers'[t] # NoAnswer => more = HistoryOf(t, answers'[t].rounds, answers'[t].status)
    PROVE  EvaluatorInv'
<1>0. LoopTypes /\ RoundsInv /\ ListIsOwn /\ ListGrows /\ AnswersKeepHistory
    BY DEF EvaluatorInv
<1>1. PICK h \in Tasks : h = history1
    BY <1>0 DEF LoopTypes
<1>2. /\ \A r \in Tasks : r # t => loopRun'[r] = loopRun[r]
      /\ loopRun'[t] = v
      /\ loopRun' \in [Tasks -> [pc : {"idle", "plan", "generate", "evaluate", "over"},
                                 round : Nat, output : Nat, feedback : Nat]]
    BY <1>0 DEF LoopTypes
<1>3. /\ \A r \in Tasks : r # h => lists'[r] = lists[r]
      /\ lists'[h] = Append(lists[h], e) /\ lists' \in [Tasks -> Seq(Entries1)]
    <2>1. lists[h] \in Seq(Entries1) /\ lists \in [Tasks -> Seq(Entries1)]
        BY <1>0 DEF LoopTypes
    <2>2. Append(lists[h], e) \in Seq(Entries1)
        BY <2>1, AppendProperties
    <2> QED
        BY <2>1, <2>2, <1>1
<1>4. /\ InRun(t)' => v.pc # "over"
      /\ \A r \in Tasks : r # t => (InRun(r)' <=> InRun(r))
      /\ \A r \in Tasks : InRun(r)' => InRun(r)
    BY <1>2 DEF InRun
<1>5. answers[t] = NoAnswer /\ loopRun[t].pc # "idle" /\ loopRun[t].pc # "over"
    BY <1>0 DEF LoopTypes, InRun
<1>6. \A r \in Tasks : r # t /\ r \notin crowded => r # h
    BY <1>0, <1>1 DEF ListIsOwn
<1>7. t \notin crowded => h = t /\ lists'[t] = more
    BY <1>0, <1>1, <1>3 DEF ListIsOwn, ListGrows
<1>8. LoopTypes'
    <2>1. \A r \in Tasks : InRun(r)' => history1' \in Tasks
        BY <1>1
    <2>2. \A r \in Tasks : answers'[r] # NoAnswer => loopRun'[r].pc = "over"
        BY <1>0, <1>2 DEF LoopTypes
    <2> QED
        BY <2>1, <2>2, <1>2, <1>3 DEF LoopTypes
<1>9. RoundsInv'
    <2>1. \A r \in Tasks : loopRun'[r].pc \in {"idle", "plan"} =>
              loopRun'[r].round = 0 /\ loopRun'[r].output = 0 /\ loopRun'[r].feedback = 0
        BY <1>0, <1>2 DEF RoundsInv
    <2>2. \A r \in Tasks : loopRun'[r].pc \in {"generate", "evaluate"} =>
              /\ loopRun'[r].round \in 1..LoopRounds /\ loopRun'[r].feedback = loopRun'[r].round - 1
              /\ loopRun'[r].output = IF loopRun'[r].pc = "generate" THEN loopRun'[r].round - 1 ELSE loopRun'[r].round
        <3> TAKE r \in Tasks
        <3>1. CASE r = t
            BY <3>1, <1>2
        <3>2. CASE r # t
            BY <3>2, <1>0, <1>2 DEF RoundsInv
        <3> QED
            BY <3>1, <3>2
    <2>3. \A r \in Tasks : answers'[r] # NoAnswer => answers'[r].output = answers'[r].rounds
        BY <1>0 DEF RoundsInv
    <2> QED
        BY <2>1, <2>2, <2>3 DEF RoundsInv
<1>10. ListIsOwn'
    <2>1. \A r \in Tasks : loopRun'[r].pc = "idle" => lists'[r] = <<>> /\ history1' # r
        <3> SUFFICES ASSUME NEW r \in Tasks, loopRun'[r].pc = "idle" PROVE lists'[r] = <<>> /\ history1' # r
            OBVIOUS
        <3>1. r # t /\ loopRun[r].pc = "idle"
            BY <1>2
        <3>2. lists[r] = <<>> /\ history1 # r
            BY <3>1, <1>0 DEF ListIsOwn
        <3> QED
            BY <3>2, <1>1, <1>3
    <2>2. \A r \in Tasks : InRun(r)' /\ r \notin crowded' => history1' = r
        BY <1>0, <1>4 DEF ListIsOwn
    <2>3. \A r, o \in Tasks : history1' = r /\ r \notin crowded' /\ InRun(o)' => o = r
        BY <1>0, <1>4 DEF ListIsOwn
    <2>4. \A r \in Tasks : answers'[r] # NoAnswer /\ r \notin crowded' => answers'[r].history = r
        BY <1>0, <1>1, <1>7 DEF ListIsOwn
    <2> QED
        BY <2>1, <2>2, <2>3, <2>4 DEF ListIsOwn
<1>11. ListGrows'
    <2> SUFFICES ASSUME NEW r \in Tasks, InRun(r)', r \notin crowded' PROVE lists'[r] = ListSoFar(r)'
        BY DEF ListGrows
    <2>1. CASE r = t
        <3>1. v.pc \in {"generate", "evaluate"} /\ t \notin crowded
            BY <2>1, <1>4
        <3>2. lists'[t] = more
            BY <3>1, <1>7
        <3>3. CASE v.pc = "generate"
            BY <2>1, <3>2, <3>3, <1>2 DEF ListSoFar
        <3>4. CASE v.pc = "evaluate"
            BY <2>1, <3>2, <3>4, <1>2 DEF ListSoFar, HistoryEntry
        <3> QED
            BY <3>1, <3>3, <3>4
    <2>2. CASE r # t
        <3>1. lists'[r] = lists[r] /\ loopRun'[r] = loopRun[r]
            BY <2>2, <1>2, <1>3, <1>6
        <3>2. ListSoFar(r)' = ListSoFar(r)
            BY <3>1 DEF ListSoFar, HistoryEntry
        <3>3. lists[r] = ListSoFar(r)
            BY <1>0, <1>4 DEF ListGrows
        <3> QED
            BY <3>1, <3>2, <3>3
    <2> QED
        BY <2>1, <2>2
<1>12. AnswersKeepHistory'
    <2> SUFFICES ASSUME NEW r \in Tasks, answers'[r] # NoAnswer, r \notin crowded
                 PROVE  lists'[answers'[r].history] = HistoryOf(r, answers'[r].rounds, answers'[r].status)
        BY DEF AnswersKeepHistory
    <2>1. CASE r = t
        BY <2>1, <1>1, <1>7
    <2>2. CASE r # t
        <3>1. answers'[r] = answers[r] /\ answers[r].history = r /\ lists'[r] = lists[r]
            BY <2>2, <1>0, <1>3, <1>6 DEF ListIsOwn
        <3> QED
            BY <3>1, <1>0 DEF AnswersKeepHistory
    <2> QED
        BY <2>1, <2>2
<1> QED
    BY <1>8, <1>9, <1>10, <1>11, <1>12 DEF EvaluatorInv

LEMMA NotedGoesOn ==
    ASSUME EvaluatorInv, NEW t \in Tasks, InRun(t), NEW e \in Entries1,
           lists' = [lists EXCEPT ![history1] = Append(@, e)],
           NEW v \in [pc : {"generate", "evaluate", "over"}, round : Nat, output : Nat, feedback : Nat],
           loopRun' = [loopRun EXCEPT ![t] = v],
           v.pc = "generate", v.round \in 1..LoopRounds, v.feedback = v.round - 1, v.output = v.round - 1,
           UNCHANGED <<history1, answers, crowded>>,
           NEW more, more = Append(ListSoFar(t), e), more = HistoryOf(t, v.round - 1, "failed")
    PROVE  EvaluatorInv'
<1>1. answers \in [Tasks -> LoopAnswers \cup {NoAnswer}] /\ answers[t] = NoAnswer
    BY DEF EvaluatorInv, LoopTypes, InRun
<1>2. answers'[t] = NoAnswer /\ answers' \in [Tasks -> LoopAnswers \cup {NoAnswer}]
      /\ \A r \in Tasks : r # t => answers'[r] = answers[r]
    BY <1>1
<1>3. v.pc # "evaluate" /\ v.pc # "over"
    OBVIOUS
<1> QED
    BY <1>2, <1>3, NotedKeeps

LEMMA StepFailsKeeps == ASSUME EvaluatorInv, NEW t \in Tasks, StepFails(t) PROVE EvaluatorInv'
<1>0. LoopTypes /\ RoundsInv /\ ListIsOwn /\ ListGrows /\ AnswersKeepHistory
    BY DEF EvaluatorInv
<1>1. /\ InRun(t) /\ loopRun' = [loopRun EXCEPT ![t].pc = "over"]
      /\ UNCHANGED <<lists, history1, answers, crowded>>
    BY DEF StepFails
<1>2. /\ \A r \in Tasks : r # t => loopRun'[r] = loopRun[r]
      /\ loopRun'[t] = [loopRun[t] EXCEPT !.pc = "over"]
      /\ loopRun' \in [Tasks -> [pc : {"idle", "plan", "generate", "evaluate", "over"},
                                 round : Nat, output : Nat, feedback : Nat]]
    BY <1>0, <1>1 DEF LoopTypes
<1>3. loopRun'[t].pc = "over"
    <2>1. loopRun[t] \in [pc : {"idle", "plan", "generate", "evaluate", "over"}, round : Nat, output : Nat, feedback : Nat]
        BY <1>0 DEF LoopTypes
    <2> QED
        BY <2>1, <1>2
<1>4. ~InRun(t)' /\ \A r \in Tasks : r # t => (InRun(r)' <=> InRun(r))
    BY <1>2, <1>3 DEF InRun
<1>5. LoopTypes'
    BY <1>0, <1>1, <1>2, <1>3, <1>4 DEF LoopTypes
<1>6. RoundsInv'
    BY <1>0, <1>1, <1>2, <1>3 DEF RoundsInv
<1>7. ListIsOwn'
    BY <1>0, <1>1, <1>2, <1>3, <1>4 DEF ListIsOwn
<1>8. ListGrows'
    <2> SUFFICES ASSUME NEW r \in Tasks, InRun(r)', r \notin crowded' PROVE lists'[r] = ListSoFar(r)'
        BY DEF ListGrows
    <2>1. r # t /\ loopRun'[r] = loopRun[r]
        BY <1>2, <1>4
    <2>2. ListSoFar(r)' = ListSoFar(r)
        BY <2>1 DEF ListSoFar, HistoryEntry
    <2> QED
        BY <2>1, <2>2, <1>0, <1>1, <1>4 DEF ListGrows
<1>9. AnswersKeepHistory'
    BY <1>0, <1>1 DEF AnswersKeepHistory
<1> QED
    BY <1>5, <1>6, <1>7, <1>8, <1>9 DEF EvaluatorInv

LEMMA PlanKeeps == ASSUME EvaluatorInv, NEW t \in Tasks, PlanReturns(t) PROVE EvaluatorInv'
<1>0. LoopTypes /\ RoundsInv
    BY DEF EvaluatorInv
<1>1. PICK was : was = loopRun[t]
    OBVIOUS
<1>2. /\ was.pc = "plan" /\ was.round = 0 /\ was.output = 0 /\ was.feedback = 0 /\ InRun(t)
      /\ was \in [pc : {"idle", "plan", "generate", "evaluate", "over"}, round : Nat, output : Nat, feedback : Nat]
    BY <1>0, <1>1 DEF PlanReturns, LoopTypes, RoundsInv, InRun
<1>3. PICK e : e = [by |-> t, phase |-> "plan", round |-> 0]
    OBVIOUS
<1>4. /\ lists' = [lists EXCEPT ![history1] = Append(@, e)] /\ e \in Entries1
      /\ UNCHANGED <<history1, crowded>>
    BY <1>1, <1>2, <1>3 DEF PlanReturns, Noted, HistoryEntry, Entries1, Phases
<1>5. PICK more : more = Append(ListSoFar(t), e)
    OBVIOUS
<1>6. more = HistoryOf(t, 0, "failed")
    <2>1. ListSoFar(t) = <<>>
        BY <1>1, <1>2 DEF ListSoFar
    <2>2. more = <<e>>
        BY <2>1, <1>5
    <2>3. PICK s : s = HistoryOf(t, 0, "failed")
        OBVIOUS
    <2>4. s \in Seq(Entries1) /\ Len(s) = 1
        <3>1. 0 \in Nat /\ 2 * 0 + 1 = 1
            OBVIOUS
        <3>2. HistoryOf(t, 0, "failed") \in Seq(Entries1) /\ Len(HistoryOf(t, 0, "failed")) = 2 * 0 + 1
            BY <3>1, HistoryIsList
        <3> QED
            BY <2>3, <3>1, <3>2
    <2>5. s[1] = e
        BY <2>3, <1>3 DEF HistoryOf
    <2>6. more \in Seq(Entries1) /\ Len(more) = 1 /\ more[1] = e
        BY <2>2, <1>4
    <2>7. s = more
        BY <2>4, <2>5, <2>6, SeqEqual
    <2> QED
        BY <2>3, <2>7
<1>7. history1 \in Tasks /\ answers \in [Tasks -> LoopAnswers \cup {NoAnswer}] /\ answers[t] = NoAnswer
    BY <1>0, <1>1, <1>2 DEF LoopTypes
<1>8. CASE LoopRounds = 0
    <2>1. PICK v : v = [was EXCEPT !.pc = "over"]
        OBVIOUS
    <2>2. loopRun' = [loopRun EXCEPT ![t] = v]
        BY <2>1, <1>1, <1>8 DEF PlanReturns
    <2>3. v \in [pc : {"generate", "evaluate", "over"}, round : Nat, output : Nat, feedback : Nat] /\ v.pc = "over"
        BY <2>1, <1>2
    <2>4. PICK a : a = [status |-> "failed", rounds |-> 0, output |-> 0, history |-> history1]
        OBVIOUS
    <2>5. answers' = [answers EXCEPT ![t] = a]
        BY <2>4, <1>1, <1>2, <1>8 DEF PlanReturns, Returned
    <2>6. a \in LoopAnswers
        BY <2>4, <1>7, LoopsAssumption DEF LoopAnswers
    <2>7. answers' \in [Tasks -> LoopAnswers \cup {NoAnswer}] /\ answers'[t] = a /\ \A r \in Tasks : r # t => answers'[r] = answers[r]
        BY <2>5, <2>6, <1>7
    <2>8. /\ answers'[t].output = answers'[t].rounds /\ answers'[t].history = history1
          /\ answers'[t].rounds = 0 /\ answers'[t].status = "failed"
        BY <2>4, <2>7
    <2>9. more = HistoryOf(t, answers'[t].rounds, answers'[t].status)
        BY <2>8, <1>6
    <2> QED
        BY <2>2, <2>3, <2>7, <2>8, <2>9, <1>2, <1>4, <1>5, NotedKeeps, ZenonT(60)
<1>9. CASE LoopRounds # 0
    <2>1. PICK v : v = [was EXCEPT !.pc = "generate", !.round = 1]
        OBVIOUS
    <2>2. loopRun' = [loopRun EXCEPT ![t] = v] /\ answers' = answers
        BY <2>1, <1>1, <1>9 DEF PlanReturns
    <2>3. /\ v \in [pc : {"generate", "evaluate", "over"}, round : Nat, output : Nat, feedback : Nat]
          /\ v.pc = "generate" /\ v.round = 1 /\ v.feedback = 0 /\ v.output = 0
        BY <2>1, <1>2
    <2>4. 1 \in 1..LoopRounds
        BY <1>9, LoopsAssumption
    <2>5. v.round \in 1..LoopRounds /\ v.round - 1 = 0 /\ v.feedback = v.round - 1 /\ v.output = v.round - 1
        BY <2>3, <2>4
    <2>6. more = HistoryOf(t, v.round - 1, "failed")
        BY <2>5, <1>6
    <2>7. v.pc = "generate" /\ v \in [pc : {"generate", "evaluate", "over"}, round : Nat, output : Nat, feedback : Nat]
        BY <2>3
    <2>8. InRun(t)
        BY <1>2
    <2> QED
        BY <2>2, <2>5, <2>6, <2>7, <2>8, <1>4, <1>5, NotedGoesOn
<1> QED
    BY <1>8, <1>9

LEMMA GenerateKeeps == ASSUME EvaluatorInv, NEW t \in Tasks, GenerateReturns(t) PROVE EvaluatorInv'
<1>0. LoopTypes /\ RoundsInv
    BY DEF EvaluatorInv
<1>1. PICK was, n : was = loopRun[t] /\ n = was.round
    OBVIOUS
<1>2. /\ was.pc = "generate" /\ n \in 1..LoopRounds /\ was.feedback = n - 1 /\ InRun(t)
      /\ was \in [pc : {"idle", "plan", "generate", "evaluate", "over"}, round : Nat, output : Nat, feedback : Nat]
    BY <1>0, <1>1 DEF GenerateReturns, LoopTypes, RoundsInv, InRun
<1>3. PICK e : e = [by |-> t, phase |-> "generate", round |-> n]
    OBVIOUS
<1>4. /\ lists' = [lists EXCEPT ![history1] = Append(@, e)] /\ e \in Entries1
      /\ UNCHANGED <<history1, crowded>>
    BY <1>1, <1>2, <1>3 DEF GenerateReturns, Noted, HistoryEntry, Entries1, Phases
<1>5. PICK v : v = [was EXCEPT !.pc = "evaluate", !.output = n]
    OBVIOUS
<1>6. loopRun' = [loopRun EXCEPT ![t] = v] /\ answers' = answers
    BY <1>1, <1>5 DEF GenerateReturns
<1>7. /\ v \in [pc : {"generate", "evaluate", "over"}, round : Nat, output : Nat, feedback : Nat]
      /\ v.pc = "evaluate" /\ v.round = n /\ v.feedback = n - 1 /\ v.output = n
    BY <1>1, <1>2, <1>5
<1>8. PICK more : more = Append(ListSoFar(t), e)
    OBVIOUS
<1>9. more = Append(HistoryOf(t, n - 1, "failed"), e)
    BY <1>1, <1>2, <1>8 DEF ListSoFar
<1>10. answers \in [Tasks -> LoopAnswers \cup {NoAnswer}] /\ answers[t] = NoAnswer
    BY <1>0, <1>1, <1>2 DEF LoopTypes
<1>11. v.round \in 1..LoopRounds /\ v.feedback = v.round - 1 /\ v.output = v.round
    BY <1>2, <1>7
<1>12. more = Append(HistoryOf(t, v.round - 1, "failed"), [by |-> t, phase |-> "generate", round |-> v.round])
    BY <1>3, <1>7, <1>9
<1>13. answers'[t] = NoAnswer /\ answers' \in [Tasks -> LoopAnswers \cup {NoAnswer}]
       /\ \A r \in Tasks : r # t => answers'[r] = answers[r]
    BY <1>6, <1>10
<1>14. v.pc = "evaluate" /\ v.pc # "generate"
    BY <1>7
<1> QED
    BY <1>2, <1>4, <1>6, <1>7, <1>8, <1>11, <1>12, <1>13, <1>14, NotedKeeps

LEMMA EvaluateKeeps ==
    ASSUME EvaluatorInv, NEW t \in Tasks, NEW passes \in BOOLEAN, EvaluateReturns(t, passes) PROVE EvaluatorInv'
<1>0. LoopTypes /\ RoundsInv
    BY DEF EvaluatorInv
<1>1. PICK was, n : was = loopRun[t] /\ n = was.round
    OBVIOUS
<1>2. /\ was.pc = "evaluate" /\ n \in 1..LoopRounds /\ was.output = n /\ InRun(t)
      /\ was \in [pc : {"idle", "plan", "generate", "evaluate", "over"}, round : Nat, output : Nat, feedback : Nat]
    BY <1>0, <1>1 DEF EvaluateReturns, LoopTypes, RoundsInv, InRun
<1>3. PICK status : status = IF passes THEN "passed" ELSE "failed"
    OBVIOUS
<1>4. PICK e : e = [by |-> t, phase |-> IF status = "passed" THEN "passes" ELSE "fails", round |-> n]
    OBVIOUS
<1>5. status \in {"passed", "failed"} /\ (status = "passed" <=> passes)
    BY <1>3
<1>6. e.phase = IF passes THEN "passes" ELSE "fails"
    BY <1>4, <1>5
<1>7. HistoryEntry(t, IF passes THEN "passes" ELSE "fails") = e
    BY <1>1, <1>4, <1>5 DEF HistoryEntry
<1>8. /\ lists' = [lists EXCEPT ![history1] = Append(@, e)] /\ e \in Entries1
      /\ UNCHANGED <<history1, crowded>>
    <2>1. e \in Entries1
        BY <1>2, <1>4 DEF Entries1, Phases
    <2> QED
        BY <2>1, <1>7 DEF EvaluateReturns, Noted
<1>9. PICK more : more = Append(ListSoFar(t), e)
    OBVIOUS
<1>10. more = HistoryOf(t, n, status)
    <2>1. PICK g : g = [by |-> t, phase |-> "generate", round |-> n]
        OBVIOUS
    <2>2. ListSoFar(t) = Append(HistoryOf(t, n - 1, "failed"), g)
        BY <2>1, <1>1, <1>2 DEF ListSoFar, HistoryEntry
    <2>3. n \in Nat /\ n # 0
        BY <1>2, LoopsAssumption
    <2> QED
        BY <2>1, <2>2, <2>3, <1>4, <1>5, <1>9, HistoryGrows
<1>11. history1 \in Tasks /\ answers \in [Tasks -> LoopAnswers \cup {NoAnswer}] /\ answers[t] = NoAnswer
    BY <1>0, <1>1, <1>2 DEF LoopTypes
<1>12. CASE passes \/ n = LoopRounds
    <2>1. PICK v : v = [was EXCEPT !.pc = "over"]
        OBVIOUS
    <2>2. loopRun' = [loopRun EXCEPT ![t] = v]
        BY <2>1, <1>1, <1>12 DEF EvaluateReturns
    <2>3. v \in [pc : {"generate", "evaluate", "over"}, round : Nat, output : Nat, feedback : Nat] /\ v.pc = "over"
        BY <2>1, <1>2
    <2>4. PICK a : a = [status |-> status, rounds |-> n, output |-> n, history |-> history1]
        OBVIOUS
    <2>5. answers' = [answers EXCEPT ![t] = a]
        BY <2>4, <1>1, <1>2, <1>3, <1>12 DEF EvaluateReturns, Returned
    <2>6. a \in LoopAnswers
        BY <2>4, <1>2, <1>5, <1>11, LoopsAssumption DEF LoopAnswers
    <2>7. answers' \in [Tasks -> LoopAnswers \cup {NoAnswer}] /\ answers'[t] = a /\ \A r \in Tasks : r # t => answers'[r] = answers[r]
        BY <2>5, <2>6, <1>11
    <2>8. /\ answers'[t].output = answers'[t].rounds /\ answers'[t].history = history1
          /\ answers'[t].rounds = n /\ answers'[t].status = status
        BY <2>4, <2>7
    <2>9. more = HistoryOf(t, answers'[t].rounds, answers'[t].status)
        BY <2>8, <1>10
    <2> QED
        BY <2>2, <2>3, <2>7, <2>8, <2>9, <1>2, <1>8, <1>9, NotedKeeps
<1>13. CASE ~(passes \/ n = LoopRounds)
    <2>1. PICK v : v = [was EXCEPT !.pc = "generate", !.round = n + 1, !.feedback = n]
        OBVIOUS
    <2>2. loopRun' = [loopRun EXCEPT ![t] = v] /\ answers' = answers
        BY <2>1, <1>1, <1>13 DEF EvaluateReturns
    <2>4. n + 1 \in 1..LoopRounds /\ (n + 1) - 1 = n /\ n \in Nat /\ n + 1 \in Nat
        BY <1>2, <1>13, LoopsAssumption
    <2>3. /\ v \in [pc : {"generate", "evaluate", "over"}, round : Nat, output : Nat, feedback : Nat]
          /\ v.pc = "generate" /\ v.round = n + 1 /\ v.feedback = n /\ v.output = n
        BY <2>1, <2>4, <1>2
    <2>5. status = "failed"
        BY <1>3, <1>13
    <2>6. v.round \in 1..LoopRounds /\ v.round - 1 = n /\ v.feedback = v.round - 1 /\ v.output = v.round - 1
        BY <2>3, <2>4
    <2>7. more = HistoryOf(t, v.round - 1, "failed")
        BY <2>5, <2>6, <1>10
    <2>8. v.pc = "generate" /\ v \in [pc : {"generate", "evaluate", "over"}, round : Nat, output : Nat, feedback : Nat]
        BY <2>3
    <2>9. InRun(t)
        BY <1>2
    <2> QED
        BY <2>2, <2>6, <2>7, <2>8, <2>9, <1>8, <1>9, NotedGoesOn
<1> QED
    BY <1>12, <1>13

LEMMA EvaluatorInvStep == EvaluatorInv /\ (EvaluatorStep \/ UNCHANGED evaluatorVars) => EvaluatorInv'
<1>1. ASSUME EvaluatorInv, EvaluatorStep PROVE EvaluatorInv'
    BY <1>1, RunKeeps, PlanKeeps, GenerateKeeps, StepFailsKeeps, EvaluateKeeps DEF EvaluatorStep
<1>2. ASSUME EvaluatorInv, UNCHANGED evaluatorVars PROVE EvaluatorInv'
    <2>1. UNCHANGED <<loopRun, lists, history1, answers, crowded>>
        BY <1>2 DEF evaluatorVars
    <2>2. \A r \in Tasks : (InRun(r)' <=> InRun(r)) /\ ListSoFar(r)' = ListSoFar(r)
        BY <2>1 DEF InRun, ListSoFar, HistoryEntry
    <2>3. LoopTypes' /\ RoundsInv' /\ ListIsOwn'
        BY <2>1, <2>2, <1>2 DEF EvaluatorInv, LoopTypes, RoundsInv, ListIsOwn
    <2>4. ListGrows' /\ AnswersKeepHistory'
        BY <2>1, <2>2, <1>2 DEF EvaluatorInv, ListGrows, AnswersKeepHistory
    <2> QED
        BY <2>3, <2>4 DEF EvaluatorInv
<1> QED
    BY <1>1, <1>2

---------------------------------------------------------------------------
LEMMA SmallerOfTwo == \A a, b \in Nat : Min({a, b}) = IF a <= b THEN a ELSE b
<1> SUFFICES ASSUME NEW a \in Nat, NEW b \in Nat PROVE Min({a, b}) = IF a <= b THEN a ELSE b
    OBVIOUS
<1>1. Min({a, b}) \in {a, b} /\ \A y \in {a, b} : Min({a, b}) <= y
    <2>1. {a, b} \in SUBSET Nat /\ {a, b} # {}
        OBVIOUS
    <2> QED
        BY <2>1, HasMin
<1> QED
    BY <1>1

LEMMA LargerThanOne == \A b \in Nat : Max({1, b}) = IF b = 0 THEN 1 ELSE b
<1> SUFFICES ASSUME NEW b \in Nat PROVE Max({1, b}) = IF b = 0 THEN 1 ELSE b
    OBVIOUS
<1>1. Max({1, b}) \in {1, b} /\ \A y \in {1, b} : y <= Max({1, b})
    <2>1. {1, b} \in SUBSET (0..(b + 1)) /\ {1, b} # {} /\ b + 1 \in Nat
        OBVIOUS
    <2> QED
        BY <2>1, HasMax
<1> QED
    BY <1>1

(* The cap of attempts: at least the first is made.                          *)
LEMMA CapOfAttempts ==
    ASSUME NEW p \in Policies, NEW h \in Hints
    PROVE  /\ EffectiveMax(p, h) = IF h = 0 \/ p.max <= h THEN p.max ELSE h
           /\ EffectiveMax([p EXCEPT !.max = Max({1, @})], h) =
                 IF p.max = 0 THEN 1 ELSE EffectiveMax(p, h)
<1>1. p \in [max : Nat, budget : SUBSET Nat, fatal : SUBSET Errors1, base : Nat] /\ h \in Nat
    BY LoopsAssumption
<1>2. \A q \in [max : Nat, budget : SUBSET Nat, fatal : SUBSET Errors1, base : Nat] :
          EffectiveMax(q, h) = IF h = 0 \/ q.max <= h THEN q.max ELSE h
    BY <1>1, SmallerOfTwo DEF EffectiveMax
<1>3. PICK m : m = Max({1, p.max})
    OBVIOUS
<1>4. m = IF p.max = 0 THEN 1 ELSE p.max
    BY <1>1, <1>3, LargerThanOne
<1>5. PICK q : q = [p EXCEPT !.max = m]
    OBVIOUS
<1>6. q \in [max : Nat, budget : SUBSET Nat, fatal : SUBSET Errors1, base : Nat] /\ q.max = m
    BY <1>1, <1>4, <1>5
<1>7. EffectiveMax(q, h) = IF h = 0 \/ m <= h THEN m ELSE h
    BY <1>2, <1>6
<1>8. EffectiveMax([p EXCEPT !.max = Max({1, @})], h) = EffectiveMax(q, h)
    BY <1>3, <1>5
<1> QED
    BY <1>1, <1>2, <1>4, <1>7, <1>8

LEMMA RetryInvInit == ASSUME NEW p \in Policies, NEW h \in Hints, RetryAt(p, h) PROVE RetryInv
<1>1. retry = [pc |-> "attempts", policy |-> p, hint |-> h, attempt |-> 1, cost |-> 0, last |-> 0, error |-> "none", waited |-> 0]
    BY DEF RetryAt
<1>2. p \in [max : Nat, budget : SUBSET Nat, fatal : SUBSET Errors1, base : Nat] /\ h \in Nat
    BY LoopsAssumption
<1>3. 1 <= EffectiveMax([p EXCEPT !.max = Max({1, @})], h)
    BY <1>2, CapOfAttempts
<1>4. Backoff[1 - 1] = 1
    BY BackoffDoubles
<1>5. p.base * (Backoff[1 - 1] - 1) = 0
    BY <1>2, <1>4
<1>6. retry \in [pc : {"attempts", "asks", "done", "gave up"}, policy : Policies, hint : Hints, attempt : Nat \ {0},
                  cost : Nat, last : Nat, error : Errors1 \cup {"none"}, waited : Nat]
    BY <1>1
<1>7. "none" \notin p.fatal
    BY <1>2, LoopsAssumption
<1>8. RetriesBounded
    BY <1>1, <1>3, <1>5, <1>7 DEF RetriesBounded
<1> QED
    BY <1>6, <1>8 DEF RetryInv

LEMMA WaitsAdd ==
    ASSUME NEW base \in Nat, NEW b \in Nat, NEW so \in Nat, so = base * (b - 1)
    PROVE  so + base * b = base * (2 * b - 1) /\ so + base * b \in Nat
<1>1. base * b \in Nat
    OBVIOUS
<1> QED
    BY <1>1

LEMMA RetryInvStep == RetryInv /\ (RetryStep \/ UNCHANGED retry) => RetryInv'
<1> SUFFICES ASSUME RetryInv, RetryStep \/ UNCHANGED retry PROVE RetryInv'
    OBVIOUS
<1>1. PICK was : was = retry
    OBVIOUS
<1>2. was \in [pc : {"attempts", "asks", "done", "gave up"}, policy : Policies, hint : Hints, attempt : Nat \ {0},
                cost : Nat, last : Nat, error : Errors1 \cup {"none"}, waited : Nat]
    BY <1>1 DEF RetryInv
<1>3. PICK p, h, cap : p = was.policy /\ h = was.hint /\ cap = EffectiveMax([p EXCEPT !.max = Max({1, @})], h)
    OBVIOUS
<1>4. p \in Policies /\ h \in Hints /\ p \in [max : Nat, budget : SUBSET Nat, fatal : SUBSET Errors1, base : Nat]
    BY <1>2, <1>3, LoopsAssumption
<1>5. /\ was.attempt <= cap /\ (was.pc = "attempts" => was.error \notin p.fatal)
      /\ \A b \in p.budget : was.attempt > 1 => IF was.pc = "attempts" THEN was.cost < b ELSE was.cost - was.last < b
      /\ was.waited = p.base * (Backoff[was.attempt - 1] - 1)
    BY <1>1, <1>3 DEF RetryInv, RetriesBounded
<1>6. ASSUME NEW now \in [pc : {"attempts", "asks", "done", "gave up"}, policy : Policies, hint : Hints, attempt : Nat \ {0},
                           cost : Nat, last : Nat, error : Errors1 \cup {"none"}, waited : Nat],
             retry' = now, now.policy = p, now.hint = h,
             now.attempt <= cap, now.pc = "attempts" => now.error \notin p.fatal,
             \A b \in p.budget :
                 now.attempt > 1 => IF now.pc = "attempts" THEN now.cost < b ELSE now.cost - now.last < b,
             now.waited = p.base * (Backoff[now.attempt - 1] - 1)
      PROVE  RetryInv'
    BY <1>3, <1>6 DEF RetryInv, RetriesBounded
<1>7. ASSUME NEW price \in 0..MaxPrice, NEW err \in Errors1 \cup {"none"}, AttemptEnds(price, err) PROVE RetryInv'
    <2>1. PICK pc1 : pc1 = IF err = "none" THEN "done" ELSE "asks"
        OBVIOUS
    <2>2. PICK now : now = [was EXCEPT !.pc = pc1, !.cost = was.cost + price, !.last = price, !.error = err]
        OBVIOUS
    <2>3. retry' = now /\ was.pc = "attempts"
        BY <2>1, <2>2, <1>1, <1>7 DEF AttemptEnds
    <2>4. price \in Nat /\ was.cost + price \in Nat /\ (was.cost + price) - price = was.cost
        <3>1. was.cost \in Nat
            BY <1>2
        <3>2. MaxPrice \in Nat
            BY LoopsAssumption
        <3>3. price \in Nat
            BY <3>2
        <3> QED
            BY <3>1, <3>3
    <2>5. /\ now \in [pc : {"attempts", "asks", "done", "gave up"}, policy : Policies, hint : Hints, attempt : Nat \ {0},
                        cost : Nat, last : Nat, error : Errors1 \cup {"none"}, waited : Nat]
          /\ now.policy = p /\ now.hint = h /\ now.attempt = was.attempt /\ now.waited = was.waited
          /\ now.pc # "attempts" /\ now.cost - now.last = was.cost
        BY <2>1, <2>2, <2>4, <1>2, <1>3
    <2> QED
        BY <2>3, <2>5, <1>5, <1>6
<1>8. CASE Asks
    <2>1. was.pc = "asks"
        BY <1>1, <1>8 DEF Asks
    <2>2. CASE ShouldRetry(was.policy, was)
        <3>1. PICK n, b : n = was.attempt /\ b = Backoff[n - 1]
            OBVIOUS
        <3>2. n \in Nat /\ n # 0 /\ n - 1 \in Nat /\ b \in Nat /\ Backoff[n] = 2 * b
            <4>1. n \in Nat \ {0}
                BY <3>1, <1>2
            <4>2. n \in Nat /\ n # 0 /\ n - 1 \in Nat /\ (n - 1) + 1 = n
                BY <4>1
            <4>3. Backoff[n - 1] \in Nat /\ Backoff[(n - 1) + 1] = 2 * Backoff[n - 1]
                BY <4>2, BackoffDoubles
            <4> QED
                BY <4>2, <4>3, <3>1
        <3>3. p.max # 0 /\ n < EffectiveMax(p, h) /\ (\A d \in p.budget : was.cost < d) /\ was.error \notin p.fatal
            BY <2>2, <3>1, <1>3 DEF ShouldRetry
        <3>4. cap = EffectiveMax(p, h) /\ cap \in Nat
            BY <3>3, <1>3, <1>4, CapOfAttempts, LoopsAssumption
        <3>5. PICK w : w = was.waited + p.base * b
            OBVIOUS
        <3>6. p.base \in Nat /\ was.waited = p.base * (b - 1) /\ was.waited \in Nat
            BY <3>1, <1>2, <1>4, <1>5
        <3>7. w = p.base * (2 * b - 1) /\ w \in Nat
            <4>1. PICK base, so \in Nat : base = p.base /\ so = was.waited
                BY <3>6
            <4>2. so = base * (b - 1) /\ w = so + base * b
                BY <4>1, <3>5, <3>6
            <4>3. w = base * (2 * b - 1) /\ w \in Nat
                BY <4>2, <3>2, WaitsAdd
            <4> QED
                BY <4>1, <4>3
        <3>8. PICK now : now = [was EXCEPT !.pc = "attempts", !.attempt = n + 1, !.waited = w]
            OBVIOUS
        <3>9. retry' = now
            BY <2>2, <3>1, <3>5, <3>8, <1>1, <1>3, <1>8 DEF Asks, ComputeDelay
        <3>10. /\ now \in [pc : {"attempts", "asks", "done", "gave up"}, policy : Policies, hint : Hints, attempt : Nat \ {0},
                             cost : Nat, last : Nat, error : Errors1 \cup {"none"}, waited : Nat]
               /\ now.policy = p /\ now.hint = h /\ now.attempt = n + 1 /\ now.waited = w
               /\ now.pc = "attempts" /\ now.cost = was.cost /\ now.error = was.error
            <4>1. n + 1 \in Nat \ {0} /\ w \in Nat
                BY <3>2, <3>7
            <4> QED
                BY <4>1, <3>8, <1>2, <1>3
        <3>11. now.attempt <= cap
            <4>1. now.attempt = n + 1
                BY <3>10
            <4>2. n < cap
                BY <3>3, <3>4
            <4>3. n \in Nat /\ cap \in Nat
                BY <3>2, <3>4
            <4> QED
                BY <4>1, <4>2, <4>3
        <3>12. now.waited = p.base * (Backoff[now.attempt - 1] - 1)
            <4>1. now.attempt - 1 = n
                <5>1. now.attempt = n + 1
                    BY <3>10
                <5>2. n \in Nat
                    BY <3>2
                <5> QED
                    BY <5>1, <5>2
            <4>2. Backoff[now.attempt - 1] = 2 * b
                BY <4>1, <3>2
            <4> QED
                BY <4>2, <3>7, <3>10
        <3>13. \A d \in p.budget : now.cost < d
            BY <3>3, <3>10
        <3>14. now.pc = "attempts" /\ now.error \notin p.fatal
            BY <3>3, <3>10
        <3> QED
            BY <3>9, <3>10, <3>11, <3>12, <3>13, <3>14, <1>6
    <2>3. CASE ~ShouldRetry(was.policy, was)
        <3>1. PICK now : now = [was EXCEPT !.pc = "gave up"]
            OBVIOUS
        <3>2. retry' = now
            BY <2>3, <3>1, <1>1, <1>8 DEF Asks
        <3>3. /\ now \in [pc : {"attempts", "asks", "done", "gave up"}, policy : Policies, hint : Hints, attempt : Nat \ {0},
                            cost : Nat, last : Nat, error : Errors1 \cup {"none"}, waited : Nat]
              /\ now.policy = p /\ now.hint = h /\ now.attempt = was.attempt /\ now.waited = was.waited
              /\ now.pc = "gave up" /\ now.cost = was.cost /\ now.last = was.last
            BY <3>1, <1>2, <1>3
        <3> QED
            BY <2>1, <3>2, <3>3, <1>5, <1>6
    <2> QED
        BY <2>2, <2>3
<1>9. CASE UNCHANGED retry
    BY <1>9 DEF RetryInv, RetriesBounded
<1> QED
    BY <1>7, <1>8, <1>9 DEF RetryStep

LEMMA LoopInvsHold == EvaluatorInv /\ RetryInv => LoopsKeepBounds
<1> SUFFICES ASSUME EvaluatorInv, RetryInv PROVE LoopsKeepBounds
    OBVIOUS
<1>1. RoundsFollow
    <2>1. \A r \in Tasks : answers[r] # NoAnswer => answers[r].rounds <= LoopRounds
        BY LoopsAssumption DEF EvaluatorInv, LoopTypes, LoopAnswers
    <2> QED
        BY <2>1 DEF EvaluatorInv, RoundsInv, RoundsFollow
<1> QED
    BY <1>1 DEF EvaluatorInv, RetryInv, LoopsKeepBounds

(* Whatever tasks run the loop of one object and whatever attempts cost and  *)
(* raise: a run that is not overlapped returns its own history, an answer is *)
(* the last output with its evaluation, and retries keep to their cap, their *)
(* budget and their backoff, for any number of rounds and any policy.        *)
THEOREM LoopsAreBounded == LoopSpec => []LoopsKeepBounds
<1>1. EvaluatorInit /\ (\E p \in Policies, h \in Hints : RetryAt(p, h)) => EvaluatorInv /\ RetryInv
    BY EvaluatorInvInit, RetryInvInit
<1>2. EvaluatorInv /\ RetryInv /\ [EvaluatorStep \/ RetryStep]_loopVars => (EvaluatorInv /\ RetryInv)'
    <2>1. EvaluatorStep => UNCHANGED retry
        BY DEF EvaluatorStep, Run, PlanReturns, GenerateReturns, EvaluateReturns, StepFails
    <2>2. RetryStep => UNCHANGED evaluatorVars
        BY DEF RetryStep, AttemptEnds, Asks
    <2>3. UNCHANGED loopVars => UNCHANGED evaluatorVars /\ UNCHANGED retry
        BY DEF loopVars, evaluatorVars
    <2> QED
        BY <2>1, <2>2, <2>3, EvaluatorInvStep, RetryInvStep
<1>3. EvaluatorInv /\ RetryInv => LoopsKeepBounds
    BY LoopInvsHold
<1> QED
    BY <1>1, <1>2, <1>3, PTL DEF LoopSpec
=============================================================================
