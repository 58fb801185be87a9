--------------------------- MODULE RegistryProofs ---------------------------
(***************************************************************************)
(* Proofs about Registry, for any processes, commands, documents and       *)
(* bounds.                                                                 *)
(*                                                                         *)
(* The argument is one of ownership.  A command starts with the names its  *)
(* model goes by and keeps them, whatever becomes of the entry; a name     *)
(* that no other command has at the same time is its own.  On its own      *)
(* names a command may rely on what it read: nobody else changes the       *)
(* entries that bear them, nor the files.  That is ViewOf, a predicate of  *)
(* one command's record, the document and the agent files, so that it      *)
(* can be carried over every step of another command by three lemmas       *)
(* (ViewOfSame, ViewOfAgents, ViewShrinks).                                *)
(***************************************************************************)
EXTENDS Registry, FiniteSetTheorems, NaturalsInduction, WellFoundedInduction, TLAPS

EditsFiles == {"add", "remove", "thinking", "roles"}
InLoop == {"look", "bulk", "bulkwrite", "writer", "writerwrite"}
InRender == {"bulk", "bulkwrite", "writer", "writerwrite"}
Cleaning == {"unlink", "unlinkwriter", "clear"}

(***************************************************************************)
(* Documents                                                               *)
(***************************************************************************)

\* One entry per id.
NoDup(doc) ==
    doc = NoRegistry \/
    \A i, j \in DOMAIN doc.models : doc.models[i].id = doc.models[j].id => i = j

\* Entries that give the same agent files.
Agree(d, e) ==
    /\ e.id = d.id /\ e.agent = d.agent /\ e.roles = d.roles
    /\ e.thinking = d.thinking /\ e.on = d.on /\ e.off = d.off
    /\ e.role_thinking = d.role_thinking

\* What an edit by cmd, which makes g of f, is to everybody else: it touches
\* entries of its own id only, adds them with derived names only, and unless
\* it is one of the commands that render files it changes no file they want.
EditRelates(cmd, f, g) ==
    LET z == cmd.id
    IN  /\ g \in Document
        /\ \A e \in entries(g) : e.id # z => e \in entries(f)
        /\ \A e \in entries(f) : e.id # z => e \in entries(g)
        /\ \A e \in entries(g) : e.id = z => NamesOf(e) \subseteq NamesFor(f, z)
        /\ cmd.op \notin EditsFiles =>
              /\ \A e \in entries(g) : \E d \in entries(f) : Agree(d, e)
              /\ \A d \in entries(f) : \E e \in entries(g) : Agree(d, e)
        /\ cmd.op \in {"thinking", "roles"} =>
              /\ \A e \in entries(g) : e.id = z => \E d \in entries(f) : d.id = z /\ d.agent = e.agent
              /\ \A d \in entries(f) : d.id = z => \E e \in entries(g) : e.id = z /\ e.agent = d.agent
        /\ cmd.op = "add" => z \notin ids(f)
        /\ cmd.op = "remove" => z \notin ids(g)
        /\ \A id \in ids(f) \cap ids(g) : agent_for(EntryOf(g, id)) = agent_for(EntryOf(f, id))
        /\ NoDup(f) <=> NoDup(g)

\* A command line has the fields of its operation.
LEMMA CommandFields ==
    ASSUME NEW cmd \in Commands
    PROVE  /\ cmd.id \in Id
           /\ cmd.op \in {"remove", "enable", "disable", "activate", "sync", "add", "roles", "reorder",
                          "thinking", "context", "oversize", "body"}
           /\ cmd.op \in {"add", "roles"} => cmd.roles \in SUBSET Role
           /\ cmd.op = "reorder" => cmd.position \in Nat
           /\ cmd.op = "thinking" =>
                 /\ cmd.state \in {"on", "off", "clear"} /\ cmd.role \in Role \cup {Nil}
                 /\ cmd.options \in Option \cup {NoOptions, Nil}
                 /\ cmd.role = Nil => cmd.state # "clear"
           /\ cmd.op \in Setting => cmd.value \in Value \cup {Nil}
<1>1. cmd \in Command
  BY RegistryAssumption
<1>2. cmd.op = "thinking" /\ cmd.state = "clear" => cmd.role # Nil
  BY RegistryAssumption
<1>3. CASE cmd \in [op : {"remove", "enable", "disable", "activate", "sync"}, id : Id]
  BY <1>3 DEF Setting
<1>4. CASE cmd \in [op : {"add", "roles"}, id : Id, roles : (SUBSET Role) \ {{}}]
  BY <1>4 DEF Setting
<1>5. CASE cmd \in [op : {"reorder"}, id : Id, position : Nat]
  BY <1>5 DEF Setting
<1>6. CASE cmd \in [op : {"thinking"}, id : Id, state : {"on", "off", "clear"},
                    role : Role \cup {Nil}, options : Option \cup {NoOptions, Nil}]
  BY <1>2, <1>6 DEF Setting
<1>7. CASE cmd \in [op : Setting, id : Id, value : Value \cup {Nil}]
  BY <1>7 DEF Setting
<1>. QED
  BY <1>1, <1>3, <1>4, <1>5, <1>6, <1>7 DEF Command

\* The names of an id and of an entry are names.
LEMMA NamesAreNames ==
    /\ \A id \in Id : slug(id) \in Name /\ code_writer_agent_for(id) \in Name
    /\ \A e \in Entry : agent_for(e) \in Name /\ NamesOf(e) \subseteq Name
    /\ Nil \notin Name
<1>1. \A id \in Id : slug(id) \in Name /\ code_writer_agent_for(id) \in Name
  BY DEF slug, code_writer_agent_for, Name
<1>2. \A e \in Entry : e.id \in Id /\ e.agent \in Name \cup {Nil}
  BY DEF Entry
<1>3. \A e \in Entry : agent_for(e) \in Name
  BY <1>1, <1>2 DEF agent_for
<1>. QED
  BY <1>1, <1>2, <1>3, RegistryAssumption DEF NamesOf

\* What a document holds are entries.
LEMMA EntriesAreEntries ==
    ASSUME NEW f \in Document \cup {NoRegistry}
    PROVE  /\ entries(f) \subseteq Entry
           /\ \A e \in entries(f) : NamesOf(e) \subseteq Name /\ NamesOf(e) \subseteq NamesFor(f, e.id)
           /\ \A id \in Id : NamesFor(f, id) \subseteq Name
<1>1. entries(f) \subseteq Entry
  <2>1. CASE f = NoRegistry
    BY <2>1 DEF entries
  <2>2. CASE f # NoRegistry
    <3>1. f.models \in Seq(Entry)
      BY <2>2 DEF Document
    <3>2. \A i \in DOMAIN f.models : f.models[i] \in Entry
      BY <3>1
    <3>. QED
      BY <2>2, <3>2 DEF entries, Range
  <2>. QED
    BY <2>1, <2>2
<1>2. \A e \in entries(f) : NamesOf(e) \subseteq NamesFor(f, e.id)
  BY DEF NamesOf, NamesFor
<1>. QED
  BY <1>1, <1>2, NamesAreNames DEF NamesFor

\* A nonempty set of numbers has a minimal element.
LEMMA MinimalOf ==
    ASSUME NEW R, IsWellFoundedOn(R, Nat), NEW T, T \subseteq Nat, T # {}
    PROVE  \E x \in T : \A y \in T : ~(<<y, x>> \in R)
  BY WFMin

\* With the order of the numbers it is the least one.
LEMMA MinimalIsLeast ==
    ASSUME NEW R, \A x, y \in Nat : x < y => <<x, y>> \in R,
           NEW T, T \subseteq Nat, \E x \in T : \A y \in T : ~(<<y, x>> \in R)
    PROVE  \E x \in T : \A y \in T : x <= y
<1>1. PICK x \in T : \A y \in T : ~(<<y, x>> \in R)
  OBVIOUS
<1>2. ASSUME NEW y \in T PROVE x <= y
  <2>1. ~(y < x)
    BY <1>1
  <2>. QED
    BY <2>1
<1>. QED
  BY <1>2

\* A nonempty set of numbers has a least element.
LEMMA LeastOf ==
    ASSUME NEW T, T \subseteq Nat, T # {}
    PROVE  \E x \in T : \A y \in T : x <= y
<1>1. IsWellFoundedOn(OpToRel(<, Nat), Nat)
  BY NatLessThanWellFounded
<1>2. \A x, y \in Nat : x < y => <<x, y>> \in OpToRel(<, Nat)
  BY DEF OpToRel
<1>3. \E x \in T : \A y \in T : ~(<<y, x>> \in OpToRel(<, Nat))
  BY <1>1, MinimalOf
<1>. QED
  BY <1>2, <1>3, MinimalIsLeast

\* Where the first entry of an id is.
First(doc, id) == CHOOSE i \in Indices(doc, id) : \A j \in Indices(doc, id) : i <= j

\* It is the only one if the document has one entry per id.
LEMMA EntryOfFacts ==
    ASSUME NEW f \in Document \cup {NoRegistry}, NEW id \in ids(f)
    PROVE  /\ f # NoRegistry
           /\ First(f, id) \in Indices(f, id) /\ EntryOf(f, id) = f.models[First(f, id)]
           /\ EntryOf(f, id) \in entries(f) /\ EntryOf(f, id).id = id
           /\ NoDup(f) => \A e \in entries(f) : e.id = id => e = EntryOf(f, id)
<1>1. f # NoRegistry /\ f.models \in Seq(Entry) /\ entries(f) = {f.models[i] : i \in DOMAIN f.models}
  BY DEF ids, entries, Document, Range
<1>2. DOMAIN f.models = 1..Len(f.models) /\ Len(f.models) \in Nat
  BY <1>1
<1>3. Indices(f, id) \subseteq Nat /\ Indices(f, id) # {}
  BY <1>1, <1>2 DEF Indices, ids
<1>4. First(f, id) \in Indices(f, id)
  <2>1. \E x \in Indices(f, id) : \A y \in Indices(f, id) : x <= y
    BY <1>3, LeastOf
  <2>. QED
    BY <2>1 DEF First
<1>5. EntryOf(f, id) = f.models[First(f, id)]
  BY DEF EntryOf, First
<1>6. EntryOf(f, id) \in entries(f) /\ EntryOf(f, id).id = id
  BY <1>1, <1>4, <1>5 DEF Indices
<1>7. ASSUME NoDup(f), NEW e \in entries(f), e.id = id
      PROVE  e = EntryOf(f, id)
  <2>1. PICK i \in DOMAIN f.models : e = f.models[i]
    BY <1>1
  <2>2. First(f, id) \in DOMAIN f.models /\ f.models[First(f, id)].id = id
    BY <1>4 DEF Indices
  <2>. QED
    BY <1>1, <1>5, <1>7, <2>1, <2>2 DEF NoDup
<1>. QED
  BY <1>1, <1>4, <1>5, <1>6, <1>7

\* With one entry per id, the last one of an id is the first one too.
LEMMA LastIsFirst ==
    ASSUME NEW f \in Document \cup {NoRegistry}, NEW id \in ids(f), NoDup(f)
    PROVE  LastOf(f, id) = EntryOf(f, id)
<1>1. f # NoRegistry /\ f.models \in Seq(Entry) /\ First(f, id) \in Indices(f, id)
  BY EntryOfFacts DEF Document
<1>2. First(f, id) \in DOMAIN f.models /\ DOMAIN f.models \subseteq Nat
      /\ f.models[First(f, id)].id = id
  BY <1>1 DEF Indices
<1>3. \A i \in Indices(f, id) : i = First(f, id)
  BY <1>1, <1>2 DEF Indices, NoDup
<1>4. (CHOOSE i \in Indices(f, id) : \A j \in Indices(f, id) : j <= i) = First(f, id)
  BY <1>1, <1>2, <1>3
<1>5. LastOf(f, id) = f.models[First(f, id)]
  BY <1>4 DEF LastOf
<1>6. EntryOf(f, id) = f.models[First(f, id)]
  BY EntryOfFacts
<1>. QED
  BY <1>5, <1>6

\* Where the entries of an id keep their place, the first one does.
LEMMA SamePlaces ==
    ASSUME NEW f \in Document, NEW g \in Document, NEW id \in ids(f), Indices(g, id) = Indices(f, id),
           \A i \in Indices(f, id) : agent_for(g.models[i]) = agent_for(f.models[i])
    PROVE  agent_for(EntryOf(g, id)) = agent_for(EntryOf(f, id))
<1>1. First(f, id) \in Indices(f, id)
  BY EntryOfFacts
<1>2. First(g, id) = First(f, id)
  BY DEF First
<1>. QED
  BY <1>1, <1>2 DEF EntryOf, First


\* A changed entry is an entry of the same id and agent name, and wants the
\* same files unless its roles or its thinking were changed.
LEMMA ChangedFacts ==
    ASSUME NEW cmd \in Commands, NEW e \in Entry,
           cmd.op \notin {"sync", "add", "remove", "reorder", "activate"}
    PROVE  /\ Changed(cmd, e) \in Entry
           /\ Changed(cmd, e).id = e.id /\ Changed(cmd, e).agent = e.agent
           /\ cmd.op \notin EditsFiles => Agree(e, Changed(cmd, e))
<1>1. /\ e.id \in Id /\ e.agent \in Name \cup {Nil} /\ e.enabled \in BOOLEAN /\ e.thinking \in BOOLEAN
      /\ e.on \in Option \cup {Nil} /\ e.off \in Option \cup {Nil}
      /\ e.role_thinking \in [Role -> BOOLEAN \cup {Nil}] /\ e.roles \in SUBSET Role
      /\ e.settings \in [Setting -> Value \cup {Nil}]
  BY DEF Entry
<1>2. CASE cmd.op = "enable"
  <2>1. Changed(cmd, e) = [e EXCEPT !.enabled = TRUE]
    BY <1>2 DEF Changed, Setting
  <2>. QED
    BY <1>1, <2>1 DEF Entry, Agree
<1>3. CASE cmd.op = "disable"
  <2>1. Changed(cmd, e) = [e EXCEPT !.enabled = FALSE]
    BY <1>3 DEF Changed, Setting
  <2>. QED
    BY <1>1, <2>1 DEF Entry, Agree
<1>4. CASE cmd.op = "roles"
  <2>1. Changed(cmd, e) = [e EXCEPT !.roles = cmd.roles] /\ cmd.roles \in SUBSET Role
    BY <1>4, CommandFields DEF Changed, Setting
  <2>. QED
    BY <1>1, <1>4, <2>1 DEF Entry, EditsFiles
<1>5. CASE cmd.op = "thinking" /\ cmd.role = Nil
  <2>1. Changed(cmd, e) = ModelThinking(cmd, e) /\ Stored(cmd.options) \in Option \cup {Nil}
    BY <1>5, CommandFields DEF Changed, Setting, Stored
  <2>2. ModelThinking(cmd, e) \in Entry
    BY <1>1, <2>1 DEF ModelThinking, Entry
  <2>3. ModelThinking(cmd, e).id = e.id /\ ModelThinking(cmd, e).agent = e.agent
    BY <1>1 DEF ModelThinking, Entry
  <2>. QED
    BY <1>5, <2>1, <2>2, <2>3 DEF EditsFiles
<1>6. CASE cmd.op = "thinking" /\ cmd.role # Nil
  <2>1. /\ Changed(cmd, e) = RoleThinking(cmd, e) /\ Stored(cmd.options) \in Option \cup {Nil}
        /\ cmd.role \in Role
    BY <1>6, CommandFields DEF Changed, Setting, Stored
  <2>. DEFINE state == IF cmd.state = "clear" THEN Nil ELSE cmd.state = "on"
              on == IF cmd.state = "on" /\ cmd.options # Nil THEN Stored(cmd.options) ELSE e.on
              off == IF cmd.state = "off" /\ cmd.options # Nil THEN Stored(cmd.options) ELSE e.off
  <2>2. RoleThinking(cmd, e) = [e EXCEPT !.role_thinking[cmd.role] = state, !.on = on, !.off = off]
    BY DEF RoleThinking
  <2>3. state \in BOOLEAN \cup {Nil}
    <3>1. (cmd.state = "on") \in BOOLEAN
      OBVIOUS
    <3>. QED
      BY <3>1
  <2>4. on \in Option \cup {Nil} /\ off \in Option \cup {Nil}
    BY <1>1, <2>1
  <2>. HIDE DEF state, on, off
  <2>5. [e.role_thinking EXCEPT ![cmd.role] = state] \in [Role -> BOOLEAN \cup {Nil}]
    BY <1>1, <2>1, <2>3
  <2>6. RoleThinking(cmd, e) =
          [e EXCEPT !.role_thinking = [e.role_thinking EXCEPT ![cmd.role] = state], !.on = on, !.off = off]
    BY <2>2
  <2>7. RoleThinking(cmd, e) \in Entry
    BY <1>1, <2>4, <2>5, <2>6 DEF Entry
  <2>8. RoleThinking(cmd, e).id = e.id /\ RoleThinking(cmd, e).agent = e.agent
    BY <1>1, <2>6 DEF Entry
  <2>. QED
    BY <1>6, <2>1, <2>7, <2>8 DEF EditsFiles
<1>7. CASE cmd.op \in Setting
  <2>1. /\ Changed(cmd, e) = [e EXCEPT !.settings[cmd.op] = cmd.value]
        /\ cmd.value \in Value \cup {Nil}
    BY <1>7, CommandFields DEF Changed, Setting
  <2>2. [e.settings EXCEPT ![cmd.op] = cmd.value] \in [Setting -> Value \cup {Nil}]
    BY <1>1, <1>7, <2>1
  <2>3. Changed(cmd, e) = [e EXCEPT !.settings = [e.settings EXCEPT ![cmd.op] = cmd.value]]
    BY <2>1
  <2>. QED
    BY <1>1, <2>2, <2>3 DEF Entry, Agree
<1>. QED
  BY <1>2, <1>3, <1>4, <1>5, <1>6, <1>7, CommandFields DEF Setting

\* The edit of the entries of one id.
LEMMA MapRelates ==
    ASSUME NEW cmd \in Commands, NEW f \in Document,
           cmd.op \notin {"sync", "add", "remove", "reorder", "activate"}
    PROVE  EditRelates(cmd, f, MapModel(cmd, f))
<1>. DEFINE g == MapModel(cmd, f)
            Made(e) == IF e.id = cmd.id THEN Changed(cmd, e) ELSE e
<1>1. /\ f.models \in Seq(Entry) /\ f.active \in Id \cup {Nil}
      /\ f # NoRegistry
  BY RegistryAssumption DEF Document
<1>2. g = [f EXCEPT !.models = [i \in DOMAIN f.models |-> Made(f.models[i])]]
  BY DEF MapModel
<1>3. \A i \in DOMAIN f.models : f.models[i] \in Entry
  BY <1>1
<1>4. \A e \in Entry : /\ Made(e) \in Entry /\ Made(e).id = e.id /\ Made(e).agent = e.agent
                       /\ cmd.op \notin EditsFiles => Agree(e, Made(e))
  BY ChangedFacts DEF Agree
<1>5. g \in Document
  <2>. DEFINE n == Len(f.models)
  <2>1. n \in Nat /\ DOMAIN f.models = 1..n
    BY <1>1
  <2>2. [i \in 1..n |-> Made(f.models[i])] \in [1..n -> Entry]
    BY <1>3, <1>4, <2>1
  <2>3. [i \in DOMAIN f.models |-> Made(f.models[i])] \in Seq(Entry)
    BY <2>1, <2>2
  <2>. QED
    BY <1>1, <1>2, <2>3 DEF Document
<1>6. g # NoRegistry
  BY <1>5, RegistryAssumption
<1>7. DOMAIN g.models = DOMAIN f.models /\ \A i \in DOMAIN f.models : g.models[i] = Made(f.models[i])
  BY <1>2 DEF Document
<1>. HIDE DEF g
<1>8. entries(f) = {f.models[i] : i \in DOMAIN f.models}
  BY <1>1 DEF entries, Range
<1>9. entries(g) = {g.models[i] : i \in DOMAIN f.models}
  BY <1>6, <1>7 DEF entries, Range
<1>10. \A e \in entries(g) : \E d \in entries(f) : e = Made(d)
  BY <1>7, <1>8, <1>9
<1>11. \A d \in entries(f) : Made(d) \in entries(g)
  BY <1>7, <1>8, <1>9
<1>12. entries(f) \subseteq Entry
  BY EntriesAreEntries
<1>13. NoDup(f) <=> NoDup(g)
  <2>1. \A i \in DOMAIN f.models : g.models[i].id = f.models[i].id
    BY <1>3, <1>4, <1>7
  <2>. QED
    BY <1>1, <1>6, <1>7, <2>1 DEF NoDup
<1>14. \A e \in entries(g) : e.id = cmd.id =>
          \E d \in entries(f) : d.id = cmd.id /\ d.agent = e.agent
  BY <1>4, <1>10, <1>12
<1>15. \A e \in entries(g) : e.id = cmd.id => NamesOf(e) \subseteq NamesFor(f, cmd.id)
  BY <1>14 DEF NamesOf, NamesFor, agent_for
<1>16. \A e \in entries(g) : e.id # cmd.id => e \in entries(f)
  BY <1>4, <1>10, <1>12
<1>17. \A e \in entries(f) : e.id # cmd.id => e \in entries(g)
  BY <1>11
<1>18. \A d \in entries(f) : d.id = cmd.id => \E e \in entries(g) : e.id = cmd.id /\ e.agent = d.agent
  BY <1>4, <1>11, <1>12
<1>19. cmd.op \notin EditsFiles =>
          /\ \A e \in entries(g) : \E d \in entries(f) : Agree(d, e)
          /\ \A d \in entries(f) : \E e \in entries(g) : Agree(d, e)
  BY <1>4, <1>10, <1>11, <1>12
<1>20. ASSUME NEW id \in ids(f)
       PROVE  agent_for(EntryOf(g, id)) = agent_for(EntryOf(f, id))
  <2>1. \A i \in DOMAIN f.models : g.models[i].id = f.models[i].id /\ g.models[i].agent = f.models[i].agent
    BY <1>3, <1>4, <1>7
  <2>2. Indices(g, id) = Indices(f, id) /\ Indices(f, id) \subseteq DOMAIN f.models
    BY <1>7, <2>1 DEF Indices
  <2>3. \A i \in Indices(f, id) : agent_for(g.models[i]) = agent_for(f.models[i])
    BY <2>1, <2>2 DEF agent_for
  <2>. QED
    BY <1>5, <2>2, <2>3, SamePlaces
<1>. QED
  BY <1>5, <1>13, <1>14, <1>15, <1>16, <1>17, <1>18, <1>19, <1>20 DEF EditRelates, g

\* What is kept of a sequence are its members in the set, each as often as it
\* was there.
LEMMA KeptFacts ==
    ASSUME NEW A, NEW s \in Seq(A), NEW S
    PROVE  /\ Kept(s, S) \in Seq(A)
           /\ Range(Kept(s, S)) = Range(s) \cap S
           /\ IsInjective(s) => IsInjective(Kept(s, S))
<1>. DEFINE Index == {i \in DOMAIN s : s[i] \in S}
            Below(i) == {j \in Index : j <= i}
            UpTo(i) == Cardinality(Below(i))
            N == Cardinality(Index)
            at(n) == CHOOSE i \in Index : UpTo(i) = n
<1>1. IsFiniteSet(Index) /\ N \in Nat /\ Index \subseteq Nat
  <2>1. Index \subseteq 1..Len(s) /\ Len(s) \in Nat
    OBVIOUS
  <2>2. IsFiniteSet(1..Len(s))
    BY <2>1, FS_Interval
  <2>. QED
    BY <2>1, <2>2, FS_Subset, FS_CardinalityType
<1>2. ASSUME NEW i \in Index
      PROVE  UpTo(i) \in 1..N /\ IsFiniteSet(Below(i))
  <2>1. Below(i) \in SUBSET Index /\ i \in Below(i)
    BY <1>1
  <2>2. IsFiniteSet(Below(i)) /\ UpTo(i) <= N /\ UpTo(i) \in Nat
    BY <1>1, <2>1, FS_Subset, FS_CardinalityType
  <2>3. UpTo(i) # 0
    BY <2>1, <2>2, FS_EmptySet
  <2>. QED
    BY <1>1, <2>2, <2>3
<1>3. ASSUME NEW i \in Index, NEW j \in Index, UpTo(i) = UpTo(j)
      PROVE  i = j
  <2>1. ASSUME NEW a \in Index, NEW b \in Index, a < b
        PROVE  UpTo(a) # UpTo(b)
    <3>1. Below(a) \in SUBSET Below(b) /\ b \in Below(b) /\ b \notin Below(a)
      BY <1>1, <2>1
    <3>2. IsFiniteSet(Below(b))
      BY <1>2
    <3>. QED
      BY <3>1, <3>2, FS_Subset
  <2>2. i \in Nat /\ j \in Nat
    BY <1>1
  <2>3. ~(i < j) /\ ~(j < i)
    BY <1>3, <2>1
  <2>. QED
    BY <2>2, <2>3
<1>4. \A n \in 1..N : \E i \in Index : UpTo(i) = n
  <2>. DEFINE rank == [i \in Index |-> UpTo(i)]
  <2>1. rank \in [Index -> 1..N] /\ DOMAIN rank = Index /\ \A i \in Index : rank[i] = UpTo(i)
    BY <1>2
  <2>. HIDE DEF rank
  <2>2. \A i, j \in Index : rank[i] = rank[j] => i = j
    BY <1>3, <2>1
  <2>3. rank \in Injection(Index, 1..N)
    BY <2>1, <2>2 DEF Injection, IsInjective
  <2>4. IsFiniteSet(1..N) /\ Cardinality(1..N) = N
    BY <1>1, FS_Interval
  <2>5. rank \in Surjection(Index, 1..N)
    BY <2>3, <2>4, FS_Injection
  <2>. QED
    BY <2>1, <2>5 DEF Surjection
<1>5. \A n \in 1..N : at(n) \in Index /\ UpTo(at(n)) = n
  BY <1>4
<1>6. \A i \in Index : UpTo(i) \in 1..N /\ at(UpTo(i)) = i
  BY <1>2, <1>3, <1>5
<1>7. Kept(s, S) = [n \in 1..N |-> s[at(n)]]
  BY DEF Kept
<1>. HIDE DEF at, N
<1>8. \A i \in Index : i \in DOMAIN s /\ s[i] \in S /\ s[i] \in A
  OBVIOUS
<1>9. Kept(s, S) \in Seq(A)
  <2>1. \A n \in 1..N : s[at(n)] \in A
    BY <1>5, <1>8
  <2>2. [n \in 1..N |-> s[at(n)]] \in [1..N -> A] /\ N \in Nat
    BY <1>1, <2>1 DEF N
  <2>. QED
    BY <1>7, <2>2
<1>10. DOMAIN Kept(s, S) = 1..N /\ \A n \in 1..N : Kept(s, S)[n] = s[at(n)]
  BY <1>7
<1>11. Range(Kept(s, S)) = Range(s) \cap S
  <2>1. ASSUME NEW n \in 1..N
        PROVE  s[at(n)] \in Range(s) \cap S
    BY <1>5, <1>8 DEF Range
  <2>2. ASSUME NEW i \in DOMAIN s, s[i] \in S
        PROVE  \E n \in 1..N : s[at(n)] = s[i]
    <3>1. i \in Index
      BY <2>2
    <3>. QED
      BY <1>6, <3>1
  <2>. DEFINE K == Kept(s, S)
  <2>3. DOMAIN K = 1..N /\ \A n \in 1..N : K[n] = s[at(n)]
    BY <1>10
  <2>. HIDE DEF K
  <2>4. Range(K) \subseteq Range(s) \cap S
    BY <2>1, <2>3 DEF Range
  <2>5. Range(s) \cap S \subseteq Range(K)
    BY <2>2, <2>3 DEF Range
  <2>. QED
    BY <2>4, <2>5 DEF K
<1>12. IsInjective(s) => IsInjective(Kept(s, S))
  <2>. SUFFICES ASSUME IsInjective(s), NEW n \in 1..N, NEW o \in 1..N, s[at(n)] = s[at(o)]
                PROVE  n = o
    BY <1>10 DEF IsInjective
  <2>1. at(n) = at(o)
    BY <1>5, <1>8 DEF IsInjective
  <2>. QED
    BY <1>5, <2>1
<1>. QED
  BY <1>9, <1>11, <1>12


\* Where the elements of three sequences are in their concatenation.
LEMMA JoinedTwice ==
    ASSUME NEW A, NEW a \in Seq(A), NEW t \in Seq(A), NEW b \in Seq(A)
    PROVE  /\ a \o t \o b \in Seq(A) /\ DOMAIN (a \o t \o b) = 1..(Len(a) + Len(t) + Len(b))
           /\ \A i \in 1..Len(a) : (a \o t \o b)[i] = a[i]
           /\ \A i \in 1..Len(t) : (a \o t \o b)[Len(a) + i] = t[i]
           /\ \A i \in 1..Len(b) : (a \o t \o b)[Len(a) + Len(t) + i] = b[i]
<1>. DEFINE u == a \o t
<1>1. u \in Seq(A) /\ Len(u) = Len(a) + Len(t)
  OBVIOUS
<1>2. \A i \in 1..Len(a) : u[i] = a[i]
  OBVIOUS
<1>3. \A i \in 1..Len(t) : u[Len(a) + i] = t[i]
  OBVIOUS
<1>. HIDE DEF u
<1>4. u \o b \in Seq(A) /\ Len(u \o b) = Len(u) + Len(b)
  BY SMTT(20), <1>1
<1>5. \A i \in 1..Len(u) : (u \o b)[i] = u[i]
  BY <1>1
<1>6. \A i \in 1..Len(b) : (u \o b)[Len(u) + i] = b[i]
  BY <1>1
<1>7. Len(a) \in Nat /\ Len(t) \in Nat /\ Len(b) \in Nat
  OBVIOUS
<1>8. DOMAIN (u \o b) = 1..(Len(a) + Len(t) + Len(b))
  BY <1>1, <1>4
<1>9. \A i \in 1..Len(a) : (u \o b)[i] = a[i]
  <2>1. \A i \in 1..Len(a) : i \in 1..Len(u)
    BY <1>1, <1>7
  <2>. QED
    BY <1>2, <1>5, <2>1
<1>10. \A i \in 1..Len(t) : (u \o b)[Len(a) + i] = t[i]
  <2>1. \A i \in 1..Len(t) : Len(a) + i \in 1..Len(u)
    BY <1>1, <1>7
  <2>. QED
    BY <1>3, <1>5, <2>1
<1>11. \A i \in 1..Len(b) : (u \o b)[Len(a) + Len(t) + i] = b[i]
  BY <1>1, <1>6
<1>. QED
  BY <1>4, <1>8, <1>9, <1>10, <1>11 DEF u

\* A sequence put into another one that shares no element with it.
LEMMA InsertFacts ==
    ASSUME NEW A, NEW s \in Seq(A), NEW t \in Seq(A), NEW c \in 0..Len(s),
           IsInjective(s), IsInjective(t), Range(s) \cap Range(t) = {}
    PROVE  LET u == SubSeq(s, 1, c) \o t \o SubSeq(s, c + 1, Len(s))
           IN  u \in Seq(A) /\ Range(u) = Range(s) \cup Range(t) /\ IsInjective(u)
<1>. DEFINE m == Len(s)
            n == Len(t)
            u == SubSeq(s, 1, c) \o t \o SubSeq(s, c + 1, Len(s))
<1>1. m \in Nat /\ n \in Nat /\ c \in Nat /\ c <= m /\ DOMAIN s = 1..m /\ DOMAIN t = 1..n
  OBVIOUS
<1>2. /\ SubSeq(s, 1, c) \in Seq(A) /\ Len(SubSeq(s, 1, c)) = c
      /\ \A i \in 1..c : SubSeq(s, 1, c)[i] = s[i]
  OBVIOUS
<1>3. /\ SubSeq(s, c + 1, m) \in Seq(A) /\ Len(SubSeq(s, c + 1, m)) = m - c
      /\ \A i \in 1..(m - c) : SubSeq(s, c + 1, m)[i] = s[i + c]
  OBVIOUS
<1>4. /\ u \in Seq(A) /\ DOMAIN u = 1..(m + n)
      /\ \A i \in 1..c : u[i] = s[i]
      /\ \A i \in 1..n : u[c + i] = t[i]
      /\ \A i \in 1..(m - c) : u[c + n + i] = s[i + c]
  <2>1. PICK a \in Seq(A) : a = SubSeq(s, 1, c)
    BY <1>2
  <2>2. PICK b \in Seq(A) : b = SubSeq(s, c + 1, m)
    BY <1>3
  <2>3. u = a \o t \o b /\ Len(a) = c /\ Len(t) = n /\ Len(b) = m - c
    BY <1>2, <1>3, <2>1, <2>2
  <2>4. t \in Seq(A) /\ c + n + (m - c) = m + n
    BY <1>1
  <2>. HIDE DEF u, m, n
  <2>. DEFINE v == a \o t \o b
  <2>5. v \in Seq(A)
    BY ONLY a \in Seq(A), b \in Seq(A), t \in Seq(A), JoinedTwice
  <2>6. DOMAIN v = 1..(Len(a) + Len(t) + Len(b))
    BY ONLY a \in Seq(A), b \in Seq(A), t \in Seq(A), JoinedTwice
  <2>7. \A i \in 1..Len(a) : v[i] = a[i]
    BY ONLY a \in Seq(A), b \in Seq(A), t \in Seq(A), JoinedTwice
  <2>8. \A i \in 1..Len(t) : v[Len(a) + i] = t[i]
    BY ONLY a \in Seq(A), b \in Seq(A), t \in Seq(A), JoinedTwice
  <2>9. \A i \in 1..Len(b) : v[Len(a) + Len(t) + i] = b[i]
    BY ONLY a \in Seq(A), b \in Seq(A), t \in Seq(A), JoinedTwice
  <2>. HIDE DEF v
  <2>10. /\ u \in Seq(A) /\ DOMAIN u = 1..(m + n)
         /\ \A i \in 1..c : u[i] = a[i]
         /\ \A i \in 1..n : u[c + i] = t[i]
         /\ \A i \in 1..(m - c) : u[c + n + i] = b[i]
    BY <2>3, <2>4, <2>5, <2>6, <2>7, <2>8, <2>9 DEF v
  <2>. QED
    BY <1>2, <1>3, <2>1, <2>2, <2>10 DEF m
<1>. HIDE DEF u, m, n
<1>5. \A i \in 1..(m + n) : \/ i \in 1..c
                            \/ i - c \in 1..n /\ c + (i - c) = i
                            \/ i - c - n \in 1..(m - c) /\ c + n + (i - c - n) = i
  BY <1>1
<1>6. \A i \in 1..(m + n) :
          \/ i \in 1..c /\ i \in 1..m /\ u[i] = s[i]
          \/ i - c \in 1..n /\ u[i] = t[i - c]
          \/ i - n \in 1..m /\ i - n > c /\ u[i] = s[i - n]
  <2>. SUFFICES ASSUME NEW i \in 1..(m + n)
                PROVE  \/ i \in 1..c /\ i \in 1..m /\ u[i] = s[i]
                       \/ i - c \in 1..n /\ u[i] = t[i - c]
                       \/ i - n \in 1..m /\ i - n > c /\ u[i] = s[i - n]
    OBVIOUS
  <2>1. CASE i \in 1..c
    BY <1>1, <1>4, <2>1
  <2>2. CASE i - c \in 1..n
    <3>1. c + (i - c) = i
      BY <1>1
    <3>. QED
      BY <1>4, <2>2, <3>1
  <2>3. CASE i - c - n \in 1..(m - c)
    <3>1. c + n + (i - c - n) = i /\ (i - c - n) + c = i - n /\ i - n \in 1..m /\ i - n > c
      BY <1>1, <2>3
    <3>. QED
      BY <1>4, <2>3, <3>1
  <2>. QED
    BY <1>5, <2>1, <2>2, <2>3
<1>7. \A j \in 1..m : \E i \in 1..(m + n) : u[i] = s[j]
  <2>. SUFFICES ASSUME NEW j \in 1..m
                PROVE  \E i \in 1..(m + n) : u[i] = s[j]
    OBVIOUS
  <2>1. CASE j <= c
    BY <1>1, <1>4, <2>1
  <2>2. CASE j > c
    <3>1. j - c \in 1..(m - c) /\ (j - c) + c = j /\ c + n + (j - c) \in 1..(m + n)
      BY <1>1, <2>2
    <3>. QED
      BY <1>4, <3>1
  <2>. QED
    BY <1>1, <2>1, <2>2
<1>8. \A j \in 1..n : \E i \in 1..(m + n) : u[i] = t[j]
  <2>1. \A j \in 1..n : c + j \in 1..(m + n)
    BY <1>1
  <2>. QED
    BY <1>4, <2>1
<1>9. Range(u) = Range(s) \cup Range(t)
  <2>1. \A i \in DOMAIN u : u[i] \in Range(s) \cup Range(t)
    BY <1>1, <1>4, <1>6 DEF Range
  <2>2. \A j \in DOMAIN s : s[j] \in Range(u)
    BY <1>1, <1>4, <1>7 DEF Range
  <2>3. \A j \in DOMAIN t : t[j] \in Range(u)
    BY <1>1, <1>4, <1>8 DEF Range
  <2>. QED
    BY <2>1, <2>2, <2>3 DEF Range
<1>10. IsInjective(u)
  <2>. SUFFICES ASSUME NEW i \in 1..(m + n), NEW j \in 1..(m + n), u[i] = u[j]
                PROVE  i = j
    BY <1>4 DEF IsInjective
  <2>1. \A a \in 1..m, b \in 1..n : s[a] # t[b]
    BY <1>1 DEF Range
  <2>2. \A a, b \in 1..m : s[a] = s[b] => a = b
    BY <1>1 DEF IsInjective
  <2>3. \A a, b \in 1..n : t[a] = t[b] => a = b
    BY <1>1 DEF IsInjective
  <2>. QED
    BY <1>1, <1>6, <2>1, <2>2, <2>3
<1>. QED
  BY <1>4, <1>9, <1>10 DEF u, m

\* A model that is added: one entry with derived names, behind the others.
LEMMA AddRelates ==
    ASSUME NEW cmd \in Commands, NEW f \in Document \cup {NoRegistry},
           cmd.op = "add", cmd.id \notin ids(f)
    PROVE  EditRelates(cmd, f, Added(cmd, f))
<1>. DEFINE old == IF f = NoRegistry THEN EmptyRegistry ELSE f
            e == NewEntry(cmd.id, cmd.roles)
            g == Added(cmd, f)
            n == Len(old.models)
<1>1. e \in Entry /\ e.id = cmd.id /\ NamesOf(e) = {slug(cmd.id), code_writer_agent_for(cmd.id)}
  <2>1. cmd.id \in Id /\ cmd.roles \in SUBSET Role /\ slug(cmd.id) \in Name /\ slug(cmd.id) # Nil
    BY CommandFields, NamesAreNames
  <2>2. e \in Entry
    BY <2>1 DEF NewEntry, Entry
  <2>3. e.id = cmd.id /\ e.agent = slug(cmd.id)
    BY DEF NewEntry
  <2>. QED
    BY <2>1, <2>2, <2>3 DEF NamesOf, agent_for
<1>. HIDE DEF e
<1>2. old \in Document /\ old.models \in Seq(Entry) /\ old.active \in Id \cup {Nil}
  BY DEF EmptyRegistry, Document
<1>3. entries(old) = entries(f) /\ old # NoRegistry /\ (f # NoRegistry => old = f)
  <2>1. EmptyRegistry \in Document
    BY DEF EmptyRegistry, Document
  <2>2. Range(EmptyRegistry.models) = {}
    BY DEF EmptyRegistry, Range
  <2>. QED
    BY <2>1, <2>2, RegistryAssumption DEF entries
<1>4. g = [old EXCEPT !.models = Append(old.models, e)]
  BY DEF Added, e
<1>. HIDE DEF old, g
<1>5. g.models = Append(old.models, e) /\ g.active = old.active
  BY <1>2, <1>4 DEF Document
<1>6. /\ n \in Nat /\ DOMAIN old.models = 1..n
      /\ g.models \in Seq(Entry) /\ DOMAIN g.models = 1..(n + 1)
      /\ \A i \in 1..n : g.models[i] = old.models[i]
      /\ g.models[n + 1] = e
  BY <1>1, <1>2, <1>5
<1>7. g \in Document /\ g # NoRegistry
  <2>1. g \in Document
    BY <1>2, <1>4, <1>5, <1>6 DEF Document
  <2>. QED
    BY <2>1, RegistryAssumption
<1>8. entries(old) = {old.models[i] : i \in 1..n} /\ entries(g) = {g.models[i] : i \in 1..(n + 1)}
  BY <1>3, <1>6, <1>7 DEF entries, Range
<1>. HIDE DEF n
<1>9. entries(g) = entries(f) \cup {e}
  <2>1. \A i \in 1..(n + 1) : i \in 1..n \/ i = n + 1
    BY <1>6
  <2>2. \A i \in 1..n : i \in 1..(n + 1)
    BY <1>6
  <2>3. n + 1 \in 1..(n + 1)
    BY <1>6
  <2>4. entries(g) = entries(old) \cup {e}
    BY <1>6, <1>8, <2>1, <2>2, <2>3
  <2>. QED
    BY <1>3, <2>4
<1>10. \A d \in entries(f) : d.id # cmd.id
  BY DEF ids
<1>11. NoDup(old) <=> NoDup(g)
  <2>1. \A i \in 1..n : old.models[i].id # cmd.id
    BY <1>3, <1>8, <1>10
  <2>2. ASSUME NoDup(old), NEW i \in 1..(n + 1), NEW j \in 1..(n + 1), g.models[i].id = g.models[j].id
        PROVE  i = j
    <3>1. CASE i \in 1..n /\ j \in 1..n
      BY <1>3, <1>6, <2>2, <3>1 DEF NoDup
    <3>2. CASE i = n + 1 /\ j \in 1..n
      BY <1>1, <1>6, <2>1, <2>2, <3>2
    <3>3. CASE j = n + 1 /\ i \in 1..n
      BY <1>1, <1>6, <2>1, <2>2, <3>3
    <3>4. CASE i = n + 1 /\ j = n + 1
      BY <3>4
    <3>5. \A k \in 1..(n + 1) : k \in 1..n \/ k = n + 1
      BY <1>6
    <3>. QED
      BY <3>1, <3>2, <3>3, <3>4, <3>5
  <2>3. ASSUME NoDup(g), NEW i \in 1..n, NEW j \in 1..n, old.models[i].id = old.models[j].id
        PROVE  i = j
    <3>1. i \in 1..(n + 1) /\ j \in 1..(n + 1)
      BY <1>6
    <3>. QED
      BY <1>6, <1>7, <2>3, <3>1 DEF NoDup
  <2>. QED
    BY <1>6, <2>2, <2>3 DEF NoDup
<1>12. NoDup(f) <=> NoDup(g)
  <2>1. NoDup(NoRegistry)
    BY DEF NoDup
  <2>2. f = NoRegistry => NoDup(old)
    BY DEF NoDup, old, EmptyRegistry
  <2>. QED
    BY <1>3, <1>11, <2>1, <2>2
<1>13. ASSUME NEW id \in ids(f)
       PROVE  agent_for(EntryOf(g, id)) = agent_for(EntryOf(f, id))
  <2>1. f # NoRegistry /\ id # cmd.id
    BY <1>13, EntryOfFacts
  <2>2. old = f
    BY <1>3, <2>1
  <2>3. Indices(g, id) = Indices(f, id)
    <3>1. \A i \in 1..(n + 1) : i \in 1..n \/ (i = n + 1 /\ g.models[i].id # id)
      BY <1>1, <1>6, <2>1
    <3>2. \A i \in 1..n : i \in 1..(n + 1)
      BY <1>6
    <3>. QED
      BY <1>6, <2>2, <3>1, <3>2 DEF Indices
  <2>4. \A i \in Indices(f, id) : agent_for(g.models[i]) = agent_for(f.models[i])
    BY <1>6, <2>2 DEF Indices
  <2>. QED
    BY <1>2, <1>7, <2>2, <2>3, <2>4, SamePlaces
<1>14. \A d \in entries(g) : d.id = cmd.id => NamesOf(d) \subseteq NamesFor(f, cmd.id)
  <2>1. \A d \in entries(g) : d.id = cmd.id => d = e
    BY <1>9, <1>10
  <2>. QED
    BY <1>1, <2>1 DEF NamesFor
<1>. QED
  BY <1>1, <1>7, <1>9, <1>10, <1>12, <1>13, <1>14 DEF EditRelates, g, EditsFiles

\* One entry per id, as a property of the entries and of their order.
LEMMA NoDupMeans ==
    ASSUME NEW f \in Document
    PROVE  NoDup(f) <=> /\ IsInjective(f.models)
                        /\ \A d, e \in entries(f) : d.id = e.id => d = e
<1>1. f # NoRegistry
  BY RegistryAssumption
<1>2. entries(f) = {f.models[i] : i \in DOMAIN f.models}
  BY <1>1 DEF entries, Range
<1>3. ASSUME NoDup(f)
      PROVE  IsInjective(f.models) /\ \A d, e \in entries(f) : d.id = e.id => d = e
  BY <1>1, <1>2, <1>3 DEF NoDup, IsInjective
<1>4. ASSUME IsInjective(f.models), \A d, e \in entries(f) : d.id = e.id => d = e
      PROVE  NoDup(f)
  BY <1>1, <1>2, <1>4 DEF NoDup, IsInjective
<1>. QED
  BY <1>3, <1>4

\* Documents without duplicates agree on the first entry of an id if they have
\* that entry in common.
LEMMA SameEntry ==
    ASSUME NEW f \in Document, NEW g \in Document, NoDup(f), NoDup(g),
           NEW id \in ids(f) \cap ids(g), EntryOf(f, id) \in entries(g)
    PROVE  agent_for(EntryOf(g, id)) = agent_for(EntryOf(f, id))
<1>1. EntryOf(f, id).id = id
  BY EntryOfFacts
<1>2. EntryOf(f, id) = EntryOf(g, id)
  BY <1>1, EntryOfFacts
<1>. QED
  BY <1>2

\* A model that is removed.
LEMMA RemoveRelates ==
    ASSUME NEW cmd \in Commands, NEW f \in Document, cmd.op = "remove", NoDup(f)
    PROVE  EditRelates(cmd, f, Removed(cmd, f))
<1>. DEFINE g == Removed(cmd, f)
            S == {e \in entries(f) : e.id # cmd.id}
<1>1. f.models \in Seq(Entry) /\ f.active \in Id \cup {Nil} /\ f # NoRegistry
  BY RegistryAssumption DEF Document
<1>2. g.models = Kept(f.models, S)
  BY DEF Removed, Without
<1>3. g.active \in Id \cup {Nil} /\ g = [active |-> g.active, models |-> g.models]
  BY <1>1 DEF Removed
<1>. HIDE DEF g
<1>4. /\ g.models \in Seq(Entry) /\ Range(g.models) = Range(f.models) \cap S
      /\ IsInjective(f.models) => IsInjective(g.models)
  BY <1>1, <1>2, KeptFacts
<1>5. g \in Document /\ g # NoRegistry
  <2>1. g \in Document
    BY <1>3, <1>4 DEF Document
  <2>. QED
    BY <2>1, RegistryAssumption
<1>6. entries(g) = S
  BY <1>1, <1>4, <1>5 DEF entries
<1>7. NoDup(g)
  BY <1>4, <1>5, <1>6, NoDupMeans
<1>8. ASSUME NEW id \in ids(f) \cap ids(g)
      PROVE  agent_for(EntryOf(g, id)) = agent_for(EntryOf(f, id))
  <2>1. id # cmd.id
    BY <1>6 DEF ids
  <2>2. EntryOf(f, id) \in entries(g)
    BY <1>6, <2>1, EntryOfFacts
  <2>. QED
    BY <1>5, <1>7, <2>2, SameEntry
<1>9. cmd.id \notin ids(g)
  BY <1>6 DEF ids
<1>. QED
  BY <1>5, <1>6, <1>7, <1>8, <1>9 DEF EditRelates, g, EditsFiles

\* A document with the same entries, in any order and with any active model.
LEMMA SameEntriesRelate ==
    ASSUME NEW cmd \in Commands, NEW f \in Document, NEW g \in Document,
           cmd.op \in {"reorder", "activate"}, entries(g) = entries(f),
           NoDup(f) <=> NoDup(g), NoDup(f) \/ g.models = f.models
    PROVE  EditRelates(cmd, f, g)
<1>1. ASSUME NEW id \in ids(f) \cap ids(g)
      PROVE  agent_for(EntryOf(g, id)) = agent_for(EntryOf(f, id))
  <2>1. CASE NoDup(f)
    <3>1. EntryOf(f, id) \in entries(g)
      BY EntryOfFacts
    <3>. QED
      BY <2>1, <3>1, SameEntry
  <2>2. CASE g.models = f.models
    BY <2>2 DEF EntryOf, Indices
  <2>. QED
    BY <2>1, <2>2
<1>2. \A e \in entries(f) : Agree(e, e)
  BY DEF Agree
<1>3. \A e \in entries(g) : NamesOf(e) \subseteq NamesFor(f, e.id)
  BY EntriesAreEntries
<1>4. cmd.op # "add" /\ cmd.op # "remove" /\ cmd.op \notin {"thinking", "roles"}
  OBVIOUS
<1>. QED
  BY <1>1, <1>2, <1>3, <1>4 DEF EditRelates

\* A model that is moved: the cut is an index the other entries have.
LEMMA ReorderRelates ==
    ASSUME NEW cmd \in Commands, NEW f \in Document, cmd.op = "reorder", NoDup(f)
    PROVE  EditRelates(cmd, f, Reordered(cmd, f))
<1>. DEFINE S == {e \in entries(f) : e.id # cmd.id}
            T == {e \in entries(f) : e.id = cmd.id}
            rest == Without(f, cmd.id)
            target == Only(f, cmd.id)
            IsCut(n) == IF cmd.position = 0 THEN n = Len(rest) - 1 \/ Len(rest) = 0
                        ELSE n = cmd.position - 1 \/ (n = Len(rest) /\ n < cmd.position - 1)
            cut == CHOOSE n \in 0..Len(rest) : IsCut(n)
            moved == SubSeq(rest, 1, cut) \o target \o SubSeq(rest, cut + 1, Len(rest))
            g == Reordered(cmd, f)
<1>1. f.models \in Seq(Entry) /\ f.active \in Id \cup {Nil} /\ f # NoRegistry
  BY RegistryAssumption DEF Document
<1>2. IsInjective(f.models)
  BY NoDupMeans
<1>3. rest \in Seq(Entry) /\ Range(rest) = Range(f.models) \cap S /\ IsInjective(rest)
  BY <1>1, <1>2, KeptFacts DEF Without
<1>4. target \in Seq(Entry) /\ Range(target) = Range(f.models) \cap T /\ IsInjective(target)
  BY <1>1, <1>2, KeptFacts DEF Only
<1>5. g = [f EXCEPT !.models = moved]
  BY DEF Reordered
<1>. HIDE DEF rest, target
<1>6. cut \in 0..Len(rest)
  <2>1. Len(rest) \in Nat /\ cmd.position \in Nat
    BY <1>3, CommandFields
  <2>2. \E n \in 0..Len(rest) : IsCut(n)
    <3>1. CASE cmd.position = 0 /\ Len(rest) = 0
      BY <2>1, <3>1
    <3>2. CASE cmd.position = 0 /\ Len(rest) # 0
      <4>1. Len(rest) - 1 \in 0..Len(rest)
        BY <2>1, <3>2
      <4>. QED
        BY <3>2, <4>1
    <3>3. CASE cmd.position # 0 /\ cmd.position - 1 <= Len(rest)
      <4>1. cmd.position - 1 \in 0..Len(rest)
        BY <2>1, <3>3
      <4>. QED
        BY <3>3, <4>1
    <3>4. CASE cmd.position # 0 /\ cmd.position - 1 > Len(rest)
      <4>1. Len(rest) \in 0..Len(rest) /\ Len(rest) < cmd.position - 1
        BY <2>1, <3>4
      <4>. QED
        BY <3>4, <4>1
    <3>5. \/ cmd.position # 0 /\ cmd.position - 1 <= Len(rest)
          \/ cmd.position # 0 /\ cmd.position - 1 > Len(rest)
          \/ cmd.position = 0
      BY <2>1
    <3>. QED
      BY <3>1, <3>2, <3>3, <3>4, <3>5
  <2>. HIDE DEF IsCut
  <2>. QED
    BY <2>2
<1>. HIDE DEF cut
<1>7. Range(rest) \cap Range(target) = {}
  BY <1>3, <1>4
<1>8. moved \in Seq(Entry) /\ Range(moved) = Range(rest) \cup Range(target) /\ IsInjective(moved)
  BY <1>3, <1>4, <1>6, <1>7, InsertFacts
<1>. HIDE DEF moved, g
<1>9. g.models = moved
  BY <1>5 DEF Document
<1>10. g \in Document
  BY <1>1, <1>5, <1>8 DEF Document
<1>11. g # NoRegistry
  BY <1>10, RegistryAssumption
<1>12. entries(f) = Range(f.models) /\ entries(g) = Range(g.models)
  BY <1>1, <1>11 DEF entries
<1>13. entries(g) = entries(f)
  BY <1>3, <1>4, <1>8, <1>9, <1>12
<1>14. NoDup(g)
  BY <1>8, <1>9, <1>10, <1>13, NoDupMeans
<1>. QED
  BY <1>10, <1>13, <1>14, SameEntriesRelate DEF g

\* What the writer makes of a document it does not refuse.
LEMMA EditFacts ==
    ASSUME NEW cmd \in Commands, NEW f \in Document \cup {NoRegistry},
           cmd.op # "sync", ~Refuses(cmd, f), cmd.op \in {"remove", "reorder"} => NoDup(f)
    PROVE  EditRelates(cmd, f, Edited(cmd, f))
<1>1. CASE cmd.op = "add"
  BY <1>1, AddRelates DEF Edited, Refuses
<1>2. ASSUME cmd.op # "add"
      PROVE  f \in Document
  BY <1>2 DEF Refuses
<1>3. CASE cmd.op = "remove"
  BY <1>2, <1>3, RemoveRelates DEF Edited
<1>4. CASE cmd.op = "reorder"
  BY <1>2, <1>4, ReorderRelates DEF Edited
<1>5. CASE cmd.op = "activate"
  <2>. DEFINE g == [f EXCEPT !.active = cmd.id]
  <2>1. f \in Document /\ cmd.id \in Id
    BY <1>2, <1>5, CommandFields
  <2>2. g \in Document /\ g.models = f.models
    BY <2>1 DEF Document
  <2>. HIDE DEF g
  <2>3. f # NoRegistry /\ g # NoRegistry
    BY <2>1, <2>2, RegistryAssumption
  <2>4. entries(g) = entries(f) /\ (NoDup(f) <=> NoDup(g))
    BY <2>2, <2>3 DEF entries, NoDup
  <2>5. EditRelates(cmd, f, g)
    BY <1>5, <2>1, <2>2, <2>4, SameEntriesRelate
  <2>. QED
    BY <1>5, <2>5 DEF Edited, g
<1>6. CASE cmd.op \notin {"add", "remove", "reorder", "activate"}
  <2>1. Edited(cmd, f) = MapModel(cmd, f)
    BY <1>6 DEF Edited
  <2>. QED
    BY <1>2, <1>6, <2>1, MapRelates
<1>. QED
  BY <1>1, <1>3, <1>4, <1>5, <1>6

(***************************************************************************)
(* Commands and files                                                      *)
(***************************************************************************)

\* The names a command knows as nobody else does.
Own(x) == x.touched \ x.mixed

\* The place of a command fits its operation, and its work list its place.
PlaceOf(x) ==
    LET op == x.cmd.op
    IN  /\ x.pc = "agent" => op = "remove"
        /\ x.pc = "list" => op = "sync"
        /\ x.pc \in {"unlink", "unlinkwriter"} => op = "remove"
        /\ x.pc = "clear" => op \in {"remove", "context", "oversize"}
        /\ x.pc \in {"entry", "lock", "save"} => op # "sync"
        /\ x.pc \in InLoop =>
              /\ op \in {"add", "thinking", "roles", "sync"}
              /\ x.todo # <<>>
              /\ op # "sync" => x.todo = <<x.cmd.id>>
        /\ x.pc \in InRender => x.agent # Nil

\* A command has the names of its model among those it may touch, whatever
\* becomes of the entry.
TouchOf(x, f) ==
    /\ x.mixed \subseteq x.touched
    /\ x.pc = "idle" => x.touched = {}
    /\ x.pc # "idle" /\ x.cmd.op = "sync" => x.touched = Name
    /\ x.pc # "idle" /\ x.cmd.op \in EditsFiles =>
          NamesFor(f, x.cmd.id) \cup ({x.agent} \ {Nil}) \subseteq x.touched

\* What a command that asked for a valid registry may still rely on.
CheckedOf(x, f) ==
    x.pc \notin {"idle", "registry"} /\ x.cmd.op \notin {"add", "roles", "context", "oversize"} =>
        /\ NoDup(f)
        /\ \A n \in Own(x) : Unshared(f, n)

\* The file an entry wants for one of its names.
Wanted(e, n) ==
    IF agent_for(e) = n THEN Rendered(e, "bulk-read")
    ELSE IF "code-write" \in e.roles THEN Rendered(e, "code-write")
    ELSE Nil

\* What a command that renders files read of its entry, and wrote of it.
RenderOf(x, f, a) ==
    LET id == Head(x.todo)
        w == code_writer_agent_for(id)
    IN  x.pc \in InRender =>
        /\ x.agent \in Own(x) => \E e \in entries(f) : e.id = id /\ agent_for(e) = x.agent
        /\ w \in Own(x) => id \in ids(f)
        /\ \A e \in entries(f) : e.id = id /\ NoDup(f) /\ NamesOf(e) \cap Own(x) # {} =>
              /\ x.agent = agent_for(e)
              /\ x.code <=> "code-write" \in e.roles
              /\ x.pc = "bulkwrite" => x.block = thinking_block(e, "bulk-read")
              /\ x.pc = "writerwrite" => x.block = thinking_block(e, "code-write")
              /\ x.pc \in {"writer", "writerwrite"} /\ agent_for(e) \in Own(x) =>
                    a[agent_for(e)] = Rendered(e, "bulk-read")
        /\ x.pc \in {"writer", "writerwrite"} /\ x.agent \in Own(x) => a[x.agent].model = id
        /\ x.pc = "writerwrite" => x.spare \cap Own(x) = bulk_agents(f) \cap Own(x)

\* sync has brought in line what it is through with.
SyncOf(x, f, a) ==
    x.pc \in InLoop /\ x.cmd.op = "sync" =>
        \A e \in entries(f) : \A n \in NamesOf(e) \cap Own(x) :
            e.id \notin Range(x.todo) => a[n] = Wanted(e, n)

\* remove and the entry it removes.
RemoveOf(x, f, a) ==
    LET id == x.cmd.id
        w == code_writer_agent_for(id)
    IN  x.pc # "idle" /\ x.cmd.op = "remove" =>
        /\ x.pc \in {"agent", "lock", "save"} => (w \in Own(x) => id \in ids(f))
        /\ x.pc \in {"lock", "save"} =>
              /\ x.agent \in Own(x) => \E e \in entries(f) : e.id = id /\ agent_for(e) = x.agent
              /\ \A e \in entries(f) : e.id = id /\ NamesOf(e) \cap Own(x) # {} => x.agent = agent_for(e)
        /\ x.pc \in Cleaning =>
              \A n \in {x.agent, w} \cap Own(x) : \A e \in entries(f) : n \notin NamesOf(e)
        /\ x.pc \in {"unlinkwriter", "clear"} /\ x.agent \in Own(x) => a[x.agent] = Nil
        /\ x.pc = "clear" /\ w \in Own(x) => a[w] = Nil

\* All of it: what a command may rely on while others are at work.
ViewOf(x, f, a) ==
    /\ TouchOf(x, f) /\ CheckedOf(x, f)
    /\ RenderOf(x, f, a) /\ SyncOf(x, f, a) /\ RemoveOf(x, f, a)

\* The names of the files a command has still to bring in line.
Pending(x, f) ==
    {n \in Name :
        \/ x.pc \in InLoop /\ \E e \in entries(f) : e.id \in Range(x.todo) /\ n \in NamesOf(e)
        \/ x.pc = "unlink" /\ n \in {x.agent, code_writer_agent_for(x.cmd.id)}
        \/ x.pc = "unlinkwriter" /\ n = code_writer_agent_for(x.cmd.id)}

\* The file of a name is what the entries that bear it want.
Right(f, a, n) ==
    /\ \A e \in entries(f) : n \in NamesOf(e) => a[n] = Wanted(e, n)
    /\ (\A e \in entries(f) : n \notin NamesOf(e)) => a[n] = Nil

\* The file of a name, if there is one, is one of a model that bears it.
Owned(f, a, n) ==
    a[n] # Nil => \E e \in entries(f) : e.id = a[n].model /\ n \in NamesOf(e)

\* Who holds the lock has a copy of the document as it is.
LockInv ==
    \A p \in Proc : /\ proc[p].pc = "save" => proc[p].doc = file
                    /\ proc[p].pc = "save" <=> lock = p

\* Every command is where it may be and right about its own names.
ViewInv == \A p \in Proc : PlaceOf(proc[p]) /\ ViewOf(proc[p], file, agents)

\* Two commands know the names they have in common, and so does the history.
SharedInv ==
    \A p \in Proc :
        /\ proc[p].mixed \subseteq stale
        /\ \A q \in Proc : p # q => proc[p].touched \cap proc[q].touched \subseteq proc[p].mixed

\* What no command was stopped at and none has still to bring in line is right.
FileInv ==
    NoDup(file) => \A n \in Name \ stale :
        Unshared(file, n) /\ (\A p \in Proc : n \notin Pending(proc[p], file)) => Right(file, agents, n)

\* A file belongs to a model that bears its name, until a removal gets to it.
OwnedInv ==
    \A n \in Name \ stale :
        (\A p \in Proc : proc[p].pc \in Cleaning => n \notin Pending(proc[p], file)) => Owned(file, agents, n)

\* Breaker state belongs to a model, or a removal will clear or missed it.
CountInv ==
    \A id \in failing :
        \/ id \in ids(file) \cup late
        \/ \E p \in Proc : proc[p].pc \in Cleaning /\ proc[p].cmd.op = "remove" /\ proc[p].cmd.id = id

(***************************************************************************)
(* A view is carried over the steps of others                              *)
(***************************************************************************)

\* To who looks at the names in N, the two documents are the same.
Same(f, g, N) ==
    /\ \A e \in entries(g) : NamesOf(e) \cap N # {} => \E d \in entries(f) : Agree(d, e)
    /\ \A d \in entries(f) : NamesOf(d) \cap N # {} => \E e \in entries(g) : Agree(d, e)
    /\ bulk_agents(g) \cap N = bulk_agents(f) \cap N
    /\ NoDup(f) <=> NoDup(g)

\* Entries that agree want the same files.
LEMMA AgreeFacts ==
    ASSUME NEW d, NEW e, Agree(d, e)
    PROVE  /\ e.id = d.id /\ agent_for(e) = agent_for(d) /\ NamesOf(e) = NamesOf(d)
           /\ e.roles = d.roles
           /\ \A r : thinking_block(e, r) = thinking_block(d, r)
           /\ \A n : Wanted(e, n) = Wanted(d, n)
           /\ Rendered(e, "bulk-read") = Rendered(d, "bulk-read")
<1>1. e.id = d.id /\ agent_for(e) = agent_for(d) /\ NamesOf(e) = NamesOf(d) /\ e.roles = d.roles
  BY DEF Agree, agent_for, NamesOf
<1>2. \A r : thinking_block(e, r) = thinking_block(d, r)
  BY DEF Agree, thinking_block, effective_thinking
<1>3. \A r : Rendered(e, r) = Rendered(d, r)
  BY <1>1, <1>2 DEF Rendered
<1>4. \A n : Wanted(e, n) = Wanted(d, n)
  BY <1>1, <1>3 DEF Wanted
<1>. QED
  BY <1>1, <1>2, <1>3, <1>4

\* An edit is invisible on names that no entry of its id bears.
LEMMA EditSame ==
    ASSUME NEW cmd, NEW f \in Document \cup {NoRegistry}, NEW g, EditRelates(cmd, f, g), NEW N,
           cmd.op \in EditsFiles => \A e \in entries(f) \cup entries(g) : e.id = cmd.id => NamesOf(e) \cap N = {}
    PROVE  Same(f, g, N)
<1>1. \A e : Agree(e, e)
  BY DEF Agree
<1>2. g \in Document \cup {NoRegistry}
  BY DEF EditRelates
<1>3. ASSUME NEW e \in entries(g), NamesOf(e) \cap N # {}
      PROVE  \E d \in entries(f) : Agree(d, e)
  BY <1>1, <1>3 DEF EditRelates
<1>4. ASSUME NEW d \in entries(f), NamesOf(d) \cap N # {}
      PROVE  \E e \in entries(g) : Agree(d, e)
  BY <1>1, <1>4 DEF EditRelates
<1>5. ASSUME NEW n \in bulk_agents(f) \cap N
      PROVE  n \in bulk_agents(g)
  <2>1. PICK id \in ids(f) : n = agent_for(EntryOf(f, id))
    BY <1>5 DEF bulk_agents
  <2>2. EntryOf(f, id) \in entries(f) /\ EntryOf(f, id).id = id /\ n \in NamesOf(EntryOf(f, id))
    BY <2>1, EntryOfFacts DEF NamesOf
  <2>3. id \in ids(g)
    <3>1. PICK e \in entries(g) : Agree(EntryOf(f, id), e)
      BY <1>4, <1>5, <2>2
    <3>. QED
      BY <2>2, <3>1, AgreeFacts DEF ids
  <2>. QED
    BY <2>1, <2>3 DEF EditRelates, bulk_agents
<1>6. ASSUME NEW n \in bulk_agents(g) \cap N
      PROVE  n \in bulk_agents(f)
  <2>1. PICK id \in ids(g) : n = agent_for(EntryOf(g, id))
    BY <1>6 DEF bulk_agents
  <2>2. EntryOf(g, id) \in entries(g) /\ EntryOf(g, id).id = id /\ n \in NamesOf(EntryOf(g, id))
    BY <1>2, <2>1, EntryOfFacts DEF NamesOf
  <2>3. id \in ids(f)
    <3>1. PICK d \in entries(f) : Agree(d, EntryOf(g, id))
      BY <1>3, <1>6, <2>2
    <3>. QED
      BY <2>2, <3>1, AgreeFacts DEF ids
  <2>. QED
    BY <2>1, <2>3 DEF EditRelates, bulk_agents
<1>7. NoDup(f) <=> NoDup(g)
  BY DEF EditRelates
<1>. QED
  BY <1>3, <1>4, <1>5, <1>6, <1>7 DEF Same

\* What is said of one name is the same of documents that are the same on it.
LEMMA SameFacts ==
    ASSUME NEW f, NEW g, NEW N, Same(f, g, N), NEW n \in N
    PROVE  /\ Unshared(f, n) <=> Unshared(g, n)
           /\ \A a : Right(f, a, n) <=> Right(g, a, n)
           /\ \A a : Owned(f, a, n) <=> Owned(g, a, n)
           /\ \A x : n \in Pending(x, f) <=> n \in Pending(x, g)
<1>1. \A e \in entries(g) : n \in NamesOf(e) =>
          \E d \in entries(f) : /\ e.id = d.id /\ agent_for(e) = agent_for(d) /\ NamesOf(e) = NamesOf(d)
                                /\ Wanted(e, n) = Wanted(d, n)
  <2>. SUFFICES ASSUME NEW e \in entries(g), n \in NamesOf(e)
                PROVE  \E d \in entries(f) :
                          /\ e.id = d.id /\ agent_for(e) = agent_for(d) /\ NamesOf(e) = NamesOf(d)
                          /\ Wanted(e, n) = Wanted(d, n)
    OBVIOUS
  <2>1. PICK d \in entries(f) : Agree(d, e)
    BY DEF Same
  <2>. QED
    BY <2>1, AgreeFacts
<1>2. \A d \in entries(f) : n \in NamesOf(d) =>
          \E e \in entries(g) : /\ e.id = d.id /\ agent_for(e) = agent_for(d) /\ NamesOf(e) = NamesOf(d)
                                /\ Wanted(e, n) = Wanted(d, n)
  <2>. SUFFICES ASSUME NEW d \in entries(f), n \in NamesOf(d)
                PROVE  \E e \in entries(g) :
                          /\ e.id = d.id /\ agent_for(e) = agent_for(d) /\ NamesOf(e) = NamesOf(d)
                          /\ Wanted(e, n) = Wanted(d, n)
    OBVIOUS
  <2>1. PICK e \in entries(g) : Agree(d, e)
    BY DEF Same
  <2>. QED
    BY <2>1, AgreeFacts
<1>3. Unshared(f, n) <=> Unshared(g, n)
  <2>1. Unshared(f, n) => Unshared(g, n)
    BY <1>1 DEF Unshared
  <2>2. Unshared(g, n) => Unshared(f, n)
    BY <1>2 DEF Unshared
  <2>. QED
    BY <2>1, <2>2
<1>4. ASSUME NEW a PROVE Right(f, a, n) <=> Right(g, a, n)
  <2>1. Right(f, a, n) => Right(g, a, n)
    BY <1>1, <1>2 DEF Right
  <2>2. Right(g, a, n) => Right(f, a, n)
    BY <1>1, <1>2 DEF Right
  <2>. QED
    BY <2>1, <2>2
<1>5. ASSUME NEW a PROVE Owned(f, a, n) <=> Owned(g, a, n)
  BY <1>1, <1>2 DEF Owned
<1>6. ASSUME NEW x PROVE n \in Pending(x, f) <=> n \in Pending(x, g)
  BY <1>1, <1>2 DEF Pending
<1>. QED
  BY <1>3, <1>4, <1>5, <1>6

\* The names an id has in a document only become fewer.
LEMMA NamesShrink ==
    ASSUME NEW cmd, NEW f, NEW g, EditRelates(cmd, f, g), NEW id
    PROVE  NamesFor(g, id) \subseteq NamesFor(f, id)
<1>. SUFFICES ASSUME NEW e \in entries(g), e.id = id
              PROVE  agent_for(e) \in NamesFor(f, id)
  BY DEF NamesFor
<1>1. CASE id = cmd.id
  BY <1>1 DEF EditRelates, NamesOf
<1>2. CASE id # cmd.id
  BY <1>2 DEF EditRelates, NamesFor
<1>. QED
  BY <1>1, <1>2

\* An edit that is invisible on a command's own names leaves it its view.
LEMMA ViewOfSame ==
    ASSUME NEW x, NEW f, NEW g, NEW a, ViewOf(x, f, a), Same(f, g, Own(x)),
           \A id : NamesFor(g, id) \subseteq NamesFor(f, id)
    PROVE  ViewOf(x, g, a)
<1>. DEFINE id == Head(x.todo)
            w == code_writer_agent_for(id)
            rid == x.cmd.id
            rw == code_writer_agent_for(rid)
<1>1. ASSUME NEW e \in entries(g), NamesOf(e) \cap Own(x) # {}
      PROVE  \E d \in entries(f) : /\ Agree(d, e) /\ e.id = d.id /\ agent_for(e) = agent_for(d)
                                   /\ NamesOf(e) = NamesOf(d)
  <2>1. PICK d \in entries(f) : Agree(d, e)
    BY <1>1 DEF Same
  <2>. QED
    BY <2>1, AgreeFacts
<1>2. ASSUME NEW d \in entries(f), NamesOf(d) \cap Own(x) # {}
      PROVE  \E e \in entries(g) : e.id = d.id /\ agent_for(e) = agent_for(d) /\ NamesOf(e) = NamesOf(d)
  <2>1. PICK e \in entries(g) : Agree(d, e)
    BY <1>2 DEF Same
  <2>. QED
    BY <2>1, AgreeFacts
<1>3. ASSUME NEW i, i \in ids(f), code_writer_agent_for(i) \in Own(x)
      PROVE  i \in ids(g)
  <2>1. PICK d \in entries(f) : d.id = i
    BY <1>3 DEF ids
  <2>2. code_writer_agent_for(i) \in NamesOf(d)
    BY <2>1 DEF NamesOf
  <2>. QED
    BY <1>2, <1>3, <2>1, <2>2 DEF ids
<1>4. ASSUME NEW i, x.agent \in Own(x), \E d \in entries(f) : d.id = i /\ agent_for(d) = x.agent
      PROVE  \E e \in entries(g) : e.id = i /\ agent_for(e) = x.agent
  <2>1. PICK d \in entries(f) : d.id = i /\ agent_for(d) = x.agent
    BY <1>4
  <2>2. x.agent \in NamesOf(d)
    BY <2>1 DEF NamesOf
  <2>. QED
    BY <1>2, <1>4, <2>1, <2>2
<1>5. NoDup(f) <=> NoDup(g)
  BY DEF Same
<1>6. TouchOf(x, g)
  BY DEF ViewOf, TouchOf
<1>7. CheckedOf(x, g)
  <2>1. \A n \in Own(x) : Unshared(f, n) <=> Unshared(g, n)
    BY SameFacts
  <2>. QED
    BY <1>5, <2>1 DEF ViewOf, CheckedOf
<1>8. RenderOf(x, g, a)
  <2>. SUFFICES ASSUME x.pc \in InRender
                PROVE  RenderOf(x, g, a)
    BY DEF RenderOf
  <2>1. RenderOf(x, f, a)
    BY DEF ViewOf
  <2>2. x.agent \in Own(x) => \E e \in entries(g) : e.id = id /\ agent_for(e) = x.agent
    BY <1>4, <2>1 DEF RenderOf
  <2>3. w \in Own(x) => id \in ids(g)
    BY <1>3, <2>1 DEF RenderOf
  <2>4. ASSUME NEW e \in entries(g), e.id = id, NoDup(g), NamesOf(e) \cap Own(x) # {}
        PROVE  /\ x.agent = agent_for(e)
               /\ x.code <=> "code-write" \in e.roles
               /\ x.pc = "bulkwrite" => x.block = thinking_block(e, "bulk-read")
               /\ x.pc = "writerwrite" => x.block = thinking_block(e, "code-write")
               /\ x.pc \in {"writer", "writerwrite"} /\ agent_for(e) \in Own(x) =>
                     a[agent_for(e)] = Rendered(e, "bulk-read")
    <3>1. PICK d \in entries(f) : /\ Agree(d, e) /\ e.id = d.id /\ agent_for(e) = agent_for(d)
                                  /\ NamesOf(e) = NamesOf(d)
      BY <1>1, <2>4
    <3>2. /\ x.agent = agent_for(d)
          /\ x.code <=> "code-write" \in d.roles
          /\ x.pc = "bulkwrite" => x.block = thinking_block(d, "bulk-read")
          /\ x.pc = "writerwrite" => x.block = thinking_block(d, "code-write")
          /\ x.pc \in {"writer", "writerwrite"} /\ agent_for(d) \in Own(x) =>
                a[agent_for(d)] = Rendered(d, "bulk-read")
      BY <1>5, <2>1, <2>4, <3>1 DEF RenderOf
    <3>3. /\ e.roles = d.roles /\ Rendered(e, "bulk-read") = Rendered(d, "bulk-read")
          /\ thinking_block(e, "bulk-read") = thinking_block(d, "bulk-read")
          /\ thinking_block(e, "code-write") = thinking_block(d, "code-write")
      BY <3>1, AgreeFacts
    <3>. QED
      BY <3>1, <3>2, <3>3
  <2>5. x.pc = "writerwrite" => x.spare \cap Own(x) = bulk_agents(g) \cap Own(x)
    BY <2>1 DEF RenderOf, Same
  <2>6. x.pc \in {"writer", "writerwrite"} /\ x.agent \in Own(x) => a[x.agent].model = id
    BY <2>1 DEF RenderOf
  <2>. QED
    BY <2>2, <2>3, <2>4, <2>5, <2>6 DEF RenderOf
<1>9. SyncOf(x, g, a)
  <2>. SUFFICES ASSUME x.pc \in InLoop, x.cmd.op = "sync", NEW e \in entries(g),
                       NEW n \in NamesOf(e) \cap Own(x), e.id \notin Range(x.todo)
                PROVE  a[n] = Wanted(e, n)
    BY DEF SyncOf
  <2>1. PICK d \in entries(f) : Agree(d, e) /\ e.id = d.id /\ NamesOf(e) = NamesOf(d)
    BY <1>1
  <2>2. Wanted(e, n) = Wanted(d, n)
    BY <2>1, AgreeFacts
  <2>. QED
    BY <2>1, <2>2 DEF ViewOf, SyncOf
<1>10. RemoveOf(x, g, a)
  <2>. SUFFICES ASSUME x.pc # "idle", x.cmd.op = "remove"
                PROVE  RemoveOf(x, g, a)
    BY DEF RemoveOf
  <2>1. RemoveOf(x, f, a)
    BY DEF ViewOf
  <2>2. x.pc \in {"agent", "lock", "save"} => (rw \in Own(x) => rid \in ids(g))
    BY <1>3, <2>1 DEF RemoveOf
  <2>3. x.pc \in {"lock", "save"} /\ x.agent \in Own(x) =>
            \E e \in entries(g) : e.id = rid /\ agent_for(e) = x.agent
    BY <1>4, <2>1 DEF RemoveOf
  <2>4. x.pc \in {"lock", "save"} =>
            \A e \in entries(g) : e.id = rid /\ NamesOf(e) \cap Own(x) # {} => x.agent = agent_for(e)
    BY <1>1, <2>1 DEF RemoveOf
  <2>5. x.pc \in Cleaning =>
            \A n \in {x.agent, rw} \cap Own(x) : \A e \in entries(g) : n \notin NamesOf(e)
    BY <1>1, <2>1 DEF RemoveOf
  <2>6. /\ x.pc \in {"unlinkwriter", "clear"} /\ x.agent \in Own(x) => a[x.agent] = Nil
        /\ x.pc = "clear" /\ rw \in Own(x) => a[rw] = Nil
    BY <2>1 DEF RemoveOf
  <2>. QED
    BY <2>2, <2>3, <2>4, <2>5, <2>6 DEF RemoveOf
<1>. QED
  BY <1>6, <1>7, <1>8, <1>9, <1>10 DEF ViewOf

\* So does a change of files that are not its own.
LEMMA ViewOfAgents ==
    ASSUME NEW x, NEW f, NEW a, NEW b, ViewOf(x, f, a), \A n \in Own(x) : b[n] = a[n]
    PROVE  ViewOf(x, f, b)
<1>1. RenderOf(x, f, b)
  <2>1. RenderOf(x, f, a)
    BY DEF ViewOf
  <2>. QED
    BY <2>1 DEF RenderOf
<1>2. SyncOf(x, f, b)
  BY DEF ViewOf, SyncOf
<1>3. RemoveOf(x, f, b)
  <2>1. RemoveOf(x, f, a)
    BY DEF ViewOf
  <2>. QED
    BY <2>1 DEF RemoveOf
<1>. QED
  BY <1>1, <1>2, <1>3 DEF ViewOf

\* And it may learn of more names that they are not its own alone.
LEMMA ViewShrinks ==
    ASSUME NEW x, NEW y, NEW f, NEW a, ViewOf(x, f, a),
           y.pc = x.pc, y.cmd = x.cmd, y.todo = x.todo, y.agent = x.agent, y.code = x.code,
           y.block = x.block, y.spare = x.spare, y.touched = x.touched,
           x.mixed \subseteq y.mixed, y.mixed \subseteq x.touched
    PROVE  ViewOf(y, f, a)
<1>1. Own(y) \subseteq Own(x)
  BY DEF Own
<1>2. TouchOf(y, f)
  BY DEF ViewOf, TouchOf
<1>3. CheckedOf(y, f)
  BY <1>1 DEF ViewOf, CheckedOf
<1>4. RenderOf(y, f, a)
  <2>1. RenderOf(x, f, a)
    BY DEF ViewOf
  <2>. QED
    BY <1>1, <2>1 DEF RenderOf
<1>5. SyncOf(y, f, a)
  BY <1>1 DEF ViewOf, SyncOf
<1>6. RemoveOf(y, f, a)
  <2>1. RemoveOf(x, f, a)
    BY DEF ViewOf
  <2>. QED
    BY <1>1, <2>1 DEF RemoveOf
<1>. QED
  BY <1>2, <1>3, <1>4, <1>5, <1>6 DEF ViewOf

(***************************************************************************)
(* Steps of one command                                                    *)
(***************************************************************************)

\* The records of commands.
Rec == [pc : Pcs, cmd : Commands \cup {Nil}, doc : Document \cup {NoRegistry, Nil},
        todo : Seq(Id), agent : Name \cup {Nil}, code : BOOLEAN,
        block : Option \cup {Nil}, spare : SUBSET Name,
        touched : SUBSET Name, mixed : SUBSET Name]

\* The part of the type invariant the others rest on.
Typed ==
    /\ file \in Document \cup {NoRegistry} /\ DOMAIN agents = Name
    /\ lock \in Proc \cup {NoProc} /\ proc \in [Proc -> Rec] /\ stale \subseteq Name
    /\ \A p \in Proc : Active(p) => proc[p].cmd \in Commands

IInv ==
    /\ Typed /\ LockInv /\ ViewInv /\ SharedInv
    /\ FileInv /\ OwnedInv /\ CountInv

\* What a command has still to bring in line it has among its names.
LEMMA PendingTouched ==
    ASSUME NEW x, NEW f, PlaceOf(x), TouchOf(x, f)
    PROVE  Pending(x, f) \subseteq x.touched
<1>. SUFFICES ASSUME NEW n \in Name, n \in Pending(x, f)
              PROVE  n \in x.touched
  BY DEF Pending
<1>0. n # Nil
  BY NamesAreNames
<1>1. CASE /\ x.pc \in InLoop
           /\ \E e \in entries(f) : e.id \in Range(x.todo) /\ n \in NamesOf(e)
  <2>1. x.pc # "idle" /\ x.cmd.op \in {"add", "thinking", "roles", "sync"}
    BY <1>1 DEF PlaceOf, InLoop
  <2>2. CASE x.cmd.op = "sync"
    BY <2>1, <2>2 DEF TouchOf
  <2>3. CASE x.cmd.op # "sync"
    <3>1. x.todo = <<x.cmd.id>>
      BY <1>1, <2>3 DEF PlaceOf
    <3>2. Range(x.todo) = {x.cmd.id}
      BY <3>1 DEF Range
    <3>3. n \in NamesFor(f, x.cmd.id)
      BY <1>1, <3>2 DEF NamesOf, NamesFor
    <3>. QED
      BY <2>1, <2>3, <3>3 DEF TouchOf, EditsFiles
  <2>. QED
    BY <2>2, <2>3
<1>2. CASE x.pc = "unlink" /\ n \in {x.agent, code_writer_agent_for(x.cmd.id)}
  BY <1>0, <1>2 DEF PlaceOf, TouchOf, EditsFiles, NamesFor
<1>3. CASE x.pc = "unlinkwriter" /\ n = code_writer_agent_for(x.cmd.id)
  BY <1>3 DEF PlaceOf, TouchOf, EditsFiles, NamesFor
<1>. QED
  BY <1>1, <1>2, <1>3 DEF Pending

\* What there is to show of a step that changes the record of one command
\* from x to y and files of its names at most.
LEMMA StepKeeps ==
    ASSUME IInv, NEW p \in Proc, NEW x, x = proc[p], NEW y \in Rec,
           proc' = [proc EXCEPT ![p] = y], file' = file,
           DOMAIN agents' = Name, lock' \in Proc \cup {NoProc}, stale' \subseteq Name,
           \A n : n \notin x.touched => agents'[n] = agents[n],
           y.pc # "idle" => y.cmd \in Commands,
           y.touched \in {{}, x.touched}, y.mixed \in {{}, x.mixed}, y.mixed \subseteq stale',
           y.touched = x.touched => y.mixed = x.mixed,
           stale \subseteq stale' \cup Own(x),
           y.pc = "save" => y.doc = file, y.pc = "save" <=> lock' = p,
           \A q \in Proc : q # p => (lock' = q <=> lock = q),
           PlaceOf(y), ViewOf(y, file, agents'),
           \A n \in x.touched \ stale' :
              NoDup(file) /\ Unshared(file, n) /\ n \notin Pending(y, file) =>
                 \/ Right(file, agents', n)
                 \/ n \notin stale /\ n \notin Pending(x, file) /\ agents'[n] = agents[n],
           \A n \in x.touched \ stale' :
              (y.pc \in Cleaning => n \notin Pending(y, file)) =>
                 \/ Owned(file, agents', n)
                 \/ /\ n \notin stale /\ (x.pc \in Cleaning => n \notin Pending(x, file))
                    /\ agents'[n] = agents[n],
           CountInv'
    PROVE  IInv'
<1>1. /\ proc \in [Proc -> Rec] /\ x \in Rec /\ DOMAIN agents = Name /\ stale \subseteq Name
      /\ file \in Document \cup {NoRegistry}
  BY DEF IInv, Typed
<1>2. proc'[p] = y /\ \A q \in Proc : q # p => proc'[q] = proc[q]
  BY <1>1
<1>3. \A q \in Proc : proc[q].mixed \subseteq proc[q].touched
  BY DEF IInv, ViewInv, ViewOf, TouchOf
<1>4. Pending(x, file) \subseteq x.touched /\ x.mixed \subseteq x.touched
  BY PendingTouched DEF IInv, ViewInv, ViewOf, TouchOf
<1>5. \A q \in Proc : q # p => x.touched \cap proc[q].touched \subseteq proc[q].mixed
                               /\ x.touched \cap proc[q].touched \subseteq x.mixed
  BY DEF IInv, SharedInv
<1>6. Typed'
  <2>1. proc' \in [Proc -> Rec]
    BY <1>1
  <2>2. \A q \in Proc : Active(q)' => proc'[q].cmd \in Commands
    BY <1>2 DEF IInv, Typed, Active
  <2>. QED
    BY <1>1, <2>1, <2>2 DEF Typed
<1>7. LockInv'
  BY <1>2 DEF IInv, LockInv
<1>8. ViewInv'
  <2>. SUFFICES ASSUME NEW q \in Proc, q # p
                PROVE  ViewOf(proc[q], file, agents')
    BY <1>2 DEF IInv, ViewInv
  <2>1. ViewOf(proc[q], file, agents)
    BY DEF IInv, ViewInv
  <2>2. \A n \in Own(proc[q]) : agents'[n] = agents[n]
    BY <1>5 DEF Own
  <2>. QED
    BY <2>1, <2>2, ViewOfAgents
<1>9. SharedInv'
  <2>1. \A q \in Proc : q # p => proc[q].mixed \subseteq stale'
    <3>. SUFFICES ASSUME NEW q \in Proc, q # p, NEW n \in proc[q].mixed
                  PROVE  n \in stale'
      OBVIOUS
    <3>1. n \in stale /\ n \in proc[q].touched
      BY <1>3 DEF IInv, SharedInv
    <3>2. n \notin Own(x)
      BY <1>5, <3>1 DEF Own
    <3>. QED
      BY <3>1, <3>2
  <2>2. ASSUME NEW q \in Proc, NEW r \in Proc, q # r
        PROVE  proc'[q].touched \cap proc'[r].touched \subseteq proc'[q].mixed
    <3>1. CASE q = p
      BY <1>2, <1>5, <2>2, <3>1
    <3>2. CASE r = p
      BY <1>2, <1>5, <2>2, <3>2
    <3>3. CASE q # p /\ r # p
      BY <1>2, <2>2, <3>3 DEF IInv, SharedInv
    <3>. QED
      BY <3>1, <3>2, <3>3
  <2>3. \A q \in Proc : proc'[q].mixed \subseteq stale'
    BY <1>2, <2>1
  <2>. QED
    BY <2>2, <2>3 DEF SharedInv
<1>10. ASSUME NEW n \in Name \ stale', n \notin x.touched
       PROVE  n \notin stale /\ n \notin Pending(x, file) /\ agents'[n] = agents[n]
  BY <1>4, <1>10 DEF Own
<1>11. FileInv'
  <2>. SUFFICES ASSUME NoDup(file), NEW n \in Name \ stale', Unshared(file, n),
                       \A q \in Proc : n \notin Pending(proc'[q], file)
                PROVE  Right(file, agents', n)
    BY DEF FileInv
  <2>1. n \notin Pending(y, file)
    BY <1>2
  <2>2. \/ Right(file, agents', n)
        \/ n \notin stale /\ n \notin Pending(x, file) /\ agents'[n] = agents[n]
    BY <1>10, <2>1
  <2>3. ASSUME n \notin stale /\ n \notin Pending(x, file) /\ agents'[n] = agents[n]
        PROVE  Right(file, agents', n)
    <3>1. \A q \in Proc : n \notin Pending(proc[q], file)
      BY <1>2, <2>3
    <3>2. Right(file, agents, n)
      BY <2>3, <3>1 DEF IInv, FileInv
    <3>. QED
      BY <2>3, <3>2 DEF Right
  <2>. QED
    BY <2>2, <2>3
<1>12. OwnedInv'
  <2>. SUFFICES ASSUME NEW n \in Name \ stale',
                       \A q \in Proc : proc'[q].pc \in Cleaning => n \notin Pending(proc'[q], file)
                PROVE  Owned(file, agents', n)
    BY DEF OwnedInv
  <2>1. y.pc \in Cleaning => n \notin Pending(y, file)
    BY <1>2
  <2>2. \/ Owned(file, agents', n)
        \/ /\ n \notin stale /\ (x.pc \in Cleaning => n \notin Pending(x, file))
           /\ agents'[n] = agents[n]
    BY <1>10, <2>1
  <2>3. ASSUME /\ n \notin stale /\ (x.pc \in Cleaning => n \notin Pending(x, file))
               /\ agents'[n] = agents[n]
        PROVE  Owned(file, agents', n)
    <3>1. \A q \in Proc : proc[q].pc \in Cleaning => n \notin Pending(proc[q], file)
      BY <1>2, <2>3
    <3>2. Owned(file, agents, n)
      BY <2>3, <3>1 DEF IInv, OwnedInv
    <3>. QED
      BY <2>3, <3>2 DEF Owned
  <2>. QED
    BY <2>2, <2>3
<1>. QED
  BY <1>6, <1>7, <1>8, <1>9, <1>11, <1>12 DEF IInv

\* A command that is over has nothing to rely on and nothing pending.
LEMMA IdleFacts ==
    ASSUME NEW f, NEW a
    PROVE  /\ Idle \in Rec /\ Idle.pc = "idle" /\ Idle.touched = {} /\ Idle.mixed = {}
           /\ PlaceOf(Idle) /\ ViewOf(Idle, f, a) /\ Pending(Idle, f) = {}
<1>1. /\ Idle.pc = "idle" /\ Idle.touched = {} /\ Idle.mixed = {} /\ Idle.cmd = Nil /\ Idle.doc = Nil
      /\ Idle.todo = <<>> /\ Idle.agent = Nil /\ Idle.code = FALSE /\ Idle.block = Nil /\ Idle.spare = {}
  BY DEF Idle
<1>2. Idle \in Rec
  BY DEF Idle, Rec, Pcs
<1>3. PlaceOf(Idle)
  BY <1>1 DEF PlaceOf, InLoop, InRender
<1>4. TouchOf(Idle, f) /\ CheckedOf(Idle, f)
  BY <1>1 DEF TouchOf, CheckedOf
<1>5. RenderOf(Idle, f, a) /\ SyncOf(Idle, f, a) /\ RemoveOf(Idle, f, a)
  BY <1>1 DEF RenderOf, SyncOf, RemoveOf, InRender, InLoop
<1>6. Pending(Idle, f) = {}
  BY <1>1 DEF Pending, InLoop
<1>. QED
  BY <1>1, <1>2, <1>3, <1>4, <1>5, <1>6 DEF ViewOf

\* The count of a model stays explained if no removal of it is forgotten.
LEMMA CountKept ==
    ASSUME CountInv, NEW p \in Proc, NEW y, proc \in [Proc -> Rec], proc' = [proc EXCEPT ![p] = y],
           file' = file, failing' = failing, late' = late,
           proc[p].pc \in Cleaning /\ proc[p].cmd.op = "remove" => y.pc \in Cleaning /\ y.cmd = proc[p].cmd
    PROVE  CountInv'
<1>1. proc'[p] = y /\ \A q \in Proc : q # p => proc'[q] = proc[q]
  OBVIOUS
<1>. SUFFICES ASSUME NEW id \in failing, id \notin ids(file) \cup late
              PROVE  \E q \in Proc : proc'[q].pc \in Cleaning /\ proc'[q].cmd.op = "remove" /\ proc'[q].cmd.id = id
  BY DEF CountInv
<1>2. PICK q \in Proc : proc[q].pc \in Cleaning /\ proc[q].cmd.op = "remove" /\ proc[q].cmd.id = id
  BY DEF CountInv
<1>. QED
  BY <1>1, <1>2

\* A step that writes nothing: a question to the registry, or taking the lock.
LEMMA QuietKeeps ==
    ASSUME IInv, NEW p \in Proc, NEW x, x = proc[p], NEW y \in Rec,
           proc' = [proc EXCEPT ![p] = y], UNCHANGED <<file, agents, failing, stale, late>>,
           lock' \in Proc \cup {NoProc},
           x.pc \notin {"idle"} \cup Cleaning, y.pc \notin {"idle"} \cup Cleaning,
           y.cmd = x.cmd, y.touched = x.touched, y.mixed = x.mixed,
           y.agent # x.agent => x.cmd.op = "sync" \/ y.agent \in NamesFor(file, x.cmd.id) \cup {Nil},
           y.pc = "save" => y.doc = file, y.pc = "save" <=> lock' = p,
           \A q \in Proc : q # p => (lock' = q <=> lock = q),
           x.pc = "registry" => NoDup(file) /\ \A n \in Own(x) : Unshared(file, n),
           x.pc \in InLoop => y.pc \in InLoop /\ y.todo = x.todo,
           x.pc \notin InLoop => SyncOf(y, file, agents),
           PlaceOf(y), RenderOf(y, file, agents), RemoveOf(y, file, agents)
    PROVE  IInv'
<1>1. /\ proc \in [Proc -> Rec] /\ x \in Rec /\ DOMAIN agents = Name /\ stale \subseteq Name
      /\ x.cmd \in Commands /\ file \in Document \cup {NoRegistry}
  BY DEF IInv, Typed, Active
<1>2. ViewOf(x, file, agents) /\ PlaceOf(x) /\ x.mixed \subseteq stale
  BY DEF IInv, ViewInv, SharedInv
<1>3. Own(y) = Own(x)
  BY DEF Own
<1>4. TouchOf(y, file)
  <2>1. y.agent \in Name \cup {Nil}
    BY DEF Rec
  <2>. QED
    BY <1>2, <2>1 DEF ViewOf, TouchOf
<1>5. CheckedOf(y, file)
  BY <1>2, <1>3 DEF ViewOf, CheckedOf
<1>6. SyncOf(y, file, agents)
  <2>1. CASE x.pc \in InLoop
    BY <1>2, <1>3, <2>1 DEF ViewOf, SyncOf
  <2>. QED
    BY <2>1
<1>7. ViewOf(y, file, agents)
  BY <1>4, <1>5, <1>6 DEF ViewOf
<1>8. Pending(x, file) \subseteq Pending(y, file)
  BY DEF Pending, Cleaning
<1>9. CountInv'
  BY <1>1, CountKept DEF IInv
<1>10. \A n \in x.touched \ stale' :
          /\ n \notin stale /\ agents'[n] = agents[n] /\ (x.pc \in Cleaning => n \notin Pending(x, file))
          /\ n \notin Pending(y, file) => n \notin Pending(x, file)
  BY <1>8
<1>. QED
  BY <1>1, <1>2, <1>7, <1>9, <1>10, StepKeeps

\* A command that goes to its next place.
LEMMA GoesOn ==
    ASSUME NEW x \in Rec, NEW c \in Pcs, NEW y, y = [x EXCEPT !.pc = c]
    PROVE  /\ y \in Rec /\ y.pc = c /\ y.agent = x.agent
           /\ y.cmd = x.cmd /\ y.todo = x.todo /\ y.touched = x.touched /\ y.mixed = x.mixed
BY DEF Rec

\* One that has written the file of the bulk reader.
LEMMA Written ==
    ASSUME NEW x \in Rec, NEW y, y = [x EXCEPT !.pc = "writer", !.block = Nil]
    PROVE  /\ y \in Rec /\ y.pc = "writer" /\ y.agent = x.agent /\ y.code = x.code
           /\ y.cmd = x.cmd /\ y.todo = x.todo /\ y.touched = x.touched /\ y.mixed = x.mixed
BY DEF Rec, Pcs, AtFiles

\* A registry in which no id counts twice has one entry per id.
LEMMA UniqueFacts ==
    ASSUME NEW f \in Document, ~duplicate_error(f)
    PROVE  NoDup(f)
<1>0. f.models \in Seq(Entry)
  BY DEF Document
<1>. SUFFICES ASSUME NEW i \in DOMAIN f.models, NEW j \in DOMAIN f.models,
                     f.models[i].id = f.models[j].id, i # j
              PROVE  FALSE
  BY DEF NoDup
<1>. DEFINE id == f.models[i].id
            I == Indices(f, id)
<1>1. f.models[i] \in Entry
  BY <1>0
<1>2. id \in Id
  BY <1>1 DEF Entry
<1>3. i \in I /\ j \in I /\ I \subseteq 1..Len(f.models) /\ Len(f.models) \in Nat
  BY <1>0 DEF Indices
<1>. HIDE DEF I
<1>4. IsFiniteSet(1..Len(f.models))
  <2>1. Len(f.models) \in Int /\ 1 \in Int
    BY <1>3
  <2>. QED
    BY <2>1, FS_Interval
<1>5. IsFiniteSet(I) /\ Cardinality(I) \in Nat
  BY <1>3, <1>4, FS_Subset, FS_CardinalityType
<1>6. ~(Cardinality(I) > 1)
  BY <1>2 DEF duplicate_error, I
<1>7. IsFiniteSet({i}) /\ Cardinality({i}) = 1
  BY FS_Singleton
<1>8. Cardinality({i} \cup {j}) = 2
  <2>1. j \notin {i}
    OBVIOUS
  <2>2. Cardinality({i} \cup {j}) = Cardinality({i}) + 1
    BY <1>7, <2>1, FS_AddElement
  <2>. QED
    BY <1>7, <2>2
<1>9. {i} \cup {j} \subseteq I
  BY <1>3
<1>10. Cardinality({i} \cup {j}) <= Cardinality(I)
  BY <1>5, <1>9, FS_Subset
<1>. QED
  BY <1>5, <1>6, <1>8, <1>10

\* What a registry that is valid as a whole rules out.
LEMMA AvailableFacts ==
    ASSUME NEW f \in Document \cup {NoRegistry}, available(f)
    PROVE  NoDup(f) /\ \A n : Unshared(f, n)
<1>1. f \in Document /\ f.models \in Seq(Entry)
  BY DEF available, Document
<1>2. NoDup(f)
  BY <1>1, UniqueFacts DEF available
<1>3. \A n : Unshared(f, n)
  <2>1. ~agent_name_error(f)
    BY DEF available
  <2>2. \A e \in entries(f) : agent_for(e) # code_writer_agent_for(e.id)
    BY <2>1 DEF agent_name_error
  <2>3. \A e, d \in entries(f) : e.id # d.id => NamesOf(e) \cap NamesOf(d) = {}
    BY <2>1 DEF agent_name_error
  <2>. QED
    BY <2>2, <2>3 DEF Unshared
<1>. QED
  BY <1>2, <1>3

\* What the invariant says of the command that takes a step.
LEMMA StepFacts ==
    ASSUME IInv, NEW p \in Proc
    PROVE  /\ proc \in [Proc -> Rec] /\ proc[p] \in Rec
           /\ PlaceOf(proc[p]) /\ ViewOf(proc[p], file, agents) /\ proc[p].mixed \subseteq stale
           /\ proc[p].pc # "idle" => proc[p].cmd \in Commands
           /\ file \in Document \cup {NoRegistry} /\ DOMAIN agents = Name /\ stale \subseteq Name
           /\ lock \in Proc \cup {NoProc}
           /\ Own(proc[p]) = proc[p].touched \ proc[p].mixed /\ proc[p].mixed \subseteq proc[p].touched
           /\ Pending(proc[p], file) \subseteq proc[p].touched
<1>1. proc \in [Proc -> Rec]
  BY DEF IInv, Typed
<1>2. PlaceOf(proc[p]) /\ ViewOf(proc[p], file, agents) /\ proc[p].mixed \subseteq stale
  BY DEF IInv, ViewInv, SharedInv
<1>3. TouchOf(proc[p], file)
  BY <1>2 DEF ViewOf
<1>. QED
  BY <1>1, <1>2, <1>3, PendingTouched DEF IInv, Typed, Active, TouchOf, Own

\* The lock stays where it is.
LEMMA LockStays ==
    ASSUME IInv, NEW p \in Proc, proc[p].pc # "save", lock' = lock
    PROVE  lock' # p /\ \A q \in Proc : q # p => (lock' = q <=> lock = q)
  BY DEF IInv, LockInv

\* A registry that is valid as a whole is one whose names are told apart.
LEMMA RequireRegistryKeeps ==
    ASSUME IInv, NEW p \in Proc, RequireRegistry(p)
    PROVE  IInv'
<1>. DEFINE x == proc[p]
            y == [x EXCEPT !.pc = IF x.cmd.op = "sync" THEN "list" ELSE "entry"]
<1>1. /\ x \in Rec /\ x.pc = "registry" /\ available(file)
      /\ proc' = [proc EXCEPT ![p] = y] /\ UNCHANGED <<file, agents, failing, stale, late, lock>>
  BY StepFacts DEF RequireRegistry, Goto, historyVars
<1>2. /\ y \in Rec /\ y.pc = IF x.cmd.op = "sync" THEN "list" ELSE "entry"
      /\ y.cmd = x.cmd /\ y.todo = x.todo /\ y.agent = x.agent
      /\ y.touched = x.touched /\ y.mixed = x.mixed
  BY <1>1 DEF Rec, Pcs
<1>. HIDE DEF y
<1>3. NoDup(file) /\ \A n \in Own(x) : Unshared(file, n)
  BY <1>1, StepFacts, AvailableFacts
<1>4. PlaceOf(y)
  BY <1>2 DEF PlaceOf, InLoop, InRender
<1>5. RenderOf(y, file, agents) /\ SyncOf(y, file, agents) /\ RemoveOf(y, file, agents)
  BY <1>2 DEF RenderOf, SyncOf, RemoveOf, InRender, InLoop, Cleaning
<1>6. lock' # p /\ \A q \in Proc : q # p => (lock' = q <=> lock = q)
  BY <1>1, LockStays
<1>7. x.pc \notin {"idle"} \cup Cleaning /\ y.pc \notin {"idle"} \cup Cleaning /\ y.pc # "save" /\ x.pc \notin InLoop
  BY <1>1, <1>2 DEF Cleaning, InLoop
<1>8. lock' \in Proc \cup {NoProc}
  BY <1>1, StepFacts
<1>. QED
  BY <1>1, <1>2, <1>3, <1>4, <1>5, <1>6, <1>7, <1>8, QuietKeeps

\* The entry that is asked for is there, or the command is over.
LEMMA RequireEntryKeeps ==
    ASSUME IInv, NEW p \in Proc, RequireEntry(p)
    PROVE  IInv'
<1>. DEFINE x == proc[p]
            y == [x EXCEPT !.pc = IF x.cmd.op = "remove" THEN "agent" ELSE "lock"]
<1>1. /\ x \in Rec /\ x.pc = "entry" /\ x.cmd.id \in ids(file)
      /\ proc' = [proc EXCEPT ![p] = y] /\ UNCHANGED <<file, agents, failing, stale, late, lock>>
  BY StepFacts DEF RequireEntry, Goto, historyVars
<1>2. /\ y \in Rec /\ y.pc = IF x.cmd.op = "remove" THEN "agent" ELSE "lock"
      /\ y.cmd = x.cmd /\ y.todo = x.todo /\ y.agent = x.agent
      /\ y.touched = x.touched /\ y.mixed = x.mixed
  BY <1>1 DEF Rec, Pcs
<1>. HIDE DEF y
<1>3. PlaceOf(y)
  <2>1. x.cmd.op # "sync"
    BY <1>1, StepFacts DEF PlaceOf
  <2>. QED
    BY <1>2, <2>1 DEF PlaceOf, InLoop, InRender
<1>4. RenderOf(y, file, agents) /\ SyncOf(y, file, agents) /\ RemoveOf(y, file, agents)
  BY <1>1, <1>2 DEF RenderOf, SyncOf, RemoveOf, InRender, InLoop, Cleaning
<1>5. lock' # p /\ \A q \in Proc : q # p => (lock' = q <=> lock = q)
  BY <1>1, LockStays
<1>6. x.pc \notin {"idle"} \cup Cleaning /\ y.pc \notin {"idle"} \cup Cleaning /\ y.pc # "save" /\ x.pc \notin InLoop
  BY <1>1, <1>2 DEF Cleaning, InLoop
<1>7. lock' \in Proc \cup {NoProc}
  BY <1>1, StepFacts
<1>. QED
  BY <1>1, <1>2, <1>3, <1>4, <1>5, <1>6, <1>7, QuietKeeps

\* remove knows the agent name of the entry it is about to remove.
LEMMA AskAgentKeeps ==
    ASSUME IInv, NEW p \in Proc, AskAgent(p)
    PROVE  IInv'
<1>. DEFINE x == proc[p]
            id == x.cmd.id
            asked == IF id \in ids(file) THEN agent_for(EntryOf(file, id)) ELSE Nil
            y == [x EXCEPT !.pc = "lock", !.agent = asked]
<1>1. /\ x \in Rec /\ x.pc = "agent"
      /\ proc' = [proc EXCEPT ![p] = y] /\ UNCHANGED <<file, agents, failing, stale, late, lock>>
  BY StepFacts DEF AskAgent, historyVars
<1>2. file \in Document \cup {NoRegistry}
  BY StepFacts
<1>3. id \in ids(file) => /\ EntryOf(file, id) \in entries(file) /\ EntryOf(file, id).id = id
                          /\ NoDup(file) => \A e \in entries(file) : e.id = id => e = EntryOf(file, id)
                          /\ asked \in Name /\ asked \in NamesFor(file, id)
  <2>. SUFFICES ASSUME id \in ids(file)
                PROVE  /\ EntryOf(file, id) \in entries(file) /\ EntryOf(file, id).id = id
                       /\ NoDup(file) => \A e \in entries(file) : e.id = id => e = EntryOf(file, id)
                       /\ asked \in Name /\ asked \in NamesFor(file, id)
    OBVIOUS
  <2>1. /\ EntryOf(file, id) \in entries(file) /\ EntryOf(file, id).id = id
        /\ NoDup(file) => \A e \in entries(file) : e.id = id => e = EntryOf(file, id)
    BY <1>2, EntryOfFacts
  <2>2. agent_for(EntryOf(file, id)) \in NamesOf(EntryOf(file, id))
    BY DEF NamesOf
  <2>3. asked \in Name /\ asked \in NamesFor(file, id)
    BY <1>2, <2>1, <2>2, EntriesAreEntries
  <2>. QED
    BY <2>1, <2>3
<1>4. asked \in Name \cup {Nil}
  BY <1>3
<1>. HIDE DEF asked
<1>5. /\ y \in Rec /\ y.pc = "lock" /\ y.agent = asked /\ y.cmd = x.cmd /\ y.todo = x.todo
      /\ y.touched = x.touched /\ y.mixed = x.mixed
  BY <1>1, <1>4 DEF Rec, Pcs
<1>. HIDE DEF y
<1>6. x.cmd.op = "remove"
  BY <1>1, StepFacts DEF PlaceOf
<1>7. PlaceOf(y)
  BY <1>5, <1>6 DEF PlaceOf, InLoop, InRender
<1>8. RenderOf(y, file, agents) /\ SyncOf(y, file, agents)
  BY <1>5 DEF RenderOf, SyncOf, InRender, InLoop
<1>9. RemoveOf(y, file, agents)
  <2>1. CheckedOf(x, file) /\ RemoveOf(x, file, agents)
    BY StepFacts DEF ViewOf
  <2>2. NoDup(file)
    BY <1>1, <1>6, <2>1 DEF CheckedOf
  <2>3. Own(y) = Own(x)
    BY <1>5 DEF Own
  <2>4. code_writer_agent_for(id) \in Own(x) => id \in ids(file)
    BY <1>1, <1>6, <2>1 DEF RemoveOf
  <2>5. asked \in Own(x) => \E e \in entries(file) : e.id = id /\ agent_for(e) = asked
    <3>1. Nil \notin Own(x)
      BY <1>1, NamesAreNames DEF Own, Rec
    <3>. QED
      BY <1>3, <3>1 DEF asked
  <2>6. \A e \in entries(file) : e.id = id => asked = agent_for(e)
    BY <1>3, <2>2 DEF asked, ids
  <2>. QED
    BY <1>5, <2>3, <2>4, <2>5, <2>6 DEF RemoveOf, Cleaning
<1>10. lock' # p /\ \A q \in Proc : q # p => (lock' = q <=> lock = q)
  BY <1>1, LockStays
<1>11. x.pc \notin {"idle"} \cup Cleaning /\ y.pc \notin {"idle"} \cup Cleaning /\ y.pc # "save" /\ x.pc \notin InLoop
  BY <1>1, <1>5 DEF Cleaning, InLoop
<1>12. lock' \in Proc \cup {NoProc}
  BY <1>1, StepFacts
<1>13. asked # x.agent => asked \in NamesFor(file, id) \/ asked = Nil
  BY <1>3 DEF asked
<1>14. y.agent # x.agent => x.cmd.op = "sync" \/ y.agent \in NamesFor(file, x.cmd.id) \cup {Nil}
  BY <1>5, <1>13
<1>. QED
  BY <1>1, <1>5, <1>7, <1>8, <1>9, <1>10, <1>11, <1>12, <1>14, QuietKeeps

\* The lock is free, and the copy is the document as it is.
LEMMA LoadKeeps ==
    ASSUME IInv, NEW p \in Proc, Load(p)
    PROVE  IInv'
<1>. DEFINE x == proc[p]
            y == [x EXCEPT !.pc = "save", !.doc = file]
<1>1. /\ x \in Rec /\ x.pc = "lock" /\ lock = NoProc /\ lock' = p
      /\ proc' = [proc EXCEPT ![p] = y] /\ UNCHANGED <<file, agents, failing, stale, late>>
  BY StepFacts DEF Load, historyVars
<1>2. file \in Document \cup {NoRegistry}
  BY StepFacts
<1>3. /\ y \in Rec /\ y.pc = "save" /\ y.doc = file /\ y.cmd = x.cmd /\ y.todo = x.todo /\ y.agent = x.agent
      /\ y.touched = x.touched /\ y.mixed = x.mixed
  BY <1>1, <1>2 DEF Rec, Pcs
<1>. HIDE DEF y
<1>4. PlaceOf(y)
  BY <1>1, <1>3, StepFacts DEF PlaceOf, InLoop, InRender
<1>5. RenderOf(y, file, agents) /\ SyncOf(y, file, agents)
  BY <1>3 DEF RenderOf, SyncOf, InRender, InLoop
<1>6. RemoveOf(y, file, agents)
  <2>1. RemoveOf(x, file, agents)
    BY StepFacts DEF ViewOf
  <2>2. Own(y) = Own(x)
    BY <1>3 DEF Own
  <2>. QED
    BY <1>1, <1>3, <2>1, <2>2 DEF RemoveOf, Cleaning
<1>7. \A q \in Proc : q # p => (lock' = q <=> lock = q)
  BY <1>1, RegistryAssumption
<1>8. x.pc \notin {"idle"} \cup Cleaning /\ y.pc \notin {"idle"} \cup Cleaning /\ x.pc \notin InLoop
  BY <1>1, <1>3 DEF Cleaning, InLoop
<1>. QED
  BY <1>1, <1>3, <1>4, <1>5, <1>6, <1>7, <1>8, QuietKeeps

\* The agent name and the role of a model are those of its entry.
LEMMA LookKeeps ==
    ASSUME IInv, NEW p \in Proc, Look(p)
    PROVE  IInv'
<1>. DEFINE x == proc[p]
            id == Head(x.todo)
            code == has_role(file, id, "code-write")
            e0 == EntryOf(file, id)
            y == [x EXCEPT !.pc = "bulk", !.code = code, !.agent = agent_for(e0)]
<1>1. /\ x \in Rec /\ x.pc = "look" /\ id \in ids(file)
      /\ proc' = [proc EXCEPT ![p] = y] /\ UNCHANGED <<file, agents, failing, stale, late, lock>>
  BY StepFacts DEF Look, historyVars
<1>2. file \in Document \cup {NoRegistry}
  BY StepFacts
<1>3. /\ e0 \in entries(file) /\ e0.id = id
      /\ NoDup(file) => \A e \in entries(file) : e.id = id => e = e0
  BY <1>1, <1>2, EntryOfFacts
<1>4. agent_for(e0) \in Name /\ agent_for(e0) # Nil /\ agent_for(e0) \in NamesFor(file, id)
  BY <1>2, <1>3, EntriesAreEntries, NamesAreNames DEF NamesOf
<1>5. code \in BOOLEAN
  BY DEF has_role
<1>. HIDE DEF code, e0
<1>6. /\ y \in Rec /\ y.pc = "bulk" /\ y.code = code /\ y.agent = agent_for(e0)
      /\ y.cmd = x.cmd /\ y.todo = x.todo /\ y.touched = x.touched /\ y.mixed = x.mixed
  <2>1. x \in Rec
    BY <1>1
  <2>. HIDE DEF x
  <2>2. y \in Rec
    BY <1>4, <1>5, <2>1 DEF Rec, Pcs, AtFiles
  <2>3. y.pc = "bulk" /\ y.agent = agent_for(e0) /\ y.code = code
    BY <2>1 DEF Rec
  <2>4. y.cmd = x.cmd /\ y.todo = x.todo /\ y.touched = x.touched /\ y.mixed = x.mixed
    BY <2>1 DEF Rec
  <2>. QED
    BY <2>2, <2>3, <2>4
<1>. HIDE DEF y
<1>7. PlaceOf(x) /\ x.cmd.op \in {"add", "thinking", "roles", "sync"} /\ (x.cmd.op # "sync" => x.todo = <<x.cmd.id>>)
  BY <1>1, StepFacts DEF PlaceOf, InLoop
<1>8. PlaceOf(y)
  BY <1>1, <1>4, <1>6, <1>7 DEF PlaceOf, InLoop, InRender
<1>9. x.cmd.op = "sync" \/ agent_for(e0) \in NamesFor(file, x.cmd.id)
  BY <1>4, <1>7
<1>10. RenderOf(y, file, agents)
  <2>0. NoDup(file) => LastOf(file, id) = e0
    BY <1>1, <1>2, LastIsFirst DEF e0
  <2>1. \A e \in entries(file) : e.id = id /\ NoDup(file) => e = e0 /\ (code <=> "code-write" \in e.roles)
    BY <1>1, <1>3, <2>0 DEF code, has_role
  <2>. QED
    BY <1>1, <1>3, <1>6, <2>1 DEF RenderOf, InRender
<1>11. RemoveOf(y, file, agents)
  BY <1>6, <1>7 DEF RemoveOf
<1>12. lock' # p /\ \A q \in Proc : q # p => (lock' = q <=> lock = q)
  BY <1>1, LockStays
<1>13. x.pc \notin {"idle"} \cup Cleaning /\ y.pc \notin {"idle"} \cup Cleaning /\ y.pc # "save"
       /\ x.pc \in InLoop /\ y.pc \in InLoop
  BY <1>1, <1>6 DEF Cleaning, InLoop
<1>14. lock' \in Proc \cup {NoProc}
  BY <1>1, StepFacts
<1>. QED
  BY <1>1, <1>6, <1>8, <1>9, <1>10, <1>11, <1>12, <1>13, <1>14, QuietKeeps

\* The thinking block that is read is the one of the entry, if it is one.
LEMMA BlockFacts ==
    ASSUME NEW f \in Document \cup {NoRegistry}, NEW id, NEW r \in Role
    PROVE  /\ BlockOf(f, id, r) \in Option \cup {Nil}
           /\ NoDup(f) => \A e \in entries(f) : e.id = id => BlockOf(f, id, r) = thinking_block(e, r)
<1>1. CASE id \in ids(f)
  <2>1. /\ EntryOf(f, id) \in Entry
        /\ NoDup(f) => \A e \in entries(f) : e.id = id => e = EntryOf(f, id)
    BY <1>1, EntryOfFacts, EntriesAreEntries
  <2>2. BlockOf(f, id, r) = thinking_block(EntryOf(f, id), r)
    BY <1>1 DEF BlockOf
  <2>3. \A e \in Entry : thinking_block(e, r) \in Option \cup {Nil}
    BY DEF thinking_block, Entry
  <2>. QED
    BY <2>1, <2>2, <2>3
<1>2. CASE id \notin ids(f)
  BY <1>2 DEF BlockOf, ids
<1>. QED
  BY <1>1, <1>2

\* The thinking block of the bulk reader is that of the entry.
LEMMA ReadBulkBlockKeeps ==
    ASSUME IInv, NEW p \in Proc, ReadBulkBlock(p)
    PROVE  IInv'
<1>. DEFINE x == proc[p]
            id == Head(x.todo)
            b == BlockOf(file, id, "bulk-read")
            y == [x EXCEPT !.pc = "bulkwrite", !.block = b]
<1>1. /\ x \in Rec /\ x.pc = "bulk"
      /\ proc' = [proc EXCEPT ![p] = y] /\ UNCHANGED <<file, agents, failing, stale, late, lock>>
  BY StepFacts DEF ReadBulkBlock, historyVars
<1>2. b \in Option \cup {Nil} /\ (NoDup(file) => \A e \in entries(file) : e.id = id => b = thinking_block(e, "bulk-read"))
  BY StepFacts, BlockFacts DEF Role
<1>. HIDE DEF b
<1>3. /\ y \in Rec /\ y.pc = "bulkwrite" /\ y.block = b /\ y.agent = x.agent /\ y.code = x.code
      /\ y.cmd = x.cmd /\ y.todo = x.todo /\ y.touched = x.touched /\ y.mixed = x.mixed
  BY <1>1, <1>2 DEF Rec, Pcs, AtFiles
<1>. HIDE DEF y
<1>4. PlaceOf(y)
  BY <1>1, <1>3, StepFacts DEF PlaceOf, InLoop, InRender
<1>5. RenderOf(y, file, agents)
  <2>1. RenderOf(x, file, agents)
    BY StepFacts DEF ViewOf
  <2>2. Own(y) = Own(x)
    BY <1>3 DEF Own
  <2>. QED
    BY <1>1, <1>2, <1>3, <2>1, <2>2 DEF RenderOf, InRender
<1>6. RemoveOf(y, file, agents)
  BY <1>1, <1>3, StepFacts DEF RemoveOf, PlaceOf, InLoop
<1>7. lock' # p /\ \A q \in Proc : q # p => (lock' = q <=> lock = q)
  BY <1>1, LockStays
<1>8. x.pc \notin {"idle"} \cup Cleaning /\ y.pc \notin {"idle"} \cup Cleaning /\ y.pc # "save"
      /\ x.pc \in InLoop /\ y.pc \in InLoop
  BY <1>1, <1>3 DEF Cleaning, InLoop
<1>9. lock' \in Proc \cup {NoProc}
  BY <1>1, StepFacts
<1>. QED
  BY <1>1, <1>3, <1>4, <1>5, <1>6, <1>7, <1>8, <1>9, QuietKeeps

\* So is that of the code writer, and the files to spare are those of bulk readers.
LEMMA ReadWriterKeeps ==
    ASSUME IInv, NEW p \in Proc, ReadWriter(p)
    PROVE  IInv'
<1>. DEFINE x == proc[p]
            id == Head(x.todo)
            b == BlockOf(file, id, "code-write")
            y == [x EXCEPT !.pc = "writerwrite", !.block = b, !.spare = bulk_agents(file)]
<1>1. /\ x \in Rec /\ x.pc = "writer"
      /\ proc' = [proc EXCEPT ![p] = y] /\ UNCHANGED <<file, agents, failing, stale, late, lock>>
  BY StepFacts DEF ReadWriter, historyVars
<1>2. b \in Option \cup {Nil} /\ (NoDup(file) => \A e \in entries(file) : e.id = id => b = thinking_block(e, "code-write"))
  BY StepFacts, BlockFacts DEF Role
<1>3. bulk_agents(file) \subseteq Name
  <2>1. file \in Document \cup {NoRegistry}
    BY StepFacts
  <2>2. \A i \in ids(file) : EntryOf(file, i) \in Entry
    BY <2>1, EntryOfFacts, EntriesAreEntries
  <2>. QED
    BY <2>2, NamesAreNames DEF bulk_agents
<1>. HIDE DEF b
<1>4. /\ y \in Rec /\ y.pc = "writerwrite" /\ y.block = b /\ y.spare = bulk_agents(file)
      /\ y.agent = x.agent /\ y.code = x.code
      /\ y.cmd = x.cmd /\ y.todo = x.todo /\ y.touched = x.touched /\ y.mixed = x.mixed
  BY <1>1, <1>2, <1>3 DEF Rec, Pcs, AtFiles
<1>. HIDE DEF y
<1>5. PlaceOf(y)
  BY <1>1, <1>4, StepFacts DEF PlaceOf, InLoop, InRender
<1>6. RenderOf(y, file, agents)
  <2>1. RenderOf(x, file, agents)
    BY StepFacts DEF ViewOf
  <2>2. Own(y) = Own(x)
    BY <1>4 DEF Own
  <2>. QED
    BY <1>1, <1>2, <1>4, <2>1, <2>2 DEF RenderOf, InRender
<1>7. RemoveOf(y, file, agents)
  BY <1>1, <1>4, StepFacts DEF RemoveOf, PlaceOf, InLoop
<1>8. lock' # p /\ \A q \in Proc : q # p => (lock' = q <=> lock = q)
  BY <1>1, LockStays
<1>9. x.pc \notin {"idle"} \cup Cleaning /\ y.pc \notin {"idle"} \cup Cleaning /\ y.pc # "save"
      /\ x.pc \in InLoop /\ y.pc \in InLoop
  BY <1>1, <1>4 DEF Cleaning, InLoop
<1>10. lock' \in Proc \cup {NoProc}
  BY <1>1, StepFacts
<1>. QED
  BY <1>1, <1>4, <1>5, <1>6, <1>7, <1>8, <1>9, <1>10, QuietKeeps

\* sync has every model in its work list.
LEMMA ListKeeps ==
    ASSUME IInv, NEW p \in Proc, List(p)
    PROVE  IInv'
<1>. DEFINE x == proc[p]
<1>1. /\ x \in Rec /\ x.pc = "list" /\ UNCHANGED <<file, agents, failing, late, lock>>
      /\ proc \in [Proc -> Rec] /\ file \in Document \cup {NoRegistry} /\ lock \in Proc \cup {NoProc}
      /\ DOMAIN agents = Name /\ stale \subseteq Name
  BY StepFacts DEF List
<1>2. lock' # p /\ \A q \in Proc : q # p => (lock' = q <=> lock = q)
  BY <1>1, LockStays
<1>3. CASE ids(file) = {}
  <2>1. proc' = [proc EXCEPT ![p] = Idle] /\ stale' = stale
    BY <1>3 DEF List, Ended
  <2>2. Pending(x, file) = {}
    BY <1>1 DEF Pending, InLoop
  <2>3. CountInv'
    BY <1>1, <2>1, CountKept DEF IInv, Cleaning
  <2>4. \A n \in x.touched \ stale' : n \notin stale /\ n \notin Pending(x, file) /\ agents'[n] = agents[n]
    BY <1>1, <2>1, <2>2
  <2>5. \A n : n \notin x.touched => agents'[n] = agents[n]
    BY <1>1
  <2>. DEFINE y == Idle
  <2>6. /\ y \in Rec /\ y.pc = "idle" /\ y.touched = {} /\ y.mixed = {}
        /\ PlaceOf(y) /\ ViewOf(y, file, agents')
    BY IdleFacts
  <2>. HIDE DEF x, y
  <2>7. proc' = [proc EXCEPT ![p] = y]
    BY <2>1 DEF y
  <2>8. x.touched = {} => x.mixed = {}
    BY StepFacts DEF x
  <2>9. x = proc[p] /\ file' = file /\ DOMAIN agents' = Name /\ lock' \in Proc \cup {NoProc} /\ stale' \subseteq Name
        /\ stale \subseteq stale' \cup Own(x)
    BY <1>1, <2>1 DEF x
  <2>. QED
    BY <1>1, <1>2, <2>3, <2>4, <2>5, <2>6, <2>7, <2>8, <2>9, StepKeeps
<1>4. CASE ids(file) # {}
  <2>. DEFINE todo == [i \in DOMAIN file.models |-> file.models[i].id]
              y == [x EXCEPT !.pc = "look", !.todo = todo]
  <2>1. proc' = [proc EXCEPT ![p] = y] /\ stale' = stale
    BY <1>4 DEF List
  <2>2. /\ file \in Document /\ file # NoRegistry /\ file.models \in Seq(Entry)
        /\ entries(file) = {file.models[i] : i \in DOMAIN file.models}
    BY <1>1, <1>4 DEF ids, entries, Document, Range
  <2>3. todo \in Seq(Id) /\ DOMAIN todo = DOMAIN file.models /\ \A i \in DOMAIN file.models : todo[i] = file.models[i].id
    <3>1. \A i \in DOMAIN file.models : file.models[i].id \in Id
      <4>1. \A i \in DOMAIN file.models : file.models[i] \in Entry
        BY <2>2
      <4>. QED
        BY <4>1 DEF Entry
    <3>2. DOMAIN file.models = 1..Len(file.models) /\ Len(file.models) \in Nat
      BY <2>2
    <3>3. todo \in [1..Len(file.models) -> Id]
      BY <3>1, <3>2
    <3>. QED
      BY <3>2, <3>3
  <2>. HIDE DEF todo
  <2>4. \A e \in entries(file) : e.id \in Range(todo)
    BY <2>2, <2>3 DEF Range
  <2>5. todo # <<>>
    <3>1. \E e \in entries(file) : TRUE
      BY <1>4 DEF ids
    <3>2. Range(<<>>) = {}
      BY DEF Range
    <3>. QED
      BY <2>4, <3>1, <3>2
  <2>6. /\ y \in Rec /\ y.pc = "look" /\ y.todo = todo /\ y.agent = x.agent
        /\ y.cmd = x.cmd /\ y.touched = x.touched /\ y.mixed = x.mixed
    <3>1. x \in Rec /\ todo \in Seq(Id)
      BY <1>1, <2>3
    <3>2. y = [x EXCEPT !.pc = "look", !.todo = todo]
      OBVIOUS
    <3>. HIDE DEF x, y
    <3>. QED
      BY <3>1, <3>2 DEF Rec, Pcs, AtFiles
  <2>. HIDE DEF y
  <2>7. x.cmd.op = "sync"
    BY <1>1, StepFacts DEF PlaceOf
  <2>8. PlaceOf(y)
    BY <2>5, <2>6, <2>7 DEF PlaceOf, InLoop, InRender
  <2>9. RenderOf(y, file, agents) /\ RemoveOf(y, file, agents)
    BY <2>6, <2>7 DEF RenderOf, RemoveOf, InRender
  <2>10. SyncOf(y, file, agents)
    BY <2>4, <2>6 DEF SyncOf
  <2>11. x.pc \notin {"idle"} \cup Cleaning /\ y.pc \notin {"idle"} \cup Cleaning /\ y.pc # "save" /\ x.pc \notin InLoop
    BY <1>1, <2>6 DEF Cleaning, InLoop
  <2>. QED
    BY <1>1, <1>2, <2>1, <2>6, <2>8, <2>9, <2>10, <2>11, QuietKeeps
<1>. QED
  BY <1>3, <1>4

\* A command that stops leaves the names it had among the stale ones.
LEMMA FailKeeps ==
    ASSUME IInv, NEW p \in Proc, Fail(p)
    PROVE  IInv'
<1>. DEFINE x == proc[p]
            y == Idle
<1>1. /\ x \in Rec /\ x.pc # "idle" /\ UNCHANGED <<file, agents, failing>>
      /\ proc \in [Proc -> Rec] /\ file \in Document \cup {NoRegistry} /\ lock \in Proc \cup {NoProc}
      /\ DOMAIN agents = Name /\ stale \subseteq Name
      /\ proc' = [proc EXCEPT ![p] = y]
  BY StepFacts DEF Fail, Active
<1>2. /\ y \in Rec /\ y.pc = "idle" /\ y.touched = {} /\ y.mixed = {}
      /\ PlaceOf(y) /\ ViewOf(y, file, agents')
  BY IdleFacts
<1>. HIDE DEF y
<1>3. /\ lock' = IF lock = p THEN NoProc ELSE lock
      /\ stale' = IF x.pc \in AtFiles THEN stale \cup x.touched ELSE stale
      /\ late' = IF x.cmd.op = "remove" /\ x.pc \in {"unlink", "unlinkwriter", "clear"}
                     THEN late \cup {x.cmd.id} ELSE late
  BY DEF Fail
<1>4. lock' # p /\ (\A q \in Proc : q # p => (lock' = q <=> lock = q)) /\ lock' \in Proc \cup {NoProc}
  BY <1>1, <1>3, RegistryAssumption
<1>5. /\ Pending(x, file) \subseteq x.touched /\ (x.pc \notin AtFiles => Pending(x, file) = {})
      /\ x.touched \subseteq Name /\ x.mixed \subseteq x.touched
  BY <1>1, StepFacts DEF Pending, AtFiles, InLoop, Rec
<1>6. \A n \in x.touched \ stale' : n \notin stale /\ n \notin Pending(x, file) /\ agents'[n] = agents[n]
  BY <1>1, <1>3, <1>5
<1>7. CountInv'
  <2>1. \A q \in Proc : q # p => proc'[q] = proc[q]
    BY <1>1
  <2>. SUFFICES ASSUME NEW id \in failing, id \notin ids(file) \cup late'
                PROVE  \E q \in Proc : proc'[q].pc \in Cleaning /\ proc'[q].cmd.op = "remove" /\ proc'[q].cmd.id = id
    BY <1>1 DEF CountInv
  <2>2. id \notin ids(file) \cup late
    BY <1>3
  <2>3. PICK q \in Proc : proc[q].pc \in Cleaning /\ proc[q].cmd.op = "remove" /\ proc[q].cmd.id = id
    BY <2>2 DEF IInv, CountInv
  <2>4. q # p
    BY <1>3, <2>3 DEF Cleaning
  <2>. QED
    BY <2>1, <2>3, <2>4
<1>8. x.touched = {} => x.mixed = {}
  BY <1>5
<1>9. x = proc[p] /\ file' = file /\ DOMAIN agents' = Name /\ stale' \subseteq Name
      /\ stale \subseteq stale' \cup Own(x) /\ \A n : n \notin x.touched => agents'[n] = agents[n]
  BY <1>1, <1>3, <1>5
<1>. HIDE DEF x
<1>. QED
  BY <1>1, <1>2, <1>4, <1>6, <1>7, <1>8, <1>9, StepKeeps

\* The names a command that renders files writes are among its own.
LEMMA RenderNames ==
    ASSUME IInv, NEW p \in Proc, proc[p].pc \in InRender
    PROVE  LET x == proc[p] IN
           /\ x.agent \in Name /\ x.agent \in x.touched
           /\ Head(x.todo) \in Id /\ Head(x.todo) \in Range(x.todo)
           /\ code_writer_agent_for(Head(x.todo)) \in Name
           /\ code_writer_agent_for(Head(x.todo)) \in x.touched
           /\ x.todo \in Seq(Id) /\ x.todo # <<>>
<1>. DEFINE x == proc[p]
            id == Head(x.todo)
<1>1. x \in Rec /\ PlaceOf(x) /\ TouchOf(x, file) /\ x.pc \in InLoop /\ x.pc # "idle"
  BY StepFacts DEF ViewOf, InRender, InLoop
<1>2. x.todo \in Seq(Id) /\ x.todo # <<>> /\ x.agent \in Name /\ x.agent # Nil
  BY <1>1, NamesAreNames DEF PlaceOf, Rec
<1>3. id \in Id /\ id \in Range(x.todo)
  BY <1>2 DEF Range
<1>4. code_writer_agent_for(id) \in Name
  BY <1>3, NamesAreNames
<1>5. x.agent \in x.touched /\ code_writer_agent_for(id) \in x.touched
  <2>1. CASE x.cmd.op = "sync"
    BY <1>1, <1>2, <1>4, <2>1 DEF TouchOf
  <2>2. CASE x.cmd.op # "sync"
    <3>1. x.cmd.op \in EditsFiles /\ x.todo = <<x.cmd.id>>
      BY <1>1, <2>2 DEF PlaceOf, EditsFiles
    <3>2. id = x.cmd.id
      BY <3>1
    <3>3. code_writer_agent_for(id) \in NamesFor(file, x.cmd.id)
      BY <3>2 DEF NamesFor
    <3>. QED
      BY <1>1, <1>2, <3>1, <3>3 DEF TouchOf
  <2>. QED
    BY <2>1, <2>2
<1>. QED
  BY <1>2, <1>3, <1>4, <1>5

\* The file of the bulk reader is written as its entry wants it.
LEMMA WriteBulkKeeps ==
    ASSUME IInv, NEW p \in Proc, WriteBulk(p)
    PROVE  IInv'
<1>. DEFINE x == proc[p]
            id == Head(x.todo)
            m == x.agent
            y == [x EXCEPT !.pc = "writer", !.block = Nil]
<1>1. /\ x \in Rec /\ x.pc = "bulkwrite" /\ UNCHANGED <<file, failing, stale, late, lock>>
      /\ proc \in [Proc -> Rec] /\ file \in Document \cup {NoRegistry} /\ lock \in Proc \cup {NoProc}
      /\ DOMAIN agents = Name /\ stale \subseteq Name
      /\ proc' = [proc EXCEPT ![p] = y]
  BY StepFacts DEF WriteBulk, historyVars
<1>2. agents' = [agents EXCEPT ![m] = [model |-> id, block |-> x.block]]
  BY DEF WriteBulk
<1>3. x.pc \in InRender /\ m \in Name /\ m \in x.touched /\ id \in Range(x.todo)
  <2>1. x.pc \in InRender
    BY <1>1 DEF InRender
  <2>. QED
    BY <2>1, RenderNames
<1>4. /\ agents'[m] = [model |-> id, block |-> x.block] /\ DOMAIN agents' = Name
      /\ \A n : n # m => agents'[n] = agents[n]
  BY <1>1, <1>2, <1>3
<1>5. PlaceOf(x) /\ ViewOf(x, file, agents) /\ x.mixed \subseteq stale /\ Own(x) = x.touched \ x.mixed
      /\ x.cmd \in Commands
  BY <1>1, StepFacts
<1>6. /\ y \in Rec /\ y.pc = "writer" /\ y.agent = m /\ y.code = x.code
      /\ y.cmd = x.cmd /\ y.todo = x.todo /\ y.touched = x.touched /\ y.mixed = x.mixed
  BY <1>1, Written
<1>. HIDE DEF y
<1>7. Own(y) = Own(x)
  BY <1>6 DEF Own
<1>8. m \in Own(x) => \E e \in entries(file) : e.id = id /\ agent_for(e) = m
  BY <1>3, <1>5 DEF ViewOf, RenderOf
<1>9. PlaceOf(y)
  BY <1>1, <1>5, <1>6 DEF PlaceOf, InLoop, InRender
<1>10. TouchOf(y, file) /\ CheckedOf(y, file)
  BY <1>1, <1>5, <1>6, <1>7 DEF ViewOf, TouchOf, CheckedOf
<1>11. RenderOf(y, file, agents')
  <2>1. RenderOf(x, file, agents)
    BY <1>5 DEF ViewOf
  <2>2. agents'[m].model = id
    BY <1>4
  <2>3. \A e \in entries(file) : agent_for(e) = m /\ e.id = id /\ x.block = thinking_block(e, "bulk-read") =>
            agents'[agent_for(e)] = Rendered(e, "bulk-read")
    BY <1>4 DEF Rendered
  <2>. QED
    BY <1>1, <1>3, <1>6, <1>7, <2>1, <2>2, <2>3 DEF RenderOf
<1>12. SyncOf(y, file, agents')
  <2>. SUFFICES ASSUME x.cmd.op = "sync", NEW e \in entries(file), NEW n \in NamesOf(e) \cap Own(x),
                       e.id \notin Range(x.todo)
                PROVE  agents'[n] = Wanted(e, n)
    BY <1>6, <1>7 DEF SyncOf
  <2>1. agents[n] = Wanted(e, n)
    BY <1>1, <1>5 DEF ViewOf, SyncOf, InLoop
  <2>2. ASSUME n = m PROVE FALSE
    <3>1. PICK d \in entries(file) : d.id = id /\ agent_for(d) = m
      BY <1>8, <2>2
    <3>2. Unshared(file, n)
      BY <1>1, <1>5 DEF ViewOf, CheckedOf
    <3>3. n \in NamesOf(d)
      BY <2>2, <3>1 DEF NamesOf
    <3>4. e.id = d.id
      BY <3>2, <3>3 DEF Unshared
    <3>. QED
      BY <1>3, <3>1, <3>4
  <2>. QED
    BY <1>4, <2>1, <2>2
<1>13. RemoveOf(y, file, agents')
  BY <1>1, <1>5, <1>6 DEF RemoveOf, PlaceOf, InLoop
<1>14. ViewOf(y, file, agents')
  BY <1>10, <1>11, <1>12, <1>13 DEF ViewOf
<1>15. Pending(y, file) = Pending(x, file)
  BY <1>1, <1>6 DEF Pending, InLoop
<1>16. \A n \in x.touched \ stale' : n \notin Pending(y, file) =>
          n \notin stale /\ n \notin Pending(x, file) /\ agents'[n] = agents[n]
  <2>. SUFFICES ASSUME m \notin stale, m \notin Pending(y, file)
                PROVE  FALSE
    BY <1>1, <1>4, <1>15
  <2>1. m \in Own(x)
    BY <1>3, <1>5
  <2>2. PICK e \in entries(file) : e.id = id /\ agent_for(e) = m
    BY <1>8, <2>1
  <2>3. m \in NamesOf(e)
    BY <2>2 DEF NamesOf
  <2>. QED
    BY <1>3, <1>6, <2>2, <2>3 DEF Pending, InLoop
<1>17. \A n \in x.touched \ stale' :
          \/ Owned(file, agents', n)
          \/ n \notin stale /\ (x.pc \in Cleaning => n \notin Pending(x, file)) /\ agents'[n] = agents[n]
  <2>. SUFFICES ASSUME m \notin stale
                PROVE  Owned(file, agents', m)
    BY <1>1, <1>4 DEF Cleaning
  <2>1. m \in Own(x)
    BY <1>3, <1>5
  <2>2. PICK e \in entries(file) : e.id = id /\ agent_for(e) = m
    BY <1>8, <2>1
  <2>. QED
    BY <1>4, <2>2 DEF Owned, NamesOf
<1>18. CountInv'
  BY <1>1, CountKept DEF IInv, Cleaning
<1>19. lock' # p /\ \A q \in Proc : q # p => (lock' = q <=> lock = q)
  BY <1>1, LockStays
<1>20. \A n : n \notin x.touched => agents'[n] = agents[n]
  BY <1>3, <1>4
<1>. HIDE DEF x, m
<1>21. x = proc[p] /\ file' = file /\ stale' \subseteq Name /\ lock' \in Proc \cup {NoProc}
  BY <1>1 DEF x
<1>. QED
  BY <1>1, <1>4, <1>5, <1>6, <1>9, <1>14, <1>16, <1>17, <1>18, <1>19, <1>20, <1>21, StepKeeps

\* So are the names a removal takes away, and no entry bears those that are
\* its own.
LEMMA CleanNames ==
    ASSUME IInv, NEW p \in Proc, proc[p].pc \in Cleaning, proc[p].cmd.op = "remove"
    PROVE  LET x == proc[p]
               w == code_writer_agent_for(x.cmd.id)
           IN  /\ w \in Name /\ w \in x.touched /\ x.cmd.id \in Id
               /\ x.agent \in Name \cup {Nil} /\ (x.agent # Nil => x.agent \in x.touched)
               /\ \A n \in {x.agent, w} \cap Own(x) : \A e \in entries(file) : n \notin NamesOf(e)
<1>. DEFINE x == proc[p]
            w == code_writer_agent_for(x.cmd.id)
<1>1. x \in Rec /\ TouchOf(x, file) /\ RemoveOf(x, file, agents) /\ x.cmd \in Commands /\ x.pc # "idle"
  BY StepFacts DEF ViewOf, Cleaning
<1>2. x.cmd.id \in Id /\ w \in Name
  BY <1>1, CommandFields, NamesAreNames
<1>3. NamesFor(file, x.cmd.id) \cup ({x.agent} \ {Nil}) \subseteq x.touched
  BY <1>1 DEF TouchOf, EditsFiles
<1>4. w \in NamesFor(file, x.cmd.id)
  BY DEF NamesFor
<1>5. x.agent \in Name \cup {Nil}
  BY <1>1 DEF Rec
<1>6. \A n \in {x.agent, w} \cap Own(x) : \A e \in entries(file) : n \notin NamesOf(e)
  BY <1>1 DEF RemoveOf
<1>. QED
  BY <1>2, <1>3, <1>4, <1>5, <1>6

\* The file that is unlinked is one no entry bears the name of.
LEMMA UnlinkKeeps ==
    ASSUME IInv, NEW p \in Proc, Unlink(p)
    PROVE  IInv'
<1>. DEFINE x == proc[p]
            m == x.agent
            w == code_writer_agent_for(x.cmd.id)
            y == [x EXCEPT !.pc = "unlinkwriter"]
<1>1. /\ x \in Rec /\ x.pc = "unlink" /\ UNCHANGED <<file, failing, stale, late, lock>>
      /\ proc \in [Proc -> Rec] /\ file \in Document \cup {NoRegistry} /\ lock \in Proc \cup {NoProc}
      /\ DOMAIN agents = Name /\ stale \subseteq Name
      /\ proc' = [proc EXCEPT ![p] = y]
  BY StepFacts DEF Unlink, Goto, historyVars
<1>2. PlaceOf(x) /\ ViewOf(x, file, agents) /\ x.mixed \subseteq stale /\ Own(x) = x.touched \ x.mixed
      /\ x.cmd \in Commands /\ Pending(x, file) \subseteq x.touched
  BY <1>1, StepFacts
<1>3. x.pc \in Cleaning /\ x.cmd.op = "remove"
  BY <1>1, <1>2 DEF PlaceOf, Cleaning
<1>4. /\ w \in Name /\ w \in x.touched /\ m \in Name \cup {Nil} /\ (m # Nil => m \in x.touched)
      /\ \A n \in {m, w} \cap Own(x) : \A e \in entries(file) : n \notin NamesOf(e)
  BY <1>3, CleanNames
<1>5. /\ DOMAIN agents' = Name
      /\ m \in Name => agents'[m] = Nil
      /\ \A n \in Name : n # m => agents'[n] = agents[n]
      /\ \A n : n \notin x.touched => agents'[n] = agents[n]
  <2>1. Nil \notin Name
    BY NamesAreNames
  <2>. QED
    BY <1>1, <1>4, <2>1 DEF Unlink
<1>6. /\ y \in Rec /\ y.pc = "unlinkwriter" /\ y.agent = m
      /\ y.cmd = x.cmd /\ y.todo = x.todo /\ y.touched = x.touched /\ y.mixed = x.mixed
  BY <1>1, GoesOn DEF Pcs, AtFiles
<1>. HIDE DEF y
<1>7. Own(y) = Own(x)
  BY <1>6 DEF Own
<1>8. PlaceOf(y)
  BY <1>3, <1>6 DEF PlaceOf, InLoop, InRender
<1>9. TouchOf(y, file) /\ CheckedOf(y, file)
  BY <1>1, <1>2, <1>6, <1>7 DEF ViewOf, TouchOf, CheckedOf
<1>10. RenderOf(y, file, agents') /\ SyncOf(y, file, agents')
  BY <1>6 DEF RenderOf, SyncOf, InRender, InLoop
<1>11. RemoveOf(y, file, agents')
  <2>1. m \in Own(x) => agents'[m] = Nil
    BY <1>1, <1>5 DEF Own, Rec
  <2>. QED
    BY <1>4, <1>6, <1>7, <2>1 DEF RemoveOf
<1>12. ViewOf(y, file, agents')
  BY <1>9, <1>10, <1>11 DEF ViewOf
<1>13. \A n \in Name : /\ n \in Pending(x, file) <=> n \in {m, w}
                       /\ n \in Pending(y, file) <=> n = w
  BY <1>1, <1>6 DEF Pending, InLoop
<1>14. \A n \in x.touched : n \in Name
  BY <1>1 DEF Rec
<1>15. \A n \in x.touched \ stale' : n \notin Pending(y, file) =>
          \/ Right(file, agents', n)
          \/ n \notin stale /\ n \notin Pending(x, file) /\ agents'[n] = agents[n]
  <2>. SUFFICES ASSUME m \in x.touched \ stale
                PROVE  Right(file, agents', m)
    BY <1>1, <1>5, <1>13, <1>14
  <2>1. m \in Own(x)
    BY <1>2
  <2>. QED
    BY <1>4, <1>5, <1>14, <2>1 DEF Right
<1>16. \A n \in x.touched \ stale' : n \notin Pending(y, file) =>
          \/ Owned(file, agents', n)
          \/ n \notin stale /\ n \notin Pending(x, file) /\ agents'[n] = agents[n]
  BY <1>1, <1>5, <1>13, <1>14 DEF Owned
<1>17. CountInv'
  <2>1. y.pc \in Cleaning
    BY <1>6 DEF Cleaning
  <2>. QED
    BY <1>1, <1>6, <2>1, CountKept DEF IInv
<1>18. lock' # p /\ \A q \in Proc : q # p => (lock' = q <=> lock = q)
  BY <1>1, LockStays
<1>19. y.pc \in Cleaning /\ y.pc # "save"
  BY <1>6 DEF Cleaning
<1>20. \A n : n \notin x.touched => agents'[n] = agents[n]
  BY <1>5
<1>21. /\ x = proc[p] /\ y \in Rec /\ proc' = [proc EXCEPT ![p] = y] /\ file' = file /\ DOMAIN agents' = Name
       /\ lock' \in Proc \cup {NoProc} /\ stale' = stale /\ stale \subseteq Name /\ x.mixed \subseteq stale
       /\ y.cmd \in Commands /\ y.touched = x.touched /\ y.mixed = x.mixed /\ x.pc \in Cleaning
  BY <1>1, <1>2, <1>3, <1>5, <1>6
<1>. HIDE DEF x, m, w
<1>. QED
  BY <1>8, <1>12, <1>15, <1>16, <1>17, <1>18, <1>19, <1>20, <1>21, StepKeeps

\* So is the second one.
LEMMA UnlinkWriterKeeps ==
    ASSUME IInv, NEW p \in Proc, UnlinkWriter(p)
    PROVE  IInv'
<1>. DEFINE x == proc[p]
            m == x.agent
            w == code_writer_agent_for(x.cmd.id)
            y == [x EXCEPT !.pc = "clear"]
<1>1. /\ x \in Rec /\ x.pc = "unlinkwriter" /\ UNCHANGED <<file, failing, stale, late, lock>>
      /\ proc \in [Proc -> Rec] /\ file \in Document \cup {NoRegistry} /\ lock \in Proc \cup {NoProc}
      /\ DOMAIN agents = Name /\ stale \subseteq Name
      /\ proc' = [proc EXCEPT ![p] = y]
  BY StepFacts DEF UnlinkWriter, Goto, historyVars
<1>2. PlaceOf(x) /\ ViewOf(x, file, agents) /\ x.mixed \subseteq stale /\ Own(x) = x.touched \ x.mixed
      /\ x.cmd \in Commands /\ Pending(x, file) \subseteq x.touched
  BY <1>1, StepFacts
<1>3. x.pc \in Cleaning /\ x.cmd.op = "remove"
  BY <1>1, <1>2 DEF PlaceOf, Cleaning
<1>4. /\ w \in Name /\ w \in x.touched /\ m \in Name \cup {Nil} /\ (m # Nil => m \in x.touched)
      /\ \A n \in {m, w} \cap Own(x) : \A e \in entries(file) : n \notin NamesOf(e)
  BY <1>3, CleanNames
<1>5. /\ DOMAIN agents' = Name /\ agents'[w] = Nil
      /\ \A n : n # w => agents'[n] = agents[n]
  BY <1>1, <1>4 DEF UnlinkWriter
<1>6. /\ y \in Rec /\ y.pc = "clear" /\ y.agent = m
      /\ y.cmd = x.cmd /\ y.todo = x.todo /\ y.touched = x.touched /\ y.mixed = x.mixed
  BY <1>1, GoesOn DEF Pcs, AtFiles
<1>. HIDE DEF y
<1>7. Own(y) = Own(x)
  BY <1>6 DEF Own
<1>8. PlaceOf(y)
  BY <1>3, <1>6 DEF PlaceOf, InLoop, InRender
<1>9. TouchOf(y, file) /\ CheckedOf(y, file)
  BY <1>1, <1>2, <1>6, <1>7 DEF ViewOf, TouchOf, CheckedOf
<1>10. RenderOf(y, file, agents') /\ SyncOf(y, file, agents')
  BY <1>6 DEF RenderOf, SyncOf, InRender, InLoop
<1>11. RemoveOf(y, file, agents')
  <2>1. m \in Own(x) => agents'[m] = Nil
    BY <1>1, <1>2, <1>3, <1>5 DEF ViewOf, RemoveOf
  <2>. QED
    BY <1>4, <1>5, <1>6, <1>7, <2>1 DEF RemoveOf
<1>12. ViewOf(y, file, agents')
  BY <1>9, <1>10, <1>11 DEF ViewOf
<1>13. \A n \in Name : /\ n \in Pending(x, file) <=> n = w
                       /\ n \notin Pending(y, file)
  BY <1>1, <1>6 DEF Pending, InLoop
<1>14. \A n \in x.touched : n \in Name
  BY <1>1 DEF Rec
<1>15. \A n \in x.touched \ stale' : n \notin Pending(y, file) =>
          \/ Right(file, agents', n)
          \/ n \notin stale /\ n \notin Pending(x, file) /\ agents'[n] = agents[n]
  <2>. SUFFICES ASSUME w \in x.touched \ stale
                PROVE  Right(file, agents', w)
    BY <1>1, <1>5, <1>13, <1>14
  <2>1. w \in Own(x)
    BY <1>2
  <2>. QED
    BY <1>4, <1>5, <2>1 DEF Right
<1>16. \A n \in x.touched \ stale' : n \notin Pending(y, file) =>
          \/ Owned(file, agents', n)
          \/ n \notin stale /\ n \notin Pending(x, file) /\ agents'[n] = agents[n]
  BY <1>1, <1>5, <1>13, <1>14 DEF Owned
<1>17. y.pc \in Cleaning /\ y.pc # "save"
  BY <1>6 DEF Cleaning
<1>18. CountInv'
  BY <1>1, <1>6, <1>17, CountKept DEF IInv
<1>19. lock' # p /\ \A q \in Proc : q # p => (lock' = q <=> lock = q)
  BY <1>1, LockStays
<1>20. \A n : n \notin x.touched => agents'[n] = agents[n]
  BY <1>4, <1>5
<1>21. /\ x = proc[p] /\ y \in Rec /\ proc' = [proc EXCEPT ![p] = y] /\ file' = file /\ DOMAIN agents' = Name
       /\ lock' \in Proc \cup {NoProc} /\ stale' = stale /\ stale \subseteq Name /\ x.mixed \subseteq stale
       /\ y.cmd \in Commands /\ y.touched = x.touched /\ y.mixed = x.mixed /\ x.pc \in Cleaning
  BY <1>1, <1>2, <1>3, <1>5, <1>6
<1>. HIDE DEF x, m, w
<1>. QED
  BY <1>8, <1>12, <1>15, <1>16, <1>17, <1>18, <1>19, <1>20, <1>21, StepKeeps

\* remove is over: its files are gone, and so is the count of its model.
LEMMA ClearBreakerKeeps ==
    ASSUME IInv, NEW p \in Proc, ClearBreaker(p)
    PROVE  IInv'
<1>. DEFINE x == proc[p]
            m == x.agent
            w == code_writer_agent_for(x.cmd.id)
            done == IF x.cmd.op = "remove" THEN {m, w} ELSE {}
            y == Idle
<1>1. /\ x \in Rec /\ x.pc = "clear" /\ UNCHANGED <<file, agents, lock>>
      /\ proc \in [Proc -> Rec] /\ file \in Document \cup {NoRegistry} /\ lock \in Proc \cup {NoProc}
      /\ DOMAIN agents = Name /\ stale \subseteq Name
      /\ proc' = [proc EXCEPT ![p] = y] /\ stale' = stale \ (done \ x.mixed)
      /\ failing' = failing \ {x.cmd.id} /\ late' = late \ {x.cmd.id}
  BY StepFacts DEF ClearBreaker, Ended
<1>2. PlaceOf(x) /\ ViewOf(x, file, agents) /\ x.mixed \subseteq stale /\ Own(x) = x.touched \ x.mixed
      /\ x.cmd \in Commands /\ x.mixed \subseteq x.touched
  BY <1>1, StepFacts
<1>3. x.pc \in Cleaning
  BY <1>1 DEF Cleaning
<1>4. x.cmd.op = "remove" =>
          /\ w \in Name /\ w \in x.touched /\ m \in Name \cup {Nil} /\ (m # Nil => m \in x.touched)
          /\ \A n \in {m, w} \cap Own(x) : \A e \in entries(file) : n \notin NamesOf(e)
          /\ \A n \in {m, w} \cap Own(x) : agents[n] = Nil
  <2>1. x.cmd.op = "remove" => \A n \in {m, w} \cap Own(x) : agents[n] = Nil
    BY <1>1, <1>2 DEF ViewOf, RemoveOf
  <2>. QED
    BY <1>3, <2>1, CleanNames
<1>5. /\ y \in Rec /\ y.pc = "idle" /\ y.touched = {} /\ y.mixed = {}
      /\ PlaceOf(y) /\ ViewOf(y, file, agents')
  BY IdleFacts
<1>6. Pending(x, file) = {}
  BY <1>1 DEF Pending, InLoop
<1>. HIDE DEF y
<1>7. Nil \notin Name /\ \A n \in x.touched : n \in Name
  BY <1>1, NamesAreNames DEF Rec
<1>8. \A n \in x.touched : n \in done /\ n \notin x.mixed =>
          (\A e \in entries(file) : n \notin NamesOf(e)) /\ agents'[n] = Nil
  BY <1>1, <1>2, <1>4, <1>7
<1>9. \A n \in x.touched \ stale' :
          \/ Right(file, agents', n)
          \/ n \notin stale /\ n \notin Pending(x, file) /\ agents'[n] = agents[n]
  BY <1>1, <1>6, <1>8 DEF Right
<1>10. \A n \in x.touched \ stale' :
          \/ Owned(file, agents', n)
          \/ n \notin stale /\ n \notin Pending(x, file) /\ agents'[n] = agents[n]
  BY <1>1, <1>6, <1>8 DEF Owned
<1>11. CountInv'
  <2>1. \A q \in Proc : q # p => proc'[q] = proc[q]
    BY <1>1
  <2>. SUFFICES ASSUME NEW id \in failing, id # x.cmd.id, id \notin ids(file) \cup late
                PROVE  \E q \in Proc : proc'[q].pc \in Cleaning /\ proc'[q].cmd.op = "remove" /\ proc'[q].cmd.id = id
    BY <1>1 DEF CountInv
  <2>2. PICK q \in Proc : proc[q].pc \in Cleaning /\ proc[q].cmd.op = "remove" /\ proc[q].cmd.id = id
    BY DEF IInv, CountInv
  <2>. QED
    BY <2>1, <2>2
<1>12. lock' # p /\ \A q \in Proc : q # p => (lock' = q <=> lock = q)
  BY <1>1, LockStays
<1>13. x.touched = {} => x.mixed = {}
  BY <1>2
<1>14. stale \subseteq stale' \cup Own(x)
  <2>1. \A n \in done : n \in stale => n \in x.touched
    BY <1>1, <1>4, <1>7
  <2>. QED
    BY <1>1, <1>2, <2>1
<1>. HIDE DEF x, m, w, done
<1>15. x = proc[p] /\ file' = file /\ stale' \subseteq Name /\ lock' \in Proc \cup {NoProc}
       /\ DOMAIN agents' = Name /\ \A n : n \notin x.touched => agents'[n] = agents[n]
  BY <1>1 DEF x
<1>. QED
  BY <1>1, <1>5, <1>9, <1>10, <1>11, <1>12, <1>13, <1>14, <1>15, StepKeeps

\* A work list is its first model and the rest.
LEMMA TodoFacts ==
    ASSUME NEW s \in Seq(Id), s # <<>>
    PROVE  /\ Tail(s) \in Seq(Id) /\ Range(s) = {Head(s)} \cup Range(Tail(s))
           /\ Len(s) = 1 => Range(s) = {Head(s)}
           /\ Len(s) # 1 => Tail(s) # <<>>
<1>1. Len(s) \in Nat /\ Len(s) >= 1 /\ DOMAIN s = 1..Len(s) /\ Head(s) = s[1]
  OBVIOUS
<1>2. /\ Tail(s) \in Seq(Id) /\ Len(Tail(s)) = Len(s) - 1 /\ DOMAIN Tail(s) = 1..(Len(s) - 1)
      /\ \A i \in 1..(Len(s) - 1) : Tail(s)[i] = s[i + 1]
  OBVIOUS
<1>3. Range(s) \subseteq {Head(s)} \cup Range(Tail(s))
  <2>. SUFFICES ASSUME NEW i \in 1..Len(s)
                PROVE  s[i] \in {Head(s)} \cup Range(Tail(s))
    BY <1>1 DEF Range
  <2>1. CASE i = 1
    BY <1>1, <2>1
  <2>2. CASE i # 1
    <3>1. i - 1 \in 1..(Len(s) - 1) /\ (i - 1) + 1 = i
      BY <1>1, <2>2
    <3>2. Tail(s)[i - 1] = s[i]
      BY <1>2, <3>1
    <3>. QED
      BY <1>2, <3>1, <3>2 DEF Range
  <2>. QED
    BY <2>1, <2>2
<1>4. {Head(s)} \cup Range(Tail(s)) \subseteq Range(s)
  <2>1. \A i \in 1..(Len(s) - 1) : i + 1 \in 1..Len(s)
    BY <1>1
  <2>2. 1 \in 1..Len(s)
    BY <1>1
  <2>3. \A i \in DOMAIN Tail(s) : Tail(s)[i] \in Range(s)
    BY <1>1, <1>2, <2>1 DEF Range
  <2>. QED
    BY <1>1, <2>2, <2>3 DEF Range
<1>5. Len(s) = 1 => Range(s) = {Head(s)}
  BY <1>1 DEF Range
<1>6. Len(s) # 1 => Tail(s) # <<>>
  <2>1. Len(s) # 1 => 1 \in DOMAIN Tail(s)
    BY <1>1, <1>2
  <2>2. DOMAIN << >> = {}
    OBVIOUS
  <2>. QED
    BY <2>1, <2>2
<1>. QED
  BY <1>2, <1>3, <1>4, <1>5, <1>6

\* A file that is right belongs to a model.
LEMMA RightOwned ==
    ASSUME NEW f, NEW a, NEW n, Right(f, a, n)
    PROVE  Owned(f, a, n)
<1>1. \A e : Wanted(e, n) = Nil \/ Wanted(e, n).model = e.id
  BY DEF Wanted, Rendered
<1>. QED
  BY <1>1 DEF Right, Owned

\* The last write for a model makes its own names right: b is a after it.
LEMMA RenderedRight ==
    ASSUME NEW x, NEW f \in Document \cup {NoRegistry}, NEW a, NEW b, RenderOf(x, f, a), x.pc = "writerwrite",
           NEW id, id = Head(x.todo), NEW w, w = code_writer_agent_for(id),
           b[w] = IF x.code THEN [model |-> id, block |-> x.block] ELSE IF w \in x.spare THEN a[w] ELSE Nil,
           \A n : n # w => b[n] = a[n],
           NoDup(f), NEW e \in entries(f), e.id = id, NEW n \in NamesOf(e) \cap Own(x), Unshared(f, n)
    PROVE  Right(f, b, n)
<1>1. \A d \in entries(f) : n \in NamesOf(d) => d = e
  <2>1. \A d \in entries(f) : n \in NamesOf(d) => d.id = id
    BY DEF Unshared
  <2>2. id \in ids(f)
    BY DEF ids
  <2>. QED
    BY <2>1, <2>2, EntryOfFacts
<1>2. /\ x.agent = agent_for(e)
      /\ x.code <=> "code-write" \in e.roles
      /\ x.block = thinking_block(e, "code-write")
      /\ agent_for(e) \in Own(x) => a[agent_for(e)] = Rendered(e, "bulk-read")
      /\ x.spare \cap Own(x) = bulk_agents(f) \cap Own(x)
  BY DEF RenderOf, InRender
<1>3. agent_for(e) # w
  BY DEF Unshared
<1>4. CASE n = agent_for(e)
  BY <1>1, <1>2, <1>3, <1>4 DEF Right, Wanted
<1>5. CASE n = w
  <2>1. w \notin x.spare
    <3>. SUFFICES ASSUME w \in bulk_agents(f)
                  PROVE  FALSE
      BY <1>2, <1>5
    <3>1. PICK i \in ids(f) : w = agent_for(EntryOf(f, i))
      BY DEF bulk_agents
    <3>2. EntryOf(f, i) \in entries(f) /\ w \in NamesOf(EntryOf(f, i))
      BY <3>1, EntryOfFacts DEF NamesOf
    <3>. QED
      BY <1>1, <1>3, <1>5, <3>1, <3>2
  <2>2. b[w] = Wanted(e, w)
    BY <1>2, <1>3, <2>1 DEF Wanted, Rendered
  <2>. QED
    BY <1>1, <1>5, <2>2 DEF Right
<1>. QED
  BY <1>4, <1>5 DEF NamesOf

\* What writing the code-writer file does: the names of the model that is
\* rendered are right, and so are those sync is through with.
LEMMA WriterWrites ==
    ASSUME IInv, NEW p \in Proc, WriteWriter(p), NEW x, x = proc[p], NEW id, id = Head(x.todo),
           NEW w, w = code_writer_agent_for(id)
    PROVE  /\ x.pc = "writerwrite" /\ UNCHANGED <<file, failing, late, lock>>
           /\ DOMAIN agents' = Name /\ (\A n : n # w => agents'[n] = agents[n])
           /\ w \in x.touched
           /\ w \in Own(x) => \E e \in entries(file) : e.id = id /\ w \in NamesOf(e)
           /\ w \in Own(x) => Owned(file, agents', w) \/ agents'[w] = agents[w]
           /\ w \in Own(x) /\ (x.code \/ w \notin x.spare) => Owned(file, agents', w)
           /\ \A e \in entries(file) : \A n \in NamesOf(e) \cap Own(x) :
                 /\ NoDup(file) /\ Unshared(file, n)
                 /\ e.id = id \/ (x.cmd.op = "sync" /\ e.id \notin Range(x.todo))
                 => Right(file, agents', n)
<1>1. /\ x \in Rec /\ x.pc = "writerwrite" /\ UNCHANGED <<file, failing, late, lock>>
      /\ DOMAIN agents = Name /\ file \in Document \cup {NoRegistry} /\ ViewOf(x, file, agents)
  BY StepFacts DEF WriteWriter
<1>2. w \in Name /\ w \in x.touched
  <2>1. x.pc \in InRender
    BY <1>1 DEF InRender
  <2>. QED
    BY <2>1, RenderNames
<1>3. /\ agents'[w] = IF x.code THEN [model |-> id, block |-> x.block] ELSE IF w \in x.spare THEN agents[w] ELSE Nil
      /\ DOMAIN agents' = Name /\ (\A n : n # w => agents'[n] = agents[n])
  BY <1>1, <1>2 DEF WriteWriter
<1>4. RenderOf(x, file, agents) /\ SyncOf(x, file, agents)
  BY <1>1 DEF ViewOf
<1>5. ASSUME w \in Own(x)
      PROVE  \E e \in entries(file) : e.id = id /\ w \in NamesOf(e)
  BY <1>1, <1>4, <1>5 DEF RenderOf, InRender, ids, NamesOf
<1>6. ASSUME w \in Own(x)
      PROVE  IF x.code \/ w \notin x.spare THEN Owned(file, agents', w) ELSE agents'[w] = agents[w]
  <2>1. PICK e \in entries(file) : e.id = id /\ w \in NamesOf(e)
    BY <1>5, <1>6
  <2>2. CASE x.code
    <3>1. agents'[w].model = id
      BY <1>3, <2>2
    <3>. QED
      BY <2>1, <2>2, <3>1 DEF Owned
  <2>3. CASE ~x.code /\ w \in x.spare
    BY <1>3, <2>3
  <2>4. CASE ~x.code /\ w \notin x.spare
    BY <1>3, <2>4 DEF Owned
  <2>. QED
    BY <2>2, <2>3, <2>4
<1>7. ASSUME NEW e \in entries(file), NEW n \in NamesOf(e) \cap Own(x), NoDup(file), Unshared(file, n), e.id = id
      PROVE  Right(file, agents', n)
  BY <1>1, <1>3, <1>4, <1>7, RenderedRight
<1>8. ASSUME NEW e \in entries(file), NEW n \in NamesOf(e) \cap Own(x), NoDup(file), Unshared(file, n),
             x.cmd.op = "sync", e.id \notin Range(x.todo), e.id # id
      PROVE  Right(file, agents', n)
  <2>1. agents[n] = Wanted(e, n)
    BY <1>1, <1>4, <1>8 DEF SyncOf, InLoop
  <2>2. n # w
    <3>. SUFFICES ASSUME n = w
                  PROVE  FALSE
      OBVIOUS
    <3>1. PICK d \in entries(file) : d.id = id /\ n \in NamesOf(d)
      BY <1>5
    <3>. QED
      BY <1>8, <3>1 DEF Unshared
  <2>3. \A d \in entries(file) : n \in NamesOf(d) => d = e
    <3>1. \A d \in entries(file) : n \in NamesOf(d) => d.id = e.id
      BY <1>8 DEF Unshared
    <3>2. e.id \in ids(file)
      BY DEF ids
    <3>. QED
      BY <1>1, <1>8, <3>1, <3>2, EntryOfFacts
  <2>. QED
    BY <1>3, <2>1, <2>2, <2>3 DEF Right
<1>. QED
  BY <1>1, <1>2, <1>3, <1>5, <1>6, <1>7, <1>8

\* sync goes on with the next model.
LEMMA NextModelKeeps ==
    ASSUME IInv, NEW p \in Proc, WriteWriter(p), Len(proc[p].todo) # 1
    PROVE  IInv'
<1>. DEFINE x == proc[p]
            s == x.todo
            id == Head(s)
            w == code_writer_agent_for(id)
            y == [x EXCEPT !.pc = "look", !.todo = Tail(@), !.agent = Nil,
                           !.code = FALSE, !.block = Nil, !.spare = {}]
<1>1. /\ x.pc = "writerwrite" /\ UNCHANGED <<file, failing, late, lock>>
      /\ DOMAIN agents' = Name /\ (\A n : n # w => agents'[n] = agents[n])
      /\ w \in x.touched
  BY WriterWrites
<1>2. w \in Own(x) => \E e \in entries(file) : e.id = id /\ w \in NamesOf(e)
  BY WriterWrites
<1>3. w \in Own(x) => Owned(file, agents', w) \/ agents'[w] = agents[w]
  BY WriterWrites
<1>4. \A e \in entries(file) : \A n \in NamesOf(e) \cap Own(x) :
          /\ NoDup(file) /\ Unshared(file, n)
          /\ e.id = id \/ (x.cmd.op = "sync" /\ e.id \notin Range(s))
          => Right(file, agents', n)
  BY WriterWrites
<1>5. /\ x \in Rec /\ proc \in [Proc -> Rec] /\ file \in Document \cup {NoRegistry} /\ lock \in Proc \cup {NoProc}
      /\ stale \subseteq Name /\ PlaceOf(x) /\ ViewOf(x, file, agents) /\ x.mixed \subseteq stale
      /\ Own(x) = x.touched \ x.mixed /\ x.cmd \in Commands
  BY <1>1, StepFacts
<1>6. stale' = stale /\ proc' = [proc EXCEPT ![p] = y]
  BY DEF WriteWriter, Materialized
<1>7. x.cmd.op = "sync" /\ s # <<>> /\ s \in Seq(Id)
  <2>1. s # <<>> /\ (x.cmd.op # "sync" => s = <<x.cmd.id>>)
    BY <1>1, <1>5 DEF PlaceOf, InLoop
  <2>2. s \in Seq(Id)
    BY <1>5 DEF Rec
  <2>3. s = <<x.cmd.id>> => Len(s) = 1
    OBVIOUS
  <2>. QED
    BY <2>1, <2>2, <2>3
<1>8. Tail(s) \in Seq(Id) /\ Range(s) = {id} \cup Range(Tail(s)) /\ Tail(s) # <<>>
  BY <1>7, TodoFacts
<1>9. /\ y \in Rec /\ y.pc = "look" /\ y.todo = Tail(s) /\ y.agent = Nil
      /\ y.cmd = x.cmd /\ y.touched = x.touched /\ y.mixed = x.mixed
  BY <1>5, <1>8 DEF Rec, Pcs, AtFiles
<1>. HIDE DEF y
<1>10. Own(y) = Own(x)
  BY <1>9 DEF Own
<1>11. PlaceOf(y)
  BY <1>7, <1>8, <1>9 DEF PlaceOf, InLoop, InRender
<1>12. TouchOf(y, file) /\ CheckedOf(y, file)
  BY <1>1, <1>5, <1>9, <1>10 DEF ViewOf, TouchOf, CheckedOf
<1>13. SyncOf(y, file, agents')
  <2>. SUFFICES ASSUME NEW e \in entries(file), NEW n \in NamesOf(e) \cap Own(x), e.id \notin Range(Tail(s))
                PROVE  agents'[n] = Wanted(e, n)
    BY <1>9, <1>10 DEF SyncOf
  <2>1. NoDup(file) /\ Unshared(file, n)
    BY <1>1, <1>5, <1>7 DEF ViewOf, CheckedOf
  <2>2. Right(file, agents', n)
    BY <1>4, <1>7, <1>8, <2>1
  <2>. QED
    BY <2>2 DEF Right
<1>14. RenderOf(y, file, agents') /\ RemoveOf(y, file, agents')
  BY <1>7, <1>9 DEF RenderOf, RemoveOf, InRender
<1>15. ViewOf(y, file, agents')
  BY <1>12, <1>13, <1>14 DEF ViewOf
<1>16. \A n \in Name : /\ n \in Pending(x, file) <=> \E e \in entries(file) : e.id \in Range(s) /\ n \in NamesOf(e)
                       /\ n \in Pending(y, file) <=> \E e \in entries(file) : e.id \in Range(Tail(s)) /\ n \in NamesOf(e)
  BY <1>1, <1>9 DEF Pending, InLoop
<1>17. \A n \in x.touched : n \in Name
  BY <1>5 DEF Rec
<1>18. \A n \in x.touched \ stale' : NoDup(file) /\ Unshared(file, n) /\ n \notin Pending(y, file) =>
          \/ Right(file, agents', n)
          \/ n \notin stale /\ n \notin Pending(x, file) /\ agents'[n] = agents[n]
  <2>. SUFFICES ASSUME NEW n \in x.touched, n \notin stale, NoDup(file), Unshared(file, n), n \notin Pending(y, file),
                       ~Right(file, agents', n)
                PROVE  n \notin Pending(x, file) /\ agents'[n] = agents[n]
    BY <1>6
  <2>1. n \in Name /\ n \in Own(x)
    BY <1>5, <1>17
  <2>2. n \notin Pending(x, file)
    <3>. SUFFICES ASSUME NEW e \in entries(file), e.id \in Range(s), n \in NamesOf(e)
                  PROVE  FALSE
      BY <1>16, <2>1
    <3>1. e.id = id
      BY <1>8, <1>16, <2>1
    <3>. QED
      BY <1>4, <2>1, <3>1
  <2>3. n # w
    BY <1>2, <1>8, <1>16, <2>1, <2>2
  <2>. QED
    BY <1>1, <2>2, <2>3
<1>19. \A n \in x.touched \ stale' :
          \/ Owned(file, agents', n)
          \/ n \notin stale /\ (x.pc \in Cleaning => n \notin Pending(x, file)) /\ agents'[n] = agents[n]
  BY <1>1, <1>3, <1>5, <1>6 DEF Cleaning
<1>20. CountInv'
  BY <1>1, <1>5, <1>6, CountKept DEF IInv, Cleaning
<1>21. lock' # p /\ \A q \in Proc : q # p => (lock' = q <=> lock = q)
  BY <1>1, LockStays
<1>22. y.pc \notin Cleaning /\ y.pc # "save"
  BY <1>9 DEF Cleaning
<1>23. \A n : n \notin x.touched => agents'[n] = agents[n]
  BY <1>1
<1>. HIDE DEF x, w
<1>24. x = proc[p] /\ file' = file /\ stale' \subseteq Name /\ lock' \in Proc \cup {NoProc} /\ DOMAIN agents' = Name
       /\ stale \subseteq stale'
  BY <1>1, <1>5, <1>6 DEF x
<1>. QED
  BY <1>5, <1>6, <1>9, <1>11, <1>15, <1>18, <1>19, <1>20, <1>21, <1>22, <1>23, <1>24, StepKeeps

\* The command is over: what it calls done is right.
LEMMA LastModelKeeps ==
    ASSUME IInv, NEW p \in Proc, WriteWriter(p), Len(proc[p].todo) = 1
    PROVE  IInv'
<1>. DEFINE x == proc[p]
            s == x.todo
            id == Head(s)
            m == x.agent
            w == code_writer_agent_for(id)
            done == IF x.cmd.op = "sync" THEN UNION {NamesOf(e) : e \in entries(file)} ELSE Rendering(p)
            y == Idle
<1>1. /\ x.pc = "writerwrite" /\ UNCHANGED <<file, failing, late, lock>>
      /\ DOMAIN agents' = Name /\ (\A n : n # w => agents'[n] = agents[n])
      /\ w \in x.touched
  BY WriterWrites
<1>2. w \in Own(x) => \E e \in entries(file) : e.id = id /\ w \in NamesOf(e)
  BY WriterWrites
<1>3. w \in Own(x) => Owned(file, agents', w) \/ agents'[w] = agents[w]
  BY WriterWrites
<1>4. \A e \in entries(file) : \A n \in NamesOf(e) \cap Own(x) :
          /\ NoDup(file) /\ Unshared(file, n)
          /\ e.id = id \/ (x.cmd.op = "sync" /\ e.id \notin Range(s))
          => Right(file, agents', n)
  BY WriterWrites
<1>5. /\ x \in Rec /\ proc \in [Proc -> Rec] /\ file \in Document \cup {NoRegistry} /\ lock \in Proc \cup {NoProc}
      /\ stale \subseteq Name /\ PlaceOf(x) /\ ViewOf(x, file, agents) /\ x.mixed \subseteq stale
      /\ Own(x) = x.touched \ x.mixed /\ x.cmd \in Commands /\ x.mixed \subseteq x.touched
  BY <1>1, StepFacts
<1>6. stale' = stale \ (done \ x.mixed) /\ proc' = [proc EXCEPT ![p] = y]
  BY DEF WriteWriter, Materialized, Ended
<1>7. m \in Name /\ m \in x.touched /\ Range(s) = {id}
  <2>1. x.pc \in InRender
    BY <1>1 DEF InRender
  <2>2. s \in Seq(Id) /\ s # <<>> /\ m \in Name /\ m \in x.touched
    BY <2>1, RenderNames
  <2>. QED
    BY <2>2, TodoFacts
<1>8. /\ y \in Rec /\ y.pc = "idle" /\ y.touched = {} /\ y.mixed = {}
      /\ PlaceOf(y) /\ ViewOf(y, file, agents') /\ Pending(y, file) = {}
  BY IdleFacts
<1>. HIDE DEF y
<1>9. \A n \in x.touched : n \in Name
  BY <1>5 DEF Rec
<1>10. done \subseteq x.touched
  <2>1. CASE x.cmd.op = "sync"
    <3>1. x.touched = Name
      BY <1>1, <1>5, <2>1 DEF ViewOf, TouchOf
    <3>. QED
      BY <1>5, <2>1, <3>1, EntriesAreEntries
  <2>2. CASE x.cmd.op # "sync"
    BY <1>1, <1>7, <2>2 DEF Rendering
  <2>. QED
    BY <2>1, <2>2
<1>11. m \in Own(x) => (\E e \in entries(file) : e.id = id /\ m \in NamesOf(e)) /\ agents[m].model = id
  BY <1>1, <1>5 DEF ViewOf, RenderOf, InRender, NamesOf
<1>12. \A n \in Name : n \in Pending(x, file) <=> \E e \in entries(file) : e.id = id /\ n \in NamesOf(e)
  BY <1>1, <1>7 DEF Pending, InLoop
<1>13. ASSUME NEW n \in Own(x), NoDup(file), Unshared(file, n)
       PROVE  \/ Right(file, agents', n)
              \/ n \notin done /\ n \notin Pending(x, file) /\ agents'[n] = agents[n]
  <2>1. CASE \E e \in entries(file) : e.id = id /\ n \in NamesOf(e)
    BY <1>4, <1>13, <2>1
  <2>2. CASE ~ \E e \in entries(file) : e.id = id /\ n \in NamesOf(e)
    <3>1. n # w /\ n # m /\ n \in Name
      BY <1>2, <1>9, <1>11, <1>13, <2>2 DEF Own
    <3>2. n \notin Pending(x, file) /\ agents'[n] = agents[n]
      BY <1>1, <1>12, <2>2, <3>1
    <3>3. CASE x.cmd.op = "sync"
      <4>1. \A e \in entries(file) : n \in NamesOf(e) => e.id \notin Range(s)
        BY <1>7, <2>2
      <4>. QED
        BY <1>4, <1>13, <3>2, <3>3, <4>1
    <3>4. CASE x.cmd.op # "sync"
      BY <3>1, <3>2, <3>4 DEF Rendering
    <3>. QED
      BY <3>3, <3>4
  <2>. QED
    BY <2>1, <2>2
<1>14. ASSUME NEW n \in Own(x), n \in done
       PROVE  Owned(file, agents', n)
  <2>1. CASE x.cmd.op = "sync"
    <3>1. NoDup(file) /\ Unshared(file, n)
      BY <1>1, <1>5, <1>14, <2>1 DEF ViewOf, CheckedOf
    <3>2. Right(file, agents', n)
      BY <1>13, <1>14, <3>1
    <3>. QED
      BY <3>2, RightOwned
  <2>2. CASE x.cmd.op # "sync"
    <3>1. CASE n # w
      BY <1>1, <1>11, <1>14, <2>2, <3>1 DEF Rendering, Owned
    <3>2. CASE n = w
      <4>1. CASE x.code \/ w \notin x.spare
        BY <1>14, <3>2, <4>1, WriterWrites
      <4>2. CASE ~(x.code \/ w \notin x.spare)
        <5>1. w = m
          BY <1>14, <2>2, <3>2, <4>2 DEF Rendering
        <5>. QED
          BY <1>3, <1>11, <1>14, <3>2, <5>1 DEF Owned
      <4>. QED
        BY <4>1, <4>2
    <3>. QED
      BY <3>1, <3>2
  <2>. QED
    BY <2>1, <2>2
<1>. HIDE DEF done
<1>15. \A n \in x.touched \ stale' : n \in Own(x) /\ (n \notin done => n \notin stale)
  BY <1>5, <1>6
<1>16. \A n \in x.touched \ stale' : NoDup(file) /\ Unshared(file, n) =>
          \/ Right(file, agents', n)
          \/ n \notin stale /\ n \notin Pending(x, file) /\ agents'[n] = agents[n]
  BY <1>13, <1>15
<1>17. \A n \in x.touched \ stale' :
          \/ Owned(file, agents', n)
          \/ n \notin stale /\ (x.pc \in Cleaning => n \notin Pending(x, file)) /\ agents'[n] = agents[n]
  BY <1>1, <1>3, <1>14, <1>15 DEF Cleaning
<1>18. CountInv'
  BY <1>1, <1>5, <1>6, CountKept DEF IInv, Cleaning
<1>19. lock' # p /\ \A q \in Proc : q # p => (lock' = q <=> lock = q)
  BY <1>1, LockStays
<1>20. \A n : n \notin x.touched => agents'[n] = agents[n]
  BY <1>1
<1>21. stale \subseteq stale' \cup Own(x) /\ (x.touched = {} => x.mixed = {})
  BY <1>5, <1>6, <1>10
<1>. HIDE DEF x, w, m
<1>22. /\ x = proc[p] /\ proc' = [proc EXCEPT ![p] = y] /\ file' = file /\ stale' \subseteq Name
       /\ lock' \in Proc \cup {NoProc} /\ DOMAIN agents' = Name
  BY <1>1, <1>5, <1>6 DEF x
<1>. QED
  BY <1>8, <1>16, <1>17, <1>18, <1>19, <1>20, <1>21, <1>22, StepKeeps

\* The code-writer file is written or unlinked, and the command goes on or ends.
LEMMA WriteWriterKeeps ==
    ASSUME IInv, NEW p \in Proc, WriteWriter(p)
    PROVE  IInv'
BY NextModelKeeps, LastModelKeeps

(***************************************************************************)
(* The edit                                                                *)
(***************************************************************************)

Saved(x) ==
    IF AfterSave(x.cmd) = "done"
        THEN Idle ELSE [x EXCEPT !.pc = AfterSave(x.cmd), !.doc = Nil, !.todo = <<x.cmd.id>>]

\* Where a command is after its edit.
LEMMA SavedFacts ==
    ASSUME NEW x \in Rec, x.cmd \in Commands, x.cmd.op # "sync", NEW y, y = Saved(x)
    PROVE  /\ y \in Rec /\ y.pc # "save"
           /\ x.cmd.op \in {"add", "thinking", "roles"} => y.pc = "look"
           /\ x.cmd.op = "remove" => y.pc = "unlink"
           /\ x.cmd.op \in {"context", "oversize"} => y.pc = "clear"
           /\ x.cmd.op \in {"add", "thinking", "roles", "remove", "context", "oversize"} =>
                 /\ y.cmd = x.cmd /\ y.agent = x.agent /\ y.touched = x.touched /\ y.mixed = x.mixed
                 /\ y.todo = <<x.cmd.id>>
           /\ x.cmd.op \notin {"add", "thinking", "roles", "remove", "context", "oversize"} => y = Idle
<1>1. x.cmd.id \in Id
  BY CommandFields
<1>2. <<x.cmd.id>> \in Seq(Id)
  BY <1>1
<1>3. CASE x.cmd.op \in {"add", "thinking", "roles", "remove", "context", "oversize"}
  <2>1. /\ AfterSave(x.cmd) \in {"look", "unlink", "clear"}
        /\ x.cmd.op \in {"add", "thinking", "roles"} => AfterSave(x.cmd) = "look"
        /\ x.cmd.op = "remove" => AfterSave(x.cmd) = "unlink"
        /\ x.cmd.op \in {"context", "oversize"} => AfterSave(x.cmd) = "clear"
    BY <1>3 DEF AfterSave
  <2>2. y = [x EXCEPT !.pc = AfterSave(x.cmd), !.doc = Nil, !.todo = <<x.cmd.id>>]
    BY <2>1 DEF Saved
  <2>3. /\ y.pc = AfterSave(x.cmd) /\ y.cmd = x.cmd /\ y.agent = x.agent
        /\ y.touched = x.touched /\ y.mixed = x.mixed /\ y.todo = <<x.cmd.id>>
    BY <2>2 DEF Rec
  <2>4. y \in Rec
    BY <1>2, <2>1, <2>2 DEF Rec, Pcs, AtFiles
  <2>. QED
    BY <1>3, <2>1, <2>3, <2>4
<1>4. CASE x.cmd.op \notin {"add", "thinking", "roles", "remove", "context", "oversize"}
  <2>1. y = Idle
    BY <1>4 DEF Saved, AfterSave
  <2>. QED
    BY <1>4, <2>1, IdleFacts
<1>. QED
  BY <1>3, <1>4

\* The edit is one of the document as it is, and of the names the command has.
LEMMA SaveFacts ==
    ASSUME IInv, NEW p \in Proc, Save(p), NEW x, x = proc[p]
    PROVE  /\ x \in Rec /\ x.pc = "save" /\ x.cmd \in Commands /\ x.cmd.id \in Id /\ x.cmd.op # "sync" /\ lock = p
           /\ file' = Edited(x.cmd, file) /\ EditRelates(x.cmd, file, file')
           /\ proc' = [proc EXCEPT ![p] = Saved(x)] /\ lock' = NoProc
           /\ UNCHANGED <<agents, failing, stale, late>>
           /\ ~Refuses(x.cmd, file)
           /\ x.cmd.op \in EditsFiles => NamesFor(file, x.cmd.id) \subseteq x.touched
<1>1. /\ x \in Rec /\ PlaceOf(x) /\ ViewOf(x, file, agents) /\ x.pc = "save"
      /\ file \in Document \cup {NoRegistry} /\ proc \in [Proc -> Rec] /\ stale \subseteq Name
  BY StepFacts DEF Save
<1>2. x.cmd \in Commands /\ x.doc = file /\ lock = p
  BY <1>1, StepFacts DEF IInv, LockInv
<1>3. x.cmd.id \in Id /\ x.cmd.op # "sync"
  BY <1>1, <1>2, CommandFields DEF PlaceOf
<1>4. ~Refuses(x.cmd, file) /\ file' = Edited(x.cmd, file)
  BY <1>2 DEF Save
<1>5. x.cmd.op \in {"remove", "reorder"} => NoDup(file)
  BY <1>1 DEF ViewOf, CheckedOf
<1>6. EditRelates(x.cmd, file, file')
  BY <1>1, <1>2, <1>3, <1>4, <1>5, EditFacts
<1>7. x.cmd.op \in EditsFiles => NamesFor(file, x.cmd.id) \subseteq x.touched
  BY <1>1 DEF ViewOf, TouchOf
<1>8. /\ proc' = [proc EXCEPT ![p] = Saved(x)] /\ lock' = NoProc
      /\ UNCHANGED <<agents, failing, stale, late>>
  BY <1>1 DEF Save, Saved, Ended
<1>. QED
  BY <1>1, <1>2, <1>3, <1>4, <1>6, <1>7, <1>8

\* To who does not have the names of the model nothing has changed, and to
\* nobody if the edit changes no file.
LEMMA SaveSame ==
    ASSUME IInv, NEW p \in Proc, Save(p), NEW N,
           proc[p].cmd.op \in EditsFiles => N \cap NamesFor(file, proc[p].cmd.id) = {}
    PROVE  Same(file, file', N)
<1>1. EditRelates(proc[p].cmd, file, file') /\ file \in Document \cup {NoRegistry}
  BY SaveFacts, StepFacts
<1>2. \A e \in entries(file) \cup entries(file') :
          e.id = proc[p].cmd.id => NamesOf(e) \subseteq NamesFor(file, proc[p].cmd.id)
  BY <1>1, EntriesAreEntries DEF EditRelates
<1>. QED
  BY <1>1, <1>2, EditSame

\* So every other command keeps its view.
LEMMA SaveOthers ==
    ASSUME IInv, NEW p \in Proc, Save(p), NEW q \in Proc, q # p
    PROVE  ViewOf(proc[q], file', agents)
<1>1. /\ EditRelates(proc[p].cmd, file, file') /\ ViewOf(proc[q], file, agents)
      /\ proc[p].cmd.op \in EditsFiles => NamesFor(file, proc[p].cmd.id) \subseteq proc[p].touched
  BY SaveFacts, StepFacts
<1>2. proc[p].touched \cap Own(proc[q]) = {}
  BY DEF IInv, SharedInv, Own
<1>3. Same(file, file', Own(proc[q]))
  BY <1>1, <1>2, SaveSame
<1>4. \A id : NamesFor(file', id) \subseteq NamesFor(file, id)
  BY <1>1, NamesShrink
<1>. QED
  BY <1>1, <1>3, <1>4, ViewOfSame

\* The command itself has the view of its next place.
LEMMA SaveView ==
    ASSUME IInv, NEW p \in Proc, Save(p), NEW y, y = Saved(proc[p])
    PROVE  PlaceOf(y) /\ ViewOf(y, file', agents)
<1>. DEFINE x == proc[p]
            z == x.cmd.id
            w == code_writer_agent_for(z)
            g == file'
<1>1. /\ x \in Rec /\ x.pc = "save" /\ x.cmd \in Commands /\ x.cmd.op # "sync"
      /\ EditRelates(x.cmd, file, g)
      /\ x.cmd.op \in EditsFiles => NamesFor(file, z) \subseteq x.touched
  BY SaveFacts
<1>2. ViewOf(x, file, agents)
  BY StepFacts
<1>3. /\ x.cmd.op \in {"add", "thinking", "roles"} => y.pc = "look"
      /\ x.cmd.op = "remove" => y.pc = "unlink"
      /\ x.cmd.op \in {"context", "oversize"} => y.pc = "clear"
      /\ x.cmd.op \in {"add", "thinking", "roles", "remove", "context", "oversize"} =>
            /\ y.cmd = x.cmd /\ y.agent = x.agent /\ y.touched = x.touched /\ y.mixed = x.mixed
            /\ y.todo = <<z>>
      /\ x.cmd.op \notin {"add", "thinking", "roles", "remove", "context", "oversize"} => y = Idle
  BY <1>1, SavedFacts
<1>. HIDE DEF g
<1>4. NamesFor(g, z) \subseteq NamesFor(file, z) /\ (NoDup(file) <=> NoDup(g))
  BY <1>1, NamesShrink DEF EditRelates
<1>5. CASE x.cmd.op \notin {"add", "thinking", "roles", "remove", "context", "oversize"}
  BY <1>3, <1>5, IdleFacts DEF g
<1>6. CASE x.cmd.op \in {"context", "oversize"}
  <2>1. y.pc = "clear" /\ y.cmd = x.cmd /\ y.touched = x.touched /\ y.mixed = x.mixed
    BY <1>3, <1>6
  <2>2. PlaceOf(y)
    BY <1>6, <2>1 DEF PlaceOf, InLoop, InRender
  <2>3. TouchOf(y, g) /\ CheckedOf(y, g) /\ RenderOf(y, g, agents) /\ SyncOf(y, g, agents) /\ RemoveOf(y, g, agents)
    BY <1>1, <1>2, <1>6, <2>1 DEF ViewOf, TouchOf, CheckedOf, RenderOf, SyncOf, RemoveOf, EditsFiles, InLoop, InRender
  <2>. QED
    BY <2>2, <2>3 DEF ViewOf, g
<1>7. CASE x.cmd.op \in {"add", "thinking", "roles"}
  <2>1. /\ y.pc = "look" /\ y.cmd = x.cmd /\ y.agent = x.agent /\ y.touched = x.touched /\ y.mixed = x.mixed
        /\ y.todo = <<z>> /\ <<z>> # << >>
    BY <1>3, <1>7
  <2>2. PlaceOf(y)
    BY <1>7, <2>1 DEF PlaceOf, InLoop, InRender
  <2>3. TouchOf(y, g)
    BY <1>1, <1>2, <1>4, <1>7, <2>1 DEF ViewOf, TouchOf, EditsFiles
  <2>4. CheckedOf(y, g)
    <3>. SUFFICES ASSUME x.cmd.op = "thinking"
                  PROVE  NoDup(g) /\ \A n \in Own(x) : Unshared(g, n)
      BY <1>7, <2>1 DEF CheckedOf, Own
    <3>1. NoDup(file) /\ \A n \in Own(x) : Unshared(file, n)
      BY <1>1, <1>2 DEF ViewOf, CheckedOf
    <3>2. \A e \in entries(g) : \E d \in entries(file) :
              d.id = e.id /\ agent_for(d) = agent_for(e) /\ NamesOf(d) = NamesOf(e)
      BY <1>1 DEF EditRelates, agent_for, NamesOf
    <3>. QED
      BY <1>4, <3>1, <3>2 DEF Unshared
  <2>5. RenderOf(y, g, agents) /\ SyncOf(y, g, agents) /\ RemoveOf(y, g, agents)
    BY <1>7, <2>1 DEF RenderOf, SyncOf, RemoveOf, InRender
  <2>. QED
    BY <2>2, <2>3, <2>4, <2>5 DEF ViewOf, g
<1>8. CASE x.cmd.op = "remove"
  <2>1. /\ y.pc = "unlink" /\ y.cmd = x.cmd /\ y.agent = x.agent /\ y.touched = x.touched /\ y.mixed = x.mixed
    BY <1>3, <1>8
  <2>2. PlaceOf(y)
    BY <1>8, <2>1 DEF PlaceOf, InLoop, InRender
  <2>3. TouchOf(y, g)
    BY <1>1, <1>2, <1>4, <1>8, <2>1 DEF ViewOf, TouchOf, EditsFiles
  <2>4. NoDup(file) /\ \A n \in Own(x) : Unshared(file, n)
    BY <1>1, <1>2, <1>8 DEF ViewOf, CheckedOf
  <2>5. \A e \in entries(g) : e \in entries(file) /\ e.id # z
    BY <1>1, <1>8 DEF EditRelates, ids
  <2>6. CheckedOf(y, g)
    BY <1>4, <2>1, <2>4, <2>5 DEF CheckedOf, Own, Unshared
  <2>7. \A n \in {x.agent, w} \cap Own(x) : \E d \in entries(file) : d.id = z /\ n \in NamesOf(d)
    BY <1>1, <1>2, <1>8 DEF ViewOf, RemoveOf, NamesOf, ids
  <2>8. \A n \in {x.agent, w} \cap Own(x) : \A e \in entries(g) : n \notin NamesOf(e)
    BY <2>4, <2>5, <2>7 DEF Unshared
  <2>9. RemoveOf(y, g, agents)
    BY <2>1, <2>8 DEF RemoveOf, Own
  <2>10. RenderOf(y, g, agents) /\ SyncOf(y, g, agents)
    BY <2>1 DEF RenderOf, SyncOf, InRender, InLoop
  <2>. QED
    BY <2>2, <2>3, <2>6, <2>9, <2>10 DEF ViewOf, g
<1>. QED
  BY <1>5, <1>6, <1>7, <1>8

\* What has gone wrong with no name can only go wrong with one of the model,
\* and those are pending now.
LEMMA SavePending ==
    ASSUME IInv, NEW p \in Proc, Save(p), NEW y, y = Saved(proc[p]), NEW n \in Name \ stale,
           n \notin Pending(y, file')
    PROVE  \/ Same(file, file', {n})
           \/ /\ proc[p].cmd.op \in EditsFiles
              /\ \A e \in entries(file) \cup entries(file') : e.id = proc[p].cmd.id => n \notin NamesOf(e)
<1>. DEFINE x == proc[p]
            z == x.cmd.id
            w == code_writer_agent_for(z)
            g == file'
<1>1. /\ x \in Rec /\ x.pc = "save" /\ x.cmd \in Commands /\ x.cmd.op # "sync"
      /\ EditRelates(x.cmd, file, g)
      /\ x.cmd.op \in EditsFiles => NamesFor(file, z) \subseteq x.touched
  BY SaveFacts
<1>2. /\ ViewOf(x, file, agents) /\ x.mixed \subseteq stale /\ Own(x) = x.touched \ x.mixed
      /\ file \in Document \cup {NoRegistry}
  BY StepFacts
<1>3. CASE x.cmd.op \notin EditsFiles
  BY <1>3, SaveSame
<1>4. CASE x.cmd.op \in {"add", "thinking", "roles"}
  <2>1. y.pc = "look" /\ y.todo = <<z>>
    BY <1>1, <1>4, SavedFacts
  <2>2. z \in Range(y.todo)
    BY <2>1 DEF Range
  <2>3. \A e \in entries(g) : e.id = z => n \notin NamesOf(e)
    BY <2>1, <2>2 DEF Pending, InLoop
  <2>4. \A d \in entries(file) : d.id = z => \E e \in entries(g) : e.id = z /\ NamesOf(e) = NamesOf(d)
    BY <1>1, <1>4 DEF EditRelates, NamesOf, agent_for, ids
  <2>. QED
    BY <1>4, <2>3, <2>4 DEF EditsFiles
<1>5. CASE x.cmd.op = "remove"
  <2>1. y.pc = "unlink" /\ y.cmd = x.cmd /\ y.agent = x.agent
    BY <1>1, <1>5, SavedFacts
  <2>2. n \notin {x.agent, w}
    BY <2>1 DEF Pending
  <2>3. \A e \in entries(g) : e.id # z
    BY <1>1, <1>5 DEF EditRelates, ids
  <2>4. \A e \in entries(file) : e.id = z => n \notin NamesOf(e)
    <3>. SUFFICES ASSUME NEW e \in entries(file), e.id = z, n \in NamesOf(e)
                  PROVE  FALSE
      OBVIOUS
    <3>1. n \in x.touched
      BY <1>1, <1>2, <1>5, EntriesAreEntries DEF EditsFiles
    <3>2. n \in Own(x)
      BY <1>2, <3>1
    <3>3. x.agent = agent_for(e)
      BY <1>1, <1>2, <1>5, <3>2 DEF ViewOf, RemoveOf
    <3>. QED
      BY <2>2, <3>3 DEF NamesOf
  <2>. QED
    BY <1>5, <2>3, <2>4 DEF EditsFiles
<1>. QED
  BY <1>3, <1>4, <1>5 DEF EditsFiles

\* Then the edit is the same to that name after all.
LEMMA SaveSameName ==
    ASSUME IInv, NEW p \in Proc, Save(p), NEW y, y = Saved(proc[p]), NEW n \in Name \ stale,
           n \notin Pending(y, file')
    PROVE  Same(file, file', {n})
<1>1. CASE /\ proc[p].cmd.op \in EditsFiles
           /\ \A e \in entries(file) \cup entries(file') : e.id = proc[p].cmd.id => n \notin NamesOf(e)
  <2>1. EditRelates(proc[p].cmd, file, file') /\ file \in Document \cup {NoRegistry}
    BY SaveFacts, StepFacts
  <2>2. \A e \in entries(file) \cup entries(file') : e.id = proc[p].cmd.id => NamesOf(e) \cap {n} = {}
    BY <1>1
  <2>. QED
    BY <2>1, <2>2, EditSame
<1>. QED
  BY <1>1, SavePending

\* One rename: the files of the names that changed are now pending.
LEMMA SaveKeeps ==
    ASSUME IInv, NEW p \in Proc, Save(p)
    PROVE  IInv'
<1>. DEFINE x == proc[p]
            z == x.cmd.id
            y == Saved(x)
            g == file'
<1>1. /\ x \in Rec /\ x.pc = "save" /\ x.cmd \in Commands /\ x.cmd.op # "sync" /\ lock = p
      /\ EditRelates(x.cmd, file, g) /\ proc' = [proc EXCEPT ![p] = y] /\ lock' = NoProc
      /\ UNCHANGED <<agents, failing, stale, late>>
  BY SaveFacts
<1>2. /\ proc \in [Proc -> Rec] /\ DOMAIN agents = Name /\ stale \subseteq Name /\ x.mixed \subseteq stale
      /\ x.mixed \subseteq x.touched /\ file \in Document \cup {NoRegistry}
  BY StepFacts
<1>3. /\ y \in Rec /\ y.pc # "save"
      /\ (y.cmd \in Commands \/ y.pc = "idle")
      /\ \/ y.touched = x.touched /\ y.mixed = x.mixed
         \/ y.touched = {} /\ y.mixed = {}
      /\ y.pc \in Cleaning => x.cmd.op \in {"remove", "context", "oversize"}
  <2>1. CASE x.cmd.op \in {"add", "thinking", "roles", "remove", "context", "oversize"}
    <3>1. /\ y \in Rec /\ y.pc # "save" /\ y.cmd = x.cmd /\ y.touched = x.touched /\ y.mixed = x.mixed
          /\ x.cmd.op \in {"add", "thinking", "roles"} => y.pc = "look"
      BY <1>1, <2>1, SavedFacts
    <3>. HIDE DEF x, y
    <3>2. y.pc \in Cleaning => x.cmd.op \in {"remove", "context", "oversize"}
      BY <2>1, <3>1 DEF Cleaning
    <3>. QED
      BY <1>1, <3>1, <3>2
  <2>2. CASE x.cmd.op \notin {"add", "thinking", "roles", "remove", "context", "oversize"}
    BY <1>1, <2>2, SavedFacts, IdleFacts DEF Cleaning
  <2>. QED
    BY <2>1, <2>2
<1>4. PlaceOf(y) /\ ViewOf(y, g, agents)
  BY SaveView
<1>5. \A q \in Proc : q # p => ViewOf(proc[q], g, agents)
  BY SaveOthers
<1>6. \A n \in Name \ stale : n \notin Pending(y, g) => Same(file, g, {n})
  BY SaveSameName
<1>7. x.cmd.op = "remove" => y.pc \in Cleaning /\ y.cmd = x.cmd
  BY <1>1, SavedFacts DEF Cleaning
<1>. HIDE DEF y, g
<1>8. proc'[p] = y /\ \A q \in Proc : q # p => proc'[q] = proc[q]
  BY <1>1, <1>2
<1>9. Pending(x, file) = {} /\ x.pc \notin Cleaning
  BY <1>1 DEF Pending, InLoop, Cleaning
<1>10. g = file'
  BY DEF g
<1>11. Typed'
  <2>1. proc' \in [Proc -> Rec]
    BY <1>1, <1>2, <1>3
  <2>2. \A q \in Proc : Active(q)' => proc'[q].cmd \in Commands
    BY <1>3, <1>8 DEF IInv, Typed, Active
  <2>3. file' \in Document
    BY <1>1, <1>10 DEF EditRelates
  <2>. QED
    BY <1>1, <1>2, <2>1, <2>2, <2>3 DEF Typed
<1>12. LockInv'
  <2>1. \A q \in Proc : q # p => proc[q].pc # "save"
    BY <1>1 DEF IInv, LockInv
  <2>2. \A q \in Proc : proc'[q].pc # "save"
    BY <1>3, <1>8, <2>1
  <2>. QED
    BY <1>1, <2>2, RegistryAssumption DEF LockInv
<1>13. ViewInv'
  <2>1. \A q \in Proc : PlaceOf(proc[q])
    BY DEF IInv, ViewInv
  <2>. QED
    BY <1>1, <1>4, <1>5, <1>8, <1>10, <2>1 DEF ViewInv
<1>14. SharedInv'
  <2>1. ASSUME NEW q \in Proc PROVE proc'[q].mixed \subseteq stale
    BY <1>2, <1>3, <1>8 DEF IInv, SharedInv
  <2>2. ASSUME NEW q \in Proc, NEW r \in Proc, q # r
        PROVE  proc'[q].touched \cap proc'[r].touched \subseteq proc'[q].mixed
    <3>1. proc[q].touched \cap proc[r].touched \subseteq proc[q].mixed
      BY <2>2 DEF IInv, SharedInv
    <3>2. \A s \in Proc : \/ proc'[s].touched = proc[s].touched /\ proc'[s].mixed = proc[s].mixed
                          \/ proc'[s].touched = {} /\ proc'[s].mixed = {}
      BY <1>3, <1>8
    <3>. QED
      BY <3>1, <3>2
  <2>. QED
    BY <1>1, <2>1, <2>2 DEF SharedInv
<1>15. FileInv'
  <2>. SUFFICES ASSUME NoDup(g), NEW n \in Name \ stale, Unshared(g, n),
                       \A q \in Proc : n \notin Pending(proc'[q], g)
                PROVE  Right(g, agents, n)
    BY <1>1, <1>10 DEF FileInv
  <2>1. Same(file, g, {n})
    BY <1>6, <1>8
  <2>2. NoDup(file) /\ Unshared(file, n)
    BY <2>1, SameFacts DEF Same
  <2>3. \A q \in Proc : n \notin Pending(proc[q], file)
    BY <1>8, <1>9, <2>1, SameFacts
  <2>4. Right(file, agents, n)
    BY <2>2, <2>3 DEF IInv, FileInv
  <2>. QED
    BY <2>1, <2>4, SameFacts
<1>16. OwnedInv'
  <2>. SUFFICES ASSUME NEW n \in Name \ stale,
                       \A q \in Proc : proc'[q].pc \in Cleaning => n \notin Pending(proc'[q], g)
                PROVE  Owned(g, agents, n)
    BY <1>1, <1>10 DEF OwnedInv
  <2>1. Owned(file, agents, n)
    <3>1. \A q \in Proc : proc[q].pc \in Cleaning => n \notin Pending(proc[q], file)
      <4>1. \A v, d : v.pc \in Cleaning => (n \in Pending(v, d) <=> n \in Pending(v, file))
        BY DEF Pending, Cleaning, InLoop
      <4>. QED
        BY <1>8, <1>9, <4>1
    <3>. QED
      BY <3>1 DEF IInv, OwnedInv
  <2>2. CASE n \notin Pending(y, g)
    <3>1. Same(file, g, {n})
      BY <1>6, <2>2
    <3>. QED
      BY <2>1, <3>1, SameFacts
  <2>3. CASE n \in Pending(y, g)
    <3>1. x.cmd.op # "remove"
      BY <1>7, <1>8, <2>3
    <3>2. x.cmd.op \in {"add", "thinking", "roles"}
      <4>1. y.pc \in InLoop \cup Cleaning
        BY <2>3 DEF Pending, Cleaning
      <4>2. x.cmd.op \in {"context", "oversize"} => y.pc = "clear"
        BY <1>1, SavedFacts DEF y
      <4>3. x.cmd.op \notin {"add", "thinking", "roles", "remove", "context", "oversize"} => y.pc = "idle"
        BY <1>1, SavedFacts, IdleFacts DEF y
      <4>. QED
        BY <2>3, <3>1, <4>2, <4>3 DEF Pending, InLoop
    <3>3. \A d \in entries(file) : \E e \in entries(g) : e.id = d.id /\ NamesOf(e) = NamesOf(d)
      BY <1>1, <3>2 DEF EditRelates, NamesOf, agent_for, ids
    <3>. QED
      BY <2>1, <3>3 DEF Owned
  <2>. QED
    BY <2>2, <2>3
<1>17. CountInv'
  <2>. SUFFICES ASSUME NEW id \in failing, id \notin ids(g) \cup late
                PROVE  \E q \in Proc : /\ proc'[q].pc \in Cleaning /\ proc'[q].cmd.op = "remove"
                                       /\ proc'[q].cmd.id = id
    BY <1>1, <1>10 DEF CountInv
  <2>1. CASE id \in ids(file)
    <3>1. x.cmd.op = "remove" /\ id = z
      BY <1>1, <2>1 DEF EditRelates, EditsFiles, Agree, ids
    <3>. QED
      BY <1>7, <1>8, <3>1
  <2>2. CASE id \notin ids(file)
    <3>1. PICK q \in Proc : proc[q].pc \in Cleaning /\ proc[q].cmd.op = "remove" /\ proc[q].cmd.id = id
      BY <2>2 DEF IInv, CountInv
    <3>. QED
      BY <1>8, <1>9, <3>1
  <2>. QED
    BY <2>1, <2>2
<1>. QED
  BY <1>11, <1>12, <1>13, <1>14, <1>15, <1>16, <1>17 DEF IInv

(***************************************************************************)
(* Beginnings, delegate calls                                              *)
(***************************************************************************)

\* A command that begins shares its names with whoever has them already.
LEMMA BeginKeeps ==
    ASSUME IInv, NEW p \in Proc, Begin(p)
    PROVE  IInv'
<1>1. PICK cmd \in Commands :
          LET Shared(q) == IF q # p THEN Touched(cmd) \cap proc[q].touched ELSE {}
          IN  /\ proc' = [q \in Proc |->
                             IF q = p THEN [Idle EXCEPT !.pc = FirstStep(cmd), !.cmd = cmd,
                                                        !.touched = Touched(cmd),
                                                        !.mixed = UNION {Shared(r) : r \in Proc}]
                             ELSE [proc[q] EXCEPT !.mixed = @ \cup Shared(q)]]
              /\ stale' = stale \cup UNION {Shared(q) : q \in Proc}
  BY DEF Begin
<1>. DEFINE T == Touched(cmd)
            Shared(q) == IF q # p THEN T \cap proc[q].touched ELSE {}
            M == UNION {Shared(r) : r \in Proc}
            y == [Idle EXCEPT !.pc = FirstStep(cmd), !.cmd = cmd, !.touched = T, !.mixed = M]
<1>2. /\ stale' = stale \cup M /\ UNCHANGED <<file, agents, failing, lock, late>> /\ proc[p].pc = "idle"
      /\ proc'[p] = y
      /\ \A q \in Proc : q # p => proc'[q] = [proc[q] EXCEPT !.mixed = @ \cup Shared(q)]
      /\ DOMAIN proc' = Proc /\ proc' = [q \in Proc |-> proc'[q]]
  BY <1>1 DEF Begin, Active
<1>3. /\ proc \in [Proc -> Rec] /\ file \in Document \cup {NoRegistry} /\ stale \subseteq Name
      /\ DOMAIN agents = Name /\ lock \in Proc \cup {NoProc}
  BY StepFacts
<1>4. T \subseteq Name
  <2>1. cmd.id \in Id
    BY CommandFields
  <2>. QED
    BY <1>3, <2>1, EntriesAreEntries DEF Touched
<1>5. /\ FirstStep(cmd) \in {"lock", "entry", "registry"}
      /\ FirstStep(cmd) \in {"lock", "entry"} => cmd.op # "sync"
      /\ FirstStep(cmd) # "registry" => cmd.op \in {"add", "roles", "context", "oversize"}
  BY DEF FirstStep
<1>6. M \subseteq T /\ \A q \in Proc : Shared(q) \subseteq M /\ Shared(q) \subseteq proc[q].touched
  OBVIOUS
<1>7. \A q \in Proc : q # p => Shared(q) = T \cap proc[q].touched
  OBVIOUS
<1>8. /\ cmd.op = "sync" => T = Name
      /\ cmd.op \in EditsFiles => NamesFor(file, cmd.id) \subseteq T
  BY DEF Touched, EditsFiles
<1>. HIDE DEF Shared, T, M
<1>9. /\ y.pc = FirstStep(cmd) /\ y.cmd = cmd /\ y.doc = Nil /\ y.todo = << >> /\ y.agent = Nil
      /\ y.touched = T /\ y.mixed = M
  BY DEF Idle
<1>10. y \in Rec
  <2>1. FirstStep(cmd) \in Pcs
    BY <1>5 DEF Pcs
  <2>2. Idle \in Rec
    BY IdleFacts
  <2>. QED
    BY <1>4, <1>6, <2>1, <2>2 DEF Rec
<1>. HIDE DEF y
<1>11. \A q \in Proc : q # p =>
          /\ proc'[q] \in Rec
          /\ proc'[q].pc = proc[q].pc /\ proc'[q].cmd = proc[q].cmd /\ proc'[q].doc = proc[q].doc
          /\ proc'[q].todo = proc[q].todo /\ proc'[q].agent = proc[q].agent /\ proc'[q].code = proc[q].code
          /\ proc'[q].block = proc[q].block /\ proc'[q].spare = proc[q].spare
          /\ proc'[q].touched = proc[q].touched /\ proc'[q].mixed = proc[q].mixed \cup Shared(q)
  <2>. SUFFICES ASSUME NEW q \in Proc, q # p
                PROVE  /\ proc'[q] \in Rec
                       /\ proc'[q].pc = proc[q].pc /\ proc'[q].cmd = proc[q].cmd /\ proc'[q].doc = proc[q].doc
                       /\ proc'[q].todo = proc[q].todo /\ proc'[q].agent = proc[q].agent
                       /\ proc'[q].code = proc[q].code /\ proc'[q].block = proc[q].block
                       /\ proc'[q].spare = proc[q].spare /\ proc'[q].touched = proc[q].touched
                       /\ proc'[q].mixed = proc[q].mixed \cup Shared(q)
    OBVIOUS
  <2>1. PICK v \in Rec : v = proc[q]
    BY <1>3
  <2>2. PICK u : u = proc'[q]
    OBVIOUS
  <2>3. Shared(q) \subseteq v.touched /\ u = [v EXCEPT !.mixed = @ \cup Shared(q)]
    BY <1>2, <1>6, <2>1, <2>2
  <2>4. v.touched \in SUBSET Name /\ v.mixed \in SUBSET Name
    BY DEF Rec
  <2>5. v.mixed \cup Shared(q) \in SUBSET Name
    BY <2>3, <2>4
  <2>6. u \in Rec
    BY <2>3, <2>5 DEF Rec
  <2>7. /\ u.pc = v.pc /\ u.cmd = v.cmd /\ u.doc = v.doc /\ u.todo = v.todo /\ u.agent = v.agent
        /\ u.code = v.code /\ u.block = v.block /\ u.spare = v.spare /\ u.touched = v.touched
        /\ u.mixed = v.mixed \cup Shared(q)
    BY <2>3 DEF Rec
  <2>. QED
    BY <2>1, <2>2, <2>6, <2>7
<1>12. Typed'
  <2>1. proc' \in [Proc -> Rec]
    BY <1>2, <1>10, <1>11
  <2>2. \A q \in Proc : Active(q)' => proc'[q].cmd \in Commands
    BY <1>2, <1>9, <1>11 DEF IInv, Typed, Active
  <2>3. stale' \subseteq Name
    BY <1>2, <1>3, <1>4, <1>6
  <2>. QED
    BY <1>2, <1>3, <2>1, <2>2, <2>3 DEF Typed
<1>13. LockInv'
  <2>1. y.pc # "save" /\ lock # p
    BY <1>2, <1>5, <1>9 DEF IInv, LockInv
  <2>. QED
    BY <1>2, <1>11, <2>1 DEF IInv, LockInv
<1>14. ViewInv'
  <2>1. ASSUME NEW q \in Proc, q # p
        PROVE  PlaceOf(proc'[q]) /\ ViewOf(proc'[q], file, agents)
    <3>1. PlaceOf(proc[q]) /\ ViewOf(proc[q], file, agents) /\ proc[q].mixed \subseteq proc[q].touched
      BY StepFacts
    <3>2. PlaceOf(proc'[q])
      BY <1>11, <2>1, <3>1 DEF PlaceOf
    <3>3. proc[q].mixed \subseteq proc'[q].mixed /\ proc'[q].mixed \subseteq proc[q].touched
      BY <1>6, <1>11, <2>1, <3>1
    <3>4. ViewOf(proc'[q], file, agents)
      BY <1>11, <2>1, <3>1, <3>3, ViewShrinks
    <3>. QED
      BY <3>2, <3>4
  <2>2. PlaceOf(y)
    BY <1>5, <1>9 DEF PlaceOf, InLoop, InRender
  <2>3. TouchOf(y, file) /\ CheckedOf(y, file)
    BY <1>5, <1>6, <1>8, <1>9 DEF TouchOf, CheckedOf
  <2>4. RenderOf(y, file, agents) /\ SyncOf(y, file, agents)
    BY <1>5, <1>9 DEF RenderOf, SyncOf, InRender, InLoop
  <2>5. RemoveOf(y, file, agents)
    BY <1>5, <1>9 DEF RemoveOf, Cleaning
  <2>6. ViewOf(y, file, agents)
    BY <2>3, <2>4, <2>5 DEF ViewOf
  <2>. QED
    BY <1>2, <2>1, <2>2, <2>6 DEF ViewInv
<1>15. SharedInv'
  <2>1. ASSUME NEW q \in Proc PROVE proc'[q].mixed \subseteq stale'
    BY <1>2, <1>6, <1>9, <1>11 DEF IInv, SharedInv
  <2>2. ASSUME NEW q \in Proc, NEW r \in Proc, q # r
        PROVE  proc'[q].touched \cap proc'[r].touched \subseteq proc'[q].mixed
    <3>1. CASE q = p
      BY <1>2, <1>6, <1>7, <1>9, <1>11, <2>2, <3>1
    <3>2. CASE r = p
      BY <1>2, <1>7, <1>9, <1>11, <2>2, <3>2
    <3>3. CASE q # p /\ r # p
      BY <1>11, <2>2, <3>3 DEF IInv, SharedInv
    <3>. QED
      BY <3>1, <3>2, <3>3
  <2>. QED
    BY <2>1, <2>2 DEF SharedInv
<1>16. \A q \in Proc : /\ Pending(proc'[q], file) = Pending(proc[q], file)
                       /\ proc[q].pc \in Cleaning => proc'[q].pc = proc[q].pc /\ proc'[q].cmd = proc[q].cmd
  <2>1. Pending(y, file) = {} /\ Pending(proc[p], file) = {} /\ proc[p].pc \notin Cleaning
    BY <1>2, <1>5, <1>9 DEF Pending, InLoop, Cleaning
  <2>2. ASSUME NEW q \in Proc, q # p PROVE Pending(proc'[q], file) = Pending(proc[q], file)
    BY <1>11, <2>2 DEF Pending
  <2>3. ASSUME NEW q \in Proc, proc[q].pc \in Cleaning
        PROVE  proc'[q].pc = proc[q].pc /\ proc'[q].cmd = proc[q].cmd
    BY <1>11, <2>1, <2>3
  <2>. QED
    BY <1>2, <2>1, <2>2, <2>3
<1>17. FileInv'
  BY <1>2, <1>16 DEF IInv, FileInv
<1>18. OwnedInv'
  BY <1>2, <1>16 DEF IInv, OwnedInv
<1>19. CountInv'
  BY <1>2, <1>16 DEF IInv, CountInv
<1>. QED
  BY <1>12, <1>13, <1>14, <1>15, <1>17, <1>18, <1>19 DEF IInv

\* A step that neither commands nor files take part in.
LEMMA SameKeeps ==
    ASSUME IInv, UNCHANGED <<file, agents, lock, proc, stale>>, CountInv'
    PROVE  IInv'
<1>1. Typed' /\ LockInv' /\ ViewInv' /\ SharedInv'
  BY DEF IInv, Typed, LockInv, ViewInv, SharedInv, Active
<1>2. FileInv' /\ OwnedInv'
  BY DEF IInv, FileInv, OwnedInv
<1>. QED
  BY <1>1, <1>2 DEF IInv

\* A delegate call counts or clears what a removal clears later, or is late.
LEMMA CallsKeep ==
    ASSUME IInv, NEW id \in Id, CallStarts(id) \/ CallEnds(id)
    PROVE  IInv'
<1>1. CASE CallStarts(id)
  BY <1>1, SameKeeps DEF CallStarts, historyVars, IInv, CountInv
<1>2. CASE CallEnds(id)
  <2>1. UNCHANGED <<file, agents, lock, proc, stale>>
    BY <1>2 DEF CallEnds
  <2>2. CountInv'
    BY <1>2, <2>1 DEF CallEnds, IInv, CountInv
  <2>. QED
    BY <2>1, <2>2, SameKeeps
<1>. QED
  BY <1>1, <1>2

\* The files of a document are right, and belong to its models.
LEMMA FilesOfFacts ==
    ASSUME NEW f \in Document \cup {NoRegistry}, NEW n \in Name
    PROVE  /\ Owned(f, FilesOf(f), n)
           /\ NoDup(f) /\ Unshared(f, n) => Right(f, FilesOf(f), n)
           /\ \A a : NoDup(f) /\ Unshared(f, n) /\ Right(f, a, n) => a[n] = FilesOf(f)[n]
<1>. DEFINE Bulk(e) == e \in entries(f) /\ agent_for(e) = n
            Writer(e) == e \in entries(f) /\ code_writer_agent_for(e.id) = n /\ "code-write" \in e.roles
<1>1. FilesOf(f)[n] =
        IF \E e \in entries(f) : agent_for(e) = n
            THEN Rendered(CHOOSE e \in entries(f) : agent_for(e) = n, "bulk-read")
        ELSE IF \E e \in entries(f) : code_writer_agent_for(e.id) = n /\ "code-write" \in e.roles
            THEN Rendered(CHOOSE e \in entries(f) : code_writer_agent_for(e.id) = n, "code-write")
        ELSE Nil
  BY DEF FilesOf
<1>2. Owned(f, FilesOf(f), n)
  <2>1. \A e, r : Rendered(e, r).model = e.id
    BY DEF Rendered
  <2>2. CASE \E e \in entries(f) : agent_for(e) = n
    <3>. DEFINE c == CHOOSE e \in entries(f) : agent_for(e) = n
    <3>1. c \in entries(f) /\ agent_for(c) = n
      BY <2>2
    <3>. QED
      BY <1>1, <2>1, <2>2, <3>1 DEF Owned, NamesOf
  <2>3. CASE /\ ~ \E e \in entries(f) : agent_for(e) = n
             /\ \E e \in entries(f) : code_writer_agent_for(e.id) = n /\ "code-write" \in e.roles
    <3>. DEFINE c == CHOOSE e \in entries(f) : code_writer_agent_for(e.id) = n
    <3>1. c \in entries(f) /\ code_writer_agent_for(c.id) = n
      BY <2>3
    <3>. QED
      BY <1>1, <2>1, <2>3, <3>1 DEF Owned, NamesOf
  <2>. QED
    BY <1>1, <2>2, <2>3 DEF Owned
<1>3. ASSUME NoDup(f), Unshared(f, n), NEW e \in entries(f), n \in NamesOf(e)
      PROVE  /\ FilesOf(f)[n] = Wanted(e, n)
             /\ \A d \in entries(f) : n \in NamesOf(d) => d = e
  <2>1. \A d \in entries(f) : n \in NamesOf(d) => d = e
    <3>1. \A d \in entries(f) : n \in NamesOf(d) => d.id = e.id
      BY <1>3 DEF Unshared
    <3>2. e.id \in ids(f)
      BY DEF ids
    <3>. QED
      BY <1>3, <3>1, <3>2, EntryOfFacts
  <2>2. \A d \in entries(f) : agent_for(d) = n \/ code_writer_agent_for(d.id) = n => d = e
    BY <2>1 DEF NamesOf
  <2>3. CASE agent_for(e) = n
    <3>1. (CHOOSE d \in entries(f) : agent_for(d) = n) = e
      BY <2>2, <2>3
    <3>. QED
      BY <1>1, <2>1, <2>3, <3>1 DEF Wanted
  <2>4. CASE agent_for(e) # n
    <3>1. code_writer_agent_for(e.id) = n
      BY <1>3, <2>4 DEF NamesOf
    <3>2. (CHOOSE d \in entries(f) : code_writer_agent_for(d.id) = n) = e
      BY <2>2, <3>1
    <3>3. ~ \E d \in entries(f) : agent_for(d) = n
      BY <2>2, <2>4
    <3>. QED
      BY <1>1, <2>1, <2>2, <2>4, <3>1, <3>2, <3>3 DEF Wanted
  <2>. QED
    BY <2>3, <2>4
<1>4. ASSUME \A e \in entries(f) : n \notin NamesOf(e)
      PROVE  FilesOf(f)[n] = Nil
  BY <1>1, <1>4 DEF NamesOf
<1>5. NoDup(f) /\ Unshared(f, n) => Right(f, FilesOf(f), n)
  BY <1>3, <1>4 DEF Right
<1>6. \A a : NoDup(f) /\ Unshared(f, n) /\ Right(f, a, n) => a[n] = FilesOf(f)[n]
  BY <1>3, <1>4 DEF Right
<1>. QED
  BY <1>2, <1>5, <1>6

\* What the operator starts from is in order.
LEMMA InitInv ==
    ASSUME Init
    PROVE  IInv
<1>1. /\ file \in Document \cup {NoRegistry} /\ agents = FilesOf(file) /\ failing = {} /\ lock = NoProc
      /\ proc = [p \in Proc |-> Idle] /\ stale = {} /\ late = {}
  BY RegistryAssumption DEF Init
<1>2. \A p \in Proc : proc[p] = Idle
  BY <1>1
<1>3. /\ Idle \in Rec /\ Idle.pc = "idle" /\ Idle.touched = {} /\ Idle.mixed = {}
      /\ PlaceOf(Idle) /\ ViewOf(Idle, file, agents) /\ Pending(Idle, file) = {}
  BY IdleFacts
<1>4. Typed
  <2>1. DOMAIN agents = Name
    BY <1>1 DEF FilesOf
  <2>. QED
    BY <1>1, <1>2, <1>3, <2>1 DEF Typed, Active
<1>5. LockInv /\ ViewInv /\ SharedInv
  BY <1>1, <1>2, <1>3, RegistryAssumption DEF LockInv, ViewInv, SharedInv
<1>6. FileInv /\ OwnedInv
  BY <1>1, FilesOfFacts DEF FileInv, OwnedInv
<1>7. CountInv
  BY <1>1 DEF CountInv
<1>. QED
  BY <1>4, <1>5, <1>6, <1>7 DEF IInv

(***************************************************************************)
(* Theorems                                                                *)
(***************************************************************************)

\* Every step of a command, an operator or a delegate call keeps what the
\* commands rely on: the names they own, and the files in order but for those
\* they have still to get to.
THEOREM Inductive ==
    IInv /\ [Next]_vars => IInv'
<1>. SUFFICES ASSUME IInv, [Next]_vars
              PROVE  IInv'
  OBVIOUS
<1>1. ASSUME NEW p \in Proc, Begin(p) PROVE IInv'
  BY <1>1, BeginKeeps
<1>2. ASSUME NEW p \in Proc, Step(p) PROVE IInv'
  <2>1. CASE RequireRegistry(p)
    BY <2>1, RequireRegistryKeeps
  <2>2. CASE RequireEntry(p)
    BY <2>2, RequireEntryKeeps
  <2>3. CASE AskAgent(p)
    BY <2>3, AskAgentKeeps
  <2>4. CASE Load(p)
    BY <2>4, LoadKeeps
  <2>5. CASE Save(p)
    BY <2>5, SaveKeeps
  <2>6. CASE List(p)
    BY <2>6, ListKeeps
  <2>7. CASE Look(p)
    BY <2>7, LookKeeps
  <2>8. CASE ReadBulkBlock(p)
    BY <2>8, ReadBulkBlockKeeps
  <2>9. CASE WriteBulk(p)
    BY <2>9, WriteBulkKeeps
  <2>10. CASE ReadWriter(p)
    BY <2>10, ReadWriterKeeps
  <2>11. CASE WriteWriter(p)
    BY <2>11, WriteWriterKeeps
  <2>12. CASE Unlink(p)
    BY <2>12, UnlinkKeeps
  <2>13. CASE UnlinkWriter(p)
    BY <2>13, UnlinkWriterKeeps
  <2>14. CASE ClearBreaker(p)
    BY <2>14, ClearBreakerKeeps
  <2>15. CASE Fail(p)
    BY <2>15, FailKeeps
  <2>. QED
    BY <1>2, <2>1, <2>2, <2>3, <2>4, <2>5, <2>6, <2>7, <2>8, <2>9, <2>10, <2>11, <2>12, <2>13, <2>14, <2>15 DEF Step
<1>3. ASSUME NEW id \in Id, CallStarts(id) \/ CallEnds(id) PROVE IInv'
  BY <1>3, CallsKeep
<1>4. CASE UNCHANGED vars
  BY <1>4, SameKeeps DEF vars, historyVars, IInv, CountInv
<1>. QED
  BY <1>1, <1>2, <1>3, <1>4 DEF Next

\* It holds of every behaviour, whatever the operator starts from.
THEOREM Invariant ==
    Spec => []IInv
<1>. QED
  BY InitInv, Inductive, PTL DEF Spec

\* A file nobody is at work on, and no command was stopped at or ran into
\* another on, is what the registry says.
THEOREM FilesAreRight ==
    Spec => []FilesFollowRegistry
<1>1. IInv => FilesFollowRegistry
  <2>. SUFFICES ASSUME IInv, file = NoRegistry \/ ~duplicate_error(file),
                       NEW n \in Name \ (stale \cup Busy), Unshared(file, n)
                PROVE  agents[n] = FilesOf(file)[n]
    BY DEF FilesFollowRegistry
  <2>1. file \in Document \cup {NoRegistry}
    BY DEF IInv, Typed
  <2>2. NoDup(file)
    BY <2>1, UniqueFacts DEF NoDup
  <2>3. \A p \in Proc : n \notin Pending(proc[p], file)
    BY StepFacts DEF Busy
  <2>4. Right(file, agents, n)
    BY <2>2, <2>3 DEF IInv, FileInv
  <2>. QED
    BY <2>1, <2>2, <2>4, FilesOfFacts
<1>. QED
  BY <1>1, Invariant, PTL

\* Whatever the registry holds, an agent file is one of a registered model,
\* and so is a breaker count, but for what a removal was kept from.
THEOREM RemovedIsGone ==
    Spec => []NothingOutlivesRemove
<1>1. IInv => NothingOutlivesRemove
  <2>. SUFFICES ASSUME IInv
                PROVE  NothingOutlivesRemove
    OBVIOUS
  <2>1. ASSUME NEW n \in Name \ (stale \cup Busy), agents[n] # Nil
        PROVE  \E e \in entries(file) : e.id = agents[n].model /\ n \in NamesOf(e)
    <3>1. \A p \in Proc : n \notin Pending(proc[p], file)
      BY <2>1, StepFacts DEF Busy
    <3>2. Owned(file, agents, n)
      BY <2>1, <3>1 DEF IInv, OwnedInv
    <3>. QED
      BY <2>1, <3>2 DEF Owned
  <2>2. failing \subseteq ids(file) \cup late \cup Removing
    BY DEF IInv, CountInv, Removing, Active, Cleaning
  <2>. QED
    BY <2>1, <2>2 DEF NothingOutlivesRemove
<1>. QED
  BY <1>1, Invariant, PTL

\* The documents of the registry and of its promise are edited alike.
LEMMA SameEdits ==
    ASSUME NEW cmd, NEW doc
    PROVE  Registered!Edited(cmd, doc) = Edited(cmd, doc) /\ (Registered!Refuses(cmd, doc) <=> Refuses(cmd, doc))
<1>1. Registered!entries(doc) = entries(doc)
  BY DEF Registered!entries, entries, Registered!Range, Range
<1>2. Registered!ids(doc) = ids(doc)
  BY <1>1 DEF Registered!ids, ids
<1>3. \A s, S : Registered!Kept(s, S) = Kept(s, S)
  BY DEF Registered!Kept, Kept, Registered!Cardinality, Cardinality
<1>4. \A id : Registered!Without(doc, id) = Without(doc, id) /\ Registered!Only(doc, id) = Only(doc, id)
  BY <1>1, <1>3 DEF Registered!Without, Without, Registered!Only, Only
<1>5. \A e : Registered!Changed(cmd, e) = Changed(cmd, e)
  BY DEF Registered!Changed, Changed, Registered!ModelThinking, ModelThinking,
         Registered!RoleThinking, RoleThinking, Registered!Setting, Setting,
         Registered!Stored, Stored, Registered!NoOptions, NoOptions
<1>6. Registered!MapModel(cmd, doc) = MapModel(cmd, doc)
  BY <1>5 DEF Registered!MapModel, MapModel
<1>7. Registered!Added(cmd, doc) = Added(cmd, doc)
  BY DEF Registered!Added, Added, Registered!NewEntry, NewEntry, Registered!EmptyRegistry, EmptyRegistry,
         Registered!slug, slug, Registered!Role, Role, Registered!Setting, Setting
<1>8. Registered!Removed(cmd, doc) = Removed(cmd, doc)
  BY <1>4 DEF Registered!Removed, Removed
<1>9. Registered!Reordered(cmd, doc) = Reordered(cmd, doc)
  BY DEF Registered!Reordered, Reordered, Registered!Without, Without, Registered!Only, Only,
         Registered!entries, entries, Registered!Range, Range, Registered!Kept, Kept,
         Registered!Cardinality, Cardinality
<1>10. Registered!Edited(cmd, doc) = Edited(cmd, doc)
  BY <1>6, <1>7, <1>8, <1>9 DEF Registered!Edited, Edited
<1>11. Registered!Refuses(cmd, doc) <=> Refuses(cmd, doc)
  BY <1>1, <1>2 DEF Registered!Refuses, Refuses
<1>. QED
  BY <1>10, <1>11

\* models.json changes by whole edits, each made from the document it
\* replaces: the registry implements the edits one after the other.
THEOREM EditsOneByOne ==
    Spec => EditsAreSerial
<1>1. Init => file \in Seeds
  BY DEF Init
<1>2. ASSUME IInv, [Next]_vars
      PROVE  [\E cmd \in Commands : Registered!Edit(cmd)]_file
  <2>1. CASE \E p \in Proc : Save(p)
    <3>1. PICK p \in Proc : Save(p)
      BY <2>1
    <3>2. /\ proc[p].cmd \in Commands /\ proc[p].cmd.op # "sync" /\ ~Refuses(proc[p].cmd, file)
          /\ file' = Edited(proc[p].cmd, file)
      BY <1>2, <3>1, SaveFacts
    <3>. QED
      BY <3>2, SameEdits DEF Registered!Edit
  <2>2. CASE ~ \E p \in Proc : Save(p)
    BY <1>2, <2>2 DEF Next, Step, Begin, RequireRegistry, RequireEntry, AskAgent, Load, List, Look, ReadBulkBlock,
       WriteBulk, ReadWriter, WriteWriter, Unlink, UnlinkWriter, ClearBreaker, Fail, CallStarts, CallEnds, vars
  <2>. QED
    BY <2>1, <2>2
<1>. QED
  BY <1>1, <1>2, Invariant, PTL DEF Spec, EditsAreSerial, Registered!EditsSpec

\* A command takes away the bulk reader of a registered model only where
\* another command was at work on that very file meanwhile.
THEOREM OthersFilesStay ==
    Spec => OthersKeepTheirFiles
<1>. DEFINE A == \A n \in bulk_agents(file) :
                    agents[n] # Nil /\ agents'[n] = Nil => \E p \in Proc : n \in proc[p].mixed
<1>1. ASSUME IInv, [Next]_vars
      PROVE  [A]_vars
  <2>. SUFFICES ASSUME NEW n \in bulk_agents(file), agents[n] # Nil, agents'[n] = Nil, Next
                PROVE  \E p \in Proc : n \in proc[p].mixed
    BY <1>1 DEF vars
  <2>1. PICK e \in entries(file) : n = agent_for(e)
    <3>1. file \in Document \cup {NoRegistry}
      BY <1>1 DEF IInv, Typed
    <3>. QED
      BY <3>1, EntryOfFacts DEF bulk_agents
  <2>2. n \in NamesOf(e)
    BY <2>1 DEF NamesOf
  <2>3. PICK p \in Proc : WriteBulk(p) \/ WriteWriter(p) \/ Unlink(p) \/ UnlinkWriter(p)
    BY DEF Next, Step, Begin, RequireRegistry, RequireEntry, AskAgent, Load, Save, List, Look, ReadBulkBlock,
       ReadWriter, ClearBreaker, Fail, CallStarts, CallEnds
  <2>. DEFINE x == proc[p]
              w == code_writer_agent_for(Head(x.todo))
              rw == code_writer_agent_for(x.cmd.id)
  <2>4. /\ x \in Rec /\ PlaceOf(x) /\ ViewOf(x, file, agents) /\ x.mixed \subseteq x.touched
        /\ Own(x) = x.touched \ x.mixed /\ DOMAIN agents = Name
    BY <1>1, StepFacts
  <2>5. ASSUME x.pc \in InRender
        PROVE  [model |-> Head(x.todo), block |-> x.block] # Nil
    <3>1. Head(x.todo) \in Id /\ x.block \in Option \cup {Nil}
      BY <1>1, <2>4, <2>5, RenderNames DEF Rec
    <3>2. [model |-> Head(x.todo), block |-> x.block] \in AgentFile
      BY <3>1 DEF AgentFile
    <3>. QED
      BY <3>2, RegistryAssumption
  <2>6. CASE WriteBulk(p)
    <3>1. x.pc \in InRender
      BY <2>6 DEF WriteBulk, InRender
    <3>2. x.agent \in Name
      BY <1>1, <3>1, RenderNames
    <3>. QED
      BY <2>4, <2>5, <2>6, <3>1, <3>2 DEF WriteBulk
  <2>7. CASE WriteWriter(p)
    <3>1. x.pc = "writerwrite" /\ x.pc \in InRender
      BY <2>7 DEF WriteWriter, InRender
    <3>2. w \in Name /\ w \in x.touched
      BY <1>1, <3>1, RenderNames
    <3>3. n = w /\ w \notin x.spare
      BY <2>4, <2>5, <2>7, <3>1, <3>2 DEF WriteWriter
    <3>4. w \notin Own(x)
      BY <2>4, <3>1, <3>3 DEF ViewOf, RenderOf
    <3>. QED
      BY <2>4, <3>2, <3>3, <3>4
  <2>8. CASE Unlink(p) \/ UnlinkWriter(p)
    <3>1. x.pc \in Cleaning /\ x.cmd.op = "remove"
      BY <2>4, <2>8 DEF Unlink, UnlinkWriter, Cleaning, PlaceOf
    <3>2. /\ rw \in Name /\ rw \in x.touched /\ x.agent \in Name \cup {Nil} /\ (x.agent # Nil => x.agent \in x.touched)
          /\ \A m \in {x.agent, rw} \cap Own(x) : \A d \in entries(file) : m \notin NamesOf(d)
      BY <1>1, <3>1, CleanNames
    <3>3. n \in {x.agent, rw} /\ n \in x.touched
      <4>1. CASE Unlink(p)
        <5>1. agents' = IF x.agent = Nil THEN agents ELSE [agents EXCEPT ![x.agent] = Nil]
          BY <4>1 DEF Unlink
        <5>2. x.agent # Nil /\ n = x.agent
          BY <2>4, <5>1
        <5>. QED
          BY <3>2, <5>2
      <4>2. CASE UnlinkWriter(p)
        <5>1. agents' = [agents EXCEPT ![rw] = Nil]
          BY <4>2 DEF UnlinkWriter
        <5>2. n = rw
          BY <2>4, <5>1
        <5>. QED
          BY <3>2, <5>2
      <4>. QED
        BY <2>8, <4>1, <4>2
    <3>4. n \notin Own(x)
      BY <2>2, <3>2, <3>3
    <3>. QED
      BY <2>4, <3>3, <3>4
  <2>. QED
    BY <2>3, <2>6, <2>7, <2>8
<1>. QED
  BY <1>1, Invariant, PTL DEF Spec, OthersKeepTheirFiles

(***************************************************************************)
(* Types                                                                   *)
(***************************************************************************)

\* What the invariant above does not need of the type invariant.
RestTyped ==
    /\ agents \in [Name -> AgentFile \cup {Nil}]
    /\ failing \subseteq Id /\ calling \subseteq Id /\ late \subseteq Id
    /\ begun \in [commands : 0..MaxCommands, calls : 0..MaxCalls]

\* The agent files of a document are agent files.
LEMMA FilesOfTyped ==
    ASSUME NEW f \in Document \cup {NoRegistry}
    PROVE  FilesOf(f) \in [Name -> AgentFile \cup {Nil}]
<1>1. \A e \in entries(f) : \A r \in Role : Rendered(e, r) \in AgentFile
  <2>. SUFFICES ASSUME NEW e \in Entry, NEW r \in Role
                PROVE  Rendered(e, r) \in AgentFile
    BY EntriesAreEntries
  <2>1. e.id \in Id /\ thinking_block(e, r) \in Option \cup {Nil}
    BY DEF Entry, thinking_block
  <2>. QED
    BY <2>1 DEF Rendered, AgentFile
<1>2. ASSUME NEW n \in Name
      PROVE  FilesOf(f)[n] \in AgentFile \cup {Nil}
  <2>. DEFINE b == CHOOSE e \in entries(f) : agent_for(e) = n
              c == CHOOSE e \in entries(f) : code_writer_agent_for(e.id) = n
  <2>1. FilesOf(f)[n] =
        IF \E e \in entries(f) : agent_for(e) = n THEN Rendered(b, "bulk-read")
        ELSE IF \E e \in entries(f) : code_writer_agent_for(e.id) = n /\ "code-write" \in e.roles
            THEN Rendered(c, "code-write")
        ELSE Nil
    BY DEF FilesOf
  <2>2. (\E e \in entries(f) : agent_for(e) = n) => b \in entries(f)
    OBVIOUS
  <2>3. (\E e \in entries(f) : code_writer_agent_for(e.id) = n /\ "code-write" \in e.roles) => c \in entries(f)
    OBVIOUS
  <2>. HIDE DEF b, c
  <2>. QED
    BY <1>1, <2>1, <2>2, <2>3 DEF Role
<1>3. FilesOf(f) = [n \in Name |-> FilesOf(f)[n]]
  BY DEF FilesOf
<1>. QED
  BY <1>2, <1>3

\* The counters stay within their bounds.
LEMMA OneMore ==
    ASSUME NEW b \in [commands : 0..MaxCommands, calls : 0..MaxCalls]
    PROVE  /\ b.commands < MaxCommands =>
                 [b EXCEPT !.commands = @ + 1] \in [commands : 0..MaxCommands, calls : 0..MaxCalls]
           /\ b.calls < MaxCalls =>
                 [b EXCEPT !.calls = @ + 1] \in [commands : 0..MaxCommands, calls : 0..MaxCalls]
<1>1. \A M \in Nat : \A i \in 0..M : i < M => i + 1 \in 0..M
  OBVIOUS
<1>2. b.commands \in 0..MaxCommands /\ b.calls \in 0..MaxCalls /\ MaxCommands \in Nat /\ MaxCalls \in Nat
  BY RegistryAssumption
<1>3. /\ b.commands < MaxCommands => b.commands + 1 \in 0..MaxCommands
      /\ b.calls < MaxCalls => b.calls + 1 \in 0..MaxCalls
  BY <1>1, <1>2
<1>4. ASSUME NEW i \in 0..MaxCommands, NEW j \in 0..MaxCalls
      PROVE  /\ [b EXCEPT !.commands = i] \in [commands : 0..MaxCommands, calls : 0..MaxCalls]
             /\ [b EXCEPT !.calls = j] \in [commands : 0..MaxCommands, calls : 0..MaxCalls]
  OBVIOUS
<1>. QED
  BY <1>2, <1>3, <1>4

\* The rest of the type invariant is kept by every step.
LEMMA RestTypedKept ==
    ASSUME IInv, RestTyped, [Next]_vars
    PROVE  RestTyped'
<1>1. CASE UNCHANGED vars
  BY <1>1 DEF vars, historyVars, RestTyped
<1>2. ASSUME NEW id \in Id, CallStarts(id) \/ CallEnds(id)
      PROVE  RestTyped'
  <2>1. CASE CallStarts(id)
    <3>1. begun.calls < MaxCalls /\ begun' = [begun EXCEPT !.calls = @ + 1]
      BY <2>1 DEF CallStarts
    <3>2. begun' \in [commands : 0..MaxCommands, calls : 0..MaxCalls]
      BY <3>1, OneMore DEF RestTyped
    <3>3. calling' = calling \cup {id} /\ UNCHANGED <<agents, failing, late>>
      BY <2>1 DEF CallStarts, historyVars
    <3>. QED
      BY <3>2, <3>3 DEF RestTyped
  <2>2. CASE CallEnds(id)
    <3>1. UNCHANGED <<agents, begun>> /\ calling' \subseteq Id
      BY <2>2 DEF CallEnds, RestTyped
    <3>2. failing' \subseteq Id /\ late' \subseteq Id
      BY <2>2 DEF CallEnds, RestTyped
    <3>. QED
      BY <3>1, <3>2 DEF RestTyped
  <2>. QED
    BY <1>2, <2>1, <2>2
<1>3. ASSUME NEW p \in Proc, Begin(p)
      PROVE  RestTyped'
  <2>1. begun.commands < MaxCommands /\ begun' = [begun EXCEPT !.commands = @ + 1]
    BY <1>3 DEF Begin
  <2>2. begun' \in [commands : 0..MaxCommands, calls : 0..MaxCalls]
    BY <2>1, OneMore DEF RestTyped
  <2>3. UNCHANGED <<agents, failing, calling, late>>
    BY <1>3 DEF Begin
  <2>. QED
    BY <2>2, <2>3 DEF RestTyped
<1>4. ASSUME NEW p \in Proc, Step(p)
      PROVE  RestTyped'
  <2>. DEFINE x == proc[p]
  <2>1. /\ x \in Rec /\ (x.pc # "idle" => x.cmd \in Commands)
        /\ (x.pc \in InRender => Head(x.todo) \in Id)
    BY StepFacts, RenderNames
  <2>2. x.pc # "idle" => x.cmd.id \in Id
    BY <2>1, CommandFields
  <2>3. [model |-> Head(x.todo), block |-> x.block] \in AgentFile \/ x.pc \notin InRender
    BY <2>1 DEF Rec, AgentFile
  <2>4. CASE WriteBulk(p) \/ WriteWriter(p) \/ Unlink(p) \/ UnlinkWriter(p)
    <3>1. agents' \in [Name -> AgentFile \cup {Nil}]
      <4>1. CASE WriteBulk(p)
        <5>1. agents' = [agents EXCEPT ![x.agent] = [model |-> Head(x.todo), block |-> x.block]] /\ x.pc \in InRender
          BY <4>1 DEF WriteBulk, InRender
        <5>. QED
          BY <2>3, <5>1 DEF RestTyped
      <4>2. CASE WriteWriter(p)
        <5>. DEFINE n == code_writer_agent_for(Head(x.todo))
        <5>1. x.pc \in InRender
          BY <4>2 DEF WriteWriter, InRender
        <5>2. n \in Name
          BY <5>1, RenderNames
        <5>3. agents[n] \in AgentFile \cup {Nil}
          BY <5>2 DEF RestTyped
        <5>4. PICK v \in AgentFile \cup {Nil} : agents' = [agents EXCEPT ![n] = v]
          BY <2>3, <4>2, <5>1, <5>3 DEF WriteWriter
        <5>. QED
          BY <5>4 DEF RestTyped
      <4>3. CASE Unlink(p) \/ UnlinkWriter(p)
        BY <4>3 DEF Unlink, UnlinkWriter, RestTyped
      <4>. QED
        BY <2>4, <4>1, <4>2, <4>3
    <3>2. UNCHANGED <<failing, calling, late, begun>>
      BY <2>4 DEF WriteBulk, WriteWriter, Unlink, UnlinkWriter, historyVars
    <3>. QED
      BY <3>1, <3>2 DEF RestTyped
  <2>5. CASE ClearBreaker(p) \/ Fail(p)
    <3>1. x.pc # "idle"
      BY <2>5 DEF ClearBreaker, Fail, Active
    <3>. QED
      BY <2>2, <2>5, <3>1 DEF ClearBreaker, Fail, RestTyped
  <2>6. CASE \/ RequireRegistry(p) \/ RequireEntry(p) \/ AskAgent(p) \/ Load(p) \/ Save(p)
             \/ List(p) \/ Look(p) \/ ReadBulkBlock(p) \/ ReadWriter(p)
    <3>1. UNCHANGED <<agents, failing, calling, late, begun>>
      BY <2>6 DEF RequireRegistry, RequireEntry, AskAgent, Load, Save, List, Look, ReadBulkBlock, ReadWriter,
         historyVars
    <3>. QED
      BY <3>1 DEF RestTyped
  <2>. QED
    BY <1>4, <2>4, <2>5, <2>6 DEF Step
<1>. QED
  BY <1>1, <1>2, <1>3, <1>4 DEF Next

\* Every variable keeps its type, and whoever runs has a command.
THEOREM TypeCorrect ==
    Spec => []TypeOK
<1>1. Init => RestTyped
  <2>. SUFFICES ASSUME Init
                PROVE  RestTyped
    OBVIOUS
  <2>1. file \in Document \cup {NoRegistry}
    BY RegistryAssumption DEF Init
  <2>. QED
    BY <2>1, FilesOfTyped, RegistryAssumption DEF Init, RestTyped
<1>2. IInv /\ RestTyped /\ [Next]_vars => RestTyped'
  BY RestTypedKept
<1>3. IInv /\ RestTyped => TypeOK
  BY DEF IInv, Typed, RestTyped, Rec, TypeOK
<1>. QED
  BY <1>1, <1>2, <1>3, Invariant, PTL DEF Spec
=============================================================================
