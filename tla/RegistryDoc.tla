---------------------------- MODULE RegistryDoc ----------------------------
(***************************************************************************)
(* models.json as the readers of models.py see it and as the writers of    *)
(* models_write.py change it.  A document is the active model and the      *)
(* entries in priority order; an edit builds a new document from the one   *)
(* it loaded.  Settings no other part of this model looks into (context,   *)
(* oversize policy, request body) are one field that is set or cleared.    *)
(***************************************************************************)
EXTENDS Naturals, Sequences, FiniteSets, SequencesExt

CONSTANTS
    Id,         \* the model ids an operator may name
    Core,       \* id -> its lower case, dash separated form
    Option,     \* thinking options
    Value,      \* values of a setting
    NoRegistry, \* there is no models.json
    Nil         \* a field that is absent or null

Role == {"bulk-read", "code-write"}
Setting == {"context", "oversize", "body"}

\* Agent names: the prefixes keep the two kinds apart.
slug(id) == <<"bulk-reader", Core[id]>>
code_writer_agent_for(id) == <<"code-writer", Core[id]>>
Name == {"bulk-reader", "code-writer"} \X {Core[id] : id \in Id}

\* What json gives for each entry; roles may be empty in a file edited by hand.
Entry ==
    [id : Id, agent : Name \cup {Nil}, enabled : BOOLEAN, thinking : BOOLEAN,
     on : Option \cup {Nil}, off : Option \cup {Nil},
     role_thinking : [Role -> BOOLEAN \cup {Nil}], roles : SUBSET Role,
     settings : [Setting -> Value \cup {Nil}]]

Document == [active : Id \cup {Nil}, models : Seq(Entry)]

\* The options an operator may also name, which are none.
NoOptions == "{}"

\* One command line of shunt-models that writes the registry (or syncs it).
Command ==
    [op : {"remove", "enable", "disable", "activate", "sync"}, id : Id]
    \cup [op : {"add", "roles"}, id : Id, roles : (SUBSET Role) \ {{}}]
    \cup [op : {"reorder"}, id : Id, position : Nat]
    \cup [op : {"thinking"}, id : Id, state : {"on", "off", "clear"},
          role : Role \cup {Nil}, options : Option \cup {NoOptions, Nil}]
    \cup [op : Setting, id : Id, value : Value \cup {Nil}]

NewEntry(id, roles) ==
    [id |-> id, agent |-> slug(id), enabled |-> TRUE, thinking |-> FALSE,
     on |-> Nil, off |-> Nil, role_thinking |-> [r \in Role |-> Nil],
     roles |-> roles, settings |-> [s \in Setting |-> Nil]]

EmptyRegistry == [active |-> Nil, models |-> <<>>]

(***************************************************************************)
(* Readers                                                                 *)
(***************************************************************************)

entries(doc) == IF doc = NoRegistry THEN {} ELSE Range(doc.models)
ids(doc) == {e.id : e \in entries(doc)}
Indices(doc, id) == {i \in DOMAIN doc.models : doc.models[i].id = id}

\* The entry of an id; a file edited by hand may hold several, the first counts.
EntryOf(doc, id) ==
    doc.models[CHOOSE i \in Indices(doc, id) : \A j \in Indices(doc, id) : i <= j]

\* Only has_role takes the last one.
LastOf(doc, id) ==
    doc.models[CHOOSE i \in Indices(doc, id) : \A j \in Indices(doc, id) : j <= i]

agent_for(e) == IF e.agent = Nil THEN slug(e.id) ELSE e.agent

\* _bulk_agent_files: the names of the bulk agents, asked for by id.
bulk_agents(doc) == {agent_for(EntryOf(doc, id)) : id \in ids(doc)}

has_role(doc, id, r) == id \in ids(doc) /\ r \in LastOf(doc, id).roles

effective_thinking(e, r) ==
    IF e.role_thinking[r] # Nil THEN e.role_thinking[r] ELSE e.thinking

thinking_block(e, r) == IF effective_thinking(e, r) THEN e.on ELSE e.off

\* validate: one entry per id, roles that are not empty, agent names that no
\* two models share (a code-writer name is reserved whatever the roles).
NamesOf(e) == {agent_for(e), code_writer_agent_for(e.id)}

duplicate_error(doc) == \E id \in Id : Cardinality(Indices(doc, id)) > 1
roles_error(doc) == \E e \in entries(doc) : e.roles = {}
agent_name_error(doc) ==
    \/ \E e \in entries(doc) : agent_for(e) = code_writer_agent_for(e.id)
    \/ \E e, f \in entries(doc) : e.id # f.id /\ NamesOf(e) \cap NamesOf(f) # {}

available(doc) ==
    /\ doc # NoRegistry
    /\ ~duplicate_error(doc) /\ ~roles_error(doc) /\ ~agent_name_error(doc)

\* The models to try for a role: the active one first, if it can be tried.
candidates(doc, r) ==
    LET able == SelectSeq(doc.models, LAMBDA e : e.enabled /\ r \in e.roles)
        todo == [i \in DOMAIN able |-> able[i].id]
        head == IF doc.active \in Range(todo) THEN <<doc.active>> ELSE <<>>
    IN  head \o SelectSeq(todo, LAMBDA id : id \notin Range(head))

(***************************************************************************)
(* Writers                                                                 *)
(***************************************************************************)

Added(cmd, doc) ==
    LET old == IF doc = NoRegistry THEN EmptyRegistry ELSE doc
    IN  [old EXCEPT !.models = Append(@, NewEntry(cmd.id, cmd.roles))]

\* The members of set S in sequence s, in its order: the n-th is at the index
\* up to which there are n of them.
Kept(s, S) ==
    LET Index == {i \in DOMAIN s : s[i] \in S}
        UpTo(i) == Cardinality({j \in Index : j <= i})
    IN  [n \in 1..Cardinality(Index) |-> s[CHOOSE i \in Index : UpTo(i) = n]]

Without(doc, id) == Kept(doc.models, {e \in entries(doc) : e.id # id})
Only(doc, id) == Kept(doc.models, {e \in entries(doc) : e.id = id})

Removed(cmd, doc) ==
    [active |-> IF doc.active = cmd.id THEN Nil ELSE doc.active,
     models |-> Without(doc, cmd.id)]

\* Position 0 is Python's slice end -1: in front of the last other entry.
Reordered(cmd, doc) ==
    LET rest == Without(doc, cmd.id)
        target == Only(doc, cmd.id)
        cut == CHOOSE n \in 0..Len(rest) :
                  IF cmd.position = 0 THEN n = Len(rest) - 1 \/ Len(rest) = 0
                  ELSE n = cmd.position - 1 \/ (n = Len(rest) /\ n < cmd.position - 1)
    IN  [doc EXCEPT !.models = SubSeq(rest, 1, cut) \o target \o SubSeq(rest, cut + 1, Len(rest))]

\* The options a command names, stored: {} is stored as none, or rendered alike.
Stored(options) == IF options = NoOptions THEN Nil ELSE options

\* thinking of the model: on replaces the options (none are none), off drops
\* the options of on and keeps its own unless some are given.
ModelThinking(cmd, e) ==
    IF cmd.state = "on"
        THEN [e EXCEPT !.thinking = TRUE, !.on = Stored(cmd.options)]
        ELSE [e EXCEPT !.thinking = FALSE, !.on = Nil,
                       !.off = IF cmd.options = Nil THEN @ ELSE Stored(cmd.options)]

\* thinking of a role: only its override, and the options of that state.
RoleThinking(cmd, e) ==
    LET Given(state) == cmd.state = state /\ cmd.options # Nil
    IN  [e EXCEPT !.role_thinking[cmd.role] = IF cmd.state = "clear" THEN Nil ELSE cmd.state = "on",
                  !.on = IF Given("on") THEN Stored(cmd.options) ELSE @,
                  !.off = IF Given("off") THEN Stored(cmd.options) ELSE @]

\* The edit of one entry by the commands that change a field of it.
Changed(cmd, e) ==
    CASE cmd.op = "enable" -> [e EXCEPT !.enabled = TRUE]
      [] cmd.op = "disable" -> [e EXCEPT !.enabled = FALSE]
      [] cmd.op = "roles" -> [e EXCEPT !.roles = cmd.roles]
      [] cmd.op = "thinking" -> IF cmd.role = Nil THEN ModelThinking(cmd, e)
                                                  ELSE RoleThinking(cmd, e)
      [] cmd.op \in Setting -> [e EXCEPT !.settings[cmd.op] = cmd.value]

\* _map_model: the edit of every entry of the id.
MapModel(cmd, doc) ==
    [doc EXCEPT !.models =
        [i \in DOMAIN doc.models |->
            IF doc.models[i].id = cmd.id THEN Changed(cmd, doc.models[i]) ELSE doc.models[i]]]

Edited(cmd, doc) ==
    CASE cmd.op = "add" -> Added(cmd, doc)
      [] cmd.op = "remove" -> Removed(cmd, doc)
      [] cmd.op = "reorder" -> Reordered(cmd, doc)
      [] cmd.op = "activate" -> [doc EXCEPT !.active = cmd.id]
      [] OTHER -> MapModel(cmd, doc)

\* The writer checks these under the lock, on the document it loaded.
Refuses(cmd, doc) ==
    \/ cmd.op # "add" /\ doc = NoRegistry
    \/ cmd.op = "add" /\ cmd.id \in ids(doc)
    \/ cmd.op = "activate" /\ \E e \in entries(doc) : e.id = cmd.id /\ ~e.enabled
=============================================================================
