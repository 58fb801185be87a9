----------------------------- MODULE MCRegistry -----------------------------
(***************************************************************************)
(* Two processes with the commands of shunt-models on two models, and a    *)
(* third id that shares its agent names with the first.                    *)
(***************************************************************************)
EXTENDS Registry, TLC

CONSTANTS a, b, c, o

MCCore == a :> "p-a" @@ b :> "p-b" @@ c :> "p-a"

Both == Role
Bulk == {"bulk-read"}
EntryA == NewEntry(a, Both)
EntryB == NewEntry(b, Both)
Doc(first, s) == [active |-> first, models |-> s]

\* None, a plain one, one with thinking for a role and an active model, one
\* whose roles were emptied by hand, and one where the second model's bulk
\* agent has the name of the first one's code writer, or, with no first one,
\* of its bulk agent.
MCSeeds ==
    {NoRegistry,
     Doc(Nil, <<EntryA>>),
     Doc(b, <<[EntryA EXCEPT !.thinking = TRUE, !.role_thinking["code-write"] = FALSE, !.on = o],
              EntryB>>),
     Doc(Nil, <<EntryB, [EntryA EXCEPT !.roles = {}]>>),
     Doc(a, <<[EntryA EXCEPT !.roles = Bulk], [EntryB EXCEPT !.agent = code_writer_agent_for(a)]>>),
     Doc(Nil, <<[EntryB EXCEPT !.agent = slug(a)]>>)}

Thinking(id, state, role, opts) ==
    [op |-> "thinking", id |-> id, state |-> state, role |-> role, options |-> opts]

MCCommands ==
    {[op |-> x, id |-> a] : x \in {"remove", "enable", "disable", "activate", "sync"}}
    \cup {[op |-> "remove", id |-> b], [op |-> "reorder", id |-> b, position |-> 1],
          [op |-> "reorder", id |-> a, position |-> 0]}
    \cup {[op |-> "add", id |-> a, roles |-> Both], [op |-> "add", id |-> c, roles |-> Bulk]}
    \cup {[op |-> "roles", id |-> a, roles |-> Bulk], [op |-> "roles", id |-> a, roles |-> Both]}
    \cup {Thinking(a, "on", Nil, o), Thinking(a, "off", "code-write", o),
          Thinking(a, "clear", "code-write", Nil), Thinking(a, "off", Nil, Nil),
          Thinking(a, "off", Nil, NoOptions)}
    \cup {[op |-> "context", id |-> a, value |-> 1], [op |-> "body", id |-> a, value |-> 1]}
=============================================================================
