------------------------------ MODULE Registry ------------------------------
(***************************************************************************)
(* The commands of shunt-models on models.json, each a process of its own. *)
(* A command checks the registry without a lock, edits it under the lock   *)
(* (load, build, rename), and then, with the lock gone, brings the agent   *)
(* files of its model in line, every question asked of the file anew:      *)
(*                                                                         *)
(*   add                 save -> look -> bulk -> bulkwrite -> writer        *)
(*                            -> writerwrite                               *)
(*   remove              registry -> entry -> agent -> save -> unlink      *)
(*                            -> unlinkwriter -> clear                     *)
(*   thinking, roles     [registry ->] entry -> save -> look -> ...        *)
(*   context, oversize   entry -> save -> clear                            *)
(*   sync                registry -> list -> look -> ... per model         *)
(*                                                                         *)
(* Delegate calls leave breaker state behind, next to the commands.        *)
(***************************************************************************)
EXTENDS RegistryDoc

CONSTANTS
    Proc,         \* the processes that run commands
    Commands,     \* the command lines they may be given
    Seeds,        \* the documents the operator may start from
    MaxCommands,  \* bound: commands in all
    MaxCalls,     \* bound: delegate calls in all
    NoProc

AgentFile == [model : Id, block : Option \cup {Nil}]

ASSUME RegistryAssumption ==
    /\ Core \in [Id -> Range(Core)]
    /\ Commands \subseteq Command
    /\ \A cmd \in Commands : cmd.op = "thinking" /\ cmd.state = "clear" => cmd.role # Nil
    /\ Seeds \subseteq Document \cup {NoRegistry}
    /\ NoProc \notin Proc
    /\ Nil \notin Id \cup Name \cup Option \cup Value \cup AgentFile
    /\ NoRegistry \notin Document
    /\ MaxCommands \in Nat /\ MaxCalls \in Nat

VARIABLES
    file,       \* models.json
    agents,     \* name -> the agent file of that name, or Nil
    failing,    \* the ids with breaker state
    lock,       \* who holds the models lock
    proc,       \* process -> where its command is
    calling,    \* the ids a delegate call is running on
    begun,      \* commands and calls so far
    stale,      \* history: names whose file a command may have left wrong
    late        \* history: ids with breaker state a removal may have missed

historyVars == <<stale, late>>
vars == <<file, agents, failing, lock, proc, calling, begun, historyVars>>

\* What a command knows while it runs: its own copy of the document between
\* load and save, the models still to render, the answers it was given, and
\* (history) the names of the files it may touch, and those of them another
\* command was at work on meanwhile.
Idle == [pc |-> "idle", cmd |-> Nil, doc |-> Nil, todo |-> <<>>, agent |-> Nil,
         code |-> FALSE, block |-> Nil, spare |-> {}, touched |-> {}, mixed |-> {}]

Active(p) == proc[p].pc # "idle"

\* The agent names the model of a command goes by, with or without an entry.
NamesFor(doc, id) ==
    {slug(id), code_writer_agent_for(id)}
    \cup {agent_for(e) : e \in {f \in entries(doc) : f.id = id}}

Touched(cmd) ==
    IF cmd.op = "sync" THEN Name
    ELSE IF cmd.op \in {"add", "remove", "thinking", "roles"} THEN NamesFor(file, cmd.id)
    ELSE {}

\* The agent files that go with an entry.
Rendered(e, r) == [model |-> e.id, block |-> thinking_block(e, r)]

FilesOf(doc) ==
    [n \in Name |->
        IF \E e \in entries(doc) : agent_for(e) = n
            THEN Rendered(CHOOSE e \in entries(doc) : agent_for(e) = n, "bulk-read")
        ELSE IF \E e \in entries(doc) : code_writer_agent_for(e.id) = n /\ "code-write" \in e.roles
            THEN Rendered(CHOOSE e \in entries(doc) : code_writer_agent_for(e.id) = n, "code-write")
        ELSE Nil]

Init ==
    /\ file \in Seeds
    /\ agents = FilesOf(file)
    /\ failing = {}
    /\ lock = NoProc
    /\ proc = [p \in Proc |-> Idle]
    /\ calling = {}
    /\ begun = [commands |-> 0, calls |-> 0]
    /\ stale = {}
    /\ late = {}

(***************************************************************************)
(* A command starts and checks                                             *)
(***************************************************************************)

FirstStep(cmd) ==
    CASE cmd.op = "add" -> "lock"
      [] cmd.op \in {"roles", "context", "oversize"} -> "entry"
      [] OTHER -> "registry"

Begin(p) ==
    /\ ~Active(p)
    /\ begun.commands < MaxCommands
    /\ begun' = [begun EXCEPT !.commands = @ + 1]
    /\ \E cmd \in Commands :
          LET Shared(q) == IF q # p THEN Touched(cmd) \cap proc[q].touched ELSE {}
          IN  /\ proc' = [q \in Proc |->
                             IF q = p THEN [Idle EXCEPT !.pc = FirstStep(cmd), !.cmd = cmd,
                                                        !.touched = Touched(cmd),
                                                        !.mixed = UNION {Shared(r) : r \in Proc}]
                             ELSE [proc[q] EXCEPT !.mixed = @ \cup Shared(q)]]
              /\ stale' = stale \cup UNION {Shared(q) : q \in Proc}
    /\ UNCHANGED <<file, agents, failing, lock, calling, late>>

\* The command ends without an error: the files it was alone on are right.
Ended(p, done) ==
    /\ proc' = [proc EXCEPT ![p] = Idle]
    /\ stale' = stale \ (done \ proc[p].mixed)

Goto(p, pc) == proc' = [proc EXCEPT ![p].pc = pc]

\* _require_registry: the registry is valid as a whole.
RequireRegistry(p) ==
    /\ proc[p].pc = "registry"
    /\ available(file)
    /\ Goto(p, IF proc[p].cmd.op = "sync" THEN "list" ELSE "entry")
    /\ UNCHANGED <<file, agents, failing, lock, calling, begun, historyVars>>

\* _require_entry: the id is there, whatever else the file holds.
RequireEntry(p) ==
    /\ proc[p].pc = "entry"
    /\ proc[p].cmd.id \in ids(file)
    /\ Goto(p, IF proc[p].cmd.op = "remove" THEN "agent" ELSE "lock")
    /\ UNCHANGED <<file, agents, failing, lock, calling, begun, historyVars>>

\* cmd_remove asks for the agent name before the entry is gone.
AskAgent(p) ==
    /\ proc[p].pc = "agent"
    /\ LET id == proc[p].cmd.id
       IN  proc' = [proc EXCEPT ![p].pc = "lock",
                                ![p].agent = IF id \in ids(file) THEN agent_for(EntryOf(file, id)) ELSE Nil]
    /\ UNCHANGED <<file, agents, failing, lock, calling, begun, historyVars>>

(***************************************************************************)
(* The edit, under the models lock                                         *)
(***************************************************************************)

\* Mutant of Load: a lock that is held is not waited for.
LoadUnlocked(p) ==
    /\ proc[p].pc = "lock"
    /\ lock' = p
    /\ proc' = [proc EXCEPT ![p].pc = "save", ![p].doc = file]
    /\ UNCHANGED <<file, agents, failing, calling, begun, historyVars>>

\* models_lock and _load.
Load(p) ==
    /\ proc[p].pc = "lock"
    /\ lock = NoProc
    /\ lock' = p
    /\ proc' = [proc EXCEPT ![p].pc = "save", ![p].doc = file]
    /\ UNCHANGED <<file, agents, failing, calling, begun, historyVars>>

AfterSave(cmd) ==
    CASE cmd.op \in {"add", "thinking", "roles"} -> "look"
      [] cmd.op = "remove" -> "unlink"
      [] cmd.op \in {"context", "oversize"} -> "clear"
      [] OTHER -> "done"

\* _save: the file is replaced by one rename and the lock is dropped.
Save(p) ==
    LET cmd == proc[p].cmd
    IN  /\ proc[p].pc = "save"
        /\ ~Refuses(cmd, proc[p].doc)
        /\ file' = Edited(cmd, proc[p].doc)
        /\ lock' = NoProc
        /\ IF AfterSave(cmd) = "done"
               THEN Ended(p, {})
               ELSE /\ proc' = [proc EXCEPT ![p].pc = AfterSave(cmd), ![p].doc = Nil, ![p].todo = <<cmd.id>>]
                    /\ UNCHANGED stale
        /\ UNCHANGED <<agents, failing, calling, begun, late>>

(***************************************************************************)
(* materialize_agent, once for a command's model and per model for sync    *)
(***************************************************************************)

\* cmd_sync: the ids are listed once.
List(p) ==
    /\ proc[p].pc = "list"
    /\ IF ids(file) = {}
           THEN Ended(p, {})
           ELSE /\ proc' = [proc EXCEPT ![p].pc = "look",
                                        ![p].todo = [i \in DOMAIN file.models |-> file.models[i].id]]
                /\ UNCHANGED stale
    /\ UNCHANGED <<file, agents, failing, lock, calling, begun, late>>

\* has_role and agent_for, two reads of the file that are taken as one.
Look(p) ==
    LET id == Head(proc[p].todo)
    IN  /\ proc[p].pc = "look"
        /\ id \in ids(file)
        /\ proc' = [proc EXCEPT ![p].pc = "bulk", ![p].code = has_role(file, id, "code-write"),
                                ![p].agent = agent_for(EntryOf(file, id))]
        /\ UNCHANGED <<file, agents, failing, lock, calling, begun, historyVars>>

BlockOf(doc, id, r) == IF id \in ids(doc) THEN thinking_block(EntryOf(doc, id), r) ELSE Nil

ReadBulkBlock(p) ==
    /\ proc[p].pc = "bulk"
    /\ proc' = [proc EXCEPT ![p].pc = "bulkwrite",
                            ![p].block = BlockOf(file, Head(proc[p].todo), "bulk-read")]
    /\ UNCHANGED <<file, agents, failing, lock, calling, begun, historyVars>>

WriteBulk(p) ==
    /\ proc[p].pc = "bulkwrite"
    /\ agents' = [agents EXCEPT ![proc[p].agent] = [model |-> Head(proc[p].todo), block |-> proc[p].block]]
    /\ proc' = [proc EXCEPT ![p].pc = "writer", ![p].block = Nil]
    /\ UNCHANGED <<file, failing, lock, calling, begun, historyVars>>

\* Mutant of ReadWriter: no other model's bulk agent file is spared.
ReadWriterUnsparing(p) ==
    /\ proc[p].pc = "writer"
    /\ proc' = [proc EXCEPT ![p].pc = "writerwrite",
                            ![p].block = BlockOf(file, Head(proc[p].todo), "code-write")]
    /\ UNCHANGED <<file, agents, failing, lock, calling, begun, historyVars>>

\* The block of the code-writer agent, or which files must not be unlinked: a
\* read for each entry of the file, taken as one.
ReadWriter(p) ==
    /\ proc[p].pc = "writer"
    /\ proc' = [proc EXCEPT ![p].pc = "writerwrite",
                            ![p].block = BlockOf(file, Head(proc[p].todo), "code-write"),
                            ![p].spare = bulk_agents(file)]
    /\ UNCHANGED <<file, agents, failing, lock, calling, begun, historyVars>>

\* The files of the model that is rendered, but for one that is spared.
Rendering(p) ==
    {proc[p].agent} \cup
    ({code_writer_agent_for(Head(proc[p].todo))} \ (IF proc[p].code THEN {} ELSE proc[p].spare))

Materialized(p) ==
    IF Len(proc[p].todo) = 1
        THEN Ended(p, IF proc[p].cmd.op = "sync" THEN UNION {NamesOf(e) : e \in entries(file)}
                                                 ELSE Rendering(p))
        ELSE /\ proc' = [proc EXCEPT ![p].pc = "look", ![p].todo = Tail(@), ![p].agent = Nil,
                                     ![p].code = FALSE, ![p].block = Nil, ![p].spare = {}]
             /\ UNCHANGED stale

\* Mutant of WriteWriter: the file of a dropped role stays.
WriteWriterOnly(p) ==
    LET id == Head(proc[p].todo)
        n == code_writer_agent_for(id)
    IN  /\ proc[p].pc = "writerwrite"
        /\ agents' = [agents EXCEPT ![n] = IF proc[p].code THEN [model |-> id, block |-> proc[p].block] ELSE @]
        /\ Materialized(p)
        /\ UNCHANGED <<file, failing, lock, calling, begun, late>>

\* The code-writer file is written, or unlinked if no model's bulk agent has it.
WriteWriter(p) ==
    LET id == Head(proc[p].todo)
        n == code_writer_agent_for(id)
    IN  /\ proc[p].pc = "writerwrite"
        /\ agents' = [agents EXCEPT ![n] = IF proc[p].code THEN [model |-> id, block |-> proc[p].block]
                                           ELSE IF n \in proc[p].spare THEN @ ELSE Nil]
        /\ Materialized(p)
        /\ UNCHANGED <<file, failing, lock, calling, begun, late>>

(***************************************************************************)
(* What remove and the settings clean up                                   *)
(***************************************************************************)

Unlink(p) ==
    /\ proc[p].pc = "unlink"
    /\ agents' = IF proc[p].agent = Nil THEN agents ELSE [agents EXCEPT ![proc[p].agent] = Nil]
    /\ Goto(p, "unlinkwriter")
    /\ UNCHANGED <<file, failing, lock, calling, begun, historyVars>>

UnlinkWriter(p) ==
    /\ proc[p].pc = "unlinkwriter"
    /\ agents' = [agents EXCEPT ![code_writer_agent_for(proc[p].cmd.id)] = Nil]
    /\ Goto(p, "clear")
    /\ UNCHANGED <<file, failing, lock, calling, begun, historyVars>>

\* Mutant of ClearBreaker: the breaker state stays behind.
ClearNothing(p) ==
    /\ proc[p].pc = "clear"
    /\ late' = late \ {proc[p].cmd.id}
    /\ Ended(p, IF proc[p].cmd.op = "remove"
                    THEN {proc[p].agent, code_writer_agent_for(proc[p].cmd.id)} ELSE {})
    /\ UNCHANGED <<file, agents, failing, lock, calling, begun>>

\* A problem is an error of remove and a warning of the other commands.
ClearBreaker(p) ==
    /\ proc[p].pc = "clear"
    /\ failing' = failing \ {proc[p].cmd.id}
    /\ late' = late \ {proc[p].cmd.id}
    /\ Ended(p, IF proc[p].cmd.op = "remove"
                    THEN {proc[p].agent, code_writer_agent_for(proc[p].cmd.id)} ELSE {})
    /\ UNCHANGED <<file, agents, lock, calling, begun>>

AtFiles == {"look", "bulk", "bulkwrite", "writer", "writerwrite", "unlink", "unlinkwriter"}

\* A check says no, the lock times out, the writer refuses, a file cannot be
\* written or the process is killed: the command is over where it stands.
Fail(p) ==
    /\ Active(p)
    /\ proc' = [proc EXCEPT ![p] = Idle]
    /\ lock' = IF lock = p THEN NoProc ELSE lock
    /\ stale' = IF proc[p].pc \in AtFiles THEN stale \cup proc[p].touched ELSE stale
    /\ late' = IF proc[p].cmd.op = "remove" /\ proc[p].pc \in {"unlink", "unlinkwriter", "clear"}
                   THEN late \cup {proc[p].cmd.id} ELSE late
    /\ UNCHANGED <<file, agents, failing, calling, begun>>

(***************************************************************************)
(* Delegate calls                                                          *)
(***************************************************************************)

CallStarts(id) ==
    /\ available(file)
    /\ \E r \in Role : id \in Range(candidates(file, r))
    /\ begun.calls < MaxCalls
    /\ begun' = [begun EXCEPT !.calls = @ + 1]
    /\ calling' = calling \cup {id}
    /\ UNCHANGED <<file, agents, failing, lock, proc, historyVars>>

\* The call fails and is counted, or succeeds and clears the count.
CallEnds(id) ==
    /\ id \in calling
    /\ calling' = calling \ {id}
    /\ \/ /\ failing' = failing \cup {id}
          /\ late' = IF id \in ids(file) THEN late ELSE late \cup {id}
       \/ failing' = failing \ {id} /\ UNCHANGED late
    /\ UNCHANGED <<file, agents, lock, proc, begun, stale>>

Step(p) ==
    \/ RequireRegistry(p) \/ RequireEntry(p) \/ AskAgent(p) \/ Load(p) \/ Save(p)
    \/ List(p) \/ Look(p) \/ ReadBulkBlock(p) \/ WriteBulk(p) \/ ReadWriter(p) \/ WriteWriter(p)
    \/ Unlink(p) \/ UnlinkWriter(p) \/ ClearBreaker(p) \/ Fail(p)

Next ==
    \/ \E p \in Proc : Begin(p) \/ Step(p)
    \/ \E id \in Id : CallStarts(id) \/ CallEnds(id)

Spec == Init /\ [][Next]_vars

(***************************************************************************)
(* Properties                                                              *)
(***************************************************************************)

Pcs == AtFiles \cup {"idle", "registry", "entry", "agent", "lock", "save", "list", "clear"}

\* Each variable has its type, and whoever runs has a command.
TypeOK ==
    /\ file \in Document \cup {NoRegistry}
    /\ agents \in [Name -> AgentFile \cup {Nil}]
    /\ failing \subseteq Id /\ calling \subseteq Id /\ late \subseteq Id
    /\ begun \in [commands : 0..MaxCommands, calls : 0..MaxCalls]
    /\ lock \in Proc \cup {NoProc}
    /\ proc \in [Proc -> [pc : Pcs, cmd : Commands \cup {Nil}, doc : Document \cup {NoRegistry, Nil},
                          todo : Seq(Id), agent : Name \cup {Nil}, code : BOOLEAN,
                          block : Option \cup {Nil}, spare : SUBSET Name,
                          touched : SUBSET Name, mixed : SUBSET Name]]
    /\ \A p \in Proc : Active(p) => proc[p].cmd \in Commands
    /\ stale \subseteq Name

\* models.json changes by whole edits, each made from the document it
\* replaces: two commands that overlap never lose one another's edit.
Registered == INSTANCE RegistryEdits
EditsAreSerial == Registered!EditsSpec

\* The files commands are at work on, and the models they remove.
Busy == UNION {proc[p].touched : p \in Proc}
Removing == {proc[p].cmd.id : p \in {q \in Proc : Active(q) /\ proc[q].cmd.op = "remove"}}

\* A name that means one file of one model at most.
Unshared(doc, n) ==
    /\ \A e, f \in entries(doc) : n \in NamesOf(e) \cap NamesOf(f) => e.id = f.id
    /\ \A e \in entries(doc) : n \in NamesOf(e) => agent_for(e) # code_writer_agent_for(e.id)

\* A file nobody is at work on, and no command was stopped at or ran into
\* another on, is what the registry says: the bulk reader of a model with the
\* thinking of that role, the code writer with its own if the model has the
\* role, and no file otherwise.
FilesFollowRegistry ==
    file = NoRegistry \/ ~duplicate_error(file) =>
        \A n \in Name \ (stale \cup Busy) : Unshared(file, n) => agents[n] = FilesOf(file)[n]

\* A command takes away the bulk reader of a registered model only where
\* another command was at work on that very file meanwhile, even in a registry
\* that is not valid.
OthersKeepTheirFiles ==
    [][\A n \in bulk_agents(file) :
          agents[n] # Nil /\ agents'[n] = Nil => \E p \in Proc : n \in proc[p].mixed]_vars

\* Whatever the registry holds, an agent file is one of a registered model,
\* and so is a breaker count, unless its removal was stopped or ran into
\* another command, or a call failed after it: what a model that is added
\* again starts from is clean.
NothingOutlivesRemove ==
    /\ \A n \in Name \ (stale \cup Busy) : agents[n] # Nil =>
           \E e \in entries(file) : e.id = agents[n].model /\ n \in NamesOf(e)
    /\ failing \subseteq ids(file) \cup late \cup Removing
=============================================================================
