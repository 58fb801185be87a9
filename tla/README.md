# A verification of agent-model-shunt

agent-model-shunt is a Claude Code plugin. It hands large reads (`bulk-read`) and the
generation of new files (`code-write`) to other models, over HTTP or through the OpenCode
CLI. This directory holds TLA+ models of its Python core (`src/scripts/py/shunt`), the
TLC runs that check them on small instances, and theorems about them that TLAPS checks
for every instance.

Nothing in this program is a long-lived server. Every call, hook, probe and operator
command is an operating system process of its own, and they meet only in files. So the
hard part is not inside a function: it is what two processes do to one file, what a
signal, a kill or a failed system call leaves behind, and what a process still believes
about a file it read some time ago.

## 1. Inventory

### Components, their state, and how they meet

| component | code | state it keeps | modules |
|---|---|---|---|
| circuit breaker | `breaker.py`, `lockfile.py`, `jsonio.py` | a JSON file: breaker key -> failures, paused until; a lock file | `Breaker`, `BreakerFile`, `BreakerFileProofs` |
| failover | `failover.py` | none of its own; reads the registry, reads and writes the breaker, reads and writes the healthcheck status | `Failover`, `FailoverProofs` (with `ReadGate`) |
| hooks and session start | `hooks.py`, `orchestrator.py` | none; they read the registry and the breaker and start probes | `ReadGate` |
| healthcheck and probes | `healthcheck.py`, `healthcheck_bg.py` | a status cache file, one lock file per model, detached children | `HealthProbe`, `HealthProbeProofs` |
| code-write call | `code_write.py`, `cw_parse.py`, `cw_flow.py` | a work directory per call | `CodeWrite`, `AnswerParse`, `CodeWriteProofs` |
| code-write publish | `cw_publish.py`, part of `cw_target.py` | the directories and the file it makes in the user's tree | `Publish`, inside `CodeWrite` |
| OpenCode transport | `opencode_cli.py` | a process group, a transcript and a reply file per call | `ChildProcess`, `TransportProofs` |
| HTTP client | `httpclient.py` | a worker thread and its connection per request | `HttpExchange`, `TransportProofs` |
| HTTP call and chunking | `transport_http.py`, `chunking.py`, `deadline.py` | one attempt: its deadline, its plan, its partial answers | `HttpCall`, `TransportProofs` |
| chunk plan | `chunk_plan.py` | none: a streaming cut of files into pieces | `LineChunks`, `LineChunksProofs`, `LinePieces`, `ChunkPlan` |
| models registry and agents | `models.py`, `models_write.py`, `models_cli.py` | `models.json` and its lock, generated agent files | `RegistryDoc`, `RegistryEdits`, `Registry`, `RegistryProofs` |
| providers and keys | `providers.py`, `providers_write.py`, `key_dialog.py` | `providers.json` and its lock, keyring or plaintext key | `Providers`, `MigrateProofs` |
| migration | `migrate.py`, `migrate_plan.py` | all of the above, from an OpenCode configuration; backups | `Migrate`, `MigrateProofs` |
| usage log | `usage_log.py`, `usage_report.py` | a log file | not modelled |
| the rest | `bulk_read.py`, `context_detect.py`, `probe.py`, `dashboard.py`, `selffix.py`, the config commands, `cli.py`, `env.py`, wrappers, skills | none of their own | not modelled |

`PROJECT.json` names the source files of every component, and what of a component is
left out.

How they interact: `bulk-read` and `code-write` read the candidates once from the
registry and walk them (`failover.py`). For each one they ask the breaker, then call a
transport, then tell the breaker. The HTTP transport first looks at the healthcheck
status and, when that is missing or stale, starts a detached probe; it notes the outcome
of the real call in the same status. A good probe and a good call clear the breaker. An
operator's `shunt-models` command edits the registry, rewrites agent files and drops
breaker state meanwhile; `provider set`, `key set` and a migration edit the providers. A
hook decides about each large Read from registry and breaker before any of this starts.
`code-write` finally parses the answer and publishes it into the user's tree.

### What is hard here

- *interleaving*: breaker updates of several calls; two probes of one model; two
  publishes in one directory; a removed model that comes back under a running call; two
  edits of the registry, and what each does to the agent files once its lock is gone.
- *atomicity and signals*: a signal between a system call and the assignment that
  remembers what it did (fork and `proc`, mkdir and `created.append`, link and `tmp`).
- *stale state*: candidates read once, a breaker asked before and told after the request,
  a cache read before and replaced after another update, a migration plan that waits for
  the user while the user edits what it is about, a key type asked before the key is typed.
- *partial failure*: half a rollback, a copy that ends early, a child that does not start,
  a migration that stops between an entry and its key.
- *time*: cooldowns, stale locks, a total deadline that caps the last request, an answer
  that races its timeout.
- *numeric edges*: the byte where a chunk is cut, a line longer than the budget, a round
  of merging that makes no progress.

`PROJECT.json` lists each of these at its line with the properties that would catch it.

## 2. Plan

1. Circuit breaker: an abstract specification (`Breaker`) and the file implementation
   (`BreakerFile`) with a refinement, model-checked and proved. *Done.*
2. Failover over the shared files, with operator edits and probes (`Failover`), and under
   the hook that sends it its work (`ReadGate`). *Done.*
3. Publish inside a whole code-write call (`Publish`, `CodeWrite`, `AnswerParse`), and a
   whole OpenCode call with its process group (`ChildProcess`). *Done.*
4. Healthcheck locks and cache (`HealthProbe`). *Done.*
5. The HTTP transport: `HttpExchange` with proofs, `HttpCall`, and the chunk plan
   `LineChunks`, `LinePieces`, `ChunkPlan` with proofs. *Done.*
6. The registry as the commands edit it (`RegistryDoc`, `Registry`), shown to implement
   one edit at a time (`RegistryEdits`), with proofs. *Done.*
7. Providers and keys (`Providers`), and the migration over them (`Migrate`). *Done.*
8. Proofs, in this order: `BreakerFile`, `LineChunks`, `HttpExchange`, `Failover` with
   `ReadGate`, `AnswerParse` with `CodeWrite` and `Publish`, `HealthProbe`, `ChildProcess`,
   `HttpCall`, `ChunkPlan`, `Registry` with its refinement of `RegistryEdits`, `Migrate` over
   `Providers`. *Done.* Every safety property of a run is a theorem.
9. Left to model: the isolated OpenCode configuration (two files of one shared directory),
   the rotation of the usage log, kept answers of code-write, the loop over the files of
   one read, the HTTP requests of a probe.

## 3. Modules

One process of the program is one element of a constant set (`Proc`, `Call`, `Publisher`,
`Caller`) or a process of its own (`reader`, `mig`), and its place in the code is a `pc` or
`phase`. One action is one stretch of code between two points where another process, a signal or the kernel can be seen to
matter: a system call on a shared file is a step of its own, what a process does to its
own variables goes with the step before. Time is an integer that a step of its own
advances. Every module ends with its properties; a definition that its comment
calls "Mutant of" another is a plausible bug in that one, used to see that a property can
fail; no specification uses it.

### Breaker, BreakerFile

`Breaker` is the promise: a pause table in which each operation takes effect at one
instant between its call and its answer. `BreakerFile` is the code: `breaker.py`'s update
(take the flock with a timeout, read the document, compute, write a temporary file,
replace). `lock` is the kernel's flock, gone with its holder; `file` is missing, corrupt or a
document. `Abs` is the refinement mapping: an operation has taken effect once its rename
has happened, or once its read showed that there is nothing to write. A kill is possible
at every place; so is a failed read, write or rename.

### Failover, ReadGate

`Failover` is the candidate loop of `failover.py` for both roles. The call reads its
candidates once (`pick` works on that list), asks the breaker per candidate, makes the
attempt, lets the transport note its outcome in the healthcheck status (`note`), judges
the status (`judge`) and records success or failure (`record`). A chunked attempt asks
several times. The breaker is the atomic one of `Breaker`. `HttpCall` and the OpenCode
transport appear as the set of statuses an attempt can have. `Failover.Next` is the calls
among themselves.

`ReadGate` adds the rest of the session: the hook that reads first the registry and then
the breaker (`ReadCandidates`, `ReadBreaker`) and denies a Read, the agent that delegates
it and tries again when the call failed, calls of other sessions, an operator who may
disable, activate, remove and re-add a model between any two steps, and the probes, those
of a session start (`WarmUp`) included.

### HealthProbe

`healthcheck_bg.py` around `healthcheck.py`: a caller tries the lock file of each model
that is due (`O_EXCL`), drops a stale one after looking at its age, and launches one
detached child for what it could lock. The child probes one model after the other under
one time cap and removes the locks. Probes and real calls replace the status cache with
read-change-replace and no lock. `given` remembers, for the
properties only, which verdicts were really found on a model and when.

### Publish, CodeWrite, AnswerParse

`Publish` is `cw_flow.Publication.publish` and `cw_publish.py` on one chain of
directories: directories are opened and made one by one, the content staged and linked
without clobbering, or copied with `O_EXCL` where links fail. A failed call, and one with
a signal, rolls back; signals may come between any two steps, also while a signal is
handled. Once the file is under its name it is looked at once more (`CheckFile`: the link
with `stat`, the copy by reading it); when that look fails the call fails and the file
stays. A user creates files and directories in the same tree. A directory that is
removed and made again gets a new number, so that "the directory this call made" has a
meaning; `makers` remembers, for the properties only, which calls ever made one at a path.

`CodeWrite` is `code_write.run` around it: the checks, the first look at the target, the
work directory, the candidates' answers one after the other, the judgement, the publish
(`PublishStep` is one of `Publish`'s steps), the report and the `finally`. `AnswerParse`
is `cw_parse.py`: an answer is the sequence of its lines, and a line is a tag, a fence, a
blank or text; `section`, `structure_error`, `unfence` and `parse` keep the code's names.
`Sound` is the reference definition: where the four tags stand, and which lines the
written code consists of.

### ChildProcess

`opencode_cli.invoke` as a whole: the size guard, the isolated configuration (which fails
or not), the transcript file, then `run_with_timeout` (the fork in a session of its own,
the time limit, the escalation from SIGTERM to SIGKILL for the whole group, the handlers
of the signals the call dies with, and the `finally`), the verdict on the transcript and
the reply file. The leader may start helpers that ignore SIGTERM and outlive it; a
process that got SIGKILL may need time to end. `caught` tells a caller whose handlers
raise (`code-write`) from one a signal kills (`bulk-read`).

### RegistryDoc, RegistryEdits, Registry

`RegistryDoc` is `models.json` as data: the readers of `models.py` (`available`,
`candidates`, `effective_thinking`, the agent names two models may share) and, for each
command, the document it makes of the one it loaded (`Edited`). Settings that no other
part looks into are one field. `Registry` is `models_cli.py`, `models_write.py` and the
synchronisation of the agent files: every command is a process that checks without the
lock, edits under it, drops it, and then renders or unlinks agent files with a question to
the registry each; a command may fail or be killed at every step, and delegate calls leave
breaker state behind meanwhile. A code-writer file is unlinked only when it is not the bulk
reader of a registered model (`bulk_agents`, read one step earlier). For the properties only,
`touched` and `mixed` say which names a command goes by and which of them another command
went by at the same time, `stale` which files may have been left wrong by that or by a stop,
`late` which breaker counts. `RegistryEdits` is what the lock and the rename promise:
one whole edit at a time, made from the document it replaces.

### Providers, Migrate

`Providers` holds `providers.json`, the keyring and the user's commands: `provider set`
(`NewKey` and `SetEntry` say which key survives a change of its type) and `key set`, which
learns the key type, waits for the key to be typed (in a window of its own, which asks the
type again) and stores it. `Migrate` is the migration: the plan per provider, with the
user's choices as nondeterminism, the confirmation, both locks, the backups, keyring keys,
the write of the entries, plaintext keys, and the write of `models.json`. `Stop` ends a
run at every step (a failed write, a lock that timed out, a signal); a second run follows.
The user edits meanwhile. A key is "copied" or "typed", which is what a lost key is about.

### HttpExchange

`httpclient._perform` as two threads. The worker goes through connect (with its own
limit, over several addresses), TLS, headers and body; the main thread joins for the
limit, looks into the box, and otherwise sets `cancelled` and closes the connection it
sees in `conn.sock`. `sock = "hidden"` are the two stretches in which that attribute is
not the open socket: during the handshake, and from the moment urllib hands the socket to
the response. `declared` is the Content-Length.

### HttpCall

One attempt of `transport_http.http_call` with `chunking.map_reduce` and `deadline.py`:
`ask` fixes the window of the request, `ready` is the healthcheck gate and the key,
`sent` the request. `parts` are the partial answers, each with the chunks it was made of
(`from`) and its bytes; `group` is the range of parts a merge request is about, `next`
the first part of the round that is in no group yet. A prompt is its size: `Base` for
question and instruction, `Header` for the line around a part, which the rounds plan
with the larger `Reserve` (the code's header has at most about 51 bytes, the reserve
100). A request is one step here; `HttpExchange` shows that it ends with its window and
that a timeout is true.

### LineChunks, LinePieces, ChunkPlan

`LineChunks` is `line_ranges`: it reads a file line by line (only sizes matter) and
yields ranges of whole lines `L` with an overlap, and long lines `B`. `LinePieces` cuts a long
line between UTF-8 characters, with a byte being a newline, another white space, the
first byte of a character or a later one, in any order, since the file need not be
UTF-8. `ChunkPlan` composes the two as `plan_file` does, under the limit on chunks that earlier
files left.

## 4. Runs

| run | question | bounds, and why they are enough |
|---|---|---|
| `breaker_file` | is an update atomic, whoever crashes or waits, do keys disturb each other, does a waiting process get its answer? | two processes, one in the lock and one that waits; two keys in one document; the threshold edited between 1 and 2, so that one update can meet the other's limit |
| `failover` | does no call move the breaker of another role, do failures pause a model? | two calls over two models, one with a healthcheck: every pair of steps of two calls on one model, a second candidate, a chunked attempt of two requests; a threshold of 2, so that the failures of both calls have to add up; and a start in which earlier calls paused both models in one role |
| `failover_no_pause` | do N failures in a row pause a model, as README.md:209-210 says? | *violated*: a healthcheck provider with threshold 2 |
| `read_gate` | does a denied Read find a delegate, does a paused delegate let it through, is each count earned, the final reason true, does the call end? | one reader and one call over two models, one of them with probes, one edit; from a fresh registry, and from a registry with one model that earlier calls paused |
| `code_write` | nothing overwritten and nothing of others removed, exit status true (but for the two late errors of section 7), nothing left, no answer taken that is not whole? | two calls (two targets or the same one), a chain of two directories, two signals per call (one while the first is handled), one thing of the user's, who may also own the directories from the start; answers one line away from a good one, by drop, insertion, replacement or exchange (for all others see `ParseIsSound`) |
| `child` | which processes of its group can a call leave (none when it answers; after a signal those of section 7), does it leave a file, does every limited call return? | a leader and two helpers, two signals, every limit and every size verdict |
| `health` | locks kept, probes not doubled, statuses genuine? | two callers and their children, one call, one kill, one edit of `base_url`, time past the cap and the stale age |
| `chunk_plan` | does the plan send every byte in chunks that fit, and is a file refused only when it must be? | budget 8; lines of 1 byte to more than two budgets, at and next to the budget; four lines with an overlap of two give ranges that overlap, that cannot and that meet long lines |
| `http_call` | outcome true, merge complete and in order, in time? | four chunks, answers that fit in threes, in pairs and not at all; limit and total shorter, longer and absent; seconds of two ticks for the rounding. `MaxDepth` is 2, not 3: with four parts the third round is never reached, so 2 is what makes the cap bite |
| `http_exchange` | outcome true, call returns, connection closed? | the connect limit shorter, equal, longer than the limit and absent; answers of up to two bytes and a third too many |
| `registry` | are edits serial, do the agent files follow them, does nothing outlive a remove? | two commands out of 18, which overlap in any way or follow each other, one delegate call; two models and a third id whose agent names collide with the first's; no document and five, three of them edited by hand: roles that were emptied, and two with an agent name that is another model's (which only a command that does not ask for a valid registry gets past) |
| `migrate` | is no provider switched without its key (but by a run cut off before it stored the key), no key lost, no choice undone, does a rerun find nothing? | two providers, one with a key to copy and one whose key only `providers.json` knows; two runs, so that a stop and a rerun fit, and two edits of the user, so that a `key set` may span a run |

Every module with a state has a type invariant. No run lists them, to keep the runs to their
questions: those of `BreakerFile`, `LineChunks`, `ChildProcess`, `Registry` and `Migrate` are
theorems, and the others can be added to the `INVARIANTS` of the run of their module, where
TLC finds them true.

`SYMMETRY` is used where processes differ only in name and the run has no liveness
property. `CHECK_DEADLOCK FALSE` is set where the system really stops: all its processes
have ended.

What the violation shows. *failover_no_pause*: with a healthcheck, each successful HTTP
exchange clears the breaker (`healthcheck_bg.note_call`) before `code-write` rejects the
answer and counts a failure; rejected answers never reach a threshold of two. `failover`
checks the same promise where it does hold (`FailuresPause`: models without a
healthcheck).

### Fairness

Safety runs assume none. Elsewhere:

- `BreakerFile.Fairness`: a process that has started goes on (the kernel schedules it)
  until it ends or is killed; nothing is assumed of the lock, whose wait is bounded by a
  timeout.
- `ReadGate.GateSpec`: weak fairness of each call's own steps; a transport returns a
  status, which is what `HttpCall.CallEnds`, `HttpExchange.MainReturns` and
  `ChildProcess.CallReturns` show. The reader, operators and probes need not act.
- `ChildProcess.FairInvokeSpec`: `WF_invokeVars(Step)`, the call's own steps and its timers. No process
  of the group has to end, not even one that was killed (it may sit in an uninterruptible
  system call), and a call without a limit need not return.
- `HttpExchange.FairRequestSpec`: both threads and the clock. No server has to answer, and it
  may trickle for ever.
- `HttpCall.FairSpec`: the program's steps and the timer of a request. No server has to
  answer.

## 5. Proofs

All constants stay parameters; the named assumptions of the modules are the only ones
(positive budgets and limits, natural bounds), and TLC evaluates each of them.

- **BreakerFileProofs**, for any number of processes, models and roles. `IInv` is the
  type invariant, the lock invariant (the holder is exactly the process between its read
  and the end of its write) and `SnapshotFresh` (what the holder read is what the file
  holds). Neither of the last two is inductive alone: a fresh snapshot needs that nobody
  else can replace the file, and that needs the lock. From `IInv`: `TypeCorrect`,
  `MutualExclusion`, `NoStaleWrite`, `PauseEnds`; and `Refinement`, every step is a step
  of `Breaker` or a stutter, where the rename is the one that counts.
- **LineChunksProofs**, for every budget, overlap, limit and file. The invariant says of
  the range being filled what the properties say of those yielded: it fits, it starts
  where the last one left off or overlaps it by less than the allowed, its `total` is
  the bytes between `start` and `end`. From it `RangesFit`, `RangesCover`,
  `OverlapBounded`, and together `RangesAreSound`. For `ChunkPlan` a second invariant
  goes on top: `PlanInv` says how far the plan has got in the range it takes from
  (`Progress`), that a long line is cut right after it was read (`Waiting`), so that only
  the last one can lack its newline (`Opened`), and that the plan holds at most a budget
  of bytes per chunk (`GoodPlan`). For a line being cut, `Remains` says that what is left
  starts with a character and still has content when the last piece can have it; this is
  where `utf8_cut` and the blank tail meet. `PlansAreComplete` rests on
  `ChunkPlanAssumption`, a budget of more than three bytes: with less a cut could stay
  where it is, and `plan_all` refuses less than `MIN_CHUNK_BYTES` = 200
  (`chunk_plan.py:20`).
- **TransportProofs**, about `HttpExchange`, for every limit, connect limit, number of
  addresses and size.
  A timeout is believed because of a clock the worker does not look at: `TimeoutTrue`
  needs that a socket call is never older than its request (`AgeFollowsClock`), that the
  flag is set only after the main thread has its result (`FlagAfterResult`, so a failure
  that came from the abort is never read), and that the join ends with a box or with the
  time (`JoinIsOver`). With `AnswerIsWhole` it gives `RequestsAreHonest`; of the steps,
  `UnreachableMeansUnsent`.

- **FailoverProofs**, for any number of calls and models, and in a whole session of
  `ReadGate` with its hooks, probes and operator edits. `CountsAreEarned` is not
  inductive: between an attempt that fails and the record of it the call owes the breaker
  one failure. The invariant keeps accounts: per key, what the breaker holds and what the
  calls still owe it is never more than the failures that were earned (`Earned`), and,
  for models without a healthcheck that nothing excused, never less (`Paid`). From it
  `CountsEarned`, `PausesAddUp` and `SessionPausesAddUp`; of the steps, `RolesStayApart`.
  What a failed call says needs what it knows of its candidates: those in `todo` it has
  not looked at, each flag has a candidate that set it, and while nobody edits the
  registry no capable model is forgotten. What the hook saw stays true until someone
  meddles. From it `ReasonsAreHonest`, `DeniedReadsHaveDelegates` and `NobodyIsStranded`.
  The order of candidates is by rank (`Kept`), because the prover knows nothing of
  `SelectSeq`. The `Seeds` hold no id twice, as `validate` demands (`models.py:152-163`).
- **CodeWriteProofs**, for answers of any length. `cw_parse.py` decides with counts, the
  first positions of the tags and a scan for the section; `Sound` says where the tags
  stand and which lines are the code. `SectionBelow` relates the scan to the positions,
  `UnfenceWhole` the fence to the lines that are left; together `ParseIsSound`. With it
  `TakenAnswersAreWhole`, for any number of calls, candidates and signals. For the tree
  the invariant says what a call has to show for each thing it made: a directory a call
  made is known to it or lies above one in use, a temporary file keeps the directory it
  is in, and the target is there exactly when the call linked it and has not failed, or
  failed only in its last look at it (`unchecked`), which is then known by the exit. None
  of the properties is inductive without these, since a rollback removes what a list says
  it may; and that list names only levels the call once made a directory at (`makers`),
  which is what `OthersAreUntouched` needs of it. From it `ExitsAreTrue`,
  `CallsLeaveNothing` and, of the steps, `OthersAreUntouched`.
- **HealthProbeProofs**, for any number of processes and any finite set of models.
  `StatusIsGenuine` needs that a verdict on its way (`note`) and the copy of the cache a
  writer holds carry only given verdicts (`Genuine`): a lost update may bring back an old
  verdict, never a false one. `LocksHaveKeepers` needs that a child does nothing before
  its caller has handed its locks over (`Handed`). `ModelsAreProbedOnce` needs `OnceInv`:
  a model whose lock never grew stale is held by one process, once, its lock is there,
  and no caller is about to drop it.
- **TransportProofs**, about `ChildProcess`, for any set of helpers and any number of
  signals. What still
  runs when the call returns depends on how it got there: the handlers are in place from
  before the fork to the last kill (`Handlers`), a signal leads out and never back
  (`Signalled`), and once the handlers are gone by themselves nothing runs (`Silent`).
  From it `NothingIsLeft`, which names the three ways a signal can leave a process.
- **TransportProofs**, about `HttpCall`, for every limit, total, length of a second and
  number of chunks. A
  window is fixed before the key is read and its request goes out later: `WindowSound`
  says what rounding to whole seconds gives at that moment, `Timed` carries it to the
  end of the request. From it `OutcomesAreHonest` and `RequestsEndInTime`. `MergeInv` is
  about the parts: partial answers divide the input at cuts, during a round the answers
  that are done and those still to merge meet at one; the requests sent and the answers
  left come to at most twice the chunks; and the first group of a round is never
  everything, because everything did not fit. From it `AnswersAreComplete` and
  `MergesAreBounded`. The size of a list of answers is a recursive function (`SizeOf`),
  so that the prover can unfold it.
- **RegistryProofs**, for any processes, commands, documents and assignment of agent names.
  A command works on agent files long after it dropped the lock, so nothing it read is
  protected; what saves it is that the names of its model are its own (`Own`: `touched`
  without `mixed`). `ViewOf` says what it knows of these at each place, and is carried
  over the steps of others by three lemmas: the document and the files stay as they are
  (`ViewOfSame`), a file of another name changes (`ViewOfAgents`), a command loses a name
  to one that starts (`ViewShrinks`). `FileInv` is `FilesFollowRegistry` with the files
  added that a command has still to get to (`Pending`), `OwnedInv` the same for leftovers,
  `CountInv` for breaker counts. None of the properties is inductive without them: between
  the save and the last write the files are wrong. From them `FilesAreRight`,
  `RemovedIsGone` and, of the steps, `OthersFilesStay`, which holds of invalid registries
  too. `EditsOneByOne` is the refinement: the document a command saves was made from the one
  its rename replaces, because the lock is held in between. All rest on
  `RegistryAssumption`. The entries a removal keeps are told by their index (`Kept` in
  `RegistryDoc`), because the prover knows nothing of `SelectSeq`.

- **MigrateProofs**, for any providers, OpenCode configuration and `provider set` commands, any
  number of runs and edits, and any providers file to start from, faulty entries included. A
  run acts for a long time on what it read without a lock, so none of the properties is
  inductive. `PlanIsTrue` says what of the plan still holds of a provider the user left
  alone: before the write, that it is on opencode and that a key called "stored" is; after
  it, that the entry is as the plan has it. `KeysInv` says of the keys to store which are
  already there and that the place of those to come is free, so that storing one overwrites
  none. `DocInv` says that what is about to be written was made from the file as it is,
  which the lock makes true, whatever the plan believed. `MovedInv` strengthens
  `KeyBeforeHttp`: a provider once moved is on http still, and no later plan is about it.
  `BackupInv` and `SettledInv` do the same for the backups and for a rerun, where `AtRest`
  says why the planner finds nothing: a provider is on http with its models filled, was
  never to be moved, or is pending with an entry that planning it again leaves as it is
  (`Fixed`, by `PendingStays`). What an entry of the plan makes of an old one (`Merged`) is in
  the lemmas `MergedFields` and `MergedEntries`. From it `KeysComeBeforeHttp`,
  `RerunsFindNothing` and, of the steps, `KeysStayRecoverable`, `ChoicesAreKept` and
  `SoundEntriesStaySound`: no step turns a sound entry into a faulty one. `EntriesAreSound` has
  sound entries at the start as its hypothesis, because the code does not enforce it: an
  entry put in by hand with http and no `base_url`, or with a key under another type, passes
  `entry_problem` (`providers.py:87`) and stays until it is set again.

Several of these rest on one fact the prover does not have: that a set of numbers has a
least element (`LeastOf`, from the library's well-founded order of the naturals). A
counterexample of least length or position then does the work of an induction.

Only model-checked: liveness, which is out of the prover's reach (a process that waits gets
its answer or its time-out, every call, request, child and attempt ends, a given-up
request closes its connection), and `ENABLED`; so is what a fold or `SelectSeq` computes.

## 6. Not modelled

- *usage log and report*: an append of one line under a size limit, and layout. *context
  size detection*: a sequence of requests to one provider with no shared state. *bulk-read
  command*: arguments and output around `Failover`. *dashboard, settings, command line*:
  views and single-value settings. *shell wrappers, skills, prompts*: no state.
- Text work: the layout of prompts and reports, shell command lines in the hook, providers'
  replies, the lexical rules for targets and inputs. A reply is its size or a verdict, an
  answer of code-write the sequence of the kinds of its lines.
- Hazards without a property: a lock that stays when the provider is edited between the
  lock and the probe (`healthcheck_bg.py:196`; it expires as a stale lock); a file that
  changes between the plan and the cut of its chunks (`chunk_plan.py:316`); a signal
  between a system call and the record of it (below), which no property can promise away.
- Secrets: in a call the key is "read" or "cannot be read"; `Providers` tells a copied key
  from one the user typed and nothing more.
- Of the kernel: an `ETIMEDOUT` of its own before the program's limit, which Python
  reports like the program's own timeout; `httpclient` would call it "timeout" early.
- Of CPython: what `http.client`'s `close` does to a response another thread is reading.
- Reads that fail in passing. `breaker._load` and `migrate_plan.load` take a file they
  cannot read for a missing one, and the update then writes a document without the other
  entries (`breaker.py:93-98`, `migrate_plan.py:67-72`, `migrate_view.py:18-19`). In
  `BreakerFile.Load` and `Migrate.Relock` a read does not fail, so `NoStaleWrite`, the
  refinement and `ChoicesKept` say nothing of such a run.
- Two reads as one: `Registry.Look` takes role and agent name from one document
  (`models.py:452-454` reads twice), and `ReadWriter` the bulk agents
  (`models.py:442-444` reads once per entry).
- A rollback's own `unlink` and `rmdir` fail only for a directory in use; the code
  ignores their other errors and leaves the thing there.
- A lock file from the future (`healthcheck_bg.py:65`), like a clock that goes back.
- `chunk_plan.write_chunk`'s second cut: a chunk of a long line whose length changed
  fails the call; `HttpCall.ChunkFails` allows that at any chunk.

## 7. Observed while modelling

Behaviours that are worth knowing and that no run states as a property:

- A call in flight records its failure after `remove` dropped the model's breaker state,
  so a re-added model can begin with a count (`failover.py:163`).
- `cw_publish`: a signal between `link` and the assignment that disarms the rollback
  leaves the file although the exit status says 143; a signal between `mkdir` and
  `created.append` leaves a directory, and one between the return of `mkdtemp` and the
  assignment of `call.work` the work directory. `CodeWrite` has all three: `ExitTrue` and
  `CallLeavesNothing` speak of calls that succeeded, failed or declined, not of those a
  signal ended.
- An error after the file is under its name fails the call and leaves the file, with the
  directories it is in: the `stat` of a link fails or sees another file
  (`cw_publish.py:232-233`), a copy does not read back as it was written (`:249-250`
  returns without the unlink its handler below would do), or `getsize` fails after the
  publish (`code_write.py:238`). The exit status is 1 each time, although
  `code_write.py:9-10` says "1 refused or failed (nothing was written)" and
  `cw_flow.py:74-75` "nothing left behind". `ExitTrue` and `CallLeavesNothing` name these
  errors as their exceptions and hold of all other failures.
- `make_dirs`' rollback and `cleanup` remove the same directories twice, by path
  (`cw_publish.py:100`, `cw_flow.py:64`). By the second time an empty directory there may
  be another call's or the user's, who then fails or misses it, although
  `cw_flow.py:58-59` says "only the directories this call created … Touches nothing
  else". `DirsStay`, in `OthersUntouched`, states what does hold: a directory from before
  the calls stays, a later one goes only while it is empty, and only by the rollback of a
  call that had made one at that very path.
- `opencode_cli.py:310` says of the handlers "installed before the start, so no signal can
  orphan the child". Three ways remain: a signal between the fork and the assignment of
  `proc`; one after the leader has ended by itself and before the kill of its group
  (`:318-323`), after which `:325` finds that `poll()` is not None and leaves the helpers
  running; and a second signal that breaks into the kill. `ChildProcess.GroupEnds` allows
  these and no other, and even then the leader itself has ended when there was one signal
  and `proc` was known.
- `httpclient._classify` gives "connect" to any other `OSError`, also to one after the
  request was sent (`httpclient.py:208-213`), which `transport_http.py:320` reports as
  unreachable for a provider with a healthcheck, although `transport_http.py:74` says "no
  connection could be made". Such a failure is then not counted by the breaker.
  `UnreachableIsUnsent` is about the kind "unreachable", not about "connect".
- `opencode_cli.prepare_isolated_config` writes two files of one directory per agent, each
  atomically: two calls around an edit of the user's configuration can leave one file of
  each.
- Overlapping `roles` and `thinking` commands of one model can leave a code-writer file
  although the role was dropped; a `remove` that races a new `add` of the same id deletes
  the new agent files; an `activate` that races a `remove` leaves an active model that is
  not registered; `add` of an id whose agent names collide saves a registry that is not
  valid, which `remove` then refuses to repair. `Registry` remembers the names of the
  files concerned in `stale` and the ids with a leftover count in `late`. Its properties are
  about all others, and `FilesFollowRegistry` leaves out a name that two models of a
  hand-edited registry share: there the last command decides whose file it is.
- A migration stopped between the write of the entries and the plaintext key leaves an
  http provider without a key, and a rerun calls it done. A stale plan can overwrite a
  `provider set` or a key made meanwhile; a key stored after the backup is then lost. A
  provider without an `apiKey` in opencode.json gets key type none over a stored
  plaintext key, which is then only in the backup.
- The hook denies a Read as long as one candidate is not paused. Statuses that never count
  (skipped or unreachable with a healthcheck, rejected key, configuration) never pause
  one, so a Read may be denied again and again while each delegated call fails, although
  README.md:201-203 says Claude "isn't stranded". `NotStranded` says what does hold.
- `healthcheck_bg.py:194-196` returns before it names the lock when the model is not due
  any more; that lock stays until it is stale.
- The status cache is read and replaced without a lock: a noted status can be lost
  (README.md:283 accepts it).
- `write_chunk`'s docstring says a source "that gives other than the planned byte
  length, fails the call"; chunks of whole lines (`offset < 0`) are sent with whatever
  length the lines have by then.
- `deadline.py:4-5`: the total is rounded up to whole seconds per request and the key is
  read after the window was fixed, so an attempt may end up to the key's lookup and one
  second late. `RequestInTime` states this bound, not the stricter one.
- `chunk_plan.overhead` counts raw bytes of question and label, the size guard the bytes
  as sent: invalid bytes in a file name grow in between.
- A merge that meets one partial answer that is too big alone gives up only when it
  comes to it, after the groups before it in that round were paid for
  (`chunking.py:128-134`).

Some hazards of the code have no entry of their own in `PROJECT.json`, to keep that list
to what matters most: a clock that goes back, the reuse of a process number by the
kernel, the unlocked reset of the breaker's configuration, a breaker write that fails and
is only a warning.
