------------------------------- MODULE Publish -------------------------------
(***************************************************************************)
(* cw_flow.py and cw_publish.py: code-write makes the directories of a new *)
(* file, stages the content in a temporary file next to it and links it    *)
(* under its final name, or rolls back.  Several calls and a user work in  *)
(* the same tree.                                                          *)
(*                                                                         *)
(*   resolve -> open -> mkdir [-> record] -> enter -> ... -> stage ->      *)
(*   create -> fill -> look -> link -> placed (or opened -> copy)          *)
(*   -> unlink -> commit -> ended                                          *)
(*                                                                         *)
(* and after a failure or a signal: [undo ->] sweep -> cleanup -> ended.   *)
(*                                                                         *)
(* The tree is one chain of directories 1..Depth below the project root;   *)
(* each may hold one file.  A removed directory that is made again is      *)
(* another one: directories are told apart by the number they got.         *)
(***************************************************************************)
EXTENDS Naturals, Sequences, SequencesExt

CONSTANTS
    Publisher,     \* the code-write calls
    Depth,         \* the directories of the chain
    MaxSignals,    \* bound: signals that reach one call
    MaxUser,       \* bound: things the user creates
    User, Nobody

ASSUME PublishAssumption ==
    /\ Depth \in Nat \ {0} /\ {MaxSignals, MaxUser} \subseteq Nat
    /\ User \notin Publisher /\ Nobody \notin Publisher /\ User # Nobody

Level == 1..Depth

VARIABLES
    dir,           \* level -> the number of the directory there, 0: none
    last,          \* the last number given to a directory
    file,          \* level -> who made the file in that directory
    temp,          \* publisher -> the directory its temporary file is in, 0: none
    job,           \* publisher -> where its publish is
    user,          \* things the user made so far
    owner,         \* history: level -> who made the directory there
    makers,        \* history: level -> the calls that ever made one there
    spared         \* history: publisher -> levels its rollback found in use

treeVars == <<dir, last, file, owner, makers>>
vars == <<treeVars, temp, job, user, spared>>

Job == [pc : {"resolve", "open", "mkdir", "record", "enter", "stage", "create", "fill", "look",
              "link", "placed", "opened", "copy", "unlink", "commit", "undo", "sweep", "cleanup", "ended"},
        target : Level, at : 0..Depth + 1, held : Nat, made : Seq(Level), todo : Seq(Level),
        signals : 0..MaxSignals, exit : {"none", "ok", "failed", "unchecked", "signal", "killed"}]

NewJob(t) == [pc |-> "resolve", target |-> t, at |-> 0, held |-> 0, made |-> <<>>, todo |-> <<>>,
              signals |-> 0, exit |-> "none"]

\* The directory at a level; level 0 is the project root.
Dir(l) == IF l = 0 THEN 1 ELSE dir[l]

TempsIn(l) == {p \in Publisher : temp[p] # 0 /\ temp[p] = dir[l]}

Empty(l) == file[l] = Nobody /\ TempsIn(l) = {} /\ (l < Depth => dir[l + 1] = 0)

\* Something below level l was made by somebody else than p.
Foreign(l, p) ==
    \E n \in l..Depth : dir[n] # 0 /\ \/ n > l /\ owner[n] # p
                                      \/ file[n] \notin {Nobody, p}
                                      \/ TempsIn(n) \ {p} # {}

\* The chain exists down to some level, the user's.
Init ==
    /\ \E n \in 0..Depth :
          /\ dir = [l \in Level |-> IF l <= n THEN 1 + l ELSE 0]
          /\ owner = [l \in Level |-> IF l <= n THEN User ELSE Nobody]
    /\ last = Depth + 1
    /\ makers = [l \in Level |-> {}]
    /\ file = [l \in Level |-> Nobody]
    /\ temp = [p \in Publisher |-> 0]
    /\ \E t \in [Publisher -> Level] : job = [p \in Publisher |-> NewJob(t[p])]
    /\ user = 0
    /\ spared = [p \in Publisher |-> {}]

At(p, pc) == job[p].pc = pc

Goto(p, to) == job' = [job EXCEPT ![p].pc = to]

\* A rollback starts at pc "to": first the directories made last.
RollBack(p, to, why) ==
    job' = [job EXCEPT ![p].pc = to, ![p].exit = why, ![p].held = 0, ![p].at = 0,
                       ![p].todo = Reverse(job[p].made)]

\* make_dirs removes its directories itself before publish cleans up.
Fail(p) ==
    RollBack(p, IF job[p].pc \in {"open", "mkdir", "record", "enter"} THEN "undo" ELSE "sweep", "failed")

(***************************************************************************)
(* The stages                                                              *)
(***************************************************************************)

\* check_target: refuse a target that exists, else find the nearest directory
\* that does.
Resolve(p) ==
    /\ At(p, "resolve")
    /\ LET t == job[p].target
           n == CHOOSE k \in 0..t : /\ \A l \in 1..k : dir[l] # 0
                                    /\ k < t => dir[k + 1] = 0
       IN  IF n = t /\ file[t] # Nobody
               THEN job' = [job EXCEPT ![p].pc = "ended", ![p].exit = "failed"]
               ELSE job' = [job EXCEPT ![p].pc = "open", ![p].at = n]
    /\ UNCHANGED <<treeVars, temp, user, spared>>

\* After the directory at the level "at" is held: the next one, or the file.
Held(p, l, d) ==
    job' = [job EXCEPT ![p].held = IF l = job[p].target THEN 0 ELSE d,
                       ![p].at = IF l = job[p].target THEN 0 ELSE l + 1,
                       ![p].pc = IF l = job[p].target THEN "stage" ELSE "mkdir"]

OpenAncestor(p) ==
    /\ At(p, "open")
    /\ IF Dir(job[p].at) = 0 THEN Fail(p) ELSE Held(p, job[p].at, Dir(job[p].at))
    /\ UNCHANGED <<treeVars, temp, user, spared>>

\* Mutant of MakeDir: a directory that appeared meanwhile is listed as ours too.
MakeDirListsAll(p) ==
    LET l == job[p].at
    IN  /\ At(p, "mkdir")
        /\ IF Dir(l - 1) # job[p].held
               THEN Fail(p) /\ UNCHANGED treeVars
           ELSE IF dir[l] # 0
               THEN Goto(p, "record") /\ UNCHANGED treeVars
           ELSE /\ Goto(p, "record")
                /\ last' = last + 1
                /\ dir' = [dir EXCEPT ![l] = last + 1]
                /\ owner' = [owner EXCEPT ![l] = p]
                /\ makers' = [makers EXCEPT ![l] = @ \cup {p}]
                /\ UNCHANGED file
        /\ UNCHANGED <<temp, user, spared>>

\* mkdir below the held directory, which fails once that one is removed.
MakeDir(p) ==
    LET l == job[p].at
    IN  /\ At(p, "mkdir")
        /\ IF Dir(l - 1) # job[p].held
               THEN Fail(p) /\ UNCHANGED treeVars
           ELSE IF dir[l] # 0
               THEN Goto(p, "enter") /\ UNCHANGED treeVars
           ELSE /\ Goto(p, "record")
                /\ last' = last + 1
                /\ dir' = [dir EXCEPT ![l] = last + 1]
                /\ owner' = [owner EXCEPT ![l] = p]
                /\ makers' = [makers EXCEPT ![l] = @ \cup {p}]
                /\ UNCHANGED file
        /\ UNCHANGED <<temp, user, spared>>

\* Mutant of Record: only the deepest directory is remembered.
RecordLast(p) ==
    /\ At(p, "record")
    /\ job' = [job EXCEPT ![p].pc = "enter", ![p].made = <<job[p].at>>]
    /\ UNCHANGED <<treeVars, temp, user, spared>>

\* created.append: from here on the directory is known to be ours.
Record(p) ==
    /\ At(p, "record")
    /\ job' = [job EXCEPT ![p].pc = "enter", ![p].made = Append(@, job[p].at)]
    /\ UNCHANGED <<treeVars, temp, user, spared>>

EnterDir(p) ==
    LET l == job[p].at
    IN  /\ At(p, "enter")
        /\ IF Dir(l - 1) # job[p].held \/ dir[l] = 0 THEN Fail(p) ELSE Held(p, l, dir[l])
        /\ UNCHANGED <<treeVars, temp, user, spared>>

\* _check_parent and _open_parent: the parent is looked up again by its path.
Stage(p) ==
    /\ At(p, "stage")
    /\ IF dir[job[p].target] = 0
           THEN Fail(p)
           ELSE job' = [job EXCEPT ![p].pc = "create", ![p].held = dir[job[p].target]]
    /\ UNCHANGED <<treeVars, temp, user, spared>>

CreateTemp(p) ==
    /\ At(p, "create")
    /\ IF dir[job[p].target] # job[p].held
           THEN Fail(p) /\ UNCHANGED temp
           ELSE Goto(p, "fill") /\ temp' = [temp EXCEPT ![p] = job[p].held]
    /\ UNCHANGED <<treeVars, user, spared>>

Fill(p) ==
    /\ At(p, "fill")
    /\ job' = [job EXCEPT ![p].pc = "look", ![p].held = 0]
    /\ UNCHANGED <<treeVars, temp, user, spared>>

\* link_no_clobber looks at the temporary file and at the final name.
Look(p) ==
    LET t == job[p].target
    IN  /\ At(p, "look")
        /\ IF dir[t] = 0 \/ temp[p] # dir[t] \/ file[t] # Nobody
               THEN Fail(p)
               ELSE Goto(p, "link")
        /\ UNCHANGED <<treeVars, temp, user, spared>>

\* link(2), or after an error of it, as without hard links, the exclusive
\* create of the copy: both refuse a name in use.
Link(p) ==
    LET t == job[p].target
    IN  /\ At(p, "link")
        /\ IF file[t] # Nobody
               THEN Fail(p) /\ UNCHANGED file
               ELSE /\ file' = [file EXCEPT ![t] = p]
                    /\ Goto(p, "placed") \/ Goto(p, "opened")
        /\ UNCHANGED <<dir, last, owner, makers, temp, user, spared>>

\* _create_copy's second try: from here on its file is removed on a failure.
StartCopy(p) ==
    /\ At(p, "opened")
    /\ Goto(p, "copy")
    /\ UNCHANGED <<treeVars, temp, user, spared>>

\* The file under the final name is looked at once more: the link with stat, the
\* copy by reading it.  An answer of no, or a stat that fails, is a failure of
\* the publish, and the file stays.
CheckFile(p) ==
    /\ job[p].pc \in {"placed", "copy"}
    /\ Goto(p, "unlink") \/ RollBack(p, "sweep", "unchecked")
    /\ UNCHANGED <<treeVars, temp, user, spared>>

UnlinkTemp(p) ==
    /\ At(p, "unlink")
    /\ temp' = [temp EXCEPT ![p] = 0]
    /\ Goto(p, "commit")
    /\ UNCHANGED <<treeVars, user, spared>>

\* tmp and created are forgotten: nothing is left to roll back.
Commit(p) ==
    /\ At(p, "commit")
    /\ job' = [job EXCEPT ![p].pc = "ended", ![p].exit = "ok", ![p].made = <<>>]
    /\ UNCHANGED <<treeVars, temp, user, spared>>

(***************************************************************************)
(* Failure, signals and the rollback                                       *)
(***************************************************************************)

\* Mutant of FileUndone: half a copy keeps the final name.
FileNotUndone(p) == file

\* What the handlers around a stage undo at once.
FileUndone(p) ==
    IF At(p, "copy") THEN [file EXCEPT ![job[p].target] = Nobody] ELSE file

\* A system call fails (no space, no permission, a link in the way).
IoError(p) ==
    /\ job[p].pc \in {"open", "mkdir", "enter", "stage", "create", "fill", "look", "link", "copy"}
    /\ Fail(p)
    /\ file' = FileUndone(p)
    /\ UNCHANGED <<dir, last, owner, makers, temp, user, spared>>

\* SIGINT, SIGTERM or SIGHUP while the handlers of the call are installed.  A
\* second one during make_dirs' rollback or publish's own cleanup starts the
\* final cleanup.
Signal(p) ==
    /\ \/ job[p].pc \notin {"ended", "sweep", "cleanup"}
       \/ job[p].pc \in {"sweep", "cleanup"} /\ job[p].exit \in {"failed", "unchecked"}
    /\ job[p].signals < MaxSignals
    /\ job' = [job EXCEPT ![p].exit = "signal", ![p].signals = @ + 1, ![p].held = 0, ![p].at = 0,
                          ![p].pc = IF @ \in {"open", "mkdir", "record", "enter"}
                                        THEN "undo" ELSE "sweep",
                          ![p].todo = Reverse(job[p].made)]
    /\ file' = FileUndone(p)
    /\ UNCHANGED <<dir, last, owner, makers, temp, user, spared>>

\* A signal that nothing catches, or one that meets the final cleanup after
\* the old handlers are back.
Kill(p) ==
    /\ job[p].pc # "ended" /\ job[p].signals < MaxSignals
    /\ job' = [job EXCEPT ![p].pc = "ended", ![p].exit = "killed", ![p].signals = @ + 1,
                          ![p].held = 0, ![p].at = 0, ![p].made = <<>>, ![p].todo = <<>>]
    /\ UNCHANGED <<treeVars, temp, user, spared>>

\* cleanup: the temporary file first.
Sweep(p) ==
    /\ At(p, "sweep")
    /\ temp' = [temp EXCEPT ![p] = 0]
    /\ Goto(p, "cleanup")
    /\ UNCHANGED <<treeVars, user, spared>>

\* rmdir of the next directory, by its path and only when it is empty.
RemoveDir(p) ==
    LET l == Head(job[p].todo)
    IN  /\ job[p].pc \in {"undo", "cleanup"} /\ job[p].todo # <<>>
        /\ IF dir[l] # 0 /\ Empty(l)
               THEN /\ dir' = [dir EXCEPT ![l] = 0]
                    /\ owner' = [owner EXCEPT ![l] = Nobody]
                    /\ UNCHANGED <<last, file, makers, spared>>
               ELSE /\ spared' = [spared EXCEPT ![p] = IF Foreign(l, p) THEN @ \cup {l} ELSE @]
                    /\ UNCHANGED treeVars
        /\ job' = [job EXCEPT ![p].todo = Tail(@)]
        /\ UNCHANGED <<temp, user>>

\* The end of make_dirs' rollback starts the cleanup of the whole publish,
\* whose end is the end of the call.
Undone(p) ==
    /\ job[p].todo = <<>>
    /\ \/ /\ At(p, "undo")
          /\ job' = [job EXCEPT ![p].pc = "sweep", ![p].todo = Reverse(job[p].made)]
       \/ /\ At(p, "cleanup")
          /\ job' = [job EXCEPT ![p].pc = "ended", ![p].made = <<>>]
    /\ UNCHANGED <<treeVars, temp, user, spared>>

(***************************************************************************)
(* The user                                                                *)
(***************************************************************************)

UserMakesDir(l) ==
    /\ user < MaxUser /\ user' = user + 1
    /\ dir[l] = 0 /\ Dir(l - 1) # 0
    /\ last' = last + 1
    /\ dir' = [dir EXCEPT ![l] = last + 1]
    /\ owner' = [owner EXCEPT ![l] = User]
    /\ UNCHANGED <<file, makers, temp, job, spared>>

UserMakesFile(l) ==
    /\ user < MaxUser /\ user' = user + 1
    /\ dir[l] # 0 /\ file[l] = Nobody
    /\ file' = [file EXCEPT ![l] = User]
    /\ UNCHANGED <<dir, last, owner, makers, temp, job, spared>>

Advance(p) ==
    \/ Resolve(p) \/ OpenAncestor(p) \/ MakeDir(p) \/ Record(p) \/ EnterDir(p)
    \/ Stage(p) \/ CreateTemp(p) \/ Fill(p) \/ Look(p) \/ Link(p) \/ StartCopy(p)
    \/ CheckFile(p) \/ UnlinkTemp(p) \/ Commit(p) \/ Sweep(p) \/ RemoveDir(p) \/ Undone(p)

(***************************************************************************)
(* Properties                                                              *)
(***************************************************************************)

\* Each variable has its type: a directory lies in a directory, a file and a
\* temporary file too, and a call lists each directory once, outer ones first.
TypeOK ==
    /\ dir \in [Level -> Nat] /\ last \in Nat
    /\ file \in [Level -> Publisher \cup {User, Nobody}]
    /\ temp \in [Publisher -> Nat]
    /\ job \in [Publisher -> Job]
    /\ user \in 0..MaxUser
    /\ owner \in [Level -> Publisher \cup {User, Nobody}]
    /\ makers \in [Level -> SUBSET Publisher]
    /\ spared \in [Publisher -> SUBSET Level]
    /\ \A l \in Level : dir[l] = 0 => file[l] = Nobody /\ (l < Depth => dir[l + 1] = 0)
    /\ \A p \in Publisher :
          /\ temp[p] # 0 => temp[p] = dir[job[p].target]
          /\ \A i, j \in DOMAIN job[p].made : i < j => job[p].made[i] < job[p].made[j]

\* A file that is there is never replaced; only the copy of a call that fails
\* before it is complete is taken back.  cw_publish.py: "Never overwrites
\* anything".
NoClobber ==
    [][\A l \in Level : file[l] # Nobody /\ file'[l] # file[l] =>
          \E p \in Publisher : file[l] = p /\ job[p].pc = "copy" /\ file'[l] = Nobody]_vars

\* A call that ended and was not killed leaves no temporary file.
NoTempLeft ==
    \A p \in Publisher : At(p, "ended") /\ job[p].exit # "killed" => temp[p] = 0

\* The directories p left although nobody else used them, or one below them.
DirsLeft(p) == {l \in Level : owner[l] = p /\ \A n \in spared[p] : n < l}

\* A publish that failed leaves no directory it made, unless somebody else
\* had put something in it by then, or its own file is there because only the
\* last look at it failed.
NoDirLeft ==
    \A p \in Publisher :
       At(p, "ended") /\ job[p].exit \in {"failed", "unchecked"} =>
          DirsLeft(p) = {} \/ (job[p].exit = "unchecked" /\ file[job[p].target] = p)

\* A directory that was there before the calls is never removed.
OldDirsStay == [][\A l \in Level : dir[l] \in 1..Depth + 1 => dir'[l] = dir[l]]_vars

\* Any other one goes only while it is empty, and only by the rollback of a call
\* that had made a directory at that very path.  It need not be the same one:
\* when the call's own went the first time, the second removal takes an empty
\* one that somebody else has made there since.
DirsStay ==
    [][\A l \in Level : dir[l] # 0 /\ dir'[l] # dir[l] =>
          /\ dir'[l] = 0 /\ Empty(l)
          /\ \E p \in makers[l] : job[p].pc \in {"undo", "cleanup"} /\ job'[p] # job[p]]_vars

\* No file of others is replaced or removed, no directory from before the calls,
\* and of the later ones only what DirsStay allows.
OthersUntouched == NoClobber /\ OldDirsStay /\ DirsStay

\* A call that failed has taken back its temporary file and its directories.
NothingLeft == NoTempLeft /\ NoDirLeft
=============================================================================
