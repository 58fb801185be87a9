--------------------------- MODULE RegistryEdits ---------------------------
(***************************************************************************)
(* What the registry's lock and rename promise: models.json changes only   *)
(* by one whole edit at a time, made from the document it replaces.        *)
(***************************************************************************)
EXTENDS RegistryDoc

CONSTANTS Commands, Seeds
VARIABLE file

Edit(cmd) ==
    /\ cmd.op # "sync"
    /\ ~Refuses(cmd, file)
    /\ file' = Edited(cmd, file)

EditsSpec == file \in Seeds /\ [][\E cmd \in Commands : Edit(cmd)]_file
=============================================================================
