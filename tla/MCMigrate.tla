----------------------------- MODULE MCMigrate -----------------------------
(***************************************************************************)
(* Two providers: the first has a key to copy, the second has none in the  *)
(* OpenCode config but may have one the user stored before.                *)
(***************************************************************************)
EXTENDS Migrate

CONSTANTS alpha, beta

MCOpenCode ==
    [x \in Provider |->
        IF x = alpha THEN [base_url |-> TRUE, key |-> "file", ref |-> Nil, auth |-> FALSE,
                       effort |-> TRUE, limit |-> TRUE]
        ELSE [base_url |-> TRUE, key |-> "none", ref |-> Nil, auth |-> FALSE,
              effort |-> FALSE, limit |-> FALSE]]

Old(type, ref, healthcheck) ==
    [transport |-> "opencode", base_url |-> FALSE, type |-> type, ref |-> ref,
     healthcheck |-> healthcheck]

\* No providers file, or keys of the user's in it.
MCSeeds ==
    {[x \in Provider |-> Nil],
     [x \in Provider |-> Old("plaintext", Typed, FALSE)]}

MCSettings ==
    {[name |-> alpha, transport |-> "http", base_url |-> TRUE, type |-> "none", ref |-> Nil, healthcheck |-> Nil],
     [name |-> alpha, transport |-> Nil, base_url |-> FALSE, type |-> "plaintext", ref |-> Nil, healthcheck |-> FALSE],
     [name |-> beta, transport |-> "opencode", base_url |-> FALSE, type |-> "keyring", ref |-> Nil, healthcheck |-> Nil]}

MCDefaultRef == [x \in Provider |-> "K1"]
=============================================================================
