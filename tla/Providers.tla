----------------------------- MODULE Providers -----------------------------
(***************************************************************************)
(* providers.json and the keys: how an entry is validated, what `provider  *)
(* set` makes of it, and `key set`, which learns the key type, waits for   *)
(* the key to be typed, and stores it where that type says.                *)
(*                                                                         *)
(* A write of providers.json (load, check, rename under the providers      *)
(* lock) is one step; the lock is a variable because a migration holds it  *)
(* over several writes.                                                    *)
(***************************************************************************)
EXTENDS Naturals, FiniteSets

CONSTANTS
    Provider,      \* the provider names
    Ref,           \* names of environment variables
    Settings,      \* the `provider set` command lines
    MaxEdits,      \* bound: operator commands
    Backend,       \* whether the keyring has a backend
    Nil, NoProc

Copied == "copied"   \* a key out of the OpenCode config
Typed == "typed"     \* a key the user entered
Key == {Copied, Typed}

KeyType == {"keyring", "env", "plaintext", "none"}

Entry ==
    [transport : {"http", "opencode"}, base_url : BOOLEAN, type : KeyType,
     ref : Key \cup Ref \cup {Nil}, healthcheck : BOOLEAN \cup {Nil}]

\* Options of `provider set`; Nil is an option that was not given.
Setting ==
    [name : Provider, transport : {"http", "opencode", Nil}, base_url : BOOLEAN,
     type : KeyType \cup {Nil}, ref : Ref \cup {Nil}, healthcheck : BOOLEAN \cup {Nil}]

ASSUME ProvidersAssumption ==
    /\ Settings \subseteq Setting
    /\ Ref \cap Key = {}
    /\ Nil \notin Ref \cup Key \cup KeyType \cup {"http", "opencode"}
    /\ Nil \notin BOOLEAN /\ Nil \notin Entry
    /\ MaxEdits \in Nat /\ Backend \in BOOLEAN

VARIABLES
    providers,  \* provider -> its entry in providers.json, or Nil
    keyring,    \* provider -> the key the keyring holds for it, or Nil
    plock,      \* who holds the providers lock
    typing,     \* provider -> the key type `key set` was told, while it waits for the key
    edits       \* operator commands so far

providerVars == <<providers, keyring, plock, typing, edits>>

\* field: what the getters answer for a provider.
transport(p) == IF providers[p] = Nil THEN "opencode" ELSE providers[p].transport
key_type(p) == IF providers[p] = Nil THEN "none" ELSE providers[p].type

\* entry_problem and set_provider's own check.
Sound(e) ==
    /\ e.type = "env" => e.ref \in Ref
    /\ e.transport = "http" => e.base_url

\* key_resolve: there is a key for the provider (an environment variable is
\* the user's business).
Resolves(p) ==
    CASE key_type(p) = "plaintext" -> providers[p].ref # Nil
      [] key_type(p) = "keyring" -> Backend /\ keyring[p] # Nil
      [] OTHER -> TRUE

ProvidersInit ==
    /\ keyring = [p \in Provider |-> Nil]
    /\ plock = NoProc
    /\ typing = [p \in Provider |-> Nil]
    /\ edits = 0

(***************************************************************************)
(* provider set                                                            *)
(***************************************************************************)

NewProvider == [transport |-> "opencode", base_url |-> FALSE, type |-> "none",
                ref |-> Nil, healthcheck |-> TRUE]

\* _new_key: a plaintext key stays only if its type stays.
NewKey(old, s) ==
    CASE s.type = Nil -> <<old.type, old.ref>>
      [] s.type = "env" -> <<"env", s.ref>>
      [] s.type = "plaintext" /\ old.type = "plaintext" -> <<old.type, old.ref>>
      [] OTHER -> <<s.type, Nil>>

\* The fields that were not given stay as they are.
SetEntry(old, s) ==
    LET Given(new, kept) == IF new = Nil THEN kept ELSE new
        key == NewKey(old, s)
    IN  [transport |-> Given(s.transport, old.transport),
         base_url |-> s.base_url \/ old.base_url,
         type |-> key[1], ref |-> key[2],
         healthcheck |-> Given(s.healthcheck, old.healthcheck)]

set_provider(s) ==
    LET old == IF providers[s.name] = Nil THEN NewProvider ELSE providers[s.name]
    IN  /\ edits < MaxEdits /\ edits' = edits + 1
        /\ plock = NoProc
        /\ providers[s.name] = Nil => s.transport # Nil
        /\ Sound(SetEntry(old, s))
        /\ providers' = [providers EXCEPT ![s.name] = SetEntry(old, s)]
        /\ UNCHANGED <<keyring, plock, typing>>

(***************************************************************************)
(* key set, by hand or through the password window                         *)
(***************************************************************************)

\* A key can be stored: there is a place for it, and it works.
Settable(p) == key_type(p) = "plaintext" \/ (key_type(p) = "keyring" /\ Backend)

\* _key_set: the type decides where the key will go, before it is typed.
AskKey(p) ==
    /\ edits < MaxEdits /\ edits' = edits + 1
    /\ typing[p] = Nil
    /\ providers[p] # Nil
    /\ Settable(p)
    /\ typing' = [typing EXCEPT ![p] = key_type(p)]
    /\ UNCHANGED <<providers, keyring, plock>>

\* The password window has the key and runs `key set`, which asks for the type
\* anew.
CloseWindow(p) ==
    /\ typing[p] # Nil
    /\ typing' = [typing EXCEPT ![p] = IF Settable(p) THEN key_type(p) ELSE Nil]
    /\ UNCHANGED <<providers, keyring, plock, edits>>

\* Nothing was entered, the window timed out, or storing failed.
GiveUpKey(p) ==
    /\ typing[p] # Nil
    /\ typing' = [typing EXCEPT ![p] = Nil]
    /\ UNCHANGED <<providers, keyring, plock, edits>>

StoreInKeyring(p) ==
    /\ typing[p] = "keyring"
    /\ keyring' = [keyring EXCEPT ![p] = Typed]
    /\ typing' = [typing EXCEPT ![p] = Nil]
    /\ UNCHANGED <<providers, plock, edits>>

\* Mutant of plaintext_store: the type is not asked again under the lock.
plaintext_store_unasked(p, key) ==
    /\ providers[p] # Nil
    /\ providers' = [providers EXCEPT ![p].ref = key]

\* The type is asked again under the lock.
plaintext_store(p, key) ==
    /\ key_type(p) = "plaintext"
    /\ providers' = [providers EXCEPT ![p].ref = key]

StorePlaintext(p) ==
    /\ typing[p] = "plaintext"
    /\ plock = NoProc
    /\ plaintext_store(p, Typed)
    /\ typing' = [typing EXCEPT ![p] = Nil]
    /\ UNCHANGED <<keyring, plock, edits>>

ProviderCommands ==
    \/ \E s \in Settings : set_provider(s)
    \/ \E p \in Provider : \/ AskKey(p) \/ CloseWindow(p) \/ GiveUpKey(p)
                          \/ StoreInKeyring(p) \/ StorePlaintext(p)

(***************************************************************************)
(* Properties                                                              *)
(***************************************************************************)

ProvidersTypeOK ==
    /\ providers \in [Provider -> Entry \cup {Nil}]
    /\ keyring \in [Provider -> Key \cup {Nil}]
    /\ typing \in [Provider -> {"keyring", "plaintext", Nil}]
    /\ edits \in 0..MaxEdits

\* An entry is one the transport can use, and a key is kept in the file only
\* under the plaintext type: changing the type away from it drops the key,
\* also when a key was being typed, or a migration was under way, meanwhile.
KeyInPlace(e) == Sound(e) /\ (e.ref \in Key => e.type = "plaintext")

EntriesSound == \A p \in Provider : providers[p] # Nil => KeyInPlace(providers[p])
=============================================================================
