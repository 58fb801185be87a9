---------------------------- MODULE MCCodeWrite ----------------------------
(***************************************************************************)
(* Two calls and a user below one project root.  The models answer well,   *)
(* or with one line too many, too few or out of place.                     *)
(***************************************************************************)
EXTENDS CodeWrite, TLC

Good == <<"<notes>", "text", "</notes>", "<code>", "fence3py", "text", "fence3", "</code>">>

Dropped(i) == RemoveAt(Good, i)
Inserted(i, line) == InsertAt(Good, i, line)
Replaced(i, line) == [Good EXCEPT ![i] = line]
Moved(i, j) == InsertAt(RemoveAt(Good, i), j, Good[i])

MCLines ==
    {Good, <<>>}
    \cup {Dropped(i) : i \in DOMAIN Good}
    \cup {Inserted(i, "text") : i \in {1, 4, Len(Good) + 1}}
    \cup {Inserted(i, "</notes>") : i \in {1, 5}}
    \cup {Moved(i, i + 1) : i \in {1, 3, 4, 7}}
    \cup {Replaced(5, "fence4"), Replaced(7, "fence4"), Replaced(7, "fence3py")}

\* No notes, no code, or neither.
Short ==
    {<<"<notes>", "text", "</notes>", "<code>", "</code>">>,
     <<"<notes>", "</notes>", "<code>", "text", "</code>">>,
     <<"<notes>", "blank", "</notes>", "<code>", "blank", "</code>">>}

MCAnswers ==
    {[lines |-> l, small |-> TRUE, clean |-> TRUE, plain |-> TRUE] : l \in MCLines \cup Short}
    \cup {[lines |-> Good, small |-> s, clean |-> ~s, plain |-> FALSE] : s \in BOOLEAN}

\* The calls differ in nothing but their names.
PublisherSymmetry == Permutations(Publisher)
=============================================================================
