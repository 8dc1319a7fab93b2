------------------------------- MODULE Claims -------------------------------
(***************************************************************************)
(* What the registry promises, whatever it is stored in: the set of        *)
(* claimed namespaces changes one entry at a time, in one step, and only   *)
(* by someone authorised for that entry as it is at that moment.  A claim  *)
(* never meets an overlapping one, and no entry ever leaves or changes     *)
(* hands except by the operator's own editor.  Abstracts                   *)
(* src/src/registry.rs and src/src/admin.rs.                               *)
(***************************************************************************)
EXTENDS Paths

CONSTANTS
    Namespace,   \* every entry a registry can hold
    Strategy,    \* every way of answering it can give one
    Repository,  \* every repository it can bind to one
    Claimant,    \* the clients that may claim
    Client,
    MayAdminister(_, _)  \* whether a client administers a prefix

VARIABLES
    readable,  \* whether the file can be read at all
    held,      \* the entries in force, none when it cannot
    edits      \* how often the operator has edited the file

vars == <<readable, held, edits>>

Disjoint(entries) ==
    \A a, b \in entries :
        a # b => ~Overlaps(Segments(a.prefix), Segments(b.prefix))

Init ==
    /\ readable \in BOOLEAN
    /\ held \in SUBSET Namespace
    /\ Disjoint(held)
    /\ edits = 0

Claim(client, entry) ==
    /\ readable
    /\ client \in Claimant
    /\ \A old \in held : ~Overlaps(Segments(old.prefix), Segments(entry.prefix))
    /\ held' = held \cup {entry}
    /\ UNCHANGED <<readable, edits>>

Administer(client, old, strategy, repository) ==
    /\ readable
    /\ old \in held
    /\ MayAdminister(client, old.prefix)
    /\ held' = (held \ {old})
                \cup {[old EXCEPT !.strategy = strategy, !.repository = repository]}
    /\ UNCHANGED <<readable, edits>>

Edit ==
    /\ edits' = edits + 1
    /\ readable' \in BOOLEAN
    /\ held' \in SUBSET Namespace
    /\ Disjoint(held')

Next ==
    \/ \E client \in Client, entry \in Namespace : Claim(client, entry)
    \/ \E client \in Client, old \in held, strategy \in Strategy, repository \in Repository :
          Administer(client, old, strategy, repository)
    \/ Edit

Spec == Init /\ [][Next]_vars
=============================================================================
