------------------------------- MODULE Paths -------------------------------
(***************************************************************************)
(* Namespace prefixes and the paths asked for, as the registry compares    *)
(* them: sequences of segments.  A prefix is kept as it was spelled, since *)
(* administration compares spellings, while claims compare segments.      *)
(* From src/src/registry.rs and src/src/admin.rs.                          *)
(***************************************************************************)
EXTENDS Naturals, Sequences

CONSTANTS
    Segment,    \* the path segments in use
    Dashed      \* those beginning with `-`

ASSUME DashedAssumption == Dashed \subseteq Segment

Path == Seq(Segment)

\* Where a spelling has a separator that splitting it drops: `acme`, `/acme`
\* and `acme/` differ as strings and are one sequence of segments.
Spelling == [slash : {"none", "leading", "trailing"}, parts : Path]

Segments(spelling) == spelling.parts

\* Two prefixes overlap when they agree on every segment they both have.
Overlaps(a, b) == \A i \in DOMAIN a \cap DOMAIN b : a[i] = b[i]

\* A claimed prefix covers a path when the path starts with its segments.
Covers(claimed, wanted) ==
    /\ DOMAIN claimed \subseteq DOMAIN wanted
    /\ \A i \in DOMAIN claimed : claimed[i] = wanted[i]

\* What refuse_reserved_prefix refuses: the first CHARACTER is `-`.
StartsWithDash(spelling) ==
    /\ spelling.slash # "leading"
    /\ Segments(spelling) # << >>
    /\ Segments(spelling)[1] \in Dashed
=============================================================================
