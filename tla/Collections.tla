----------------------------- MODULE Collections -----------------------------
(***************************************************************************)
(* Partial functions laid over one another, and sequences joined: what the *)
(* spread of objects and the flatMap of arrays are modelled with.  The     *)
(* recursion is that of a function, which can be reasoned about.           *)
(***************************************************************************)
EXTENDS Naturals, Sequences

Single(key, value) == [k \in {key} |-> value]
\* The fields of f over those of g, as {...g, ...f}.
f ++ g == [k \in DOMAIN f \cup DOMAIN g |-> IF k \in DOMAIN f THEN f[k] ELSE g[k]]

\* The first n of the sequences, one after the other, for every n.
Joins(sequences) ==
    LET upTo[n \in 0 .. Len(sequences)] == IF n = 0 THEN << >> ELSE upTo[n - 1] \o sequences[n]
    IN  upTo
Joined(sequences) == Joins(sequences)[Len(sequences)]
=============================================================================
