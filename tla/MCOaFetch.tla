----------------------------- MODULE MCOaFetch -----------------------------
(* TLC instances of OaFetch. *)
EXTENDS OaFetch

\* The object of the second job is shorter than those around it.
JobSize == [p \in Pubs |-> IF p = 1 THEN 2 ELSE 3]

AllOptions == [force : BOOLEAN, resume : BOOLEAN]

\* One row for the source.
OneRow == {{t} : t \in Tasks}
=============================================================================
