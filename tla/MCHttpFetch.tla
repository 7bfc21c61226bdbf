---------------------------- MODULE MCHttpFetch ----------------------------
(* TLC instances of HttpFetch. *)
EXTENDS HttpFetch

\* Each publication has bytes of its own; the second is shorter, so a
\* leftover partial can be as long as the file that replaced it.
FreshRelease == [p \in Pubs |-> p]
FreshSize == [p \in Pubs |-> IF p = 1 THEN 1 ELSE 2]

AllUpstreams == UpstreamKinds
AllOptions == FetchOpts
=============================================================================
