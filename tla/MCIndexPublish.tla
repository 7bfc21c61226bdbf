--------------------------- MODULE MCIndexPublish ---------------------------
\* Two files whose lengths two builds may share, one of them optional.
EXTENDS IndexPublish

MCSize ==
    [x \in Files \X Gens |-> CASE x[1] = "poi_cells" /\ x[2] = "g1" -> 0
                               [] x[1] = "poi_cells" /\ x[2] = "g2" -> 1
                               [] x[1] = "strings" /\ x[2] = "g3" -> 0
                               [] OTHER -> 2]
=============================================================================
