--------------------------- MODULE MCIndexReload ---------------------------
\* IndexReload on small bounds, given in the configurations.
EXTENDS IndexReload
=============================================================================
