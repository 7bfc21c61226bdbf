--------------------------- MODULE MCShadowWorker ---------------------------
\* ShadowWorker on the bounds of its configuration.
EXTENDS ShadowWorker
=============================================================================
