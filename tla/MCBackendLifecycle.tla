-------------------------- MODULE MCBackendLifecycle -------------------------
\* Small instances of BackendLifecycle for TLC.
EXTENDS BackendLifecycle
=============================================================================
