--------------------------- MODULE MCAlertDispatch ---------------------------
EXTENDS AlertDispatch, TLC

CONSTANTS daily, initial, release, pick

MCSinks == <<"telegram", "webhook">>

\* upstream_watch and upstream_watch_initial want the same release.
SharedWanted == (daily :> {release, pick}) @@ (initial :> {release, pick})

=============================================================================
