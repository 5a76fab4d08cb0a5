-------------------------- MODULE MCImmutableStore --------------------------
\* Three concurrent callers of publish_bytes_atomic and two payloads: enough
\* for two losers of one race, one with the winner's bytes and one without.
EXTENDS ImmutableStore
==============================================================================
