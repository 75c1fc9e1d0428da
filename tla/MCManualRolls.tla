---------------------------- MODULE MCManualRolls ----------------------------
\* Requests for a roll to an invalid revision, which may also take the parent
\* back, and for a dry run of the newest one.
EXTENDS ManualRolls

MCAsks == {[rev |-> 2, dryRun |-> FALSE], [rev |-> 3, dryRun |-> TRUE]}
==============================================================================
