-------------------------- MODULE MCCommandExecution --------------------------
EXTENDS CommandExecution, TLC

=============================================================================
