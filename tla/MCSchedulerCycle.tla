-------------------------- MODULE MCSchedulerCycle --------------------------
EXTENDS SchedulerCycle, TLC

=============================================================================
