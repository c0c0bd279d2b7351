------------------------------- MODULE MCCron -------------------------------
EXTENDS Cron, TLC

\* malloc may return any free node.
AddrSymmetry == Permutations(Addr)
=============================================================================
