------------------------------ MODULE MCLeader ------------------------------
EXTENDS LeaderElection, TLC

CONSTANTS r1, r2
CONSTANTS SignalCount, CrashCount, RestartCount, MissCount, StallCount,
          OutageCount, UnlabelCount, UncleanCount, AnyCount

MCBudget == [signal |-> SignalCount, crash |-> CrashCount, restart |-> RestartCount,
             miss |-> MissCount, stall |-> StallCount, outage |-> OutageCount,
             unlabel |-> UnlabelCount, unclean |-> UncleanCount, any |-> AnyCount]
=============================================================================
