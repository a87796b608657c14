----------------------------- MODULE MCWebhook ------------------------------
EXTENDS Webhook, TLC

CONSTANTS k1, k2, k3, k4, k5
CONSTANTS Fails, Miscopies, Lates, Crashes, Outages, Rollouts

MCBudget == [fail |-> Fails, miscopy |-> Miscopies, late |-> Lates,
             crash |-> Crashes, outage |-> Outages, rollout |-> Rollouts]
=============================================================================
