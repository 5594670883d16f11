------------------------------ MODULE MCBrainChain ------------------------------
EXTENDS BrainChain

MCSourceType == [bank |-> "tier1", calendar |-> "calendar", social |-> "social"]

MCSource == DOMAIN MCSourceType

MCAges == {-1, 1, 3, 7}

\* Tokyo's morning, London's, and Saturday.
MCMoments == {[day |-> 0, hour |-> 3], [day |-> 0, hour |-> 8], [day |-> 5, hour |-> 12]}

MCScores == {0, 2, 4, 6, 12}
================================================================================
