--------------------------- MODULE MCRewardLimiter ---------------------------
EXTENDS RewardLimiter
CONSTANTS r1, r2

\* No limit; requests of which a full bucket lets one pass; requests that cost
\* more than a full bucket, behind and before one that lets them pass.
Limits == { <<>>, <<2>>, <<1, 4>>, <<4, 1>> }

\* None, one or two reward functions hang; which ones does not matter.
HangSets == { {}, {r1}, {r1, r2} }
=============================================================================
