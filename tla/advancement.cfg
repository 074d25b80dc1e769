SPECIFICATION Spec
CONSTANTS
    Classes = {gla, thm}
    First = gla
    GCs = {limsa}
    None = None
    Threshold <- MCThreshold
    Cost <- MCCost
    Cap <- MCCap
    Gains = {2}
    Reward = 2
    RestCap = 1
    MaxRequests = 3
    MaxFaults = 2
INVARIANT ProgressMirrored
INVARIANT NoFreeProgress
INVARIANT PromotionIsPaid
