\* Two tasks, every fault switched on.
CONSTANTS
    Versions = {1, 2}
    Sizes = {1}
    Callers = {poll, operator}
    Policies <- MCStrict
    Overrides = {0, 1}
    CommitFaults = TRUE
    MaxRestarts = 1
SPECIFICATION Spec
INVARIANT
    StateFollowsPipeline
PROPERTY OnlyVerifiedBoots
SYMMETRY CallerSymmetry
