\* Two tasks race past the divergence flag.
CONSTANTS
    Versions = {1, 2}
    Sizes = {1}
    Callers = {poll, operator}
    Policies <- MCStrict
    Overrides = {0}
    CommitFaults = FALSE
    MaxRestarts = 0
SPECIFICATION Spec
INVARIANT WriterAvoidsBootBank
SYMMETRY CallerSymmetry
