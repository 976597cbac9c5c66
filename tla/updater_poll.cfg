\* One poll loop, the metadata partition may fail, the bootloader does not.
CONSTANTS
    Versions = {1, 2, 3}
    Sizes = {1, 2}
    Callers = {poll}
    Policies <- MCPolicies
    Overrides = {0}
    CommitFaults = FALSE
    MaxRestarts = 0
SPECIFICATION FairSpec
INVARIANTS
    WriterAvoidsBootBank
    QuiescentAgreement
PROPERTIES
    FallbackOnlyAdvances
    AttemptsEnd
