CONSTANTS
    Headers <- MCHeaders
    AuthConfigs <- MCAuthConfigs
    Messages <- MCMessages
SPECIFICATION Spec
INVARIANTS UserByFirstSuccess SubjectNeedsToken TokenReadersAgree EnabledAsConfigured
INVARIANTS ClientReadsMessage UnauthenticatedIffNoToken
CHECK_DEADLOCK FALSE
