SPECIFICATION ProvisionSpec
CONSTANTS
    k1 = k1
    k2 = k2
    NoKey = NoKey
    NoId = NoId
    NoRuleset = NoRuleset
    SshKeys <- MCKeys
    MaxCalls = 3
    MaxEvents = 3
INVARIANT ReportedIsSo
CHECK_DEADLOCK FALSE
