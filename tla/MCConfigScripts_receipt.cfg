SPECIFICATION FairSpec
CONSTANTS
    a1 = a1
    a2 = a2
    owner = owner
    pause = pause
    zero = zero
    v2a = v2a
    v2b = v2b
    v1 = v1
    policyA = policyA
    policyB = policyB
    null = null
    empty = empty
    blank = blank
    junk = junk
    unset = unset
    Accounts <- MCAccounts
    Signer = owner
    Pause = pause
    Zero = zero
    Null = null
    Empty = empty
    Blank = blank
    Junk = junk
    Unset = unset
    Skip = Skip
    Throw = Throw
    Limit = 1000
    Version2 <- MCVersion2
    Exempt <- MCExempt
    PauseModules <- MCPauseModules
    Setups <- MCSetups
    MaxKills = 1
    MaxTunes = 1
    MaxVersion = 4
PROPERTY StopsOnlyOnFailure
CHECK_DEADLOCK FALSE
