SPECIFICATION MCSpec
CONSTANTS
    keyA = keyA
    keyB = keyB
    req = req
    enc = enc
    cert = cert
    ca = ca
    oddKey = oddKey
    oddReq = oddReq
    custom = custom
    nosuch = nosuch
    another = another
    host = host
    acct1 = acct1
    acct2 = acct2
    dir = dir
    shared = shared
    Unset = Unset
    Missing = Missing
    Junk = Junk
    BadKey = BadKey
    CACert = CACert
    EncKey = EncKey
    Files <- mcFiles
    Hosts = {host}
    Accounts = {acct1, acct2}
    Dirs = {dir, shared}
    PrivateDirs = {dir}
    Typed <- mcTyped
    RequestName <- mcRequestName
    KeysName <- mcKeysName
    FirstConfigs <- mcFirstConfigs
    FirstFiles <- mcFirstFiles
    FirstKeys = 1
    MaxKeys = 2
INVARIANTS FinishedIsUsable AnswerIsAccepted TestPasses
PROPERTY BackErasesOnlyDefaults
CHECK_DEADLOCK FALSE
