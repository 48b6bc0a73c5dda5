SPECIFICATION MCSpec
CONSTANTS
    PidFile = PidFile
    Account = Account
    v = v
    home = home
    etc = etc
    path = path
    rule = rule
    NoRules = NoRules
    fileA = fileA
    fileB = fileB
    Unset = Unset
    Malformed = Malformed
    Untitled = Untitled
    Unreadable = Unreadable
    NoLocations = NoLocations
    StringProps <- mcStringProps
    IntProps <- mcIntProps
    Values = {v}
    Default <- mcDefault
    Names = {home, etc}
    Paths = {path}
    RuleLists = {NoRules, rule}
    Files = {fileA, fileB}
    DiskChoices <- mcDiskChoices
    MaxLocations = 1
    ConfigFoo = fileA
    Wacky = v
    Hello <- Home
INVARIANTS CleanMeansOnDisk TitleHonest DisplayAgrees TestPasses
 
CHECK_DEADLOCK FALSE
