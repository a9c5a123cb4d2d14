CONSTANTS
    rdic = rdic
    bdic = bdic
    cdic = cdic
    rhead = rhead
    bhead = bhead
    chead = chead
    shared = shared
    nick = nick
    tmpl = tmpl
    cat = cat
    unit = unit
    other = other
    Nothing = Nothing
    AliasTag = other
    Uris = {rdic, bdic, cdic}
    Names = {rhead, bhead, chead, shared, nick, tmpl, cat, unit, other}
    Tags = {unit, other}
    Values = {"mine", "theirs", "names"}
    AliasNames <- SomeAliases
    Libraries <- SomeLibraries
    Settings <- SomeSettings
    Editable = {rdic, cdic}
    MaxLoads = 1
    MaxChanges = 1
SPECIFICATION Spec
INVARIANTS
    TypeOK
    OneReadingOfEachFile
    DictionaryIsWhole
PROPERTY
    LoadsReturn
CHECK_DEADLOCK FALSE
