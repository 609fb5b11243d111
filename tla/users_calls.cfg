CONSTANTS
    ann = ann  bob = bob  eve = eve  c1 = c1  d1 = d1  t1 = t1
    red = red  blue = blue  grey = grey  write = write
    Perms = {write}
    Unknown = {}
    Implies <- EachAlone
    Template = {}
    Legacy <- TwoLevels
    Names = {ann, bob, eve}
    Ids = {c1, d1}
    CliId <- AtTheCli
    Handles = {red, blue, grey}
    Slug <- OneEach
    Copies = 6
    None = None
    SelfMerge = FALSE
    ToolsOverlap = FALSE
    RequestsOverlap = FALSE
SPECIFICATION Spec
INVARIANT StoreAgrees
PROPERTY OverridesSurvive
