CONSTANTS
    Names = {a, b}
    NoName = NoName
    Declarations = {t}
    NoDeclaration = NoDeclaration
    MaxColumns = 3
SPECIFICATION FairSpec
INVARIANTS
    TypeOK
    LinksExact
    DeclarationExact
PROPERTIES
    LookupSpec
    LoopsEnd
CHECK_DEADLOCK FALSE
