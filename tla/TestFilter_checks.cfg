CONSTANTS
    Names <- MCNames
    Tests <- MCTests
    RunPatterns <- MCRunPatterns
    SkipPatterns <- MCSkipPatterns
    Texts <- MCTexts
    Parts <- MCParts
    Containing <- MCContaining
    Blank <- MCBlank
    WithParens <- MCWithParens
    WithOthers <- MCWithOthers
SPECIFICATION Spec
INVARIANTS
    TypeOK
    NoSelectedTestIsHidden
    RecordedAreSkipped
CHECK_DEADLOCK FALSE
