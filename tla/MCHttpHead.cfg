SPECIFICATION FairSpec
CONSTANTS
    MaxLength = 20
    MaxVersion = 9
    Capacity = 64
    Doubling = 512
    LengthSizes = {10}
    Lengths <- MCLengths
    Urls <- MCUrls
    Values <- MCValues
    Alphabet <- MCAlphabet
INVARIANTS
    TypeOK
    RequestRead
    ParserAssertions
    ValueComparedOnce
    ResponseFits
PROPERTIES
    ResponseCompleted
