\* Plain files of up to five lines and short files with a frontmatter, under every small chunk size.
\* Cut returns.
SPECIFICATION DocSpec
CONSTANTS
    t1 = t1  t2 = t2
    MaxLines = 5
    LongestLine = 4
    MaxFront = 3
    MaxBody = 2
    Documents <- SomeDocuments
    Titles = {t1, t2}
    Untitled = untitled
    Texts <- AllTexts
    Sizes <- SomeSizes
    MaxLine = 3
CHECK_DEADLOCK FALSE
INVARIANTS
    DocTypeOK
    ReadAsWritten
    NoFileHalfIndexed
    ParagraphsAreTextRuns
    ChunksFit
    NothingLost
    NoNeedlessCut
