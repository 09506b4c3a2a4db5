\* Every agreement of MCReview with any two edits and any alignment within two of the best.
SPECIFICATION Spec
CONSTANTS
    Texts <- MCTexts
    Drafts <- MCDrafts
    Paragraphs <- MCParagraphs
    MaxEdits = 2
    Slack = 2
    Tokens <- MCTokens
    Cites <- MCCites
INVARIANTS
    TypeOK
    ChangesPartitionTheRevision
    VanishedArticleIsAChange
    GateIsEarned
    RepointLeadsToTheText
    FindingsAreFiledOnce
CHECK_DEADLOCK FALSE
