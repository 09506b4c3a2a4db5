\* A clause is moved past another one that did not change.
SPECIFICATION Spec
CONSTANTS
    Texts <- MCTexts
    Drafts <- MCDrafts
    Paragraphs <- MCParagraphs
    MaxEdits = 1
    Slack = 0
    Tokens <- MCTokens
    Cites <- MCCites
INVARIANT RewritesAreAdjacent
CHECK_DEADLOCK FALSE
