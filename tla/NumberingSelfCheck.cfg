\* The self-check reads the letter that it wrote as a numeral.
SPECIFICATION Spec
CONSTANTS
    Styles <- MCStyles
    LinesOf <- MCLinesOf
    MaxLines <- MCMaxLines
    MinKeywordHits = 2
    MinParallelRun = 2
INVARIANTS
    VerifyComesBackEmpty
CHECK_DEADLOCK FALSE
