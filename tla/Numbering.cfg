\* Every document of up to four lines (five in the bilingual style), from its lines to the report.
SPECIFICATION Spec
CONSTANTS
    Styles <- MCStyles
    LinesOf <- MCLinesOf
    MaxLines <- MCMaxLines
    MinKeywordHits = 2
    MinParallelRun = 2
INVARIANTS
    TypeOK
    OwnersAreInnermost
    NamesAreSound
    PlanIsAFix
    MarkersAreLegible
    SelfCheckIsHonest
CHECK_DEADLOCK FALSE
