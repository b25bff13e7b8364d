SPECIFICATION FrontSpec
INVARIANTS LeavesAsDocumented ReportIsTrue OneDocument
