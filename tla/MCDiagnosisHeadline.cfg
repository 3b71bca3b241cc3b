\* What is said of the return, and the factors told with it.
SPECIFICATION DiagnosisSpec
CONSTANTS
  Objects = {1}
  Metrics <- RowMetrics
  Earlier <- RowMetrics
  Levels = {"campaign"}
  budgetOf <- RowBudget
  ReviewStatuses = {"ACTIVE"}
  PeriodBudget = 20
  HeadlineReports <- Headlines
INVARIANT HeadlineExplained
\* One diagnosis, and then nothing is left to do.
CHECK_DEADLOCK FALSE
