SPECIFICATION FairSpec
CONSTANTS
  Requests <- MCRequests
  MaxReports = 2
CHECK_DEADLOCK FALSE
INVARIANTS TypeOK AnswersMatch AnswersAreRecent DueReportsArrive
PROPERTIES ImplementsPipe RequestsAreAnswered
