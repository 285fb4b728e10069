CONSTANTS
  Kinds = {"NP", "IP", "DLP", "voltage", "current", "summary", "rtcRead", "rtcWrite", "periodRead", "limitWrite"}
  MaxRequests = 2
  MaxPage = 1
  MaxAnswers = 2
SPECIFICATION RecordsSpec
INVARIANTS RowsTrue NoReadPastEnd NothingStoredTwice
CHECK_DEADLOCK FALSE
