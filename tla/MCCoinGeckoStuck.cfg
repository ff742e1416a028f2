SPECIFICATION ClientSpec
CONSTANTS
  Threshold = 3
  Attempts = 3
  Answers = {"ok", "retryable", "client_error"}
CHECK_DEADLOCK FALSE
PROPERTIES
  ProbesAgain
