SPECIFICATION SystemSpec
CONSTANTS
  t1 = t1
  h1 = h1
  None = None
  Prompt = {t1, h1}
  Protected = {h1}
  Tries = 2
  MaxAttempts = 2
  LoginTimeout = TRUE
  MaxMail = 2
INVARIANT PromptsTakeTurns
INVARIANT OnePinDialog
INVARIANT LastTryIsConfirmed
INVARIANT OneRoundAtATime
PROPERTY CancelledPromptIsAnswered
PROPERTY DismissedPromptEnds
CHECK_DEADLOCK FALSE
