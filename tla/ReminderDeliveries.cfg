\* Two workers and a loop that poll for ever, and an operator: one edit, switch, dispatch, requeue,
\* crash or manual send disturbs them.  Minute 0 is quiet, so that a delivery is deferred, tried,
\* tried again and taken over within the three minutes.
CONSTANTS
  Schedulers = {s1}
  Workers = {w1, w2}
  Retry = 1
  Timeout = 1
  MaxAttempts = 2
  Repeat = 0
  QuietHours = {0}
  Times = {0, 2}
  MaxNow = 2
  MaxEdits = 1
  MaxRequeues = 1
  MaxCrashes = 1
  MaxManual = 1
  MaxEvents = 1
SPECIFICATION FairSpec
INVARIANTS
  DuplicatesNeedTakeover
  RetryBudget
  OncePerCycle
PROPERTIES
  SentIsFinal
  DueIsSettled
