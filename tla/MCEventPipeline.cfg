\* Two exporters against one intake: two packets over three events, one fault of
\* the intake, one dying exporter.
SPECIFICATION PipelineSpec
CONSTANTS
  real = real
  demo = demo
  batchLog = batchLog
  orderLog = orderLog
  NoKey = NoKey
  Events <- MCEvents
  Batches <- MCBatches
  Owner <- MCOwner
  Demo <- MCDemo
  Workers = {w1, w2}
  Keys = {k1, k2}
  BatchSize = 2
  MaxRetries = 2
  MaxAttempts = 2
  MaxAborts = 1
  CaseTypes <- MCCaseTypes
  CaseType <- MCCaseType
  Invalid <- MCInvalid
  MaxFaults = 1
SYMMETRY Symmetry
INVARIANTS ClaimIsExclusive AttemptsAreExports MarkedDemoStaysHome
  ResendIsAccepted
PROPERTIES SettledIsFinal ImplementsDelivery
CHECK_DEADLOCK FALSE
