\* One session: three host frames, snapshots of up to two records, and an
\* output budget that the reply to the handshake, two small records, complete
\* and a report just fit, so that a larger record makes any of them fail.
CONSTANTS
  SupportsNetwork = TRUE
  NetworkEnabled = TRUE
  HostFrames <- MCHostFrames
  MaxHostFrames = 3
  SetupSpecs = {"valid", "invalid"}
  AuthSpecs = {"none", "valid", "invalid"}
  ProviderCodes = {"forbidden"}
  Snapshots <- MCSnapshots
  MaxRecords = 2
  MaxFrame = 3
  MaxTotal = 5
  RecordSizes = {1, 3, 4}
SPECIFICATION Spec
INVARIANTS TypeOK FactoryAfterNegotiation CleanExit
PROPERTIES ImplementsExchange FailureIsReported Termination
CHECK_DEADLOCK FALSE
