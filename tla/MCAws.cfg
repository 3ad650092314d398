\* Identity Center: lists of up to two pages along two tokens, seven rows in all.
\* IAM: up to three pages along two markers, five rows.
CONSTANTS
  Configured = {"a", "c"}
  Include = {TRUE, FALSE}
  Pages <- MCPages
  Outputs <- MCOutputs
  Tokens = {"s", "t"}
  MaxPages = 2
  MaxRows = 7
  Markers = {"s", "t"}
  MaxIamPages = 3
  MaxIamRows = 5
SPECIFICATION AwsSpec
INVARIANTS TypesOK EvidenceIsExact CompleteIsWhole InventoryIsSound
CHECK_DEADLOCK FALSE
