SPECIFICATION Spec
CONSTANTS
  Block <- MCBlock
  Null = Null
  MaxTaken = 3
  MaxResults = 2
INVARIANTS TypeOK NoLeak OneOwner
PROPERTY CompleteOrReported
