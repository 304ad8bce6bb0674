CONSTANTS
  Runners = {r1, r2}
  Count = 3
  Batches = 2
  NoTransaction = {2}
  Texts = 2
SPECIFICATION FairSpec
INVARIANTS AllOrNothing RecordedComplete InOrder OwnHistory
PROPERTY RunsEnd
