CONSTANTS
  Nodes = {n1, n2, n3}
  None = None
  Dangling = Dangling
  Target = 4
  Overlap = 2
  Paragraphs <- Samples
  Label = 1
  MaxText = 4
  Doc <- DocOfChunk
  MinPool = 1
  PoolFactor = 1
  DedupPool = 1
  DedupFactor = 2
  RerankPool = 2
  MaxRerank = 2
  PoolLimit = 3
  MaxTopK = 3
  Unset = Unset
SPECIFICATION CallSpec
INVARIANTS ThreadLinear  BestFirst ExactUnlessDisturbed
