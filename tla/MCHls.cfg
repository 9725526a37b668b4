SPECIFICATION FairSpec
CONSTANTS
  Outputs <- AllOutputs
  max_nb_segments = 2
  delete_segments = TRUE
  hls_delete_threshold = 1
  Durations = {1, 2}
  MaxSegs = 6
  MaxFailures = 2
INVARIANTS
  ListedComplete
  Numbering
  Deletion
  EndComplete
PROPERTIES
  OnlySlides
  TrailerEnds
CHECK_DEADLOCK FALSE
