\* All chains of up to three clusters of two sectors of two bytes, damaged ones
\* included; sizes on both sides of sector and cluster boundaries.
SPECIFICATION Spec
CONSTANTS
  BYTES_PER_SECTOR = 2
  SECTORS_PER_CLUSTER = 2
  TOTAL_CLUSTERS = 3
  FIRST_DATA_SECTOR = 10
  FileSize = {0, 8, 11}
  ReadSize = {0, 1, 5, 20}
INVARIANTS TypeOK ReadsFileBytes CompleteUnlessFailed
PROPERTIES ReadReturns
