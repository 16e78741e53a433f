SPECIFICATION FairSpec
CONSTANTS
  s1 = s1
  s2 = s2
  s3 = s3
  layer = layer
  base = base
  q1 = q1
  q2 = q2
  q3 = q3
  Session = {s1, s3}
  Digest = {layer, base}
  Request = {q1, q2}
  DigestOf <- Uploads
  SizeOf <- TwoChunks
  Monolithic = {s3}
  Hangups = {q1, q2}
INVARIANTS
  TypeOK
  RowsHaveFiles
  AcknowledgedCounted
PROPERTIES
  RequestsEnd
