\* Any two of three tags, one fault; four transceives per exchange, messages
\* of three bytes read two at a time.
CONSTANTS
  BITS = 2
  BYTES = 3
  Data <- MCData
  MAX_LOOPS = 4
  a = a
  b = b
  p = p
  Tag = {a, b, p}
  None = None
  Uid <- MCUid
  Type4 = {a, p}
  RandomUid = {p}
  File <- MCFile
  NoFile = {a}
  Ok = 9000
  NotFound = 6082
  MLE = 2
  MaxFaults = 1
SPECIFICATION Spec
INVARIANTS
  ReaderTypeOK
  ReadIsWhole
PROPERTIES
  AnnouncedOnce
  FieldGoesOff
  StayingTagIsFound
CHECK_DEADLOCK FALSE
