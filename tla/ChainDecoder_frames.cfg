SPECIFICATION DecoderSpec
CONSTANTS
  Frames <- MCFrames
  Ignored = {252, 253}
  NoiseBytes <- MCNoise
  MaxFrames = 4
CHECK_DEADLOCK FALSE
INVARIANTS
  TypeOK
PROPERTIES
  QueuesWhatItHeard
  ImplementsLine
  EndlessForEver
  OutOfStepStays
