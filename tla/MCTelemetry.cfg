SPECIFICATION Spec
CONSTANTS
  Writers = {w1, w2}
  Session = {s0, s1}
  MaxValue = 1
  Readings <- MCReadings
  Wrap = 16
  Cap = 2
  MaxSamples = 3
  None = None
INVARIANT NoSampleLost
INVARIANT QuietReport
 
SYMMETRY Symmetry
