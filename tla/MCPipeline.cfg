SPECIFICATION Spec
CONSTANTS
  Texts <- MCTexts
  Size <- MCSize
  Longest <- MCLongest
  NoText = NoText
  Lost = Lost
  MaxEs = 3
  Cap = 8
  Slack = 1
  TwoBytes = 4
  FourBytes = 5
  SizeMax = 99
INVARIANT
  TypeOK
PROPERTY
  RoundTrip
