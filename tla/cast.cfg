SPECIFICATION Spec
CONSTANTS
  NoCharacter = NoCharacter
  NoVoice = NoVoice
  Characters = {c1}
  Voices = {v1, v2}
  Shots = {s1}
  Requests = {r1, r2}
SYMMETRY Symmetry
VIEW Observed
INVARIANTS
  CastIsActive
PROPERTIES
  VoiceInUseStays
  ApprovedAssignmentStays
