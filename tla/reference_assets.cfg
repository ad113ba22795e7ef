SPECIFICATION Spec
CONSTANTS
  r1 = r1
  r2 = r2
  a1 = a1
  a2 = a2
  c1 = c1
  s1 = s1
  Sessions = {r1, r2}
  Assets = {a1, a2}
  Contents = {c1}
  Kinds = {"starting_image", "character_reference", "voice_preview"}
  Stories = {s1}
  Targets = {"approved", "draft"}
  MaxUses = 1
SYMMETRY Symmetry
INVARIANTS
  FilesMatchRows
PROPERTIES
  ApprovedIsUntouched
