SPECIFICATION Spec
CONSTANTS
  Docs = {d1}
  Slots = {s1, s2}
  Reupload = "patient"
  MaxUploads = 2
  None = None
SYMMETRY MCSymmetry
INVARIANT PollingGoesOn
INVARIANT OutcomeIsOfThisUpload
INVARIANT ListCatchesUp
