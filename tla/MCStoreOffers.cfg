SPECIFICATION Spec
CONSTANTS
  Sku = {s1, s2}
  Bottling = {b1, b2}
  Persist = {t1, t2}
  Faults = {"abort", "kb"}
  NoLink = NoLink
  Unwritten = Unwritten
SYMMETRY Symmetric
INVARIANTS
  TypeOK
  DayAgreesWithOffers
PROPERTIES
  RelinkStands
  UnseenStaysOnlyByLateWrites
  FragmentSparesTheUnseen
