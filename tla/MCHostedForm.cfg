SPECIFICATION FormsSpec
CONSTANTS
  f1 = f1
  f2 = f2
  s1 = s1
  s2 = s2
  p1 = p1
  Forms <- MCForms
  Submissions <- MCSubmissions
  Addresses <- MCAddresses
  Nobody = Nobody
  MaxFormTrouble = 1
INVARIANTS VisitorsCaptured
CHECK_DEADLOCK FALSE
