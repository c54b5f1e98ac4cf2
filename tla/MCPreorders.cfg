SPECIFICATION Spec
CONSTANTS
  s1 = s1
  s2 = s2
  Suppliers = {s1, s2}
  Forms <- MCForms
  Asks <- MCAsks
  Payloads <- MCPayloads
  MaxOfKind <- MCMaxOfKind
  MaxDocuments = 6
SYMMETRY Symmetry
INVARIANTS TypeOK OrdersAreTraced
\* All documents may be made and ordered.
CHECK_DEADLOCK FALSE
