SPECIFICATION Spec
CONSTANTS
  a = a
  b = b
  old = old
  new = new
  long = long
  k1 = k1
  p1 = p1
  p2 = p2
  Absent = Absent
  Path <- MCPath
  Content <- MCContent
  Size <- MCSize
  Key <- MCKey
  Process <- MCProcess
  MaxWrites = 2
INVARIANT HitIsRight
SYMMETRY MCSymmetry
