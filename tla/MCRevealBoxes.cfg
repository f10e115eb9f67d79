SPECIFICATION Spec
CONSTANTS
  x = x
  y = y
  z = z
  p1 = p1
  p2 = p2
  a = a
  b = b
  k1 = k1
  k2 = k2
  Pages <- MCPages
  Photos = {p1, p2}
  OnPage <- MCOnPage
  Albums = {a, b}
  AlbumOf <- MCAlbumOf
  Throws = Throws
  Passwords = {k1, k2}
  Key <- MCKey
  None = None
  MaxRequests = 2
  Overlaps = {TRUE}
PROPERTIES
  BoxesDecide
CHECK_DEADLOCK FALSE
