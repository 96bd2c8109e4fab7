CONSTANTS
  n1 = n1
  n2 = n2
  d1 = d1
  d2 = d2
  v1 = v1
  v2 = v2
  tags = tags
  mac = mac
  ip = ip
  None = None
  Names = {n1, n2}
  Docs = {d1, d2}
  Versions = {v1, v2}
  Latest = v2
  Columns = {tags, mac, ip}
  Shown = {tags, ip}
  First = {ip}
  Releases <- MCReleases
  Budgets <- MCBudgets
SYMMETRY Symmetry
SPECIFICATION Spec
PROPERTIES NothingLost PinAsShown ColumnsRemembered
CHECK_DEADLOCK FALSE
