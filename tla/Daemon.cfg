CONSTANTS
  Addrs = {a1, a2}
  After = 2
  Expire = 1
  MaxOffenses = 2
  MaxTime = 2
  Sections = {"listen"}
  Names = {"vhost", "port"}
  Values = {v1, v2}
  MaxLines = 3
  Socks = {s1, s2, s3}
  Listen = "listen"
  Vhost = "vhost"
  Port = "port"
  MaxRecords = 2
SPECIFICATION Spec
SYMMETRY Symmetry
INVARIANTS TypeOK FirstValueFound RecordsSound PortFound
PROPERTIES OffendersSlowed QuietForgotten
CHECK_DEADLOCK FALSE
