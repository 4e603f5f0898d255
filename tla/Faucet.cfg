SPECIFICATION Spec
CONSTANTS
  Requests = {r1, r2, r3}
  Wallets = {w1, w2}
  Ips = {ip1, ip2}
  COOLDOWN_MS = 2
  MAX_PER_IP = 2
  PRUNE_ABOVE = 1
  RETRIES = 1
  MaxTime = 2
  MaxRestarts = 1
SYMMETRY Interchangeable
CHECK_DEADLOCK FALSE
INVARIANTS
  TypeOK
  RecordExact
PROPERTIES
  ServedMustWait
