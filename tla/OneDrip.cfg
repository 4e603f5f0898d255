SPECIFICATION Spec
CONSTANTS
  Requests = {r1, r2}
  Wallets = {w1}
  Ips = {ip1}
  COOLDOWN_MS = 2
  MAX_PER_IP = 4
  PRUNE_ABOVE = 4
  RETRIES = 1
  MaxTime = 1
  MaxRestarts = 0
CHECK_DEADLOCK FALSE
INVARIANTS
  OneDripPerWallet
