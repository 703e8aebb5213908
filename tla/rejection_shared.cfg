SPECIFICATION ClientSpec
CONSTANTS
  c1 = c1
  c2 = c2
  c3 = c3
  r1 = r1
  r2 = r2
  v1 = v1
  v2 = v2
  Caller = {c1, c2, c3}
  Asker = {c1, c2}
  Refresher = refresher
  Request = {r1, r2}
  Threshold = 2
  Slots = 1
  MaxAttempts = 2
  MaxFailures = 2
  Episode = {v1, v2}
  EpisodeOf <- MCEpisodeOf
  MaxMishaps = 1
INVARIANTS
  RejectionIsOwn
