\* One outage, over before the retry.
SPECIFICATION FairSpec
CONSTANTS
  c1 = c1
  c2 = c2
  None = None
  Assets <- Two
  ContentOf <- OwnContent
  Initial = {1, 2}
  Large = {}
  Unreadable = {}
  Refused = {}
  Threshold = 2
  MaxRetries = 1
  Mishaps = {"outage"}
  MaxMishaps = 1
PROPERTY RetryUploads
