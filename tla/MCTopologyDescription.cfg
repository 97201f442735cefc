\* Two seeds, primaries with elections, members of another set, SRV polling.
CONSTANTS
  a = a  b = b  c = c  rs = rs  other = other
  Addresses = {a, b, c}
  Seeds = {a, b}
  SetNames = {rs, other}
  Replies <- MCReplies
  Polls <- MCPolls
  None = None
SPECIFICATION Spec
CHECK_DEADLOCK FALSE
INVARIANTS OnePrimary NoStepBack
