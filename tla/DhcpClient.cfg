\* Two servers on the link, two addresses each may offer, one unrelated
\* frame.  The client blocks in read for good once the frames it waits for
\* are lost, as main does, so deadlock is not a failure here.
CONSTANTS
  Servers = {s1, s2}
  Addrs = {a1, a2}
  NoAddr = NoAddr
  OtherPorts = {53}
  MaxStray = 1
SPECIFICATION Spec
INVARIANT ReportedAddressIsAcked
CHECK_DEADLOCK FALSE
