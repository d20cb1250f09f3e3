SPECIFICATION Spec
CONSTANTS
  Nobody = Nobody
  NoToken = NoToken
  NoRow = NoRow
  NoRequest = NoRequest
  Creator = Creator
  Aedilis = Aedilis
  Own = Own
  Users = {u1, u2}
  Admins = {u1}
  Subjects = {g1, g2}
  Hosts = {Aedilis, o1}
  Fronts = {Own, glab}
  Flows = {f1}
  Records = {m1, x1}
  Meetings = {m1}
  Requests = {q1, q2}
INVARIANTS OneSpacePerRecord NobodyWaitsInVain AccountsAreNotMixed HostsHaveToken
PROPERTIES ReadyForItsRequester
CONSTRAINT Bounds
SYMMETRY Symmetry
