SPECIFICATION Spec
CONSTANTS
  Nobody = Nobody
  NoToken = NoToken
  NoRow = NoRow
  NoRequest = NoRequest
  Creator = Creator
  Aedilis = Aedilis
  Own = Own
  Users = {u1}
  Admins = {u1}
  Subjects = {g1, g2}
  Hosts = {Aedilis}
  Fronts = {Own}
  Flows = {f1}
  Records = {m1}
  Meetings = {m1}
  Requests = {q1}
PROPERTIES IdentityIsKept
