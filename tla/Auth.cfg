SPECIFICATION Spec
CONSTANTS
  Threads = {t1, t2}
  Usernames = {u1, u2}
  Passwords = {p1, p2}
  Overlap = {"register"}
  MaxClock = 4
  NoUser = NoUser
  NoToken = NoToken
  NoJob = NoJob
SYMMETRY MCSymmetry
INVARIANT SessionsSurvive
PROPERTY AcceptedIsLive
PROPERTY AccountsKept
