\* Three racing requests; two submissions from one window or two, caps of two
\* and eight units; three commitments, a lost answer and a second page.
SPECIFICATION Spec
CONSTANTS
  Requests = {r1, r2, r3}
  Passwords = {p1, p2}
  Mondays <- Weeks
  WeekLength = 3
  Submissions = {s1, s2}
  Panels = {w1, w2}
  Instants = {0, 2, 6}
  Caps = {2, 8}
  DefaultCap = 8
  Hundredth = 2
  MaxLostSaves = 1
  Drafts = {d1, d2, d3}
  MaxLost = 1
  MaxMounts = 1
SYMMETRY Interchangeable
INVARIANTS TypeOK OneSignUpSucceeds OnboardedHasPermit UsageIsWhatWasWorked CheckKeepsTheCap
INVARIANTS StoredKnowingly RulesHold EachSavedOnce
CHECK_DEADLOCK FALSE
