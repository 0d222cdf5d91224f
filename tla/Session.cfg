\* Two tabs, one student set up and one new, five clicks, failures or expiries.
SPECIFICATION Spec
CONSTANTS
  Students = {s1, s2}
  Tabs = {t1, t2}
  NoOne = NoOne
  Onboarded = {s1}
  MaxRequests = 2
  MaxEvents = 5
INVARIANTS PagesAreOwn DataIsOwn
PROPERTIES TokenLostForCause Settles
CHECK_DEADLOCK FALSE
