\* Expected to be violated: a sign-in that upgrades a hash undoes a change.
SPECIFICATION AccountsSpec
CONSTANTS
  Requests = {r1, r2}
  Passwords = {p1, p2}
SYMMETRY Interchangeable
INVARIANT SignInKeepsPassword
CHECK_DEADLOCK FALSE
