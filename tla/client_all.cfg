\* Two gyms, two sessions: replies in any order, errors, and a logout in between.
SPECIFICATION Spec
CONSTANTS
  Gyms = {g1, g2}
  NoGym = NoGym
  Calls <- MCCalls
  MaxInFlight = 2
  MaxEvents = 3
SYMMETRY Symmetry
INVARIANTS TypeOK CountersAreSound QuietViewIsCurrent
