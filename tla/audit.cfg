CONSTANTS
  Drivers = {d1, d2}
  Personal = {d1, d2}
  Nobody = Nobody
  MaxEdits = 1
SPECIFICATION AuditSpec
INVARIANTS NoFalseAlarm TrailShowsTheRuling VerifiedMeansUntouched
