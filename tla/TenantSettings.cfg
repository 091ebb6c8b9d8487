\* Three concurrent saves of three sections, the row written up to three times.
SPECIFICATION SettingsSpec
CONSTANTS
    Savers = {w1, w2, w3}
    Sections = {lockout, tokens, registration}
    Values = {default, tight}
    Default = default
    MaxSaves = 3
    Absent = Absent
SYMMETRY Symmetry
PROPERTIES OnlyOverlapDisturbs InsertDisturbsNothing
