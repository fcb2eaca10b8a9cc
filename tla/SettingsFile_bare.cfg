SPECIFICATION SettingsSpec
CONSTANTS
    w1 = w1  w2 = w2
    Savers = {w1, w2}
    BareSavers = {w2}
    NoSaver = nobody
    SettingsCrashBound = 0
INVARIANTS AcknowledgedIsKept
CHECK_DEADLOCK FALSE
