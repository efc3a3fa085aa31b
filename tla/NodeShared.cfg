\* A volume with a token file beside a volume of any kind, tokens that rotate, pods that go, failures.
CONSTANTS
    v1 = v1 v2 = v2 f = f None = None
    Vols = {v1, v2}
    Watched = {v2}
    Attribs <- TokenAndOther
    Files = {f}
    Suffixes = {"default", "custom"}
    DriverClientID = TRUE
    AllowInlineKeyAccess = FALSE
    EnableAznfs = TRUE
    MaxSerial = 2
    MaxMishaps = 2
SPECIFICATION Spec
INVARIANTS TypeOK InlineKeepsToSecret
PROPERTIES TokenStaysFresh StatsCatchUp
\* Once every pod is gone nothing is left to do.
CHECK_DEADLOCK FALSE
