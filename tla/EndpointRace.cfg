\* Two aznfs mounts at once, one of them in a cloud with another endpoint suffix.
CONSTANTS
    v1 = v1 v2 = v2 f = f None = None
    Vols = {v1, v2}
    Watched = {}
    Attribs <- TwoEndpoints
    Files = {f}
    Suffixes = {"default", "custom"}
    DriverClientID = TRUE
    AllowInlineKeyAccess = FALSE
    EnableAznfs = TRUE
    MaxSerial = 1
    MaxMishaps = 0
SPECIFICATION Spec
INVARIANT OwnEndpoint
CHECK_DEADLOCK FALSE
