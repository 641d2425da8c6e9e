SPECIFICATION FairSpec
CONSTANTS
    MarkerIds = {1, 2}
    Clouds = {{}, {1}, {1, 2}}
    TargetTimeout = 2
    ReacquireTime = 1
    SyncByCallbackTime = TRUE
    CloudEachPeriod = TRUE
    MaxDetectionSkew = 1
    WindowTime = 1
    BackoffTime = 1
    AllowNeverTracked = FALSE
    MaxAttempts = 1
    ServiceResponseTimeout = 0
    RetryBackoff = 1
    SustainedTrackingTime = 1
INVARIANTS LostUntilSighted ConfirmOfThisWindow TimesOutUnseen
PROPERTY RecoveryGoesOn
