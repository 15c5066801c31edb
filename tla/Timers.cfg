CONSTANTS
    Build = "duration_flags"
    CleanupIntervalFlag = 3000
    JobRetentionFlag = 2000
    HeartbeatTimeoutFlag = 15000
    HeartbeatIntervalFlag = 10000
    MaxHeartbeatDelay = 3
    MaxClaimLatency = 2
    MaxRetries = 2
    RetryAfterAtClaim = {5, 20}
    MaxTime = 45
SPECIFICATION Spec
CONSTRAINT TimeBound
INVARIANT StaleResetInTime
INVARIANT RetryPromptly
PROPERTY NoFalseStale
