CONSTANTS
    Build = "int_flags"
    CleanupIntervalFlag = 3
    JobRetentionFlag = 2
    HeartbeatTimeoutFlag = 15
    HeartbeatIntervalFlag = 10
    MaxHeartbeatDelay = 3
    MaxClaimLatency = 2
    MaxRetries = 2
    RetryAfterAtClaim = {5, 20}
    MaxTime = 12
SPECIFICATION Spec
CONSTRAINT TimeBound
INVARIANT RetentionHonoured
