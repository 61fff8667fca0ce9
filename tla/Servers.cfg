SPECIFICATION Spec
CONSTANTS
    CommandLines <- MCCommandLines
    Certificate <- MCCertificate
    PrivateKey <- MCPrivateKey
    Authority <- MCAuthority
    SystemTrust = {"A"}
    KnownSuites = {"GCM", "CBC"}
CHECK_DEADLOCK FALSE
INVARIANTS TypeOK ListensAsTold RefusedBeforeServing
PROPERTIES LivenessFollowsPublic
