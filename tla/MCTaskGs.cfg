SPECIFICATION Spec
CONSTANTS
    s1 = s1
    s2 = s2
    id1 = id1
    id2 = id2
    Services <- MCServices
    CorrelationIds <- MCCorrelationIds
    MaxPayload = 1
    MaxCapabilities = 2
CHECK_DEADLOCK FALSE
INVARIANT PendingRequestIsServed
