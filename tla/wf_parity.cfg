SPECIFICATION Spec
CONSTANTS
    Tests = {t1}
    Certs = {c1, c2}
    Samples = {s1, s2}
    Requests = {r1}
    Fresh = Fresh
    NoReq = NoReq
    NoCert = NoCert
    MetalOf <- AllSilver
    Strict = FALSE
    LastmodTriggers = FALSE
SYMMETRY Symmetric
CHECK_DEADLOCK FALSE
INVARIANTS DoneIsMeasured RetryRecognised CertHasItems
PROPERTIES ImplementsCharging SampleHandover DoneFrozen
