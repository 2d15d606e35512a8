SPECIFICATION Spec
CONSTANTS
    Tests = {t1, t2}
    Certs = {c1, c2}
    Samples = {s1}
    Requests = {r1, r2}
    Fresh = Fresh
    NoReq = NoReq
    NoCert = NoCert
    MetalOf <- AllSilver
    Strict = TRUE
    LastmodTriggers = FALSE
SYMMETRY Symmetric
CHECK_DEADLOCK FALSE
INVARIANTS ChargeInv AckInv
