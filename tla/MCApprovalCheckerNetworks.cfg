CONSTANTS
    p1 = p1
    p2 = p2
    n1 = n1
    n2 = n2
    eth = eth
    usdc = usdc
    dai = dai
    Callers = {p1, p2}
    Networks = {n1, n2}
    NetworkOf <- TwoNetworks
    Keys = {usdc, dai}
    NativeKeys = {}
    Malformed = {dai}
    Requests = {"usdc", "USDC", "dai"}
    KeyOf <- SpelledShort
    RequestLists <- ShortLists
    MaxAllowance = 1
SPECIFICATION FairSpec
INVARIANTS NoInventedApproval
PROPERTIES CallsReturn
