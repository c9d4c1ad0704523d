CONSTANTS
    p1 = p1
    p2 = p2
    n1 = n1
    n2 = n2
    eth = eth
    usdc = usdc
    dai = dai
    Callers = {p1, p2}
    Networks = {n1}
    NetworkOf <- SameNetwork
    Keys = {eth, usdc, dai}
    NativeKeys = {eth}
    Malformed = {}
    Requests = {"eth", "usdc", "USDC", "dai"}
    KeyOf <- Spelled
    RequestLists <- Lists
    MaxAllowance = 1
SPECIFICATION Spec
INVARIANTS TypeOK NoLostApproval
PROPERTIES ImplementsOracle
