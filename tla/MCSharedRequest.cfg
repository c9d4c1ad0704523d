CONSTANTS
    Usdc = Usdc
    Dai = Dai
    ETH = ETH
    WETH = WETH
    Assets = {ETH, WETH, Usdc, Dai}
    b1 = b1
    b2 = b2
    b3 = b3
    Builds = {b1, b2, b3}
    Route <- ThroughEth
    Fallbacks = {1, 2}
SPECIFICATION Spec
SYMMETRY Symmetric
INVARIANTS TypeOK RouteIsNormalized LegsAreOfTheRoute EncodersSeeTheirLeg
CHECK_DEADLOCK FALSE
