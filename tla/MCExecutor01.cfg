CONSTANTS
    Eth = Eth
    Weth = Weth
    Usdc = Usdc
    Dai = Dai
    Usdt = Usdt
    ETH = Eth
    WETH = Weth
    Tokens = {Eth, Weth, Usdc, Dai, Usdt}
    Routes <- UpToThreeSwaps
    Answers <- AllAnswers
    Decisions = {FALSE}
    Assumed = {"midRoute", "rawFinal", "measuredFinal", "measuredSource"}
SPECIFICATION FocusedSpec
INVARIANTS RunTypeOK StepsFindFunds PullsAreGranted AmountsAreThreaded FundsAreDelivered
PROPERTIES ImplementsRouteFlow
CHECK_DEADLOCK FALSE

