CONSTANTS
    Eth = Eth
    Weth = Weth
    Usdc = Usdc
    Dai = Dai
    Usdt = Usdt
    ETH = Eth
    WETH = Weth
    Tokens = {Eth, Weth, Usdc, Dai, Usdt}
    Routes <- TwoSwapRoutes
    Answers <- FormsAndTransfers
    Decisions = {FALSE}
    Assumed = {}
SPECIFICATION Spec
INVARIANTS PlanCoversBranches
CHECK_DEADLOCK FALSE
