CONSTANTS
    Eth = Eth
    Weth = Weth
    Usdc = Usdc
    Dai = Dai
    Usdt = Usdt
    ETH = Eth
    WETH = Weth
    Tokens = {Eth, Weth, Usdc, Dai, Usdt}
    Routes <- AllRoutes
    Answers <- FormsAndTransfers
    Decisions = {TRUE, FALSE}
    Assumed = {"midRoute"}
SPECIFICATION Spec
INVARIANTS TypeOK PullsAreDecided PlanCoversBranches
CHECK_DEADLOCK FALSE
