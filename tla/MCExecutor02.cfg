CONSTANTS
    Eth = Eth
    Weth = Weth
    Usdc = Usdc
    Dai = Dai
    ETH = Eth
    WETH = Weth
    Tokens = {Eth, Weth, Usdc, Dai}
    Routes <- SplitRoutes
    Answers <- CoreAnswers
    Decisions = {FALSE}
    Assumed = {"midRoute"}
    Relied = {"keepsWeth", "unwrapsOnce", "groupEth", "rawFirst", "sharedUnwrap", "seenUnwrap",
              "measuredFallback", "rootUnwraps"}
SPECIFICATION FocusedSpec
INVARIANTS RunTypeOK StepsFindFunds PullsAreGranted AmountsAreThreaded FundsAreDelivered
CHECK_DEADLOCK FALSE
