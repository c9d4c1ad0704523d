CONSTANTS
    Eth = Eth
    Weth = Weth
    Usdc = Usdc
    Dai = Dai
    ETH = Eth
    WETH = Weth
    Tokens = {Eth, Weth, Usdc, Dai}
    Routes <- OneSwap
    Answers <- CoreAnswers
    Decisions = {FALSE}
    Assumed = {"midRoute"}
    Relied = {"keepsWeth", "unwrapsOnce", "groupEth", "rawFirst", "seenUnwrap", "measuredFallback", "rootUnwraps"}
SPECIFICATION FocusedSpec
INVARIANTS FundsAreDelivered
CHECK_DEADLOCK FALSE
