CONSTANTS
    Eth = Eth
    Weth = Weth
    Usdc = Usdc
    Dai = Dai
    Usdt = Usdt
    ETH = Eth
    WETH = Weth
    Tokens = {Eth, Weth, Usdc, Dai, Usdt}
    Routes <- OneSwap
    Answers <- CoreAnswers
    Decisions = {FALSE}
    Assumed = {"midRoute", "measuredFinal", "measuredSource"}
SPECIFICATION SwapSpec
INVARIANTS FundsAreDelivered
CHECK_DEADLOCK FALSE
