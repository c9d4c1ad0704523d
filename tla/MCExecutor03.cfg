CONSTANTS
    Eth = Eth
    Weth = Weth
    Usdc = Usdc
    ETH = Eth
    WETH = Weth
    Tokens = {Eth, Weth, Usdc}
    Routes <- UpToThree
    Answers <- FlagAnswers
    Decisions = {FALSE}
    Assumed = {}
SPECIFICATION SwapSpec
INVARIANTS RunTypeOK StepsFindFunds PullsAreGranted AmountsAreThreaded OutputsAreInForm
CHECK_DEADLOCK FALSE
