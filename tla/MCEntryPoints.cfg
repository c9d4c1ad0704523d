CONSTANTS
    Eth = Eth
    Weth = Weth
    Usdc = Usdc
    ETH = Eth
    WETH = Weth
    Tokens = {Eth, Weth, Usdc}
    Routes <- UnevenShares
    Answers <- Forms
    Decisions = {FALSE}
    Assumed = {}
    Fees <- BoundaryFees
    Entries = {"generic", "direct", "resolved"}
    Methods = {"SELL", "BUY", "either", "batch"}
    LegLists <- BroughtLegs
SPECIFICATION MCSpec
INVARIANTS EntryTypeOK SharesAreCovered FeesReadBack DirectIsChargedAlike
    LegsMeetTheirExchange
CHECK_DEADLOCK FALSE
