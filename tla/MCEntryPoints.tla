--------------------------- MODULE MCEntryPoints ---------------------------
(* Routes of one swap, of either side, whose amounts do not divide evenly   *)
(* over one to three exchanges; fees at the ends of every field; legs for   *)
(* them in any order, twice, missing, foreign or malformed.                 *)
EXTENDS EntryPoints, TLC

CONSTANTS Eth, Weth, Usdc

Shares == {<<7>>, <<3, 4>>, <<1, 1, 5>>}

Exch(share, hasFallback) ==
    [percent |-> IF share = 7 THEN 100 ELSE 50, isWeth |-> FALSE,
     quotes |-> ("primary" :> [src |-> share, dest |-> 1])
                @@ IF hasFallback THEN "fallback" :> [src |-> share, dest |-> 1] ELSE <<>>]

SplitRoute(side, src, dest, shares, most, hasFallback) ==
    [side |-> side, exactOut |-> side = "BUY", minMax |-> most, srcAmount |-> 7,
     src |-> src, dest |-> dest,
     paths |-> <<[percent |-> 100,
                  swaps |-> <<[src |-> src, dest |-> dest,
                               exchanges |-> [i \in DOMAIN shares |->
                                                Exch(shares[i], hasFallback /\ i = 1)]]>>]>>]

UnevenShares ==
    {SplitRoute(side, ends[1], ends[2], shares, most, hasFallback) :
        side \in {"SELL", "BUY"}, ends \in {<<Eth, Usdc>>, <<Usdc, Eth>>}, shares \in Shares,
        most \in {8, 11}, hasFallback \in BOOLEAN}

BoundaryFees ==
    {[partner |-> AddressBits, percent |-> n, hasReferrer |-> r, referrer |-> {159},
      takeSurplus |-> t, capSurplus |-> c, surplusToUser |-> ~c, directTransfer |-> ~c,
      skipBlacklist |-> b] :
        n \in {0, 1, 8192, HighestPercent}, r \in BOOLEAN, t \in BOOLEAN, c \in BOOLEAN,
        b \in BOOLEAN}

At(k) == <<1, 1, k>>
Keyed(n) == [1..n -> {At(k) : k \in 1..4}]
Fine == <<TRUE>>
Fallback == <<TRUE, TRUE>>
Nested == <<TRUE, TRUE, TRUE>>
BadFallback == <<TRUE, FALSE>>
OfParams == {<<p, q, Fine>> : p \in {Fine, Fallback, Nested}, q \in {Fine, Fallback, BadFallback}}
BroughtLegs ==
    UNION {{[i \in 1..n |-> [pos |-> keys[i], params |-> Fine]] : keys \in Keyed(n)} : n \in 0..4}
    \union {[i \in 1..3 |-> [pos |-> At(4 - i), params |-> params[i]]] : params \in OfParams}

\* Who brings legs does so for few of the routes and fees.
MCInit ==
    /\ EntryInit
    /\ entry = "resolved" =>
        /\ fee.capSurplus /\ ~fee.takeSurplus /\ ~fee.hasReferrer
        /\ fee.percent \in {0, HighestPercent}
        /\ route.minMax = 8 /\ Legs(route) = Positions(route) \X {"primary"}
MCSpec == MCInit /\ [][EntryNext]_entryVars

Forms == {a \in AnswerType : ~a.unwrap /\ ~a.transferSrc /\ a.hasRecipient
                              /\ ~a.skipApproval /\ ~a.ethInsert /\ ~a.noInsert}
=============================================================================
