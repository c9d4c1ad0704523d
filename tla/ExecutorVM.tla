----------------------------- MODULE ExecutorVM -----------------------------
(***************************************************************************)
(* The on-chain executor contract, external to the library, as its         *)
(* bytecode builders use it: the steps they emit and what each is emitted  *)
(* for.  A machine holds the funds of one swap: one token, in one place.   *)
(*                                                                         *)
(* The contract threads an amount, fromAmount, from step to step: a flag   *)
(* says whether a step sends that much ETH, has it inserted into its       *)
(* calldata, and which balance is measured for the next step.  "exact" is  *)
(* whether fromAmount is the amount the executor really holds.             *)
(***************************************************************************)
EXTENDS PriceRoutes

Flag(send, insert, check) == [send |-> send, insert |-> insert, check |-> check]
Flags == [send : BOOLEAN, insert : BOOLEAN, check : {"none", "eth", "token"}]

Places == {"executor", "pool", "augustus"}
Machines == [held : Tokens, at : Places, exact : BOOLEAN, granted : BOOLEAN]

WrapStep == [op |-> "wrap"]
UnwrapStep == [op |-> "unwrap"]
ApproveStep == [op |-> "approve"]
SendNativeStep == [op |-> "sendNative"]
TransferStep(token, to) == [op |-> "transfer", token |-> token, to |-> to]

\* A call of an exchange: what it takes and how (sent along as "eth", pulled
\* through an allowance that "needs" a grant, or already in its "pool"), what
\* it returns and where, its flag, and the token whose balance "token" means.
DexStep(in, how, out, to, flag, measured) ==
    [op |-> "dex", in |-> in, how |-> how, out |-> out, to |-> to,
     flag |-> flag, measured |-> measured]

\* The funds are where the step takes them from, in the form it takes.
FindsFunds(m, s) ==
    CASE s.op = "wrap"       -> m.at = "executor" /\ m.held = ETH
      [] s.op = "unwrap"     -> m.at = "executor" /\ m.held = WETH
      [] s.op = "sendNative" -> m.at = "executor" /\ m.held = ETH
      [] s.op = "transfer"   -> m.at = "executor" /\ m.held = s.token
      [] s.op = "dex"        -> /\ m.held = s.in
                                /\ m.at = IF s.how = "pool" THEN "pool" ELSE "executor"
                                /\ s.flag.send <=> s.in = ETH
      [] OTHER               -> TRUE

\* An exchange that pulls has been given the allowance.
IsGranted(m, s) == s.op = "dex" /\ s.how = "needs" => m.granted

\* A step that works on fromAmount works on the amount that is there.
IsExact(m, s) ==
    \/ s.op = "approve"
    \/ s.op = "dex" /\ ~s.flag.send /\ ~s.flag.insert
    \/ m.exact

\* The measured balance is that of the token the exchange returned.
Measures(s) ==
    \/ s.flag.check = "eth" /\ s.out = ETH
    \/ s.flag.check = "token" /\ s.out = s.measured

Apply(m, s) ==
    CASE s.op = "wrap"       -> [m EXCEPT !.held = WETH]
      [] s.op = "unwrap"     -> [m EXCEPT !.held = ETH]
      [] s.op = "approve"    -> [m EXCEPT !.granted = TRUE]
      [] s.op = "sendNative" -> [m EXCEPT !.at = "augustus"]
      [] s.op = "transfer"   -> [m EXCEPT !.at = s.to]
      [] s.op = "dex"        -> [held |-> s.out, at |-> s.to, granted |-> FALSE,
                                 exact |-> s.to = "executor" /\ Measures(s)]
=============================================================================
