------------------------------ MODULE MCGuard -------------------------------
(***************************************************************************)
(* Instances of Guard for TLC.  Addresses a1..a4, hashes h1, h2 and the    *)
(* handlers r1, r2 are model values.  The accounts table and the Lua       *)
(* script are chosen so that every outcome of isWhitelistTx and CheckTx    *)
(* occurs:                                                                 *)
(*   a1  ordinary account whose escrow is a2                               *)
(*   a2  no row                                                            *)
(*   a3  supernode with an escrow that is not hex                          *)
(*   a4  ordinary account with an escrow that is not hex, and on the from *)
(*       blacklist of the configurations that have one                     *)
(* Amounts are 0..3 against bounds 1 and 2, so every value lies below,     *)
(* inside or above each configured interval.                               *)
(***************************************************************************)
EXTENDS Guard, TLC

CONSTANTS a1, a2, a3, a4, h1, h2, r1, r2

MCAccounts ==
  (a1 :> [supernode |-> FALSE, escrow |-> a2]) @@
  (a2 :> NoRow) @@
  (a3 :> [supernode |-> TRUE, escrow |-> BadHex]) @@
  (a4 :> [supernode |-> FALSE, escrow |-> BadHex])

(* The script: by hash and recipient it denies, fails in each way, returns *)
(* a fraction, or admits; it refuses sender a4 where it sees the sender.   *)
MCLuaScript(hash, from, to) ==
  CASE hash = h1 /\ to = a2     -> [kind |-> "number", value |-> IF from = a4 THEN 420 ELSE 200]
    [] hash = h1 /\ to = a3     -> [kind |-> "callErr"]
    [] hash = h1 /\ to = NoAddr -> [kind |-> "doFileErr"]
    [] hash = h2 /\ to = a2     -> [kind |-> "fraction"]
    [] hash = h2 /\ to = a3     -> [kind |-> "notNumber"]
    [] OTHER                    -> [kind |-> "number", value |-> 211]

BlockNumber == <<"eth", "blockNumber">>

BaseConfig ==
  [ChainID |-> 1, MinGasPriceInWEI |-> 1, MaxGasPriceInWEI |-> Nil,
   MinGasTipCapInWEI |-> 1, MaxGasTipCapInWEI |-> Nil,
   MinGasLimit |-> 1, EnableMaxGasLimitVerify |-> TRUE, MaxGasLimit |-> 2,
   EnableLuaFilter |-> FALSE, EnableFromCheck |-> FALSE,
   DisableContractCreate |-> TRUE, ToBlackList |-> {a3},
   MaxValueInWEI |-> 0, EnableMaxValueVerify |-> FALSE,
   TxHashBlackList |-> {h2}, EnableWhitelistDB |-> TRUE, FromBlackList |-> {a4},
   EnableActiveMQ |-> FALSE,
   MethodWhiteList |-> {SendRawTransaction, GasPrice, MaxPriorityFeePerGas, BlockNumber},
   Scheme |-> "http"]

(* Four policies: every list and the whitelist on; hard value limit and   *)
(* upper gas bounds with the DB off; the Lua hook; nothing but bounds.     *)
PolicyConfigs ==
  { BaseConfig,
    [BaseConfig EXCEPT !.MaxGasPriceInWEI = 2, !.MaxGasTipCapInWEI = 1,
       !.EnableMaxValueVerify = TRUE, !.EnableWhitelistDB = FALSE,
       !.ToBlackList = {}, !.TxHashBlackList = {}, !.DisableContractCreate = FALSE,
       !.EnableMaxGasLimitVerify = FALSE],
    [BaseConfig EXCEPT !.EnableLuaFilter = TRUE, !.MaxGasPriceInWEI = 2,
       !.MaxGasTipCapInWEI = 1],
    [BaseConfig EXCEPT !.EnableWhitelistDB = FALSE, !.FromBlackList = {},
       !.ToBlackList = {}, !.TxHashBlackList = {}, !.DisableContractCreate = FALSE] }

(* Decoded transactions: legacy ones with every P-256 recovery outcome,   *)
(* typed ones (whose P-256 recovery always fails) with every tip cap.      *)
LegacyTxs ==
  [type : {"legacy"}, chainId : {1, 2}, gasPrice : {0, 1, 3}, tip : {0},
   gas : {0, 1, 3}, to : {a2, a3, NoAddr}, value : {0, 1},
   hash : {h1, h2, ZeroHash}, p256 : {a1, a2, a4, ZeroAddr, RecoverErr}, k1 : {a1}]
DynamicTxs ==
  [type : {"dynamic"}, chainId : {1, 2}, gasPrice : {0, 1, 3}, tip : {0, 1, 2},
   gas : {0, 1, 3}, to : {a2, a3, NoAddr}, value : {0, 1},
   hash : {h1, h2, ZeroHash}, p256 : {RecoverErr}, k1 : {a1}]

Post(body) == [method |-> "POST", json |-> TRUE, declared |-> TRUE, large |-> FALSE,
               cut |-> FALSE, body |-> body]
Single(msg) == Post([kind |-> "json", batch |-> FALSE, msgs |-> <<msg>>])
Msg(id, method, param) == [id |-> id, method |-> method, param |-> param]

(* One single request of every method class and every transaction. *)
PolicyRequests ==
  { Single(Msg(1, SendRawTransaction, tx)) : tx \in LegacyTxs \cup DynamicTxs \cup {BadParam} }
  \cup { Single(Msg(1, m, BadParam)) :
           m \in {GasPrice, MaxPriorityFeePerGas, BlockNumber, <<"eth", "call">>, <<"eth">>} }

MCGasSuggestions == {UpstreamErr, 0, 2, 3}

(* Transactions for the runs with concurrent handlers: one the policies   *)
(* admit with 200 (when the DB answers), one admitted with the soft 211,  *)
(* and one refused for its chain id.                                       *)
TxOK   == [type |-> "legacy", chainId |-> 1, gasPrice |-> 1, tip |-> 0, gas |-> 1,
           to |-> a2, value |-> 0, hash |-> h1, p256 |-> a3, k1 |-> a3]
TxSoft == [TxOK EXCEPT !.value = 1]
TxBad  == [TxOK EXCEPT !.chainId = 2]

Batch(msgs) == Post([kind |-> "json", batch |-> TRUE, msgs |-> msgs])

(* Requests that take every path of ServeHTTP: the health probe, each     *)
(* refusal of validateRequest, a CORS preflight, a body that is not JSON,  *)
(* a body the client cuts off, single and batch requests.                  *)
FrontRequests ==
  { [method |-> "GET", json |-> FALSE, declared |-> TRUE, large |-> FALSE,
     cut |-> FALSE, body |-> [kind |-> "empty"]],
    [Post([kind |-> "invalid"]) EXCEPT !.method = "PUT"],
    [Post([kind |-> "invalid"]) EXCEPT !.large = TRUE],
    [Post([kind |-> "invalid"]) EXCEPT !.json = FALSE],
    [method |-> "OPTIONS", json |-> FALSE, declared |-> TRUE, large |-> FALSE,
     cut |-> FALSE, body |-> [kind |-> "empty"]],
    Post([kind |-> "invalid"]),
    [Post([kind |-> "invalid"]) EXCEPT !.cut = TRUE] }

TxRequests ==
  { Single(Msg(1, SendRawTransaction, TxOK)),
    Single(Msg(1, SendRawTransaction, TxSoft)),
    Batch(<<Msg(1, SendRawTransaction, TxOK), Msg(2, SendRawTransaction, TxSoft)>>),
    Batch(<<Msg(1, SendRawTransaction, TxSoft), Msg(2, SendRawTransaction, TxBad)>>) }

ConcRequests == FrontRequests \cup TxRequests

(* A server relaying over http, over IPC, or with a scheme it cannot relay; *)
(* the last one runs without the whitelist DB, so that its admissions do   *)
(* not depend on what the DB answers.                                      *)
ServerConfigs ==
  { [BaseConfig EXCEPT !.EnableActiveMQ = TRUE, !.Scheme = s,
       !.EnableWhitelistDB = (s # "ws")] : s \in {"http", "", "ws"} }

(* A publishing server relaying over http, for the runs that expect a     *)
(* violation.                                                              *)
NotifyingConfigs == {[BaseConfig EXCEPT !.EnableActiveMQ = TRUE]}

(* A CORS preflight carrying a transaction the policy refuses; validateRequest *)
(* does not look at the content type of an OPTIONS request.               *)
OptionsRequests ==
  { [Single(Msg(1, SendRawTransaction, TxBad)) EXCEPT !.method = "OPTIONS", !.json = FALSE] }

(* A body over MaxRequestContentLength sent with chunked encoding, so that *)
(* r.ContentLength is -1.                                                  *)
ChunkedRequests ==
  { [Single(Msg(1, SendRawTransaction, TxOK)) EXCEPT !.large = TRUE, !.declared = FALSE] }

(* The Lua hook with EnableFromCheck, and transactions whose P-256 and     *)
(* secp256k1 recoveries name different senders.                            *)
FromCheckConfigs == {[BaseConfig EXCEPT !.EnableLuaFilter = TRUE, !.EnableFromCheck = TRUE]}
FromCheckRequests ==
  { Single(Msg(1, SendRawTransaction, [TxOK EXCEPT !.p256 = s, !.k1 = k])) :
      s \in {a4, a1}, k \in {a1, a4} }
=============================================================================
