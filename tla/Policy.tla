------------------------------- MODULE Policy -------------------------------
(***************************************************************************)
(* The admission decision of package filter for one decoded transaction:   *)
(* checkTransaction (filter.go), the Lua hook CheckTx, the whitelist       *)
(* lookup isWhitelistTx (whitelist.go), the two sender recoveries it uses  *)
(* and the gas-price clamp of the eth_gasPrice short cut.  Everything here *)
(* is a pure operator: the decision reads the config and the transaction   *)
(* and never changes either.                                               *)
(*                                                                         *)
(* A decoded transaction is a record                                       *)
(*   [type, chainId, gasPrice, tip, gas, to, value, hash, p256, k1]        *)
(* where gasPrice is tx.GasPrice() (the fee cap of a typed transaction),   *)
(* tip the tip cap of a typed transaction, p256 the outcome of the P-256   *)
(* recovery of its signature (an address or RecoverErr) and k1 the outcome *)
(* of recovering the same signature on secp256k1.  Amounts are small       *)
(* integers: only their order relative to the configured bounds matters.   *)
(***************************************************************************)
EXTENDS Integers

CONSTANTS
  NoAddr,         \* tx.To() == nil, and a Lua argument passed as nil
  ZeroAddr,       \* common.Address{}
  ZeroHash,       \* common.Hash{}
  RecoverErr,     \* a Sender(tx) call that returned an error
  Nil,            \* an optional *big.Int bound left nil in params.Config
  NoRow,          \* the accounts query returned no row
  BadHex,         \* an accounts.escrow value that is not a hex address
  UpstreamErr,    \* SuggestGasPrice/SuggestGasTipCap returned an error
  Accounts,       \* the accounts table: address -> [supernode, escrow] or NoRow
  LuaScript(_, _, _)  \* what LuaCallFunctionName(hash, from, to) does: a
                      \* record of kind "doFileErr", "callErr", "notNumber",
                      \* "fraction" or "number" (with its value)

(* The status codes of params/status.go that the filter can produce. *)
Status == [OK |-> 200, ValueTooLarge |-> 211,
           BodyNilOrEmpty |-> 410, MethodNotWhitelist |-> 415,
           GasLimitError |-> 418, CreateContractNotAllowed |-> 419,
           FromAddressBlackList |-> 420, EmptyFromAddress |-> 421,
           IllegalChainID |-> 422, SignatureVerifyFailed |-> 423,
           GasPriceError |-> 424, TransactionHashNil |-> 426,
           TransactionHashBlackList |-> 427, ToAddressBlackList |-> 428,
           ReadBodyError |-> 429, MethodNotAllowed |-> 431,
           DecodeTransactionError |-> 432, ValueTooLargeError |-> 433,
           IPCDialError |-> 434, IPCWriteError |-> 435, IPCReadError |-> 436,
           LuaCallError |-> 441, LuaReturnError |-> 442,
           LuaFileNotDoError |-> 443, InternalError |-> 500]

(* The statuses after which the transaction is let through. *)
Admitted == {Status.OK, Status.ValueTooLarge}

(* tx.GasTipCap() of go-ethereum: a legacy transaction reports its gas     *)
(* price as its tip cap, so the value is never nil and the tip rule always *)
(* runs.                                                                   *)
GasTipCap(tx) == IF tx.type = "legacy" THEN tx.gasPrice ELSE tx.tip

(* The two-sided bound check used for gas price and for tip cap: below    *)
(* min, or above max when max is set.                                      *)
OutOfBounds(v, min, max) == v < min \/ (max # Nil /\ v > max)

(* EIP155Signer.Sender with recoverPlain on P-256.  A typed transaction    *)
(* carries its y-parity as V, so V - 2*chainId - 8 is never 27 or 28 and   *)
(* recovery fails; the chain-id check inside Sender has already been done *)
(* by checkTransaction.                                                    *)
SenderP256(tx) == IF tx.type = "legacy" THEN tx.p256 ELSE RecoverErr

(* types.NewLondonSigner(chainID).Sender: secp256k1 recovery. *)
SenderLondon(tx) == tx.k1

(* CheckTx: run the script and map its outcome to a status.  A number is   *)
(* turned back into an int by strconv.Atoi(ret.String()), which fails on a *)
(* fractional Lua number and then yields 0.  The EnableLuaFilter and empty *)
(* function-name early returns cannot fire: the caller checks the first,   *)
(* loadParamsConfig rejects the second.                                    *)
CheckTx(hash, from, to) ==
  LET out == LuaScript(hash, from, to) IN
  CASE out.kind = "doFileErr" -> Status.LuaFileNotDoError
    [] out.kind = "callErr"   -> Status.LuaCallError
    [] out.kind = "notNumber" -> Status.LuaReturnError
    [] out.kind = "fraction"  -> 0
    [] out.kind = "number"    -> out.value

(* The Lua branch of checkTransaction: with EnableFromCheck the sender is  *)
(* recovered with the London (secp256k1) signer and checked first.         *)
LuaVerdict(cfg, tx) ==
  IF cfg.EnableFromCheck
  THEN LET from == SenderLondon(tx) IN
       IF from = RecoverErr THEN Status.SignatureVerifyFailed
       ELSE IF from = ZeroAddr THEN Status.EmptyFromAddress
       ELSE CheckTx(tx.hash, from, tx.to)
  ELSE CheckTx(tx.hash, NoAddr, tx.to)

(* isWhitelistTx: dbOk is FALSE when OpenDatabase or the query fails;     *)
(* every failure reads as "not whitelisted".                               *)
IsWhitelistTx(dbOk, from, to) ==
  LET row == Accounts[from] IN
  /\ dbOk
  /\ row # NoRow
  /\ \/ row.supernode
     \/ row.escrow # BadHex /\ row.escrow = to

(* The sender rules at the end of checkTransaction, entered when the       *)
(* whitelist DB is enabled or the from blacklist is non-empty; soft is the *)
(* status reached so far (200 or the soft 211).                            *)
FromVerdict(cfg, tx, dbOk, soft) ==
  LET from == SenderP256(tx) IN
  IF from = RecoverErr THEN Status.SignatureVerifyFailed
  ELSE IF from = ZeroAddr THEN Status.EmptyFromAddress
  ELSE IF from \in cfg.FromBlackList THEN Status.FromAddressBlackList
  ELSE IF cfg.EnableWhitelistDB /\ (tx.to = NoAddr \/ ~IsWhitelistTx(dbOk, from, tx.to))
       THEN Status.FromAddressBlackList
  ELSE soft

(* The rules after the Lua branch: recipient, value, hash, sender. *)
TailVerdict(cfg, tx, dbOk) ==
  LET soft == IF tx.value > cfg.MaxValueInWEI THEN Status.ValueTooLarge ELSE Status.OK IN
  IF tx.to = NoAddr /\ cfg.DisableContractCreate THEN Status.CreateContractNotAllowed
  ELSE IF tx.to # NoAddr /\ tx.to \in cfg.ToBlackList THEN Status.ToAddressBlackList
  ELSE IF soft = Status.ValueTooLarge /\ cfg.EnableMaxValueVerify THEN Status.ValueTooLargeError
  ELSE IF cfg.TxHashBlackList # {} /\ tx.hash = ZeroHash THEN Status.TransactionHashNil
  ELSE IF tx.hash \in cfg.TxHashBlackList THEN Status.TransactionHashBlackList
  ELSE IF cfg.EnableWhitelistDB \/ cfg.FromBlackList # {} THEN FromVerdict(cfg, tx, dbOk, soft)
  ELSE soft

(* Mutant of CheckTransaction: the gas-limit rule moved before the price *)
(* rules.                                                                  *)
CheckTransactionGasFirst(cfg, tx, dbOk) ==
  IF tx.chainId # cfg.ChainID THEN Status.IllegalChainID
  ELSE IF tx.gas < cfg.MinGasLimit \/ (cfg.EnableMaxGasLimitVerify /\ tx.gas > cfg.MaxGasLimit)
       THEN Status.GasLimitError
  ELSE IF OutOfBounds(tx.gasPrice, cfg.MinGasPriceInWEI, cfg.MaxGasPriceInWEI)
       THEN Status.GasPriceError
  ELSE IF OutOfBounds(GasTipCap(tx), cfg.MinGasTipCapInWEI, cfg.MaxGasTipCapInWEI)
       THEN Status.GasPriceError
  ELSE IF cfg.EnableLuaFilter THEN LuaVerdict(cfg, tx)
  ELSE TailVerdict(cfg, tx, dbOk)

(* checkTransaction: the ordered rules; the first failing one returns. *)
CheckTransaction(cfg, tx, dbOk) ==
  IF tx.chainId # cfg.ChainID THEN Status.IllegalChainID
  ELSE IF OutOfBounds(tx.gasPrice, cfg.MinGasPriceInWEI, cfg.MaxGasPriceInWEI)
       THEN Status.GasPriceError
  ELSE IF OutOfBounds(GasTipCap(tx), cfg.MinGasTipCapInWEI, cfg.MaxGasTipCapInWEI)
       THEN Status.GasPriceError
  ELSE IF tx.gas < cfg.MinGasLimit \/ (cfg.EnableMaxGasLimitVerify /\ tx.gas > cfg.MaxGasLimit)
       THEN Status.GasLimitError
  ELSE IF cfg.EnableLuaFilter THEN LuaVerdict(cfg, tx)
  ELSE TailVerdict(cfg, tx, dbOk)

(* Mutant of ClampSuggestion: the upper clamp forgotten. *)
ClampSuggestionNoMax(sugg, min, max) ==
  IF sugg = UpstreamErr \/ sugg < min THEN min ELSE sugg

(* The eth_gasPrice / eth_maxPriorityFeePerGas short cut: the upstream     *)
(* suggestion, or min when the query failed, clamped into [min, max].      *)
ClampSuggestion(sugg, min, max) ==
  IF sugg = UpstreamErr \/ sugg < min THEN min
  ELSE IF max # Nil /\ sugg > max THEN max
  ELSE sugg
=============================================================================
