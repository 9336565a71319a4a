---------------------------- MODULE MCServerBoot ----------------------------
(***************************************************************************)
(* Instances of ServerBoot.  Gas limits are 16-bit words, which hold the  *)
(* 21000 floor and wrap a setting of -1 to the largest word as uint64 does.*)
(* Each setting of interest is varied around Base, one group at a time:    *)
(* gas limits, gas price and tip bounds, blacklist files, the whitelist DB *)
(* and Lua hook, and the notify, limiter and listener settings.           *)
(***************************************************************************)
EXTENDS ServerBoot

Base ==
  [LogLevel |-> "", rpcURL |-> "", MethodWhitelist |-> {},
   FromBlacklistConfig |-> Nil, ToBlacklistConfig |-> Nil, TxHashBlackListConfig |-> Nil,
   DisableContractCreate |-> FALSE, EnableMaxValueVerify |-> FALSE, MaxValueInNEW |-> 0,
   EnableMaxGasLimitVerify |-> FALSE, MaxGasLimit |-> 0, MinGasLimit |-> 0,
   MinGasPriceInWEI |-> Nil, MaxGasPriceInWEI |-> Nil,
   MinGasTipCapInWEI |-> Nil, MaxGasTipCapInWEI |-> Nil,
   EnableActiveMQ |-> FALSE, qos |-> Nil,
   EnableWhitelistDB |-> FALSE, dbAdapter |-> "",
   EnableLuaFilter |-> FALSE, LuaFile |-> "", luaFileExists |-> FALSE,
   LuaCallFunctionName |-> "", EnableFromCheck |-> FALSE,
   EnableIPRateLimit |-> FALSE, IPRate |-> 0, sslConfigured |-> FALSE, listenOk |-> TRUE]

GasLimitSettings ==
  { [Base EXCEPT !.EnableMaxGasLimitVerify = e, !.MaxGasLimit = mx, !.MinGasLimit = mn] :
      e \in BOOLEAN, mx \in {-1, 0, 25000}, mn \in {-1, 0, 21000} }

Bounds == {Nil, -1, 0, 2}
PriceSettings ==
  { [Base EXCEPT !.MinGasPriceInWEI = a, !.MaxGasPriceInWEI = b,
                 !.MinGasTipCapInWEI = c, !.MaxGasTipCapInWEI = d] :
      a \in Bounds, b \in Bounds, c \in Bounds, d \in Bounds }

ListFiles ==
  {Nil, [readable |-> FALSE, entries |-> {}], [readable |-> TRUE, entries |-> {}],
   [readable |-> TRUE, entries |-> {"0x01"}], [readable |-> TRUE, entries |-> {"0x01", BadEntry}]}
ListSettings ==
  { [Base EXCEPT !.FromBlacklistConfig = f, !.ToBlacklistConfig = t,
                 !.TxHashBlackListConfig = h, !.MethodWhitelist = m] :
      f \in ListFiles, t \in ListFiles, h \in ListFiles, m \in {{}, {"eth_call"}} }

HookSettings ==
  { [Base EXCEPT !.EnableWhitelistDB = w, !.dbAdapter = a, !.EnableLuaFilter = l,
                 !.LuaFile = f, !.luaFileExists = x, !.LuaCallFunctionName = fn,
                 !.EnableFromCheck = fc] :
      w \in BOOLEAN, a \in {"", "mysql"}, l \in BOOLEAN, f \in {"", "guard.lua"},
      x \in BOOLEAN, fn \in {"", "check"}, fc \in BOOLEAN }

ServiceSettings ==
  { [Base EXCEPT !.LogLevel = lv, !.EnableActiveMQ = mq, !.qos = q,
                 !.EnableIPRateLimit = rl, !.IPRate = r, !.sslConfigured = ssl,
                 !.listenOk = ok, !.EnableMaxValueVerify = mv, !.MaxValueInNEW = v] :
      lv \in {"", "debug", "bogus"}, mq \in BOOLEAN, q \in {Nil, 0, 2, 3},
      rl \in BOOLEAN, r \in {-1, 0, 5}, ssl \in BOOLEAN, ok \in BOOLEAN,
      mv \in BOOLEAN, v \in {0, 2} }

(* What viper returns for every key when no config file was read. *)
MCUnset == Base

MCSettings ==
  GasLimitSettings \cup PriceSettings \cup ListSettings \cup HookSettings \cup ServiceSettings

(* A node that is down, one that fails NetworkID, and one that answers.    *)
MCNodeAnswers ==
  { [dial |-> FALSE, networkId |-> Nil],
    [dial |-> TRUE, networkId |-> Nil],
    [dial |-> TRUE, networkId |-> 1012] }

-----------------------------------------------------------------------------
(* The filter of a serving process builds NewEIP155Signer(config.ChainID) *)
(* for the from rule.  The signer runs on a curve of P-256's form over the *)
(* prime 23 (b = 15, 17 points, generator (1, 6)); a digest is the payload *)
(* plus the chain id, left unreduced modulo 17.                            *)
MCDigest(pl, c) == pl + c

Sig == INSTANCE Signer
         WITH P <- 23, B <- 15, N <- 17, Gx <- 1, Gy <- 6,
              Payloads <- 0..16, Digest <- MCDigest

ServedChainIDs == {n.networkId : n \in NodeAnswers} \ {Nil}

(* Each chain id's check, evaluated once. *)
SignerSound == [c \in ServedChainIDs |-> Sig!SenderRecoversSigner(c)]

(* For the chain id the server was started with, the from rule attributes *)
(* every legacy transaction signed on that chain to the key that signed   *)
(* it, whatever the key, nonce and digest, and recovers no sender for a    *)
(* dynamic-fee one: Sender's V arithmetic (2c + 8, then 27, as a byte),    *)
(* the lower-s check, the parity of the decompressed R and the recovery    *)
(* r^-1 (sR - eG) must agree with how the transaction was signed.          *)
ServedSenderRecovered == stage = "serving" => SignerSound[config.ChainID]

=============================================================================
