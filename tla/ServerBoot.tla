----------------------------- MODULE ServerBoot -----------------------------
(***************************************************************************)
(* The `server` command (src/cli/server.go) and loadParamsConfig           *)
(* (src/cli/config.go) that builds the policy configuration from the       *)
(* viper settings, starting from params.DefaultConfig.                     *)
(*                                                                         *)
(* A setting is a record of what viper returns for each key; Nil is a key *)
(* that is not set.  The node answers Dial and NetworkID.  Gas limits are uint64 in the code; here they *)
(* are Width-bit words, with Width large enough to hold the 21000 floor,  *)
(* so that uint64(int64) of a negative setting wraps as it does in Go.    *)
(* Big integers (prices, values) do not overflow and stay integers.       *)
(***************************************************************************)
EXTENDS Integers

CONSTANTS
  Nil,          \* a key that is not set, a nil *big.Int
  BadEntry,     \* a blacklist entry that does not parse as hex
  Width,        \* bits of the uint64 gas limits
  MinTxGas,     \* 21000, the floor of both gas limits
  WeiPerNEW,    \* params.Big1NEW
  DefaultChainID,
  Settings,     \* the settings a config file may hold
  Unset,        \* the viper settings with no config file: every key unset
  NodeAnswers   \* what the node at rpcURL answers

ASSUME MinTxGas < 2^Width

VARIABLES
  settings,     \* the viper settings (the file's, until setup reads it)
  configFile,   \* the file at --config: "read", "missing" or "malformed"
  node,         \* the node's answers
  stage,        \* "setup", "init", "serving" or "exited"
  config,       \* the params.Config the server runs with, or Nil
  notifyQoS,    \* notify.QoS
  notifyStarted,\* the InitAndRunNotifyClient goroutine was started
  ipRate,       \* the tollbooth limiter's rate, or Nil without a limiter
  tls           \* ListenAndServeTLS rather than ListenAndServe

vars == <<settings, configFile, node, stage, config, notifyQoS, notifyStarted, ipRate, tls>>

(* uint64(x) of an int64 x. *)
U64(x) == x % (2^Width)
U64Max == 2^Width - 1

(* params.DefaultConfig, the fields the policy reads. *)
DefaultConfig ==
  [RawURL |-> "https", MethodWhiteList |-> {}, FromBlackList |-> {},
   ToBlackList |-> {}, TxHashBlackList |-> {}, DisableContractCreate |-> FALSE,
   EnableMaxValueVerify |-> FALSE, MaxValueInWEI |-> 1000000 * WeiPerNEW,
   EnableMaxGasLimitVerify |-> FALSE, MaxGasLimit |-> 0, MinGasLimit |-> MinTxGas,
   MinGasPriceInWEI |-> 1, MaxGasPriceInWEI |-> Nil,
   MinGasTipCapInWEI |-> 0, MaxGasTipCapInWEI |-> Nil,
   ChainID |-> DefaultChainID, EnableActiveMQ |-> FALSE,
   EnableWhitelistDB |-> FALSE, WhitelistDBAdapterName |-> "",
   EnableLuaFilter |-> FALSE, LuaFile |-> "", LuaCallFunctionName |-> "",
   EnableFromCheck |-> FALSE]

(* A blacklist file setting: Nil, or [readable, entries].  It loads when  *)
(* the file reads and every entry parses; an empty list keeps the default. *)
ListFails(f) == f # Nil /\ (~f.readable \/ BadEntry \in f.entries)
ListValue(f, default) ==
  IF f = Nil \/ f.entries = {} THEN default ELSE f.entries

(* A max limit: MaxGasLimit is read and clamped only when its check is on. *)
MaxGasLimitOf(s) ==
  IF s.EnableMaxGasLimitVerify
    THEN IF U64(s.MaxGasLimit) < MinTxGas THEN MinTxGas ELSE U64(s.MaxGasLimit)
    ELSE DefaultConfig.MaxGasLimit

MinGasLimitOf(s) ==
  IF U64(s.MinGasLimit) < MinTxGas THEN MinTxGas ELSE U64(s.MinGasLimit)

(* A min bound: set and non-negative, else the default.  A max bound: set *)
(* and non-negative, else nil.                                             *)
MinBound(v, default) == IF v # Nil /\ v >= 0 THEN v ELSE default
MaxBound(v) == IF v # Nil /\ v >= 0 THEN v ELSE Nil
Inverted(min, max) == max # Nil /\ max < min

(* The config loadParamsConfig builds from the settings s and the node n. *)
Loaded(s, n) ==
  [DefaultConfig EXCEPT
     !.RawURL = IF s.rpcURL # "" THEN s.rpcURL ELSE @,
     !.ChainID = n.networkId,
     !.MethodWhiteList = IF s.MethodWhitelist # {} THEN s.MethodWhitelist ELSE @,
     !.FromBlackList = ListValue(s.FromBlacklistConfig, @),
     !.ToBlackList = ListValue(s.ToBlacklistConfig, @),
     !.TxHashBlackList = ListValue(s.TxHashBlackListConfig, @),
     !.DisableContractCreate = s.DisableContractCreate,
     !.EnableMaxValueVerify = s.EnableMaxValueVerify,
     !.MaxValueInWEI = IF s.MaxValueInNEW > 0 THEN s.MaxValueInNEW * WeiPerNEW ELSE @,
     !.EnableMaxGasLimitVerify = s.EnableMaxGasLimitVerify,
     !.MaxGasLimit = MaxGasLimitOf(s),
     !.MinGasLimit = MinGasLimitOf(s),
     !.MinGasPriceInWEI = MinBound(s.MinGasPriceInWEI, 1),
     !.MaxGasPriceInWEI = MaxBound(s.MaxGasPriceInWEI),
     !.MinGasTipCapInWEI = MinBound(s.MinGasTipCapInWEI, 0),
     !.MaxGasTipCapInWEI = MaxBound(s.MaxGasTipCapInWEI),
     !.EnableActiveMQ = s.EnableActiveMQ,
     !.EnableWhitelistDB = s.EnableWhitelistDB,
     !.WhitelistDBAdapterName = IF s.EnableWhitelistDB THEN s.dbAdapter ELSE @,
     !.EnableLuaFilter = s.EnableLuaFilter,
     !.LuaFile = IF s.EnableLuaFilter THEN s.LuaFile ELSE @,
     !.LuaCallFunctionName = IF s.EnableLuaFilter THEN s.LuaCallFunctionName ELSE @,
     !.EnableFromCheck = IF s.EnableLuaFilter THEN s.EnableFromCheck ELSE @]

(* Mutant of LoadError: the GasPrice max-less-than-min check left out. *)
LoadErrorNoPriceCheck(s, n) ==
  CASE ~n.dial                                        -> "dial"
    [] n.networkId = Nil                              -> "networkId"
    [] ListFails(s.FromBlacklistConfig)               -> "fromBlacklist"
    [] ListFails(s.ToBlacklistConfig)                 -> "toBlacklist"
    [] ListFails(s.TxHashBlackListConfig)             -> "txHashBlacklist"
    [] Inverted(Loaded(s, n).MinGasTipCapInWEI, Loaded(s, n).MaxGasTipCapInWEI) -> "gasTipCap"
    [] s.EnableWhitelistDB /\ s.dbAdapter = ""        -> "dbAdapter"
    [] s.EnableLuaFilter /\ s.LuaFile = ""            -> "luaFileUnset"
    [] s.EnableLuaFilter /\ ~s.luaFileExists          -> "luaFileMissing"
    [] s.EnableLuaFilter /\ s.LuaCallFunctionName = "" -> "luaFunctionUnset"
    [] OTHER                                          -> Nil

(* The error loadParamsConfig returns first, in the order of its checks, *)
(* or Nil.                                                                 *)
LoadError(s, n) ==
  LET c == Loaded(s, n) IN
  CASE ~n.dial                                        -> "dial"
    [] n.networkId = Nil                              -> "networkId"
    [] ListFails(s.FromBlacklistConfig)               -> "fromBlacklist"
    [] ListFails(s.ToBlacklistConfig)                 -> "toBlacklist"
    [] ListFails(s.TxHashBlackListConfig)             -> "txHashBlacklist"
    [] Inverted(c.MinGasPriceInWEI, c.MaxGasPriceInWEI)   -> "gasPrice"
    [] Inverted(c.MinGasTipCapInWEI, c.MaxGasTipCapInWEI) -> "gasTipCap"
    [] s.EnableWhitelistDB /\ s.dbAdapter = ""        -> "dbAdapter"
    [] s.EnableLuaFilter /\ s.LuaFile = ""            -> "luaFileUnset"
    [] s.EnableLuaFilter /\ ~s.luaFileExists          -> "luaFileMissing"
    [] s.EnableLuaFilter /\ s.LuaCallFunctionName = "" -> "luaFunctionUnset"
    [] OTHER                                          -> Nil

(* notify.QoS after the command: ActiveMQ.QoS when set to 0, 1 or 2, 1    *)
(* when unset, and the package default 1 otherwise.                       *)
QoSOf(s) ==
  IF s.qos = Nil THEN 1 ELSE IF s.qos \in 0..2 THEN s.qos ELSE 1

(* Mutant of IPRateOf: only a negative rate is replaced. *)
IPRateOfNegativeOnly(s) == IF s.IPRate < 0 THEN 1000 ELSE s.IPRate

(* The IPRate of the limiter: a non-positive rate means 1000. *)
IPRateOf(s) == IF s.IPRate <= 0 THEN 1000 ELSE s.IPRate

Init ==
  /\ settings \in Settings
  /\ configFile \in {"read", "missing", "malformed"}
  /\ node \in NodeAnswers
  /\ stage = "setup"
  /\ config = Nil
  /\ notifyQoS = 1
  /\ notifyStarted = FALSE
  /\ ipRate = Nil
  /\ tls = FALSE

(* Mutant of SettingsAfterSetup: what a malformed file held is kept.       *)
SettingsAfterSetupKeepsFile(file, s) == s

(* setupConfig: viper reads the file at the --config path when os.Stat    *)
(* finds it; a ReadInConfig error is printed and dropped, and a missing   *)
(* file is ignored, so viper is left with the flags alone.                *)
SettingsAfterSetup(file, s) == IF file = "read" THEN s ELSE Unset

(* cli.setup, cobra's PersistentPreRun: setupConfig always returns nil, so *)
(* the process never exits here and the command runs.                     *)
Setup ==
  /\ stage = "setup"
  /\ settings' = SettingsAfterSetup(configFile, settings)
  /\ stage' = "init"
  /\ UNCHANGED <<configFile, node, config, notifyQoS, notifyStarted, ipRate, tls>>

(* The Run function of the server command: the log level, the config, the *)
(* notify settings and goroutine, the routes and the listener.  It returns *)
(* (the process exits) on the first error.                                 *)
Run ==
  /\ stage = "init"
  /\ LET s == settings
         fails == s.LogLevel = "bogus" \/ LoadError(s, node) # Nil
     IN IF fails
          THEN /\ stage' = "exited"
               /\ UNCHANGED <<config, notifyQoS, notifyStarted, ipRate, tls>>
          ELSE /\ config' = Loaded(s, node)
               /\ notifyQoS' = IF s.EnableActiveMQ THEN QoSOf(s) ELSE notifyQoS
               /\ notifyStarted' = s.EnableActiveMQ
               /\ ipRate' = IF s.EnableIPRateLimit THEN IPRateOf(s) ELSE Nil
               /\ tls' = s.sslConfigured
               /\ stage' = IF s.listenOk THEN "serving" ELSE "exited"
  /\ UNCHANGED <<settings, configFile, node>>

(* The process serves until it is stopped, or has exited. *)
Stopped ==
  /\ stage \in {"serving", "exited"}
  /\ UNCHANGED vars

Next == Setup \/ Run \/ Stopped

Spec == Init /\ [][Next]_vars /\ WF_vars(Setup) /\ WF_vars(Run)

-----------------------------------------------------------------------------
TypeOK ==
  /\ stage \in {"setup", "init", "serving", "exited"}
  /\ configFile \in {"read", "missing", "malformed"}
  /\ config = Nil \/ /\ config.MinGasLimit \in 0..U64Max
                     /\ config.MaxGasLimit \in 0..U64Max
  /\ notifyQoS \in 0..255
  /\ notifyStarted \in BOOLEAN /\ tls \in BOOLEAN
  /\ ipRate = Nil \/ ipRate \in Nat \ {0}

(* A server that serves runs with the invariants section 3 of spec.md     *)
(* states of Config: both gas limits at least 21000, gas price and tip     *)
(* maxima not below their minima, the Lua hook and the whitelist DB fully  *)
(* configured, and a notify QoS MQTT accepts.  loadParamsConfig and the    *)
(* server command must reject every setting that breaks one, whatever      *)
(* defaults and negative values it falls back on.                          *)
ServesValidConfig ==
  stage = "serving" =>
    /\ config.MinGasLimit >= MinTxGas
    /\ config.EnableMaxGasLimitVerify => config.MaxGasLimit >= MinTxGas
    /\ ~Inverted(config.MinGasPriceInWEI, config.MaxGasPriceInWEI)
    /\ ~Inverted(config.MinGasTipCapInWEI, config.MaxGasTipCapInWEI)
    /\ config.EnableLuaFilter =>
         config.LuaFile # "" /\ settings.luaFileExists /\ config.LuaCallFunctionName # ""
    /\ config.EnableWhitelistDB => config.WhitelistDBAdapterName # ""
    /\ notifyStarted => notifyQoS \in 0..2

(* A config file that is missing or does not parse is not fatal: setup    *)
(* returns nil and the server starts from params.DefaultConfig and the     *)
(* flags.  Such a server must fail closed: with no method whitelisted, the *)
(* method gate refuses every JSON-RPC message (415), so no blacklist, gas  *)
(* bound or hook the file would have set can be missed.                    *)
UnreadConfigFailsClosed ==
  stage = "serving" /\ configFile # "read" => config.MethodWhiteList = {}

=============================================================================
