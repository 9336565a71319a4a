\* Two handlers sharing the notify publisher (txCh of capacity 1) with its
\* goroutine still starting, over every path of ServeHTTP and every relay.
CONSTANTS
  NoAddr = NoAddr
  ZeroAddr = ZeroAddr
  ZeroHash = ZeroHash
  RecoverErr = RecoverErr
  Nil = Nil
  NoRow = NoRow
  BadHex = BadHex
  UpstreamErr = UpstreamErr
  BadParam = BadParam
  NoId = NoId
  a1 = a1
  a2 = a2
  a3 = a3
  a4 = a4
  h1 = h1
  h2 = h2
  r1 = r1
  r2 = r2
  Reqs = {r1, r2}
  TxChanMax = 1
  Accounts <- MCAccounts
  LuaScript <- MCLuaScript
  Configs <- ServerConfigs
  Requests <- ConcRequests
  GasSuggestions <- MCGasSuggestions

SPECIFICATION Spec
INVARIANTS
  
  UpstreamOnlyAdmitted
  NotifiedOnlyAdmitted
PROPERTIES
  QueueDrains
  RequestsAnswered
