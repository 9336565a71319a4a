\* A locally answered batch that holds a soft-admitted (211) transaction.
CONSTANTS
  NoAddr = NoAddr
  ZeroAddr = ZeroAddr
  ZeroHash = ZeroHash
  RecoverErr = RecoverErr
  Nil = Nil
  NoRow = NoRow
  BadHex = BadHex
  UpstreamErr = UpstreamErr
  BadParam = BadParam
  NoId = NoId
  a1 = a1
  a2 = a2
  a3 = a3
  a4 = a4
  h1 = h1
  h2 = h2
  r1 = r1
  r2 = r2
  Reqs = {r1}
  TxChanMax = 1
  Accounts <- MCAccounts
  LuaScript <- MCLuaScript
  Configs <- NotifyingConfigs
  Requests <- TxRequests
  GasSuggestions <- MCGasSuggestions

SPECIFICATION Spec
INVARIANT
  BatchReplyAligned
