\* The server command over every group of settings and node answers.
CONSTANTS
  Nil = Nil
  BadEntry = BadEntry
  Width = 16
  MinTxGas = 21000
  WeiPerNEW = 10
  DefaultChainID = 16888
  Settings <- MCSettings
  Unset <- MCUnset
  NodeAnswers <- MCNodeAnswers

SPECIFICATION Spec
INVARIANTS
  TypeOK
  ServesValidConfig
  ServedSenderRecovered
  UnreadConfigFailsClosed
