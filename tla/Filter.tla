------------------------------- MODULE Filter -------------------------------
(***************************************************************************)
(* The per-message part of package filter: checkJSONRequest (one JSON-RPC  *)
(* message) and one iteration of the loop of checkJSONBatchRequest.  Both  *)
(* are pure: they return what the code writes to the client, the status it *)
(* records, whether it hands the raw transaction to notify.AddTx and       *)
(* whether the message lets the request through to the relay.              *)
(*                                                                         *)
(* A message is [id, method, param]: method is the sequence of the parts   *)
(* strings.Split(method, "_") yields, so <<"eth", "gasPrice">> stands for  *)
(* "eth_gasPrice"; param is the decoded transaction of an                  *)
(* eth_sendRawTransaction or BadParam when decodeRawTransaction or         *)
(* decodeTransaction fails.                                                *)
(***************************************************************************)
EXTENDS Policy, Sequences

CONSTANTS BadParam

SendRawTransaction   == <<"eth", "sendRawTransaction">>
GasPrice             == <<"eth", "gasPrice">>
MaxPriorityFeePerGas == <<"eth", "maxPriorityFeePerGas">>

(* decodeRawTransaction then decodeTransaction: params must be a one-     *)
(* string array whose hex decodes to a non-empty binary transaction.       *)
DecodesTransaction(msg) == msg.param # BadParam

(* The envelopes written to the client: LogAndResponseJSONError for an     *)
(* error, JSONSuccessResponse with a result, and a batch array of them.    *)
ErrorReply(id, code)    == [kind |-> "error", id |-> id, code |-> code]
ResultReply(id, value)  == [kind |-> "result", id |-> id, value |-> value]
NoReply                 == [kind |-> "none"]

(* Filter.inWhitelistMethod: a lookup in the config's method set. *)
inWhitelistMethod(cfg, method) == method \in cfg.MethodWhiteList

(* The two gates every message passes first: exactly one "_" separator    *)
(* (431), then membership of the method whitelist (415).                   *)
MethodGate(cfg, msg) ==
  IF Len(msg.method) # 2 THEN Status.MethodNotAllowed
  ELSE IF ~inWhitelistMethod(cfg, msg.method) THEN Status.MethodNotWhitelist
  ELSE Status.OK

(* The error values of package params.  statusError holds one for the    *)
(* statuses listed here; GetStatusError of any other status is a nil error *)
(* (a missing map key), which a caller cannot tell from success.            *)
NilError == [err |-> "nil"]
StatusErrorCodes == {211} \cup (410..425) \cup (429..436) \cup {440, 441, 442, 500}
GetStatusError(s) ==
  IF s \in StatusErrorCodes THEN [err |-> "status", status |-> s] ELSE NilError
ErrorGuard == [err |-> "guard"]
ErrorInternalError == GetStatusError(Status.InternalError)

(* What one message check does: reply is the envelope written to the      *)
(* client or NoReply, err the error the function returns (the request goes *)
(* on to the relay only when it is nil), notify when notify.AddTx is       *)
(* called, and code the status checkTransaction returned when checked.     *)
Outcome(reply, err, notify, checked, code) ==
  [reply |-> reply, forward |-> err = NilError, notify |-> notify,
   checked |-> checked, code |-> code]

(* checkJSONRequest (batch.go) for the single message of a non-batch      *)
(* request; dbOk is the whitelist DB answer and sugg the upstream gas      *)
(* suggestion this request meets.                                          *)
CheckJSONRequest(cfg, msg, dbOk, sugg) ==
  LET gate == MethodGate(cfg, msg) IN
  IF gate # Status.OK
  THEN Outcome(ErrorReply(msg.id, gate), GetStatusError(gate), FALSE, FALSE, 0)
  ELSE IF msg.method = SendRawTransaction
  THEN IF ~DecodesTransaction(msg)
       THEN Outcome(ErrorReply(msg.id, Status.DecodeTransactionError),
                    GetStatusError(Status.DecodeTransactionError), FALSE, FALSE, 0)
       ELSE LET s == CheckTransaction(cfg, msg.param, dbOk) IN
            IF s \in Admitted THEN Outcome(NoReply, NilError, cfg.EnableActiveMQ, TRUE, s)
            ELSE Outcome(ErrorReply(msg.id, s), ErrorInternalError, FALSE, TRUE, s)
  ELSE IF msg.method = GasPrice
  THEN Outcome(ResultReply(msg.id, ClampSuggestion(sugg, cfg.MinGasPriceInWEI,
                                                   cfg.MaxGasPriceInWEI)), ErrorGuard, FALSE, FALSE, 0)
  ELSE IF msg.method = MaxPriorityFeePerGas
  THEN Outcome(ResultReply(msg.id, ClampSuggestion(sugg, cfg.MinGasTipCapInWEI,
                                                   cfg.MaxGasTipCapInWEI)), ErrorGuard, FALSE, FALSE, 0)
  ELSE Outcome(NoReply, NilError, FALSE, FALSE, 0)

(* One iteration of the loop of checkJSONBatchRequest: entry and status  *)
(* are appended to resList and statusList when appended is TRUE, error is *)
(* TRUE when the iteration sets requestError.  An admitted transaction     *)
(* with status 200 appends a success entry and continues before AddTx;     *)
(* one with the soft status 211 appends nothing to either list and is      *)
(* handed to AddTx.  Gas queries get an empty success entry (result null) *)
(* without asking upstream.                                                *)
BatchItem(cfg, msg, dbOk) ==
  LET Item(entry, appended, error, notify, checked, code) ==
        [entry |-> entry, status |-> IF entry.kind = "error" THEN entry.code ELSE Status.OK,
         appended |-> appended, error |-> error, notify |-> notify,
         checked |-> checked, code |-> code]
      ok   == ResultReply(msg.id, Nil)
      gate == MethodGate(cfg, msg)
  IN
  IF gate # Status.OK THEN Item(ErrorReply(msg.id, gate), TRUE, TRUE, FALSE, FALSE, 0)
  ELSE IF msg.method = SendRawTransaction
  THEN IF ~DecodesTransaction(msg)
       THEN Item(ErrorReply(msg.id, Status.DecodeTransactionError), TRUE, TRUE, FALSE, FALSE, 0)
       ELSE LET s == CheckTransaction(cfg, msg.param, dbOk) IN
            IF s = Status.OK THEN Item(ok, TRUE, FALSE, FALSE, TRUE, s)
            ELSE IF s = Status.ValueTooLarge
                 THEN Item(ok, FALSE, FALSE, cfg.EnableActiveMQ, TRUE, s)
            ELSE Item(ErrorReply(msg.id, s), TRUE, TRUE, FALSE, TRUE, s)
  ELSE Item(ok, TRUE, FALSE, FALSE, FALSE, 0)
=============================================================================
