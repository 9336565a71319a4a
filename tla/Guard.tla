------------------------------- MODULE Guard --------------------------------
(***************************************************************************)
(* The proxy as a whole: Server.ServeHTTP (server/server.go) handling      *)
(* concurrent requests, Filter.HandleJSONRequest with its single and batch *)
(* paths (filter/batch.go), the relay to the upstream chosen by the scheme *)
(* of RawURL, and the notify publisher (Notify) they all share.            *)
(*                                                                         *)
(* Each request r is one handler goroutine; pc[r] is where it is:          *)
(*   "idle"  not arrived   "serve" in ServeHTTP before the filter          *)
(*   "batch" in the loop of checkJSONBatchRequest at message loop[r].idx   *)
(*   "relay" handed to the reverse proxy or the IPC relay   "done"         *)
(*   "blocked" in the IPC read loop for good (the IPCRelay module, ipc_hang) *)
(* A request is [method, json, declared, large, body]: json is a          *)
(* Content-Type of application/json, declared that ContentLength is known *)
(* (not chunked), large that the body exceeds MaxRequestContentLength,     *)
(* cut that the client stops sending before the body is complete, so    *)
(* ioutil.ReadAll fails, and body a record of kind "empty", "invalid"      *)
(* (not JSON) or "json" with [batch, msgs].                                *)
(***************************************************************************)
EXTENDS Filter, Notify, FiniteSets

CONSTANTS
  Reqs,            \* the handler goroutines
  Configs,         \* the params.Config snapshots the server may run with
  Requests,        \* the HTTP requests a client may send
  GasSuggestions,  \* what the upstream may suggest as gas price or tip
  NoId             \* json.RawMessage{}: the id of a server-level error

VARIABLES
  config,    \* the read-only params.Config
  pc,        \* [Reqs -> stage of the handler]
  req,       \* [Reqs -> the request it serves]
  loop,      \* [Reqs -> [idx, resList, statusList, requestError]]
  resp,      \* [Reqs -> what the client received, or NoReply]
  upstream,  \* the requests whose body reached the upstream node
  checks,    \* [Reqs -> Seq([pos, code, db])]: every checkTransaction
             \* result with the DB answer it saw (history for properties)
  relayed    \* the requests handed to a relay (history for properties)

vars == <<config, pc, req, loop, resp, upstream, checks, relayed, notifyVars>>

HttpError(code) == [kind |-> "http", code |-> code]
EmptyReply      == [kind |-> "empty"]
UpstreamReply   == [kind |-> "upstream"]
BatchReply(l)   == [kind |-> "batch", entries |-> l]
ResetReply      == [kind |-> "reset"]
Proceed         == [kind |-> "proceed"]   \* validateRequest let it through

(* The placeholder request of a handler that has not started. *)
NoRequest == [method |-> "none", json |-> FALSE, declared |-> TRUE, large |-> FALSE,
              cut |-> FALSE, body |-> [kind |-> "empty"]]

Msgs(r)  == req[r].body.msgs
IsJSON(b) == b.kind = "json"

(* The whitelist DB is only asked when it is enabled; the upstream only    *)
(* for the gas short cuts of a single request.                             *)
DBAnswers == IF config.EnableWhitelistDB THEN BOOLEAN ELSE {TRUE}
Suggestions(msg) ==
  IF msg.method \in {GasPrice, MaxPriorityFeePerGas} THEN GasSuggestions ELSE {UpstreamErr}

(* ServeHTTP up to the body read: health probe, then validateRequest. *)
FrontReply(q) ==
  IF q.method = "GET" /\ q.body.kind = "empty" /\ q.declared THEN EmptyReply
  ELSE IF q.method \in {"PUT", "DELETE"} THEN HttpError(405)
  ELSE IF q.declared /\ q.large THEN HttpError(413)
  ELSE IF q.method # "OPTIONS" /\ ~q.json THEN HttpError(415)
  ELSE Proceed

ToRelay(r) ==
  /\ pc' = [pc EXCEPT ![r] = "relay"]
  /\ relayed' = relayed \cup {r}

Finish(r, reply) ==
  /\ resp' = [resp EXCEPT ![r] = reply]
  /\ pc' = [pc EXCEPT ![r] = "done"]
  /\ UNCHANGED relayed

Record(r, pos, o, db) ==
  checks' = IF ~o.checked THEN checks
            ELSE [checks EXCEPT ![r] = Append(@, [pos |-> pos, code |-> o.code, db |-> db])]

(* Mutant of MaybeNotify: AddTx for every checked message, whatever the  *)
(* verdict.                                                                *)
MaybeNotifyAlways(r, pos, notify, cont) ==
  IF AddTxPanics THEN Finish(r, ResetReply) /\ UNCHANGED notifyVars
  ELSE AddTx([req |-> r, pos |-> pos]) /\ cont

(* notify.AddTx when the filter asks for it, and what happens to the      *)
(* handler: cont continues it, a panic in AddTx resets the connection.     *)
MaybeNotify(r, pos, notify, cont) ==
  IF ~notify THEN cont /\ UNCHANGED notifyVars
  ELSE IF AddTxPanics THEN Finish(r, ResetReply) /\ UNCHANGED notifyVars
  ELSE AddTx([req |-> r, pos |-> pos]) /\ cont

------------------------------------------------------------------------------
Receive(r) ==
  /\ pc[r] = "idle"
  /\ \E q \in Requests : req' = [req EXCEPT ![r] = q]
  /\ pc' = [pc EXCEPT ![r] = "serve"]
  /\ UNCHANGED <<config, loop, resp, upstream, checks, relayed, notifyVars>>

(* The single path of HandleJSONRequest: checkJSONRequest, then AddTx, then *)
(* either the guard reply or on to the relay.                              *)
ServeSingle(r) ==
  LET msg == Msgs(r)[1] IN
  \E db \in DBAnswers, sugg \in Suggestions(msg) :
    LET o == CheckJSONRequest(config, msg, db, sugg) IN
    /\ Record(r, 1, o, db)
    /\ MaybeNotify(r, 1, o.notify,
         IF o.forward THEN ToRelay(r) /\ UNCHANGED resp
         ELSE Finish(r, o.reply))
    /\ UNCHANGED <<loop, upstream>>

(* ServeHTTP from the start to the dispatch on the filter's verdict. *)
Serve(r) ==
  LET q == req[r] IN
  /\ pc[r] = "serve"
  /\ \/ /\ FrontReply(q) # Proceed
        /\ Finish(r, FrontReply(q))
        /\ UNCHANGED <<loop, upstream, checks, notifyVars>>
     \/ /\ FrontReply(q) = Proceed
        /\ IF q.cut
           THEN Finish(r, ErrorReply(NoId, Status.ReadBodyError))
                /\ UNCHANGED <<loop, upstream, checks, notifyVars>>
           ELSE IF q.method = "OPTIONS"
           THEN ToRelay(r)
                /\ UNCHANGED <<loop, resp, upstream, checks, notifyVars>>
           ELSE IF ~IsJSON(q.body)
           THEN Finish(r, ErrorReply(NoId, Status.InternalError))
                /\ UNCHANGED <<loop, upstream, checks, notifyVars>>
           ELSE IF q.body.batch
           THEN /\ pc' = [pc EXCEPT ![r] = "batch"]
                /\ loop' = [loop EXCEPT ![r] = [idx |-> 1, resList |-> <<>>,
                                                statusList |-> <<>>, requestError |-> FALSE]]
                /\ UNCHANGED <<resp, upstream, checks, relayed, notifyVars>>
           ELSE ServeSingle(r)
  /\ UNCHANGED <<config, req>>

(* One iteration of the loop of checkJSONBatchRequest. *)
BatchStep(r) ==
  LET l   == loop[r]
      msg == Msgs(r)[l.idx]
  IN
  /\ pc[r] = "batch"
  /\ l.idx <= Len(Msgs(r))
  /\ \E db \in DBAnswers :
     LET o == BatchItem(config, msg, db)
         l2 == [idx |-> l.idx + 1,
                resList |-> IF o.appended THEN Append(l.resList, o.entry) ELSE l.resList,
                statusList |-> IF o.appended THEN Append(l.statusList, o.status) ELSE l.statusList,
                requestError |-> l.requestError \/ o.error]
     IN
     /\ Record(r, l.idx, o, db)
     /\ loop' = [loop EXCEPT ![r] = l2]
     /\ MaybeNotify(r, l.idx, o.notify, UNCHANGED <<pc, resp, relayed>>)
  /\ UNCHANGED <<config, req, upstream>>

(* Mutant of BatchEnd: requestError ignored, every batch relayed. *)
BatchEndIgnoringError(r) ==
  /\ pc[r] = "batch"
  /\ loop[r].idx > Len(Msgs(r))
  /\ ToRelay(r) /\ UNCHANGED resp
  /\ UNCHANGED <<config, req, loop, upstream, checks, notifyVars>>

(* The end of checkJSONBatchRequest and the batch branch of              *)
(* HandleJSONRequest: any failed item makes the whole batch a local reply. *)
BatchEnd(r) ==
  /\ pc[r] = "batch"
  /\ loop[r].idx > Len(Msgs(r))
  /\ IF loop[r].requestError
     THEN Finish(r, BatchReply(loop[r].resList))
     ELSE ToRelay(r) /\ UNCHANGED resp
  /\ UNCHANGED <<config, req, loop, upstream, checks, notifyVars>>

(* The reverse proxy of the http(s) case: the node answers, or it is     *)
(* unreachable and the proxy writes 502.                                   *)
HTTPRelay(r) ==
  /\ config.Scheme \in {"http", "https"}
  /\ \/ Finish(r, UpstreamReply) /\ upstream' = upstream \cup {r}
     \/ Finish(r, HttpError(502)) /\ UNCHANGED upstream

(* IPCServer.ServeHTTP for the empty scheme: dial fails (434), write fails *)
(* (435), the node answers, a read fails after the body was delivered     *)
(* (436), or the reply ends in a read of the newline alone, which the      *)
(* n > 1 test does not take for the end, and conn.Read blocks while the    *)
(* node keeps the connection (ipcproxy.go 60-82; IPCRelay's RelayEnds).    *)
IPCRelay(r) ==
  /\ config.Scheme = ""
  /\ \/ Finish(r, ErrorReply(NoId, Status.IPCDialError)) /\ UNCHANGED upstream
     \/ Finish(r, ErrorReply(NoId, Status.IPCWriteError)) /\ UNCHANGED upstream
     \/ Finish(r, UpstreamReply) /\ upstream' = upstream \cup {r}
     \/ Finish(r, ErrorReply(NoId, Status.IPCReadError)) /\ upstream' = upstream \cup {r}
     \/ /\ pc' = [pc EXCEPT ![r] = "blocked"]
        /\ upstream' = upstream \cup {r}
        /\ UNCHANGED <<resp, relayed>>

(* Any other scheme falls through the switch of ServeHTTP: nothing is      *)
(* written and net/http sends an empty 200.                                *)
NoRelay(r) ==
  /\ config.Scheme \notin {"http", "https", ""}
  /\ Finish(r, EmptyReply) /\ UNCHANGED upstream

(* The dispatch on u.Scheme at the end of ServeHTTP. *)
Relay(r) ==
  /\ pc[r] = "relay"
  /\ HTTPRelay(r) \/ IPCRelay(r) \/ NoRelay(r)
  /\ UNCHANGED <<config, req, loop, checks, notifyVars>>

(* InitAndRunNotifyClient and Run, the goroutine beside the handlers. *)
NotifyStep == SetLogger \/ Connect \/ Publish

(* All bounded requests served: the server waits for the next one.  The   *)
(* notify goroutine is not required to be idle; its progress is a         *)
(* liveness question (QueueDrains).                                        *)
Quiescent ==
  /\ \A r \in Reqs : pc[r] \in {"done", "blocked"}
  /\ UNCHANGED vars

Init ==
  /\ config \in Configs
  /\ pc = [r \in Reqs |-> "idle"]
  /\ req = [r \in Reqs |-> NoRequest]
  /\ loop = [r \in Reqs |-> [idx |-> 0, resList |-> <<>>, statusList |-> <<>>,
                             requestError |-> FALSE]]
  /\ resp = [r \in Reqs |-> NoReply]
  /\ upstream = {}
  /\ checks = [r \in Reqs |-> <<>>]
  /\ relayed = {}
  /\ NotifyInit(config.EnableActiveMQ)

Next ==
  \/ \E r \in Reqs : Receive(r) \/ Serve(r) \/ BatchStep(r) \/ BatchEnd(r) \/ Relay(r)
  \/ NotifyStep /\ UNCHANGED <<config, pc, req, loop, resp, upstream, checks, relayed>>
  \/ Quiescent

(* Handlers run to completion once a request has arrived (net/http runs  *)
(* each in its own goroutine); the notify goroutine keeps running; a       *)
(* client is never obliged to send.                                        *)
Fairness ==
  /\ \A r \in Reqs : WF_vars(Serve(r) \/ BatchStep(r) \/ BatchEnd(r) \/ Relay(r))
  /\ WF_vars(NotifyStep /\ UNCHANGED <<config, pc, req, loop, resp, upstream, checks, relayed>>)

Spec == Init /\ [][Next]_vars /\ Fairness

------------------------------------------------------------------------------
(***************************************************************************)
(* Properties.                                                             *)
(***************************************************************************)
LOCAL SeqX == INSTANCE SequencesExt

TypeOK ==
  /\ config \in Configs
  /\ pc \in [Reqs -> {"idle", "serve", "batch", "relay", "done", "blocked"}]
  /\ \A r \in Reqs : pc[r] # "idle" => req[r] \in Requests
  /\ upstream \subseteq Reqs
  /\ \A r \in Reqs : resp[r] = NoReply <=> pc[r] # "done"
  /\ boot \in {"off", "start", "connecting", "running", "failed"}
  /\ Len(queue) <= TxChanMax
  /\ \A i \in 1..Len(queue) : queue[i].req \in Reqs

(* Section 4.4 of the spec as a reference: the rules as an ordered list of *)
(* <<violated, status>> pairs, the answer being the status of the first   *)
(* violated one, else 211 when the value is over the maximum, else 200.   *)
(* The script sees the P-256 sender (section 4.3) when from-checking.     *)
SpecStatus(cfg, tx, db) ==
  LET from      == SenderP256(tx)
      checkFrom == cfg.EnableWhitelistDB \/ cfg.FromBlackList # {}
      script    == IF ~cfg.EnableFromCheck THEN CheckTx(tx.hash, NoAddr, tx.to)
                   ELSE IF from = RecoverErr THEN Status.SignatureVerifyFailed
                   ELSE IF from = ZeroAddr THEN Status.EmptyFromAddress
                   ELSE CheckTx(tx.hash, from, tx.to)
      listed    == from \in DOMAIN Accounts /\ from \in cfg.FromBlackList
      unlisted  == from \in DOMAIN Accounts /\ cfg.EnableWhitelistDB
                   /\ (tx.to = NoAddr \/ ~IsWhitelistTx(db, from, tx.to))
      rules == << <<tx.chainId # cfg.ChainID, 422>>,
                  <<OutOfBounds(tx.gasPrice, cfg.MinGasPriceInWEI, cfg.MaxGasPriceInWEI), 424>>,
                  <<OutOfBounds(GasTipCap(tx), cfg.MinGasTipCapInWEI, cfg.MaxGasTipCapInWEI), 424>>,
                  <<tx.gas < cfg.MinGasLimit, 418>>,
                  <<cfg.EnableMaxGasLimitVerify /\ tx.gas > cfg.MaxGasLimit, 418>>,
                  <<cfg.EnableLuaFilter, script>>,
                  <<tx.to = NoAddr /\ cfg.DisableContractCreate, 419>>,
                  <<tx.to \in cfg.ToBlackList, 428>>,
                  <<tx.value > cfg.MaxValueInWEI /\ cfg.EnableMaxValueVerify, 433>>,
                  <<cfg.TxHashBlackList # {} /\ tx.hash = ZeroHash, 426>>,
                  <<tx.hash \in cfg.TxHashBlackList, 427>>,
                  <<checkFrom /\ from = RecoverErr, 423>>,
                  <<checkFrom /\ from = ZeroAddr, 421>>,
                  <<listed, 420>>,
                  <<unlisted, 420>> >>
      first == SeqX!SelectInSeq(rules, LAMBDA rule : rule[1])
  IN IF first = 0 THEN (IF tx.value > cfg.MaxValueInWEI THEN 211 ELSE 200)
     ELSE rules[first][2]

(* Rule ordering (checkTransaction and checkJSONRequest): every            *)
(* transaction the filter checks gets the status of the first rule of the  *)
(* spec it violates, and a single request whose transaction is refused is *)
(* answered with exactly that status under its own id.                     *)
RuleOrdering ==
  \A r \in Reqs : \A i \in 1..Len(checks[r]) :
    LET c    == checks[r][i]
        msg  == Msgs(r)[c.pos]
        want == SpecStatus(config, msg.param, c.db)
    IN /\ c.code = want
       /\ (~req[r].body.batch /\ pc[r] = "done" /\ want \notin Admitted)
          => resp[r] = ErrorReply(msg.id, want)

(* Gas clamping (the eth_gasPrice / eth_maxPriorityFeePerGas short cut):  *)
(* a result the guard answers by itself lies within the configured         *)
(* [min, max] of the method asked, whatever the upstream suggested or     *)
(* whether it answered at all.                                             *)
GasReplyInBounds ==
  \A r \in Reqs :
    resp[r].kind = "result" =>
      LET m   == Msgs(r)[1].method
          min == IF m = GasPrice THEN config.MinGasPriceInWEI ELSE config.MinGasTipCapInWEI
          max == IF m = GasPrice THEN config.MaxGasPriceInWEI ELSE config.MaxGasTipCapInWEI
      IN min <= resp[r].value /\ (max = Nil \/ resp[r].value <= max)

(* The transactions handed to notify.AddTx, whatever became of them. *)
Notified == SeqX!Range(queue) \cup SeqX!Range(published) \cup dropped

(* The statuses section 4.4 lets through: 200 and the soft 211. *)
SpecAdmitted == {200, 211}

(* Whether message i of request r was checked and let through. *)
CheckedAdmitted(r, i) ==
  \E j \in 1..Len(checks[r]) : checks[r][j].pos = i /\ checks[r][j].code \in SpecAdmitted

(* Only vetted bodies reach the node (ServeHTTP with HandleJSONRequest,    *)
(* checkJSONRequest and checkJSONBatchRequest): a JSON body that was       *)
(* relayed upstream had every eth_sendRawTransaction message in it checked *)
(* and admitted, in a single request as in a batch.                        *)
UpstreamOnlyAdmitted ==
  \A r \in upstream :
    IsJSON(req[r].body) =>
      \A i \in 1..Len(Msgs(r)) : Msgs(r)[i].method = SendRawTransaction => CheckedAdmitted(r, i)

(* Only admitted transactions are published (the AddTx calls of           *)
(* checkJSONRequest and checkJSONBatchRequest): every raw transaction      *)
(* queued, published or dropped by package notify belongs to a message    *)
(* of its request that checkTransaction admitted.                          *)
NotifiedOnlyAdmitted ==
  \A it \in Notified : CheckedAdmitted(it.req, it.pos)

(* The publisher drains txCh (Run ranging over the channel): a queued     *)
(* transaction is eventually published.                                    *)
Positions == UNION {DOMAIN q.body.msgs : q \in {q \in Requests : IsJSON(q.body)}}
QueueDrains ==
  \A r \in Reqs, i \in Positions :
    LET it == [req |-> r, pos |-> i] IN
    it \in SeqX!Range(queue) ~> it \in SeqX!Range(published)

(* Every request is answered whatever the notify goroutine does, unless  *)
(* its IPC relay blocks in conn.Read (the hang ipc_hang exhibits):         *)
(* ServeHTTP calls AddTx on the request path, and its select with a       *)
(* default case (notify.go 75-81) drops the item instead of waiting, while *)
(* newClient is still waiting for the broker, after it failed for good    *)
(* with txCh left nil (notify.go 37-41), or with txCh full.                *)
RequestsAnswered == \A r \in Reqs : pc[r] # "idle" ~> pc[r] \in {"done", "blocked"}

------------------------------------------------------------------------------
(***************************************************************************)
(* Claims of the spec that the code does not keep; each is checked by a   *)
(* run that expects a violation.                                           *)
(***************************************************************************)

(* Section 3, "Batch order & length": a batch answered locally has one     *)
(* entry per message, in order, each with the id of its message.  The     *)
(* 211 branch of checkJSONBatchRequest appends nothing to resList.         *)
BatchReplyAligned ==
  \A r \in Reqs :
    resp[r].kind = "batch" =>
      /\ Len(resp[r].entries) = Len(Msgs(r))
      /\ \A i \in 1..Len(Msgs(r)) : resp[r].entries[i].id = Msgs(r)[i].id

(* Section 2, "on accept, dispatches to the relay ... enqueues admitted   *)
(* raw transactions": when a request is relayed, every transaction in it  *)
(* that the filter admitted is handed to notify.                          *)
(* The 200 branch of checkJSONBatchRequest continues before AddTx.         *)
AdmittedTxNotified ==
  config.EnableActiveMQ =>
    \A r \in relayed : \A i \in 1..Len(Msgs(r)) :
      CheckedAdmitted(r, i) => \E it \in Notified : it = [req |-> r, pos |-> i]

(* Section 6, "max 131072 bytes": a body over MaxRequestContentLength is   *)
(* refused with 413.  validateRequest compares r.ContentLength, which is   *)
(* -1 for a chunked body, so an undeclared large body is served.           *)
BodyLimitEnforced ==
  \A r \in Reqs : (pc[r] = "done" /\ req[r].large) => resp[r] = HttpError(413)

(* Section 7, "Script and DB errors ... never panic", and section 4.8,    *)
(* "producers drop the new item and log a warning": AddTx never panics.   *)
(* Its default case calls Logger.Warnln, and Logger is nil until the      *)
(* notify goroutine has run its first statement.                          *)
AddTxNeverPanics ==
  \A r \in Reqs : resp[r] # ResetReply
=============================================================================
