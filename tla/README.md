# TLA+ models of newchain-guard

newchain-guard is a JSON-RPC policy proxy that sits in front of a NewChain node.
Every HTTP request goes through `Server.ServeHTTP` (`src/server/server.go`):
- the health probe and `validateRequest` (405, 413, 415);
- the body read (429);
- for anything but OPTIONS, `Filter.HandleJSONRequest` (`src/filter/batch.go`), which checks a single message or each message of a batch;
- for each `eth_sendRawTransaction`, `checkTransaction` (`src/filter/filter.go`), which runs the ordered policy rules. The rules consult the Lua hook `CheckTx`, the whitelist database (`isWhitelistTx`, `src/filter/whitelist.go`) and the P-256 signer (`src/filter/signer.go`);
- finally the request is relayed according to the scheme of `RawURL`: the reverse proxy for http(s), the IPC relay (`src/server/ipcproxy.go`) for an empty scheme, nothing otherwise.

Admitted transactions are handed to `notify.AddTx` (`src/notify/notify.go`). It makes a non-blocking send on the process-wide `txCh`. A goroutine started by the `server` command sets `Logger`, connects to the MQTT broker, and only then makes `txCh` and publishes from it.

The handlers run concurrently, one goroutine per request. The only mutable state they share is the notify package: `txCh` and `Logger`. The config is read-only.

## Inventory

| Part | State | Operations | Modelled in |
|---|---|---|---|
| Policy engine | none (reads config) | checkTransaction, CheckTx, isWhitelistTx, Sender (P-256 and London) | `Policy` |
| P-256 signer | none | EIP155Signer.Sender, recoverPlain, Ecrecover, ecRecovery2, decompressPubkey2, ValidateSignatureValues | `Signer`, checked through `MCServerBoot` |
| Whitelist sessions | the DB server's connections | OpenDatabase, isWhitelistTx's session | `WhitelistDB` |
| Message checks | per-request `resList`, `statusList`, `requestError` | checkJSONRequest, one iteration of checkJSONBatchRequest, HandleJSONRequest's verdict | `Filter`, `Guard` (`BatchStep`, `BatchEnd`) |
| Frontend | per-request handler stage | ServeHTTP, validateRequest | `Guard` (`Receive`, `Serve`, `ServeSingle`) |
| Relays | the node | reverse proxy (source not in the repository), IPCServer.ServeHTTP | `Guard` (`HTTPRelay`, `IPCRelay`, `NoRelay`) as one step each, `IPCRelay` with a branch that leaves the handler blocked; `IPCRelay` module for the IPC read loop, refining `IPCStream` |
| Notify publisher | `Logger`, `txCh`, the goroutine | InitAndRunNotifyClient, newClient, Run, AddTx | `Notify`, composed in `Guard` |
| Config loading | `params.Config`, the config file | setupConfig, loadParamsConfig, DefaultConfig | `ServerBoot` (`Setup`, `Loaded`, `LoadError`); `Guard` takes the config as a constant |
| Server command | notify settings, limiter, listener | the `server` command's Run | `ServerBoot` (`Run`) |
| CLI init and version commands, escrow/HTTPRouters routes, `utils.go` | – | the init prompt, wiring of library handlers, unused unit conversions | not modelled |

What is hard to test in this code, and where a model checker helps:
- interleavings of handlers with the notify start-up goroutine;
- the order of decisions inside the batch loop, where a notify call happens before the batch's verdict is known;
- the ordered policy rules over all combinations of configuration and transaction;
- the IPC read loop's framing, against a node that writes its reply in any pieces and may die;
- the uint64 conversion and the fallbacks of the config loader;
- the boundaries of signature recovery: s at exactly half the order, a V that wraps in `byte(Vb - 27)`, and an R whose abscissa is at least the order.

`PROJECT.json` lists each hazard at its source line.

## Modules

- **`Policy`** holds pure operators: `CheckTransaction` is `checkTransaction`, rule by rule, including `LuaVerdict`, `TailVerdict` and `FromVerdict`.
  - A transaction is a record `[type, chainId, gasPrice, tip, gas, to, value, hash, p256, k1]`.
  - `p256` and `k1` are the outcomes of recovering its signature on P-256 and on secp256k1, either an address or `RecoverErr`. Curve arithmetic is abstracted to its outcome. A typed transaction always fails P-256 recovery (`SenderP256`), because `Sender` subtracts `2*chainId+8` from a y-parity V.
  - The Lua script is the constant operator `LuaScript`, whose result is a record of its outcome kinds. `CheckTx` maps those outcomes to statuses, including the `strconv.Atoi` failure on a fraction, which yields 0.
  - The DB answer is an input (`dbOk`).
- **`Filter`** (extends `Policy`):
  - `CheckJSONRequest` is `checkJSONRequest`. It returns the reply written, whether the request goes on, whether `AddTx` is called, and the checked status.
  - The request goes on exactly when the returned error is nil. The error values are those of `params`: `GetStatusError` over the `statusError` table, `ErrorGuard` and `ErrorInternalError`. The table has no entry for 426, 427, 428 and 443, so `GetStatusError` of those is nil. The refusal branch returns `ErrorInternalError`, and the model keeps that. If it returned `GetStatusError(status)`, a hash-blacklisted transaction would be relayed, and `RuleOrdering` fails under that change.
  - `inWhitelistMethod` is the method-whitelist lookup of both paths.
  - `BatchItem` is one iteration of the `checkJSONBatchRequest` loop, keeping the 200/211 asymmetry of the code.
- **`Notify`** models the publisher:
  - the variables `boot` (the goroutine's progress), `queue` (`txCh`), `published` and `dropped`;
  - the actions `SetLogger`, `Connect`, `Publish` and the operator `AddTx(item)`, which a handler's step conjoins;
  - `AddTxPanics`, the nil-Logger case.
- **`Guard`** composes everything.
  - `pc[r]` is the stage of handler `r`: idle, serve, batch, relay or done.
  - Its actions are:
    - `Receive`;
    - `Serve`: ServeHTTP up to the filter, including the single path through `ServeSingle`;
    - `BatchStep`: one loop iteration;
    - `BatchEnd`: the batch verdict;
    - `Relay`: the scheme switch;
    - `NotifyStep`;
    - `Quiescent`: every handler done or blocked in the IPC read, and the server waits.
  - Each action takes the whole handler step. A notify call and its possible panic are part of the step that makes it (`MaybeNotify`).
  - `checks` (each checkTransaction result with the DB answer it saw) and `relayed` are history variables for the properties.
  - `SpecStatus` is section 4.4 of `spec.md`, written independently as an ordered list of (violated, status) pairs. `RuleOrdering` compares it with the code's result.
- **`IPCStream`** is the abstract IPC response: the body grows as a prefix of the node's reply (`Extend`) and ends with the whole reply (`Complete`) or with one error after what was written (`Abort`). `Closes` says every response ends.
- **`IPCRelay`** is `IPCServer.ServeHTTP` step by step.
  - `stage` is the handler's position: dial, write, the read loop, done.
  - `sent` and `taken` count the units of `Reply` the node has written and the handler has read; `buf` is the `bytes.Buffer`; `out` is everything written to the `ResponseWriter`.
  - `Dial` and `Write` fail with 434 and 435. `Read` is one loop iteration. `ReadChunk(n)` takes what has arrived, up to `Size`; a short read flushes `buf`; a read of more than one unit ending with the newline leaves the loop, and the write after the loop follows. `ReadEOF` appends 436.
  - The node's side is `NodeWrite`, which writes any number of units, and `NodeCrash`. After a crash Read returns what is left in the socket, then EOF. `ClientClose` is the close-notify goroutine cancelling a context that nothing reads.
  - `Stream` instantiates `IPCStream` with `phase` mapped from `stage` and `body` mapped to `out`.
- **`ServerBoot`** is the `server` command with `setupConfig` and `loadParamsConfig`.
  - `configFile` is the outcome of `viper.ReadInConfig`: read, missing or malformed. `Setup` is the command's `PersistentPreRunE`. A file that was not read is not an error, and every key is then unset (`SettingsAfterSetup`).
  - `settings` is what viper returns for each key (Nil: not set) and `node` is the node's answer to Dial and NetworkID.
  - `Loaded` builds the config from `DefaultConfig`. It includes `U64`, the `uint64` conversion of an `int64`, on `Width`-bit words, and the 21000 clamps.
  - `LoadError` is the first error, in the code's order of checks.
  - `Run` is the command's Run function: the log level, the config, the notify QoS and goroutine, the limiter rate, TLS and the listener outcome.
- **`Signer`** is `EIP155Signer.Sender` and the P-256 recovery under it, as pure operators over a curve small enough to enumerate.
  - The curve keeps P-256's form, y^2 = x^3 - 3x + B mod P, with a generator of prime order N < P. `PowMod`, `ModInverse`, `ModSqrt`, `PointAdd` and `ScalarMult` are the big.Int and elliptic calls the code makes. The point at infinity is (0, 0), as in Go.
  - `recoverPlain` keeps the `byte(Vb - 27)` conversion (mod 256, of the magnitude `Uint64` reads), the byte-range test and `ValidateSignatureValues` with its lower-half test on s. `ecRecovery2` keeps the range tests, the order check on R and the key formula.
  - `Sign` is the reference: ECDSA signing with low-s normalisation and the recovery id of R. `LegacyTx` and `DynamicFeeTx` are what a wallet sends.
  - `SenderRecoversSigner(c)` says that for every key, nonce and payload, `Sender` gives the signing key for a legacy transaction on chain c and an error for a dynamic-fee one. `MCServerBoot` instantiates the module with P = 23, B = 15, N = 17 and G = (1, 6), and tabulates it once per chain id a server can serve.
- **`WhitelistDB`** is the session lifecycle of `isWhitelistTx`.
  - Each handler `l` goes through `Call`, `Open` (`db.Open`, refused at `MaxConns`), `SetTimeZone`, `SetIsolation` and `Query` (the select and the deferred `Close`).
  - `Abandon` is a return of false that leaves the session open; `orphans` counts those sessions.
  - `txIsolation` says whether the server still has the `tx_isolation` variable. Statements may also fail transiently, up to `MaxFaults` times.
  - `Reap` is the server's `wait_timeout`.
- **`MCGuard`** instantiates `Guard`:
  - addresses a1..a4 with one account row of each kind (escrow match, no row, supernode, bad hex);
  - hashes h1, h2 and a script that produces every CheckTx outcome;
  - four policy configurations, the transaction domains, and the curated request sets of the concurrency runs.

## Runs

| Run | cfg | Expect | Shows |
|---|---|---|---|
| policy | `MCPolicy.cfg` | pass | `RuleOrdering`, `GasReplyInBounds`. One handler; 4 configs × about 2600 transactions plus each non-transaction method. Every status the code gives equals the first broken rule of section 4.4. A single refused request is answered with that status under its id. Gas answers are clamped. |
| server | `MCServer.cfg` | pass | `TypeOK`, `UpstreamOnlyAdmitted`, `NotifiedOnlyAdmitted`, `QueueDrains`, `RequestsAnswered`. Two handlers; every ServeHTTP path; http, IPC and unknown schemes; the publisher starting concurrently; `TxChanMax = 1`. Only POST bodies whose every transaction was admitted reach the node. Only admitted transactions are published. A queued transaction is eventually published. Every request that arrives is answered, unless its IPC relay blocks in `conn.Read` (the `ipc_hang` run), whether the broker connect is pending, has failed for good (`txCh` stays nil), or `txCh` is full: `AddTx`'s select with a default case never holds up a handler. |
| options_bypass | `MCOptionsBypass.cfg` | violation | An OPTIONS request with a refused transaction is relayed unfiltered. |
| batch_align | `MCBatchAlign.cfg` | violation | A locally answered batch with a 211 item is shorter than the batch. |
| batch_silent | `MCBatchSilent.cfg` | violation | 200 items of a relayed batch are never published. |
| logger_race | `MCLoggerRace.cfg` | violation | AddTx before the goroutine sets `Logger` panics. |
| chunked_body | `MCChunked.cfg` | violation | A large chunked body skips the 413. |
| from_check_curve | `MCFromCheck.cfg` | violation | With `EnableFromCheck` the script sees the secp256k1 sender. |
| ipc | `MCIPC.cfg` | pass | `TypeOK`, `StreamRefined`, `ReplyDelivered`, `NodeLossReleasesHandler`. Every split of a five-unit reply into reads of at most two units, with node crashes and client disconnects at every point. The read loop implements `IPCStream`: the client gets a prefix of the reply, then at most one error. Once the node has written the whole reply, all of it reaches the client. Once the node is gone, every handler returns. |
| ipc_hang | `MCIPCHang.cfg` | violation | `RelayEnds` (`IPCStream`'s `Closes`) fails. When the reads end on a lone newline (reads of 2, 2 and 1 units), the `n > 1` test never leaves the loop. The handler blocks in `conn.Read` for as long as the node keeps the connection open, whether or not the client has gone. |
| boot | `MCServerBoot.cfg` | pass | `TypeOK`, `ServesValidConfig`, `ServedSenderRecovered`, `UnreadConfigFailsClosed`. About 44,000 states over config-file outcomes, settings and node answers. A server that starts serving has both gas limits at or above 21000, price and tip maxima not below their minima, the Lua hook and the DB fully configured, and a valid QoS. Its chain id (the node's NetworkID) is one on which the P-256 signer attributes every low-s legacy signature to its key and refuses typed ones. A server whose config file was missing or malformed serves with an empty method whitelist, so it answers every request with 415. |
| whitelist_leak | `MCWhitelistLeak.cfg` | violation | `SessionsReleased` fails. When a `set` statement of `OpenDatabase` fails, the lookup returns false and its session stays open. The cause can be a transient error, or `tx_isolation` on MySQL 8. |

Each property of a passing run has a mutant in `PROJECT.json`, a plausible code bug under which the run fails:
- `AddTx` as a plain blocking send;
- the room test of `AddTx` off by one;
- the gas-limit rule moved before the price rules;
- the upper clamp forgotten;
- `requestError` ignored;
- `AddTx` called whatever the verdict;
- a `Run` loop that stops after one message;
- `buf.Write(tmp)` instead of `buf.Write(tmp[:n])`;
- `buf.Reset()` forgotten after a flush;
- short reads kept in `buf` rather than flushed;
- the limiter's fallback applied only to negative rates;
- the gas price max < min check left out;
- the low-s test of `ValidateSignatureValues` made half-open (`s >= halfN` refused);
- an EOF read taken for "no data yet", so the loop reads again;
- `setupConfig` keeping stale settings when the file was not read.

### Bounds

- **Amounts** are 0..3 against bounds 1 and 2, so each value falls below, inside or above every interval, with the upper bound set and unset.
- **Transactions:** every combination of chain id, price, tip, gas, recipient (whitelisted escrow, blacklisted, contract creation), value, hash (plain, blacklisted, zero) and P-256 sender outcome (ordinary, no row, blacklisted, zero, failed).
- **Request inputs:** a request says whether the client cuts its body off, so the 429 read error is an input of the request, not a choice the handler's step makes. Likewise the server configuration that cannot relay (`ws`) runs without the whitelist DB. Its admissions then do not depend on a DB answer chosen in the same step. Without these two, weak fairness could always resolve a handler's step towards an outcome that returns, and `RequestsAnswered` would hold whatever `AddTx` does.
- **Two handlers** are enough for every interleaving that involves the shared publisher: one request's notify call against the goroutine's start-up, and two producers against a queue of capacity 1.
- **Batches** have two messages. That is the smallest batch where one item's verdict affects another's.
- **IPC:** the reply has five units and a read returns at most two (`Size = 2` stands for 32 KiB). This gives full reads held in `buf`, short reads that flush, a newline read alone, and a newline at the end of a full read. The node may write the whole reply at once or piece by piece.
- **Whitelist sessions:** two handlers, three lookups, two connections and one transient fault. That is enough for a leak, for the refusal at the connection limit, and for a lookup that overlaps another.
- **Config:** gas limits are 16-bit words. That width is the smallest that holds the 21000 floor, and it wraps -1 to the largest word as `uint64` does. Prices and tips are Nil, -1, 0 and 2, so each bound is unset, negative, equal or above the other. Each group of settings is varied around one base setting.

- **Signer:** the curve has 17 points of order 17 and 6 abscissas at or above N, so recovery ids 2 and 3 occur. P = 3 mod 4 gives the same square-root branch as `ModSqrt` takes. Keys and nonces range over 1..16, and payloads over 0..16, so every digest residue occurs. That is 2560 signatures per chain, 320 of them with s exactly N/2. The served chain ids are those `MCServerBoot`'s node can report: 1012, 11 and 10. Chain 10 is the one where `2c + 8` exceeds a dynamic-fee V by less than 27, so `byte(Vb - 27)` wraps.

### Fairness

- Each handler that has received a request is weakly fair. net/http runs it in its own goroutine, and none of its steps waits on another handler.
- The notify goroutine is weakly fair. `Run` ranges over `txCh` for the life of the process.
- Clients are not obliged to send requests.
- In `IPCRelay` the handler (`Dial`, `Write`, `Read`) and `NodeWrite` are weakly fair: the handler is its own goroutine, and a live node answers a request. `NodeCrash` and `ClientClose` are not fair. The node's IPC endpoint keeps its connections open, and a client need not leave.
- `ServerBoot`'s `Setup` and `Run` are weakly fair. cobra runs `PersistentPreRunE` and then `Run`, with nothing to wait for.

## Not modelled

- **The reverse proxy.** Its source is not in the repository. `Guard` models it from the spec as one step.
- **Blacklist parsing.** Hex decoding and the odd-length padding of hashes are abstracted to "valid" or "not hex".
- **`params.Copy` and `Filter.CheckJSONRequest` in `filter.go`.** Nothing calls either; the call to the latter in `server.go` is commented out.
- **Signature arithmetic inside `Policy`.** `Policy` and `Guard` take the outcome of recovery as a value, an address or `RecoverErr`. The arithmetic itself is in `Signer`, on a toy curve: TLC cannot enumerate P-256, and an address is stood for by the public key, since Keccak256 is not modelled.
- **Connections to the node for gas suggestions.** `getGasPrice` and `getGasTipCap` dial a fresh client on every request and never close it. `Guard` takes the suggestion as a value.
- **The IPC read loop inside `Guard`.** `Guard`'s `IPCRelay` is one step: it returns with one of the outcomes of the loop, or leaves the handler in the stage `blocked` for good. How a reply is split into reads, and the partial output before an error, are in the `IPCRelay` module.
- **CLI.** The init and version commands (`init.go`, `cmd.go`) are terminal I/O. `utils.go` (`getAmountWei`, `getWeiAmountTextByUnit`) is never called. Only the outcome of reading the config file is modelled, not its parsing.
- **Logging.** The JSON logging of responses in `params/response.go`, and `Config.MarshalJSON`, which only serves the log line of the config.
- **Routes and rate limiting.** The escrow and HTTPRouters routes, the rate limiter and TLS are library wiring. `ServerBoot` keeps only the limiter's rate and the TLS choice.

Observations from the models that no run checks:
- AddTx drops transactions while `txCh` is nil, before and during the broker connect, and forever after a failed connect.
- The 211 branch of a batch calls AddTx before it knows whether the batch fails.
- An IPC read error after a flush appends the 436 error to part of the reply.
- A MinGasLimit of -1 wraps to the largest uint64 instead of being clamped to 21000, and every transaction is then refused.
- A MinGasLimit above an enabled MaxGasLimit loads without error.
- ChainID is the node's NetworkID.
- On chain 10, a dynamic-fee transaction's V minus 28 wraps in `byte(Vb - 27)` to 0 or 1, so recovery runs with the recovery id flipped. For most signatures this recovers a key other than the signer's.

`PROJECT.json` lists them as hazards.
