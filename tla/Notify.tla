------------------------------- MODULE Notify -------------------------------
(***************************************************************************)
(* Package notify: the process-wide channel txCh of capacity TxChanMax,    *)
(* the goroutine started by the server command that sets Logger, connects  *)
(* the MQTT client and only then makes txCh and runs the publish loop, and *)
(* AddTx, the non-blocking send the request handlers call.                 *)
(*                                                                         *)
(* boot follows InitAndRunNotifyClient:                                    *)
(*   "off"        EnableActiveMQ is false, the goroutine never starts      *)
(*   "start"      started, Logger still nil, txCh nil                      *)
(*   "connecting" Logger set, newClient waiting for the broker, txCh nil   *)
(*   "running"    txCh made, Run ranging over it                           *)
(*   "failed"     newClient failed; the goroutine returned, txCh stays nil *)
(* An item is the raw transaction a handler passed, named by the request   *)
(* and the position of its message.                                        *)
(***************************************************************************)
EXTENDS Integers, Sequences

CONSTANTS TxChanMax

VARIABLES boot, queue, published, dropped

notifyVars == <<boot, queue, published, dropped>>

NotifyInit(enabled) ==
  /\ boot = IF enabled THEN "start" ELSE "off"
  /\ queue = <<>>
  /\ published = <<>>
  /\ dropped = {}

(* InitAndRunNotifyClient: Logger = logger. *)
SetLogger ==
  /\ boot = "start"
  /\ boot' = "connecting"
  /\ UNCHANGED <<queue, published, dropped>>

(* newClient: c.Connect() and token.Wait(); on success txCh is made and    *)
(* Run starts, on error the function logs and returns for good.            *)
Connect ==
  /\ boot = "connecting"
  /\ boot' \in {"running", "failed"}
  /\ UNCHANGED <<queue, published, dropped>>

(* Mutant of Publish: a Run loop that returns after its first message. *)
PublishOnce ==
  /\ boot = "running"
  /\ queue # <<>>
  /\ published = <<>>
  /\ published' = Append(published, Head(queue))
  /\ queue' = Tail(queue)
  /\ UNCHANGED <<boot, dropped>>

(* Run: receive the next raw transaction and client.Publish it. *)
Publish ==
  /\ boot = "running"
  /\ queue # <<>>
  /\ published' = Append(published, Head(queue))
  /\ queue' = Tail(queue)
  /\ UNCHANGED <<boot, dropped>>

CanSend == boot = "running" /\ Len(queue) < TxChanMax

(* Mutant of AddTx: a plain blocking send, the default case dropped. *)
AddTxBlocking(item) ==
  /\ CanSend
  /\ queue' = Append(queue, item)
  /\ UNCHANGED <<boot, published, dropped>>

AddTx(item) ==
  /\ IF CanSend
     THEN queue' = Append(queue, item) /\ dropped' = dropped
     ELSE dropped' = dropped \cup {item} /\ queue' = queue
  /\ UNCHANGED <<boot, published>>

(* The default case of AddTx calls Logger.Warnln; before SetLogger the     *)
(* package variable is nil and the call panics.                            *)
AddTxPanics == ~CanSend /\ boot = "start"
=============================================================================
