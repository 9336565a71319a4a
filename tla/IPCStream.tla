------------------------------ MODULE IPCStream -----------------------------
(***************************************************************************)
(* What the IPC relay promises the HTTP client, as section 4.10 and        *)
(* section 7 of spec.md put it: the body the client receives grows as a   *)
(* prefix of the node's reply and ends either with the whole reply or with *)
(* one JSON-RPC error of a dial, write or read failure; then the response *)
(* is over.                                                                *)
(***************************************************************************)
EXTENDS Naturals, Sequences

CONSTANTS
  Reply,      \* the node's reply, a sequence of units
  Errors      \* the error bodies the relay may end with

VARIABLES
  phase,      \* "open" while the handler runs, "closed" once it returned
  body        \* what has been written to the client so far

vars == <<phase, body>>

Prefixes == { SubSeq(Reply, 1, k) : k \in 0..Len(Reply) }

TypeOK ==
  /\ phase \in {"open", "closed"}
  /\ \/ body \in Prefixes
     \/ \E p \in Prefixes, e \in Errors : body = Append(p, e)

Init ==
  /\ phase = "open"
  /\ body = <<>>

(* More of the reply reaches the client. *)
Extend ==
  /\ phase = "open"
  /\ \E k \in (Len(body) + 1)..Len(Reply) : body' = SubSeq(Reply, 1, k)
  /\ UNCHANGED phase

(* The rest of the reply is written and the response ends. *)
Complete ==
  /\ phase = "open"
  /\ body' = Reply
  /\ phase' = "closed"

(* A failure ends the response with one error after what was written. *)
Abort ==
  /\ phase = "open"
  /\ \E e \in Errors : body' = Append(body, e)
  /\ phase' = "closed"

Next == Extend \/ Complete \/ Abort

Spec == Init /\ [][Next]_vars

(* Every response ends. *)
Closes == phase = "open" ~> phase = "closed"
=============================================================================
