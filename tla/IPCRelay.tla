------------------------------ MODULE IPCRelay ------------------------------
(***************************************************************************)
(* IPCServer.ServeHTTP (src/server/ipcproxy.go): one handler relaying a    *)
(* request to the node over a unix socket.  The node's reply is the       *)
(* sequence Reply of units, the last one the newline that ends a JSON-RPC  *)
(* reply; Size stands for the 32 KiB read buffer.  The node writes its     *)
(* reply in pieces of any length, the kernel hands each Read what has      *)
(* arrived up to Size units, and the node may die at any moment, after     *)
(* which Read returns what is left in the socket and then EOF.             *)
(***************************************************************************)
EXTENDS Integers, Sequences

LOCAL SeqX == INSTANCE SequencesExt

CONSTANTS
  Reply,      \* the node's reply, a sequence of units ending with NL
  NL,         \* the newline unit
  Size        \* units one Read can return

ASSUME Size >= 1 /\ Len(Reply) >= 1 /\ Reply[Len(Reply)] = NL

VARIABLES
  stage,      \* "dial", "write", "read" (inside the for loop) or "done"
  nodeUp,     \* the node process is alive and keeps the connection open
  sent,       \* units of Reply the node has written into the socket
  taken,      \* units the handler has read from the socket
  buf,        \* the bytes.Buffer buf
  out,        \* everything written to the http.ResponseWriter
  clientGone  \* the client closed its connection (CloseNotify fired)

vars == <<stage, nodeUp, sent, taken, buf, out, clientGone>>

(* The JSON-RPC error body of LogAndResponseJSONError with a status. *)
Err(code) == [status |-> code]
IPCErrors == {Err(434), Err(435), Err(436)}

TypeOK ==
  /\ stage \in {"dial", "write", "read", "done"}
  /\ nodeUp \in BOOLEAN /\ clientGone \in BOOLEAN
  /\ sent \in 0..Len(Reply) /\ taken \in 0..sent
  /\ buf \in Seq({NL} \cup SeqX!Range(Reply))
  /\ out \in Seq({NL} \cup SeqX!Range(Reply) \cup IPCErrors)

Init ==
  /\ stage = "dial"
  /\ nodeUp \in BOOLEAN
  /\ sent = 0 /\ taken = 0
  /\ buf = <<>> /\ out = <<>>
  /\ clientGone = FALSE

(* net.Dial("unix", rawURL): 434 when nothing listens. *)
Dial ==
  /\ stage = "dial"
  /\ IF nodeUp
       THEN stage' = "write" /\ UNCHANGED out
       ELSE stage' = "done" /\ out' = Append(out, Err(434))
  /\ UNCHANGED <<nodeUp, sent, taken, buf, clientGone>>

(* conn.Write(bodyBytes): once the node is gone the write may still land  *)
(* in the socket buffer or fail with 435.                                 *)
Write ==
  /\ stage = "write"
  /\ \/ stage' = "read" /\ UNCHANGED out
     \/ ~nodeUp /\ stage' = "done" /\ out' = Append(out, Err(435))
  /\ UNCHANGED <<nodeUp, sent, taken, buf, clientGone>>

(* Mutant of ReadChunk: buf.Write(tmp) instead of buf.Write(tmp[:n]), so  *)
(* the zero bytes after the n read are relayed too.                        *)
ReadChunkUnsliced(n) ==
  LET data  == buf \o SubSeq(Reply, taken + 1, taken + n)
                   \o [i \in 1..(Size - n) |-> [byte |-> "zero"]]
      flush == n < Size
      brk   == n > 1 /\ Reply[taken + n] = NL
  IN /\ taken' = taken + n
     /\ buf' = IF flush THEN <<>> ELSE data
     /\ out' = IF flush \/ brk THEN out \o data ELSE out
     /\ stage' = IF brk THEN "done" ELSE "read"

(* Mutant of ReadChunk: buf.Reset() forgotten after a flush. *)
ReadChunkNoReset(n) ==
  LET data  == buf \o SubSeq(Reply, taken + 1, taken + n)
      brk   == n > 1 /\ Reply[taken + n] = NL
  IN /\ taken' = taken + n
     /\ buf' = data
     /\ out' = IF n < Size \/ brk THEN out \o data ELSE out
     /\ stage' = IF brk THEN "done" ELSE "read"

(* Mutant of ReadChunk: short reads are kept in buf instead of flushed; *)
(* the client gets the reply only when the loop breaks.                  *)
ReadChunkNoFlush(n) ==
  LET data  == buf \o SubSeq(Reply, taken + 1, taken + n)
      brk   == n > 1 /\ Reply[taken + n] = NL
  IN /\ taken' = taken + n
     /\ buf' = IF brk THEN <<>> ELSE data
     /\ out' = IF brk THEN out \o data ELSE out
     /\ stage' = IF brk THEN "done" ELSE "read"

(* One iteration of the for loop whose conn.Read returns n units.  A short *)
(* read flushes buf to the client; a read of more than one unit ending     *)
(* with a newline leaves the loop, and the code after the loop writes      *)
(* what is still in buf.                                                   *)
ReadChunk(n) ==
  LET data  == buf \o SubSeq(Reply, taken + 1, taken + n)
      flush == n < Size
      brk   == n > 1 /\ Reply[taken + n] = NL
  IN /\ taken' = taken + n
     /\ buf' = IF flush THEN <<>> ELSE data
     /\ out' = IF flush \/ brk THEN out \o data ELSE out
     /\ stage' = IF brk THEN "done" ELSE "read"

(* Mutant of ReadEOF: EOF taken for "no data yet", the loop reads again. *)
ReadEOFRetried ==
  /\ UNCHANGED <<out, stage, taken, buf>>

(* conn.Read returning EOF: 436 appended to whatever was written. *)
ReadEOF ==
  /\ out' = Append(out, Err(436))
  /\ stage' = "done"
  /\ UNCHANGED <<taken, buf>>

(* conn.Read blocks while the socket is empty and the node alive. *)
Read ==
  /\ stage = "read"
  /\ IF taken < sent
       THEN ReadChunk(IF sent - taken < Size THEN sent - taken ELSE Size)
       ELSE ~nodeUp /\ ReadEOF
  /\ UNCHANGED <<nodeUp, sent, clientGone>>

(* The node, having read the request, writes the next piece of its reply. *)
NodeWrite ==
  /\ stage = "read" /\ nodeUp /\ sent < Len(Reply)
  /\ \E k \in 1..(Len(Reply) - sent) : sent' = sent + k
  /\ UNCHANGED <<stage, nodeUp, taken, buf, out, clientGone>>

(* The node dies or drops the connection. *)
NodeCrash ==
  /\ nodeUp
  /\ nodeUp' = FALSE
  /\ UNCHANGED <<stage, sent, taken, buf, out, clientGone>>

(* The client goes away: the CloseNotify goroutine cancels ctx, which no  *)
(* call of the handler uses.                                              *)
ClientClose ==
  /\ ~clientGone /\ stage # "done"
  /\ clientGone' = TRUE
  /\ UNCHANGED <<stage, nodeUp, sent, taken, buf, out>>

(* ServeHTTP has returned; the server waits for other work. *)
Returned ==
  /\ stage = "done"
  /\ UNCHANGED vars

Handler == Dial \/ Write \/ Read

Next == Handler \/ NodeWrite \/ NodeCrash \/ ClientClose \/ Returned

(* The handler runs in its own goroutine; a live node answers.  The node  *)
(* is not obliged to die and the client not obliged to leave.             *)
Fairness == WF_vars(Handler) /\ WF_vars(NodeWrite)

Spec == Init /\ [][Next]_vars /\ Fairness

-----------------------------------------------------------------------------
(* The relay seen as the stream IPCStream describes: the response is open *)
(* until ServeHTTP returns, and its body is what was written to w.        *)
Stream == INSTANCE IPCStream
            WITH phase <- IF stage = "done" THEN "closed" ELSE "open",
                 body <- out, Errors <- IPCErrors

(* What the client receives is always a prefix of the node's reply,       *)
(* possibly followed by one error, and only ServeHTTP returning ends it:   *)
(* the read loop with its flushes of short reads and the write after the   *)
(* loop never duplicates, drops or reorders a unit.                        *)
StreamRefined == Stream!Spec

(* Once the node has written its whole reply, all of it eventually reaches *)
(* the client, however the reads split it (ipcproxy.go 60-85).            *)
ReplyDelivered == sent = Len(Reply) ~> SeqX!IsPrefix(Reply, out)

(* The hang RelayEnds exposes lasts only while the node holds the          *)
(* connection: once the node is gone every handler returns, because the    *)
(* socket drains and conn.Read then fails (ipcproxy.go 62-66).             *)
NodeLossReleasesHandler == ~nodeUp ~> stage = "done"

(* Section 4.10: the relay ends once the reply's final newline arrives;   *)
(* the loop's n > 1 test (ipcproxy.go 79) must not keep it reading.        *)
RelayEnds == Stream!Closes

=============================================================================
