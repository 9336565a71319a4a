----------------------------- MODULE WhitelistDB ----------------------------
(***************************************************************************)
(* The sessions of the whitelist lookup (src/filter/whitelist.go): every   *)
(* isWhitelistTx opens a session with OpenDatabase, which runs two `set`   *)
(* statements, then selects the sender's row and closes the session on    *)
(* return.  Handlers run lookups concurrently against one MySQL server     *)
(* that accepts MaxConns connections.  A statement may fail transiently    *)
(* (at most MaxFaults times), and a server without the tx_isolation        *)
(* variable (MySQL 8.0.3 and later) refuses the second statement always.   *)
(* The server closes an idle connection after wait_timeout.                *)
(***************************************************************************)
EXTENDS Naturals, FiniteSets

CONSTANTS
  Lookups,      \* the handlers that may be inside isWhitelistTx
  MaxConns,     \* max_connections of the server
  MaxFaults,    \* transient statement failures in a behaviour
  MaxLookups    \* isWhitelistTx calls in a behaviour

VARIABLES
  stage,        \* stage[l]: "idle", "open", "setTz", "setIso", "query"
  sess,         \* sess[l]: l holds the session it opened
  answer,       \* answer[l]: the last value isWhitelistTx returned to l
  conns,        \* connections open at the server
  orphans,      \* sessions no handler holds that are still open
  faults,       \* transient failures so far
  calls,        \* isWhitelistTx calls so far
  txIsolation   \* the server knows the tx_isolation variable

vars == <<stage, sess, answer, conns, orphans, faults, calls, txIsolation>>

TypeOK ==
  /\ stage \in [Lookups -> {"idle", "open", "setTz", "setIso", "query"}]
  /\ sess \in [Lookups -> BOOLEAN]
  /\ answer \in [Lookups -> BOOLEAN]
  /\ conns \in 0..MaxConns /\ orphans \in 0..MaxConns
  /\ faults \in 0..MaxFaults /\ calls \in 0..MaxLookups
  /\ txIsolation \in BOOLEAN

Init ==
  /\ stage = [l \in Lookups |-> "idle"]
  /\ sess = [l \in Lookups |-> FALSE]
  /\ answer = [l \in Lookups |-> FALSE]
  /\ conns = 0 /\ orphans = 0 /\ faults = 0 /\ calls = 0
  /\ txIsolation \in BOOLEAN

(* isWhitelistTx returns false to l; its session, if any, is not closed. *)
Abandon(l) ==
  /\ stage' = [stage EXCEPT ![l] = "idle"]
  /\ answer' = [answer EXCEPT ![l] = FALSE]
  /\ sess' = [sess EXCEPT ![l] = FALSE]
  /\ orphans' = IF sess[l] THEN orphans + 1 ELSE orphans

(* The from rule of checkTransaction calls isWhitelistTx. *)
Call(l) ==
  /\ stage[l] = "idle" /\ calls < MaxLookups
  /\ stage' = [stage EXCEPT ![l] = "open"]
  /\ calls' = calls + 1
  /\ UNCHANGED <<sess, answer, conns, orphans, faults, txIsolation>>

(* db.Open: the server refuses a connection beyond max_connections. *)
Open(l) ==
  /\ stage[l] = "open"
  /\ IF conns < MaxConns
       THEN /\ conns' = conns + 1
            /\ sess' = [sess EXCEPT ![l] = TRUE]
            /\ stage' = [stage EXCEPT ![l] = "setTz"]
            /\ UNCHANGED <<answer, orphans>>
       ELSE Abandon(l) /\ UNCHANGED conns
  /\ UNCHANGED <<faults, calls, txIsolation>>

(* sdb.Exec of a `set` statement; on an error OpenDatabase returns nil    *)
(* and the error, and the session it opened stays open.                   *)
Exec(l, from, to, refused) ==
  /\ stage[l] = from
  /\ \/ ~refused /\ stage' = [stage EXCEPT ![l] = to]
        /\ UNCHANGED <<sess, answer, orphans, faults>>
     \/ (refused \/ faults < MaxFaults) /\ Abandon(l)
        /\ faults' = IF refused THEN faults ELSE faults + 1
  /\ UNCHANGED <<conns, calls, txIsolation>>

SetTimeZone(l) == Exec(l, "setTz", "setIso", FALSE)
SetIsolation(l) == Exec(l, "setIso", "query", ~txIsolation)

(* The select of the sender's row and the deferred sdb.Close(): the       *)
(* answer is what the row says, false when there is none.                 *)
Query(l) ==
  /\ stage[l] = "query"
  /\ \E found \in BOOLEAN : answer' = [answer EXCEPT ![l] = found]
  /\ stage' = [stage EXCEPT ![l] = "idle"]
  /\ sess' = [sess EXCEPT ![l] = FALSE]
  /\ conns' = conns - 1
  /\ UNCHANGED <<orphans, faults, calls, txIsolation>>

(* wait_timeout: the server closes an idle connection nobody uses. *)
Reap ==
  /\ orphans > 0
  /\ orphans' = orphans - 1 /\ conns' = conns - 1
  /\ UNCHANGED <<stage, sess, answer, faults, calls, txIsolation>>

(* All calls made and answered. *)
Finished ==
  /\ calls = MaxLookups /\ \A l \in Lookups : stage[l] = "idle"
  /\ UNCHANGED vars

Next ==
  \/ \E l \in Lookups : Call(l) \/ Open(l) \/ SetTimeZone(l) \/ SetIsolation(l) \/ Query(l)
  \/ Reap
  \/ Finished

Spec == Init /\ [][Next]_vars

-----------------------------------------------------------------------------
(* Section 5 of spec.md, "DB sessions: opened per lookup, released at     *)
(* scope exit": every open connection belongs to a lookup in progress.    *)
(* OpenDatabase returns on a failed `set` without closing the session, and *)
(* isWhitelistTx defers Close only after OpenDatabase succeeded.          *)
SessionsReleased == conns = Cardinality({l \in Lookups : sess[l]})
=============================================================================
