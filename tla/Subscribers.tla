---------------------------- MODULE Subscribers ----------------------------
(***************************************************************************)
(* The subscriber table (dmr-subscriber/src, subscriber_refresh of         *)
(* bridge/src/main.rs): callsigns by radio ID, read from a CSV file that   *)
(* is replaced under the bridge, and swapped whole under a lock.           *)
(*                                                                         *)
(* A file is missing or has a row for some IDs, good or bad.               *)
(***************************************************************************)
EXTENDS Identifiers

CONSTANTS
  Ids,            \* the IDs rows are about
  Files,          \* the files the updates leave: None, or rows
  MaxUpdates,     \* updates of the file
  MaxReadErrors   \* reads of it that break off

ASSUME SubscribersAssumption ==
  Ids \subseteq Nat /\ MaxUpdates \in Nat /\ MaxReadErrors \in Nat

VARIABLES
  file,       \* the file at subscriber_file
  table,      \* the IDs of the table lookups are answered from
  reloading,  \* a reload runs in its blocking task
  updates, readErrors

subscriberVars == <<file, table, reloading, updates, readErrors>>

IntoSubscriber(rows, id) == rows[id] = "good" /\ IsOk(TrySubscriberId(id))

\* from_reader: malformed rows, and rows of no on-air ID, are skipped.
FromReader(rows) == {id \in DOMAIN rows : IntoSubscriber(rows, id)}

\* load: only the open can fail.  A read that breaks off ends the table there.
Loads ==
  IF file = None THEN {Err("Open")}
  ELSE {Ok(FromReader(file))} \cup
       IF readErrors < MaxReadErrors
       THEN {Ok(t) : t \in SUBSET FromReader(file) \ {FromReader(file)}} ELSE {}
BrokeOff(load) == IsOk(load) /\ load.val # FromReader(file)

\* At startup a failure leaves the empty table.
InitialLoad ==
  /\ \E load \in Loads :
       /\ table' = IF IsOk(load) THEN load.val ELSE {}
       /\ readErrors' = readErrors + IF BrokeOff(load) THEN 1 ELSE 0
  /\ UNCHANGED <<file, reloading, updates>>

StartReload ==
  /\ ~reloading /\ reloading' = TRUE
  /\ UNCHANGED <<file, table, updates, readErrors>>

\* Mutant: only a table with nothing in it is replaced.
SwapIfEmpty(load) ==
  table' = IF IsOk(load) /\ table = {} THEN load.val ELSE table
Swap(load) == table' = IF IsOk(load) THEN load.val ELSE table

EndReload ==
  /\ reloading /\ reloading' = FALSE
  /\ \E load \in Loads :
       /\ Swap(load)
       /\ readErrors' = readErrors + IF BrokeOff(load) THEN 1 ELSE 0
  /\ UNCHANGED <<file, updates>>

Update ==
  /\ updates < MaxUpdates /\ updates' = updates + 1
  /\ \E f \in Files : file' = f
  /\ UNCHANGED <<table, reloading, readErrors>>

SubscribersInit ==
  /\ file \in Files /\ table = {} /\ reloading = FALSE
  /\ updates = 0 /\ readErrors = 0
=============================================================================
