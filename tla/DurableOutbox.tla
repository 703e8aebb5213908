--------------------------- MODULE DurableOutbox ---------------------------
(***************************************************************************)
(* What a checkpoint spool promises its producers, whatever its threads,   *)
(* queues, caches and crashes do in between (the module docstring of       *)
(* scripts/checkpoint_spool.py): "acknowledgement means a FULL-synchronous *)
(* local SQLite commit" and "rows are removed only after the cloud writer  *)
(* returns successfully".                                                  *)
(***************************************************************************)
CONSTANT Unit

VARIABLES promised,   \* units acknowledged to some producer
          held,       \* units of the local durable outbox
          delivered   \* units that the cloud holds

outboxVars == <<promised, held, delivered>>

TypeOK == /\ promised \subseteq Unit
          /\ held \subseteq Unit
          /\ delivered \subseteq Unit

Init == promised = {} /\ held = {} /\ delivered = {}

(* One local transaction inserts new rows and drops rows the cloud holds.  *)
Transact(added, dropped) ==
  /\ held' = (held \cup added) \ dropped
  /\ UNCHANGED <<promised, delivered>>

(* Only a durable row is ever replicated.                                  *)
Deliver(sent) ==
  /\ delivered' = delivered \cup sent
  /\ UNCHANGED <<promised, held>>

(* A producer hears of success only for units that are safe.               *)
Promise(rows) ==
  /\ promised' = promised \cup rows
  /\ UNCHANGED <<held, delivered>>

Next == \/ \E added \in SUBSET Unit, dropped \in SUBSET delivered : Transact(added, dropped)
        \/ \E sent \in SUBSET held : Deliver(sent)
        \/ \E rows \in SUBSET (held \cup delivered) : Promise(rows)

Spec == Init /\ [][Next]_outboxVars
=============================================================================
