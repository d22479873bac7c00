------------------------------ MODULE Platform ------------------------------
(***************************************************************************)
(* What the services of one composition share: the event bus, and the two  *)
(* bounds on their environment.  An outbox row and its publication are one *)
(* step here, and a consumer may receive an event on the bus at any time   *)
(* and any number of times: Outbox and EventConsumer are about how the     *)
(* messaging library earns that, at least once and in no order.            *)
(***************************************************************************)
EXTENDS Integers

CONSTANTS
    MaxRequests,   \* bound: requests users make
    MaxFaults      \* bound: upstream outages and process crashes

ASSUME PlatformAssumption == MaxRequests \in Nat /\ MaxFaults \in Nat

VARIABLES
    bus,        \* the events committed to some outbox
    requests,
    faults

platform == <<bus, requests, faults>>

PlatformInit == bus = {} /\ requests = 0 /\ faults = 0

(* uow.outbox.add, within the transaction that commits the step. *)
Emit(events) == bus' = bus \cup events

Request == requests < MaxRequests /\ requests' = requests + 1 /\ faults' = faults

Fault == faults < MaxFaults /\ faults' = faults + 1 /\ requests' = requests

Background == UNCHANGED <<requests, faults>>

(* A table with a row inserted, or written over the one it has. *)
With(table, x, row) == [y \in DOMAIN table \cup {x} |-> IF y = x THEN row ELSE table[y]]

(* A table with the rows of another that it has no row for. *)
Merged(table, rows) ==
    [y \in DOMAIN table \cup DOMAIN rows |-> IF y \in DOMAIN table THEN table[y] ELSE rows[y]]

=============================================================================
