------------------------- MODULE FulfillmentRecords -------------------------
(***************************************************************************)
(* The database rows that the fulfillment services share for one           *)
(* marketplace order: its commerce status, the OrderFulfillment row, the   *)
(* RiderAssignment rows, the four tables of handoff tokens, the recipient  *)
(* authorizations, the secured custody events, the delivery attempts and   *)
(* the delivery-failure cases.                                             *)
(*                                                                         *)
(* Every handler that changes these rows is one SERIALIZABLE Postgres      *)
(* transaction (retried on 40001/P2034), so it is one atomic action; a     *)
(* handler that throws rolls back and is no step at all.                   *)
(*                                                                         *)
(* Ids are drawn by randomUUID(): each table has a constant set of ids, a  *)
(* row that does not exist yet has status "UNISSUED".  Clocks, secrets,    *)
(* OTP counters and the domain-event log are abstracted.                   *)
(***************************************************************************)
EXTENDS Naturals, FiniteSets, Sequences, FulfillmentStateMachine

CONSTANTS
  Rider,           \* users with role rider/driver that are active
  Merchant,        \* the order's merchant, as a party to custody
  Customer,        \* the order's customer, as a party to custody
  None,            \* SQL NULL
  PickupToken, CustodyToken, DeliveryToken, ReturnToken,  \* token ids
  Authorization,   \* ids of customer_delivery_authorizations
  MaxAttempts,     \* MAX_DELIVERY_ATTEMPTS
  MaxVersion,      \* bound of the model on assignmentVersion
  AttemptBound,    \* bound of the model on the number of failure cases
  Callers          \* who calls the generic transition API

ASSUME PartyAssumption ==
  /\ Merchant # Customer /\ Merchant # None /\ Customer # None
  /\ {Merchant, Customer, None} \cap (Rider \cup Authorization) = {}
  /\ Rider \cap Authorization = {}

ASSUME BoundAssumption ==
  /\ MaxAttempts \in Nat \ {0}
  /\ MaxVersion \in Nat
  /\ AttemptBound \in Nat
  /\ Callers \subseteq {"CUSTOMER", "MERCHANT", "RIDER", "SYSTEM_ADMIN"}

VARIABLES
  order,           \* class of WkOrder.status: live, completed or void
  status,          \* OrderFulfillment.status
  activeRider,     \* activeRiderId
  version,         \* assignmentVersion
  custodian,       \* physicalCustodianRiderId
  pendingTo,       \* pendingCustodyIncomingRiderId
  pendingFrom,     \* pendingCustodyFromAssignmentVersion, 0 for NULL
  assignments,     \* rows of rider_assignments
  pickupToken, custodyToken, deliveryToken, returnToken,
  recipient,       \* status of each recipient authorization
  custodyLog,      \* secured custody events, in order
  attempts,        \* rows of delivery_attempts
  cases,           \* delivery-failure cases, in order of opening
  unsecured        \* edges taken by the generic API instead of a secured
                   \* path, as the domain-event log records them

fulfillmentVars == <<status, activeRider, version, custodian, pendingTo,
                     pendingFrom>>
tokenVars == <<pickupToken, custodyToken, deliveryToken, returnToken>>
failureVars == <<attempts, cases>>
records == <<order, status, activeRider, version, custodian, pendingTo,
             pendingFrom, assignments, pickupToken, custodyToken,
             deliveryToken, returnToken, recipient, custodyLog, attempts,
             cases, unsecured>>

(***************************************************************************)
(* Row types.                                                              *)
(***************************************************************************)

(* cancelled/rejected/refunded are void; completed/delivered completed.    *)
OrderClass == {"live", "completed", "void"}

Party == Rider \cup {Merchant, Customer}

TokenStatus == {"UNISSUED", "ACTIVE", "CONSUMED", "EXPIRED", "REVOKED"}

(* A token of any of the four purposes: the rider it was issued to, the    *)
(* assignment version it is bound to and the counterpart that may confirm  *)
(* it (the merchant, the incoming rider, the customer or an authorized     *)
(* recipient).  riderAssignmentId is determined by the version.            *)
Token == [status: TokenStatus, rider: Rider \cup {None}, version: Nat,
          counterpart: Party \cup Authorization \cup {None}]

NoToken == [status |-> "UNISSUED", rider |-> None, version |-> 0,
            counterpart |-> None]

AuthorizationStatus == {"UNISSUED", "ACTIVE", "REVOKED", "CONSUMED"}

Assignment == [rider: Rider, version: Nat, status: {"ACTIVE", "SUPERSEDED"}]

CustodyType == {"MERCHANT_RELEASED", "RIDER_TRANSFER", "CUSTOMER_RECEIVED",
                "RETURN_RECEIVED"}

(* RIDER_TRANSFER stands for the RELEASED/RECEIVED pair that the custody   *)
(* handoff writes in one transaction.                                      *)
CustodyEvent == [type: CustodyType, from: Party, to: Party]

Attempt == [number: Nat, outcome: {"FAILED", "SUCCESSFUL_HANDOFF"},
            rider: Rider, version: Nat]

CaseStatus == {"OPEN", "DISPOSITION_SELECTED", "RESOLVED"}

(* HOLD_FOR_REVIEW stands for the dispositions that move nothing: only     *)
(* RETURN_TO_MERCHANT has an effect on the fulfillment, and                *)
(* OPERATIONS_RECOVERY_REQUIRED is set by the service itself.              *)
Disposition == {"NONE", "HOLD_FOR_REVIEW", "RETURN_TO_MERCHANT",
                "OPERATIONS_RECOVERY_REQUIRED"}

FailureCase == [status: CaseStatus, disposition: Disposition]

(* Edges of the lifecycle that have a secured path of their own.           *)
SecuredEdges == {<<"rider_assigned", "picked_up">>,
                 <<"in_transit", "delivered">>,
                 <<"in_transit", "delivery_failed">>,
                 <<"delivery_failed", "in_transit">>,
                 <<"returning", "returned">>}

(* The type invariant of the rows.                                         *)
RecordsTypeOK ==
  /\ order \in OrderClass
  /\ status \in Status
  /\ activeRider \in Rider \cup {None}
  /\ version \in Nat
  /\ custodian \in Rider \cup {None}
  /\ pendingTo \in Rider \cup {None}
  /\ pendingFrom \in Nat
  /\ assignments \subseteq Assignment
  /\ pickupToken \in [PickupToken -> Token]
  /\ custodyToken \in [CustodyToken -> Token]
  /\ deliveryToken \in [DeliveryToken -> Token]
  /\ returnToken \in [ReturnToken -> Token]
  /\ recipient \in [Authorization -> AuthorizationStatus]
  /\ custodyLog \in Seq(CustodyEvent)
  /\ attempts \subseteq Attempt
  /\ cases \in Seq(FailureCase)
  /\ unsecured \subseteq SecuredEdges

(* A fulfillment as ensureForWkOrder creates it, nothing else yet.         *)
RecordsInit ==
  /\ order = "live"
  /\ status = "pending"
  /\ activeRider = None
  /\ version = 0
  /\ custodian = None
  /\ pendingTo = None
  /\ pendingFrom = 0
  /\ assignments = {}
  /\ pickupToken = [t \in PickupToken |-> NoToken]
  /\ custodyToken = [t \in CustodyToken |-> NoToken]
  /\ deliveryToken = [t \in DeliveryToken |-> NoToken]
  /\ returnToken = [t \in ReturnToken |-> NoToken]
  /\ recipient = [a \in Authorization |-> "UNISSUED"]
  /\ custodyLog = <<>>
  /\ attempts = {}
  /\ cases = <<>>
  /\ unsecured = {}

(***************************************************************************)
(* What several services do in the same way.                               *)
(***************************************************************************)

(* Every ACTIVE token of a table revoked.                                  *)
Revoked(table) ==
  [t \in DOMAIN table |->
     IF table[t].status = "ACTIVE" THEN [table[t] EXCEPT !.status = "REVOKED"]
                                   ELSE table[t]]

(* A fresh token, the prior ACTIVE ones revoked (reissue).                 *)
Issued(table, t, rider, ver, counterpart) ==
  [Revoked(table) EXCEPT
     ![t] = [status |-> "ACTIVE", rider |-> rider, version |-> ver,
             counterpart |-> counterpart]]

(* A token's status changed; the faulty one forgets the consumption.       *)
FaultyReusable(table, t, s) ==
  IF s = "CONSUMED" THEN table ELSE [table EXCEPT ![t].status = s]
Marked(table, t, s) == [table EXCEPT ![t].status = s]

(* The ACTIVE assignment of rider r at the current version exists.         *)
HasActiveAssignment(r, v) ==
  [rider |-> r, version |-> v, status |-> "ACTIVE"] \in assignments

(* The rows of the riders replaced.                                        *)
FaultyStillActive(rows) == rows
Superseded(rows) == {[a EXCEPT !.status = "SUPERSEDED"] : a \in rows}

(* assertPossessionDependentRiderAuthority: mid-possession, the active     *)
(* rider, and the custodian; an unset custodian falls back to the active   *)
(* rider unless a transfer is pending.                                     *)
MayActAsPossessor(r) ==
  /\ status \in MidPossession
  /\ activeRider = r
  /\ IF custodian = None THEN pendingTo = None ELSE custodian = r

(* transitionInTx called by a service as INTERNAL_SERVICE.                 *)
ServiceTransition(target) ==
  /\ TransitionAllowed("INTERNAL_SERVICE", status, target)
  /\ status' = target

(* A confirm that finds an ACTIVE token past its expiresAt writes EXPIRED, *)
(* commits and denies.  Time is abstracted: any ACTIVE token may be late.  *)
FaultyLowerCase(table, t) == Marked(table, t, "expired")
Expired(table, t) == Marked(table, t, "EXPIRED")

(* A case still under treatment.                                           *)
OpenCase(c) == c.status \in {"OPEN", "DISPOSITION_SELECTED"}

ActiveAuthorizations == {a \in Authorization : recipient[a] = "ACTIVE"}
=============================================================================
