------------------------------ MODULE Requests ------------------------------
(***************************************************************************)
(* The table "requests" of the validator's SQLite database (models/        *)
(* request.go), reached through gorm by the cachers, the signer and the    *)
(* server.  A row is identified by its Id, so the table is a function;     *)
(* NoRow is the zero models.Request that a lookup leaves in place when     *)
(* there is no such row.  Of the columns only CreatedAt and Status are     *)
(* ever tested or rewritten.                                               *)
(***************************************************************************)
EXTENDS Models

CONSTANTS
    RequestIds,      \* every request id of either chain
    StoreReadsFail   \* whether a lookup whose error is ignored may fail

ASSUME RequestsAssumption == StoreReadsFail \in BOOLEAN

VARIABLE requests

Row   == [createdAt : Nat, status : Status]
NoRow == [createdAt |-> 0, status |-> None]

RequestsTypeOK == requests \in [RequestIds -> Row]

RequestsInit == requests = [r \in RequestIds |-> NoRow]

Stored(r) == requests[r] # NoRow

\* The row with another status.
WithStatus(row, s) == [createdAt |-> row.createdAt, status |-> s]

\* The table after a Save of row r that changes its status.
SaveStatus(r, s) == requests' = [requests EXCEPT ![r] = WithStatus(requests[r], s)]

NewOrNoRows == {r \in RequestIds : requests[r].status \in {None, New}}   \* mutant of NewRows

\* The requests that "Where Status = New" finds.
NewRows == {r \in RequestIds : requests[r].status = New}

\* What First(...) of a request may report to a caller that looks at the
\* result and not at the error.
FindRequest(r) == IF StoreReadsFail THEN {Stored(r), FALSE} ELSE {Stored(r)}
=============================================================================
