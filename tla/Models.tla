------------------------------- MODULE Models -------------------------------
(***************************************************************************)
(* The enumerations of models/enums.go.  They keep their Go values because *)
(* the zero value is meaningful: a failed contract call and a failed table *)
(* lookup both hand the caller a record whose status is None.              *)
(***************************************************************************)
EXTENDS Naturals

None     == 0
New      == 1
Rejected == 2
Success  == 3
Returned == 4

Status == None .. Returned
=============================================================================
