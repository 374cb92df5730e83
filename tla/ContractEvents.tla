--------------------------- MODULE ContractEvents ---------------------------
(* The events of the two contracts of contracts/eth.go that are used as     *)
(* they are, not only as a base of another: Supersymmetry and its Token.    *)
(* The events of Token may be filtered by their addresses.                  *)

SupersymmetryEvents == {"Mint", "NewRequest", "Return", "StatusChanged"}
TokenEvents         == {"Approval", "MinterAdded", "MinterRemoved", "Transfer"}
Events              == SupersymmetryEvents \cup TokenEvents
=============================================================================
