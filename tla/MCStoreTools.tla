---------------------------- MODULE MCStoreTools ----------------------------
(* The processes of MCStore and the questions of MCToolAnswers.           *)
EXTENDS MCStore, StoreTools, MCToolAnswers
=============================================================================
