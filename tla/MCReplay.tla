------------------------------ MODULE MCReplay ------------------------------
(* The instances of MCBlockChain, with accounts assigned at any moment.         *)
EXTENDS MCBlockChain, BlockExecution
=============================================================================
