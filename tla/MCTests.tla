------------------------------- MODULE MCTests ------------------------------
(* The names of the tests are the model's constants.                         *)
EXTENDS Tests

=============================================================================
