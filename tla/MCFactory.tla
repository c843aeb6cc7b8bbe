------------------------------ MODULE MCFactory ------------------------------
(* Factory for TLC: three clients, so that one can close a bus while another *)
(* creates its successor and a third finds that one.                        *)
EXTENDS Factory

=============================================================================
