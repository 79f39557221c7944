--------------------------- MODULE MCKilixSession ---------------------------
(* KilixSession on a small instance. *)
EXTENDS KilixSession, TLC

(* Workers differ only in their order of arrival: safety runs may exchange them. *)
Interchangeable == Permutations(Workers)

=============================================================================
