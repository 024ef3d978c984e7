--------------------------- MODULE MCConsoleInbox ---------------------------
(***************************************************************************)
(* TLC instances of ConsoleInbox.                                          *)
(***************************************************************************)
EXTENDS ConsoleInbox, TLC

PhoneSymmetry == Permutations(Phones)
=============================================================================
