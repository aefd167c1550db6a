------------------------------- MODULE MCTable -------------------------------
(***************************************************************************)
(* Small tables for TLC: two tricks to a round, of which the last one is   *)
(* played at once as the eighth is in the program.                         *)
(***************************************************************************)
EXTENDS LobbyScreens

\* The bound on the seats held by accounts, while guests may take all the others: at a
\* public or local table the first seat, which owns the table at first.  At a private
\* table everybody is a guest.
FewAccounts ==
  {s \in Position : lobby.seats[s].account # NoAccount}
    \subseteq (IF kind = "private" THEN {} ELSE {0})

=============================================================================
