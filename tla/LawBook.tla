-------------------------------- MODULE LawBook --------------------------------
(***************************************************************************)
(* What a board promises about its law, without saying how.  The book has  *)
(* one page per accepted envelope, the law as of that offset.  A page is   *)
(* added at the end and never rewritten: "the policy in force at offset o" *)
(* has one answer for ever, whenever it is asked.                          *)
(***************************************************************************)
EXTENDS Naturals, Sequences

VARIABLE book

Init == book = << >>

Enact ==
    /\ Len(book') = Len(book) + 1
    /\ \A o \in DOMAIN book : book'[o] = book[o]

Spec == Init /\ [][Enact]_book

=============================================================================
