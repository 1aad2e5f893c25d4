----------------------------- MODULE RecordBook -----------------------------
(***************************************************************************)
(* What the HACCP checklists promise an inspector: a book whose pages are  *)
(* only ever added to.  A page says which checklist it is, of which day,   *)
(* and which readings it needs; readings are noted on it and never struck  *)
(* out; it is signed once all it needs is noted, and stays signed.         *)
(***************************************************************************)
EXTENDS Naturals, Sequences

CONSTANT Readings
VARIABLE book

Init == book = << >>

\* A new page, for any checklist, day and needs, after the others.
Open ==
    /\ Len(book') = Len(book) + 1
    /\ \A n \in DOMAIN book : book'[n] = book[n]
    /\ LET page == book'[Len(book')]
       IN page.needs \subseteq Readings /\ page.noted = {} /\ ~page.signed

Note(n) == \E e \in Readings : book' = [book EXCEPT ![n].noted = @ \cup {e}]

Sign(n) ==
    /\ book[n].needs \subseteq book[n].noted
    /\ book' = [book EXCEPT ![n].signed = TRUE]

Next == Open \/ \E n \in DOMAIN book : Note(n) \/ Sign(n)

Spec == Init /\ [][Next]_book
=============================================================================
