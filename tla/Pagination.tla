----------------------------- MODULE Pagination -----------------------------
(***************************************************************************)
(* How the List methods of the services cut their result into pages.  A    *)
(* row is known here by its rank in the order of the query, from 1.  The   *)
(* order is that of created_at alone: rows of the same millisecond, which  *)
(* the database may order anew in every query, are left out.               *)
(***************************************************************************)
EXTENDS Integers

DefaultSize == 20
MaxSize == 100

\* What List makes of the page and the page size it is asked for.
Page(asked) == IF asked <= 0 THEN 1 ELSE asked
PageSize(asked) ==
    IF asked <= 0 THEN DefaultSize ELSE IF asked > MaxSize THEN MaxSize ELSE asked

\* OFFSET (page - 1) * size LIMIT size takes the rows of these ranks.
OnPage(rank, page, size) == (page - 1) * size < rank /\ rank <= page * size

\* Mutant of TotalPages: a division that rounds down.
TotalPagesDown(total, size) == total \div size

\* ceil(total / size)
TotalPages(total, size) == (total + size - 1) \div size

=============================================================================
