----------------------------- MODULE IssuePages -----------------------------
(***************************************************************************)
(* list_issue_page of ingestion/fetch.py.  GitHub lists issues and pull    *)
(* requests together, in pages; a screen shows Screen issues and no pull   *)
(* request, and a cursor is how many entries of GitHub's list lie before   *)
(* the screen (its page and offset).  At most Reach pages are read forward *)
(* and as many backward.                                                   *)
(***************************************************************************)
EXTENDS Naturals, Sequences, FiniteSets, FiniteSetsExt

CONSTANTS PerPage, Screen, Reach, NoCursor

ASSUME PagesAssumption ==
  /\ PerPage \in Nat \ {0} /\ Screen \in Nat \ {0} /\ Reach \in Nat \ {0}
  /\ NoCursor \notin Nat

\* The places of the issues of a list among those from first to last; an entry of the
\* list is TRUE for an issue and FALSE for a pull request.
IssuesIn(list, first, last) == {i \in first..last : i <= Len(list) /\ list[i]}

\* The k-th smallest, and the k-th largest, of a set of places.
Nth(places, k) == CHOOSE i \in places : Cardinality({j \in places : j <= i}) = k
NthLast(places, k) == CHOOSE i \in places : Cardinality({j \in places : j >= i}) = k

\* The last entry on the pages that are read forward.
ForwardEnd(cursor) == (cursor \div PerPage + Reach) * PerPage

OnScreen(list, cursor) ==
  LET found == IssuesIn(list, cursor + 1, ForwardEnd(cursor))
  IN  IF Cardinality(found) < Screen THEN found ELSE {i \in found : i <= Nth(found, Screen)}

\* Mutant: the next screen begins with GitHub's next page.
NextCursorNextPage(list, cursor) ==
  LET page == cursor \div PerPage + 1
  IN  IF page * PerPage < Len(list) THEN page * PerPage ELSE NoCursor

NextCursor(list, cursor) ==
  LET found == IssuesIn(list, cursor + 1, ForwardEnd(cursor))
      stop  == IF Cardinality(found) < Screen THEN ForwardEnd(cursor) ELSE Nth(found, Screen)
  IN  IF stop < Len(list) THEN stop ELSE NoCursor

\* Back to the Screen-th issue before the cursor; to the first there is when the list
\* begins before that; to the start of the last page that was read when Reach are.
PreviousCursor(list, cursor) ==
  LET newest == (cursor + PerPage - 1) \div PerPage          \* pages that begin before it
      oldest == IF newest < Reach THEN 0 ELSE (newest - Reach) * PerPage
      found  == IssuesIn(list, oldest + 1, cursor)
  IN  IF Cardinality(found) >= Screen THEN NthLast(found, Screen) - 1
      ELSE IF newest >= Reach THEN oldest
      ELSE IF found = {} THEN NoCursor ELSE Min(found) - 1

\* The screens a reader sees who starts at the first one and follows Next, of which
\* there are no more than entries, or one.
Screens(list) ==
  LET cursor[n \in 1..Len(list) + 1] ==
        IF n = 1 THEN 0
        ELSE IF cursor[n - 1] = NoCursor THEN NoCursor ELSE NextCursor(list, cursor[n - 1])
  IN  [n \in {m \in 1..Len(list) + 1 : cursor[m] # NoCursor} |->
         [cursor |-> cursor[n], shown |-> OnScreen(list, cursor[n]),
          previous |-> PreviousCursor(list, cursor[n])]]
=============================================================================
