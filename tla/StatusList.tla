------------------------------ MODULE StatusList ------------------------------
(***************************************************************************)
(* What the message status page promises: the table holds one page of the  *)
(* messages that match a filter, a new filter opens the first page, and    *)
(* the two buttons turn one page at a time.  The promise lapses when       *)
(* answers are lost or mixed up, and only opening a list renews it.        *)
(***************************************************************************)
EXTENDS Integers

CONSTANTS
  Filters,        (* what may be listed                                    *)
  Rows,           (* the possible contents of the table                    *)
  Sizes,          (* how many messages there may be                        *)
  PageOf(_, _, _) (* PageOf(f, n, size): page n of the first size messages *)

VARIABLES
  filter,  (* the filter whose messages are listed                         *)
  page,    (* the number of the page in the table                          *)
  table,   (* the messages in the table                                    *)
  kept     (* whether the promise holds at present                         *)

listVars == <<filter, page, table, kept>>

ListInit ==
  /\ filter \in Filters
  /\ page = 1
  /\ table \in Rows
  /\ ~kept

Shows(f, n) == \E size \in Sizes : table' = PageOf(f, n, size)

Open(f) ==
  /\ filter' = f
  /\ page' = 1
  /\ kept'
  /\ Shows(f, 1)

Turn(n) ==
  /\ kept
  /\ n \in {page - 1, page + 1}
  /\ n > 0
  /\ page' = n
  /\ Shows(filter, n)
  /\ UNCHANGED <<filter, kept>>

Lapse ==
  /\ ~kept'
  /\ filter' \in Filters
  /\ page' \in Int
  /\ table' \in Rows

ListNext == \/ \E f \in Filters : Open(f)
            \/ Turn(page + 1)
            \/ Turn(page - 1)
            \/ Lapse

ListSpec == ListInit /\ [][ListNext]_listVars
=============================================================================
