------------------------------- MODULE ListX -------------------------------
(***************************************************************************)
(* The circular doubly linked lists of listx.h, as pure operators on a     *)
(* memory  m = [next |-> ..., prev |-> ...]  that maps the address of a    *)
(* list_head (a "cell") to the cells its two pointers hold.                *)
(*                                                                         *)
(* The stores are kept in the order the C functions make them, so that the *)
(* operators also say what happens when two arguments are the same cell    *)
(* (the ends of an empty list) or when a cell is stale: list_del leaves    *)
(* the pointers of the deleted cell as they were.                          *)
(***************************************************************************)
EXTENDS Integers, FiniteSets

CONSTANT NULL

\* A store through NULL, where there is no cell, changes no list.

\* next->prev = new; new->next = next; new->prev = prev; prev->next = new
__list_add(m, new, prev, next) ==
  [next |-> [m.next EXCEPT ![new] = next, ![prev] = new],
   prev |-> [m.prev EXCEPT ![next] = new, ![new] = prev]]

list_add(m, new, head) == __list_add(m, new, head, m.next[head])

list_add_tail(m, new, head) == __list_add(m, new, m.prev[head], head)

\* next->prev = prev; prev->next = next
__list_del(m, prev, next) ==
  [next |-> [m.next EXCEPT ![prev] = next],
   prev |-> [m.prev EXCEPT ![next] = prev]]

list_del(m, entry) == __list_del(m, m.prev[entry], m.next[entry])

list_empty(m, head) == m.next[head] = head

\* the first cell of the list, NULL when the list is empty
list_next(m, current) ==
  IF list_empty(m, current) THEN NULL ELSE m.next[current]

\* INIT_LIST_HEAD of the sentinels; every other cell is static storage that
\* no initialisation has written (thread_init leaves t_sched alone)
init_list_heads(Cells, Sentinels) ==
  LET init == [c \in Cells |-> IF c \in Sentinels THEN c ELSE NULL]
  IN  [next |-> init, prev |-> init]

-----------------------------------------------------------------------------
(***************************************************************************)
(* What it means for a memory to be a set of well-formed lists.  `home`    *)
(* maps each cell to the sentinel of the list it should be on, NULL for a  *)
(* cell that should be on no list.  The pointers of a cell that is on a    *)
(* list stay in that list and invert each other, and no set of listed      *)
(* cells closes a ring without the sentinel: whoever walks from a cell     *)
(* along next gets to the sentinel, and from there back to the cell.       *)
(***************************************************************************)
Inverse_pointers(m, home) ==
  \A c \in DOMAIN home :
    home[c] # NULL =>
      /\ m.next[c] \in DOMAIN home  /\  m.prev[c] \in DOMAIN home
      /\ home[m.next[c]] = home[c]  /\  home[m.prev[c]] = home[c]
      /\ m.prev[m.next[c]] = c      /\  m.next[m.prev[c]] = c

Listed(home) == { c \in DOMAIN home : home[c] \notin {NULL, c} }

No_stray_ring(m, home) ==
  \A S \in SUBSET Listed(home) : S # {} => \E c \in S : m.next[c] \notin S

Rings(m, home) == Inverse_pointers(m, home) /\ No_stray_ring(m, home)
=============================================================================
