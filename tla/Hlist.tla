------------------------------- MODULE Hlist -------------------------------
(***************************************************************************)
(* The kernel's hlist, as the tunnel drivers use it to find a device from  *)
(* a socket: a head points at the first node, a node at the next one and   *)
(* back at the pointer that points at it.  A node has room for one list    *)
(* only; putting it on a second one forgets the first one's head.          *)
(*                                                                         *)
(* A list structure is a record: first[h] of each head, next[n] and        *)
(* pprev[n] of each node, where pprev is the head or node holding the      *)
(* pointer to n, UNHASHED before the first use and POISON after a removal. *)
(***************************************************************************)
EXTENDS Naturals, FiniteSets

UNHASHED == "unhashed"
POISON == "poison"

EmptyLists(heads, nodes, none) ==
    [first |-> [h \in heads |-> none], next |-> [n \in nodes |-> none],
     pprev |-> [n \in nodes |-> UNHASHED]]

\* hlist_add_head_rcu()
AddHead(l, h, n, none) ==
    LET old == l.first[h]
    IN  [l EXCEPT !.next[n] = old,
                  !.pprev = [m \in DOMAIN @ |-> IF m = n THEN h
                                                ELSE IF m = old THEN n ELSE @[m]],
                  !.first[h] = n]

\* !hlist_unhashed(): also true of a node that was removed with hlist_del_rcu()
Hashed(l, n) == l.pprev[n] # UNHASHED

\* hlist_del_rcu(): the next pointer is kept for readers on their way
DelRcu(l, n, none) ==
    LET back == l.pprev[n]
        after == l.next[n]
    IN  [l EXCEPT
           !.first = [h \in DOMAIN @ |-> IF h = back THEN after ELSE @[h]],
           !.next = [m \in DOMAIN @ |-> IF m = back THEN after ELSE @[m]],
           !.pprev = [m \in DOMAIN @ |-> IF m = n THEN POISON
                                         ELSE IF m = after THEN back ELSE @[m]]]

\* the nodes met when the list of head h is walked
OnList(l, h, none) ==
    LET step[k \in 0..Cardinality(DOMAIN l.next)] ==
          IF k = 0 THEN l.first[h]
          ELSE IF step[k - 1] = none THEN none ELSE l.next[step[k - 1]]
    IN  {step[k] : k \in DOMAIN step} \ {none}
=============================================================================
