------------------------------- MODULE RbTree -------------------------------
(***************************************************************************)
(* The augmented red-black tree of kernel/src/libs/rbtree.c, as the        *)
(* scheduler uses it: nodes in key order (a node's key is its number) and  *)
(* in every node the least value of its subtree (subtree_min_vruntime).    *)
(*                                                                         *)
(* A tree is a record of the links; an operator maps a tree to the tree    *)
(* the C function leaves.  The mirrored halves of the C functions are one  *)
(* definition with the side as a parameter.                                *)
(***************************************************************************)
EXTENDS Integers, FiniteSets, FiniteSetsExt

CONSTANTS
    N,          \* the nodes are 1..N
    Values      \* the values (vruntime) a node can have

Nil == 0
Nodes == 1..N
Sides == {"left", "right"}
Other(d) == IF d = "left" THEN "right" ELSE "left"

ASSUME ConstantsAssumption == N \in Nat /\ Values \subseteq Nat

VARIABLES
    tree,
    members     \* the nodes that were inserted and not removed

rbVars == <<tree, members>>

Black(t, n) == n = Nil \/ n \notin t.red
Red(t, n) == n # Nil /\ n \in t.red
Side(t, p, n) == IF t.kid[p]["left"] = n THEN "left" ELSE "right"

SetParent(t, n, p) == IF n = Nil THEN t ELSE [t EXCEPT !.parent[n] = p]
SetBlack(t, n) == [t EXCEPT !.red = @ \ {n}]
SetRed(t, n) == [t EXCEPT !.red = @ \cup {n}]
SetColorOf(t, n, m) == IF m \in t.red THEN SetRed(t, n) ELSE SetBlack(t, n)

\* n takes the place of old under p, or at the root.
Replace(t, p, old, n) ==
    IF p = Nil THEN [t EXCEPT !.root = n] ELSE [t EXCEPT !.kid[p][Side(t, p, old)] = n]

\* sched_update_subtree_min_vruntime
Augment(t, n) ==
    [t EXCEPT !.low[n] =
        Min({t.val[n]} \cup {t.low[c] : c \in {t.kid[n][d] : d \in Sides} \ {Nil}})]

RECURSIVE AugmentPath(_, _)
AugmentPath(t, n) ==
    IF n = Nil THEN t ELSE AugmentPath(Augment(t, n), t.parent[n])

\* Mutant: a rotation leaves the old minima.
RotateOnly(t, n, d) ==
    LET up == t.kid[n][Other(d)]
        mid == t.kid[up][d]
        p == t.parent[n]
        a == SetParent([t EXCEPT !.kid[n][Other(d)] = mid, !.kid[up][d] = n], mid, n)
    IN  [Replace(a, p, n, up) EXCEPT !.parent[up] = p, !.parent[n] = up]

\* __rb_rotate_left (d = "left") and __rb_rotate_right.
Rotate(t, n, d) ==
    LET up == t.kid[n][Other(d)]
        mid == t.kid[up][d]
        p == t.parent[n]
        a == SetParent([t EXCEPT !.kid[n][Other(d)] = mid, !.kid[up][d] = n], mid, n)
        b == [Replace(a, p, n, up) EXCEPT !.parent[up] = p, !.parent[n] = up]
    IN  Augment(Augment(b, n), up)

-----------------------------------------------------------------------------
(* Insertion                                                               *)

RECURSIVE InsertColor(_, _)
InsertColor(t, n) ==
    LET p == t.parent[n] IN
    IF ~Red(t, p) THEN SetBlack(t, t.root)
    ELSE LET g == t.parent[p]
             d == Side(t, g, p)
             uncle == t.kid[g][Other(d)]
         IN  IF Red(t, uncle)
             THEN InsertColor(SetRed(SetBlack(SetBlack(t, uncle), p), g), g)
             ELSE LET inner == t.kid[p][Other(d)] = n
                      a == IF inner THEN Rotate(t, p, d) ELSE t
                      top == IF inner THEN n ELSE p
                      low == IF inner THEN p ELSE n
                  IN  InsertColor(Rotate(SetRed(SetBlack(a, top), g), g, Other(d)), low)

\* The descent of sched_entity_enqueue_locked: the parent of the free slot.
RECURSIVE Slot(_, _, _)
Slot(t, at, n) ==
    LET next == t.kid[at][IF n < at THEN "left" ELSE "right"] IN
    IF next = Nil THEN at ELSE Slot(t, next, n)

Insert(t, n, v) ==
    LET p == IF t.root = Nil THEN Nil ELSE Slot(t, t.root, n)
        a == [t EXCEPT !.val[n] = v, !.low[n] = v, !.parent[n] = p, !.red = @ \cup {n}]
        b == IF p = Nil THEN [a EXCEPT !.root = n]
             ELSE [a EXCEPT !.kid[p][IF n < p THEN "left" ELSE "right"] = n]
    IN  InsertColor(AugmentPath(b, n), n)

-----------------------------------------------------------------------------
(* Removal                                                                 *)

RECURSIVE EraseColor(_, _, _)
EraseColor(t, n, p) ==
    IF Red(t, n) \/ n = t.root THEN IF n = Nil THEN t ELSE SetBlack(t, n)
    ELSE LET d == Side(t, p, n)
             sib == t.kid[p][Other(d)]
             a == IF Red(t, sib) THEN Rotate(SetRed(SetBlack(t, sib), p), p, d) ELSE t
             o == a.kid[p][Other(d)]
             near == a.kid[o][d]
             far == a.kid[o][Other(d)]
         IN  IF Black(a, near) /\ Black(a, far)
             THEN EraseColor(SetRed(a, o), p, a.parent[p])
             ELSE LET b == IF Black(a, far)
                           THEN Rotate(SetRed(SetBlack(a, near), o), o, Other(d))
                           ELSE a
                      q == b.kid[p][Other(d)]
                      c == SetBlack(SetBlack(SetColorOf(b, q, p), p), b.kid[q][Other(d)])
                      e == Rotate(c, p, d)
                  IN  SetBlack(e, e.root)

\* The first node of a subtree.
RECURSIVE Leftmost(_, _)
Leftmost(t, n) == IF t.kid[n]["left"] = Nil THEN n ELSE Leftmost(t, t.kid[n]["left"])

\* sched_run_node_reset, after the erase.
Reset(t, n) ==
    [t EXCEPT !.kid[n] = [d \in Sides |-> Nil], !.parent[n] = Nil, !.red = @ \ {n},
              !.val[n] = 0, !.low[n] = 0]

\* A node with at most one child is replaced by that child.
EraseSimple(t, n) ==
    LET c == IF t.kid[n]["left"] = Nil THEN t.kid[n]["right"] ELSE t.kid[n]["left"]
        p == t.parent[n]
        a == AugmentPath(Replace(SetParent(t, c, p), p, n, c), p)
    IN  IF n \in t.red THEN a ELSE EraseColor(a, c, p)

\* A node with two children is replaced by its successor.
EraseInner(t, old) ==
    LET n == Leftmost(t, t.kid[old]["right"])
        c == t.kid[n]["right"]
        up == t.parent[n]
        next == up = old
        p == IF next THEN n ELSE up
        a == Replace(t, t.parent[old], old, n)
        b == IF next THEN a
             ELSE SetParent([SetParent(a, c, up) EXCEPT !.kid[up]["left"] = c,
                                                       !.kid[n]["right"] = t.kid[old]["right"]],
                            t.kid[old]["right"], n)
        e == SetColorOf([b EXCEPT !.parent[n] = t.parent[old],
                                  !.kid[n]["left"] = t.kid[old]["left"]], n, old)
        f == AugmentPath(SetParent(e, t.kid[old]["left"], n), p)
    IN  IF n \in t.red THEN f ELSE EraseColor(f, c, p)

Erase(t, n) ==
    Reset(IF Nil \in {t.kid[n][d] : d \in Sides} THEN EraseSimple(t, n)
          ELSE EraseInner(t, n), n)

-----------------------------------------------------------------------------
(* Walks                                                                   *)

First(t) == IF t.root = Nil THEN Nil ELSE Leftmost(t, t.root)

RECURSIVE Climb(_, _)
Climb(t, n) ==
    IF t.parent[n] # Nil /\ t.kid[t.parent[n]]["right"] = n
    THEN Climb(t, t.parent[n]) ELSE t.parent[n]

NextNode(t, n) ==
    IF t.kid[n]["right"] # Nil THEN Leftmost(t, t.kid[n]["right"]) ELSE Climb(t, n)

\* sched_first_eligible_locked, which skips a subtree by its minimum.
RECURSIVE FirstEligible(_, _, _)
FirstEligible(t, n, max) ==
    IF n = Nil \/ t.low[n] > max THEN Nil
    ELSE LET found == FirstEligible(t, t.kid[n]["left"], max) IN
         IF found # Nil THEN found
         ELSE IF t.val[n] <= max THEN n
         ELSE FirstEligible(t, t.kid[n]["right"], max)

-----------------------------------------------------------------------------
RbInit ==
    /\ tree = [root |-> Nil, kid |-> [n \in Nodes |-> [d \in Sides |-> Nil]],
               parent |-> [n \in Nodes |-> Nil], red |-> {},
               val |-> [n \in Nodes |-> 0], low |-> [n \in Nodes |-> 0]]
    /\ members = {}

RbAdd(n, v) ==
    /\ n \notin members
    /\ tree' = Insert(tree, n, v)
    /\ members' = members \cup {n}

RbRemove(n) ==
    /\ n \in members
    /\ tree' = Erase(tree, n)
    /\ members' = members \ {n}

RbNext == \E n \in Nodes : RbRemove(n) \/ \E v \in Values : RbAdd(n, v)

RbSpec == RbInit /\ [][RbNext]_rbVars

-----------------------------------------------------------------------------
RECURSIVE Subtree(_)
Subtree(n) ==
    IF n = Nil THEN {}
    ELSE {n} \cup Subtree(tree.kid[n]["left"]) \cup Subtree(tree.kid[n]["right"])

RECURSIVE BlackHeights(_)
BlackHeights(n) ==
    IF n = Nil THEN {0}
    ELSE {h + IF n \in tree.red THEN 0 ELSE 1 :
             h \in BlackHeights(tree.kid[n]["left"]) \cup BlackHeights(tree.kid[n]["right"])}

\* The tree holds exactly the inserted nodes, in key order, and every parent
\* link is the inverse of a child link.
Ordered ==
    /\ Subtree(tree.root) = members
    /\ tree.root # Nil => tree.parent[tree.root] = Nil
    /\ \A n \in members :
          /\ \A m \in Subtree(tree.kid[n]["left"]) : m < n
          /\ \A m \in Subtree(tree.kid[n]["right"]) : m > n
          /\ \A d \in Sides : tree.kid[n][d] # Nil => tree.parent[tree.kid[n][d]] = n

\* The colours keep the tree balanced: a black root, no red child of a red
\* node, the same number of black nodes on every path.
Balanced ==
    /\ Black(tree, tree.root)
    /\ \A n \in members : n \in tree.red => \A d \in Sides : Black(tree, tree.kid[n][d])
    /\ Cardinality(BlackHeights(tree.root)) = 1

\* Every node's minimum is the minimum of its subtree, after rotations and
\* deletions too, so the pick may trust it (sched_subtree_min_vruntime).
MinimaExact ==
    \A n \in members : tree.low[n] = Min({tree.val[m] : m \in Subtree(n)})

\* The pruned search finds the first node whose value is small enough, and
\* rb_first and rb_next visit the nodes in order.
SearchMatches ==
    /\ \A max \in Values :
          FirstEligible(tree, tree.root, max) =
              Min({n \in members : tree.val[n] <= max} \cup {N + 1}) % (N + 1)
    /\ First(tree) = Min(members \cup {N + 1}) % (N + 1)
    /\ \A n \in members :
          NextNode(tree, n) = Min({m \in members : m > n} \cup {N + 1}) % (N + 1)

\* The tree the scheduler picks from is right after every insertion and
\* removal: ordered, balanced, with exact minima, and searched correctly.
TreeSound == Ordered /\ Balanced /\ MinimaExact /\ SearchMatches

=============================================================================
