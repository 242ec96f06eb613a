------------------------------- MODULE AVLTree -------------------------------
(***************************************************************************)
(* The trees of src/object/st80/AVLTree.st.  Nodes are reached through one *)
(* parent only, so a tree is a value: <<>> for nil, or a node with its     *)
(* left tree, item, right tree and recorded height.  A node that is added  *)
(* has height 0, as nil has, until it is balanced: the heights the code    *)
(* balances by are not the true ones.                                      *)
(***************************************************************************)
EXTENDS Integers, Sequences

CONSTANTS TreeKey,       \* what the items are ordered by
          MaxItems   \* bound: items added

ASSUME KeyAssumption == TreeKey \subseteq Int
ASSUME MaxItemsAssumption == MaxItems \in Nat

VARIABLES root,    \* rootNode
          order,   \* orderBlock: "<", "<=", or ">" for [:a :b | b < a]
          added,   \* items added
          unknown  \* a message was not understood, which ends the program

treeVars == <<root, order, added, unknown>>

\* Items of equal keys are told apart by when they were added.
KeyedItem(k, n) == <<k, n>>
Precedes(by, a, b) ==
    \/ by = "<"  /\ a[1] < b[1]
    \/ by = "<=" /\ a[1] <= b[1]
    \/ by = ">"  /\ b[1] < a[1]

NoTree == <<>>
TreeNode(l, v, r, h) == <<l, v, r, h>>
LeftOf(t)   == t[1]
ItemOf(t)  == t[2]
RightOf(t)  == t[3]
HeightOf(t) == IF t = NoTree THEN 0 ELSE t[4]
DeltaOf(t)  == HeightOf(LeftOf(t)) - HeightOf(RightOf(t))

Higher(m, n) == IF m < n THEN n ELSE m
\* Mutant: the height of the left tree is taken for the higher.
MeasuredLeft(t) == TreeNode(LeftOf(t), ItemOf(t), RightOf(t), HeightOf(LeftOf(t)) + 1)
Measured(t) ==
    TreeNode(LeftOf(t), ItemOf(t), RightOf(t), Higher(HeightOf(LeftOf(t)), HeightOf(RightOf(t))) + 1)

(* balance sends itself through the rotations, three sends deep at most:   *)
(* again is the send one deeper, and the deepest would lose a tree that it *)
(* had to rotate.                                                          *)
\* The node that goes down, with the tree it takes over from the pivot.
DownLeftLosing(t) == TreeNode(LeftOf(t), ItemOf(t), NoTree, HeightOf(t))    \* mutant
DownLeft(t)  == TreeNode(LeftOf(t), ItemOf(t), LeftOf(RightOf(t)), HeightOf(t))
DownRight(t) == TreeNode(RightOf(LeftOf(t)), ItemOf(t), RightOf(t), HeightOf(t))

RotateLeft(again(_), t) ==
    LET pivot == RightOf(t)
    IN  again(TreeNode(again(DownLeft(t)), ItemOf(pivot), RightOf(pivot), HeightOf(pivot)))
RotateRight(again(_), t) ==
    LET pivot == LeftOf(t)
    IN  again(TreeNode(LeftOf(pivot), ItemOf(pivot), again(DownRight(t)), HeightOf(pivot)))

BalanceBy(again(_), t) ==
    IF DeltaOf(t) < -1
    THEN LET r == IF DeltaOf(RightOf(t)) > 0 THEN RotateRight(again, RightOf(t)) ELSE RightOf(t)
         IN  RotateLeft(again, TreeNode(LeftOf(t), ItemOf(t), r, HeightOf(t)))
    ELSE IF DeltaOf(t) > 1
    THEN LET l == IF DeltaOf(LeftOf(t)) < 0 THEN RotateLeft(again, LeftOf(t)) ELSE LeftOf(t)
         IN  RotateRight(again, TreeNode(l, ItemOf(t), RightOf(t), HeightOf(t)))
    ELSE Measured(t)

Deepest(t)      == IF DeltaOf(t) \in -1 .. 1 THEN Measured(t) ELSE NoTree
BalanceAgain(t) == BalanceBy(Deepest, t)
Balance(t)      == BalanceBy(BalanceAgain, t)

\* The trees of n levels at most, and those that MaxItems items can make.
TreeItem == TreeKey \X Nat
Trees[n \in Nat] ==
    IF n = 0 THEN {NoTree}
    ELSE LET below == Trees[n - 1]
         IN  {NoTree} \cup (below \X TreeItem \X below \X Nat)
Tree == Trees[MaxItems]

Insert(tree, x) ==
    LET Inserted[t \in Tree] ==
          IF t = NoTree THEN TreeNode(NoTree, x, NoTree, 0)
          ELSE IF Precedes(order, x, ItemOf(t))
          THEN Balance(TreeNode(Inserted[LeftOf(t)], ItemOf(t), RightOf(t), HeightOf(t)))
          ELSE Balance(TreeNode(LeftOf(t), ItemOf(t), Inserted[RightOf(t)], HeightOf(t)))
    IN  Inserted[tree]

TreeInit ==
    /\ root = NoTree /\ order \in {"<", "<=", ">"}
    /\ added = 0 /\ unknown = FALSE

AddItem(k) ==
    /\ ~unknown /\ added < MaxItems
    /\ root' = Insert(root, KeyedItem(k, added))
    /\ added' = added + 1
    /\ UNCHANGED <<order, unknown>>

\* find: makes a node with with:, remove: sends avlTreeNodeRemove:orderedBy:,
\* which no class but UndefinedObject implements.
NotUnderstood ==
    /\ unknown' = TRUE
    /\ UNCHANGED <<root, order, added>>

FindItem == ~unknown /\ NotUnderstood
RemoveItem ==
    /\ ~unknown
    /\ \/ root = NoTree /\ UNCHANGED treeVars
       \/ root # NoTree /\ NotUnderstood

TreeNext == (\E k \in TreeKey : AddItem(k)) \/ FindItem \/ RemoveItem
TreeSpec == TreeInit /\ [][TreeNext]_treeVars

-----------------------------------------------------------------------------
\* What do: gives its block.
InOrder[t \in Tree] ==
    IF t = NoTree THEN <<>> ELSE InOrder[LeftOf(t)] \o <<ItemOf(t)>> \o InOrder[RightOf(t)]
Depth[t \in Tree] ==
    IF t = NoTree THEN 0 ELSE 1 + Higher(Depth[LeftOf(t)], Depth[RightOf(t)])
Subtrees[t \in Tree] ==
    IF t = NoTree THEN {} ELSE {t} \cup Subtrees[LeftOf(t)] \cup Subtrees[RightOf(t)]

(* Every recorded height is the number of levels below, or one less (a new *)
(* leaf counts as nothing until it is balanced), and those of siblings     *)
(* differ by one at most: true depths differ by two at most, where an AVL  *)
(* tree's differ by one.                                                   *)
NearlyBalanced ==
    \A t \in Subtrees[root] :
        /\ Depth[t] - HeightOf(t) \in {0, 1}
        /\ DeltaOf(t) \in -1 .. 1

(* Whatever is rotated, do: visits the items in order, and equal items in  *)
(* the order they were added ("<=": the latest first).                     *)
Ordered == INSTANCE SortedItems WITH items <- InOrder[root]
OrderedSpec == Ordered!Spec
=============================================================================
