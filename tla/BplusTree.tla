----------------------------- MODULE BplusTree ------------------------------
(***************************************************************************)
(* The B+ tree of an index (src/observer/storage/index): insert, delete    *)
(* and scan by concurrent threads, the latches they take on their way down *)
(* (crabbing), and the mini-transactions that log what they changed.       *)
(*                                                                         *)
(* Every change of a page is a log entry applied to it, as in the code,    *)
(* where the redo of an entry runs the function that made the change.  An  *)
(* operation first collects entries (the record m), and applies them as it *)
(* goes; at its end they are appended to the log as one record.            *)
(*                                                                         *)
(* A key is the pair of an attribute value and a RID, here a number; the   *)
(* RID of a leaf item is not kept.  A thread takes one latch per step; what *)
(* it does with all its latches held is one step.                          *)
(***************************************************************************)
EXTENDS Integers, FiniteSetsExt, SequencesExt

CONSTANTS
  Threads,
  LeafMax,        \* leaf_max_size
  InternalMax,    \* internal_max_size
  PageBound,      \* pages the file has room for
  Keys,           \* keys that operations are called with
  InitialInserts, \* the tree is built by one of these sequences of insertions
  OpBound         \* bound: operations

ASSUME BplusTreeAssumption ==
  /\ LeafMax \in Nat /\ LeafMax >= 4 /\ InternalMax \in Nat /\ InternalMax >= 4
  /\ PageBound \in Nat \ {0} /\ OpBound \in Nat
  /\ Keys \subseteq Nat \ {0} /\ \A s \in InitialInserts : \A i \in DOMAIN s : s[i] \in Nat \ {0}

BP_INVALID_PAGE_NUM == 0
FIRST_INDEX_PAGE    == 0       \* the header page; it has no node
RootLock            == -1      \* root_lock_, kept with the latches
PageNums            == 1..PageBound
Latchable           == {RootLock, FIRST_INDEX_PAGE} \cup PageNums
None                == <<>>

VARIABLES
  tree,       \* the root page and the nodes
  used,       \* pages that are allocated
  latch,      \* of each page, and root_lock_: readers and writer
  th,         \* what each thread is doing
  clog,       \* the log: one record, a sequence of entries, per mini-transaction
  lsn,        \* the LSN of each page
  base,       \* the tree before the log (history)
  content,    \* the keys that should be in the tree (history)
  clashed,    \* pages that two threads had unlogged changes of (history)
  early,      \* those of them that one of the two had just made (history)
  ops,        \* operations so far
  dead        \* the process used a null pointer

clashes == <<clashed, early>>
hist == <<base, clashes>>
vars == <<tree, used, latch, th, clog, lsn, hist, content, ops, dead>>

IndexNode == [leaf : BOOLEAN, keys : Seq(Nat), children : Seq(PageNums),
              parent : 0..PageBound, next : 0..PageBound]
EmptyNode(leaf) == [leaf |-> leaf, keys |-> <<>>, children |-> <<>>,
                    parent |-> BP_INVALID_PAGE_NUM, next |-> BP_INVALID_PAGE_NUM]
Unlatched == [readers |-> {}, writer |-> None]
Idle == [pc |-> "idle", op |-> "READ", key |-> 0, page |-> 0, log |-> <<>>, lsn |-> 0,
         disposed |-> {}, must |-> {}, seen |-> {}]

-----------------------------------------------------------------------------
(* Log entries (LogOperation).  Items of an internal node are keys with     *)
(* children; those of a leaf have no children.                              *)
UpdateRoot(p, old)    == [type |-> "UPDATE_ROOT_PAGE", page |-> FIRST_INDEX_PAGE, value |-> p, old |-> old]
SetParent(p, q, old)  == [type |-> "SET_PARENT_PAGE", page |-> p, value |-> q, old |-> old]
SetNext(p, q, old)    == [type |-> "LEAF_SET_NEXT_PAGE", page |-> p, value |-> q, old |-> old]
InitEmpty(p, leaf)    == [type |-> "INIT_EMPTY", page |-> p, leaf |-> leaf]
CreateNewRoot(p, items) == [type |-> "INTERNAL_CREATE_NEW_ROOT", page |-> p, items |-> items]
UpdateKey(p, i, k, old) == [type |-> "INTERNAL_UPDATE_KEY", page |-> p, index |-> i, value |-> k, old |-> old]
InsertItems(p, i, items) == [type |-> "NODE_INSERT", page |-> p, index |-> i, items |-> items]
RemoveItems(p, i, items) == [type |-> "NODE_REMOVE", page |-> p, index |-> i, items |-> items]

Items(keys, children) == [keys |-> keys, children |-> children]
ItemsOf(n, i, j) == Items(SubSeq(n.keys, i, j), IF n.leaf THEN <<>> ELSE SubSeq(n.children, i, j))
Size(n) == Len(n.keys)

(* recover_insert_items, recover_remove_items: index counts from 0.         *)
Spliced(s, i, new) == SubSeq(s, 1, i) \o new \o SubSeq(s, i + 1, Len(s))
Cut(s, i, num)     == SubSeq(s, 1, i) \o SubSeq(s, i + num + 1, Len(s))

(* What an entry does to its page, when it is made and when it is redone.   *)
ApplyToNode(n, e) ==
  CASE e.type = "SET_PARENT_PAGE"          -> [n EXCEPT !.parent = e.value]
    [] e.type = "LEAF_SET_NEXT_PAGE"       -> [n EXCEPT !.next = e.value]
    [] e.type = "INIT_EMPTY"               -> EmptyNode(e.leaf)
    [] e.type = "INTERNAL_CREATE_NEW_ROOT" -> [n EXCEPT !.keys = e.items.keys, !.children = e.items.children]
    [] e.type = "INTERNAL_UPDATE_KEY"      -> [n EXCEPT !.keys[e.index + 1] = e.value]
    [] e.type = "NODE_INSERT" ->
         [n EXCEPT !.keys = Spliced(@, e.index, e.items.keys),
                   !.children = IF n.leaf THEN @ ELSE Spliced(@, e.index, e.items.children)]
    [] e.type = "NODE_REMOVE" ->
         [n EXCEPT !.keys = Cut(@, e.index, Len(e.items.keys)),
                   !.children = IF n.leaf THEN @ ELSE Cut(@, e.index, Len(e.items.children))]
Apply(t, e) == IF e.type = "UPDATE_ROOT_PAGE" THEN [t EXCEPT !.root = e.value]
               ELSE [t EXCEPT !.node[e.page] = ApplyToNode(@, e)]

(* A mini-transaction: the tree as it has changed it, its entries, and what *)
(* it allocated and disposed of.                                            *)
Begin(t, log, pages, gone) == [tree |-> t, log |-> log, used |-> pages, disposed |-> gone, failed |-> FALSE]
Do(m, e)   == [m EXCEPT !.tree = Apply(@, e), !.log = Append(@, e)]
Run(m, es) == FoldLeft(Do, m, es)
Node(m, p) == m.tree.node[p]
CanAllocate(m) == m.used # PageNums
NewPage(m)     == Min(PageNums \ m.used)
Allocated(m)   == [m EXCEPT !.used = @ \cup {NewPage(m)}]
Failed(m)      == [m EXCEPT !.failed = TRUE]

-----------------------------------------------------------------------------
MaxSize(n) == IF n.leaf THEN LeafMax ELSE InternalMax
MinSize(n) == MaxSize(n) - MaxSize(n) \div 2

(* lower_bound: the number of keys below the key (LeafIndexNodeHandler).    *)
LeafLookup(n, key)  == Cardinality({i \in DOMAIN n.keys : n.keys[i] < key})

(* InternalIndexNodeHandler::lookup: the first key is not looked at.        *)
InsertPosition(n, key) == 1 + Cardinality({i \in 2..Size(n) : n.keys[i] < key})
ChildIndex(n, key)     == Cardinality({i \in 2..Size(n) : n.keys[i] <= key})
ChildOf(n, key)        == n.children[ChildIndex(n, key) + 1]

(* insert_items of either kind of node: the children learn their parent.    *)
PutItems(m, p, i, items) ==
  Run(m, <<InsertItems(p, i, items)>> \o
         [c \in DOMAIN items.children |->
            SetParent(items.children[c], p, Node(m, items.children[c]).parent)])
AppendItems(m, p, items) == PutItems(m, p, Size(Node(m, p)), items)
TakeItems(m, p, i, num)  ==
  Run(m, <<RemoveItems(p, i, ItemsOf(Node(m, p), i + 1, i + num))>>)

(* move_half_to, move_first_to_end, move_last_to_front, move_to.            *)
MoveHalf(m, p, q) ==
  LET n == Node(m, p)
      h == Size(n) \div 2
  IN TakeItems(AppendItems(m, q, ItemsOf(n, h + 1, Size(n))), p, h, Size(n) - h)
MoveFirstToEnd(m, p, q) ==
  TakeItems(AppendItems(m, q, ItemsOf(Node(m, p), 1, 1)), p, 0, 1)
MoveLastToFront(m, p, q) ==
  LET n == Node(m, p)
  IN TakeItems(PutItems(m, q, 0, ItemsOf(n, Size(n), Size(n))), p, Size(n) - 1, 1)
MoveAll(m, p, q) ==
  LET n == Node(m, p)
  IN TakeItems(AppendItems(m, q, ItemsOf(n, 1, Size(n))), p, 0, Size(n))

(* split: the new page q gets the right half of p.                          *)
Split(m, p, q) ==
  LET n  == Node(m, p)
      m1 == Run(Allocated(m), <<InitEmpty(q, n.leaf), SetParent(q, n.parent, BP_INVALID_PAGE_NUM)>>)
  IN MoveHalf(m1, p, q)

(* insert_entry_into_parent: p was split, q is the new page to its right.   *)
RECURSIVE InsertIntoParent(_, _, _, _)
InsertIntoParent(m, p, q, key) ==
  LET up   == Node(m, p).parent
      new  == NewPage(m)
      Link(m1, r) == Run(m1, <<InsertItems(r, InsertPosition(Node(m1, r), key), Items(<<key>>, <<q>>)),
                               SetParent(q, r, Node(m1, q).parent)>>)
  IN CASE up = BP_INVALID_PAGE_NUM /\ CanAllocate(m) ->
            Run(Allocated(m), <<InitEmpty(new, FALSE), CreateNewRoot(new, Items(<<0, key>>, <<p, q>>)),
                                SetParent(p, new, up), SetParent(q, new, Node(m, q).parent),
                                UpdateRoot(new, m.tree.root)>>)
       [] up # BP_INVALID_PAGE_NUM /\ Size(Node(m, up)) < InternalMax -> Link(m, up)
       [] up # BP_INVALID_PAGE_NUM /\ Size(Node(m, up)) >= InternalMax /\ CanAllocate(m) ->
            LET m1   == Split(m, up, new)
                pivot == Node(m1, new).keys[1]
            IN InsertIntoParent(Link(m1, IF key > pivot THEN new ELSE up), up, new, pivot)
       [] OTHER -> Failed(m)

(* insert_entry_into_leaf_node.                                             *)
InsertIntoLeaf(m, p, key) ==
  LET n   == Node(m, p)
      pos == LeafLookup(n, key)
      q   == NewPage(m)
      item == Items(<<key>>, <<>>)
      m1  == Split(m, p, q)
      m2  == Run(m1, <<SetNext(q, n.next, BP_INVALID_PAGE_NUM), SetParent(q, n.parent, n.parent),
                       SetNext(p, q, n.next)>>)
      left == Size(Node(m2, p))
      m3  == Run(m2, <<IF pos < left THEN InsertItems(p, pos, item) ELSE InsertItems(q, pos - left, item)>>)
  IN CASE Size(n) < LeafMax                 -> Run(m, <<InsertItems(p, pos, item)>>)
       [] Size(n) >= LeafMax /\ CanAllocate(m) -> InsertIntoParent(m3, p, q, Node(m3, q).keys[1])
       [] OTHER                             -> Failed(m)

(* create_new_tree *)
CreateNewTree(m, key) ==
  LET p == NewPage(m)
  IN Run(Allocated(m), <<InitEmpty(p, TRUE), InsertItems(p, 0, Items(<<key>>, <<>>)),
                         UpdateRoot(p, m.tree.root)>>)

(* adjust_root: an empty leaf, or an internal node with one child.          *)
AdjustRoot(m, p) ==
  LET n == Node(m, p)
      child == IF n.leaf THEN BP_INVALID_PAGE_NUM ELSE n.children[1]
      es == IF n.leaf THEN <<>> ELSE <<SetParent(child, BP_INVALID_PAGE_NUM, p)>>
  IN IF n.leaf /\ Size(n) > 0 THEN m
     ELSE [Run(m, es \o <<UpdateRoot(child, m.tree.root)>>) EXCEPT !.disposed = @ \cup {p}]

(* redistribute and coalesce: p has too few items; it is the child at index *)
(* of its parent, and nb the neighbour.                                     *)
Redistribute(m, nb, p, index) ==
  LET up == Node(m, p).parent
      m1 == IF index = 0 THEN MoveFirstToEnd(m, nb, p) ELSE MoveLastToFront(m, nb, p)
      at == IF index = 0 THEN 1 ELSE index
      key == Node(m1, IF index = 0 THEN nb ELSE p).keys[1]
  IN Run(m1, <<UpdateKey(up, at, key, Node(m1, up).keys[at + 1])>>)

Coalesce(m, nb, p, index) ==
  LET up    == Node(m, p).parent
      left  == IF index = 0 THEN p ELSE nb
      right == IF index = 0 THEN nb ELSE p
      m1    == MoveAll(TakeItems(m, up, IF index = 0 THEN 1 ELSE index, 1), right, left)
      next  == IF Node(m, p).leaf THEN <<SetNext(left, Node(m, right).next, Node(m, left).next)>> ELSE <<>>
  IN [Run(m1, next) EXCEPT !.disposed = @ \cup {right}]

IndexInParent(n, up) == ChildIndex(up, n.keys[Size(n)])
Neighbor(up, index)  == up.children[IF index = 0 THEN 2 ELSE index]

-----------------------------------------------------------------------------
(* A tree built by one thread.                                              *)
NoTree == Begin([root |-> BP_INVALID_PAGE_NUM, node |-> [p \in PageNums |-> EmptyNode(TRUE)]], <<>>, {}, {})
RECURSIVE FindLeaf(_, _, _)
FindLeaf(t, p, key) == IF t.node[p].leaf THEN p ELSE FindLeaf(t, ChildOf(t.node[p], key), key)
InsertAlone(m, key) ==
  IF m.tree.root = BP_INVALID_PAGE_NUM THEN CreateNewTree(m, key)
  ELSE InsertIntoLeaf(m, FindLeaf(m.tree, m.tree.root, key), key)

Init ==
  /\ \E s \in InitialInserts :
       LET m == FoldLeft(InsertAlone, NoTree, s)
       IN tree = m.tree /\ used = m.used /\ content = Range(s)
  /\ base = tree
  /\ latch = [x \in Latchable |-> Unlatched]
  /\ th = [t \in Threads |-> Idle]
  /\ clog = <<>> /\ lsn = [p \in Latchable |-> 0]
  /\ clashed = {} /\ early = {} /\ ops = 0 /\ dead = FALSE

-----------------------------------------------------------------------------
(* LatchMemo *)
Reads(t)     == th[t].op = "READ"
Free(t, x)   == latch[x].writer = None /\ (Reads(t) \/ latch[x].readers = {})
Held(t)      == {x \in Latchable : t \in latch[x].readers \/ latch[x].writer = t}
Latched(t, x) == [latch EXCEPT ![x] = IF Reads(t) THEN [@ EXCEPT !.readers = @ \cup {t}]
                                      ELSE [@ EXCEPT !.writer = t]]
ReleasedFrom(l, t, S) ==
  [x \in Latchable |-> IF x \in S THEN [readers |-> l[x].readers \ {t},
                                        writer |-> IF l[x].writer = t THEN None ELSE l[x].writer]
                       ELSE l[x]]
ReleaseAll(t) == latch' = ReleasedFrom(latch, t, Latchable)

Pending(t)    == {th[t].log[i].page : i \in DOMAIN th[t].log}
To(t, pc)     == th' = [th EXCEPT ![t].pc = pc]
Goto(t, pc, p) == th' = [th EXCEPT ![t].pc = pc, ![t].page = p]

(* The mini-transaction of t so far, and how a step of it shows.            *)
Mtr(t) == Begin(tree, th[t].log, used, th[t].disposed)
(* The header page is latched when the root changes, then to the end.       *)
HeaderFree(t, m) == m.tree.root = tree.root \/ latch[FIRST_INDEX_PAGE] = Unlatched
LatchesDropped(t, m, l) == ReleasedFrom(l, t, Latchable)  \* plausible bug: the latches go before the log entries are written
HeaderLatched(t, m, l) == IF m.tree.root = tree.root THEN l ELSE [l EXCEPT ![FIRST_INDEX_PAGE].writer = t]
(* New pages are latched by split; a new root is not.                       *)
NewLatched(t, m, l) ==
  [x \in Latchable |-> IF x \in (m.used \ used) \ {m.tree.root} THEN [l[x] EXCEPT !.writer = t] ELSE l[x]]
Fresh(t) == {e.page : e \in {x \in Range(th[t].log) : x.type = "INIT_EMPTY"}}
Shows(t, m) ==
  LET mine == {m.log[i].page : i \in (Len(th[t].log) + 1)..Len(m.log)}
      others == Threads \ {t}
  IN /\ tree' = m.tree /\ used' = m.used
     /\ clashed' = clashed \cup (mine \cap UNION {Pending(u) : u \in others})
     /\ early' = early \cup (mine \cap UNION {Fresh(u) : u \in others})

-----------------------------------------------------------------------------
(* insert_entry looks without a latch whether there is a tree.              *)
StartInsert(t, key) ==
  /\ th[t].pc = "idle" /\ ops < OpBound /\ ops' = ops + 1
  /\ th' = [th EXCEPT ![t] = [Idle EXCEPT !.op = "INSERT", !.key = key,
                                          !.pc = IF tree.root = BP_INVALID_PAGE_NUM THEN "create" ELSE "root"]]
  /\ UNCHANGED <<tree, used, latch, clog, lsn, hist, content, dead>>

StartDelete(t, key) ==
  /\ th[t].pc = "idle" /\ ops < OpBound /\ ops' = ops + 1
  /\ th' = [th EXCEPT ![t] = [Idle EXCEPT !.op = "DELETE", !.key = key, !.pc = "root"]]
  /\ UNCHANGED <<tree, used, latch, clog, lsn, hist, content, dead>>

(* BplusTreeScanner::open; must: the keys that are there from now on.       *)
StartScan(t, key) ==
  /\ th[t].pc = "idle" /\ ops < OpBound /\ ops' = ops + 1
  /\ th' = [th EXCEPT ![t] = [Idle EXCEPT !.key = key, !.pc = "root",
                                          !.must = {k \in content : k >= key}]]
  /\ UNCHANGED <<tree, used, latch, clog, lsn, hist, content, dead>>

(* With root_lock_ insert_entry looks again, and creates the tree.  The     *)
(* lock is given up at once; the leaf is not latched, the header page is.   *)
CreateTree(t) ==
  /\ th[t].pc = "create" /\ latch[RootLock] = Unlatched
  /\ IF tree.root = BP_INVALID_PAGE_NUM
     THEN LET m == CreateNewTree(Mtr(t), th[t].key)
          IN /\ CanAllocate(Mtr(t)) /\ HeaderFree(t, m)
             /\ Shows(t, m) /\ latch' = HeaderLatched(t, m, latch)
             /\ content' = content \cup {th[t].key}
             /\ th' = [th EXCEPT ![t].pc = "commit", ![t].log = m.log]
     ELSE To(t, "root") /\ UNCHANGED <<tree, used, latch, clashes, content>>
  /\ UNCHANGED <<clog, lsn, base, ops, dead>>

(* find_leaf_internal: root_lock_.  Without a tree, EMPTY: the operation is *)
(* over, and fails if it is an insertion.                                   *)
FindRoot(t) ==
  /\ th[t].pc = "root" /\ Free(t, RootLock)
  /\ \/ /\ tree.root = BP_INVALID_PAGE_NUM /\ UNCHANGED latch
        /\ IF Reads(t) THEN To(t, "done") ELSE th' = [th EXCEPT ![t] = Idle]
     \/ /\ tree.root # BP_INVALID_PAGE_NUM
        /\ latch' = Latched(t, RootLock) /\ Goto(t, "descend", tree.root)
  /\ UNCHANGED <<tree, used, clog, lsn, hist, content, ops, dead>>

(* Plausible bug: a full node is taken for safe.                            *)
IsSafeFull(n, op, is_root) ==
  CASE op = "READ"   -> TRUE
    [] op = "INSERT" -> Size(n) <= MaxSize(n)
    [] op = "DELETE" -> IF is_root THEN Size(n) > (IF n.leaf THEN 1 ELSE 2) ELSE Size(n) > MinSize(n)

(* IndexNodeHandler::is_safe: the operation will not reach the parent.      *)
IsSafe(n, op, is_root) ==
  CASE op = "READ"   -> TRUE
    [] op = "INSERT" -> Size(n) < MaxSize(n)
    [] op = "DELETE" -> IF is_root THEN Size(n) > (IF n.leaf THEN 1 ELSE 2) ELSE Size(n) > MinSize(n)

(* crabing_protocal_fetch_page: latch the child; if it is safe, give up all *)
(* that is above it.                                                        *)
Descend(t) ==
  LET p == th[t].page
      n == tree.node[p]
      above == IF IsSafe(n, th[t].op, p = tree.root) THEN Held(t) ELSE {}
  IN /\ th[t].pc = "descend" /\ Free(t, p)
     /\ latch' = ReleasedFrom(Latched(t, p), t, above)
     /\ IF n.leaf THEN To(t, "leaf") ELSE Goto(t, "descend", ChildOf(n, th[t].key))
     /\ UNCHANGED <<tree, used, clog, lsn, hist, content, ops, dead>>

-----------------------------------------------------------------------------
(* BplusTreeLogger::rollback undoes the entries from the last to the first  *)
(* through the base class IndexNodeHandler, whose __item_at is null: an     *)
(* entry that moves items in memory ends the process.  It cannot with items *)
(* at the end of a node.                                                    *)
UndoCrashes(n, e) ==
  \/ e.type = "NODE_REMOVE"
  \/ e.type = "NODE_INSERT" /\ e.index < Size(n) - Len(e.items.keys)
RollbackCrashes(m) == \E i \in DOMAIN m.log : UndoCrashes(Node(m, m.log[i].page), m.log[i])

(* The leaf is reached by an insertion.  A key that is there, or no page    *)
(* for the leaf's split, is an error before anything is changed; no page    *)
(* for a node above it, or for a root, is rolled back.                      *)
InsertLeaf(t) ==
  LET p == th[t].page
      m == InsertIntoLeaf(Mtr(t), p, th[t].key)
  IN /\ th[t].pc = "leaf" /\ th[t].op = "INSERT"
     /\ \/ /\ Contains(tree.node[p].keys, th[t].key) \/ (m.failed /\ m.log = <<>>)
           /\ ReleaseAll(t) /\ th' = [th EXCEPT ![t] = Idle]
           /\ UNCHANGED <<tree, used, clashes, content, dead>>
        \/ /\ ~ Contains(tree.node[p].keys, th[t].key) /\ m.failed /\ m.log # <<>>
           /\ dead' = RollbackCrashes(m)
           /\ ReleaseAll(t) /\ th' = [th EXCEPT ![t] = Idle]
           /\ UNCHANGED <<tree, used, clashes, content>>
        \/ /\ ~ Contains(tree.node[p].keys, th[t].key) /\ ~ m.failed /\ HeaderFree(t, m)
           /\ Shows(t, m) /\ latch' = HeaderLatched(t, m, NewLatched(t, m, latch))
           /\ content' = content \cup {th[t].key}
           /\ th' = [th EXCEPT ![t].pc = "commit", ![t].log = m.log]
           /\ UNCHANGED dead
     /\ UNCHANGED <<clog, lsn, base, ops>>

(* coalesce_or_redistribute, up to the neighbour's latch: p has been left   *)
(* with the items it has in m.                                              *)
Rebalanced(m, p) ==
  LET n == Node(m, p)
  IN IF n.parent = BP_INVALID_PAGE_NUM /\ Size(n) < MinSize(n) /\ Size(n) <= 1 THEN AdjustRoot(m, p) ELSE m
NeedsNeighbor(m, p) ==
  Node(m, p).parent # BP_INVALID_PAGE_NUM /\ Size(Node(m, p)) < MinSize(Node(m, p))

Continue(t, m0, p) ==
  LET m == Rebalanced(m0, p)
  IN /\ HeaderFree(t, m)
     /\ Shows(t, m) /\ th' = [u \in Threads |->
          IF u # t THEN [th[u] EXCEPT !.must = @ \ {th[t].key}]
          ELSE [th[t] EXCEPT !.pc = IF NeedsNeighbor(m, p) THEN "neighbor" ELSE "commit",
                             !.page = p, !.log = m.log, !.disposed = m.disposed]]

(* delete_entry_internal *)
DeleteLeaf(t) ==
  LET p == th[t].page
      n == tree.node[p]
      m == TakeItems(Mtr(t), p, LeafLookup(n, th[t].key), 1)
  IN /\ th[t].pc = "leaf" /\ th[t].op = "DELETE"
     /\ \/ /\ ~ Contains(n.keys, th[t].key)
           /\ ReleaseAll(t) /\ th' = [th EXCEPT ![t] = Idle]
           /\ UNCHANGED <<tree, used, clashes, content>>
        \/ /\ Contains(n.keys, th[t].key)
           /\ Continue(t, m, p)
           /\ latch' = HeaderLatched(t, Rebalanced(m, p), latch)
           /\ content' = content \ {th[t].key}
     /\ UNCHANGED <<clog, lsn, base, ops, dead>>

(* Plausible bug: redistribute forgets the parent's key.                    *)
RebalanceKeepsKey(m, nb, p, index) ==
  IF Size(Node(m, p)) + Size(Node(m, nb)) > MaxSize(Node(m, p))
  THEN IF index = 0 THEN MoveFirstToEnd(m, nb, p) ELSE MoveLastToFront(m, nb, p)
  ELSE Coalesce(m, nb, p, index)

Rebalance(m, nb, p, index) ==
  IF Size(Node(m, p)) + Size(Node(m, nb)) > MaxSize(Node(m, p))
  THEN Redistribute(m, nb, p, index) ELSE Coalesce(m, nb, p, index)

(* The neighbour is latched, with the parent and p latched already, and the *)
(* two are evened out or made one; then the parent may have too few.        *)
LatchNeighbor(t) ==
  LET p   == th[t].page
      up  == tree.node[p].parent
      idx == IndexInParent(tree.node[p], tree.node[up])
      nb  == Neighbor(tree.node[up], idx)
      m   == Rebalance(Mtr(t), nb, p, idx)
      top == IF nb \in m.disposed \/ p \in m.disposed THEN up ELSE p
  IN /\ th[t].pc = "neighbor" /\ Free(t, nb)
     /\ Continue(t, m, top)
     /\ latch' = HeaderLatched(t, Rebalanced(m, top), Latched(t, nb))
     /\ UNCHANGED <<clog, lsn, base, content, ops, dead>>

-----------------------------------------------------------------------------
(* BplusTreeLogger::commit: the entries become one record of the log ...    *)
CommitLog(t) ==
  /\ th[t].pc = "commit"
  /\ clog' = Append(clog, th[t].log)
  /\ th' = [th EXCEPT ![t].pc = "release", ![t].lsn = Len(clog) + 1]
  /\ UNCHANGED <<tree, used, latch, lsn, hist, content, ops, dead>>

(* ... its pages get the LSN, the latches are given up and the pages that   *)
(* were emptied are disposed of (LatchMemo::release).                       *)
Release(t) ==
  /\ th[t].pc = "release"
  /\ lsn' = [x \in Latchable |-> IF x \in Pending(t) THEN th[t].lsn ELSE lsn[x]]
  /\ ReleaseAll(t)
  /\ used' = used \ th[t].disposed
  /\ th' = [th EXCEPT ![t] = Idle]
  /\ UNCHANGED <<tree, clog, hist, content, ops, dead>>

-----------------------------------------------------------------------------
(* The first leaf of a scan.  If all its keys are below the range, open()   *)
(* goes on to the next leaf.                                                *)
ScanLeaf(t) ==
  LET n == tree.node[th[t].page]
      beyond == LeafLookup(n, th[t].key) >= Size(n)
  IN /\ th[t].pc = "leaf" /\ Reads(t)
     /\ \/ /\ ~ beyond
           /\ th' = [th EXCEPT ![t].pc = "scan", ![t].seen = {k \in Range(n.keys) : k >= th[t].key}]
           /\ UNCHANGED latch
        \/ /\ beyond /\ n.next = BP_INVALID_PAGE_NUM
           /\ ReleaseAll(t) /\ To(t, "done")
        \/ /\ beyond /\ n.next # BP_INVALID_PAGE_NUM
           /\ Goto(t, "opennext", n.next) /\ UNCHANGED latch
     /\ UNCHANGED <<tree, used, clog, lsn, hist, content, ops, dead>>

(* open() waits for the latch of the next leaf, with the first one latched. *)
ScanOpenNext(t) ==
  LET p == th[t].page
  IN /\ th[t].pc = "opennext" /\ Free(t, p)
     /\ latch' = Latched(t, p)
     /\ th' = [th EXCEPT ![t].pc = "scan", ![t].seen = Range(tree.node[p].keys)]
     /\ UNCHANGED <<tree, used, clog, lsn, hist, content, ops, dead>>

(* Plausible bug: the leaf is given up before the next one is latched.      *)
ScanNextEarly(t) ==
  LET n == tree.node[th[t].page]
  IN /\ th[t].pc = "scan"
     /\ ReleaseAll(t)
     /\ IF n.next = BP_INVALID_PAGE_NUM THEN To(t, "done") ELSE Goto(t, "opennext", n.next)
     /\ UNCHANGED <<tree, used, clog, lsn, hist, content, ops, dead>>

(* Plausible bug: the latch of the next leaf is awaited, as anywhere else.  *)
ScanNextWaits(t) ==
  LET q == tree.node[th[t].page].next
  IN /\ th[t].pc = "scan"
     /\ IF q = BP_INVALID_PAGE_NUM THEN ReleaseAll(t) /\ To(t, "done")
        ELSE Goto(t, "descend", q) /\ UNCHANGED latch
     /\ UNCHANGED <<tree, used, clog, lsn, hist, content, ops, dead>>

(* next_entry, at the end of a leaf: the next one is latched if it is free, *)
(* else the scan returns LOCKED_NEED_WAIT and is closed.                    *)
ScanNext(t) ==
  LET q == tree.node[th[t].page].next
  IN /\ th[t].pc = "scan"
     /\ \/ /\ q = BP_INVALID_PAGE_NUM
           /\ ReleaseAll(t) /\ To(t, "done")
        \/ /\ q # BP_INVALID_PAGE_NUM /\ Free(t, q)
           /\ latch' = ReleasedFrom(Latched(t, q), t, Held(t))
           /\ th' = [th EXCEPT ![t].page = q, ![t].seen = @ \cup Range(tree.node[q].keys)]
        \/ /\ q # BP_INVALID_PAGE_NUM /\ ~ Free(t, q)
           /\ ReleaseAll(t) /\ th' = [th EXCEPT ![t] = Idle]
     /\ UNCHANGED <<tree, used, clog, lsn, hist, content, ops, dead>>

ScanClose(t) ==
  /\ th[t].pc = "done"
  /\ th' = [th EXCEPT ![t] = Idle]
  /\ UNCHANGED <<tree, used, latch, clog, lsn, hist, content, ops, dead>>

-----------------------------------------------------------------------------
Next ==
  /\ ~ dead
  /\ \E t \in Threads :
       \/ \E key \in Keys : StartInsert(t, key) \/ StartDelete(t, key) \/ StartScan(t, key)
       \/ CreateTree(t) \/ FindRoot(t) \/ Descend(t)
       \/ InsertLeaf(t) \/ DeleteLeaf(t) \/ LatchNeighbor(t)
       \/ CommitLog(t) \/ Release(t)
       \/ ScanLeaf(t) \/ ScanOpenNext(t) \/ ScanNext(t) \/ ScanClose(t)

Spec == Init /\ [][Next]_vars

-----------------------------------------------------------------------------
Live == used \ UNION {th[t].disposed : t \in Threads}
SortedFrom(s, i) == \A j \in i..(Len(s) - 1) : s[j] < s[j + 1]
Leaves == {p \in Live : tree.node[p].leaf}
KeysOf(S) == UNION {Range(tree.node[p].keys) : p \in S}
NodeValid(p) ==
  LET n == tree.node[p]
  IN /\ SortedFrom(n.keys, IF n.leaf THEN 1 ELSE 2)
     /\ Size(n) <= MaxSize(n)
     /\ Size(n) >= (IF p # tree.root THEN MinSize(n) ELSE IF n.leaf THEN 1 ELSE 2)
     /\ \A i \in DOMAIN n.children : n.children[i] \in Live /\ tree.node[n.children[i]].parent = p
     /\ p = tree.root \/ p \in Range(tree.node[n.parent].children)
LinkValid(p) ==
  LET n == tree.node[p]
      above == {q \in Leaves : Min(Range(tree.node[q].keys)) > Max(Range(n.keys))}
  IN IF above = {} THEN n.next = BP_INVALID_PAGE_NUM
     ELSE /\ n.next \in above
          /\ \A q \in above : Min(Range(tree.node[n.next].keys)) <= Min(Range(tree.node[q].keys))

(* validate_tree, whenever no thread is between two steps of a rebalancing: *)
(* sizes, order and links are right, and the leaves hold the keys that were *)
(* inserted and not deleted, each where find_leaf looks for it.             *)
TreeValid ==
  (\A t \in Threads : th[t].pc # "neighbor") /\ ~ dead =>
    IF tree.root = BP_INVALID_PAGE_NUM THEN content = {}
    ELSE /\ KeysOf(Leaves) = content
         /\ \A key \in content : Contains(tree.node[FindLeaf(tree, tree.root, key)].keys, key)
         /\ \A p \in Live : NodeValid(p)
         /\ \A p \in Leaves : LinkValid(p)

NewRoots(t) == {e.value : e \in {x \in Range(th[t].log) : x.type = "UPDATE_ROOT_PAGE"}}

(* The crabbing protocol: what a thread changes it has latched, to the end  *)
(* of its mini-transaction.  Only a child's pointer to its parent is set    *)
(* under the parent's latch alone, and a new root is not latched at all.    *)
ChangesLatched ==
  \A t \in Threads : \A e \in Range(th[t].log) :
    LET p == IF e.type = "SET_PARENT_PAGE" /\ e.value # BP_INVALID_PAGE_NUM THEN e.value ELSE e.page
    IN latch[p].writer = t \/ p \in NewRoots(t)

Logged(p) == FoldLeft(Apply, base, SelectSeq(FlattenSeq(clog), LAMBDA e : e.page = p))
LastRecord(p) ==
  LET about == {i \in DOMAIN clog : \E j \in DOMAIN clog[i] : clog[i][j].page = p}
  IN IF about = {} THEN 0 ELSE Max(about)

(* The log tells of the changes of a page in the order in which they were   *)
(* made, or in one that makes no difference: what the records make of a     *)
(* page is what it is, also if several mini-transactions changed it at the  *)
(* same time, each under another latch.  Not so the first leaf, which       *)
(* create_new_tree makes without a latch (bplus_tree.cpp:1524).  The LSN of *)
(* a page is that of the last record about it, if no two changed it at the  *)
(* same time.                                                               *)
LogReproduces ==
  LET settled == (PageNums \cup {FIRST_INDEX_PAGE}) \ UNION {Pending(t) : t \in Threads}
  IN /\ \A p \in settled \ early :
          IF p = FIRST_INDEX_PAGE THEN Logged(p).root = tree.root ELSE Logged(p).node[p] = tree.node[p]
     /\ \A p \in settled \ clashed : lsn[p] = LastRecord(p)

(* A scan that comes to its end has given out every key of its range that   *)
(* was there all the time, whatever was split or merged meanwhile.          *)
ScanMissesNothing == \A t \in Threads : th[t].pc = "done" => th[t].must \subseteq th[t].seen

(* Whom a thread waits for.  next_entry does not wait for a latch, because  *)
(* "that might cause a deadlock" (bplus_tree.cpp:2026).                     *)
WaitsFor(t) ==
  LET up == tree.node[tree.node[th[t].page].parent]
      x  == CASE th[t].pc \in {"root", "create"} -> RootLock
              [] th[t].pc \in {"descend", "opennext"} -> th[t].page
              [] OTHER -> Neighbor(up, IndexInParent(tree.node[th[t].page], up))
  IN IF th[t].pc \in {"root", "create", "descend", "opennext", "neighbor"}
     THEN ({latch[x].writer} \ {None}) \cup (IF Reads(t) THEN {} ELSE latch[x].readers)
     ELSE {}
Deadlocked == {D \in (SUBSET Threads) \ {{}} : \A t \in D : WaitsFor(t) \cap D # {}}

(* If threads wait for each other, one of them is open() of a scan, which   *)
(* waits for the next leaf with the first one latched.                      *)
DeadlocksAreScans == \A D \in Deadlocked : \E t \in D : th[t].pc = "opennext"
=============================================================================
