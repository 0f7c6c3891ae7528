------------------------------ MODULE Clusters ------------------------------
(***************************************************************************)
(* Clusters of neighbouring features with the same code, the "complex      *)
(* changes" of the change layers: ComplexChangeProperty._fill_cluster_new  *)
(* in vector/helper.py.  The pairs are read in any order and merged in a   *)
(* union-find forest, where the smaller root becomes the parent; find()    *)
(* lets everything it passes point to the root.  The recursion of find()   *)
(* is a walk here: up along the parents, with the nodes passed in trail,   *)
(* then down, when all of them get the root as their parent.               *)
(***************************************************************************)
EXTENDS Integers, FiniteSets

CONSTANTS
    Fid         \* the identifiers of the layer's features

ASSUME FidAssumption == Fid \subseteq Nat

VARIABLES
    rows,       \* the pairs the SELECT returned
    todo,       \* those not merged yet
    parent,     \* the dict parent: the links of the forest
    stage,      \* "none", "pairs", "first" (find i), "second" (find j), "flatten", "filled"
    pair,       \* the pair being merged
    root_i,     \* what the first find() returned
    at,         \* where the walk of find() stands
    trail,      \* the nodes it has passed
    left        \* the nodes the dict comprehension has not looked up yet

forest == <<rows, todo, parent, stage, pair, root_i, at, trail, left>>

Pair == {p \in Fid \X Fid : p[1] < p[2]}

Known == DOMAIN parent

-----------------------------------------------------------------------------
(* Sets that a relation cannot leave: a set is closed under some pairs when *)
(* it has both ends of each or none.  Two features belong together when no  *)
(* closed set separates them.                                               *)

Closed(S, pairs) == \A p \in pairs : p[1] \in S <=> p[2] \in S

ClosedUp(S) == \A x \in Known : x \in S <=> parent[x] \in S

Together(x, y, pairs) == \A S \in SUBSET Fid : Closed(S, pairs) => (x \in S <=> y \in S)

-----------------------------------------------------------------------------
(* find(): up to the root, then all nodes on the way point to it.           *)

AtRoot == parent[at] = at

\* Path halving in place of path compression (a mutant).
Halved == [x \in Known |-> IF x \in trail THEN parent[parent[x]] ELSE parent[x]]

Compressed == [x \in Known |-> IF x \in trail THEN at ELSE parent[x]]

\* union(): the larger root gets the smaller one as its parent.
Linked(links, a, b) ==
    IF a < b THEN [links EXCEPT ![b] = a] ELSE [links EXCEPT ![a] = b]

-----------------------------------------------------------------------------
NoForest ==
    /\ rows = {}
    /\ todo = {}
    /\ parent = [x \in {} |-> x]
    /\ stage = "none"
    /\ pair = <<0, 0>>
    /\ root_i = 0
    /\ at = 0
    /\ trail = {}
    /\ left = {}

(* The SELECT; without a row the function returns at once.                  *)
SelectPairs(R) ==
    /\ stage \in {"none", "filled"}
    /\ rows' = R
    /\ todo' = R
    /\ parent' = [x \in {} |-> x]
    /\ stage' = IF R = {} THEN "filled" ELSE "pairs"
    /\ pair' = <<0, 0>>
    /\ root_i' = 0
    /\ at' = 0
    /\ trail' = {}
    /\ left' = {}

(* union(i, j) begins: both ends are made known and find(i) starts.         *)
BeginUnion ==
    /\ stage = "pairs"
    /\ \E p \in todo :
         /\ pair' = p
         /\ parent' = [x \in Known \union {p[1], p[2]} |->
                          IF x \in Known THEN parent[x] ELSE x]
         /\ at' = p[1]
    /\ stage' = "first"
    /\ trail' = {}
    /\ UNCHANGED <<rows, todo, root_i, left>>

(* One call of find() deeper.                                               *)
Climb ==
    /\ stage \in {"first", "second", "flatten"}
    /\ ~AtRoot
    /\ trail' = trail \union {at}
    /\ at' = parent[at]
    /\ UNCHANGED <<rows, todo, parent, stage, pair, root_i, left>>

(* find(i) returns and find(j) starts.                                      *)
FirstFound ==
    /\ stage = "first"
    /\ AtRoot
    /\ parent' = Compressed
    /\ root_i' = at
    /\ at' = pair[2]
    /\ trail' = {}
    /\ stage' = "second"
    /\ UNCHANGED <<rows, todo, pair, left>>

(* find(j) returns and different roots are linked; after the last pair the  *)
(* dict comprehension looks every node up once more.                        *)
SecondFound ==
    /\ stage = "second"
    /\ AtRoot
    /\ parent' = IF root_i = at THEN Compressed ELSE Linked(Compressed, root_i, at)
    /\ todo' = todo \ {pair}
    /\ trail' = {}
    /\ \/ /\ todo' # {}
          /\ stage' = "pairs"
          /\ UNCHANGED <<at, left>>
       \/ /\ todo' = {}
          /\ stage' = "flatten"
          /\ \E x \in Known : at' = x /\ left' = Known \ {x}
    /\ UNCHANGED <<rows, pair, root_i>>

(* A look-up of the comprehension returns and the next one starts.          *)
LookedUp ==
    /\ stage = "flatten"
    /\ AtRoot
    /\ parent' = Compressed
    /\ trail' = {}
    /\ \/ /\ left = {}
          /\ stage' = "filled"
          /\ UNCHANGED <<at, left>>
       \/ /\ \E x \in left : at' = x /\ left' = left \ {x}
          /\ UNCHANGED stage
    /\ UNCHANGED <<rows, todo, pair, root_i>>

MergeStep == BeginUnion \/ Climb \/ FirstFound \/ SecondFound \/ LookedUp

ClusterNext == (\E R \in SUBSET Pair : SelectPairs(R)) \/ MergeStep

ClusterSpec == NoForest /\ [][ClusterNext]_forest

-----------------------------------------------------------------------------
(* When the clusters are written to the meta table, two features have one   *)
(* cluster identifier exactly when a chain of pairs joins them, whatever    *)
(* the order of the rows was: merging the last rows of the SELECT (or       *)
(* compressing a path) loses no earlier merge.                              *)
ClustersAreTrue ==
    stage = "filled" =>
        \A x, y \in Known : parent[x] = parent[y] <=> Together(x, y, rows)

(* The identifier of a cluster is the smallest fid in it, so that the areas *)
(* of the initial and of the final code can be compared fid by fid.         *)
SmallestIsRoot ==
    stage = "filled" =>
        \A x \in Known : /\ parent[x] <= x
                         /\ Together(x, parent[x], rows)

(* What the merges preserve (the inductive invariant of the proofs).        *)
ClusterTypes ==
    /\ rows \subseteq Pair
    /\ todo \subseteq rows
    /\ Known \subseteq Fid
    /\ parent \in [Known -> Known]
    /\ stage \in {"none", "pairs", "first", "second", "flatten", "filled"}
    /\ trail \subseteq Known
    /\ left \subseteq Known
    /\ stage = "pairs" => todo # {}
    /\ stage \in {"first", "second"} => pair \in todo /\ {pair[1], pair[2]} \subseteq Known
    /\ stage \in {"first", "second", "flatten"} => at \in Known
    /\ stage \in {"flatten", "filled"} => todo = {}

\* Every link goes to a smaller feature, so find() ends.
LinksGoDown == \A x \in Known : parent[x] <= x

\* A closed set of the pairs merged so far is closed under the links,
Sound == \A S \in SUBSET Fid : Closed(S, rows \ todo) => ClosedUp(S)

\* and the other way round: the forest tells all that the pairs tell.
Complete == \A S \in SUBSET Fid : ClosedUp(S) => Closed(S, rows \ todo)

\* The nodes passed are above the node the walk stands on.
WalkInv ==
    /\ \A x \in trail : at < x /\ parent[x] # x /\ parent[x] \in trail \union {at}
    /\ stage \in {"pairs", "none", "filled"} => trail = {}
    /\ \A S \in SUBSET Fid : ClosedUp(S) => \A x \in trail : x \in S <=> at \in S
    /\ \A S \in SUBSET Fid : ClosedUp(S) /\ stage = "first" => (pair[1] \in S <=> at \in S)
    /\ \A S \in SUBSET Fid : ClosedUp(S) /\ stage = "second" => (pair[2] \in S <=> at \in S)
    /\ stage = "second" =>
          /\ root_i \in Known
          /\ parent[root_i] = root_i
          /\ \A S \in SUBSET Fid : ClosedUp(S) => (pair[1] \in S <=> root_i \in S)

\* Nodes looked up point to a root.
FlatInv ==
    /\ stage = "flatten" =>
          \A x \in Known \ left : x \in trail \union {at} \/ parent[parent[x]] = parent[x]
    /\ stage = "filled" => \A x \in Known : parent[parent[x]] = parent[x]

ClusterInv == ClusterTypes /\ LinksGoDown /\ Sound /\ Complete /\ WalkInv /\ FlatInv

=============================================================================
