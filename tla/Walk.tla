-------------------------------- MODULE Walk --------------------------------
(***************************************************************************)
(* walk of src/rust/src/walk.rs over FsLister, and of src/src/walk.zig     *)
(* that it was ported from: a tree is visited breadth-first or depth-first *)
(* while others create and delete parts of it.  Each step looks at the     *)
(* filesystem at most once, or calls the visitor once; what a step learned *)
(* may be stale by the next.                                               *)
(*                                                                         *)
(* A path is the sequence of names that leads to it from the root of the   *)
(* walk.  One walk is modelled, from its call to its return.               *)
(***************************************************************************)
EXTENDS Integers, SequencesExt

CONSTANTS
  Names,        \* names of directory entries
  Rank,         \* their bytewise order
  Paths,        \* the paths of the tree, and of what may be created in it
  Trees,        \* trees a walk may find
  Options,      \* walks asked for; `types`: listings tell kinds (d_type); `follow`
                \* and `values` are for the visitor
  Unlimited,    \* no depth limit: max_depth None
  Faults,       \* what reading a directory may fail with apart from its state
  MaxChanges,   \* bound: changes others make during one walk
  Creatable,    \* what others put into the tree
  FollowsLinks, \* a link found in place of a directory is listed through: Rust's
                \* read_dir does, Zig opens without following
  AllocFails    \* an allocation may be refused: an answer in Zig, an abort in Rust

VARIABLES
  tree,      \* what is at each path
  options,   \* of the walk
  pc,
  node,      \* the node taken from `pending`
  pending,   \* the queue, consumed nodes included, or the stack
  head,      \* nodes of the queue already consumed
  unknown,   \* entries of a directory whose kind is still to be asked for
  found,     \* entries whose kind is known
  kids,      \* sorted entries not visited yet
  failure,   \* why the directory could not be listed
  result     \* what walk returns

VARIABLES
  log,       \* history: the visits, in order
  steady,    \* history: paths nothing has happened to since the walk began
  was,       \* history: every kind a path has had since then
  changes    \* how often others have changed the tree since then

walkVars == <<options, pc, node, pending, head, unknown, found, kids, failure, result>>
history  == <<log, steady, was, changes>>
vars     == <<tree, walkVars, history>>

Root  == <<>>
Kinds == {"other", "directory", "symlink"}

\* What may be at a path: nothing, one of the kinds (a link being one to some
\* file), a link to nowhere, or a link to the root of the walk.
Things == Kinds \cup {"dangling", "loop", "none"}

KindOf(thing) == IF thing \in {"dangling", "loop"} THEN "symlink" ELSE thing

\* A tree hangs together: what exists is in a directory.
Rooted(t) == \A p \in Paths \ {Root} : t[p] # "none" => t[Front(p)] = "directory"

ASSUME TreeAssumption ==
  /\ IsFiniteSet(Names)
  /\ Rank \in [Names -> Nat]
  /\ \A m, n \in Names : Rank[m] = Rank[n] => m = n
  /\ Paths \subseteq Seq(Names) /\ Root \in Paths
  /\ \A p \in Paths : p # Root => Front(p) \in Paths
  /\ Trees \subseteq [Paths -> Things]
  /\ \A t \in Trees : Rooted(t)
  /\ Unlimited \notin Nat
  /\ Options \subseteq [order : {"breadth", "depth"}, limit : Nat \cup {Unlimited},
                        types : BOOLEAN, visitor : {"walk_visit", "caller"},
                        follow : BOOLEAN, values : BOOLEAN]
  /\ Faults \subseteq {"Permission", "Io", "OutOfMemory", "InvalidPath"}
  /\ MaxChanges \in Nat
  /\ Creatable \subseteq Things \ {"none"}
  /\ FollowsLinks \in BOOLEAN /\ AllocFails \in BOOLEAN

Node(path, kind, depth) == [path |-> path, kind |-> kind, depth |-> depth]
Visited(n, status) == [path |-> n.path, kind |-> n.kind, depth |-> n.depth, status |-> status]

NoNode == Node(Root, "directory", 0)

DeeperByOne(depth) == options.limit = Unlimited \/ depth <= options.limit

\* A directory at this depth may be expanded.
Deeper(depth) == options.limit = Unlimited \/ depth < options.limit

EntersLinks(kind) == kind \in {"directory", "symlink"}

\* Links are visited and never entered.
Enters(kind) == kind = "directory"

Goto(l)   == pc' = l /\ UNCHANGED result
Finish(s) == pc' = "done" /\ result' = s
RunsOut   == AllocFails /\ Finish("OutOfMemory")

\* After a visit the walk goes on, unless the visitor ends it.  Those of this
\* repository's commands never do.
Onward(l) == Goto(l) \/ (options.visitor = "caller" /\ Finish("OK"))

Visit(n, status) == log' = Append(log, Visited(n, status)) /\ UNCHANGED <<steady, was, changes>>

\* Where a lookup of p ends when every directory on the way is resolved through
\* a link to the root that may stand in its place; and what is found there.
Ends == [p \in Paths |->
  LET loops == {i \in 1..(Len(p) - 1) : tree[SubSeq(p, 1, i)] = "loop"}
  IN IF loops = {} THEN p ELSE SubSeq(p, Max(loops) + 1, Len(p))]
At(p) == IF tree[p] # "none" \/ Ends[p] \notin Paths THEN tree[p] ELSE tree[Ends[p]]

\* The entries of a directory by name, and what stands at them.
Children(p) == {n \in Names : Append(p, n) \in Paths /\ At(Append(p, n)) # "none"}
Entry(p, n) == [name |-> n, kind |-> KindOf(At(Append(p, n)))]

\* opendir finds a directory at p, or a link to one that it follows.
Listable(p) == At(p) = "directory" \/ (At(p) = "loop" /\ FollowsLinks)

Unsorted(entries) ==
  CHOOSE s \in [1..Cardinality(entries) -> entries] :
    \A i, j \in DOMAIN s : i < j => Rank[s[i].name] > Rank[s[j].name]

\* A listing in bytewise order.
Sorted(entries) ==
  CHOOSE s \in [1..Cardinality(entries) -> entries] :
    \A i, j \in DOMAIN s : i < j => Rank[s[i].name] < Rank[s[j].name]

Child(e) == Node(Append(node.path, e.name), e.kind, node.depth + 1)

-----------------------------------------------------------------------------
\* kindOf(root), an lstat.
InspectRoot ==
  /\ pc = "inspect"
  /\ \/ /\ tree[Root] # "none"
        /\ node' = Node(Root, KindOf(tree[Root]), 0)
        /\ Goto("root")
     \/ /\ tree[Root] = "none"
        /\ Finish("NotFound")
        /\ UNCHANGED node
     \/ /\ \E s \in Faults : Finish(s)
        /\ UNCHANGED node
  /\ UNCHANGED <<tree, options, pending, head, unknown, found, kids, failure, history>>

\* The root is visited, and expanded only as a directory within the limit.
VisitRoot ==
  /\ pc = "root"
  /\ Visit(node, "OK")
  /\ IF Enters(node.kind) /\ options.limit # 0
     THEN pending' = <<node>> /\ (Onward("next") \/ RunsOut)
     ELSE Finish("OK") /\ UNCHANGED pending
  /\ UNCHANGED <<tree, options, node, head, unknown, found, kids, failure>>

\* Breadth-first: the next directory of the queue.
TakeFirst ==
  /\ pc = "next" /\ options.order = "breadth"
  /\ IF head < Len(pending)
     THEN node' = pending[head + 1] /\ head' = head + 1 /\ Goto("read")
     ELSE Finish("OK") /\ UNCHANGED <<node, head>>
  /\ UNCHANGED <<tree, options, pending, unknown, found, kids, failure, history>>

\* Depth-first: the top of the stack, visited now unless it is the root.
TakeLast ==
  /\ pc = "next" /\ options.order = "depth"
  /\ IF pending # <<>>
     THEN /\ node' = Last(pending) /\ pending' = Front(pending)
          /\ Goto(IF node'.depth > 0 THEN "visit" ELSE "read")
     ELSE Finish("OK") /\ UNCHANGED <<node, pending>>
  /\ UNCHANGED <<tree, options, head, unknown, found, kids, failure, history>>

VisitNode ==
  /\ pc = "visit"
  /\ Visit(node, "OK")
  /\ Onward(IF Enters(node.kind) /\ Deeper(node.depth) THEN "read" ELSE "next")
  /\ UNCHANGED <<tree, options, node, pending, head, unknown, found, kids, failure>>

\* children: the directory is opened and listed.
\* Where the listing does not tell kinds, an lstat per entry follows.
Read ==
  /\ pc = "read"
  /\ \/ /\ Listable(node.path)
        /\ LET entries == {Entry(node.path, n) : n \in Children(node.path)}
           IN IF options.types
              THEN kids' = Sorted(entries) /\ Goto("kids") /\ UNCHANGED unknown
              ELSE unknown' = Children(node.path) /\ Goto("lstat") /\ UNCHANGED kids
        /\ UNCHANGED failure
     \/ /\ ~Listable(node.path)
        /\ failure' = "NotFound"
        /\ Goto("failed")
        /\ UNCHANGED <<unknown, kids>>
     \/ /\ failure' \in Faults
        /\ Goto("failed")
        /\ UNCHANGED <<unknown, kids>>
  /\ UNCHANGED <<tree, options, node, pending, head, found, history>>

\* file_type's fallback, entry by entry; one entry that is gone fails the
\* whole listing.
Lstat ==
  /\ pc = "lstat"
  /\ IF unknown = {}
     THEN kids' = Sorted(found) /\ found' = {} /\ Goto("kids") /\ UNCHANGED <<unknown, failure>>
     ELSE \E n \in unknown :
            IF At(Append(node.path, n)) # "none"
            THEN /\ found' = found \cup {Entry(node.path, n)}
                 /\ unknown' = unknown \ {n}
                 /\ Goto("lstat") /\ UNCHANGED <<kids, failure>>
            ELSE /\ found' = {} /\ unknown' = {}
                 /\ failure' = "NotFound"
                 /\ Goto("failed") /\ UNCHANGED kids
  /\ UNCHANGED <<tree, options, node, pending, head, history>>

\* The second visit of a directory that could not be listed.
ReportFailure ==
  /\ pc = "failed"
  /\ Visit(node, failure)
  /\ failure' = "none"
  /\ Onward("next")
  /\ UNCHANGED <<tree, options, node, pending, head, unknown, found, kids>>

\* Breadth-first visits a child at once and queues what it will expand.
VisitKid ==
  /\ pc = "kids" /\ options.order = "breadth" /\ kids # <<>>
  /\ LET child == Child(Head(kids))
     IN /\ Visit(child, "OK")
        /\ IF Enters(child.kind) /\ Deeper(child.depth)
           THEN pending' = Append(pending, child) /\ (Onward("kids") \/ RunsOut)
           ELSE Onward("kids") /\ UNCHANGED pending
  /\ kids' = Tail(kids)
  /\ UNCHANGED <<tree, options, node, head, unknown, found, failure>>

PushForward(children) == children
PushReversed(children) == Reverse(children)

\* Depth-first pops from the back, so children go in in reverse.
PushOrder(children) == PushReversed(children)

PushKids ==
  /\ pc = "kids" /\ options.order = "depth" /\ kids # <<>>
  /\ pending' = pending \o PushOrder([i \in DOMAIN kids |-> Child(kids[i])])
  /\ kids' = <<>>
  /\ Goto("kids")
  /\ UNCHANGED <<tree, options, node, head, unknown, found, failure, history>>

KidsDone ==
  /\ pc = "kids" /\ kids = <<>>
  /\ Goto("next")
  /\ UNCHANGED <<tree, options, node, pending, head, unknown, found, kids, failure, history>>

\* A child's path, or a place on the stack, cannot be allocated (Zig).
RunOut ==
  /\ pc = "kids" /\ kids # <<>>
  /\ RunsOut
  /\ UNCHANGED <<tree, options, node, pending, head, unknown, found, kids, failure, history>>

-----------------------------------------------------------------------------
(* Everybody else: external.                                               *)

Change(p, thing) ==
  /\ pc # "done" /\ changes < MaxChanges
  /\ tree' = [tree EXCEPT ![p] = thing]
  /\ steady' = steady \ {p}
  /\ was' = was \cup {<<p, KindOf(thing)>>}
  /\ changes' = changes + 1
  /\ UNCHANGED <<walkVars, log>>

Delete(p) ==
  /\ tree[p] # "none"
  /\ \A n \in Names : Append(p, n) \in Paths => tree[Append(p, n)] = "none"
  /\ Change(p, "none")

Create(p, thing) ==
  /\ tree[p] = "none"
  /\ p = Root \/ tree[Front(p)] = "directory"
  /\ Change(p, thing)

-----------------------------------------------------------------------------
Init ==
  /\ tree \in Trees
  /\ options \in Options
  /\ pc = "inspect" /\ result = "none" /\ failure = "none"
  /\ node = NoNode /\ pending = <<>> /\ head = 0
  /\ unknown = {} /\ found = {} /\ kids = <<>>
  /\ log = <<>> /\ changes = 0
  /\ steady = {p \in Paths : tree[p] # "none"}
  /\ was = {<<p, KindOf(tree[p])>> : p \in Paths}

Step ==
  \/ InspectRoot \/ VisitRoot
  \/ TakeFirst \/ TakeLast \/ VisitNode
  \/ Read \/ Lstat \/ ReportFailure
  \/ VisitKid \/ PushKids \/ KidsDone \/ RunOut

Outside == \E p \in Paths : Delete(p) \/ \E thing \in Creatable : Create(p, thing)

-----------------------------------------------------------------------------
(* Properties                                                              *)

Labels == {"inspect", "root", "next", "visit", "read", "lstat", "failed", "kids", "done"}

AllNodes == [path : Paths, kind : Kinds, depth : Nat]

\* Types; a node's depth is that of its path; the queue of a breadth-first
\* walk holds directories still to be expanded and nothing else, so that it
\* grows with the directories of a tree and not with its files (walk.zig:60).
WalkTypeOK ==
  /\ tree \in [Paths -> Things] /\ Rooted(tree)
  /\ options \in Options
  /\ pc \in Labels
  /\ \A n \in ToSet(pending) \cup {node} : n \in AllNodes /\ n.depth = Len(n.path)
  /\ head \in 0..Len(pending)
  /\ options.order = "breadth" =>
       \A n \in ToSet(pending) : n.kind = "directory" /\ Deeper(n.depth)
  /\ \A e \in ToSet(kids) \cup found : e.name \in Names /\ e.kind \in Kinds
  /\ unknown \subseteq Names
  /\ (pc = "failed") = (failure # "none")

\* The paths part ways, p at the smaller name.
Apart(p, q) ==
  \E i \in DOMAIN p \cap DOMAIN q :
    /\ SubSeq(p, 1, i - 1) = SubSeq(q, 1, i - 1)
    /\ Rank[p[i]] < Rank[q[i]]

\* p is met before q when siblings come in bytewise order: q is below p, or
\* they part ways.
Precedes(p, q) == IsStrictPrefix(p, q) \/ Apart(p, q)

\* Depth-first is pre-order; breadth-first goes level by level.
InOrder(p, q) ==
  IF options.order = "depth" THEN Precedes(p, q)
  ELSE Len(p) < Len(q) \/ (Len(p) = Len(q) /\ Precedes(p, q))

Good(v) == v.status = "OK"

\* However the tree changes under the walk, first visits come in strictly
\* ascending order of the kind asked for; so no path is visited twice
\* (walk.zig:1-5, walk_test.zig:84-118).
VisitsInOrder ==
  \A i, j \in DOMAIN log :
    i < j /\ Good(log[i]) /\ Good(log[j]) => InOrder(log[i].path, log[j].path)

\* Nothing is visited that was not reached: below the root there is an earlier
\* visit of the parent as a directory, which could be listed, and no visit is
\* deeper than the limit (walk.zig:88-103, walk_test.zig:120).
VisitsReached ==
  \A j \in DOMAIN log :
    LET v == log[j]
    IN /\ v.depth = Len(v.path)
       /\ options.limit = Unlimited \/ v.depth <= options.limit
       /\ v.path # Root =>
            /\ \E i \in 1..(j - 1) :
                 Good(log[i]) /\ log[i].path = Front(v.path) /\ log[i].kind = "directory"
            /\ \A i \in DOMAIN log : log[i].path = Front(v.path) => Good(log[i])

\* A second visit is that of a directory above the limit that failed to be
\* listed, so a link is never even opened; there is no third.  A depth-first
\* walk reports it in place (walk.zig:26-28, 96-98, walk_test.zig:140).
SecondVisits ==
  \A j \in DOMAIN log : ~Good(log[j]) =>
    /\ log[j].kind = "directory" /\ Deeper(log[j].depth)
    /\ options.order = "depth" => j > 1 /\ log[j - 1] = Visited(log[j], "OK")
    /\ \E i \in 1..(j - 1) : log[i] = Visited(log[j], "OK")
    /\ \A i \in 1..(j - 1) : log[i].path = log[j].path => Good(log[i])

\* "Symlinks are visited but never entered, so link loops cannot recurse"
\* (walk.rs:3, walk.zig:3, xattr_stream.h:203): no listing is one of a link.
NeverEntersLinks ==
  [][pc = "read" /\ pc' \in {"kids", "lstat"} => At(node.path) # "loop"]_vars
=============================================================================
