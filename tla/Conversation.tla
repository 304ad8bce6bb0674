---------------------------- MODULE Conversation ----------------------------
(***************************************************************************)
(* Linearizing one conversation of a ChatGPT export                        *)
(* (memory_core/adapters/chatgpt.py).  The export is outside input: parent *)
(* pointers may dangle or form cycles and a node may be no object at all.  *)
(***************************************************************************)
EXTENDS Naturals, Sequences, SequencesExt, FiniteSets

CONSTANTS Nodes, None, Dangling

ASSUME ConversationAssumption == None \notin Nodes

(* A mapping: its nodes' parents and last children, the nodes that are not *)
(* objects, and the node named as current (None if unusable).  A child     *)
(* that is not in the mapping ends the walk as no child does, so only a    *)
(* parent is told apart as Dangling, and only where roots are looked for.  *)
Mappings ==
  LET upward == [parent : [Nodes -> Nodes \cup {None}], child : [Nodes -> {None}],
                 broken : SUBSET Nodes, current : Nodes]
      forward == [parent : [Nodes -> {None, Dangling}], child : [Nodes -> Nodes \cup {None}],
                  broken : SUBSET Nodes, current : {None}]
  IN upward \cup forward

(* Where the walk starts: at the current node, else at a root, else        *)
(* anywhere (the first key of the mapping).                                *)
Roots(x) == {n \in Nodes \ x.broken : x.parent[n] = None}
Starts(x) ==
  IF x.current # None THEN {x.current}
  ELSE IF Roots(x) # {} THEN Roots(x) ELSE Nodes

(* One step of either while loop; a walk is the mapping, the node reached  *)
(* and the nodes collected so far.                                         *)
MayVisit(w) == w.at # None /\ w.at \notin Range(w.chain) /\ w.at \notin w.map.broken

Visit(w) ==
  [w EXCEPT !.chain = Append(@, w.at),
            !.at = IF w.map.current # None THEN w.map.parent[w.at] ELSE w.map.child[w.at]]

(* The walk up from the current node is turned round.                      *)
ThreadNotReversed(w) == w.chain
Thread(w) == IF w.map.current # None THEN Reverse(w.chain) ELSE w.chain

-----------------------------------------------------------------------------
(* A thread runs from its start to the end of the links without visiting a *)
(* node twice, and with a current node each message follows its parent and *)
(* the current one is last.                                                *)
ThreadFollowsLinks(w) ==
  LET t == Thread(w)
  IN /\ Cardinality(Range(t)) = Len(t)
     /\ w.map.current \in Nodes \ w.map.broken => t # <<>> /\ t[Len(t)] = w.map.current
     /\ \A i \in 1..Len(t) - 1 :
          IF w.map.current # None THEN w.map.parent[t[i + 1]] = t[i]
          ELSE w.map.child[t[i]] = t[i + 1]
=============================================================================
