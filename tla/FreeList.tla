------------------------------ MODULE FreeList ------------------------------
(***************************************************************************)
(* FreeList, the linked list every backend keeps its unused contexts in,   *)
(* and the ionic queue pair its fetch buffers.  A list of live nodes and a *)
(* list of nodes to reuse share the nodes; pop_front moves one from the    *)
(* first to the second, push_back moves it back.  Both hold the lock for   *)
(* the whole call (AbqlMutex).  A caller that has an element returns it,   *)
(* one that has none asks for one and may be refused.                      *)
(***************************************************************************)
EXTENDS AbqlMutex

CONSTANT Length   \* elements the host puts in (max_num_contexts)

ASSUME LengthAssumption == Length \in Nat \ {0}

Nodes == 1 .. Length
Elements == 1 .. Length
null == 0

VARIABLES
  next, data,   \* the fields of each node
  head, tail,   \* head_, tail_
  dead,         \* deallocated_nodes_
  at,           \* where in its call each caller is
  node,         \* last_node, node: the node each caller works on
  owns          \* the element of each caller, or null

lockVars == <<ticket, turns, pc, my, locks>>
lists == <<next, data, head, tail, dead>>
listVars == <<lists, at, node, owns, lockVars>>

At(p, from, to) == at[p] = from /\ at' = [at EXCEPT ![p] = to]

(* setup_ctxs: one push_back of the host per context. *)
ListInit ==
  /\ Init
  /\ next = [n \in Nodes |-> IF n = Length THEN null ELSE n + 1]
  /\ data = [n \in Nodes |-> n]
  /\ head = 1 /\ tail = Length /\ dead = null
  /\ at = [p \in Procs |-> "out"]
  /\ node = [p \in Procs |-> null]
  /\ owns = [p \in Procs |-> null]

----------------------------------------------------------------------------
(* TicketLockGuard *)

Call(p) ==
  /\ GrabTicket(p) /\ At(p, "out", "guard")
  /\ UNCHANGED <<lists, node, owns>>

Guarded(p) ==
  /\ TakeTurn(p) /\ At(p, "guard", IF owns[p] = null THEN "pop" ELSE "push")
  /\ UNCHANGED <<lists, node, owns>>

Unguarded(p) ==
  /\ At(p, "done", "out") /\ SignalNext(p)
  /\ UNCHANGED <<lists, node, owns>>

----------------------------------------------------------------------------
(* pop_front *)

PopNothing(p) ==
  /\ At(p, "pop", "done") /\ head = null
  /\ UNCHANGED <<lists, node, owns, lockVars>>

(* Faulty variant: the tail of the emptied list is left standing. *)
PopFrontKeepTail(p) ==
  /\ At(p, "pop", "popped") /\ head # null
  /\ node' = [node EXCEPT ![p] = head]
  /\ head' = next[head]
  /\ UNCHANGED <<next, data, tail, dead, owns, lockVars>>

PopFront(p) ==
  /\ At(p, "pop", "popped") /\ head # null
  /\ node' = [node EXCEPT ![p] = head]
  /\ head' = next[head]
  /\ tail' = IF next[head] = null THEN null ELSE tail
  /\ UNCHANGED <<next, data, dead, owns, lockVars>>

(* The element is read and the node recycled: deallocate_node. *)
Deallocate(p) ==
  /\ At(p, "popped", "done")
  /\ owns' = [owns EXCEPT ![p] = data[node[p]]]
  /\ next' = [next EXCEPT ![node[p]] = dead]
  /\ dead' = node[p]
  /\ UNCHANGED <<data, head, tail, node, lockVars>>

----------------------------------------------------------------------------
(* push_back *)

(* allocate_node: without a node to reuse the element would be lost. *)
Allocate(p) ==
  /\ At(p, "push", IF dead = null THEN "done" ELSE "insert")
  /\ IF dead = null
       THEN owns' = [owns EXCEPT ![p] = null] /\ UNCHANGED <<dead, node>>
       ELSE /\ node' = [node EXCEPT ![p] = dead]
            /\ dead' = next[dead]
            /\ UNCHANGED owns
  /\ UNCHANGED <<next, data, head, tail, lockVars>>

(* insert_node_at_tail *)
Insert(p) ==
  /\ At(p, "insert", "done")
  /\ data' = [data EXCEPT ![node[p]] = owns[p]]
  /\ next' = [n \in Nodes |-> IF n = node[p] THEN null
                              ELSE IF n = tail THEN node[p] ELSE next[n]]
  /\ tail' = node[p]
  /\ head' = IF head = null THEN node[p] ELSE head
  /\ owns' = [owns EXCEPT ![p] = null]
  /\ UNCHANGED <<dead, node, lockVars>>

----------------------------------------------------------------------------
ListStep(p) ==
  \/ Guarded(p) \/ PopNothing(p) \/ PopFront(p) \/ Deallocate(p)
  \/ Allocate(p) \/ Insert(p) \/ Unguarded(p)

ListNext == \E p \in Procs : Call(p) \/ ListStep(p)

ListFinished ==
  /\ \A p \in Procs : pc[p] = "idle" /\ locks[p] = MaxLocks
  /\ UNCHANGED listVars

(* A caller spins on its channel and runs through the guarded section. *)
ListFairness == \A p \in Procs : WF_listVars(ListStep(p))

ListSpec == ListInit /\ [][ListNext \/ ListFinished]_listVars /\ ListFairness

----------------------------------------------------------------------------
(* The nodes of the list that begins with start: the least set with start *)
(* and, of each node in it, the next.                                     *)
Closed(links, start, S) ==
  /\ start # null => start \in S
  /\ \A n \in S : links[n] # null => links[n] \in S

Chain(links, start) ==
  {n \in Nodes : \A S \in SUBSET Nodes : Closed(links, start, S) => n \in S}

Live == Chain(next, head)
Unused == Chain(next, dead)

InHand == {node[p] : p \in {q \in Procs : at[q] \in {"popped", "insert"}}}

(* Every node is in one list or in the hand of one caller, and every *)
(* element in a live node or with one caller: none is lost (push_back *)
(* always finds a node), doubled, or left behind a stale tail. *)
Conserved ==
  /\ Live \cap Unused = {}
  /\ Nodes \ (Live \cup Unused) = InHand
  /\ tail # null <=> head # null
  /\ tail # null => tail \in Live /\ next[tail] = null
  /\ \A e \in Elements :
       Cardinality({p \in Procs : owns[p] = e})
         + Cardinality({n \in Live : data[n] = e})
         + Cardinality({p \in Procs : at[p] = "popped" /\ data[node[p]] = e}) = 1

=============================================================================
