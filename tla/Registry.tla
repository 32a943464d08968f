------------------------------ MODULE Registry ------------------------------
(***************************************************************************)
(* The C API's two maps of descriptors (API.cpp), the lists of callbacks   *)
(* behind a model's events (Event, Delegate) and the count of models that  *)
(* holds Winsock (Model.cpp).  Nodes are addresses, which the allocator    *)
(* hands out again once they are freed; a callback is named by the         *)
(* descriptor that was made for it.                                        *)
(*                                                                         *)
(* The maps and the count have no lock, so calls of the API are taken one  *)
(* at a time.  What lasts is a step per part: Invoke, which calls a        *)
(* handler per node and may find the list changed by it, and CleanupModel, *)
(* which waits in ~Model for the thread that runs the handlers.            *)
(***************************************************************************)
EXTENDS SequencesExt, Integers

CONSTANTS
  ModelDescriptors, CallbackDescriptors, Events, Nodes,
  NoNode,              \* nullptr
  NoEvent,
  StaleDescriptors,    \* do clients pass callback descriptors of models that
                       \* they have cleaned up
  RemovesWhileRaised   \* do they remove the callback that is running, or any
                       \* of an event that another thread is raising

ASSUME RegistryAssumption ==
  /\ NoNode \notin Nodes /\ NoEvent \notin Events
  /\ IsFiniteSet(ModelDescriptors) /\ IsFiniteSet(Nodes)
  /\ StaleDescriptors \in BOOLEAN /\ RemovesWhileRaised \in BOOLEAN

VARIABLES
  models,         \* keys of descriptorToModelMap
  cleaning,       \* those whose ~Model waits for its threads
  callbackMap,    \* descriptorToCallbackMap: the node, or NoNode if absent
  head,           \* m_Head of each model's events
  node,           \* m_Callback and m_Next of each node
  allocated,      \* the nodes that are allocated
  invoke,         \* the Invoke of each model's reading thread: the event, the
                  \* local variable current, and whether its handler runs
  instanceCount,  \* Model::s_InstanceCount
  winsock,        \* WSAStartup has been called, and WSACleanup has not since
  registered,     \* history: callbacks a client has added and not removed,
                  \* the newest first
  due             \* history: those of them that an Invoke has still to call

lists == <<head, node, allocated>>
wsa   == <<instanceCount, winsock>>
vars  == <<models, cleaning, callbackMap, lists, invoke, wsa, registered, due>>

Idle      == [event |-> NoEvent, at |-> NoNode, calling |-> FALSE]
EmptyNode == [callback |-> NoNode, next |-> NoNode]

Init ==
  /\ models = {} /\ cleaning = {}
  /\ callbackMap = [d \in CallbackDescriptors |-> NoNode]
  /\ head = [m \in ModelDescriptors |-> [e \in Events |-> NoNode]]
  /\ node = [n \in Nodes |-> EmptyNode] /\ allocated = {}
  /\ invoke = [m \in ModelDescriptors |-> Idle]
  /\ instanceCount = 0 /\ winsock = FALSE
  /\ registered = [m \in ModelDescriptors |-> [e \in Events |-> <<>>]]
  /\ due = [m \in ModelDescriptors |-> <<>>]

-----------------------------------------------------------------------------
(* Delegate.                                                               *)

\* What m_Next gives at the i-th node of a list: nullptr after its last.
Nth(s, i) == IF i \in DOMAIN s THEN s[i] ELSE NoNode

\* The nodes that a loop meets which starts at n and goes along m_Next: it
\* comes to an end, so it meets none of them again.
Paths == [n \in Nodes \cup {NoNode} |->
            IF n = NoNode THEN {<<>>}
            ELSE { <<n>> \o s : s \in SetToAllKPermutations(Nodes \ {n}) }]
Linked(nodes, s) == \A i \in DOMAIN s : nodes[s[i]].next = Nth(s, i + 1)
Chain(nodes, n)  == CHOOSE s \in Paths[n] : Linked(nodes, s)
From(n)          == Chain(node, n)

ListOf(m, e) == ToSet(From(head[m][e]))
NodesOf(m)   == UNION { ListOf(m, e) : e \in Events }

\* The callbacks from n on.
Callbacks(n) == LET s == From(n) IN [i \in DOMAIN s |-> node[s[i]].callback]

\* A callback is in the list at most once.
Without(s, d) == RemoveFirst(s, d)

\* AddCallback puts the new node in front.  Mutant: behind the others.
LinkLast(m, e, n, d) ==
  IF head[m][e] = NoNode
  THEN /\ node' = [node EXCEPT ![n] = [callback |-> d, next |-> NoNode]]
       /\ head' = [head EXCEPT ![m][e] = n]
  ELSE /\ node' = [node EXCEPT ![n] = [callback |-> d, next |-> NoNode],
                               ![Last(From(head[m][e]))].next = n]
       /\ UNCHANGED head
Link(m, e, n, d) ==
  /\ node' = [node EXCEPT ![n] = [callback |-> d, next |-> head[m][e]]]
  /\ head' = [head EXCEPT ![m][e] = n]

\* RemoveCallback takes a node out, wherever it is.  Mutant: as if first.
UnlinkFirst(m, e, n) ==
  /\ head' = [head EXCEPT ![m][e] = node[n].next]
  /\ node' = [node EXCEPT ![n] = EmptyNode]
Unlink(m, e, n) ==
  IF head[m][e] = n
  THEN UnlinkFirst(m, e, n)
  ELSE LET prev == CHOOSE x \in ListOf(m, e) : node[x].next = n
       IN  /\ node' = [node EXCEPT ![prev].next = node[n].next,
                                   ![n] = EmptyNode]
           /\ UNCHANGED head

\* What current->m_Next may be: anything, if the node has been freed.
Following(n) == IF n \in allocated THEN {node[n].next} ELSE Nodes \cup {NoNode}

StartInvoke(m, e) ==
  /\ m \in models /\ invoke[m] = Idle
  /\ invoke' = [invoke EXCEPT ![m] =
                  [event |-> e, at |-> head[m][e], calling |-> FALSE]]
  /\ due' = [due EXCEPT ![m] = registered[m][e]]
  /\ UNCHANGED <<models, cleaning, callbackMap, lists, wsa, registered>>

CallHandler(m) ==
  /\ invoke[m].event # NoEvent /\ ~invoke[m].calling /\ invoke[m].at # NoNode
  /\ invoke' = [invoke EXCEPT ![m].calling = TRUE]
  /\ due' = [due EXCEPT ![m] = Without(@, node[invoke[m].at].callback)]
  /\ UNCHANGED <<models, cleaning, callbackMap, lists, wsa, registered>>

HandlerReturns(m) ==
  /\ invoke[m].calling
  /\ \E next \in Following(invoke[m].at) :
       invoke' = [invoke EXCEPT ![m].at = next, ![m].calling = FALSE]
  /\ UNCHANGED <<models, cleaning, callbackMap, lists, wsa, registered, due>>

InvokeReturns(m) ==
  /\ invoke[m].event # NoEvent /\ ~invoke[m].calling /\ invoke[m].at = NoNode
  /\ invoke' = [invoke EXCEPT ![m] = Idle]
  /\ UNCHANGED <<models, cleaning, callbackMap, lists, wsa, registered, due>>

-----------------------------------------------------------------------------
(* The C API.                                                              *)

\* Mutant: a descriptor that may be in use.
AnyDescriptors   == CallbackDescriptors
FreshDescriptors == { d \in CallbackDescriptors : callbackMap[d] = NoNode }

\* Whether descriptorToModelMap.find succeeds; a handler that asks for its
\* model while erase is destroying it may get either answer.
Finds(m) == IF m \in cleaning THEN BOOLEAN ELSE {m \in models}

\* Only its handlers still use a model that is being cleaned up.
MayUse(m) == m \in cleaning => invoke[m].calling

CreateModel(m) ==
  /\ m \notin models
  /\ models' = models \cup {m}
  /\ winsock' = (winsock \/ instanceCount = 0)
  /\ instanceCount' = instanceCount + 1
  /\ UNCHANGED <<cleaning, callbackMap, lists, invoke, registered, due>>

\* WSAStartup fails, and with it the constructor.  Mutant: counted first.
WSAStartupFailsCounted(m) ==
  /\ m \notin models /\ instanceCount = 0
  /\ instanceCount' = instanceCount + 1
  /\ UNCHANGED <<models, cleaning, callbackMap, lists, invoke, winsock,
                 registered, due>>
WSAStartupFails(m) ==
  /\ m \notin models /\ instanceCount = 0
  /\ UNCHANGED vars

CleanupModel(m) ==
  /\ m \in models \ cleaning
  /\ cleaning' = cleaning \cup {m}
  /\ UNCHANGED <<models, callbackMap, lists, invoke, wsa, registered, due>>

\* The last model, as ~Model counts.  Mutant: tested before the decrement.
WasLast == instanceCount = 0
IsLast  == instanceCount - 1 = 0

\* The nodes that ~Delegate frees.  Mutant: only the first of each list.
HeadsOf(m) == { head[m][e] : e \in Events } \ {NoNode}
Freed(m)   == NodesOf(m)

\* The rest of ~Model, and of erase, once the threads have been joined.  The
\* descriptors of its callbacks stay in descriptorToCallbackMap.
ModelDestroyed(m) ==
  /\ m \in cleaning /\ invoke[m] = Idle
  /\ models' = models \ {m} /\ cleaning' = cleaning \ {m}
  /\ instanceCount' = instanceCount - 1
  /\ winsock' = (winsock /\ ~IsLast)
  /\ allocated' = allocated \ Freed(m)
  /\ node' = [n \in Nodes |-> IF n \in Freed(m) THEN EmptyNode ELSE node[n]]
  /\ head' = [head EXCEPT ![m] = [e \in Events |-> NoNode]]
  /\ registered' = [registered EXCEPT ![m] = [e \in Events |-> <<>>]]
  /\ UNCHANGED <<callbackMap, invoke, due>>

AddEventHandler(m, e) ==
  /\ MayUse(m)
  /\ \E found \in Finds(m) :
       IF found
       THEN \E d \in FreshDescriptors, n \in Nodes \ allocated :
              /\ Link(m, e, n, d)
              /\ allocated' = allocated \cup {n}
              /\ callbackMap' = [callbackMap EXCEPT ![d] = n]
              /\ registered' = [registered EXCEPT ![m][e] = <<d>> \o @]
              /\ UNCHANGED <<models, cleaning, invoke, wsa, due>>
       ELSE UNCHANGED vars

\* The client's side: what StaleDescriptors and RemovesWhileRaised say.
InUse(d) == \E m \in models, e \in Events : d \in ToSet(registered[m][e])
MayRemove(m, e, d) ==
  /\ MayUse(m)
  /\ StaleDescriptors \/ InUse(d) \/ callbackMap[d] = NoNode
  /\ \/ RemovesWhileRaised
     \/ invoke[m].event # e
     \/ invoke[m].calling /\ invoke[m].at # callbackMap[d]

RemoveEventHandler(m, e, d) ==
  /\ MayRemove(m, e, d)
  /\ \E found \in Finds(m) :
       IF found /\ callbackMap[d] \in ListOf(m, e)
       THEN /\ Unlink(m, e, callbackMap[d])
            /\ allocated' = allocated \ {callbackMap[d]}
            /\ callbackMap' = [callbackMap EXCEPT ![d] = NoNode]
            /\ registered' = [registered EXCEPT ![m][e] = Without(@, d)]
            /\ due' = [due EXCEPT ![m] = IF invoke[m].event = e
                                         THEN Without(@, d) ELSE @]
            /\ UNCHANGED <<models, cleaning, invoke, wsa>>
       ELSE UNCHANGED vars

Next ==
  \E m \in ModelDescriptors :
    \/ CreateModel(m)
    \/ WSAStartupFails(m)
    \/ CleanupModel(m)
    \/ ModelDestroyed(m)
    \/ CallHandler(m)
    \/ HandlerReturns(m)
    \/ InvokeReturns(m)
    \/ \E e \in Events :
         \/ StartInvoke(m, e)
         \/ AddEventHandler(m, e)
         \/ \E d \in CallbackDescriptors : RemoveEventHandler(m, e, d)

Spec == Init /\ [][Next]_vars

\* A reading thread that is in Invoke goes on, and its handlers return.
Invoking(m) == CallHandler(m) \/ HandlerReturns(m) \/ InvokeReturns(m)
FairSpec ==
  Spec /\ \A m \in ModelDescriptors : WF_vars(Invoking(m))

-----------------------------------------------------------------------------
(* Every variable has its type; no more models are counted than there are. *)
TypeOK ==
  /\ models \subseteq ModelDescriptors /\ cleaning \subseteq models
  /\ callbackMap \in [CallbackDescriptors -> Nodes \cup {NoNode}]
  /\ head \in [ModelDescriptors -> [Events -> Nodes \cup {NoNode}]]
  /\ node \in [Nodes -> [callback : CallbackDescriptors \cup {NoNode},
                         next : Nodes \cup {NoNode}]]
  /\ allocated \subseteq Nodes
  /\ invoke \in [ModelDescriptors ->
                   [event : Events \cup {NoEvent},
                    at : Nodes \cup {NoNode}, calling : BOOLEAN]]
  /\ instanceCount \in 0 .. Cardinality(ModelDescriptors)
  /\ winsock \in BOOLEAN
  /\ registered \in [ModelDescriptors -> [Events -> Seq(CallbackDescriptors)]]
  /\ due \in [ModelDescriptors -> Seq(CallbackDescriptors)]

(* The list behind an event holds exactly the callbacks that the client    *)
(* has added and not removed, the newest first: a call with a descriptor   *)
(* of another event, of another model or of a removed callback changes     *)
(* nothing, and a removal takes the right node out.                        *)
ListsAreSubscriptions ==
  \A m \in models, e \in Events : Callbacks(head[m][e]) = registered[m][e]

(* A descriptor that the client may use leads to the node that was made    *)
(* for it, although entries of models that are gone stay in the map and    *)
(* the addresses in them are in use again.                                 *)
DescriptorsLead ==
  \A m \in models, e \in Events : \A d \in ToSet(registered[m][e]) :
    callbackMap[d] \in ListOf(m, e) /\ node[callbackMap[d]].callback = d

(* Raising an event calls each callback that was there when it began and   *)
(* has not been removed since, once, and no other, whatever its handlers   *)
(* add and remove: what is left of the list is what is left to call.       *)
InvokeReachesDue ==
  \A m \in models :
    (invoke[m].event # NoEvent /\ ~invoke[m].calling)
       => Callbacks(invoke[m].at) = due[m]

(* A node that is allocated is in the list of one event of one model, and  *)
(* no other node in any: CleanupModel and the removals leak none, and no   *)
(* list shares the nodes of another or leads to a freed one.               *)
Owners(n) == { x \in models \X Events : n \in ListOf(x[1], x[2]) }
NodesOwned ==
  \A n \in Nodes : Cardinality(Owners(n)) = IF n \in allocated THEN 1 ELSE 0

(* Raising an event comes to an end, although handlers may subscribe again *)
(* and again while it is raised: new callbacks go in front of the list.    *)
InvokeEnds ==
  \A m \in ModelDescriptors :
    invoke[m].event # NoEvent ~> invoke[m].event = NoEvent

(* Winsock is up exactly as long as there is a model, one that is being    *)
(* cleaned up and may still send its Logout included.                      *)
WinsockHeld == winsock = (models # {})
=============================================================================
