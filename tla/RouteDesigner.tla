------------------------------ MODULE RouteDesigner ------------------------------
(***************************************************************************)
(* The route designer of the admin UI, otoroshi/javascript/src/pages/      *)
(* RouteDesigner/Designer.js, and the order in which the engine runs the   *)
(* plugins of the route it saves, app/next/models/plugins.scala.           *)
(*                                                                         *)
(* The designer keeps a route twice: as the route that it will save, and   *)
(* as the nodes that it shows, one per plugin, matched by an internal      *)
(* identifier that is made when the route is loaded or a plugin added.     *)
(* Within a step the nodes are shown by their plugin_index, which every    *)
(* node has for each of its steps and which a saved plugin may lack.       *)
(*                                                                         *)
(* Left out: the configuration of plugins, the list plugins are picked     *)
(* from, and the backend and frontend nodes, none of which has an order.   *)
(* The identifier of no plugin is the beginning of another's.              *)
(***************************************************************************)
EXTENDS Naturals, SequencesExt

CONSTANTS
    Plugins,
    Known,        \* plugins that the UI has a form for
    Steps,        \* the steps of a request that the designer shows
    StepsOf,      \* plugin_steps
    Request,      \* TransformRequest
    Response,     \* TransformResponse
    None,         \* no plugin_index
    Saved,        \* the routes that may be stored at first
    Patterns,     \* lists of plugins with their indexes that replace those of the route
    MaxPlugins,   \* bound: plugins of a route
    MaxEdits      \* bound: changes to the route

ASSUME DesignerAssumption ==
    /\ Known \subseteq Plugins
    /\ {Request, Response} \subseteq Steps
    /\ StepsOf \in [Plugins -> SUBSET Steps]
    /\ MaxPlugins \in Nat /\ MaxEdits \in Nat

(* A plugin_index: a natural number for some of the steps. *)
IsIndex(f) == \E S \in SUBSET Steps : f \in [S -> Nat]

(* A list of plugins as the route has them. *)
IsRoute(seq) ==
    /\ seq \in Seq(ToSet(seq))
    /\ \A i \in DOMAIN seq :
          /\ seq[i] \in [plugin : Plugins, index : {seq[i].index}]
          /\ seq[i].index = None \/ IsIndex(seq[i].index)

ASSUME RoutesAssumption ==
    /\ ~IsIndex(None)
    /\ \A seq \in Saved : IsRoute(seq)
    /\ \A seq \in Patterns : IsRoute(seq) /\ \A i \in DOMAIN seq : seq[i].plugin \in Known

VARIABLES
    stored,    \* the plugins of the route in the datastore
    route,     \* state.route.plugins
    nodes,     \* state.nodes
    edits,     \* changes so far
    churned    \* history: nodes were removed or replaced since the route was loaded

vars == <<stored, route, nodes, edits, churned>>

Empty == [s \in {} |-> 0]

--------------------------------------------------------------------------------
(* Internal identifiers: <<p, 0>> is written p, and <<p, n + 1>> p-n. *)

Same(seq, p) == {i \in DOMAIN seq : seq[i].plugin = p}

(* generateInternalNodeId: the first of its kind gets the identifier of the  *)
(* plugin, the next ones a number.                                           *)
LoadedId(seq, i) ==
    LET before == {j \in Same(seq, seq[i].plugin) : j < i}
    IN  <<seq[i].plugin, IF before = {} THEN 0 ELSE Cardinality(before) + 1>>

\* Mutant: the number of a new node is the last one given, not the next.
NewId_Last(p) == <<p, Cardinality(Same(nodes, p))>>

(* generateNewInternalNodeId. *)
NewId(p) == <<p, Cardinality(Same(nodes, p)) + 1>>

--------------------------------------------------------------------------------
(* Indexes. *)

IndexOf(r) == IF r.index = None THEN Empty ELSE r.index

(* plugin_steps of a node; an unknown one has none. *)
NodeSteps(p) == IF p \in Known THEN StepsOf[p] ELSE {}

Lacks(seq, step) ==
    {i \in DOMAIN seq : step \in NodeSteps(seq[i].plugin) \ DOMAIN seq[i].index}

Used(seq, step) == {seq[i].index[step] : i \in {j \in DOMAIN seq : step \in DOMAIN seq[j].index}}

(* One more than the last index of the step. *)
FirstFree(seq, step) == Max({0} \cup {n + 1 : n \in Used(seq, step)})

\* Mutant: only the plugins that have no index at all get one.
WithPluginIndexes_None(seq) ==
    [i \in DOMAIN seq |->
        IF seq[i].index # Empty THEN seq[i]
        ELSE [seq[i] EXCEPT !.index =
                [s \in NodeSteps(seq[i].plugin) |->
                    FirstFree(seq, s) + Cardinality({j \in Lacks(seq, s) : j < i})]]]

(* withPluginIndexes: a plugin without an index for one of its steps comes    *)
(* after those that have one, in declaration order.                          *)
WithPluginIndexes(seq) ==
    [i \in DOMAIN seq |->
        [seq[i] EXCEPT !.index =
            [s \in DOMAIN @ \cup NodeSteps(seq[i].plugin) |->
                IF s \in DOMAIN @ THEN @[s]
                ELSE FirstFree(seq, s) + Cardinality({j \in Lacks(seq, s) : j < i})]]]

(* calculateIndexFor *)
NewIndex(p) == [s \in StepsOf[p] |-> FirstFree(nodes, s)]

Indexed(seq, step) == {i \in DOMAIN seq : step \in DOMAIN IndexOf(seq[i])}

(* A set as a list, by the members that come before each. *)
Sorted(S, before) ==
    [n \in 1..Cardinality(S) |-> CHOOSE i \in S : Cardinality(before[i]) = n - 1]

InOrder(positions) ==
    Sorted(positions, [i \in positions |-> {j \in positions : j < i}])

(* The order of a step: by index, or as listed when two have the same.       *)
Comes(seq, step, i, j) ==
    \/ seq[i].index[step] < seq[j].index[step]
    \/ seq[i].index[step] = seq[j].index[step] /\ i < j

(* Positions of a list by their index for a step. *)
ByIndex(seq, positions, step) ==
    Sorted(positions, [i \in positions |-> {j \in positions : Comes(seq, step, j, i)}])

(* The nodes of a step as swap and showArrows take them. *)
Ranked(seq, step) == ByIndex(seq, Indexed(seq, step), step)

(* renderInBound lists the request downwards, by index; renderOutBound lists  *)
(* the response upwards, and of two with the same index the later comes first.*)
ShownBefore(seq, step, i, j) ==
    \/ seq[i].index[step] < seq[j].index[step]
    \/ /\ seq[i].index[step] = seq[j].index[step]
       /\ IF step = Response THEN j < i ELSE i < j

ByShown(seq, positions, step) ==
    Sorted(positions, [i \in positions |-> {j \in positions : ShownBefore(seq, step, j, i)}])

(* The nodes of a step in the order in which the page shows them. *)
Shown(seq, step) == ByShown(seq, Indexed(seq, step), step)

--------------------------------------------------------------------------------
(* loadData. *)

\* Mutant: a plugin that the UI does not know is shown where it runs.
LoadedNodes_Unknown(seq) ==
    WithPluginIndexes([i \in DOMAIN seq |->
        [plugin |-> seq[i].plugin, nodeId |-> LoadedId(seq, i), index |-> IndexOf(seq[i])]])

LoadedNodes(seq) ==
    WithPluginIndexes([i \in DOMAIN seq |->
        [plugin |-> seq[i].plugin, nodeId |-> LoadedId(seq, i),
         index |-> IF seq[i].plugin \in Known THEN IndexOf(seq[i]) ELSE Empty]])

LoadedRoute(seq) ==
    [i \in DOMAIN seq |-> [plugin |-> seq[i].plugin, nodeId |-> LoadedId(seq, i),
                           index |-> seq[i].index]]

Init ==
    /\ stored \in Saved
    /\ route = LoadedRoute(stored)
    /\ nodes = LoadedNodes(stored)
    /\ edits = 0
    /\ churned = FALSE

(* The page is opened again, which drops what was not saved. *)
Load ==
    /\ route' = LoadedRoute(stored)
    /\ nodes' = LoadedNodes(stored)
    /\ churned' = FALSE
    /\ UNCHANGED <<stored, edits>>

(* addNode *)
AddNode(p) ==
    LET node == [plugin |-> p, nodeId |-> NewId(p), index |-> NewIndex(p)]
    IN  /\ Len(nodes) < MaxPlugins
        /\ nodes' = Append(nodes, node)
        /\ route' = Append(route, node)
        /\ UNCHANGED churned

(* filter: the elements of a list at some of its positions. *)
Keep(seq, positions) == [n \in DOMAIN InOrder(positions) |-> seq[InOrder(positions)[n]]]

Others(seq, id) == {i \in DOMAIN seq : seq[i].nodeId # id}

\* Mutant: the route drops the plugin, the nodes the instance.
RemoveNode_Plugin(i) ==
    /\ nodes' = Keep(nodes, Others(nodes, nodes[i].nodeId))
    /\ route' = Keep(route, DOMAIN route \ Same(route, nodes[i].plugin))
    /\ churned' = TRUE

(* removeNode: whatever has the identifier of the selected node. *)
RemoveNode(i) ==
    /\ nodes' = Keep(nodes, Others(nodes, nodes[i].nodeId))
    /\ route' = Keep(route, Others(route, nodes[i].nodeId))
    /\ churned' = TRUE

(* clearPlugins *)
ClearPlugins ==
    /\ nodes' = <<>>
    /\ route' = <<>>
    /\ churned' = TRUE

(* setNodes, for a pattern or a template, which brings its indexes: the new   *)
(* identifiers are made from the old nodes.                                   *)
SetNodes(ps) ==
    LET given == [i \in DOMAIN ps |-> [plugin |-> ps[i].plugin, nodeId |-> NewId(ps[i].plugin),
                                       index |-> IndexOf(ps[i])]]
    IN  /\ nodes' = WithPluginIndexes(given)
        /\ route' = WithPluginIndexes(given)
        /\ churned' = TRUE

(* nodes.find, by identifier. *)
IndexIn(seq, id) == seq[SelectInSeq(seq, LAMBDA n : n.nodeId = id)].index

(* The neighbour of a node in the list of a step: there is no arrow towards   *)
(* one that does not exist, or the handler throws before it changes anything. *)
Neighbours(i, step, up) ==
    LET ranked == Ranked(nodes, step)
        at     == SelectInSeq(ranked, LAMBDA j : nodes[j].nodeId = nodes[i].nodeId)
    IN  {ranked[n] : n \in DOMAIN ranked \cap {IF up THEN at - 1 ELSE at + 1}}

Put(index, step, n) == [s \in DOMAIN index \cup {step} |-> IF s = step THEN n ELSE index[s]]

(* Two nodes trade their indexes of a step, with all that have their identifiers. *)
Traded(i, k, step) ==
    [j \in DOMAIN nodes |->
        IF nodes[j].nodeId = nodes[i].nodeId
        THEN [nodes[j] EXCEPT !.index = Put(nodes[j].index, step, nodes[k].index[step])]
        ELSE IF nodes[j].nodeId = nodes[k].nodeId
        THEN [nodes[j] EXCEPT !.index = Put(nodes[j].index, step, nodes[i].index[step])]
        ELSE nodes[j]]

\* Mutant: the route is not told.
Swap_NodesOnly(i, step, up) ==
    /\ step \in DOMAIN nodes[i].index
    /\ \E k \in Neighbours(i, step, up) : nodes' = Traded(i, k, step)
    /\ UNCHANGED <<route, churned>>

(* swap: the route takes all of its indexes from the nodes. *)
Swap(i, step, up) ==
    /\ step \in DOMAIN nodes[i].index
    /\ \E k \in Neighbours(i, step, up) : nodes' = Traded(i, k, step)
    /\ route' = [j \in DOMAIN route |->
                    [route[j] EXCEPT !.index = IndexIn(nodes', route[j].nodeId)]]
    /\ UNCHANGED churned

\* Mutant: a plugin without an index is saved without one.
ToSave_Bare ==
    [j \in DOMAIN route |-> [plugin |-> route[j].plugin, index |-> IndexOf(route[j])]]

(* processRouteBeforeUpdate *)
ToSave ==
    [j \in DOMAIN route |->
        [plugin |-> route[j].plugin,
         index  |-> IF route[j].index # None THEN route[j].index
                    ELSE IndexIn(nodes, route[j].nodeId)]]

(* saveRoute *)
SaveRoute ==
    /\ stored' = ToSave
    /\ UNCHANGED <<route, nodes, edits, churned>>

Edit ==
    /\ edits < MaxEdits
    /\ edits' = edits + 1
    /\ \/ ClearPlugins
       \/ \E p \in Known : AddNode(p)
       \/ \E ps \in Patterns : SetNodes(ps)
       \/ \E i \in DOMAIN nodes : \/ RemoveNode(i)
                                  \/ \E step \in Steps, up \in BOOLEAN : Swap(i, step, up)
    /\ UNCHANGED stored

Next == Edit \/ Load \/ SaveRoute

Spec == Init /\ [][Next]_vars

--------------------------------------------------------------------------------
(* NgContextualPlugins of the engine: positions of the plugins of a stored    *)
(* route, in the order of the lists it makes of them.                         *)

For(seq, step) == {i \in DOMAIN seq : step \in StepsOf[seq[i].plugin]}

(* transformerPlugins: one list for both transformations, first the plugins    *)
(* with an index for the request, by that index.                              *)
Transformers(seq) ==
    LET all     == For(seq, Request) \cup For(seq, Response)
        first   == For(seq, Request) \cap Indexed(seq, Request)
        second  == (For(seq, Response) \cap Indexed(seq, Response)) \ first
    IN  ByIndex(seq, first, Request)
        \o ByIndex(seq, second, Response)
        \o InOrder(all \ (Indexed(seq, Request) \cup Indexed(seq, Response)))

(* The other lists: the plugins with an index, then the others as declared. *)
Listed(seq, step) ==
    LET indexed == For(seq, step) \cap Indexed(seq, step)
    IN  ByIndex(seq, indexed, step) \o InOrder(For(seq, step) \ indexed)

(* A step runs the plugins of its list that are for it. *)
Runs(seq, step) ==
    IF step \in {Request, Response} THEN Transformers(seq) ELSE Listed(seq, step)

--------------------------------------------------------------------------------
(* Types. *)
IsNodes(seq) ==
    /\ seq \in Seq(ToSet(seq))
    /\ \A i \in DOMAIN seq :
          /\ seq[i] \in [plugin : Plugins, nodeId : Plugins \X Nat, index : {seq[i].index}]
          /\ seq[i].index = None \/ IsIndex(seq[i].index)

TypeOK ==
    /\ IsRoute(stored) /\ IsNodes(route) /\ IsNodes(nodes)
    /\ \A i \in DOMAIN nodes :
          /\ nodes[i].index # None
          /\ NodeSteps(nodes[i].plugin) \subseteq DOMAIN nodes[i].index
    /\ edits \in 0..MaxEdits
    /\ churned \in BOOLEAN

(* addNode, removeNode, setNodes, swap: the route that will be saved has the   *)
(* plugins that are shown, one for one and under the same identifiers.        *)
Mirror ==
    /\ Len(route) = Len(nodes)
    /\ \A i \in DOMAIN nodes :
          route[i].nodeId = nodes[i].nodeId /\ route[i].plugin = nodes[i].plugin

(* generateInternalNodeId and generateNewInternalNodeId: no two nodes have the *)
(* same identifier, so that removing or moving one leaves the others alone,    *)
(* until a plugin is removed or the plugins are replaced: the number of the    *)
(* next one may then be taken.                                                *)
DistinctUntilChurned ==
    ~churned => \A i, j \in DOMAIN nodes : nodes[i].nodeId = nodes[j].nodeId => i = j

Distinct == \A i, j \in DOMAIN nodes : nodes[i].nodeId = nodes[j].nodeId => i = j

(* Every plugin of the route has an index for all of its steps, or none. *)
Whole ==
    \A i \in DOMAIN route :
        route[i].plugin \in Known /\ route[i].index # None
            => StepsOf[route[i].plugin] \subseteq DOMAIN route[i].index

KnownFor(seq, step) == {i \in For(seq, step) : seq[i].plugin \in Known}

Precedes(list, i, j) == \E m, n \in DOMAIN list : m < n /\ list[m] = i /\ list[n] = j

(* Two plugins of a step are shown in the order of their run, unless they have *)
(* the same index in the response.                                            *)
ShownToRun(i, j, step) ==
    LET runs  == Runs(ToSave, step)
        shown == Shown(nodes, step)
        tied  == step = Response /\ nodes[i].index[step] = nodes[j].index[step]
    IN  Precedes(runs, i, j) <=> IF tied THEN Precedes(shown, j, i) ELSE Precedes(shown, i, j)

(* withPluginIndexes, swap and processRouteBeforeUpdate against the engine:    *)
(* saved as it is, the route runs the plugins of a step in the order shown, in *)
(* the response those with the same index in the opposite order. Not so when   *)
(* plugins of the response transform the request as well: the engine runs      *)
(* them first and in the order of the request.                                *)
RunsAsShown ==
    Whole /\ Distinct =>
        \A step \in Steps :
            (step = Response => For(route, Request) \cap For(route, Response) = {}) =>
                /\ KnownFor(route, step)
                      \subseteq ToSet(Runs(ToSave, step)) \cap ToSet(Shown(nodes, step))
                /\ \A i, j \in KnownFor(route, step) : ShownToRun(i, j, step)

(* loadData after saveRoute: the designer shows the same plugins in the same   *)
(* order as before, at every step.                                            *)
ReloadsAsShown ==
    Whole /\ Distinct =>
        \A step \in Steps : Shown(LoadedNodes(ToSave), step) = Shown(nodes, step)

(* loadData and processRouteBeforeUpdate, for a plugin that the UI does not     *)
(* know, which is listed outside of the steps: it is saved with the index that *)
(* the stored route has, or with none once swap has put the empty index of its *)
(* node in the route; never with that of a plugin that was moved. As long as   *)
(* none is removed or replaced, the plugins of the stored route are the first  *)
(* of the one that will be saved.                                             *)
UnknownKeepsItsPlace ==
    ~churned => \A i \in DOMAIN stored :
        stored[i].plugin \notin Known => IndexOf(ToSave[i]) \in {IndexOf(stored[i]), Empty}
================================================================================
