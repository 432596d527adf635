---------------------------- MODULE RouteDesignerMC ----------------------------
(* A small instance of RouteDesigner for TLC: a plugin of the request only, *)
(* one of both transformations, one of the response only, and one that the  *)
(* UI has no form for.                                                      *)
EXTENDS RouteDesigner

CONSTANTS auth, headers, gzip, other, access, request, response

PluginSteps ==
    [p \in Plugins |-> CASE p = auth    -> {access, request}
                         [] p = headers -> {request, response}
                         [] p = gzip    -> {response}
                         [] OTHER       -> {access}]

Ref(p, index) == [plugin |-> p, index |-> index]

AuthAt(a, r) == Ref(auth, [s \in {access, request} |-> IF s = access THEN a ELSE r])

GzipAt(n) == Ref(gzip, [s \in {response} |-> n])

SavedRoutes == {
    \* made by the API without any index, an instance twice
    <<Ref(auth, None), Ref(headers, None), Ref(auth, None)>>,
    \* saved by the designer, with a plugin that was uninstalled since
    <<AuthAt(1, 0), Ref(other, [s \in {access} |-> 0])>>,
    \* two plugins with the same index, in the access and in the response
    <<AuthAt(0, 0), AuthAt(0, 1)>>,
    <<GzipAt(1), GzipAt(1)>>,
    \* an index for some of the steps only
    <<Ref(auth, [s \in {request} |-> 1]), Ref(headers, None)>>}

\* The indexes of a pattern need not be in the order of the list.
PatternLists == {<<Ref(headers, [s \in {request} |-> 1]), AuthAt(0, 0), GzipAt(0)>>}
================================================================================
