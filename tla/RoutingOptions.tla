--------------------------- MODULE RoutingOptions ---------------------------
(***************************************************************************)
(* Request composition of packages/workflow/src/RoutingNode.ts:           *)
(* getRequestOptionsFromParameters (the depth-first walk of a node type's *)
(* property schema), mergeOptions, and the request set-up of runNode.     *)
(*                                                                         *)
(* The walk writes into objects, and some of those objects belong to the  *)
(* node type description: runNode's Object.assign puts the object         *)
(* requestDefaults.qs itself into the request, and the walk puts a        *)
(* property's routing.request.qs object itself into its partial options. *)
(* lodash merge and set then write into those objects in place.  The      *)
(* description objects are therefore state, d[owner][loc], threaded      *)
(* through the recursion; owner "defaults" is requestDefaults.            *)
(*                                                                         *)
(* Data is abstracted: a query or body object maps each key of Keys to a  *)
(* value, to Undef (present and undefined) or to Absent; dot-notation     *)
(* paths are single keys.  Expressions are resolved to the parameter      *)
(* value, the same for every item.  displayParameter is the set           *)
(* prm.hidden of the properties it hides.                                  *)
(***************************************************************************)
EXTENDS Naturals, Sequences, SequencesExt

CONSTANTS
    Props,       \* the properties and options of the node type
    Schema,      \* Schema[p]: kind, children and routing metadata of p
    TopProps,    \* nodeType.description.properties, in order
    Keys,        \* query and body keys
    Locs,        \* "qs" and "body"
    Vals,        \* parameter and literal values
    Hooks,       \* preSend and postReceive hook ids
    MaxReps,     \* bound: repetitions of a fixed-collection group
    Declared,    \* Declared[p][l]: the routing.request object p declares
    Defaults,    \* requestDefaults: [request: SUBSET Locs, obj, operations]
    Hideable,    \* properties that have displayOptions
    Undef, Absent, Unset, NoSel, NoOpts

Owners == {"defaults"} \cup Props
Obj == [Keys -> Vals \cup {Undef, Absent}]
EmptyObj == [k \in Keys |-> Absent]
Kinds == {"scalar", "option", "options", "collection", "fixedCollection", "group"}
OpsKinds == {"none", "offset", "function"}

Kind(p) == Schema[p].kind
Elems(s) == {s[i] : i \in 1..Len(s)}
PropsOfKind(k) == {p \in Props : Kind(p) = k}

\* The scalars whose value the routing sends ($value).
ValueProps ==
    {p \in PropsOfKind("scalar") :
        Schema[p].routing /\ Schema[p].sendKey # "none" /\ Schema[p].sendValue = "$value"}

ChildrenOf(k) == UNION {Elems(Schema[p].children) : p \in PropsOfKind(k)}

\* The node parameters of one node, as far as the walk reads them.
Params ==
    [hidden: SUBSET Hideable,
     val: [ValueProps -> Vals \cup {Undef}],
     sel: [PropsOfKind("options") -> ChildrenOf("options") \cup {NoSel}],
     present: [PropsOfKind("collection") -> SUBSET ChildrenOf("collection")],
     reps: [PropsOfKind("group") -> 0..MaxReps]]

ValidParams ==
    {prm \in Params :
        /\ \A p \in PropsOfKind("options") :
              prm.sel[p] \in Elems(Schema[p].children) \cup {NoSel}
        /\ \A p \in PropsOfKind("collection") :
              prm.present[p] \subseteq Elems(Schema[p].children)}

\* The partial options a walk returns (IRequestOptionsFromParameters).
Options ==
    [obj: [Locs -> Obj], paginate: BOOLEAN \cup {Unset}, maxResults: Nat,
     preSend: Seq(Hooks), postReceive: Seq(Hooks), ops: OpsKinds]

EmptyOptions ==
    [obj |-> [l \in Locs |-> EmptyObj], paginate |-> Unset, maxResults |-> 0,
     preSend |-> <<>>, postReceive |-> <<>>, ops |-> "none"]

\* The description objects as the node type declares them.
InitDesc ==
    [o \in Owners |-> IF o = "defaults" THEN Defaults.obj ELSE Declared[o]]

\* Locations where owner o's own object is put into the options.
Aliased(o) ==
    IF o = "defaults" THEN Defaults.request
    ELSE IF Schema[o].routing THEN Schema[o].request ELSE {}

-----------------------------------------------------------------------------
(* lodash merge of one object into another: a source key that is absent, *)
(* or undefined while the destination has the key, is skipped.           *)
MergeObj(dst, src) ==
    [k \in Keys |-> IF src[k] = Absent \/ (src[k] = Undef /\ dst[k] # Absent)
                    THEN dst[k] ELSE src[k]]

\* Fault variant: a later paginate flag overrides an earlier one.
mergeOptions_lastPaginate(dst, src) ==
    IF src = NoOpts THEN dst
    ELSE [obj |-> [l \in Locs |-> MergeObj(dst.obj[l], src.obj[l])],
          paginate |-> IF src.paginate = Unset THEN dst.paginate ELSE src.paginate,
          maxResults |-> IF src.maxResults > 0 THEN src.maxResults ELSE dst.maxResults,
          preSend |-> dst.preSend \o src.preSend,
          postReceive |-> dst.postReceive \o src.postReceive,
          ops |-> IF src.ops # "none" THEN src.ops ELSE dst.ops]

\* mergeOptions: the first paginate flag set wins, a truthy maxResults of the
\* source wins, objects deep-merge, hook lists concatenate, and the
\* source's requestOperations are assigned over the destination's.
mergeOptions(dst, src) ==
    IF src = NoOpts THEN dst
    ELSE [obj |-> [l \in Locs |-> MergeObj(dst.obj[l], src.obj[l])],
          paginate |-> IF dst.paginate = Unset THEN src.paginate ELSE dst.paginate,
          maxResults |-> IF src.maxResults > 0 THEN src.maxResults ELSE dst.maxResults,
          preSend |-> dst.preSend \o src.preSend,
          postReceive |-> dst.postReceive \o src.postReceive,
          ops |-> IF src.ops # "none" THEN src.ops ELSE dst.ops]

\* parameterValue of p: the scalar's value; undefined for the others
\* (their value is never sent).
ParamValue(p, prm) == IF p \in ValueProps THEN prm.val[p] ELSE Undef

\* What the routing of p itself contributes (L482-614): routing.request
\* puts p's own objects in, routing.send writes one key into them, and
\* routing.operations, paginate, preSend, maxResults and postReceive are
\* copied.
Own(p, prm, d) ==
    LET r == Schema[p]
        base == [l \in Locs |-> IF l \in Aliased(p) THEN d[p][l] ELSE EmptyObj]
        val == IF r.sendValue = "$value" THEN ParamValue(p, prm) ELSE r.sendValue
        obj == IF r.routing /\ r.sendKey # "none"
               THEN [base EXCEPT ![r.sendLoc][r.sendKey] = val] ELSE base
    IN  [obj |-> obj,
         paginate |-> IF r.routing THEN r.paginate ELSE Unset,
         maxResults |-> IF r.routing THEN r.maxResults ELSE 0,
         preSend |-> IF r.routing /\ r.preSend # "none" THEN <<r.preSend>> ELSE <<>>,
         postReceive |-> IF r.routing /\ r.postReceive # "none"
                         THEN <<r.postReceive>> ELSE <<>>,
         ops |-> IF r.routing THEN r.operations ELSE "none"]

\* s repeated n times.
RepeatSeq(s, n) == [i \in 1..(n * Len(s)) |-> s[((i - 1) % Len(s)) + 1]]

\* The child properties walked, in order (L616-711): the selected option,
\* the sub-fields present in a collection, and each repetition of each
\* set group of a fixed collection.
Kids(p, prm) ==
    CASE Kind(p) = "options" ->
            IF prm.sel[p] = NoSel THEN <<>> ELSE <<prm.sel[p]>>
      [] Kind(p) = "collection" ->
            SelectSeq(Schema[p].children, LAMBDA c : c \in prm.present[p])
      [] Kind(p) = "fixedCollection" ->
            FoldLeft(LAMBDA acc, g : acc \o RepeatSeq(Schema[g].children, prm.reps[g]),
                     <<>>, Schema[p].children)
      [] OTHER -> <<>>

\* The owner's objects that alias into the options take the final contents.
Persist(o, opts, d) ==
    [d EXCEPT ![o] = [l \in Locs |-> IF l \in Aliased(o) THEN opts.obj[l] ELSE @[l]]]

RECURSIVE getRequestOptionsFromParameters(_, _, _), WalkAll(_, _, _, _)

\* getRequestOptionsFromParameters(p) on description objects d; returns the
\* options (NoOpts for a hidden property) and the description objects.
getRequestOptionsFromParameters(p, prm, d) ==
    IF p \in prm.hidden THEN [o |-> NoOpts, d |-> d]
    ELSE LET w == WalkAll(Kids(p, prm), Own(p, prm, d), prm, d)
         IN  [o |-> w.o, d |-> Persist(p, w.o, w.d)]

\* Walk each property of s in turn and merge its options into acc.
WalkAll(s, acc, prm, d) ==
    IF s = <<>> THEN [o |-> acc, d |-> d]
    ELSE LET w == getRequestOptionsFromParameters(Head(s), prm, d)
         IN  WalkAll(Tail(s), mergeOptions(acc, w.o), prm, w.d)

\* runNode's request for one item (L121-176): requestOperations and the
\* request defaults, whose objects are put in as they are, then each
\* property's options merged in.
BuildRequest(prm, d) ==
    LET start == [EmptyOptions EXCEPT
                    !.obj = [l \in Locs |-> IF l \in Aliased("defaults")
                                            THEN d["defaults"][l] ELSE EmptyObj],
                    !.ops = Defaults.operations]
        w == WalkAll(TopProps, start, prm, d)
    IN  [o |-> w.o, d |-> Persist("defaults", w.o, w.d)]

-----------------------------------------------------------------------------
(* Reference: spec 4.2 step 3 as a flat definition.  The visited         *)
(* properties in depth-first order; each contributes its declared objects *)
(* with its send write, and the contributions are merged in that order.  *)
RECURSIVE Visited(_, _)
Visited(p, prm) ==
    IF p \in prm.hidden THEN <<>>
    ELSE <<p>> \o FlattenSeq([i \in 1..Len(Kids(p, prm)) |-> Visited(Kids(p, prm)[i], prm)])

VisitedAll(prm) == FlattenSeq([i \in 1..Len(TopProps) |-> Visited(TopProps[i], prm)])

RefOwn(p, prm) == Own(p, prm, InitDesc)

RefObj(l, prm) ==
    FoldLeft(LAMBDA acc, p : MergeObj(acc, RefOwn(p, prm).obj[l]),
             IF l \in Aliased("defaults") THEN Defaults.obj[l] ELSE EmptyObj,
             VisitedAll(prm))

RefPaginate(prm) ==
    LET v == SelectSeq(VisitedAll(prm), LAMBDA p : RefOwn(p, prm).paginate # Unset)
    IN  IF v = <<>> THEN Unset ELSE RefOwn(v[1], prm).paginate

RefMaxResults(prm) ==
    LET v == SelectSeq(VisitedAll(prm), LAMBDA p : RefOwn(p, prm).maxResults > 0)
    IN  IF v = <<>> THEN 0 ELSE RefOwn(v[Len(v)], prm).maxResults

RefHooks(prm, f) ==
    FoldLeft(LAMBDA acc, p : acc \o (IF f = "pre" THEN RefOwn(p, prm).preSend
                                     ELSE RefOwn(p, prm).postReceive),
             <<>>, VisitedAll(prm))

RefOps(prm) ==
    LET v == SelectSeq(VisitedAll(prm), LAMBDA p : RefOwn(p, prm).ops # "none")
    IN  IF v = <<>> THEN Defaults.operations ELSE RefOwn(v[Len(v)], prm).ops

=============================================================================
