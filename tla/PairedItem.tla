----------------------------- MODULE PairedItem -----------------------------
(***************************************************************************)
(* Item lineage of packages/workflow/src/WorkflowDataProxy.ts: the        *)
(* getPairedItem walk that pairs an item of a downstream node with the   *)
(* item of an upstream node it descends from.                             *)
(*                                                                         *)
(* The run data is built node by node, in the order the runner executes  *)
(* them (spec 3): each node records one task whose output items carry a  *)
(* pairedItem annotation that is missing, a single reference, or an array *)
(* of references (a merge).  A reference names an item index and the     *)
(* input slot of the task; the task's source array maps each input slot  *)
(* to the node that fed it (Conn).  Every state is a run in progress and  *)
(* the properties quantify over every lineage question that run can be   *)
(* asked.                                                                  *)
(*                                                                         *)
(* getPairedItem is a RECURSIVE operator with the structure of the code:  *)
(* the while loop follows single references, the array case recurses per *)
(* candidate and swallows a candidate's error as null.  JavaScript        *)
(* outcomes are kept apart: an ExpressionError, a TypeError thrown by a   *)
(* read of an undefined item or source, and an undefined value returned   *)
(* as if it were an item.  The reference definitions (LineagePaths,       *)
(* Ancestors, WellFormed) define lineage from the annotations alone.      *)
(*                                                                         *)
(* One run per node and one output slot: previousNodeRun and              *)
(* previousNodeOutput are always 0.                                        *)
(***************************************************************************)
EXTENDS Naturals, Sequences, SequencesExt

CONSTANTS
    NodeOrder,  \* the nodes, in the order the runner executes them
    Conn,       \* Conn[n]: the node feeding each input slot of n, in order
    MaxItems,   \* bound: items a node outputs
    MaxInputs,  \* bound: input slots a reference may name
    NoNode      \* model value: no node

Nodes == {NodeOrder[i] : i \in 1..Len(NodeOrder)}

ASSUME \A n \in Nodes : \A i \in 1..Len(Conn[n]) : Conn[n][i] \in Nodes

ItemIdx == 0..MaxItems - 1
InputIdx == 0..MaxInputs - 1

\* IPairedItemData: { item, input }.
Ref == [item: ItemIdx, input: InputIdx]

\* An output item, reduced to its pairedItem annotation.
Item == [kind: {"none", "single", "array"}, refs: Seq(Ref)]

NoPaired == [kind |-> "none", refs |-> <<>>]

\* What a resolution yields: an item (node, index), an undefined value
\* taken for an item, an ExpressionError, or a TypeError.
Result == [kind: {"item", "undefined", "exprError", "typeError"},
           node: Nodes \cup {NoNode}, idx: Nat]

ItemRes(n, i) == [kind |-> "item", node |-> n, idx |-> i]
Undefined == [kind |-> "undefined", node |-> NoNode, idx |-> 0]
ExprErr == [kind |-> "exprError", node |-> NoNode, idx |-> 0]
TypeErr == [kind |-> "typeError", node |-> NoNode, idx |-> 0]
IsError(r) == r.kind \in {"exprError", "typeError"}

\* Special source values: a null entry and an index past the source array.
NullSrc == "null"
UndefSrc == "undefined"

VARIABLES
    runData   \* runData[n]: output items of n's task, <<>> if n has not run

vars == <<runData>>

\* taskData.source[input]: the feeding node, or undefined past the array.
Source(n, input) ==
    IF input < Len(Conn[n]) THEN Conn[n][input + 1] ELSE UndefSrc

\* The while loop's "taskData.source[input] || null".
SourceOrNull(n, input) ==
    IF input < Len(Conn[n]) THEN Conn[n][input + 1] ELSE NullSrc

HasItem(n, i) == i < Len(runData[n])

ItemAt(n, i) == runData[n][i + 1]

\* Fault variant: the array case returns the filtered list, not its element.
RECURSIVE getPairedItem_returnResults(_, _, _)
getPairedItem_returnResults(dest, src, p) ==
    CASE src = UndefSrc -> TypeErr      \* sourceData.previousNode of undefined
      [] src = NullSrc -> ExprErr       \* "probably no pairedItem exists"
      [] src = dest ->
            \* the final read: an index past the output is undefined
            IF HasItem(src, p.item) THEN ItemRes(src, p.item) ELSE Undefined
      [] ~HasItem(src, p.item) -> TypeErr   \* itemPreviousNode.pairedItem
      [] ItemAt(src, p.item).kind = "none" -> ExprErr
      [] ItemAt(src, p.item).kind = "array" ->
            LET refs == ItemAt(src, p.item).refs
                tried == [k \in 1..Len(refs) |->
                            getPairedItem_returnResults(dest, Source(src, refs[k].input), refs[k])]
                \* errors become null and are filtered out; undefined stays
                results == SelectSeq(tried, LAMBDA r : ~IsError(r))
            IN  IF Len(results) = 1 THEN results ELSE ExprErr
      [] OTHER ->
            LET next == ItemAt(src, p.item).refs[1]
            IN  getPairedItem_returnResults(dest, SourceOrNull(src, next.input), next)


\* Fault variant: the next source is taken with the previous hop's input slot.
RECURSIVE getPairedItem_staleInput(_, _, _)
getPairedItem_staleInput(dest, src, p) ==
    CASE src = UndefSrc -> TypeErr      \* sourceData.previousNode of undefined
      [] src = NullSrc -> ExprErr       \* "probably no pairedItem exists"
      [] src = dest ->
            \* the final read: an index past the output is undefined
            IF HasItem(src, p.item) THEN ItemRes(src, p.item) ELSE Undefined
      [] ~HasItem(src, p.item) -> TypeErr   \* itemPreviousNode.pairedItem
      [] ItemAt(src, p.item).kind = "none" -> ExprErr
      [] ItemAt(src, p.item).kind = "array" ->
            LET refs == ItemAt(src, p.item).refs
                tried == [k \in 1..Len(refs) |->
                            getPairedItem_staleInput(dest, Source(src, refs[k].input), refs[k])]
                \* errors become null and are filtered out; undefined stays
                results == SelectSeq(tried, LAMBDA r : ~IsError(r))
            IN  IF Len(results) = 1 THEN results[1] ELSE ExprErr
      [] OTHER ->
            LET next == ItemAt(src, p.item).refs[1]
            IN  getPairedItem_staleInput(dest, SourceOrNull(src, p.input), next)


\* Fault variant: failed candidates are not filtered out.
RECURSIVE getPairedItem_noFilter(_, _, _)
getPairedItem_noFilter(dest, src, p) ==
    CASE src = UndefSrc -> TypeErr      \* sourceData.previousNode of undefined
      [] src = NullSrc -> ExprErr       \* "probably no pairedItem exists"
      [] src = dest ->
            \* the final read: an index past the output is undefined
            IF HasItem(src, p.item) THEN ItemRes(src, p.item) ELSE Undefined
      [] ~HasItem(src, p.item) -> TypeErr   \* itemPreviousNode.pairedItem
      [] ItemAt(src, p.item).kind = "none" -> ExprErr
      [] ItemAt(src, p.item).kind = "array" ->
            LET refs == ItemAt(src, p.item).refs
                tried == [k \in 1..Len(refs) |->
                            getPairedItem_noFilter(dest, Source(src, refs[k].input), refs[k])]
                results == tried
            IN  IF Len(results) = 1 THEN results[1] ELSE ExprErr
      [] OTHER ->
            LET next == ItemAt(src, p.item).refs[1]
            IN  getPairedItem_noFilter(dest, SourceOrNull(src, next.input), next)


(***************************************************************************)
(* getPairedItem(destinationNodeName, incomingSourceData, pairedItem).    *)
(***************************************************************************)
RECURSIVE getPairedItem(_, _, _)
getPairedItem(dest, src, p) ==
    CASE src = UndefSrc -> TypeErr      \* sourceData.previousNode of undefined
      [] src = NullSrc -> ExprErr       \* "probably no pairedItem exists"
      [] src = dest ->
            \* the final read: an index past the output is undefined
            IF HasItem(src, p.item) THEN ItemRes(src, p.item) ELSE Undefined
      [] ~HasItem(src, p.item) -> TypeErr   \* itemPreviousNode.pairedItem
      [] ItemAt(src, p.item).kind = "none" -> ExprErr
      [] ItemAt(src, p.item).kind = "array" ->
            LET refs == ItemAt(src, p.item).refs
                tried == [k \in 1..Len(refs) |->
                            getPairedItem(dest, Source(src, refs[k].input), refs[k])]
                \* errors become null and are filtered out; undefined stays
                results == SelectSeq(tried, LAMBDA r : ~IsError(r))
            IN  IF Len(results) = 1 THEN results[1] ELSE ExprErr
      [] OTHER ->
            LET next == ItemAt(src, p.item).refs[1]
            IN  getPairedItem(dest, SourceOrNull(src, next.input), next)

\* The lineage question for item k of node n's output, asked as the
\* code's own recursive call asks it.
Resolve(dest, n, k) == getPairedItem(dest, n, [item |-> k, input |-> 0])

(***************************************************************************)
(* The reference definition of lineage, from the annotations alone.       *)
(***************************************************************************)
\* The items an item's annotation names, as (node, index) pairs.
Parents(n, k) ==
    IF ~HasItem(n, k) THEN {}
    ELSE {<<Source(n, r.input), r.item>> :
            r \in {ItemAt(n, k).refs[j] : j \in 1..Len(ItemAt(n, k).refs)}}
         \cap (Nodes \X ItemIdx)

\* Every item (n, k) descends from, itself included.
RECURSIVE Ancestors(_, _)
Ancestors(n, k) ==
    {<<n, k>>} \cup UNION {Ancestors(a[1], a[2]) : a \in Parents(n, k)}

\* The annotations along every path up from (n, k) are complete: each
\* item exists and, unless its node is a trigger, names at least one
\* item through an input slot that has a source.
RECURSIVE WellFormed(_, _)
WellFormed(n, k) ==
    /\ HasItem(n, k)
    /\ Conn[n] # <<>> =>
        LET refs == ItemAt(n, k).refs
        IN  /\ ItemAt(n, k).kind # "none"
            /\ \A j \in 1..Len(refs) :
                 /\ refs[j].input < Len(Conn[n])
                 /\ WellFormed(Source(n, refs[j].input), refs[j].item)

\* How many distinct annotation paths lead from (n, k) to an item of dest.
RECURSIVE LineagePaths(_, _, _)
LineagePaths(n, k, dest) ==
    IF n = dest THEN (IF HasItem(n, k) THEN 1 ELSE 0)
    ELSE IF ~HasItem(n, k) THEN 0
    ELSE LET refs == ItemAt(n, k).refs
         IN  FoldLeft(LAMBDA acc, r :
                        acc + IF Source(n, r.input) \in Nodes
                              THEN LineagePaths(Source(n, r.input), r.item, dest)
                              ELSE 0,
                      0, refs)

(***************************************************************************)
(* The runner: executes the next node once every node feeding it has run, *)
(* recording its output items (spec_modelled).                            *)
(***************************************************************************)
\* The order of an array's candidates does not change the outcome (only
\* how many succeed counts), so each pair is generated once.
Before(r1, r2) ==
    \/ r1.item < r2.item
    \/ r1.item = r2.item /\ r1.input < r2.input

ItemChoices(n) ==
    IF Conn[n] = <<>> THEN {NoPaired}
    ELSE {NoPaired}
         \cup {[kind |-> "single", refs |-> <<r>>] : r \in Ref}
         \cup {[kind |-> "array", refs |-> <<r1, r2>>] :
                 <<r1, r2>> \in {x \in Ref \X Ref : Before(x[1], x[2])}}

Outputs(n) == UNION {[1..m -> ItemChoices(n)] : m \in 1..MaxItems}

Init == runData = [n \in Nodes |-> <<>>]

ExecuteNode(n, items) ==
    /\ runData[n] = <<>>
    /\ \A i \in 1..Len(Conn[n]) : runData[Conn[n][i]] # <<>>
    /\ runData' = [runData EXCEPT ![n] = items]

Next == \E n \in Nodes : \E items \in Outputs(n) : ExecuteNode(n, items)

Spec == Init /\ [][Next]_vars

\* Every lineage question about an item the run has produced.
Queries == {<<d, n, k>> \in Nodes \X Nodes \X ItemIdx :
              runData[n] # <<>> /\ HasItem(n, k)}

-----------------------------------------------------------------------------
(* Properties *)

TypeOK ==
    /\ runData \in [Nodes -> Seq(Item)]
    /\ \A q \in Queries :
         LET r == Resolve(q[1], q[2], q[3])
         IN  DOMAIN r = {"kind", "node", "idx"} /\ r \in Result

\* Spec 4.1 and 8: when the annotations are complete and exactly one
\* lineage path leads from the item to the destination node, the walk of
\* getPairedItem returns that path's end item, through any number of
\* single hops and merges whose other candidates fail.
UniqueLineageResolved ==
    \A q \in Queries :
        LET d == q[1]  n == q[2]  k == q[3]
        IN  (WellFormed(n, k) /\ LineagePaths(n, k, d) = 1)
                => LET a == CHOOSE x \in Ancestors(n, k) : x[1] = d
                   IN  Resolve(d, n, k) = ItemRes(a[1], a[2])

\* Spec 4.1: whatever the annotations, an item getPairedItem returns
\* belongs to the destination node and is one the asked item descends
\* from; it never guesses among merged candidates.
ResultIsAncestor ==
    \A q \in Queries :
        LET r == Resolve(q[1], q[2], q[3])
        IN  r.kind = "item" => /\ r.node = q[1]
                               /\ <<r.node, r.idx>> \in Ancestors(q[2], q[3])

=============================================================================
