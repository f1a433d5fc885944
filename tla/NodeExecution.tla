--------------------------- MODULE NodeExecution ---------------------------
(***************************************************************************)
(* What a node's execute promises about its input items (spec 4.2, "Error *)
(* / edge policy", and spec 7, "Local recovery"): the items are handled in *)
(* order; a handled item adds its output entries, tagged with the item,   *)
(* to the end of the output; a per-item failure under continue-on-failure *)
(* becomes a single error entry and the remaining items still run;        *)
(* without it the failure aborts the whole invocation, which returns no   *)
(* output.  The invocation returns when its last item has been handled.   *)
(*                                                                         *)
(* RoutingNode.runNode and GmailV2.execute are shown to implement this    *)
(* specification (the ImplementsNodeExecution properties of their         *)
(* modules).                                                               *)
(***************************************************************************)
EXTENDS Naturals, Sequences

CONSTANTS
    MaxItems,    \* bound: input items of one invocation
    MaxEntries,  \* bound: output entries one item adds
    OkKinds      \* kinds of the entries a handled item adds

VARIABLES
    status,          \* "idle", "running", "returned" or "threw"
    count,           \* input items of the invocation
    continueOnFail,  \* the node's continueOnFail setting
    next,            \* items handled so far
    out              \* the output: a sequence of [item, kind] entries

vars == <<status, count, continueOnFail, next, out>>

Entry == [item: 0..(MaxItems - 1), kind: OkKinds \cup {"error"}]

TypeOK ==
    /\ status \in {"idle", "running", "returned", "threw"}
    /\ count \in 1..MaxItems
    /\ continueOnFail \in BOOLEAN
    /\ next \in 0..count
    /\ out \in Seq(Entry)

\* Entries of item k, one per kind in ks.
Tagged(k, ks) == [j \in 1..Len(ks) |-> [item |-> k, kind |-> ks[j]]]

\* The status after item next has been handled.
After == IF next + 1 = count THEN "returned" ELSE "running"

Init ==
    /\ status \in {"idle", "running"}
    /\ count \in 1..MaxItems
    /\ continueOnFail \in BOOLEAN
    /\ next = 0
    /\ out = <<>>

\* The node is invoked again on a new set of input items.
Invoke ==
    /\ status # "running"
    /\ status' = "running"
    /\ count' \in 1..MaxItems
    /\ continueOnFail' \in BOOLEAN
    /\ next' = 0
    /\ out' = <<>>

\* Item next is handled and adds its entries.
Succeed ==
    /\ status = "running"
    /\ \E k \in 0..MaxEntries :
          \E ks \in [1..k -> OkKinds] : out' = out \o Tagged(next, ks)
    /\ next' = next + 1
    /\ status' = After
    /\ UNCHANGED <<count, continueOnFail>>

\* Item next fails under continue-on-failure: one error entry.
Recover ==
    /\ status = "running" /\ continueOnFail
    /\ out' = Append(out, [item |-> next, kind |-> "error"])
    /\ next' = next + 1
    /\ status' = After
    /\ UNCHANGED <<count, continueOnFail>>

\* Item next fails without continue-on-failure: the invocation throws.
Abort ==
    /\ status = "running" /\ ~continueOnFail
    /\ status' = "threw"
    /\ UNCHANGED <<count, continueOnFail, next, out>>

Next == Invoke \/ Succeed \/ Recover \/ Abort

Spec == Init /\ [][Next]_vars

=============================================================================
