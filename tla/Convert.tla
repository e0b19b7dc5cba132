------------------------------- MODULE Convert -------------------------------
(***************************************************************************)
(* tools/convert.py, step by step: argparse with one mutually exclusive   *)
(* group of options per direction, filter_dict for the input and for the  *)
(* output, the split of --outnodes, convert's asserts, get_input_gdef     *)
(* with check_graph_validity, the nGraph grappler pass and save_model.    *)
(* Every failing assert or raise ends the tool.  A graph is the set of    *)
(* its op names; loading and the grappler rewrite are opaque.              *)
(***************************************************************************)
EXTENDS Naturals, FiniteSets

CONSTANTS
    Ops,          \* op names a graph may hold
    VariableOps,  \* the op names containing 'Variable'
    Encapsulate,  \* "NGraphEncapsulate", the op of an nGraph cluster
    InFormats,    \* allowed_formats["input"]
    OutFormats    \* allowed_formats["output"]

ASSUME ConvertAssumption ==
    /\ VariableOps \subseteq Ops
    /\ Encapsulate \in Ops \ VariableOps
    /\ InFormats = {"savedmodel", "pbtxt"}
    /\ OutFormats = {"savedmodel", "pbtxt", "pb"}

Graphs == SUBSET Ops

VARIABLES
    request,  \* the command line: options given per direction, --outnodes, graph
    pc,       \* the step the tool is at
    inp,      \* the input format filter_dict returned
    outp,     \* the output format filter_dict returned
    gdef,     \* the graph in memory, {[src, ngraph]}, or {} before loading
    written   \* the files save_model wrote: {} or {[graph, ngraph, fmt]}

vars == <<request, pc, inp, outp, gdef, written>>

Requests == [ins : SUBSET InFormats, outs : SUBSET OutFormats,
             nodes : BOOLEAN, graph : Graphs]

PCs == {"parse", "filter_in", "filter_out", "split", "load", "optimize",
        "save", "done", "aborted"}

(***************************************************************************)
(* i.op is not 'NGraphEncapsulate': an identity test.  The op name is a   *)
(* str object made when the GraphDef was read, never the interned literal, *)
(* so the test is true whatever the name.                                 *)
(***************************************************************************)
IsNot(a, b) == TRUE

\* check_graph_validity: no op is NGraphEncapsulate (as the code tests it)
\* and no op name contains 'Variable'.
CheckGraphValidity(g) ==
    /\ \A op \in g : IsNot(op, Encapsulate)
    /\ g \cap VariableOps = {}

\* filter_dict(prefix, args): the options of the direction that are not
\* None; the assert wants exactly one, whose format it returns.
FilterDict(given) == CHOOSE f \in given : TRUE

\* Mutation: the as_text arguments of the two partials swapped.
AsTextSwapped(f) == f = "pb"

\* save_model: the writer of each format; save_gdef_to_savedmodel raises
\* "Implement me", and the two protobuf writers differ in as_text.
AsText(f) == f = "pbtxt"
-----------------------------------------------------------------------------
Init ==
    /\ request \in Requests
    /\ pc = "parse"
    /\ inp = "none"
    /\ outp = "none"
    /\ gdef = {}
    /\ written = {}

\* parse_args: two options of one mutually exclusive group is an error.
ParseArgs ==
    /\ pc = "parse"
    /\ pc' = IF Cardinality(request.ins) > 1 \/ Cardinality(request.outs) > 1
               THEN "aborted" ELSE "filter_in"
    /\ UNCHANGED <<request, inp, outp, gdef, written>>

\* filter_dict("input", ...): no input option given fails the assert.
FilterInput ==
    /\ pc = "filter_in"
    /\ IF Cardinality(request.ins) = 1
         THEN pc' = "filter_out" /\ inp' = FilterDict(request.ins)
         ELSE pc' = "aborted" /\ UNCHANGED inp
    /\ UNCHANGED <<request, outp, gdef, written>>

\* filter_dict("output", ...).
FilterOutput ==
    /\ pc = "filter_out"
    /\ IF Cardinality(request.outs) = 1
         THEN pc' = "split" /\ outp' = FilterDict(request.outs)
         ELSE pc' = "aborted" /\ UNCHANGED outp
    /\ UNCHANGED <<request, inp, gdef, written>>

\* args.outnodes.split(','): without --outnodes it is None.split, an
\* AttributeError.
SplitOutnodes ==
    /\ pc = "split"
    /\ pc' = IF request.nodes THEN "load" ELSE "aborted"
    /\ UNCHANGED <<request, inp, outp, gdef, written>>

\* convert's asserts on the formats, then get_input_gdef: load the graph
\* and assert check_graph_validity.
Load ==
    /\ pc = "load"
    /\ inp \in InFormats /\ outp \in OutFormats
    /\ IF CheckGraphValidity(request.graph)
         THEN pc' = "optimize" /\ gdef' = {[src |-> request.graph, ngraph |-> FALSE]}
         ELSE pc' = "aborted" /\ UNCHANGED gdef
    /\ UNCHANGED <<request, inp, outp, written>>

\* run_ngraph_grappler_optimizer: the graph through the ngraph-optimizer.
Optimize ==
    /\ pc = "optimize"
    /\ gdef' = {[src |-> g.src, ngraph |-> TRUE] : g \in gdef}
    /\ pc' = "save"
    /\ UNCHANGED <<request, inp, outp, written>>

\* save_model of the rewritten graph, then the closing print.
Save ==
    /\ pc = "save"
    /\ IF outp = "savedmodel"
         THEN pc' = "aborted" /\ UNCHANGED written
         ELSE /\ pc' = "done"
              /\ written' = {[graph |-> g.src, ngraph |-> g.ngraph,
                              fmt |-> IF AsText(outp) THEN "pbtxt" ELSE "pb"]
                             : g \in gdef}
    /\ UNCHANGED <<request, inp, outp, gdef>>

Next ==
    \/ ParseArgs \/ FilterInput \/ FilterOutput \/ SplitOutnodes
    \/ Load \/ Optimize \/ Save

Spec == Init /\ [][Next]_vars
-----------------------------------------------------------------------------
TypeOK ==
    /\ request \in Requests
    /\ pc \in PCs
    /\ inp \in InFormats \cup {"none"}
    /\ outp \in OutFormats \cup {"none"}
    /\ gdef \subseteq [src : Graphs, ngraph : BOOLEAN]
    /\ written \subseteq [graph : Graphs, ngraph : BOOLEAN, fmt : OutFormats]

\* The graphs check_graph_validity lets through, and those its comment
\* means to: not already processed by nGraph, and without variables.
CodeAccepted == {g \in Graphs : CheckGraphValidity(g)}

IntendedAccepted == {g \in Graphs : Encapsulate \notin g /\ g \cap VariableOps = {}}

\* Only the protobuf writers are implemented.
Writable == {"pbtxt", "pb"}

Ended == pc \in {"done", "aborted"}

A == INSTANCE ConvertAbstract
        WITH req <- request, out <- written, done <- Ended,
             Graphs <- Graphs, Accepted <- CodeAccepted

I == INSTANCE ConvertAbstract
        WITH req <- request, out <- written, done <- Ended,
             Graphs <- Graphs, Accepted <- IntendedAccepted

(***************************************************************************)
(* ConvertRefines: convert.py implements the one-step conversion with the *)
(* checks it makes: each command line with one input format, one          *)
(* writable output format, --outnodes and a graph check_graph_validity    *)
(* accepts ends with the rewritten graph written in that format, and      *)
(* every other one ends with nothing written.                              *)
(***************************************************************************)
ConvertRefines == A!Spec

(***************************************************************************)
(* IntendedRefines: the same promise with the check the comment of        *)
(* check_graph_validity intends: a graph already processed by nGraph      *)
(* (holding NGraphEncapsulate) is refused, never converted again.          *)
(***************************************************************************)
IntendedRefines == I!Spec

====
