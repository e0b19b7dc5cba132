--------------------------- MODULE ConvertAbstract ---------------------------
(***************************************************************************)
(* What tools/convert.py promises, as one step: given a command line that *)
(* names exactly one input format, one output format and the output       *)
(* nodes, and a graph the tool accepts, it writes the nGraph-rewritten     *)
(* graph in the requested format; on any other command line it writes      *)
(* nothing.  Which graphs are accepted and which formats can be written   *)
(* are parameters, so that the same promise can be stated with the checks *)
(* the code makes and with the checks its comments intend.                *)
(***************************************************************************)

CONSTANTS
    Graphs,      \* the input graphs considered
    InFormats,   \* allowed_formats["input"]
    OutFormats,  \* allowed_formats["output"]
    Accepted,    \* the graphs the tool converts
    Writable     \* the output formats the tool can write

VARIABLES
    req,   \* the command line: formats given, --outnodes given, the graph
    out,   \* the files written: {} or {[graph, ngraph, fmt]}
    done   \* the tool has ended

Requests == [ins : SUBSET InFormats, outs : SUBSET OutFormats,
             nodes : BOOLEAN, graph : Graphs]

\* A command line the conversion must carry out.
Valid(r) ==
    /\ \E f \in InFormats : r.ins = {f}
    /\ \E f \in OutFormats : r.outs = {f}
    /\ r.nodes
    /\ r.graph \in Accepted
    /\ r.outs \subseteq Writable

\* The output file of a valid command line.
Result(r) == {[graph |-> r.graph, ngraph |-> TRUE, fmt |-> f] : f \in r.outs}

Init ==
    /\ req \in Requests
    /\ out = {}
    /\ done = FALSE

Succeed ==
    /\ ~done
    /\ Valid(req)
    /\ out' = Result(req)
    /\ done' = TRUE
    /\ UNCHANGED req

Reject ==
    /\ ~done
    /\ ~Valid(req)
    /\ done' = TRUE
    /\ UNCHANGED <<req, out>>

Next == Succeed \/ Reject

Spec == Init /\ [][Next]_<<req, out, done>>
====
