---------------------------- MODULE ConvertProofs ----------------------------
(***************************************************************************)
(* Proof that Convert, the step-by-step model of tools/convert.py,         *)
(* implements ConvertAbstract with the graphs check_graph_validity         *)
(* accepts: for every set of op names, every command line ends as the      *)
(* one-step conversion promises.                                           *)
(***************************************************************************)
EXTENDS Convert, FiniteSetTheorems, TLAPS

\* The gdef a run holds after get_input_gdef and after the grappler pass.
Loaded(ng) == {[src |-> request.graph, ngraph |-> ng]}

(***************************************************************************)
(* What the steps before the current one established: the format each     *)
(* filter_dict returned is the one option given, --outnodes was given, the *)
(* graph passed check_graph_validity and is the one in memory, and nothing *)
(* is written before the tool ends.                                        *)
(***************************************************************************)
Inv ==
    /\ TypeOK
    /\ ~Ended => written = {}
    /\ pc \in {"filter_out", "split", "load", "optimize", "save"} => request.ins = {inp}
    /\ pc \in {"split", "load", "optimize", "save"} => request.outs = {outp}
    /\ pc \in {"load", "optimize", "save"} => request.nodes
    /\ pc = "optimize" => CheckGraphValidity(request.graph) /\ gdef = Loaded(FALSE)
    /\ pc = "save" => CheckGraphValidity(request.graph) /\ gdef = Loaded(TRUE)

-----------------------------------------------------------------------------
\* A set of formats of one direction is finite.
LEMMA FormatsFinite ==
    /\ \A S \in SUBSET InFormats : IsFiniteSet(S)
    /\ \A S \in SUBSET OutFormats : IsFiniteSet(S)
<1>1. IsFiniteSet({"savedmodel"})  BY FS_Singleton
<1>2. IsFiniteSet({"savedmodel"} \cup {"pbtxt"})  BY <1>1, FS_AddElement
<1>3. IsFiniteSet(({"savedmodel"} \cup {"pbtxt"}) \cup {"pb"})  BY <1>2, FS_AddElement
<1>4. /\ {"savedmodel"} \cup {"pbtxt"} = InFormats
      /\ ({"savedmodel"} \cup {"pbtxt"}) \cup {"pb"} = OutFormats
  BY ConvertAssumption
<1>. QED  BY <1>2, <1>3, <1>4, FS_Subset

\* filter_dict on a direction with exactly one option returns that option.
LEMMA FilterDictOne ==
    ASSUME NEW S, IsFiniteSet(S), Cardinality(S) = 1
    PROVE  S = {FilterDict(S)}
<1>1. PICK x : S = {x}  BY FS_Singleton
<1>. QED  BY <1>1 DEF FilterDict

\* The written file of a valid command line is the abstract Result.
LEMMA SavedIsResult ==
    ASSUME NEW r \in Requests, NEW o \in {"pbtxt", "pb"}, r.outs = {o}
    PROVE  {[graph |-> g.src, ngraph |-> g.ngraph,
             fmt |-> IF AsText(o) THEN "pbtxt" ELSE "pb"]
            : g \in {[src |-> r.graph, ngraph |-> TRUE]}}
           = A!Result(r)
<1>1. (IF AsText(o) THEN "pbtxt" ELSE "pb") = o  BY DEF AsText
<1>2. A!Result(r) = {[graph |-> r.graph, ngraph |-> TRUE, fmt |-> f] : f \in {o}}
  BY DEF A!Result
<1>3. A!Result(r) = {[graph |-> r.graph, ngraph |-> TRUE, fmt |-> o]}
  BY <1>2
<1>4. DEFINE rec == [src |-> r.graph, ngraph |-> TRUE]
<1>5. rec.src = r.graph /\ rec.ngraph = TRUE  OBVIOUS
<1>6. {[graph |-> g.src, ngraph |-> g.ngraph,
        fmt |-> IF AsText(o) THEN "pbtxt" ELSE "pb"]
       : g \in {rec}}
      = {[graph |-> r.graph, ngraph |-> TRUE, fmt |-> o]}
  BY <1>1, <1>5, Zenon
<1>. QED  BY <1>3, <1>6

LEMMA InitInv == Init => Inv
BY DEF Init, Inv, TypeOK, Requests, PCs, Ended

LEMMA NextInv == Inv /\ [Next]_vars => Inv'
<1> SUFFICES ASSUME Inv, [Next]_vars PROVE Inv'  OBVIOUS
<1>. USE DEF Inv, TypeOK, PCs, Ended, Loaded
<1>1. CASE ParseArgs  BY <1>1 DEF ParseArgs
<1>2. CASE FilterInput
  <2>1. CASE Cardinality(request.ins) = 1
    <3>1. IsFiniteSet(request.ins)  BY FormatsFinite DEF Requests
    <3>2. request.ins = {inp'}  BY <1>2, <2>1, <3>1, FilterDictOne DEF FilterInput
    <3>3. inp' \in InFormats  BY <3>2 DEF Requests
    <3>. QED  BY <1>2, <2>1, <3>2, <3>3 DEF FilterInput
  <2>2. CASE Cardinality(request.ins) # 1  BY <1>2, <2>2 DEF FilterInput
  <2>. QED  BY <2>1, <2>2
<1>3. CASE FilterOutput
  <2>1. CASE Cardinality(request.outs) = 1
    <3>1. IsFiniteSet(request.outs)  BY FormatsFinite DEF Requests
    <3>2. request.outs = {outp'}  BY <1>3, <2>1, <3>1, FilterDictOne DEF FilterOutput
    <3>3. outp' \in OutFormats  BY <3>2 DEF Requests
    <3>. QED  BY <1>3, <2>1, <3>2, <3>3 DEF FilterOutput
  <2>2. CASE Cardinality(request.outs) # 1  BY <1>3, <2>2 DEF FilterOutput
  <2>. QED  BY <2>1, <2>2
<1>4. CASE SplitOutnodes  BY <1>4 DEF SplitOutnodes
<1>5. CASE Load
  <2>1. CASE CheckGraphValidity(request.graph)
    <3>1. gdef' = Loaded(FALSE) /\ pc' = "optimize"  BY <1>5, <2>1 DEF Load
    <3>2. Loaded(FALSE) \subseteq [src : Graphs, ngraph : BOOLEAN]  BY DEF Requests
    <3>. QED  BY <1>5, <2>1, <3>1, <3>2 DEF Load
  <2>2. CASE ~CheckGraphValidity(request.graph)  BY <1>5, <2>2 DEF Load
  <2>. QED  BY <2>1, <2>2
<1>6. CASE Optimize
  <2>1. gdef = Loaded(FALSE)  BY <1>6 DEF Optimize
  <2>2. gdef' = Loaded(TRUE)  BY <1>6, <2>1 DEF Optimize
  <2>3. Loaded(TRUE) \subseteq [src : Graphs, ngraph : BOOLEAN]  BY DEF Requests
  <2>. QED  BY <1>6, <2>2, <2>3 DEF Optimize
<1>7. CASE Save
  <2>1. CASE outp = "savedmodel"  BY <1>7, <2>1 DEF Save
  <2>2. CASE outp # "savedmodel"
    <3>1. pc' = "done"  BY <1>7, <2>2 DEF Save
    <3>2. written' \subseteq [graph : Graphs, ngraph : BOOLEAN, fmt : OutFormats]
      BY <1>7, <2>2, ConvertAssumption DEF Save, Requests
    <3>. QED  BY <1>7, <3>1, <3>2 DEF Save
  <2>. QED  BY <2>1, <2>2
<1>8. CASE UNCHANGED vars  BY <1>8 DEF vars
<1>. QED  BY <1>1, <1>2, <1>3, <1>4, <1>5, <1>6, <1>7, <1>8 DEF Next

(***************************************************************************)
(* TypeCorrect and the invariant: every reachable state of convert.py is  *)
(* well typed and carries what its earlier steps established.              *)
(***************************************************************************)
THEOREM Invariance == Spec => []Inv
BY InitInv, NextInv, PTL DEF Spec
-----------------------------------------------------------------------------
\* The initial states of the tool are initial states of the promise.
LEMMA InitRefines == Init => A!Init
BY DEF Init, A!Init, Requests, A!Requests, Ended

\* A singleton has one element.
LEMMA SingletonOne == \A f : Cardinality({f}) = 1
BY FS_Singleton

\* A step that ends the tool on a command line the promise rejects.
LEMMA RejectStep ==
    ASSUME Inv, ~Ended, Ended', ~A!Valid(request),
           UNCHANGED <<request, written>>
    PROVE  A!Reject
BY DEF A!Reject

\* Each step of the tool is a step of the promise or leaves the abstract
\* state unchanged.
LEMMA StepRefines ==
    Inv /\ [Next]_vars => [A!Next]_<<request, written, Ended>>
<1> SUFFICES ASSUME Inv, [Next]_vars
             PROVE  [A!Next]_<<request, written, Ended>>
  OBVIOUS
<1>. USE DEF Inv, TypeOK, Ended, A!Next
<1>1. CASE ParseArgs
  <2>1. CASE Cardinality(request.ins) > 1 \/ Cardinality(request.outs) > 1
    <3>1. ~A!Valid(request)
      <4>1. (\E f \in InFormats : request.ins = {f}) => Cardinality(request.ins) = 1
        BY SingletonOne
      <4>2. (\E f \in OutFormats : request.outs = {f}) => Cardinality(request.outs) = 1
        BY SingletonOne
      <4>. QED  BY <2>1, <4>1, <4>2 DEF A!Valid
    <3>. QED  BY <1>1, <2>1, <3>1, RejectStep DEF ParseArgs
  <2>2. CASE ~(Cardinality(request.ins) > 1 \/ Cardinality(request.outs) > 1)
    BY <1>1, <2>2 DEF ParseArgs
  <2>. QED  BY <2>1, <2>2
<1>2. CASE FilterInput
  <2>1. CASE Cardinality(request.ins) # 1
    <3>1. ~A!Valid(request)  BY <2>1, SingletonOne DEF A!Valid
    <3>. QED  BY <1>2, <2>1, <3>1, RejectStep DEF FilterInput
  <2>2. CASE Cardinality(request.ins) = 1  BY <1>2, <2>2 DEF FilterInput
  <2>. QED  BY <2>1, <2>2
<1>3. CASE FilterOutput
  <2>1. CASE Cardinality(request.outs) # 1
    <3>1. ~A!Valid(request)  BY <2>1, SingletonOne DEF A!Valid
    <3>. QED  BY <1>3, <2>1, <3>1, RejectStep DEF FilterOutput
  <2>2. CASE Cardinality(request.outs) = 1  BY <1>3, <2>2 DEF FilterOutput
  <2>. QED  BY <2>1, <2>2
<1>4. CASE SplitOutnodes
  <2>1. CASE ~request.nodes
    <3>1. ~A!Valid(request)  BY <2>1, SingletonOne DEF A!Valid
    <3>. QED  BY <1>4, <2>1, <3>1, RejectStep DEF SplitOutnodes
  <2>2. CASE request.nodes  BY <1>4, <2>2 DEF SplitOutnodes
  <2>. QED  BY <2>1, <2>2
<1>5. CASE Load
  <2>1. CASE ~CheckGraphValidity(request.graph)
    <3>1. ~A!Valid(request)  BY <2>1 DEF A!Valid, CodeAccepted
    <3>. QED  BY <1>5, <2>1, <3>1, RejectStep DEF Load
  <2>2. CASE CheckGraphValidity(request.graph)  BY <1>5, <2>2 DEF Load
  <2>. QED  BY <2>1, <2>2
<1>6. CASE Optimize  BY <1>6 DEF Optimize
<1>7. CASE Save
  <2>1. request.ins = {inp} /\ request.outs = {outp} /\ request.nodes
        /\ CheckGraphValidity(request.graph) /\ gdef = Loaded(TRUE)
    BY <1>7 DEF Save
  <2>2. CASE outp = "savedmodel"
    <3>1. ~A!Valid(request)  BY <2>1, <2>2 DEF A!Valid, Writable
    <3>. QED  BY <1>7, <2>2, <3>1, RejectStep DEF Save
  <2>3. CASE outp # "savedmodel"
    <3>1. outp \in {"pbtxt", "pb"}  BY <2>1, <2>3, ConvertAssumption DEF Requests
    <3>2. A!Valid(request)
      <4>1. inp \in InFormats /\ outp \in OutFormats  BY <2>1 DEF Requests
      <4>2. /\ \E f \in InFormats : request.ins = {f}
            /\ \E f \in OutFormats : request.outs = {f}
        BY <2>1, <4>1
      <4>3. request.graph \in CodeAccepted  BY <2>1 DEF CodeAccepted, Requests
      <4>4. request.outs \subseteq Writable  BY <2>1, <3>1 DEF Writable
      <4>. QED  BY <2>1, <4>2, <4>3, <4>4 DEF A!Valid
    <3>3. written' = A!Result(request)
      BY <1>7, <2>1, <2>3, <3>1, SavedIsResult DEF Save, Loaded
    <3>. QED  BY <1>7, <2>3, <3>2, <3>3 DEF Save, A!Succeed
  <2>. QED  BY <2>2, <2>3
<1>8. CASE UNCHANGED vars  BY <1>8 DEF vars
<1>. QED  BY <1>1, <1>2, <1>3, <1>4, <1>5, <1>6, <1>7, <1>8 DEF Next

(***************************************************************************)
(* Refinement: convert.py, step by step, implements the one-step          *)
(* conversion promised with the checks the code makes (ConvertRefines),   *)
(* for every set of op names: each command line ends with the rewritten   *)
(* graph written in its protobuf format, or with nothing written.         *)
(***************************************************************************)
THEOREM Refinement == Spec => ConvertRefines
<1>1. Spec => []Inv  BY Invariance
<1>. QED  BY <1>1, InitRefines, StepRefines, PTL DEF Spec, ConvertRefines, A!Spec
====
