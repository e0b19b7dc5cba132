--------------------------- MODULE ModelTestsProofs ---------------------------
(***************************************************************************)
(* Proofs about ModelTests, test_main.py --rewrite_test over invocations  *)
(* that share the downloaded repositories, for every set of models, test   *)
(* folders and patch locations, and every bound on the invocations.        *)
(***************************************************************************)
EXTENDS ModelTests, FiniteSetTheorems, TLAPS

\* The steps of an invocation that work in a downloaded repository.
InRepo == {"download", "test", "apply", "script", "reset"}

(***************************************************************************)
(* A checkout carries only patches of its own model's test folders: git   *)
(* apply runs only from apply_patch_and_test of such a folder.             *)
(***************************************************************************)
AppliedOwn ==
    \A m \in Models : applied[m] \subseteq Folders[m]

(***************************************************************************)
(* Inside rewrite_test of a repository model: the model is at the head of *)
(* the list; while its checkout carries a patch, no test of this model    *)
(* has been reset yet, so the folder loop still has a test to run.        *)
(***************************************************************************)
RepoInv ==
    /\ pc \in InRepo => todo # <<>> /\ Head(todo) \in HasRepo
    /\ pc \in InRepo \ {"download"} => tests \in Seq(Folders[Head(todo)])
    /\ pc \in {"apply", "script", "reset"} => tests # <<>>
    /\ (pc \in {"test", "apply"} /\ applied[Head(todo)] # {}) => tests # <<>>

(***************************************************************************)
(* The models this invocation has finished are clean, but for the one     *)
(* whose test is running now (it may appear twice in --models) and after  *)
(* the invocation died.                                                    *)
(***************************************************************************)
RanInv ==
    \A m \in ran \cap HasRepo :
        \/ applied[m] = {}
        \/ pc = "aborted"
        \/ pc \in {"script", "reset"} /\ m = Head(todo)

Inv == TypeOK /\ AppliedOwn /\ RepoInv /\ RanInv
-----------------------------------------------------------------------------
\* A --models list of at most two names is a sequence of models.
LEMMA SeqOfIsSeq ==
    ASSUME NEW S, NEW n \in Nat
    PROVE  SeqOf(S, n) \subseteq Seq(S)
BY DEF SeqOf

(***************************************************************************)
(* The folder loop in os.listdir order: SetToSeq of a finite set lists    *)
(* each of its elements, so it is as long as the set is large.  The       *)
(* injection it chooses exists because a finite set is in bijection with  *)
(* 1..Cardinality(S).                                                      *)
(***************************************************************************)
LEMMA SetToSeqType ==
    ASSUME NEW S, IsFiniteSet(S)
    PROVE  /\ SetToSeq(S) \in Seq(S)
           /\ Len(SetToSeq(S)) = Cardinality(S)
<1>1. Cardinality(S) \in Nat /\ ExistsBijection(1..Cardinality(S), S)
  BY FS_CardinalityType
<1>2. \E f \in [1..Cardinality(S) -> S] : IsInjective(f)
  BY <1>1 DEF ExistsBijection, Bijection, Injection
<1>3. SetToSeq(S) \in [1..Cardinality(S) -> S]
  BY <1>2 DEF SetToSeq
<1>. QED  BY <1>1, <1>3

\* The folder loop of a model with an enabled test folder is not empty.
LEMMA SetToSeqNonEmpty ==
    ASSUME NEW S, IsFiniteSet(S), S # {}
    PROVE  SetToSeq(S) # <<>>
<1>1. Cardinality(S) # 0  BY FS_EmptySet
<1>. QED  BY <1>1, SetToSeqType

LEMMA InitInv == Init => Inv
BY ModelAssumption DEF Init, Inv, TypeOK, PCs, Reasons, AppliedOwn,
                       RepoInv, InRepo, RanInv

\* A step of the framework keeps the invariant.
LEMMA NextInv == Inv /\ [Next]_vars => Inv'
<1> SUFFICES ASSUME Inv, [Next]_vars PROVE Inv'  OBVIOUS
<1>. USE ModelAssumption DEF Inv, TypeOK, PCs, Reasons, AppliedOwn,
                             RepoInv, InRepo, RanInv
<1>1. CASE Start  BY <1>1, SeqOfIsSeq DEF Start
<1>2. CASE Download  BY <1>2 DEF Download
<1>3. CASE Ready
  <2>1. todo # <<>> /\ Head(todo) \in HasRepo
    BY <1>3 DEF Ready
  <2>2. DEFINE F == Folders[Head(todo)]
  <2>3. IsFiniteSet(F) /\ F \subseteq Tests  BY <2>1 DEF Tests
  <2>4. SetToSeq(F) \in Seq(F) /\ SetToSeq(F) \in Seq(Tests)  BY <2>3, SetToSeqType
  <2>5. applied[Head(todo)] # {} => SetToSeq(F) # <<>>
    BY <2>1, <2>3, SetToSeqNonEmpty
  <2>. QED  BY <1>3, <2>1, <2>4, <2>5 DEF Ready
<1>4. CASE ReadyFails  BY <1>4 DEF ReadyFails
<1>5. CASE Graph  BY <1>5 DEF Graph
<1>6. CASE GraphRejected  BY <1>6 DEF GraphRejected
<1>7. CASE ModelDone  BY <1>7 DEF ModelDone
<1>8. CASE Finish  BY <1>8 DEF Finish
<1>9. CASE FindPatch  BY <1>9 DEF FindPatch
<1>10. CASE NoPatch  BY <1>10 DEF NoPatch
<1>11. CASE Apply
  <2>1. todo # <<>> /\ Head(todo) \in HasRepo /\ tests # <<>>
        /\ tests \in Seq(Folders[Head(todo)])
    BY <1>11 DEF Apply
  <2>2. Head(tests) \in Folders[Head(todo)]  BY <2>1
  <2>3. applied' = [applied EXCEPT ![Head(todo)] = @ \cup {Head(tests)}]
        /\ pc' = "script" /\ UNCHANGED <<runs, todo, tests, ran, reason>>
    BY <1>11 DEF Apply
  <2>4. AppliedOwn'  BY <2>1, <2>2, <2>3
  <2>5. RepoInv'  BY <2>1, <2>3
  <2>6. RanInv'
    <3>1. pc = "apply"  BY <1>11 DEF Apply
    <3>2. SUFFICES ASSUME NEW m \in ran \cap HasRepo, m # Head(todo)
                   PROVE  applied'[m] = {}
      BY <2>3
    <3>3. applied[m] = {}  BY <3>1, <3>2
    <3>. QED  BY <2>3, <3>2, <3>3
  <2>7. TypeOK'  BY <2>1, <2>2, <2>3 DEF Tests
  <2>. QED  BY <2>4, <2>5, <2>6, <2>7
<1>12. CASE ApplyFails  BY <1>12 DEF ApplyFails
<1>13. CASE Script  BY <1>13 DEF Script
<1>14. CASE Reset
  <2>1. todo # <<>> /\ Head(todo) \in HasRepo /\ tests # <<>>
        /\ tests \in Seq(Folders[Head(todo)])
    BY <1>14 DEF Reset
  <2>2. Tail(tests) \in Seq(Folders[Head(todo)]) /\ Tail(tests) \in Seq(Tests)
    BY <2>1 DEF Tests
  <2>3. applied' = [applied EXCEPT ![Head(todo)] = {}] /\ pc' = "test"
        /\ tests' = Tail(tests) /\ UNCHANGED <<runs, todo, ran, reason>>
    BY <1>14 DEF Reset
  <2>4. AppliedOwn'  BY <2>3
  <2>5. RepoInv'  BY <2>1, <2>2, <2>3
  <2>6. RanInv'
    <3>1. pc = "reset"  BY <1>14 DEF Reset
    <3>. QED  BY <2>1, <2>3, <3>1
  <2>7. TypeOK'  BY <2>1, <2>2, <2>3
  <2>. QED  BY <2>4, <2>5, <2>6, <2>7
<1>15. CASE UNCHANGED vars  BY <1>15 DEF vars
<1>. QED  BY <1>1, <1>2, <1>3, <1>4, <1>5, <1>6, <1>7, <1>8, <1>9, <1>10,
             <1>11, <1>12, <1>13, <1>14, <1>15 DEF Next

\* The invariant holds in every reachable state.
LEMMA Invariance == Spec => []Inv
BY InitInv, NextInv, PTL DEF Spec

(***************************************************************************)
(* TypeCorrect: the framework's state keeps its types (TypeOK) across any *)
(* number of invocations, whatever the models, their test folders and     *)
(* their patches; in particular the folder loop built from os.listdir is a *)
(* sequence of the model's test folders.                                   *)
(***************************************************************************)
THEOREM TypeCorrect == Spec => []TypeOK
BY Invariance, PTL DEF Inv

(***************************************************************************)
(* CleanSafety: an invocation that completes leaves the downloaded        *)
(* repository of every model it tested without an applied patch           *)
(* (CleanAfterRun), for every set of models and test folders and every    *)
(* number of invocations and every overlap between patches.  A checkout   *)
(* left patched by a test script that failed in an earlier invocation     *)
(* gets through its model only past a git reset --hard of a later test    *)
(* (only a model with test folders carries patches), and that reset       *)
(* removes every patch, the leftover included.                            *)
(***************************************************************************)
THEOREM CleanSafety == Spec => []CleanAfterRun
<1>1. Inv => CleanAfterRun  BY DEF Inv, RanInv, CleanAfterRun
<1>. QED  BY <1>1, Invariance, PTL
====
