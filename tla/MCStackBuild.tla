---------------------------- MODULE MCStackBuild -----------------------------
(***************************************************************************)
(* An instance of StackBuild for TLC: app needs what tool and lib provide, *)
(* tool needs what lib provides, and CentOS has packages of lib and of     *)
(* sources the factory does not build.                                     *)
(***************************************************************************)
EXTENDS StackBuild

CONSTANTS lib, tool, app, other, api, helper

Plain(n) == [name |-> n, kind |-> "plain"]
Versioned(n) == [name |-> n, kind |-> "versioned"]
Rich(n) == [name |-> n, kind |-> "rich"]
SomeRequirements == {Plain(api), Versioned(api), Plain(helper), Rich(helper)}

(* What CentOS has of either capability, what app needs, and what the      *)
(* spec of lib declares of api; it was seen to generate it.                *)
Survey(above, hidden, shown, spec) ==
  [needs |-> [p \in Packages |->
                CASE p = lib -> {} [] p = tool -> {Plain(api)} [] p = app -> above],
   base |-> [r \in Requirements |->
               IF r.kind = "rich" THEN {} ELSE IF r.name = api THEN hidden ELSE shown],
   declared |-> [p \in Packages |-> [n \in Names |->
                   IF p = lib /\ n = api THEN spec ELSE {}]],
   implicit |-> [p \in Packages |->
                   CASE p = lib -> {api} [] p = tool -> {helper} [] p = app -> {}]]

SomeSurveys ==
  {Survey(above, hidden, shown, spec) :
     above \in {{Versioned(api)}, {Plain(api), Plain(helper)}, {Rich(helper)}},
     hidden \in {{}, {lib}},
     shown \in {{}, {other}, {tool}},
     spec \in {{}, {"good"}, {"plain", "bad"}}}

(* Waves are repeated and interrupted in checkouts of one kind only, where *)
(* lib and tool are built.                                                 *)
Ordinary == Survey({Plain(api), Plain(helper)}, {}, {}, {})

MCNext == StackNext /\ (Undisturbed' \/ (survey = Ordinary /\ wave[app] = None))

MCSpec == StackInit /\ [][MCNext]_stackVars
=============================================================================
