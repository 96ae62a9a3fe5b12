---------------------------- MODULE MCAssistant ----------------------------
(***************************************************************************)
(* Small instances of the two parts of the assistant.  They share no state *)
(* (the knowledge base only hands text to the prompts), so one part runs   *)
(* and the other rests: each is explored in full, and not their product.   *)
(***************************************************************************)
EXTENDS Triage, KnowledgeBase

VARIABLE part

assistantVars == <<part, triageVars, kbVars>>

AssistantInit ==
  /\ part \in {"triage", "knowledge base"}
  /\ TriageInit /\ KbInit
  /\ part = "triage" => model = CHOOSE m \in Models : TRUE

AssistantNext ==
  \/ part = "triage" /\ TriageNext /\ UNCHANGED <<part, kbVars>>
  \/ part = "knowledge base" /\ KbNext /\ UNCHANGED <<part, triageVars>>

AssistantSpec == AssistantInit /\ [][AssistantNext]_assistantVars

(* The type invariants of the parts, and what their unique indexes are     *)
(* for: a customer has one open conversation though starts race and late   *)
(* saves reopen, and equal bytes are one document.                         *)
AssistantTypeOK == TriageTypeOK /\ KbTypeOK /\ OneOpenConversation /\ OneDocumentPerContent

AssistantSymmetry == Permutations(Reqs) \cup Permutations(Convs)
=============================================================================
