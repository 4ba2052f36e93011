-------------------------- MODULE PolicyPublication --------------------------
(***************************************************************************)
(* The base policy in its two places, the file and guardd's memory.  A     *)
(* publication holds the policy lock from its digest check to its end and  *)
(* may fail in every step; a reload reads the file before it waits for the *)
(* lock.                                                                   *)
(*                                                                         *)
(* A policy is its text, and a digest is the policy it is of.  The rows    *)
(* that are recorded are kept for good, so that every policy may be among  *)
(* them: which are is left out.  A hand edit leaves a policy that parses,  *)
(* and none is made while a publication runs.                              *)
(***************************************************************************)
CONSTANTS Texts, Valid, Enforcing,   \* policies, those that parse, those that enforce
          Publishers, NoText, Nobody

ASSUME PublicationAssumption ==
  /\ Valid \subseteq Texts
  /\ Enforcing \subseteq Texts
  /\ NoText \notin Texts
  /\ Nobody \notin Publishers

VARIABLES
  file,          \* settings.policy_path
  memory,        \* self.policy
  publication,   \* the publish_policy that holds _policy_lock
  reload,        \* the candidate of a reload_policy that waits for the lock
  diverted       \* file and memory were set apart by hand, by a reload or a failed disk

policyVars == <<file, memory, publication, reload, diverted>>

Publication ==
  [stage : {"idle", "writing", "applying", "recording", "failing"},
   by : Publishers \union {Nobody}, text : Texts \union {NoText},
   expected : Texts \union {NoText}, confirmed : BOOLEAN,
   old : Texts \union {NoText}, was : Texts \union {NoText}]

PolicyTypeOK ==
  /\ file \in Texts
  /\ memory \in Valid
  /\ publication \in Publication
  /\ reload \in Valid \union {NoText}
  /\ diverted \in BOOLEAN

NoPublication ==
  [stage |-> "idle", by |-> Nobody, text |-> NoText, expected |-> NoText,
   confirmed |-> FALSE, old |-> NoText, was |-> NoText]

PolicyInit ==
  /\ file \in Valid
  /\ memory = file
  /\ publication = NoPublication
  /\ reload = NoText
  /\ diverted = FALSE

LockFree == publication.stage = "idle"

-----------------------------------------------------------------------------
(* publish_policy.                                                         *)

(* Mutant: the confirmation is left to the page.                           *)
PublishableUnconfirmed(text, expected, confirmed) ==
  text \in Valid /\ expected = memory

Publishable(text, expected, confirmed) ==
  /\ text \in Valid
  /\ expected = memory
  /\ text \in Enforcing /\ memory \notin Enforcing => confirmed

PublishBegins(by, text, expected, confirmed) ==
  /\ LockFree
  /\ Publishable(text, expected, confirmed)
  /\ publication' = [stage |-> "writing", by |-> by, text |-> text, expected |-> expected,
                     confirmed |-> confirmed, old |-> file, was |-> memory]
  /\ UNCHANGED <<file, memory, reload, diverted>>

Stages(stage) == publication' = [publication EXCEPT !.stage = stage]

(* _atomic_write leaves the new file or the old one.                       *)
WriteFile ==
  /\ publication.stage = "writing"
  /\ \/ file' = publication.text /\ Stages("applying")
     \/ file' = file /\ Stages("failing")
  /\ UNCHANGED <<memory, reload, diverted>>

(* _apply_policy sets the policy first and may fail in what follows.       *)
ApplyPolicy ==
  /\ publication.stage = "applying"
  /\ \/ memory' = file /\ Stages("recording")
     \/ memory' = file /\ Stages("failing")
     \/ memory' = memory /\ Stages("failing")
  /\ UNCHANGED <<file, reload, diverted>>

(* The rows of the publication, from a snapshot of the old text on, may    *)
(* fail one by one.                                                        *)
RecordRevisions ==
  /\ publication.stage = "recording"
  /\ \/ publication' = NoPublication /\ diverted' = FALSE
     \/ Stages("failing") /\ UNCHANGED diverted
  /\ UNCHANGED <<file, memory, reload>>

(* Mutant: only the file is put back.                                      *)
KeepsMemory == memory

OldPolicy == publication.was

(* The old file is put back if the disk lets it, the old policy always.    *)
RollBack ==
  /\ publication.stage = "failing"
  /\ memory' = OldPolicy
  /\ \/ file' = publication.old /\ UNCHANGED diverted
     \/ file' = file /\ diverted' = TRUE
  /\ publication' = NoPublication
  /\ UNCHANGED <<reload>>

PublicationAdvances == WriteFile \/ ApplyPolicy \/ RecordRevisions \/ RollBack

-----------------------------------------------------------------------------
(* reload_policy, and the hand that makes it necessary.                    *)

FileEdited(text) ==
  /\ LockFree
  /\ text \in Valid
  /\ file' = text
  /\ diverted' = TRUE
  /\ UNCHANGED <<memory, publication, reload>>

ReloadReads ==
  /\ reload = NoText
  /\ file \in Valid
  /\ reload' = file
  /\ UNCHANGED <<file, memory, publication, diverted>>

(* Mutant: the policy is applied without the lock.                         *)
ReloadUnlocked ==
  /\ reload # NoText
  /\ memory' = reload
  /\ reload' = NoText
  /\ diverted' = (file # reload)
  /\ UNCHANGED <<file, publication>>

ReloadApplies ==
  /\ reload # NoText
  /\ LockFree
  /\ memory' = reload
  /\ reload' = NoText
  /\ diverted' = (file # reload)
  /\ UNCHANGED <<file, publication>>
=============================================================================
