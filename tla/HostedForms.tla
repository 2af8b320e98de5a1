------------------------------ MODULE HostedForms ------------------------------
(* The forms an organisation publishes on the open web and what visitors send  *)
(* through them (lead-forms.controller.ts, public-forms.controller.ts). A form *)
(* is looked up by its slug, which two organisations may both use, with a      *)
(* client no policy restrains; everything else is one transaction of the       *)
(* form's organisation, followed by the workflows that wait for a lead.        *)
(*                                                                            *)
(* The models here have one form per organisation, and all under one slug, so  *)
(* a form stands for its organisation too.                                     *)
EXTENDS FiniteSets, Naturals

CONSTANTS
  Forms,
  Submissions,  \* bound: submissions
  Addresses,    \* e-mail addresses
  Nobody,       \* no address, no organisation
  MaxFormTrouble  \* bound: failures of the database

ASSUME FormsAssumption ==
  /\ Nobody \notin Forms \cup Addresses
  /\ IsFiniteSet(Submissions)
  /\ MaxFormTrouble \in Nat

VARIABLES
  published,   \* forms with status PUBLISHED
  removed,     \* forms with deletedAt
  sent,        \* the submissions
  formContacts, \* the contacts: pairs of an organisation and an address
  submitCount, \* of a form
  triggered,   \* the submissions whose lead started a workflow
  formTrouble

formVars == <<published, removed, sent, formContacts, submitCount, triggered, formTrouble>>

\* Who sends it: the organisation whose member is signed in, if one is; the form it was
\* sent to and the address found in it; whether its transaction has created the contact;
\* history: whether another one looked for that contact meanwhile, and whether the
\* database failed.
Unsent ==
  [by |-> Nobody, form |-> Nobody, email |-> Nobody, step |-> "unsent", creates |-> FALSE,
   raced |-> FALSE, failed |-> FALSE]

Submission ==
  [by : Forms \cup {Nobody}, form : Forms \cup {Nobody}, email : Addresses \cup {Nobody},
   step : {"unsent", "found", "creating", "writing", "captured", "done", "refused", "absent"},
   creates : BOOLEAN, raced : BOOLEAN, failed : BOOLEAN]

FormsTypeOK ==
  /\ published \subseteq Forms /\ removed \subseteq Forms
  /\ sent \in [Submissions -> Submission]
  /\ formContacts \subseteq Forms \X Addresses
  /\ submitCount \in [Forms -> Nat]
  /\ triggered \subseteq Submissions
  /\ formTrouble \in 0..MaxFormTrouble

FormsInit ==
  /\ published = {} /\ removed = {}
  /\ sent = [s \in Submissions |-> Unsent]
  /\ formContacts = {}
  /\ submitCount = [f \in Forms |-> 0]
  /\ triggered = {}
  /\ formTrouble = 0

\* publish, unpublish: a form that was removed is not found.
SetStatus(f) ==
  /\ f \notin removed
  /\ published' \in {published \cup {f}, published \ {f}}
  /\ UNCHANGED <<removed, sent, formContacts, submitCount, triggered, formTrouble>>

Remove(f) ==
  /\ removed' = removed \cup {f}
  /\ UNCHANGED <<published, sent, formContacts, submitCount, triggered, formTrouble>>

Becomes(s, v) == sent' = [sent EXCEPT ![s] = v]

\* submit() finds a published form of the slug, whichever.
Arrive(s, by, email) ==
  /\ sent[s].step = "unsent"
  /\ LET open == published \ removed
         v == [Unsent EXCEPT !.by = by, !.email = email]
     IN  IF open = {} THEN Becomes(s, [v EXCEPT !.step = "absent"])
         ELSE \E f \in open : Becomes(s, [v EXCEPT !.form = f, !.step = "found"])
  /\ UNCHANGED <<published, removed, formContacts, submitCount, triggered, formTrouble>>

\* The transaction is bound to the organisation of the form. The extension of the client
\* reads the tenant context, which is the one the request came with: without one it throws,
\* and with that of another organisation it refuses what is created.
InScope(v) == v.by = v.form

Contact(v) == <<v.form, v.email>>

\* Seeded fault: a contact is created for every address.
KnownNever(v) == v.email = Nobody

\* Whether there is no contact to create.
Known(v) == v.email = Nobody \/ Contact(v) \in formContacts

Rivals(s) ==
  {t \in Submissions \ {s} : /\ sent[t].step \in {"creating", "writing"}
                            /\ sent[s].email # Nobody
                            /\ Contact(sent[t]) = Contact(sent[s])}

\* The transaction begins, and the contact is looked for.
SeekContact(s) ==
  LET v == sent[s]
      step == IF ~ InScope(v) THEN "refused" ELSE IF Known(v) THEN "writing" ELSE "creating"
      others == IF InScope(v) THEN Rivals(s) ELSE {}
  IN  /\ v.step = "found"
      /\ sent' = [t \in Submissions |->
           IF t = s THEN [v EXCEPT !.step = step, !.raced = others # {}]
           ELSE IF t \in others THEN [sent[t] EXCEPT !.raced = TRUE] ELSE sent[t]]
      /\ UNCHANGED <<published, removed, formContacts, submitCount, triggered, formTrouble>>

\* There is one contact of an address: an insertion waits for the transaction that has
\* made another, and fails once that has committed.
MakeContact(s) ==
  LET v == sent[s]
  IN  /\ v.step = "creating"
      /\ ~ \E t \in Rivals(s) : sent[t].creates
      /\ Becomes(s, IF Contact(v) \in formContacts THEN [v EXCEPT !.step = "refused"]
                    ELSE [v EXCEPT !.step = "writing", !.creates = TRUE])
      /\ UNCHANGED <<published, removed, formContacts, submitCount, triggered, formTrouble>>

\* The lead, the submission, the count and the notification, and the commit. Nobody asks
\* whether the form is still published.
Capture(s) ==
  LET v == sent[s]
  IN  /\ v.step = "writing"
      /\ Becomes(s, [v EXCEPT !.step = "captured"])
      /\ formContacts' = IF v.creates THEN formContacts \cup {Contact(v)} ELSE formContacts
      /\ submitCount' = [submitCount EXCEPT ![v.form] = @ + 1]
      /\ UNCHANGED <<published, removed, triggered, formTrouble>>

\* fireEventForOrg. What fails in it is ignored.
Trigger(s) ==
  LET v == sent[s]
  IN  /\ v.step = "captured"
      /\ Becomes(s, [v EXCEPT !.step = "done"])
      /\ triggered' \in {triggered, triggered \cup {s}}
      /\ UNCHANGED <<published, removed, formContacts, submitCount, formTrouble>>

\* The database fails, or the API dies, before the commit.
BreakOff(s) ==
  /\ sent[s].step \in {"found", "creating", "writing"}
  /\ formTrouble < MaxFormTrouble
  /\ formTrouble' = formTrouble + 1
  /\ Becomes(s, [sent[s] EXCEPT !.step = "refused", !.failed = TRUE, !.creates = FALSE])
  /\ UNCHANGED <<published, removed, formContacts, submitCount, triggered>>

FormsNext ==
  \/ \E f \in Forms : SetStatus(f) \/ Remove(f)
  \/ \E s \in Submissions :
       \/ \E by \in Forms \cup {Nobody}, email \in Addresses \cup {Nobody} : Arrive(s, by, email)
       \/ SeekContact(s) \/ MakeContact(s) \/ Capture(s) \/ Trigger(s) \/ BreakOff(s)

FormsSpec == FormsInit /\ [][FormsNext]_formVars

-----------------------------------------------------------------------------

Received == {s \in Submissions : sent[s].step \in {"captured", "done"}}

\* The count of a form is that of its submissions, and every address in one has a contact:
\* a submission is captured whole or not at all (public-forms.controller.ts:157-211).
CapturedWhole ==
  /\ \A f \in Forms : submitCount[f] = Cardinality({s \in Received : sent[s].form = f})
  /\ \A s \in Received : sent[s].email # Nobody => Contact(sent[s]) \in formContacts

\* What a signed-in member of the organisation sends is lost only if the database failed or
\* two submissions raced to create one contact.
MembersCaptured ==
  \A s \in Submissions :
    sent[s].step = "refused" /\ InScope(sent[s]) => sent[s].failed \/ sent[s].raced

FormsSound == CapturedWhole /\ MembersCaptured

\* What an anonymous visitor sends is captured too: they are who the form is for
\* (workflow-engine.service.ts:139-142 "event sources with no authenticated user, such as
\* an anonymous visitor submitting a public lead-capture form"), and the controller hands
\* off "to `withTenantTransaction` for every write" (public-forms.controller.ts:32-33).
VisitorsCaptured ==
  \A s \in Submissions :
    sent[s].step = "refused" /\ sent[s].by = Nobody => sent[s].failed \/ sent[s].raced
=============================================================================
