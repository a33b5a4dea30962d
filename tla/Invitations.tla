----------------------------- MODULE Invitations -----------------------------
(* The invitations of the administration page, OwnerInvitationPanel of           *)
(* AdminPage.tsx: the list, the link of one that has just been made, shown once,   *)
(* and what copies or revokes it. The server keeps only a digest of a link.       *)
EXTENDS Naturals

CONSTANTS NoInviteLoad, NoInviteCall, NoLink,
          MaxInvitations  \* bound: invitations made

ASSUME InvitationAssumption == MaxInvitations \in Nat

VARIABLES
  invited,      \* the server: the status of every invitation
  invitations,  \* those listed, as they were read
  inviteLoad,   \* the list that will be heard
  inviteError,  \* what went wrong last
  inviteCall,   \* what is under way, which disables the buttons
  oneTimeLink,  \* the invitation whose link is shown
  copying,      \* links on their way to the clipboard
  created,      \* history: the last invitation made here, until another is asked for
  copied,       \* history: links that were copied
  linkCrossed,  \* history: a link was copied while another was made
  listCrossed   \* history: the list shown was read before an invitation it lacks was made

inviteVars == <<invited, invitations, inviteLoad, inviteError, inviteCall, oneTimeLink, copying, created, copied,
                linkCrossed, listCrossed>>

InviteId == 1..MaxInvitations
Statuses == {"none", "active", "revoked", "over"}
NoInvitations == [i \in InviteId |-> "none"]

InviteTypeOK ==
  /\ {invited, invitations} \subseteq [InviteId -> Statuses]
  /\ inviteLoad # NoInviteLoad => inviteLoad.list \in [InviteId -> Statuses]
  /\ inviteError \in {"", "list", "create", "copy", "revoke"}
  /\ inviteCall # NoInviteCall => inviteCall.id \in InviteId /\ inviteCall.kind \in {"create", "revoke"}
  /\ oneTimeLink \in InviteId \cup {NoLink} /\ created \in InviteId \cup {NoLink}
  /\ copying \subseteq InviteId /\ copied \subseteq InviteId
  /\ linkCrossed \in BOOLEAN /\ listCrossed \in BOOLEAN

Made == {i \in InviteId : invited[i] # "none"}

-----------------------------------------------------------------------------
(* The list, loaded when the panel is opened and after a refused revocation. *)

NewInviteLoad == [read |-> FALSE, list |-> NoInvitations]

ReadInvitations ==
  /\ inviteLoad # NoInviteLoad /\ ~inviteLoad.read
  /\ inviteLoad' = [read |-> TRUE, list |-> invited]
  /\ UNCHANGED <<invited, invitations, inviteError, inviteCall, oneTimeLink, copying, created, copied, linkCrossed,
                 listCrossed>>

InvitationsShown ==
  /\ inviteLoad # NoInviteLoad /\ inviteLoad.read
  /\ invitations' = inviteLoad.list /\ inviteError' = "" /\ inviteLoad' = NoInviteLoad
  /\ listCrossed' = \E i \in InviteId : invitations[i] # "none" /\ inviteLoad.list[i] = "none"
  /\ UNCHANGED <<invited, inviteCall, oneTimeLink, copying, created, copied, linkCrossed>>

InvitationsLost ==
  /\ inviteLoad # NoInviteLoad /\ inviteLoad' = NoInviteLoad /\ inviteError' = "list"
  /\ UNCHANGED <<invited, invitations, inviteCall, oneTimeLink, copying, created, copied, linkCrossed, listCrossed>>

-----------------------------------------------------------------------------
(* Links.                                                                  *)

\* Mutant: the link shown stays until there is another.
CreateLinkKeeping ==
  /\ inviteCall = NoInviteCall /\ Made # InviteId
  /\ inviteCall' = [kind |-> "create", id |-> CHOOSE i \in InviteId \ Made : TRUE, step |-> "sent"]
  /\ inviteError' = ""
  /\ created' = NoLink
  /\ UNCHANGED <<invited, invitations, inviteLoad, oneTimeLink, copying, copied, linkCrossed, listCrossed>>

\* The link shown is gone before there is another.
CreateLink ==
  /\ inviteCall = NoInviteCall /\ Made # InviteId
  /\ inviteCall' = [kind |-> "create", id |-> CHOOSE i \in InviteId \ Made : TRUE, step |-> "sent"]
  /\ inviteError' = "" /\ oneTimeLink' = NoLink
  /\ created' = NoLink
  /\ UNCHANGED <<invited, invitations, inviteLoad, copying, copied, linkCrossed, listCrossed>>

LinkCreated ==
  /\ inviteCall # NoInviteCall /\ inviteCall.kind = "create" /\ inviteCall.step = "made"
  /\ invitations' = [invitations EXCEPT ![inviteCall.id] = "active"]
  /\ oneTimeLink' = inviteCall.id /\ created' = inviteCall.id
  /\ linkCrossed' = (copying # {})
  /\ inviteCall' = NoInviteCall
  /\ UNCHANGED <<invited, inviteLoad, inviteError, copying, copied, listCrossed>>

Revoke(i) ==
  /\ inviteCall = NoInviteCall /\ invitations[i] = "active"
  /\ inviteCall' = [kind |-> "revoke", id |-> i, step |-> "sent"] /\ inviteError' = ""
  /\ UNCHANGED <<invited, invitations, inviteLoad, oneTimeLink, copying, created, copied, linkCrossed, listCrossed>>

\* The server refuses to revoke what has been used, or has expired.
ServeInvitation ==
  /\ inviteCall # NoInviteCall /\ inviteCall.step = "sent"
  /\ inviteCall.kind = "revoke" => invited[inviteCall.id] = "active"
  /\ invited' = [invited EXCEPT ![inviteCall.id] = IF inviteCall.kind = "create" THEN "active" ELSE "revoked"]
  /\ inviteCall' = [inviteCall EXCEPT !.step = "made"]
  /\ UNCHANGED <<invitations, inviteLoad, inviteError, oneTimeLink, copying, created, copied, linkCrossed, listCrossed>>

\* Only its row is set, wherever it is.
Revoked ==
  /\ inviteCall # NoInviteCall /\ inviteCall.kind = "revoke" /\ inviteCall.step = "made"
  /\ invitations' = [invitations EXCEPT ![inviteCall.id] = IF @ = "none" THEN @ ELSE "revoked"]
  /\ inviteCall' = NoInviteCall
  /\ UNCHANGED <<invited, inviteLoad, inviteError, oneTimeLink, copying, created, copied, linkCrossed, listCrossed>>

\* Refused, or not answered. A refused revocation has the list loaded again; an
\* invitation that was made all the same has no link any more.
InviteFails ==
  /\ inviteCall # NoInviteCall /\ inviteCall.step # "reloading"
  /\ inviteError' = inviteCall.kind
  /\ IF inviteCall.kind = "revoke"
     THEN inviteLoad' = NewInviteLoad /\ inviteCall' = [inviteCall EXCEPT !.step = "reloading"]
     ELSE inviteCall' = NoInviteCall /\ UNCHANGED inviteLoad
  /\ UNCHANGED <<invited, invitations, oneTimeLink, copying, created, copied, linkCrossed, listCrossed>>

\* The buttons are enabled when it is there, or could not be loaded.
ReloadEnds ==
  /\ inviteCall # NoInviteCall /\ inviteCall.step = "reloading" /\ inviteLoad = NoInviteLoad
  /\ inviteCall' = NoInviteCall
  /\ UNCHANGED <<invited, invitations, inviteLoad, inviteError, oneTimeLink, copying, created, copied, linkCrossed,
                 listCrossed>>

\* Somebody uses a link, or seven days pass.
InvitationOver(i) ==
  /\ invited[i] = "active"
  /\ invited' = [invited EXCEPT ![i] = "over"]
  /\ UNCHANGED <<invitations, inviteLoad, inviteError, inviteCall, oneTimeLink, copying, created, copied, linkCrossed,
                 listCrossed>>

-----------------------------------------------------------------------------
(* The clipboard, which may ask the owner first.                           *)

CopyLink ==
  /\ oneTimeLink # NoLink /\ copying' = copying \cup {oneTimeLink}
  /\ UNCHANGED <<invited, invitations, inviteLoad, inviteError, inviteCall, oneTimeLink, created, copied, linkCrossed,
                 listCrossed>>

\* Whatever link is shown by now goes.
LinkCopied(i) ==
  /\ i \in copying /\ copying' = copying \ {i} /\ copied' = copied \cup {i}
  /\ oneTimeLink' = NoLink
  /\ UNCHANGED <<invited, invitations, inviteLoad, inviteError, inviteCall, created, linkCrossed, listCrossed>>

CopyFails(i) ==
  /\ i \in copying /\ copying' = copying \ {i} /\ inviteError' = "copy"
  /\ UNCHANGED <<invited, invitations, inviteLoad, inviteCall, oneTimeLink, created, copied, linkCrossed, listCrossed>>

-----------------------------------------------------------------------------
\* Invitations of another day.
InviteInit ==
  /\ invited \in {[NoInvitations EXCEPT ![1] = s] : s \in {"none", "active"}}
  /\ invitations = NoInvitations /\ inviteLoad = NewInviteLoad /\ inviteError = ""
  /\ inviteCall = NoInviteCall /\ oneTimeLink = NoLink /\ copying = {}
  /\ created = NoLink /\ copied = {} /\ linkCrossed = FALSE /\ listCrossed = FALSE

InviteNext ==
  \/ ReadInvitations \/ InvitationsShown \/ InvitationsLost \/ InviteFails \/ ReloadEnds
  \/ CreateLink \/ LinkCreated \/ ServeInvitation \/ Revoked \/ CopyLink
  \/ \E i \in InviteId : Revoke(i) \/ LinkCopied(i) \/ CopyFails(i) \/ InvitationOver(i)

InviteSpec == InviteInit /\ [][InviteNext]_inviteVars

-----------------------------------------------------------------------------
(* Properties.                                                             *)

\* A link that can be shown only once is there until it is copied, unless a copy of an
\* earlier one was still under way when it came; no other link is ever shown; and its
\* invitation is listed, unless a list read earlier came later.
LinkKept ==
  /\ created # NoLink =>
       /\ oneTimeLink = created \/ created \in copied \/ linkCrossed
       /\ invitations[created] # "none" \/ listCrossed
  /\ oneTimeLink \in {created, NoLink}
=============================================================================
